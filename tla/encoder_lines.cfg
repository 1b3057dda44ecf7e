SPECIFICATION Spec
CONSTANTS
  Procs = {p1, p2}
  Roots <- MCRoots
  Keys <- MCKeys
  Strings <- MCStrings
  Entries = {{"caller", "stack"}}
  NoBuffer = nobuffer
  MaxLoggers = 3
  MaxContext = 1
  MaxOps = 3
INVARIANTS TypeOK Exclusive LinesSayWhatWasMeant
PROPERTIES ContextsKept
SYMMETRY MCSymmetry
