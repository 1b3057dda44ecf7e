---------------------------- MODULE HotfixProofs ----------------------------
(***************************************************************************)
(* Theorems about Hotfix, for any layout of the two texts, any length of   *)
(* the jump and any length of g_patched_list.                              *)
(***************************************************************************)
EXTENDS Hotfix, TLAPS

USE HotfixAssumption

(* What is saved at index i for the address a. *)
SavedByte(i, a) == saved[i].buf[a - saved[i].addr]
IsFirst(i, a) == i \in Covering(a) /\ \A j \in Covering(a) : i <= j

(* Every covered address has a first jump over it (which makes the CHOOSE  *)
(* of Earliest meaningful), and for the main program that one saved the    *)
(* address's own code, but where this had been overwritten unsaved.        *)
HasFirst == \A a \in Addr : Covering(a) # {} => \E i \in Covering(a) : IsFirst(i, a)
OwnCode ==
  \A a \in Main \ unsaved :
    /\ Covering(a) = {} => mem[a] = Code(a)
    /\ \A i \in Covering(a) : IsFirst(i, a) => SavedByte(i, a) = Code(a)
RestoreInv == HasFirst /\ OwnCode

LEMMA EarliestIsFirst ==
  ASSUME NEW a, NEW i, IsFirst(i, a)
  PROVE  Earliest(a) = i
<1>1. Earliest(a) \in Covering(a) /\ \A j \in Covering(a) : Earliest(a) <= j
  BY DEF Earliest, IsFirst
<1>2. Covering(a) \subseteq Int
  BY DEF Covering
<1>3. i \in Int /\ Earliest(a) \in Int /\ Earliest(a) <= i /\ i <= Earliest(a)
  BY <1>1, <1>2 DEF IsFirst
<1> QED
  BY ONLY <1>3

LEMMA InvGivesRestorable == RestoreInv => Restorable
BY EarliestIsFirst DEF RestoreInv, HasFirst, OwnCode, Restorable, SavedByte, Addr

-----------------------------------------------------------------------------
LEMMA AddrNat == Addr \subseteq Nat
BY DEF Addr

LEMMA FunctionBytes ==
  ASSUME NEW f \in Functions
  PROVE  /\ f \in Addr /\ f \in Nat /\ f \in Bytes(f)
         /\ Bytes(f) \subseteq Addr /\ Bytes(f) \subseteq Nat
         /\ \A a \in Bytes(f) : a - f \in 0 .. JumpLen - 1
         /\ \A i \in 0 .. JumpLen - 1 : f + i \in Bytes(f)
BY AddrNat DEF Functions, Bytes, Addr

LEMMA CodeType == \A a \in Addr : Code(a) \in Byte
BY DEF Code, Byte

LEMMA JumpType ==
  ASSUME NEW f \in Functions, NEW g \in Functions, NEW a \in Bytes(f)
  PROVE  Jump(g, a - f) \in Byte
BY FunctionBytes DEF Jump, Byte

Saved == [addr : Functions, buf : [0 .. JumpLen - 1 -> Byte \cup {NoByte}]]

LEMMA SaveType ==
  ASSUME TypeOK, NEW old \in Functions
  PROVE  /\ Save(old) \in Seq(Saved) /\ Len(Save(old)) = Len(saved) + 1
         /\ Save(old)[Len(saved) + 1].addr = old
         /\ \A i \in 0 .. JumpLen - 1 : Save(old)[Len(saved) + 1].buf[i] = mem[old + i]
         /\ \A i \in 1 .. Len(saved) : Save(old)[i] = saved[i]
<1> DEFINE new == [addr |-> old, buf |-> [i \in 0 .. JumpLen - 1 |-> mem[old + i]]]
<1>1. new \in Saved
  BY FunctionBytes DEF TypeOK, Saved
<1>2. saved \in Seq(Saved) /\ Save(old) = Append(saved, new)
  BY DEF TypeOK, Saved, Save
<1>3. \A i \in 0 .. JumpLen - 1 : new.buf[i] = mem[old + i]
  OBVIOUS
<1>4. new.addr = old
  OBVIOUS
<1> HIDE DEF new
<1> QED
  BY <1>1, <1>2, <1>3, <1>4

LEMMA CopyBackType ==
  ASSUME TypeOK, HasFirst
  PROVE  CopyBack \in [Addr -> Byte \cup {NoByte}]
<1>1. SUFFICES ASSUME NEW a \in Addr, NEW i \in Covering(a), Earliest(a) = i
               PROVE  SavedByte(i, a) \in Byte \cup {NoByte}
  BY EarliestIsFirst DEF TypeOK, CopyBack, HasFirst, SavedByte
<1>2. i \in 1 .. Len(saved) /\ a \in Bytes(saved[i].addr)
  BY DEF Covering
<1>3. saved[i] \in Saved
  <2>1. saved \in Seq(Saved)
    BY DEF TypeOK, Saved
  <2> QED
    BY ONLY <1>2, <2>1
<1>4. a - saved[i].addr \in 0 .. JumpLen - 1
  BY <1>2, <1>3, FunctionBytes DEF Saved
<1> QED
  BY <1>3, <1>4 DEF Saved, SavedByte

LEMMA StepType == TypeOK /\ HasFirst /\ [Next]_vars => TypeOK'
<1> SUFFICES ASSUME TypeOK, HasFirst, [Next]_vars PROVE TypeOK'
  OBVIOUS
<1>0. mem \in [Addr -> Byte \cup {NoByte}]
  BY DEF TypeOK
<1>1. ASSUME NEW old \in Functions, NEW new \in Functions, WriteJump(old, new)
      PROVE  mem' \in [Addr -> Byte \cup {NoByte}]
  BY <1>0, <1>1, JumpType DEF WriteJump
<1>2. ASSUME NEW old \in Functions, NEW new \in Functions, Replace(old, new)
      PROVE  TypeOK'
  <2>1. saved' \in Seq(Saved) /\ Len(saved') <= MaxPatched
    BY <1>2, SaveType DEF Replace, TypeOK
  <2> QED
    BY <1>1, <1>2, <2>1 DEF Replace, TypeOK, Saved
<1>3. ASSUME NEW old \in Functions, NEW new \in Functions, ReplacePatchFunc(old, new)
      PROVE  TypeOK'
  <2>1. unsaved' \subseteq Main
    BY <1>3 DEF ReplacePatchFunc, TypeOK
  <2> QED
    BY <1>1, <1>3, <2>1 DEF ReplacePatchFunc, TypeOK
<1>4. ASSUME NEW ok \in BOOLEAN, OpenPatch(ok) PROVE TypeOK'
  <2>1. mem' \in [Addr -> Byte \cup {NoByte}]
    BY <1>0, <1>4, CodeType DEF OpenPatch, Map, Unmap
  <2> QED
    BY <1>4, <2>1 DEF OpenPatch, TypeOK
<1>5. CASE Restore
  <2>1. Unmap(CopyBack) \in [Addr -> Byte \cup {NoByte}]
    BY CopyBackType DEF Unmap
  <2>2. CASE /\ mem' = Unmap(CopyBack) /\ saved' = <<>> /\ handler' = FALSE
             /\ closed' = FALSE /\ fate' = fate /\ unsaved' = unsaved
    <3>1. saved' \in Seq(Saved) /\ Len(saved') = 0
      BY ONLY <2>2
    <3>2. mem' \in [Addr -> Byte \cup {NoByte}]
      BY <2>1, <2>2
    <3>3. handler' \in BOOLEAN /\ fate' \in {"up", "segv"} /\ closed' \in BOOLEAN
      BY <2>2 DEF TypeOK
    <3>4. Len(saved') <= MaxPatched /\ unsaved' \subseteq Main
      BY <2>2, <3>1 DEF TypeOK
    <3> QED
      BY <3>1, <3>2, <3>3, <3>4 DEF TypeOK, Saved
  <2>3. CASE fate' = "segv" /\ UNCHANGED <<mem, saved, handler, closed, unsaved>>
    BY <2>3 DEF TypeOK
  <2> QED
    BY <1>5, <2>2, <2>3 DEF Restore
<1>6. CASE UNCHANGED vars
  BY <1>6 DEF vars, TypeOK
<1> QED
  BY <1>2, <1>3, <1>4, <1>5, <1>6 DEF Next

-----------------------------------------------------------------------------
(* A replacement saves what is there before it writes. *)
LEMMA ReplaceRestore ==
  ASSUME TypeOK, RestoreInv, NEW old \in Functions, NEW new \in Functions,
         Replace(old, new)
  PROVE  RestoreInv'
<1> DEFINE n == Len(saved) + 1
<1>1. /\ saved' = Save(old) /\ n \in Nat
      /\ mem' = [a \in Addr |-> IF a \in Bytes(old) THEN Jump(new, a - old) ELSE mem[a]]
  BY DEF Replace, WriteJump, TypeOK
<1>2. /\ Len(saved') = n /\ saved'[n].addr = old
      /\ \A i \in 0 .. JumpLen - 1 : saved'[n].buf[i] = mem[old + i]
      /\ \A i \in 1 .. Len(saved) : saved'[i] = saved[i]
  BY <1>1, SaveType
<1>3. ASSUME NEW a
      PROVE  Covering(a)' = Covering(a) \cup (IF a \in Bytes(old) THEN {n} ELSE {})
  BY <1>1, <1>2 DEF Covering, Bytes
<1>4. \A a : Covering(a) \subseteq 1 .. Len(saved)
  BY DEF Covering
<1>5. ASSUME NEW a, NEW i \in Covering(a)
      PROVE  IsFirst(i, a)' <=> IsFirst(i, a)
  BY <1>1, <1>3, <1>4 DEF IsFirst
<1>6. ASSUME NEW a, NEW i \in Covering(a)
      PROVE  SavedByte(i, a)' = SavedByte(i, a)
  BY <1>2, <1>4 DEF SavedByte
<1>7. HasFirst'
  <2>1. SUFFICES ASSUME NEW a \in Addr, Covering(a)' # {}
                 PROVE  \E i \in Covering(a)' : IsFirst(i, a)'
    BY DEF HasFirst
  <2>2. CASE Covering(a) = {}
    <3>1. Covering(a)' = {n}
      BY <1>3, <2>1, <2>2
    <3> QED
      BY <1>1, <3>1 DEF IsFirst
  <2>3. CASE Covering(a) # {}
    <3>1. PICK i \in Covering(a) : IsFirst(i, a)
      BY <2>3 DEF RestoreInv, HasFirst
    <3> QED
      BY <1>3, <1>5, <3>1
  <2> QED
    BY <2>2, <2>3
<1>8. OwnCode'
  <2>0. unsaved' = unsaved
    BY DEF Replace
  <2>1. SUFFICES ASSUME NEW a \in Main \ unsaved
                 PROVE  /\ Covering(a)' = {} => mem'[a] = Code(a)
                        /\ \A i \in Covering(a)' :
                             IsFirst(i, a)' => SavedByte(i, a)' = Code(a)
    BY <2>0 DEF OwnCode, Code
  <2>2. a \in Addr
    BY DEF Addr
  <2>3. ASSUME Covering(a)' = {} PROVE mem'[a] = Code(a)
    <3>1. Covering(a) = {} /\ a \notin Bytes(old)
      BY <1>3, <2>3
    <3> QED
      BY <1>1, <2>2, <3>1 DEF RestoreInv, OwnCode
  <2>4. ASSUME NEW i \in Covering(a)', IsFirst(i, a)'
        PROVE  SavedByte(i, a)' = Code(a)
    <3>1. CASE i \in Covering(a)
      BY <1>5, <1>6, <2>4, <3>1 DEF RestoreInv, OwnCode
    <3>2. CASE i \notin Covering(a)
      <4>1. i = n /\ a \in Bytes(old)
        BY <1>3, <3>2
      <4>2. Covering(a) = {}
        BY <1>1, <1>3, <1>4, <2>4, <4>1 DEF IsFirst
      <4>3. a - old \in 0 .. JumpLen - 1 /\ old + (a - old) = a
        BY <4>1, FunctionBytes
      <4>4. SavedByte(i, a)' = mem[a]
        BY <1>2, <4>1, <4>3 DEF SavedByte
      <4> QED
        BY <4>2, <4>4 DEF RestoreInv, OwnCode
    <3> QED
      BY <3>1, <3>2
  <2> QED
    BY <2>3, <2>4
<1> QED
  BY <1>7, <1>8 DEF RestoreInv

(* Steps that leave what is saved alone, and the main program where there  *)
(* is no jump, or that write over it unsaved.                              *)
LEMMA SameMain ==
  ASSUME RestoreInv, saved' = saved, unsaved \subseteq unsaved',
         \A a \in Main \ unsaved' : Covering(a) = {} => mem'[a] = mem[a]
  PROVE  RestoreInv'
BY DEF RestoreInv, HasFirst, OwnCode, Covering, IsFirst, SavedByte, Bytes, Code

(* After Restore the main program has its own code. *)
LEMMA CopyBackOwn ==
  ASSUME RestoreInv, NEW a \in Main \ unsaved
  PROVE  Unmap(CopyBack)[a] = Code(a)
<1>1. a \in Addr /\ a \notin Patch
  BY DEF Addr
<1>2. CASE Covering(a) = {}
  BY <1>1, <1>2 DEF RestoreInv, OwnCode, CopyBack, Unmap
<1>3. CASE Covering(a) # {}
  <2>1. PICK i \in Covering(a) : IsFirst(i, a)
    BY <1>1, <1>3 DEF RestoreInv, HasFirst
  <2>2. Earliest(a) = i /\ SavedByte(i, a) = Code(a)
    BY <2>1, EarliestIsFirst DEF RestoreInv, OwnCode
  <2> QED
    BY <1>1, <1>3, <2>2 DEF CopyBack, Unmap, SavedByte
<1> QED
  BY <1>2, <1>3

LEMMA StepRestore == ASSUME TypeOK, RestoreInv, [Next]_vars PROVE RestoreInv'
<1>1. ASSUME NEW old \in Functions, NEW new \in Functions, Replace(old, new)
      PROVE  RestoreInv'
  BY <1>1, ReplaceRestore
<1>2. ASSUME NEW old \in Functions, NEW new \in Functions, ReplacePatchFunc(old, new)
      PROVE  RestoreInv'
  <2>1. /\ saved' = saved
        /\ mem' = [a \in Addr |-> IF a \in Bytes(old) THEN Jump(new, a - old) ELSE mem[a]]
        /\ unsaved' = unsaved \cup {a \in Bytes(old) \cap Main : Covering(a) = {}}
    BY <1>2 DEF ReplacePatchFunc, WriteJump
  <2>2. \A a \in Main \ unsaved' : Covering(a) = {} => mem'[a] = mem[a]
    BY <2>1 DEF Addr
  <2> QED
    BY <2>1, <2>2, SameMain
<1>3. ASSUME NEW ok \in BOOLEAN, OpenPatch(ok) PROVE RestoreInv'
  BY <1>3, SameMain DEF OpenPatch, Map, Unmap, Addr
<1>4. CASE Restore
  <2>1. CASE saved' = <<>> /\ mem' = Unmap(CopyBack) /\ unsaved' = unsaved
    <3>1. \A a : Covering(a)' = {}
      BY <2>1 DEF Covering
    <3> QED
      BY <2>1, <3>1, CopyBackOwn DEF RestoreInv, HasFirst, OwnCode, Code
  <2>2. CASE UNCHANGED <<mem, saved, unsaved>>
    BY <2>2, SameMain
  <2> QED
    BY <1>4, <2>1, <2>2 DEF Restore
<1>5. CASE UNCHANGED vars
  BY <1>5, SameMain DEF vars
<1> QED
  BY <1>1, <1>2, <1>3, <1>4, <1>5 DEF Next

LEMMA NothingCovered == ASSUME saved = <<>> PROVE \A a : Covering(a) = {}
<1>1. Len(saved) = 0
  OBVIOUS
<1> QED
  BY <1>1 DEF Covering

LEMMA InitHotfix == Init => TypeOK /\ RestoreInv
<1> SUFFICES ASSUME Init PROVE TypeOK /\ RestoreInv
  OBVIOUS
<1>1. mem = [a \in Addr |-> IF a \in Main THEN Code(a) ELSE NoByte] /\ saved = <<>>
  BY DEF Init
<1>2. saved \in Seq(Saved) /\ Len(saved) = 0
  BY ONLY <1>1
<1>3. TypeOK
  <2>1. mem \in [Addr -> Byte \cup {NoByte}]
    BY <1>1, CodeType
  <2>2. Len(saved) <= MaxPatched
    BY <1>2
  <2> QED
    BY <1>2, <2>1, <2>2 DEF Init, TypeOK, Saved
<1>4. RestoreInv
  BY <1>1, NothingCovered DEF RestoreInv, HasFirst, OwnCode, Addr
<1> QED
  BY <1>3, <1>4

LEMMA HotfixInvariant == Spec => [](TypeOK /\ RestoreInv)
<1>1. TypeOK /\ RestoreInv /\ [Next]_vars => (TypeOK /\ RestoreInv)'
  BY StepType, StepRestore DEF RestoreInv
<1> QED
  BY <1>1, InitHotfix, PTL DEF Spec

(* Bytes and saved entries keep their type, and g_patched_list its bound.  *)
THEOREM TypeCorrect == Spec => []TypeOK
BY HotfixInvariant, PTL

(* Nothing to restore means nothing was changed, but by                    *)
(* replace_patch_func_*: the comment of restore holds, however the jumps   *)
(* overlapped.                                                             *)
THEOREM RestoreUndoes == Spec => []AsIfNeverHappened
<1>1. RestoreInv => AsIfNeverHappened
  BY NothingCovered DEF RestoreInv, OwnCode, AsIfNeverHappened
<1> QED
  BY <1>1, HotfixInvariant, PTL

(* At any time the saved bytes are enough to bring the main program back.  *)
THEOREM AlwaysRestorable == Spec => []Restorable
BY InvGivesRestorable, HotfixInvariant, PTL

-----------------------------------------------------------------------------
(* What restore touches, and where jumps lead, as long as no patch has     *)
(* been closed over jumps that are not restored; what was saved of the     *)
(* main program was mapped.                                                *)
SavedMapped == \A i \in 1 .. Len(saved) : Mapped(saved[i].addr)
Loaded == \A a \in Addr : mem[a] = NoByte <=> a \in Patch /\ ~handler
SavedReal == \A a \in Main : \A i \in Covering(a) : SavedByte(i, a) # NoByte
Landed ==
  \A a \in Addr \ unsaved :
    mem[a] # NoByte /\ mem[a].jump => mem[mem[a].at] # NoByte
LandInv ==
  /\ Loaded
  /\ SavedReal
  /\ ~closed => SavedMapped /\ Landed
  /\ FaultOnlyAfterReload

LEMMA InitLand == Init => LandInv
<1> SUFFICES ASSUME Init PROVE LandInv
  OBVIOUS
<1>1. mem = [a \in Addr |-> IF a \in Main THEN Code(a) ELSE NoByte]
  BY DEF Init
<1>2. SavedMapped
  <2>1. saved = <<>>
    BY DEF Init
  <2>2. Len(saved) = 0
    BY ONLY <2>1
  <2> QED
    BY <2>2 DEF SavedMapped
<1>3. Loaded
  BY <1>1, CodeType, NoByteAssumption DEF Init, Loaded, Addr
<1>4. Landed
  BY <1>1 DEF Landed, Code
<1> QED
  BY <1>2, <1>3, <1>4, NothingCovered DEF Init, LandInv, SavedReal, FaultOnlyAfterReload

(* A jump written over mapped code to mapped code. *)
LEMMA WriteLand ==
  ASSUME TypeOK, Loaded, NEW old \in Functions, NEW new \in Functions,
         Mapped(old), Mapped(new), WriteJump(old, new), handler' = handler,
         unsaved \subseteq unsaved'
  PROVE  Loaded' /\ (Landed => Landed')
<1>1. /\ \A a \in Bytes(old) : mem'[a] = Jump(new, a - old)
      /\ \A a \in Addr \ Bytes(old) : mem'[a] = mem[a]
  BY FunctionBytes DEF WriteJump
<1>2. \A a \in Bytes(old) : mem'[a] # NoByte
  BY <1>1, JumpType, NoByteAssumption
<1>3. \A a \in Bytes(old) : ~(a \in Patch /\ ~handler)
  BY DEF Mapped
<1>4. Loaded'
  BY <1>1, <1>2, <1>3 DEF Loaded
<1>5. new \in Addr /\ mem[new] # NoByte
  BY FunctionBytes DEF Mapped, Loaded
<1>6. \A a \in Addr : mem[a] # NoByte => mem'[a] # NoByte
  BY <1>1, <1>2
<1>7. ASSUME Landed PROVE Landed'
  <2>1. SUFFICES ASSUME NEW a \in Addr \ unsaved, mem'[a] # NoByte, mem'[a].jump
                 PROVE  mem'[mem'[a].at] # NoByte
    BY DEF Landed
  <2>2. CASE a \in Bytes(old)
    <3>1. mem'[a].at = new
      <4>1. Jump(new, a - old).at = new
        BY DEF Jump
      <4> QED
        BY <1>1, <2>2, <4>1
    <3> QED
      BY <1>5, <1>6, <3>1
  <2>3. CASE a \notin Bytes(old)
    <3>1. mem'[a] = mem[a] /\ mem[mem[a].at] # NoByte
      BY <1>1, <1>7, <2>1, <2>3 DEF Landed
    <3>2. mem[a] \in Byte
      BY <2>1, <3>1 DEF TypeOK
    <3> QED
      BY <1>6, <3>1, <3>2 DEF Byte
  <2> QED
    BY <2>2, <2>3
<1> QED
  BY <1>4, <1>7

(* Memory in which the main program has its own code, where it was not     *)
(* overwritten unsaved, and the patch, if it is loaded, its own.           *)
LEMMA CleanLand ==
  ASSUME \A a \in Main : mem'[a] # NoByte,
         \A a \in Main \ unsaved' : mem'[a] = Code(a),
         \A a \in Patch : mem'[a] = IF handler' THEN Code(a) ELSE NoByte
  PROVE  Loaded' /\ Landed'
<1>1. \A a \in Addr : Code(a) # NoByte
  BY CodeType, NoByteAssumption
<1>2. Loaded'
  BY <1>1 DEF Loaded, Addr
<1>3. \A a \in Addr : ~Code(a).jump
  BY DEF Code
<1>4. Landed'
  BY <1>1, <1>3 DEF Landed, Addr
<1> QED
  BY <1>2, <1>4

(* The step and its handler, when the patch's memory is as loaded. *)
LEMMA OpenLoaded ==
  ASSUME Loaded, NEW ok \in BOOLEAN, OpenPatch(ok), mem \in [Addr -> Byte \cup {NoByte}]
  PROVE  Loaded'
<1>1. \A a \in Addr : Code(a) # NoByte
  BY CodeType, NoByteAssumption
<1> QED
  BY <1>1 DEF OpenPatch, Map, Unmap, Loaded, Addr

LEMMA SameReal == ASSUME SavedReal, saved' = saved PROVE SavedReal'
BY DEF SavedReal, SavedByte, Covering, Bytes

LEMMA NothingSaved == ASSUME saved' = <<>> PROVE SavedReal'
<1>1. Len(saved') = 0
  OBVIOUS
<1> QED
  BY <1>1 DEF SavedReal, Covering

(* What restore leaves of the main program is mapped.                      *)
LEMMA CopyBackReal ==
  ASSUME RestoreInv, Loaded, SavedReal, NEW a \in Main
  PROVE  Unmap(CopyBack)[a] # NoByte
<1>1. a \in Addr /\ a \notin Patch /\ mem[a] # NoByte
  BY DEF Loaded, Addr
<1>2. CASE Covering(a) = {}
  BY <1>1, <1>2 DEF CopyBack, Unmap
<1>3. CASE Covering(a) # {}
  <2>1. PICK i \in Covering(a) : IsFirst(i, a)
    BY <1>1, <1>3 DEF RestoreInv, HasFirst
  <2>2. Earliest(a) = i /\ SavedByte(i, a) # NoByte
    BY <2>1, EarliestIsFirst DEF SavedReal
  <2> QED
    BY <1>1, <1>3, <2>2 DEF CopyBack, Unmap, SavedByte
<1> QED
  BY <1>2, <1>3

LEMMA StepLand ==
  ASSUME fate = "up", TypeOK, RestoreInv, LandInv, Next
  PROVE  LandInv'
<1>1. ASSUME NEW old \in Functions, NEW new \in Functions, Replace(old, new)
      PROVE  LandInv'
  <2>1. Loaded' /\ (Landed => Landed')
    BY <1>1, WriteLand DEF Replace, LandInv
  <2>2. SavedMapped => SavedMapped'
    <3>1. /\ saved' = Save(old) /\ handler' = handler /\ Mapped(old)
      BY <1>1 DEF Replace
    <3>2. Len(saved) \in Nat
      BY DEF TypeOK
    <3>3. ASSUME SavedMapped, NEW i \in 1 .. Len(saved') PROVE Mapped(saved'[i].addr)
      <4>1. CASE i \in 1 .. Len(saved)
        BY <3>1, <3>3, <4>1, SaveType DEF SavedMapped
      <4>2. CASE i = Len(saved) + 1
        BY <3>1, <4>2, SaveType
      <4> QED
        BY <3>1, <3>2, <3>3, <4>1, <4>2, SaveType
    <3> QED
      BY <3>1, <3>3 DEF SavedMapped, Mapped, Bytes
  <2>3. closed' = closed /\ fate' = fate
    BY <1>1 DEF Replace
  <2>4. SavedReal'
    <3>1. /\ saved' = Save(old) /\ Len(saved) \in Nat
      BY <1>1 DEF Replace, TypeOK
    <3>2. SUFFICES ASSUME NEW a \in Main, NEW i \in Covering(a)'
                   PROVE  SavedByte(i, a)' # NoByte
      BY DEF SavedReal
    <3>3. i \in 1 .. Len(saved') /\ a \in Bytes(saved'[i].addr)
      BY <3>2 DEF Covering, Bytes
    <3>4. CASE i \in 1 .. Len(saved)
      <4>1. saved'[i] = saved[i]
        BY <3>1, <3>4, SaveType
      <4>2. i \in Covering(a)
        BY <3>3, <3>4, <4>1 DEF Covering
      <4>3. SavedByte(i, a)' = SavedByte(i, a)
        BY <4>1 DEF SavedByte
      <4> QED
        BY <4>2, <4>3 DEF LandInv, SavedReal
    <3>5. CASE i = Len(saved) + 1
      <4>1. saved'[i].addr = old
        BY <3>1, <3>5, SaveType
      <4>2. a \in Bytes(old)
        BY <3>3, <4>1 DEF Bytes
      <4>3. a - old \in 0 .. JumpLen - 1 /\ old + (a - old) = a
        BY <4>2, FunctionBytes
      <4>4. SavedByte(i, a)' = mem[a]
        BY <3>1, <3>5, <4>1, <4>3, SaveType DEF SavedByte
      <4> QED
        BY <4>4 DEF LandInv, Loaded, Addr
    <3> QED
      BY <3>1, <3>3, <3>4, <3>5, SaveType
  <2> QED
    BY <2>1, <2>2, <2>3, <2>4 DEF LandInv, FaultOnlyAfterReload
<1>2. ASSUME NEW old \in Functions, NEW new \in Functions, ReplacePatchFunc(old, new)
      PROVE  LandInv'
  <2>1. handler /\ handler' = handler /\ saved' = saved /\ fate' = fate /\ closed' = closed
    BY <1>2 DEF ReplacePatchFunc
  <2>2. Loaded' /\ (Landed => Landed')
    BY <1>2, <2>1, WriteLand DEF ReplacePatchFunc, LandInv, Mapped
  <2>3. (SavedMapped => SavedMapped') /\ SavedReal'
    BY <2>1, SameReal DEF SavedMapped, Mapped, Bytes, LandInv
  <2> QED
    BY <2>1, <2>2, <2>3 DEF LandInv, FaultOnlyAfterReload
<1>3. ASSUME NEW ok \in BOOLEAN, OpenPatch(ok) PROVE LandInv'
  <2>1. /\ saved' = saved /\ fate' = fate /\ handler' = ok
        /\ mem' = IF ok THEN Map(mem) ELSE Unmap(mem)
        /\ closed' = (closed \/ (handler /\ saved # <<>>))
        /\ unsaved' = unsaved
    BY <1>3 DEF OpenPatch
  <2>2. Loaded'
    BY <1>3, OpenLoaded DEF TypeOK, LandInv
  <2>3. ASSUME ~closed', saved = <<>> PROVE SavedMapped' /\ Landed'
    <3>1. \A a \in Main \ unsaved : mem[a] = Code(a)
      BY <2>3, NothingCovered DEF RestoreInv, OwnCode
    <3>2. \A a \in Main \ unsaved' : mem'[a] = Code(a)
      BY <2>1, <3>1 DEF Map, Unmap, Addr
    <3>6. \A a \in Main : mem'[a] # NoByte
      BY <2>2 DEF Loaded, Addr
    <3>3. \A a \in Patch : mem'[a] = IF handler' THEN Code(a) ELSE NoByte
      BY <2>1 DEF Map, Unmap, Addr
    <3>4. Len(saved') = 0
      BY ONLY <2>1, <2>3
    <3>5. SavedMapped'
      BY <3>4 DEF SavedMapped
    <3> QED
      BY <3>2, <3>3, <3>5, <3>6, CleanLand
  <2>4. ASSUME ~closed', saved # <<>> PROVE SavedMapped' /\ Landed'
    <3>1. ~handler /\ ~closed
      BY <2>1, <2>4 DEF TypeOK
    <3>2. SavedMapped /\ Landed
      BY <3>1 DEF LandInv
    <3>3. SavedMapped'
      BY <2>1, <3>1, <3>2 DEF SavedMapped, Mapped, Bytes
    <3>4. \A a \in Main : mem'[a] = mem[a] /\ a \in Addr
      BY <2>1 DEF Map, Unmap, Addr
    <3>5. \A a \in Patch : mem[a] = NoByte
      BY <3>1 DEF LandInv, Loaded, Addr
    <3>6. \A a \in Patch : mem'[a] = NoByte \/ mem'[a] = Code(a)
      BY <2>1 DEF Map, Unmap, Addr
    <3>7. \A a \in Addr : ~Code(a).jump
      BY DEF Code
    <3>8. SUFFICES ASSUME NEW a \in Addr \ unsaved, mem'[a] # NoByte, mem'[a].jump
                   PROVE  mem'[mem'[a].at] # NoByte
      BY <2>1, <3>3 DEF Landed
    <3>9. a \in Main
      BY <3>6, <3>7, <3>8 DEF Addr
    <3>10. mem'[a] = mem[a] /\ mem[mem[a].at] # NoByte
      BY <3>2, <3>4, <3>8, <3>9 DEF Landed
    <3>11. mem[a].at \in Addr
      BY <3>8, <3>10 DEF TypeOK, Byte
    <3>12. mem[a].at \in Main
      BY <3>5, <3>10, <3>11 DEF Addr
    <3> QED
      BY <3>4, <3>10, <3>12
  <2>5. FaultOnlyAfterReload' /\ SavedReal'
    BY <2>1, SameReal DEF FaultOnlyAfterReload, LandInv
  <2> QED
    BY <2>2, <2>3, <2>4, <2>5 DEF LandInv
<1>4. CASE Restore
  <2>1. CASE /\ saved' = <<>> /\ handler' = FALSE /\ fate' = fate
             /\ mem' = Unmap(CopyBack) /\ closed' = FALSE /\ unsaved' = unsaved
    <3>1. \A a \in Main \ unsaved' : mem'[a] = Code(a)
      BY <2>1, CopyBackOwn
    <3>5. \A a \in Main : mem'[a] # NoByte
      BY <2>1, CopyBackReal DEF LandInv
    <3>6. SavedReal'
      BY <2>1, NothingSaved
    <3>2. \A a \in Patch : mem'[a] = IF handler' THEN Code(a) ELSE NoByte
      BY <2>1 DEF Unmap, Addr
    <3>3. Len(saved') = 0
      BY ONLY <2>1
    <3>4. SavedMapped'
      BY <3>3 DEF SavedMapped
    <3> QED
      BY <2>1, <3>1, <3>2, <3>4, <3>5, <3>6, CleanLand DEF LandInv, FaultOnlyAfterReload
  <2>2. CASE ~SavedMapped /\ UNCHANGED <<mem, saved, handler, closed, unsaved>>
    <3>1. closed
      BY <2>2 DEF LandInv
    <3>2. Loaded' /\ SavedReal' /\ FaultOnlyAfterReload'
      BY <2>2, <3>1, SameReal DEF LandInv, Loaded, FaultOnlyAfterReload
    <3> QED
      BY <2>2, <3>1, <3>2 DEF LandInv
  <2> QED
    BY <1>4, <2>1, <2>2 DEF Restore, SavedMapped
<1> QED
  BY <1>1, <1>2, <1>3, <1>4 DEF Next

LEMMA StutterLand == LandInv /\ UNCHANGED vars => LandInv'
BY SameReal DEF vars, LandInv, SavedMapped, Loaded, Landed, FaultOnlyAfterReload, Mapped, Bytes

LEMMA LandInvariant == Spec => []LandInv
<1>1. TypeOK /\ RestoreInv /\ LandInv /\ [Next]_vars => LandInv'
  <2>1. Next => fate = "up"
    BY DEF Next
  <2> QED
    BY <2>1, StepLand, StutterLand
<1>2. Spec => [](TypeOK /\ RestoreInv)
  BY HotfixInvariant
<1> QED
  BY <1>1, <1>2, InitLand, PTL DEF Spec

(* No jump leads into a library that has been closed, unless open_patch    *)
(* closed it over jumps that are not restored...                           *)
THEOREM JumpsStayMapped == Spec => []JumpsLand
<1>1. LandInv => JumpsLand
  BY DEF LandInv, Landed, JumpsLand
<1> QED
  BY <1>1, LandInvariant, PTL

(* ... and that is also the only way in which restore writes to an address *)
(* that is not mapped.                                                     *)
THEOREM RestoreFaultsOnlyAfterReload == Spec => []FaultOnlyAfterReload
<1>1. LandInv => FaultOnlyAfterReload
  BY DEF LandInv
<1> QED
  BY <1>1, LandInvariant, PTL
=============================================================================
