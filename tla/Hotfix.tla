------------------------------- MODULE Hotfix -------------------------------
(***************************************************************************)
(* hotfix/replace.h: functions are replaced by writing a jump over their   *)
(* first bytes, and restored from the bytes saved at the time.             *)
(*                                                                         *)
(* Memory is the text of the main program, always mapped, and the place    *)
(* where dlopen maps the patch library, mapped while g_handler is set; a   *)
(* byte there reads NoByte when it is not.  A patch is loaded with its own *)
(* code again, and at the same place: the properties promise nothing about *)
(* jumps and saved bytes that a load may find elsewhere.                   *)
(* Functions may be shorter than the jump, so jumps overlap.               *)
(***************************************************************************)
EXTENDS Integers, Sequences

CONSTANTS
  Main,        \* addresses of the main program's text
  Patch,       \* addresses of the patch library's text
  NoByte,
  JumpLen,     \* length of the jump (12)
  MaxPatched   \* length of g_patched_list (100)

ASSUME HotfixAssumption ==
  /\ Main \subseteq Nat /\ Patch \subseteq Nat /\ Main \cap Patch = {}
  /\ JumpLen \in Nat \ {0}
  /\ MaxPatched \in Nat

VARIABLES
  mem,     \* the byte at each address
  saved,   \* g_patched_list[0 .. g_patched_count - 1]
  handler, \* g_handler # NULL
  fate,    \* "up", or "segv" after an access to what is not mapped
  closed,  \* history: a patch was closed over jumps that are not restored
  unsaved  \* history: bytes of the main program's own code that
           \* replace_patch_func_* has written over

vars == <<mem, saved, handler, fate, closed, unsaved>>

-----------------------------------------------------------------------------
Addr == Main \cup Patch
Code(a) == [at |-> a, jump |-> FALSE, i |-> 0]
Jump(f, i) == [at |-> f, jump |-> TRUE, i |-> i]
Byte == [at : Addr, jump : BOOLEAN, i : 0 .. JumpLen - 1]

ASSUME NoByteAssumption == NoByte \notin Byte

(* The bytes that a jump at f takes, and the functions that have them. *)
Bytes(f) == f .. f + JumpLen - 1
Functions == {f \in Addr : Bytes(f) \subseteq Main \/ Bytes(f) \subseteq Patch}
Mapped(f) == Bytes(f) \subseteq Main \/ handler

Init ==
  /\ mem = [a \in Addr |-> IF a \in Main THEN Code(a) ELSE NoByte]
  /\ saved = <<>> /\ handler = FALSE /\ fate = "up"
  /\ closed = FALSE /\ unsaved = {}

-----------------------------------------------------------------------------
(* Mutant: the bytes are saved after the jump has been written. *)
SaveAfterwards(old) ==
  Append(saved, [addr |-> old, buf |-> [i \in 0 .. JumpLen - 1 |-> Jump(old, i)]])

(* buildJmpDirective: mprotect, save what is there, write the jump. *)
Save(old) == Append(saved, [addr |-> old,
                            buf |-> [i \in 0 .. JumpLen - 1 |-> mem[old + i]]])

WriteJump(old, new) ==
  mem' = [a \in Addr |-> IF a \in Bytes(old) THEN Jump(new, a - old) ELSE mem[a]]

(* Mutant: the limit is off by one. *)
ReplaceOffByOne(old, new) ==
  /\ Len(saved) <= MaxPatched
  /\ old # new /\ Mapped(old) /\ Mapped(new)
  /\ saved' = Save(old)
  /\ WriteJump(old, new)
  /\ UNCHANGED <<handler, fate, closed, unsaved>>

(* replace: by name or by address, of anything the process has mapped. *)
Replace(old, new) ==
  /\ Len(saved) < MaxPatched
  /\ old # new /\ Mapped(old) /\ Mapped(new)
  /\ saved' = Save(old)
  /\ WriteJump(old, new)
  /\ UNCHANGED <<handler, fate, closed, unsaved>>

(* The saved entries whose bytes take in the address a. *)
Covering(a) == {i \in 1 .. Len(saved) : a \in Bytes(saved[i].addr)}

(* replace_patch_func_new, _withaddr and replace_patch_func: nothing is    *)
(* saved, whether the function is one of the patch or, "at your own risk", *)
(* of the main program.                                                    *)
ReplacePatchFunc(old, new) ==
  /\ handler
  /\ old # new
  /\ WriteJump(old, new)
  /\ unsaved' = unsaved \cup {a \in Bytes(old) \cap Main : Covering(a) = {}}
  /\ UNCHANGED <<saved, handler, fate, closed>>

(* What dlclose and dlopen leave at address a of memory m. *)
Unmap(m) == [a \in Addr |-> IF a \in Patch THEN NoByte ELSE m[a]]
Map(m)   == [a \in Addr |-> IF a \in Patch THEN Code(a) ELSE m[a]]

(* open_patch: the old library is closed whatever comes of the new one,    *)
(* and whatever jumps lead to it or were written in it.                    *)
OpenPatch(ok) ==
  /\ handler' = ok
  /\ mem' = IF ok THEN Map(mem) ELSE Unmap(mem)
  /\ closed' = (closed \/ (handler /\ saved # <<>>))
  /\ UNCHANGED <<saved, fate, unsaved>>

(* Mutant: the loop runs upwards, and those of the latest stay. *)
EarliestUpwards(a) == CHOOSE i \in Covering(a) : \A j \in Covering(a) : j <= i

(* The saved bytes are copied back from the last to the first: at each      *)
(* address those of the earliest jump over it stay.                        *)
Earliest(a) == CHOOSE i \in Covering(a) : \A j \in Covering(a) : i <= j

CopyBack == [a \in Addr |->
  IF Covering(a) = {} THEN mem[a]
  ELSE saved[Earliest(a)].buf[a - saved[Earliest(a)].addr]]

(* Mutant: g_patched_count is not reset. *)
RestoreNoReset ==
  IF \A i \in 1 .. Len(saved) : Mapped(saved[i].addr)
  THEN /\ mem' = Unmap(CopyBack)
       /\ handler' = FALSE /\ closed' = FALSE
       /\ UNCHANGED <<fate, saved, unsaved>>
  ELSE fate' = "segv" /\ UNCHANGED <<mem, saved, handler, closed, unsaved>>

(* Mutant: the library is closed, the saved bytes are dropped. *)
RestoreCloseOnly ==
  /\ mem' = Unmap(mem)
  /\ saved' = <<>> /\ handler' = FALSE /\ closed' = FALSE
  /\ UNCHANGED <<fate, unsaved>>

(* restore. *)
Restore ==
  IF \A i \in 1 .. Len(saved) : Mapped(saved[i].addr)
  THEN /\ mem' = Unmap(CopyBack)
       /\ saved' = <<>> /\ handler' = FALSE /\ closed' = FALSE
       /\ UNCHANGED <<fate, unsaved>>
  ELSE fate' = "segv" /\ UNCHANGED <<mem, saved, handler, closed, unsaved>>

Next ==
  /\ fate = "up"
  /\ \/ \E old \in Functions, new \in Functions :
          Replace(old, new) \/ ReplacePatchFunc(old, new)
     \/ \E ok \in BOOLEAN : OpenPatch(ok)
     \/ Restore

Spec == Init /\ [][Next]_vars

-----------------------------------------------------------------------------
TypeOK ==
  /\ mem \in [Addr -> Byte \cup {NoByte}]
  /\ saved \in Seq([addr : Functions,
                    buf : [0 .. JumpLen - 1 -> Byte \cup {NoByte}]])
  /\ Len(saved) <= MaxPatched
  /\ handler \in BOOLEAN /\ fate \in {"up", "segv"}
  /\ closed \in BOOLEAN /\ unsaved \subseteq Main

(* "Restore, as if it had never happened" (comment of restore): when there *)
(* is nothing left to restore, the main program has its own code, also     *)
(* when jumps overlapped or one function was replaced more than once.      *)
(* What replace_patch_func_* wrote over it stays there.                    *)
AsIfNeverHappened ==
  saved = <<>> => \A a \in Main \ unsaved : mem[a] = Code(a)

(* The saved bytes are enough: at every address of the main program the    *)
(* earliest jump over it saved its own code, also when replace_patch_func_* *)
(* has written over that jump.                                             *)
Restorable ==
  \A a \in Main \ unsaved :
    IF Covering(a) = {} THEN mem[a] = Code(a)
    ELSE saved[Earliest(a)].buf[a - saved[Earliest(a)].addr] = Code(a)

(* A jump in code that is mapped leads to code that is mapped, unless it   *)
(* was never saved, or open_patch has closed a library over jumps that are *)
(* not restored.                                                           *)
JumpsLand ==
  ~closed =>
    \A a \in Addr \ unsaved :
      mem[a] # NoByte /\ mem[a].jump => mem[mem[a].at] # NoByte

(* Restore writes to memory that is not mapped only when open_patch has    *)
(* closed a library over jumps that are not restored.                      *)
FaultOnlyAfterReload == fate = "segv" => closed

(* Restore touches mapped memory only.                                     *)
NoFault == fate = "up"
=============================================================================
