---------------------------- MODULE EpochLifecycle ----------------------------
(***************************************************************************)
(* What the epoch manager promises, stated without workers, channels or    *)
(* timeouts: the set of epochs whose components it holds grows by an epoch *)
(* whose first block is finalized and whose grace period has not passed,   *)
(* and shrinks by an epoch only once its grace period is over. An epoch    *)
(* that was removed never comes back (epoch counters are single-use).      *)
(***************************************************************************)
EXTENDS Naturals

CONSTANTS MaxEpoch, EpochLen, Expiry, MaxHeight

VARIABLES
  final,    \* latest finalized height
  running,  \* epochs whose components are held
  ended     \* epochs whose components were stopped and released

vars == <<final, running, ended>>

Epochs == 0..MaxEpoch
FirstHeight(e) == e * EpochLen
\* first height at which no transaction referencing a block of e is valid
GraceEnd(e) == FirstHeight(e + 1) + Expiry

Init == /\ final \in 0..MaxHeight
        /\ running = {}
        /\ ended = {}

Finalize == /\ final < MaxHeight
            /\ final' = final + 1
            /\ UNCHANGED <<running, ended>>

Begin(e) == /\ e \notin running \cup ended
            /\ FirstHeight(e) <= final /\ final < GraceEnd(e)
            /\ running' = running \cup {e}
            /\ UNCHANGED <<final, ended>>

End(e) == /\ e \in running
          /\ final >= GraceEnd(e)
          /\ running' = running \ {e}
          /\ ended' = ended \cup {e}
          /\ UNCHANGED final

Next == Finalize \/ \E e \in Epochs : Begin(e) \/ End(e)

Spec == Init /\ [][Next]_vars
=============================================================================
