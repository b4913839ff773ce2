--------------------------- MODULE PriorityInversion ---------------------------
(***************************************************************************)
(* What the two priority inversion programs share: how long their threads  *)
(* spin, and the clock they spin by.                                       *)
(***************************************************************************)
EXTENDS Standalone

CONSTANTS
  Hold,        \* HOLD_NS
  Med,         \* MED_NS
  MaxLate      \* bound on how late usleep returns, or a spinning thread sees
               \* that its time is up

ASSUME TimeAssumption ==
  Hold \in Nat \ {0} /\ Med \in Nat \ {0} /\ MaxLate \in Nat

VARIABLE clock   \* CLOCK_MONOTONIC

Free == "nobody"   \* owner of a mutex that is not locked
==============================================================================
