--------------------------- MODULE MCTimeoutQueue ---------------------------
(* Callers for model-checking TimeoutQueue.                                 *)
EXTENDS TimeoutQueue

CONSTANTS c1, c2, slot1, slot2, slot3, slot4, slot5

Event(t, o) == [timer |-> t, oneshot |-> o]
TimersAndDescriptors == {Event(TRUE, FALSE), Event(FALSE, TRUE)}

=============================================================================
