----------------------------- MODULE MessagePool -----------------------------
(***************************************************************************)
(* What a data pool promises about its data, whatever its storage, its     *)
(* direct hand-over and its wake-ups: each message put is pending until it *)
(* is returned by one dpool:get or dropped, and it leaves the pool once.   *)
(* The order of delivery is not promised.                                  *)
(***************************************************************************)
EXTENDS Naturals

VARIABLES
    sent,       \* number of messages put; message m is the m-th one
    pending,    \* messages on their way
    delivered,  \* messages returned by dpool:get
    dropped     \* messages refused by the put_on_full callback or an interrupt

vars == <<sent, pending, delivered, dropped>>

Init ==
    /\ sent = 0
    /\ pending = {}
    /\ delivered = {}
    /\ dropped = {}

Put ==
    /\ sent' = sent + 1
    /\ pending' = pending \cup {sent + 1}
    /\ UNCHANGED <<delivered, dropped>>

Deliver(m) ==
    /\ pending' = pending \ {m}
    /\ delivered' = delivered \cup {m}
    /\ UNCHANGED <<sent, dropped>>

Drop(m) ==
    /\ pending' = pending \ {m}
    /\ dropped' = dropped \cup {m}
    /\ UNCHANGED <<sent, delivered>>

Next ==
    \/ Put
    \/ \E m \in pending : Deliver(m) \/ Drop(m)

Spec == Init /\ [][Next]_vars
=============================================================================
