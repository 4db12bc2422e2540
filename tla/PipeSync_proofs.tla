--------------------------- MODULE PipeSync_proofs ---------------------------
(***************************************************************************)
(* Proofs of the safety properties of PipeSync, for any sets of threads,   *)
(* any assignment of threads to VMs and any capacity.                      *)
(***************************************************************************)
EXTENDS PipeSync, TLAPS, FiniteSetTheorems

Places == {"out", "enter", "wait", "woken", "vm"}
WaitPlaces == {"wait", "woken", "vm"}

\* A thread that sleeps has not timed out: the one that is woken by a signal
\* looks for messages again.
SleepersFresh == \A t \in Threads : pc[t] = "wait" => res[t] = 0

Inv == TypeOK /\ SleepersFresh /\ CountsExact /\ NoLostWakeup

-----------------------------------------------------------------------------
(* Signals and the sets of waiting threads.                                *)

LEMMA MovedOK ==
  ASSUME NEW p \in [Threads -> Places], NEW t \in Threads, NEW l \in Places
  PROVE  /\ Moved(p, t, l) \in [Threads -> Places]
         /\ Moved(p, t, l)[t] = l
         /\ \A u \in Threads : u # t => Moved(p, t, l)[u] = p[u]
  BY DEF Moved

\* A thread that stays where it was, or is woken.
Nudged(p, q, u) == q[u] = p[u] \/ (p[u] = "wait" /\ q[u] = "woken")

LEMMA SignalledOK ==
  ASSUME NEW p \in [Threads -> Places], NEW S \in SUBSET Threads, NEW c \in Int,
         NEW q \in Signalled(c, S, p)
  PROVE  /\ q \in [Threads -> Places]
         /\ \A u \in Threads : Nudged(p, q, u)
         /\ \A u \in Threads : u \notin S => q[u] = p[u]
         /\ c # 0 /\ Asleep(S, p) # {} => \E u \in S : p[u] = "wait" /\ q[u] = "woken"
  <1>1. CASE c # 0 /\ Asleep(S, p) # {}
    <2>1. PICK u \in Asleep(S, p) : q = [p EXCEPT ![u] = "woken"]
      BY <1>1 DEF Signalled
    <2>2. u \in S /\ u \in Threads /\ p[u] = "wait"
      BY DEF Asleep
    <2>3. q \in [Threads -> Places] /\ q[u] = "woken" /\ \A v \in Threads : v # u => q[v] = p[v]
      BY <2>1, <2>2 DEF Places
    <2>. QED BY <2>2, <2>3 DEF Nudged
  <1>2. CASE ~(c # 0 /\ Asleep(S, p) # {})
    <2>1. q = p
      BY <1>2 DEF Signalled
    <2>. QED BY <1>2, <2>1 DEF Nudged
  <1>. QED BY <1>1, <1>2

Waiters(S, p) == {t \in S : p[t] \in WaitPlaces}

LEMMA WaitersFinite ==
  ASSUME NEW S \in SUBSET Threads, NEW p
  PROVE  IsFiniteSet(Waiters(S, p)) /\ Cardinality(Waiters(S, p)) \in Nat
  <1>1. Waiters(S, p) \subseteq Threads
    BY DEF Waiters
  <1>2. IsFiniteSet(Waiters(S, p))
    BY <1>1, PipeAssumption, FS_Subset
  <1>. QED BY <1>2, FS_CardinalityType

LEMMA WaitersKept ==
  ASSUME NEW S \in SUBSET Threads, NEW p, NEW q, \A u \in S : Nudged(p, q, u)
  PROVE  Waiters(S, q) = Waiters(S, p)
  <1>1. \A u \in S : q[u] \in WaitPlaces <=> p[u] \in WaitPlaces
    BY DEF Nudged, WaitPlaces
  <1>. QED BY <1>1 DEF Waiters

LEMMA WaitersLeave ==
  ASSUME NEW S \in SUBSET Threads, NEW t \in S, NEW p, NEW q,
         p[t] \in WaitPlaces, q[t] \notin WaitPlaces,
         \A u \in S : u # t => Nudged(p, q, u)
  PROVE  Cardinality(Waiters(S, q)) = Cardinality(Waiters(S, p)) - 1
  <1>1. \A u \in S : u # t => (q[u] \in WaitPlaces <=> p[u] \in WaitPlaces)
    BY DEF Nudged, WaitPlaces
  <1>2. Waiters(S, q) = Waiters(S, p) \ {t} /\ t \in Waiters(S, p)
    BY <1>1 DEF Waiters
  <1>3. Cardinality(Waiters(S, p) \ {t}) = Cardinality(Waiters(S, p)) - 1
    BY <1>2, WaitersFinite, FS_RemoveElement
  <1>. QED BY <1>2, <1>3

LEMMA WaitersJoin ==
  ASSUME NEW S \in SUBSET Threads, NEW t \in S, NEW p, NEW q,
         p[t] \notin WaitPlaces, q[t] \in WaitPlaces,
         \A u \in S : u # t => Nudged(p, q, u)
  PROVE  Cardinality(Waiters(S, q)) = Cardinality(Waiters(S, p)) + 1
  <1>1. \A u \in S : u # t => (q[u] \in WaitPlaces <=> p[u] \in WaitPlaces)
    BY DEF Nudged, WaitPlaces
  <1>2. Waiters(S, q) = Waiters(S, p) \cup {t} /\ t \notin Waiters(S, p)
    BY <1>1 DEF Waiters
  <1>. QED BY <1>2, WaitersFinite, FS_AddElement

LEMMA WaitersStay ==
  ASSUME NEW S \in SUBSET Threads, NEW t \in S, NEW p, NEW q,
         p[t] \in WaitPlaces <=> q[t] \in WaitPlaces,
         \A u \in S : u # t => Nudged(p, q, u)
  PROVE  Waiters(S, q) = Waiters(S, p)
  <1>1. \A u \in S : u # t => (q[u] \in WaitPlaces <=> p[u] \in WaitPlaces)
    BY DEF Nudged, WaitPlaces
  <1>. QED BY <1>1 DEF Waiters

\* While a thread sleeps, the count of the waiting ones is not 0, even without
\* one that is about to leave.
LEMMA SomeWaiter ==
  ASSUME NEW S \in SUBSET Threads, NEW p, NEW u \in S, p[u] \in WaitPlaces
  PROVE  /\ Cardinality(Waiters(S, p)) # 0
         /\ \A t \in S : t # u /\ p[t] \in WaitPlaces
               => Cardinality(Waiters(S, p)) - 1 # 0
  <1>1. u \in Waiters(S, p)
    BY DEF Waiters
  <1>2. Cardinality(Waiters(S, p)) # 0
    BY <1>1, WaitersFinite, FS_EmptySet
  <1>3. ASSUME NEW t \in S, t # u, p[t] \in WaitPlaces
        PROVE  Cardinality(Waiters(S, p)) - 1 # 0
    <2>. DEFINE W == Waiters(S, p) \ {t}
    <2>1. u \in W /\ t \in Waiters(S, p)
      BY <1>1, <1>3 DEF Waiters
    <2>2. IsFiniteSet(W) /\ Cardinality(W) = Cardinality(Waiters(S, p)) - 1
      BY <2>1, WaitersFinite, FS_RemoveElement
    <2>. QED BY <2>1, <2>2, FS_EmptySet
  <1>. QED BY <1>2, <1>3

LEMMA CountsAreWaiters ==
  CountsExact <=> /\ signal_on_put = Cardinality(Waiters(Readers, pc))
                  /\ signal_on_get = Cardinality(Waiters(Writers, pc))
  BY DEF CountsExact, InWait, Waiters, WaitPlaces

LEMMA Roles == Readers \in SUBSET Threads /\ Writers \in SUBSET Threads
  BY DEF Threads

LEMMA Invariants ==
  ASSUME Inv
  PROVE  /\ nmsg \in 0..Cap /\ signal_on_put \in Nat /\ signal_on_get \in Nat
         /\ pc \in [Threads -> Places] /\ res \in [Threads -> 0..1]
         /\ timed \in [Threads -> 0..1]
         /\ \A t \in Threads : pc[t] = "wait" => res[t] = 0
         /\ signal_on_put = Cardinality(Waiters(Readers, pc))
         /\ signal_on_get = Cardinality(Waiters(Writers, pc))
  <1>1. /\ signal_on_put = Cardinality(Waiters(Readers, pc))
        /\ signal_on_get = Cardinality(Waiters(Writers, pc))
    BY CountsAreWaiters DEF Inv
  <1>2. signal_on_put \in Nat /\ signal_on_get \in Nat
    BY <1>1, Roles, WaitersFinite
  <1>. QED BY <1>1, <1>2 DEF Inv, TypeOK, SleepersFresh, Places

\* What there is to show of a step.  No thread falls asleep but t, who is fresh.
LEMMA InvariantStep ==
  ASSUME Inv, NEW t \in Threads,
         nmsg' \in 0..Cap, pc' \in [Threads -> Places], res' \in [Threads -> 0..1],
         timed' \in [Threads -> 0..1],
         \A u \in Threads : u # t => Nudged(pc, pc', u) /\ res'[u] = res[u],
         pc'[t] = "wait" => res'[t] = 0,
         signal_on_put' = Cardinality(Waiters(Readers, pc')),
         signal_on_get' = Cardinality(Waiters(Writers, pc')),
         NoLostWakeup'
  PROVE  Inv'
  <1>1. signal_on_put' \in Nat /\ signal_on_get' \in Nat
    BY Roles, WaitersFinite
  <1>2. TypeOK'
    BY <1>1 DEF TypeOK, Places
  <1>3. SleepersFresh'
    BY Invariants DEF SleepersFresh, Nudged
  <1>4. CountsExact'
    BY DEF CountsExact, InWait, Waiters, WaitPlaces
  <1>. QED BY <1>2, <1>3, <1>4 DEF Inv

-----------------------------------------------------------------------------
(* pipe:put                                                                *)

\* n is the number of waiting writers without t.
LEMMA PutTurnInv ==
  ASSUME Inv, NEW t \in Writers, pc[t] \in {"enter", "vm"}, NEW n \in Int,
         pc[t] = "enter" => n = signal_on_get,
         pc[t] = "vm" => n = signal_on_get - 1,
         NEW p \in [Threads -> Places], p[t] = pc[t],
         \A u \in Threads : Nudged(pc, p, u), \A u \in Readers : p[u] = pc[u],
         PutTurn(t, n, p), UNCHANGED <<signal_on_put, timed>>
  PROVE  Inv'
  <1>0. t \in Threads /\ t \notin Readers
    BY Roles, PipeAssumption
  <1>1. /\ nmsg \in 0..Cap /\ signal_on_put \in Nat /\ signal_on_get \in Nat
        /\ pc \in [Threads -> Places] /\ res \in [Threads -> 0..1]
        /\ timed \in [Threads -> 0..1]
        /\ \A u \in Threads : pc[u] = "wait" => res[u] = 0
        /\ signal_on_put = Cardinality(Waiters(Readers, pc))
        /\ signal_on_get = Cardinality(Waiters(Writers, pc))
    BY Invariants
  <1>2. CASE /\ nmsg < Cap /\ nmsg' = nmsg + 1 /\ signal_on_get' = n /\ res' = res
             /\ pc' \in Signalled(signal_on_put, Readers, Moved(p, t, "out"))
    <2>. DEFINE o == Moved(p, t, "out")
    <2>1. /\ o \in [Threads -> Places] /\ o[t] = "out"
          /\ \A u \in Threads : u # t => o[u] = p[u]
      BY <1>0, MovedOK DEF Places
    <2>. HIDE DEF o
    <2>2. PICK q \in Signalled(signal_on_put, Readers, o) : pc' = q
      BY <1>2 DEF o
    <2>3. /\ pc' \in [Threads -> Places]
          /\ \A u \in Threads : Nudged(o, pc', u)
          /\ \A u \in Threads : u \notin Readers => pc'[u] = o[u]
          /\ signal_on_put # 0 /\ Asleep(Readers, o) # {}
                => \E u \in Readers : o[u] = "wait" /\ pc'[u] = "woken"
      <3>1. /\ q \in [Threads -> Places]
            /\ \A u \in Threads : Nudged(o, q, u)
            /\ \A u \in Threads : u \notin Readers => q[u] = o[u]
            /\ signal_on_put # 0 /\ Asleep(Readers, o) # {}
                  => \E u \in Readers : o[u] = "wait" /\ q[u] = "woken"
        BY <1>1, <2>1, Roles, SignalledOK
      <3>. QED BY <2>2, <3>1 DEF Nudged
    <2>4. pc'[t] = "out" /\ \A u \in Threads : u # t => Nudged(pc, pc', u)
      BY <1>0, <2>1, <2>3 DEF Nudged
    <2>5. signal_on_put' = Cardinality(Waiters(Readers, pc'))
      BY <1>0, <1>1, <2>4, Roles, WaitersKept
    <2>6. signal_on_get' = Cardinality(Waiters(Writers, pc'))
      <3>1. CASE pc[t] = "vm"
        <4>1. pc[t] \in WaitPlaces /\ pc'[t] \notin WaitPlaces
          BY <3>1, <2>4 DEF WaitPlaces
        <4>2. Cardinality(Waiters(Writers, pc')) = Cardinality(Waiters(Writers, pc)) - 1
          BY <2>4, <4>1, Roles, WaitersLeave
        <4>. QED BY <1>1, <1>2, <3>1, <4>2
      <3>2. CASE pc[t] = "enter"
        <4>1. pc[t] \notin WaitPlaces /\ pc'[t] \notin WaitPlaces
          BY <3>2, <2>4 DEF WaitPlaces
        <4>2. Waiters(Writers, pc') = Waiters(Writers, pc)
          BY <2>4, <4>1, Roles, WaitersStay
        <4>. QED BY <1>1, <1>2, <3>2, <4>2
      <3>. QED BY <3>1, <3>2
    <2>7. NoLostWakeup'
      <3>1. nmsg' # 0
        BY <1>1, <1>2
      <3>2. ASSUME NEW v \in Readers, pc'[v] = "wait"
            PROVE  \E u \in Readers : pc'[u] \in {"woken", "vm"} /\ res'[u] = 0
        <4>1. v \in Threads /\ v # t /\ o[v] = "wait" /\ pc[v] = "wait"
          BY <1>0, <2>1, <2>3, <3>2, Roles DEF Nudged
        <4>2. signal_on_put # 0 /\ Asleep(Readers, o) # {}
          BY <1>1, <4>1, Roles, SomeWaiter DEF Asleep, WaitPlaces
        <4>3. PICK u \in Readers : o[u] = "wait" /\ pc'[u] = "woken"
          BY <2>3, <4>2
        <4>4. pc[u] = "wait" /\ res'[u] = 0
          BY <1>0, <1>1, <1>2, <2>1, <4>3, Roles
        <4>. QED BY <4>3, <4>4
      <3>. QED BY <3>1, <3>2 DEF NoLostWakeup, Asleep
    <2>8. nmsg' \in 0..Cap
      BY <1>1, <1>2, PipeAssumption
    <2>. QED BY <1>0, <1>1, <1>2, <2>3, <2>4, <2>5, <2>6, <2>7, <2>8, InvariantStep
  <1>3. CASE /\ nmsg >= Sure /\ signal_on_get' = n + 1 /\ pc' = Moved(p, t, "wait")
             /\ res' = [res EXCEPT ![t] = 0] /\ nmsg' = nmsg
    <2>1. /\ pc' \in [Threads -> Places] /\ pc'[t] = "wait"
          /\ \A u \in Threads : u # t => pc'[u] = p[u]
      BY <1>0, <1>3, MovedOK DEF Places
    <2>2. \A u \in Threads : u # t => Nudged(pc, pc', u)
      BY <2>1 DEF Nudged
    <2>3. /\ res' \in [Threads -> 0..1] /\ res'[t] = 0
          /\ \A u \in Threads : u # t => res'[u] = res[u]
      BY <1>0, <1>1, <1>3
    <2>4. \A u \in Readers : pc'[u] = pc[u] /\ res'[u] = res[u]
      BY <1>0, <2>1, <2>3, Roles
    <2>5. signal_on_put' = Cardinality(Waiters(Readers, pc'))
      BY <1>1, <2>4, Roles, WaitersKept DEF Nudged
    <2>6. signal_on_get' = Cardinality(Waiters(Writers, pc'))
      <3>1. CASE pc[t] = "vm"
        <4>1. pc[t] \in WaitPlaces /\ pc'[t] \in WaitPlaces
          BY <3>1, <2>1 DEF WaitPlaces
        <4>2. Waiters(Writers, pc') = Waiters(Writers, pc)
          BY <2>2, <4>1, Roles, WaitersStay
        <4>. QED BY <1>1, <1>3, <3>1, <4>2
      <3>2. CASE pc[t] = "enter"
        <4>1. pc[t] \notin WaitPlaces /\ pc'[t] \in WaitPlaces
          BY <3>2, <2>1 DEF WaitPlaces
        <4>2. Cardinality(Waiters(Writers, pc')) = Cardinality(Waiters(Writers, pc)) + 1
          BY <2>2, <4>1, Roles, WaitersJoin
        <4>. QED BY <1>1, <1>3, <3>2, <4>2
      <3>. QED BY <3>1, <3>2
    <2>7. NoLostWakeup'
      <3>1. nmsg > 0 /\ nmsg' # 0
        BY <1>1, <1>3, PipeAssumption
      <3>2. Asleep(Readers, pc') = Asleep(Readers, pc)
        BY <2>4 DEF Asleep
      <3>. QED BY <1>3, <2>4, <3>1, <3>2 DEF NoLostWakeup, Inv
    <2>. QED BY <1>0, <1>1, <1>3, <2>1, <2>2, <2>3, <2>5, <2>6, <2>7, InvariantStep
  <1>. QED BY <1>2, <1>3 DEF PutTurn

LEMMA PutEnterInv ==
  ASSUME Inv, NEW t \in Writers, PutEnter(t)
  PROVE  Inv'
  <1>1. signal_on_get \in Int /\ pc \in [Threads -> Places]
    BY Invariants
  <1>2. pc[t] = "enter" /\ PutTurn(t, signal_on_get, pc)
        /\ UNCHANGED <<signal_on_put, timed>>
    BY DEF PutEnter
  <1>3. \A u \in Threads : Nudged(pc, pc, u)
    BY DEF Nudged
  <1>. QED BY <1>1, <1>2, <1>3, PutTurnInv

LEMMA PutWokenInv ==
  ASSUME Inv, NEW t \in Writers, PutWoken(t)
  PROVE  Inv'
  <1>0. t \in Threads /\ t \notin Readers
    BY Roles, PipeAssumption
  <1>1. /\ nmsg \in 0..Cap /\ signal_on_put \in Nat /\ signal_on_get \in Nat
        /\ pc \in [Threads -> Places] /\ res \in [Threads -> 0..1]
        /\ timed \in [Threads -> 0..1]
        /\ \A u \in Threads : pc[u] = "wait" => res[u] = 0
        /\ signal_on_put = Cardinality(Waiters(Readers, pc))
        /\ signal_on_get = Cardinality(Waiters(Writers, pc))
    BY Invariants
  <1>. DEFINE n == signal_on_get - 1
  <1>2. /\ pc[t] = "vm" /\ n \in Int /\ UNCHANGED <<signal_on_put, timed>>
    BY <1>1 DEF PutWoken
  <1>3. PICK p \in Signalled(n, Writers, pc) :
          \/ res[t] = 0 /\ PutTurn(t, n, p)
          \/ /\ res[t] = 1 /\ signal_on_get' = n /\ pc' = Moved(p, t, "out")
             /\ UNCHANGED <<nmsg, res>>
    BY DEF PutWoken
  <1>. HIDE DEF n
  <1>4. /\ p \in [Threads -> Places]
        /\ \A u \in Threads : Nudged(pc, p, u)
        /\ \A u \in Threads : u \notin Writers => p[u] = pc[u]
        /\ n # 0 /\ Asleep(Writers, pc) # {}
              => \E u \in Writers : pc[u] = "wait" /\ p[u] = "woken"
    BY <1>1, <1>2, <1>3, Roles, SignalledOK
  <1>5. p[t] = pc[t] /\ \A u \in Readers : p[u] = pc[u]
    BY <1>0, <1>2, <1>4, Roles, PipeAssumption DEF Nudged
  <1>6. CASE res[t] = 0 /\ PutTurn(t, n, p)
    <2>1. n = signal_on_get - 1
      BY DEF n
    <2>. QED BY <1>2, <1>4, <1>5, <1>6, <2>1, PutTurnInv
  <1>7. CASE /\ res[t] = 1 /\ signal_on_get' = n /\ pc' = Moved(p, t, "out")
             /\ UNCHANGED <<nmsg, res>>
    <2>1. /\ pc' \in [Threads -> Places] /\ pc'[t] = "out"
          /\ \A u \in Threads : u # t => pc'[u] = p[u]
      BY <1>0, <1>4, <1>7, MovedOK DEF Places
    <2>2. \A u \in Threads : u # t => Nudged(pc, pc', u)
      BY <1>4, <2>1 DEF Nudged
    <2>3. \A u \in Readers : pc'[u] = pc[u]
      BY <1>0, <1>5, <2>1, Roles
    <2>4. signal_on_put' = Cardinality(Waiters(Readers, pc'))
      BY <1>1, <1>2, <2>3, Roles, WaitersKept DEF Nudged
    <2>5. signal_on_get' = Cardinality(Waiters(Writers, pc'))
      <3>1. pc[t] \in WaitPlaces /\ pc'[t] \notin WaitPlaces
        BY <1>2, <2>1 DEF WaitPlaces
      <3>2. Cardinality(Waiters(Writers, pc')) = Cardinality(Waiters(Writers, pc)) - 1
        BY <2>2, <3>1, Roles, WaitersLeave
      <3>. QED BY <1>1, <1>7, <3>2 DEF n
    <2>6. NoLostWakeup'
      <3>1. nmsg > 0 /\ Asleep(Readers, pc') # {}
               => \E u \in Readers : pc'[u] \in {"woken", "vm"} /\ res'[u] = 0
        <4>1. Asleep(Readers, pc') = Asleep(Readers, pc)
          BY <2>3 DEF Asleep
        <4>. QED BY <1>7, <2>3, <4>1 DEF Inv, NoLostWakeup
      <3>2. ASSUME NEW v \in Writers, pc'[v] = "wait"
            PROVE  \E u \in Writers : pc'[u] \in {"woken", "vm"}
        <4>1. v \in Threads /\ v # t /\ pc[v] = "wait"
          BY <2>1, <2>2, <3>2, Roles DEF Nudged
        <4>2. pc[v] \in WaitPlaces /\ pc[t] \in WaitPlaces /\ Asleep(Writers, pc) # {}
          BY <1>2, <4>1 DEF WaitPlaces, Asleep
        <4>3. n # 0
          BY <1>1, <4>1, <4>2, Roles, SomeWaiter DEF n
        <4>4. PICK u \in Writers : pc[u] = "wait" /\ p[u] = "woken"
          BY <1>4, <4>2, <4>3
        <4>5. u # t /\ pc'[u] = "woken"
          BY <1>2, <2>1, <4>4, Roles
        <4>. QED BY <4>5
      <3>. QED BY <1>7, <3>1, <3>2 DEF NoLostWakeup, Asleep
    <2>. QED BY <1>0, <1>1, <1>2, <1>7, <2>1, <2>2, <2>4, <2>5, <2>6, InvariantStep
  <1>. QED BY <1>3, <1>6, <1>7

-----------------------------------------------------------------------------
(* pipe:get                                                                *)

\* n is the number of waiting readers without t.
LEMMA GetTurnInv ==
  ASSUME Inv, NEW t \in Readers, pc[t] \in {"enter", "vm"}, NEW n \in Int,
         pc[t] = "enter" => n = signal_on_put,
         pc[t] = "vm" => n = signal_on_put - 1,
         GetTurn(t, n), UNCHANGED <<signal_on_get, timed>>
  PROVE  Inv'
  <1>0. t \in Threads /\ t \notin Writers
    BY Roles, PipeAssumption
  <1>1. /\ nmsg \in 0..Cap /\ signal_on_put \in Nat /\ signal_on_get \in Nat
        /\ pc \in [Threads -> Places] /\ res \in [Threads -> 0..1]
        /\ timed \in [Threads -> 0..1]
        /\ \A u \in Threads : pc[u] = "wait" => res[u] = 0
        /\ signal_on_put = Cardinality(Waiters(Readers, pc))
        /\ signal_on_get = Cardinality(Waiters(Writers, pc))
    BY Invariants
  <1>2. CASE /\ nmsg > 0 /\ nmsg' = nmsg - 1 /\ signal_on_put' = n /\ res' = res
             /\ \E p \in Signalled(IF nmsg > 1 THEN n ELSE 0, Readers,
                                   Moved(pc, t, "out")) :
                   pc' \in Signalled(signal_on_get, Writers, p)
    <2>. DEFINE o == Moved(pc, t, "out")
                c == IF nmsg > 1 THEN n ELSE 0
    <2>1. /\ o \in [Threads -> Places] /\ o[t] = "out"
          /\ \A u \in Threads : u # t => o[u] = pc[u]
      BY <1>0, <1>1, MovedOK DEF Places
    <2>2. PICK p \in Signalled(c, Readers, o) :
            \E q \in Signalled(signal_on_get, Writers, p) : pc' = q
      BY <1>2
    <2>3. c \in Int /\ (nmsg > 1 => c = n)
      OBVIOUS
    <2>. HIDE DEF o, c
    <2>4. /\ p \in [Threads -> Places]
          /\ \A u \in Threads : Nudged(o, p, u)
          /\ \A u \in Threads : u \notin Readers => p[u] = o[u]
          /\ c # 0 /\ Asleep(Readers, o) # {}
                => \E u \in Readers : o[u] = "wait" /\ p[u] = "woken"
      <3>1. \A f \in [Threads -> Places], k \in Int : \A g \in Signalled(k, Readers, f) :
              /\ g \in [Threads -> Places]
              /\ \A u \in Threads : Nudged(f, g, u)
              /\ \A u \in Threads : u \notin Readers => g[u] = f[u]
              /\ k # 0 /\ Asleep(Readers, f) # {}
                    => \E u \in Readers : f[u] = "wait" /\ g[u] = "woken"
        BY Roles, SignalledOK
      <3>. QED BY <2>1, <2>2, <2>3, <3>1
    <2>. PICK q \in Signalled(signal_on_get, Writers, p) : pc' = q
      BY <2>2
    <2>5. /\ pc' \in [Threads -> Places]
          /\ \A u \in Threads : Nudged(p, pc', u)
          /\ \A u \in Threads : u \notin Writers => pc'[u] = p[u]
          /\ signal_on_get # 0 /\ Asleep(Writers, p) # {}
                => \E u \in Writers : p[u] = "wait" /\ pc'[u] = "woken"
      <3>1. /\ q \in [Threads -> Places]
            /\ \A u \in Threads : Nudged(p, q, u)
            /\ \A u \in Threads : u \notin Writers => q[u] = p[u]
            /\ signal_on_get # 0 /\ Asleep(Writers, p) # {}
                  => \E u \in Writers : p[u] = "wait" /\ q[u] = "woken"
        BY <1>1, <2>4, Roles, SignalledOK
      <3>. QED BY <3>1 DEF Nudged
    <2>6. /\ \A u \in Writers : p[u] = pc[u] /\ Nudged(pc, pc', u)
          /\ \A u \in Readers : pc'[u] = p[u]
      BY <1>0, <2>1, <2>4, <2>5, Roles, PipeAssumption DEF Nudged
    <2>7. pc'[t] = "out" /\ \A u \in Threads : u # t => Nudged(pc, pc', u)
      BY <1>0, <2>1, <2>4, <2>6 DEF Nudged, Threads
    <2>8. signal_on_get' = Cardinality(Waiters(Writers, pc'))
      BY <1>1, <2>6, Roles, WaitersKept
    <2>9. signal_on_put' = Cardinality(Waiters(Readers, pc'))
      <3>1. CASE pc[t] = "vm"
        <4>1. pc[t] \in WaitPlaces /\ pc'[t] \notin WaitPlaces
          BY <3>1, <2>7 DEF WaitPlaces
        <4>2. Cardinality(Waiters(Readers, pc')) = Cardinality(Waiters(Readers, pc)) - 1
          BY <2>7, <4>1, Roles, WaitersLeave
        <4>. QED BY <1>1, <1>2, <3>1, <4>2
      <3>2. CASE pc[t] = "enter"
        <4>1. pc[t] \notin WaitPlaces /\ pc'[t] \notin WaitPlaces
          BY <3>2, <2>7 DEF WaitPlaces
        <4>2. Waiters(Readers, pc') = Waiters(Readers, pc)
          BY <2>7, <4>1, Roles, WaitersStay
        <4>. QED BY <1>1, <1>2, <3>2, <4>2
      <3>. QED BY <3>1, <3>2
    <2>10. NoLostWakeup'
      <3>1. ASSUME nmsg' > 0, NEW v \in Readers, pc'[v] = "wait"
            PROVE  \E u \in Readers : pc'[u] \in {"woken", "vm"} /\ res'[u] = 0
        <4>1. v \in Threads /\ v # t /\ o[v] = "wait" /\ pc[v] = "wait"
          BY <2>1, <2>4, <2>6, <2>7, <3>1, Roles DEF Nudged
        <4>2. c = n /\ pc[v] \in WaitPlaces /\ Asleep(Readers, o) # {}
          BY <1>1, <1>2, <2>3, <3>1, <4>1 DEF WaitPlaces, Asleep
        <4>3. n # 0
          <5>1. CASE pc[t] = "vm"
            <6>1. pc[t] \in WaitPlaces
              BY <5>1 DEF WaitPlaces
            <6>. QED BY <1>1, <4>1, <4>2, <5>1, <6>1, Roles, SomeWaiter
          <5>2. CASE pc[t] = "enter"
            BY <1>1, <4>2, <5>2, Roles, SomeWaiter
          <5>. QED BY <5>1, <5>2
        <4>4. PICK u \in Readers : o[u] = "wait" /\ p[u] = "woken"
          BY <2>4, <4>2, <4>3
        <4>5. u # t /\ pc[u] = "wait" /\ pc'[u] = "woken" /\ res'[u] = 0
          BY <1>1, <1>2, <2>1, <2>6, <4>4, Roles
        <4>. QED BY <4>5
      <3>2. ASSUME NEW v \in Writers, pc'[v] = "wait"
            PROVE  \E u \in Writers : pc'[u] \in {"woken", "vm"}
        <4>1. pc[v] = "wait" /\ p[v] = "wait" /\ pc[v] \in WaitPlaces
          BY <2>6, <3>2 DEF Nudged, WaitPlaces
        <4>2. signal_on_get # 0 /\ Asleep(Writers, p) # {}
          BY <1>1, <4>1, Roles, SomeWaiter DEF Asleep
        <4>. QED BY <2>5, <4>2
      <3>. QED BY <3>1, <3>2 DEF NoLostWakeup, Asleep
    <2>11. nmsg' \in 0..Cap
      BY <1>1, <1>2, PipeAssumption
    <2>. QED BY <1>0, <1>1, <1>2, <2>5, <2>7, <2>8, <2>9, <2>10, <2>11, InvariantStep
  <1>3. CASE /\ nmsg = 0 /\ signal_on_put' = n + 1 /\ pc' = Moved(pc, t, "wait")
             /\ res' = [res EXCEPT ![t] = 0] /\ nmsg' = nmsg
    <2>1. /\ pc' \in [Threads -> Places] /\ pc'[t] = "wait"
          /\ \A u \in Threads : u # t => pc'[u] = pc[u]
      BY <1>0, <1>1, <1>3, MovedOK DEF Places
    <2>2. \A u \in Threads : u # t => Nudged(pc, pc', u)
      BY <2>1 DEF Nudged
    <2>3. /\ res' \in [Threads -> 0..1] /\ res'[t] = 0
          /\ \A u \in Threads : u # t => res'[u] = res[u]
      BY <1>0, <1>1, <1>3
    <2>4. \A u \in Writers : pc'[u] = pc[u]
      BY <1>0, <2>1, Roles
    <2>5. signal_on_get' = Cardinality(Waiters(Writers, pc'))
      BY <1>1, <2>4, Roles, WaitersKept DEF Nudged
    <2>6. signal_on_put' = Cardinality(Waiters(Readers, pc'))
      <3>1. CASE pc[t] = "vm"
        <4>1. pc[t] \in WaitPlaces /\ pc'[t] \in WaitPlaces
          BY <3>1, <2>1 DEF WaitPlaces
        <4>2. Waiters(Readers, pc') = Waiters(Readers, pc)
          BY <2>2, <4>1, Roles, WaitersStay
        <4>. QED BY <1>1, <1>3, <3>1, <4>2
      <3>2. CASE pc[t] = "enter"
        <4>1. pc[t] \notin WaitPlaces /\ pc'[t] \in WaitPlaces
          BY <3>2, <2>1 DEF WaitPlaces
        <4>2. Cardinality(Waiters(Readers, pc')) = Cardinality(Waiters(Readers, pc)) + 1
          BY <2>2, <4>1, Roles, WaitersJoin
        <4>. QED BY <1>1, <1>3, <3>2, <4>2
      <3>. QED BY <3>1, <3>2
    <2>7. NoLostWakeup'
      <3>1. Asleep(Writers, pc') = Asleep(Writers, pc)
        BY <2>4 DEF Asleep
      <3>. QED BY <1>3, <2>4, <3>1 DEF NoLostWakeup, Inv
    <2>. QED BY <1>0, <1>1, <1>3, <2>1, <2>2, <2>3, <2>5, <2>6, <2>7, InvariantStep
  <1>. QED BY <1>2, <1>3 DEF GetTurn

LEMMA GetEnterInv ==
  ASSUME Inv, NEW t \in Readers, GetEnter(t)
  PROVE  Inv'
  <1>1. signal_on_put \in Int
    BY Invariants
  <1>2. /\ pc[t] = "enter" /\ GetTurn(t, signal_on_put)
        /\ UNCHANGED <<signal_on_get, timed>>
    BY DEF GetEnter
  <1>. QED BY <1>1, <1>2, GetTurnInv

LEMMA GetWokenInv ==
  ASSUME Inv, NEW t \in Readers, GetWoken(t)
  PROVE  Inv'
  <1>0. t \in Threads /\ t \notin Writers
    BY Roles, PipeAssumption
  <1>1. /\ nmsg \in 0..Cap /\ signal_on_put \in Nat /\ signal_on_get \in Nat
        /\ pc \in [Threads -> Places] /\ res \in [Threads -> 0..1]
        /\ timed \in [Threads -> 0..1]
        /\ \A u \in Threads : pc[u] = "wait" => res[u] = 0
        /\ signal_on_put = Cardinality(Waiters(Readers, pc))
        /\ signal_on_get = Cardinality(Waiters(Writers, pc))
    BY Invariants
  <1>. DEFINE n == signal_on_put - 1
  <1>2. n \in Int /\ pc[t] = "vm" /\ UNCHANGED <<signal_on_get, timed>>
    BY <1>1 DEF GetWoken
  <1>3. CASE res[t] = 0 /\ GetTurn(t, n)
    BY <1>2, <1>3, GetTurnInv
  <1>4. CASE /\ res[t] = 1 /\ signal_on_put' = n /\ pc' = Moved(pc, t, "out")
             /\ UNCHANGED <<nmsg, res>>
    <2>1. /\ pc' \in [Threads -> Places] /\ pc'[t] = "out"
          /\ \A u \in Threads : u # t => pc'[u] = pc[u]
      BY <1>0, <1>1, <1>4, MovedOK DEF Places
    <2>2. \A u \in Threads : u # t => Nudged(pc, pc', u)
      BY <2>1 DEF Nudged
    <2>3. \A u \in Writers : pc'[u] = pc[u]
      BY <1>0, <2>1, Roles
    <2>4. signal_on_get' = Cardinality(Waiters(Writers, pc'))
      BY <1>1, <1>2, <2>3, Roles, WaitersKept DEF Nudged
    <2>5. signal_on_put' = Cardinality(Waiters(Readers, pc'))
      <3>1. pc[t] \in WaitPlaces /\ pc'[t] \notin WaitPlaces
        BY <1>2, <2>1 DEF WaitPlaces
      <3>2. Cardinality(Waiters(Readers, pc')) = Cardinality(Waiters(Readers, pc)) - 1
        BY <2>2, <3>1, Roles, WaitersLeave
      <3>. QED BY <1>1, <1>4, <3>2
    <2>6. NoLostWakeup'
      <3>1. Asleep(Writers, pc') = Asleep(Writers, pc)
        BY <2>3 DEF Asleep
      <3>2. Asleep(Readers, pc') \subseteq Asleep(Readers, pc)
        BY <2>1, Roles DEF Asleep
      <3>3. \A u \in Readers : res[u] = 0 => pc'[u] = pc[u]
        BY <1>4, <2>1, Roles
      <3>. QED BY <1>4, <2>3, <3>1, <3>2, <3>3 DEF NoLostWakeup, Inv
    <2>. QED BY <1>0, <1>1, <1>2, <1>4, <2>1, <2>2, <2>4, <2>5, <2>6, InvariantStep
  <1>. QED BY <1>3, <1>4 DEF GetWoken

-----------------------------------------------------------------------------
(* Steps that change only the place of t, and perhaps its result: into the *)
(* pipe, or from one place of the wait to the next.                        *)

LEMMA PlaceInv ==
  ASSUME Inv, NEW t \in Threads, NEW l \in Places,
         \/ pc[t] = "out" /\ l = "enter" /\ res' = res
         \/ pc[t] = "wait" /\ l = "woken" /\ res'[t] \in 0..1
         \/ pc[t] = "woken" /\ l = "vm" /\ res' = res,
         pc' = Moved(pc, t, l), res' \in [Threads -> 0..1],
         \A u \in Threads : u # t => res'[u] = res[u],
         timed' \in [Threads -> 0..1],
         UNCHANGED <<nmsg, signal_on_put, signal_on_get>>
  PROVE  Inv'
  <1>1. /\ nmsg \in 0..Cap /\ signal_on_put \in Nat /\ signal_on_get \in Nat
        /\ pc \in [Threads -> Places] /\ res \in [Threads -> 0..1]
        /\ timed \in [Threads -> 0..1]
        /\ \A u \in Threads : pc[u] = "wait" => res[u] = 0
        /\ signal_on_put = Cardinality(Waiters(Readers, pc))
        /\ signal_on_get = Cardinality(Waiters(Writers, pc))
    BY Invariants
  <1>2. /\ pc' \in [Threads -> Places] /\ pc'[t] = l
        /\ \A u \in Threads : u # t => pc'[u] = pc[u]
    BY <1>1, MovedOK
  <1>3. \A u \in Threads : u # t => Nudged(pc, pc', u)
    BY <1>2 DEF Nudged
  <1>4. pc[t] \in WaitPlaces <=> pc'[t] \in WaitPlaces
    BY <1>2 DEF WaitPlaces
  <1>5. \A S \in SUBSET Threads : Waiters(S, pc') = Waiters(S, pc)
    <2>. SUFFICES ASSUME NEW S \in SUBSET Threads
                  PROVE  Waiters(S, pc') = Waiters(S, pc)
      OBVIOUS
    <2>1. \A u \in S : pc'[u] \in WaitPlaces <=> pc[u] \in WaitPlaces
      BY <1>2, <1>4
    <2>. QED BY <2>1 DEF Waiters
  <1>6. NoLostWakeup'
    <2>1. \A S \in SUBSET Threads : Asleep(S, pc') \subseteq Asleep(S, pc)
      BY <1>2 DEF Asleep
    <2>2. ASSUME nmsg > 0, Asleep(Readers, pc') # {}
          PROVE  \E u \in Readers : pc'[u] \in {"woken", "vm"} /\ res'[u] = 0
      <3>1. PICK u \in Readers : pc[u] \in {"woken", "vm"} /\ res[u] = 0
        BY <2>1, <2>2, Roles DEF Inv, NoLostWakeup
      <3>2. pc'[u] \in {"woken", "vm"} /\ res'[u] = 0
        BY <1>2, <3>1, Roles
      <3>. QED BY <3>2
    <2>3. ASSUME nmsg = 0, Asleep(Writers, pc') # {}
          PROVE  \E u \in Writers : pc'[u] \in {"woken", "vm"}
      <3>1. PICK u \in Writers : pc[u] \in {"woken", "vm"}
        BY <2>1, <2>3, Roles DEF Inv, NoLostWakeup
      <3>2. pc'[u] \in {"woken", "vm"}
        BY <1>2, <3>1, Roles
      <3>. QED BY <3>2
    <2>. QED BY <2>2, <2>3 DEF NoLostWakeup
  <1>7. /\ signal_on_put' = Cardinality(Waiters(Readers, pc'))
        /\ signal_on_get' = Cardinality(Waiters(Writers, pc'))
    BY <1>1, <1>5, Roles
  <1>8. pc'[t] # "wait"
    BY <1>2
  <1>. QED BY <1>1, <1>2, <1>3, <1>6, <1>7, <1>8, InvariantStep

LEMMA CallInv ==
  ASSUME Inv, NEW t \in Threads, NEW timeout \in 0..1,
         pipe_put(t, timeout) \/ pipe_get(t, timeout)
  PROVE  Inv'
  <1>1. /\ res \in [Threads -> 0..1] /\ timed \in [Threads -> 0..1]
    BY Invariants
  <1>2. /\ pc[t] = "out" /\ pc' = Moved(pc, t, "enter") /\ res' = res
        /\ timed' = [timed EXCEPT ![t] = timeout]
        /\ UNCHANGED <<nmsg, signal_on_put, signal_on_get>>
    BY DEF pipe_put, pipe_get
  <1>4. timed' \in [Threads -> 0..1]
    BY <1>1, <1>2
  <1>. QED BY <1>1, <1>2, <1>4, PlaceInv DEF Places

LEMMA WaitInv ==
  ASSUME Inv, NEW t \in Threads, Timeout(t) \/ SpuriousWakeup(t) \/ Relock(t)
  PROVE  Inv'
  <1>1. /\ res \in [Threads -> 0..1] /\ timed \in [Threads -> 0..1]
    BY Invariants
  <1>2. CASE Timeout(t)
    <2>1. /\ pc[t] = "wait" /\ pc' = Moved(pc, t, "woken")
          /\ res' = [res EXCEPT ![t] = 1] /\ timed' = timed
          /\ UNCHANGED <<nmsg, signal_on_put, signal_on_get>>
      BY <1>2 DEF Timeout
    <2>2. /\ res' \in [Threads -> 0..1] /\ res'[t] \in 0..1
          /\ \A u \in Threads : u # t => res'[u] = res[u]
      BY <1>1, <2>1
    <2>. QED BY <1>1, <2>1, <2>2, PlaceInv DEF Places
  <1>3. CASE SpuriousWakeup(t)
    <2>1. /\ pc[t] = "wait" /\ pc' = Moved(pc, t, "woken") /\ res' = res
          /\ timed' = timed
          /\ UNCHANGED <<nmsg, signal_on_put, signal_on_get>>
      BY <1>3 DEF SpuriousWakeup
    <2>. QED BY <1>1, <2>1, PlaceInv DEF Places
  <1>4. CASE Relock(t)
    <2>1. /\ pc[t] = "woken" /\ pc' = Moved(pc, t, "vm") /\ res' = res
          /\ timed' = timed
          /\ UNCHANGED <<nmsg, signal_on_put, signal_on_get>>
      BY <1>4 DEF Relock
    <2>. QED BY <1>1, <2>1, PlaceInv DEF Places
  <1>. QED BY <1>2, <1>3, <1>4

LEMMA InitInv == Init => Inv
  <1>. SUFFICES ASSUME Init PROVE Inv
    OBVIOUS
  <1>1. TypeOK
    BY PipeAssumption DEF Init, TypeOK
  <1>2. SleepersFresh
    BY DEF Init, SleepersFresh
  <1>3. /\ {t \in Readers : InWait(t)} = {} /\ {t \in Writers : InWait(t)} = {}
        /\ Asleep(Readers, pc) = {} /\ Asleep(Writers, pc) = {}
    BY DEF Init, InWait, Asleep, Threads
  <1>4. CountsExact
    BY <1>3, FS_EmptySet DEF Init, CountsExact
  <1>5. NoLostWakeup
    BY <1>3 DEF NoLostWakeup
  <1>. QED BY <1>1, <1>2, <1>4, <1>5 DEF Inv

LEMMA NextInv == Inv /\ [Next]_vars => Inv'
  <1>. SUFFICES ASSUME Inv, [Next]_vars PROVE Inv'
    OBVIOUS
  <1>1. ASSUME NEW t \in Threads, Step(t) PROVE Inv'
    BY <1>1, WaitInv, PutEnterInv, PutWokenInv, GetEnterInv, GetWokenInv DEF Step
  <1>2. ASSUME NEW t \in Threads, Timeout(t) \/ SpuriousWakeup(t) PROVE Inv'
    BY <1>2, WaitInv
  <1>3. ASSUME NEW t \in Threads, NEW timeout \in 0..1,
               pipe_put(t, timeout) \/ pipe_get(t, timeout)
        PROVE  Inv'
    BY <1>3, CallInv
  <1>4. CASE UNCHANGED vars
    BY <1>4 DEF Inv, TypeOK, SleepersFresh, CountsExact, NoLostWakeup, InWait, Asleep, vars
  <1>. QED BY <1>1, <1>2, <1>3, <1>4, Roles DEF Next

LEMMA SpecInv == Spec => []Inv
  BY InitInv, NextInv, PTL DEF Spec

\* The counters and the places of the threads keep their types.
THEOREM TypeCorrect == Spec => []TypeOK
  <1>1. Inv => TypeOK
    BY DEF Inv
  <1>. QED BY SpecInv, <1>1, PTL

\* signal_on_put and signal_on_get count the threads inside their waits, for any
\* number of threads and with timeouts and spurious wake-ups.
THEOREM CountsCorrect == Spec => []CountsExact
  <1>1. Inv => CountsExact
    BY DEF Inv
  <1>. QED BY SpecInv, <1>1, PTL

\* No signal of pipe_put or pipe_get is lost: a sleeping reader has an awake one
\* before it while there are messages, a sleeping writer while the pipe is empty.
THEOREM WakeupCorrect == Spec => []NoLostWakeup
  <1>1. Inv => NoLostWakeup
    BY DEF Inv
  <1>. QED BY SpecInv, <1>1, PTL
=============================================================================
