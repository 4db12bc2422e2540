-------------------------- MODULE EventLoop_proofs --------------------------
(***************************************************************************)
(* Proofs of the safety properties of EventLoop, for any sets of threads   *)
(* and any number of event slots.                                          *)
(***************************************************************************)
EXTENDS EventLoop, TLAPS, FiniteSetTheorems

LockLabels == {"top", "gate", "ready", "next"}
WaiterLabels == {"epoll", "polled", "expired"}
IdleLabels == {"idle", "woken"}
ActiveLabels == {"next", "callback", "add", "del"}

Bit(b) == IF b THEN 1 ELSE 0
In(L, p) == {t \in Threads : p[t] \in L}

\* Where the threads of each kind can be, and who holds the VM's lock.
Located ==
    /\ \A t \in Threads : pc[t] \in LockLabels <=> vm = t
    /\ \A t \in Loopers : pc[t] \notin {"add", "del", "sync"}
    /\ \A t \in Controllers : pc[t] \in {"out", "add", "del"}
    /\ \A t \in Callers : pc[t] \in {"out", "sync"}
    /\ \A t \in Threads : pc[t] \in {"add", "del"} => arg[t] \in Slots
    /\ \A t \in Threads : pc[t] = "next" => ready # <<>>

\* The counters and the flag of the queue, by the places of the threads.
Counted ==
    /\ Bit(waiting) = Cardinality(In(WaiterLabels, pc))
    /\ nactives = Cardinality(In(ActiveLabels, pc))
    /\ nidles = Cardinality(In(IdleLabels, pc))

Inv == TypeOK /\ Located /\ Counted /\ NeverAbandoned

\* The parts of TypeOK about slots, and about flags.
SlotTypes ==
    /\ nslots \in 0..MaxSlots
    /\ free \in Seq(Slots) /\ ready \in Seq(Slots)
    /\ alive \in SUBSET Slots /\ active \in SUBSET Slots
    /\ deleted \in SUBSET Slots /\ oneshot \in SUBSET Slots /\ held \in SUBSET Slots

FlagTypes ==
    /\ stop \in BOOLEAN /\ waiting \in BOOLEAN /\ wait_tev \in BOOLEAN /\ sig \in BOOLEAN
    /\ sync_op \in SUBSET Callers
    /\ fetched \in [slots : SUBSET Slots, eventfd : BOOLEAN]

-----------------------------------------------------------------------------
(* Counting threads.                                                       *)

LEMMA InFinite ==
  ASSUME NEW L, NEW p
  PROVE  IsFiniteSet(In(L, p)) /\ Cardinality(In(L, p)) \in Nat
  <1>1. In(L, p) \subseteq Threads
    BY DEF In
  <1>2. IsFiniteSet(In(L, p))
    BY <1>1, LoopAssumption, FS_Subset
  <1>. QED BY <1>2, FS_CardinalityType

\* One thread moves, and no other one enters or leaves L.
LEMMA InMove ==
  ASSUME NEW L, NEW p, NEW q, NEW t \in Threads,
         \A u \in Threads : u # t => (q[u] \in L <=> p[u] \in L)
  PROVE  Cardinality(In(L, q)) = Cardinality(In(L, p)) - Bit(p[t] \in L) + Bit(q[t] \in L)
  <1>1. Cardinality(In(L, p)) \in Nat /\ IsFiniteSet(In(L, p))
    BY InFinite
  <1>2. CASE p[t] \in L /\ q[t] \notin L
    <2>1. In(L, q) = In(L, p) \ {t} /\ t \in In(L, p)
      BY <1>2 DEF In
    <2>2. Cardinality(In(L, q)) = Cardinality(In(L, p)) - 1
      BY <1>1, <2>1, FS_RemoveElement
    <2>3. Bit(p[t] \in L) = 1 /\ Bit(q[t] \in L) = 0
      BY <1>2 DEF Bit
    <2>. QED BY <1>1, <2>2, <2>3
  <1>3. CASE p[t] \notin L /\ q[t] \in L
    <2>1. In(L, q) = In(L, p) \cup {t} /\ t \notin In(L, p)
      BY <1>3 DEF In
    <2>2. Cardinality(In(L, q)) = Cardinality(In(L, p)) + 1
      BY <1>1, <2>1, FS_AddElement
    <2>3. Bit(p[t] \in L) = 0 /\ Bit(q[t] \in L) = 1
      BY <1>3 DEF Bit
    <2>. QED BY <1>1, <2>2, <2>3
  <1>4. CASE p[t] \in L <=> q[t] \in L
    <2>1. In(L, q) = In(L, p)
      BY <1>4 DEF In
    <2>2. Bit(p[t] \in L) \in {0, 1} /\ Bit(q[t] \in L) = Bit(p[t] \in L)
      BY <1>4 DEF Bit
    <2>. QED BY <1>1, <2>1, <2>2
  <1>. QED BY <1>2, <1>3, <1>4

LEMMA InSome ==
  ASSUME NEW L, NEW p, NEW t \in Threads, p[t] \in L
  PROVE  Cardinality(In(L, p)) > 0
  <1>1. t \in In(L, p)
    BY DEF In
  <1>. QED BY <1>1, InFinite, FS_EmptySet

\* Two members are too many when there is at most one.
LEMMA InOne ==
  ASSUME NEW L, NEW p, NEW t \in Threads, NEW u \in Threads, p[t] \in L, p[u] \in L,
         Cardinality(In(L, p)) <= 1
  PROVE  t = u
  <1>1. t \in In(L, p) /\ u \in In(L, p)
    BY DEF In
  <1>2. Cardinality(In(L, p)) = 1
    BY InFinite, InSome
  <1>3. PICK x : In(L, p) = {x}
    BY <1>2, InFinite, FS_Singleton
  <1>. QED BY <1>1, <1>3

LEMMA CountedIsExact == ASSUME waiting \in BOOLEAN PROVE Counted <=> OneWaiter /\ CountsExact
  <1>1. /\ In(WaiterLabels, pc) = {t \in Threads : Waiter(t)}
        /\ In(ActiveLabels, pc) = {t \in Threads : Active(t)}
        /\ In(IdleLabels, pc) = {t \in Threads : Idle(t)}
    BY DEF In, WaiterLabels, ActiveLabels, IdleLabels, Waiter, Active, Idle
  <1>2. /\ Number(Waiter) = Cardinality(In(WaiterLabels, pc))
        /\ Number(Active) = Cardinality(In(ActiveLabels, pc))
        /\ Number(Idle) = Cardinality(In(IdleLabels, pc))
    BY <1>1 DEF Number
  <1>. QED BY <1>2 DEF Counted, OneWaiter, CountsExact, Bit

\* A step of t, in which others at most return from evq:sync.
Stays(u) == pc'[u] = pc[u] \/ (pc[u] = "sync" /\ pc'[u] = "out")
Moves(t, l) ==
    /\ pc' \in [Threads -> Labels] /\ pc'[t] = l
    /\ \A u \in Threads : u # t => Stays(u)

\* The flag and the counters follow the thread.
Tallied(t, l) ==
    /\ Bit(waiting') = Bit(waiting) - Bit(pc[t] \in WaiterLabels) + Bit(l \in WaiterLabels)
    /\ nactives' = nactives - Bit(pc[t] \in ActiveLabels) + Bit(l \in ActiveLabels)
    /\ nidles' = nidles - Bit(pc[t] \in IdleLabels) + Bit(l \in IdleLabels)

LEMMA CountStep ==
  ASSUME Counted, NEW t \in Threads, NEW l, Moves(t, l),
         Tallied(t, l)
  PROVE  Counted' /\ nactives' \in Nat /\ nidles' \in Nat
  <1>1. \A L \in {WaiterLabels, ActiveLabels, IdleLabels} :
          \A u \in Threads : u # t => (pc'[u] \in L <=> pc[u] \in L)
    BY DEF Moves, Stays, WaiterLabels, ActiveLabels, IdleLabels
  <1>2. \A L \in {WaiterLabels, ActiveLabels, IdleLabels} :
          Cardinality(In(L, pc')) = Cardinality(In(L, pc)) - Bit(pc[t] \in L) + Bit(l \in L)
    <2>. SUFFICES ASSUME NEW L \in {WaiterLabels, ActiveLabels, IdleLabels}
                 PROVE  Cardinality(In(L, pc'))
                          = Cardinality(In(L, pc)) - Bit(pc[t] \in L) + Bit(l \in L)
      OBVIOUS
    <2>1. \A u \in Threads : u # t => (pc'[u] \in L <=> pc[u] \in L)
      BY <1>1
    <2>2. Cardinality(In(L, pc'))
            = Cardinality(In(L, pc)) - Bit(pc[t] \in L) + Bit(pc'[t] \in L)
      BY <2>1, InMove
    <2>3. pc'[t] = l
      BY DEF Moves
    <2>. QED BY <2>2, <2>3
  <1>3. \A L \in {WaiterLabels, ActiveLabels, IdleLabels} : Cardinality(In(L, pc')) \in Nat
    BY InFinite
  <1>. QED BY <1>2, <1>3 DEF Counted, Tallied

-----------------------------------------------------------------------------
(* What there is to show of a step.                                        *)

Roles(t, l) ==
    /\ t \in Loopers => l \notin {"add", "del", "sync"}
    /\ t \in Controllers => l \in {"out", "add", "del"}
    /\ t \in Callers => l \in {"out", "sync"}

LEMMA KindsOfThreads ==
  /\ Loopers \subseteq Threads /\ Controllers \subseteq Threads /\ Callers \subseteq Threads
  /\ \A t \in Loopers : t \notin Controllers /\ t \notin Callers
  /\ \A t \in Controllers : t \notin Callers
  /\ \A t \in Threads : t # NoThread
  BY LoopAssumption DEF Threads

LEMMA Types == TypeOK <=> /\ SlotTypes /\ FlagTypes /\ nactives \in Nat /\ nidles \in Nat
                          /\ pc \in [Threads -> Labels]
                          /\ arg \in [Threads -> Slots \cup {0}]
                          /\ vm \in Threads \cup {NoThread}
  BY DEF TypeOK, SlotTypes, FlagTypes

LEMMA StepInv ==
  ASSUME Inv, NEW t \in Threads, NEW l, Moves(t, l), Roles(t, l),
         vm \in {t, NoThread} \/ l \notin LockLabels,
         vm' = IF l \in LockLabels THEN t ELSE IF vm = t THEN NoThread ELSE vm,
         arg' \in [Threads -> Slots \cup {0}],
         l \in {"add", "del"} => arg'[t] \in Slots,
         \A u \in Threads : u # t => arg'[u] = arg[u],
         l = "next" => ready' # <<>>,
         ready' = ready \/ vm \in {t, NoThread},
         SlotTypes', FlagTypes',
         Tallied(t, l),
         NeverAbandoned'
  PROVE  Inv'
  <1>1. Counted' /\ nactives' \in Nat /\ nidles' \in Nat
    BY CountStep DEF Inv
  <1>2. vm' \in Threads \cup {NoThread}
    BY DEF Inv, TypeOK
  <1>3. TypeOK'
    <2>1. pc' \in [Threads -> Labels]
      BY DEF Moves
    <2>. QED BY <1>1, <1>2, <2>1 DEF TypeOK, SlotTypes, FlagTypes
  <1>4. Located'
    <2>. USE DEF Located
    <2>0. /\ \A u \in Threads : u # t => Stays(u)
          /\ pc'[t] = l /\ t # NoThread
          /\ \A u \in Threads : u \notin Loopers => u \in Controllers \cup Callers
      BY KindsOfThreads DEF Moves, Threads
    <2>1. \A u \in Threads : pc'[u] \in LockLabels <=> vm' = u
      BY <2>0, KindsOfThreads DEF Inv, Stays, LockLabels
    <2>2. \A u \in Loopers : pc'[u] \notin {"add", "del", "sync"}
      BY <2>0, KindsOfThreads DEF Inv, Stays, Roles
    <2>3. \A u \in Controllers : pc'[u] \in {"out", "add", "del"}
      BY <2>0, KindsOfThreads DEF Inv, Stays, Roles
    <2>4. \A u \in Callers : pc'[u] \in {"out", "sync"}
      BY <2>0, KindsOfThreads DEF Inv, Stays, Roles
    <2>5. \A u \in Threads : pc'[u] \in {"add", "del"} => arg'[u] \in Slots
      BY <2>0 DEF Inv, Stays
    <2>6. \A u \in Threads : pc'[u] = "next" => ready' # <<>>
      <3>1. ASSUME NEW u \in Threads, u # t, pc'[u] = "next" PROVE ready' # <<>>
        <4>1. pc[u] = "next"
          BY <2>0, <3>1 DEF Stays
        <4>2. vm = u /\ ready # <<>>
          BY <4>1 DEF Inv, LockLabels
        <4>. QED BY <3>1, <4>2, KindsOfThreads
      <3>. QED BY <2>0, <3>1
    <2>. QED BY <2>1, <2>2, <2>3, <2>4, <2>5, <2>6
  <1>. QED BY <1>1, <1>3, <1>4 DEF Inv

-----------------------------------------------------------------------------
(* Facts that the actions share.                                           *)

LEMMA FunctionIsSeq ==
  ASSUME NEW S, NEW n \in Nat, NEW q \in [1..n -> S]
  PROVE  q \in Seq(S) /\ Len(q) = n
  OBVIOUS

LEMMA MovesExcept ==
  ASSUME Inv, NEW t \in Threads, NEW l \in Labels, pc' = [pc EXCEPT ![t] = l]
  PROVE  Moves(t, l)
  BY DEF Moves, Stays, Inv, TypeOK

LEMMA IdleCounted ==
  ASSUME Inv, NEW u \in Threads, pc[u] \in IdleLabels
  PROVE  nidles > 0
  BY InSome DEF Inv, Counted

LEMMA ActiveCounted ==
  ASSUME Inv, NEW u \in Threads, pc[u] \in ActiveLabels
  PROVE  nactives > 0
  BY InSome DEF Inv, Counted

LEMMA WaiterCounted ==
  ASSUME Inv, NEW u \in Threads, pc[u] \in WaiterLabels
  PROVE  waiting
  <1>1. Bit(waiting) > 0
    BY InSome DEF Inv, Counted
  <1>. QED BY <1>1 DEF Bit, Inv, TypeOK

\* Whoever holds the VM's lock looks after the queue.
LEMMA AttendedHolder ==
  ASSUME NEW t \in Threads, vm' = t
  PROVE  NeverAbandoned'
  BY KindsOfThreads DEF NeverAbandoned

\* A thread that blocks in another place than "idle", and leaves an idle thread only
\* with a signal, a waiting or an active thread.
LEMMA AttendedOut ==
  ASSUME Inv, NEW t \in Threads, NEW l, Moves(t, l), l # "idle",
         nidles > 0 => (wait_tev' \/ waiting' \/ nactives' > 0)
  PROVE  NeverAbandoned'
  <1>1. ASSUME NEW u \in Loopers, pc'[u] = "idle" PROVE nidles > 0
    <2>1. u \in Threads /\ u # t
      BY <1>1, KindsOfThreads DEF Moves
    <2>2. pc[u] \in IdleLabels
      BY <1>1, <2>1 DEF Moves, Stays, IdleLabels
    <2>. QED BY <2>1, <2>2, IdleCounted
  <1>. QED BY <1>1 DEF NeverAbandoned

\* Nothing happens to the flags, the counters and the slots.
LEMMA TypesKept ==
  ASSUME Inv
  PROVE  /\ SlotTypes /\ FlagTypes /\ nactives \in Nat /\ nidles \in Nat
         /\ pc \in [Threads -> Labels] /\ arg \in [Threads -> Slots \cup {0}]
         /\ (UNCHANGED slotVars => SlotTypes' /\ ready' = ready)
         /\ (UNCHANGED loopVars => FlagTypes')
         /\ UNCHANGED arg => /\ arg' \in [Threads -> Slots \cup {0}]
                             /\ \A u \in Threads : arg'[u] = arg[u]
  BY Types DEF Inv, SlotTypes, FlagTypes, slotVars, loopVars

-----------------------------------------------------------------------------
(* evq:loop                                                                *)

LEMMA levq_loopInv ==
  ASSUME Inv, NEW t \in Loopers, levq_loop(t)
  PROVE  Inv'
  <1>0. t \in Threads /\ Roles(t, "top") /\ t # NoThread
    BY KindsOfThreads DEF Roles
  <1>1. /\ pc[t] = "out" /\ vm = NoThread /\ vm' = t
        /\ UNCHANGED <<loopVars, slotVars, arg>>
    BY DEF levq_loop, At, Continue
  <1>2. Moves(t, "top")
    BY <1>0, MovesExcept DEF levq_loop, Continue, Labels
  <1>3. NeverAbandoned'
    BY <1>0, <1>1, AttendedHolder
  <1>4. Tallied(t, "top")
    BY <1>1, TypesKept DEF Tallied, Bit, WaiterLabels, ActiveLabels, IdleLabels, loopVars
  <1>. QED BY <1>0, <1>1, <1>2, <1>3, <1>4, TypesKept, StepInv DEF LockLabels

\* The calls that waited are resumed.
LEMMA SyncMoves ==
  ASSUME Inv, NEW t \in Loopers, NEW l \in Labels, SyncProcess(t, l)
  PROVE  Moves(t, l) /\ sync_op' \in SUBSET Callers
  <1>1. /\ pc' = [u \in Threads |-> IF u = t THEN l ELSE IF u \in sync_op THEN "out" ELSE pc[u]]
        /\ sync_op' = {}
    BY DEF SyncProcess
  <1>2. \A u \in sync_op : u \in Threads /\ pc[u] \in {"out", "sync"}
    BY KindsOfThreads DEF Inv, TypeOK, Located
  <1>3. pc \in [Threads -> Labels] /\ t \in Threads
    BY KindsOfThreads DEF Inv, TypeOK
  <1>4. \A u \in Threads : u # t => pc'[u] = pc[u] \/ (pc[u] = "sync" /\ pc'[u] = "out")
    BY <1>1, <1>2, <1>3
  <1>5. pc'[t] = l
    BY <1>1, <1>3
  <1>6. pc' \in [Threads -> Labels]
    BY <1>1, <1>3 DEF Labels
  <1>. QED BY <1>1, <1>4, <1>5, <1>6 DEF Moves, Stays

LEMMA LoopTopInv ==
  ASSUME Inv, NEW t \in Loopers, LoopTop(t)
  PROVE  Inv'
  <1>0. t \in Threads /\ t # NoThread
        /\ Roles(t, "out") /\ Roles(t, "ready") /\ Roles(t, "gate")
    BY KindsOfThreads DEF Roles
  <1>1. /\ pc[t] = "top" /\ vm = t
        /\ UNCHANGED <<stop, waiting, nactives, nidles, sig, fetched, slotVars, arg>>
    BY DEF LoopTop, At
  <1>2. SlotTypes' /\ ready' = ready
    BY <1>1, TypesKept DEF slotVars
  <1>3. \A l \in {"out", "ready", "gate"} : Tallied(t, l)
    BY <1>1, TypesKept DEF Tallied, Bit, WaiterLabels, ActiveLabels, IdleLabels
  <1>4. CASE stop /\ Leave(t, waiting) /\ UNCHANGED sync_op
    <2>1. Moves(t, "out") /\ vm' = NoThread
      BY <1>0, <1>4, MovesExcept DEF Leave, Block, Labels
    <2>2. NeverAbandoned'
      BY <1>0, <1>1, <1>4, <2>1, AttendedOut DEF Leave, HandOver
    <2>3. FlagTypes'
      BY <1>1, <1>4, TypesKept DEF FlagTypes, Leave, HandOver
    <2>. QED BY <1>0, <1>1, <1>2, <1>3, <2>1, <2>2, <2>3, TypesKept, StepInv DEF LockLabels
  <1>5. ASSUME NEW l \in {"ready", "gate"}, SyncProcess(t, l), UNCHANGED wait_tev
        PROVE  Inv'
    <2>1. Moves(t, l) /\ sync_op' \in SUBSET Callers /\ vm' = t
      BY <1>5, SyncMoves DEF Labels, SyncProcess
    <2>2. NeverAbandoned'
      BY <1>0, <2>1, AttendedHolder
    <2>3. FlagTypes'
      BY <1>1, <1>5, <2>1, TypesKept DEF FlagTypes
    <2>. QED BY <1>0, <1>1, <1>2, <1>3, <2>1, <2>2, <2>3, TypesKept, StepInv DEF LockLabels
  <1>6. CASE SyncProcess(t, "out") /\ HandOver(waiting)
    <2>1. Moves(t, "out") /\ sync_op' \in SUBSET Callers /\ vm' = NoThread
      BY <1>6, SyncMoves DEF Labels, SyncProcess
    <2>2. NeverAbandoned'
      BY <1>0, <1>1, <1>6, <2>1, AttendedOut DEF HandOver
    <2>3. FlagTypes'
      BY <1>1, <1>6, <2>1, TypesKept DEF FlagTypes, HandOver
    <2>. QED BY <1>0, <1>1, <1>2, <1>3, <2>1, <2>2, <2>3, TypesKept, StepInv DEF LockLabels
  <1>. QED BY <1>4, <1>5, <1>6 DEF LoopTop

LEMMA GateInv ==
  ASSUME Inv, NEW t \in Loopers, Gate(t)
  PROVE  Inv'
  <1>0. t \in Threads /\ t # NoThread /\ Roles(t, "idle") /\ Roles(t, "epoll")
    BY KindsOfThreads DEF Roles
  <1>1. /\ pc[t] = "gate" /\ vm = t
        /\ UNCHANGED <<stop, nactives, wait_tev, sig, sync_op, fetched, slotVars, arg>>
    BY DEF Gate, At
  <1>2. SlotTypes' /\ ready' = ready
    BY <1>1, TypesKept DEF slotVars
  <1>3. CASE /\ nactives > 0 \/ waiting
             /\ nidles' = nidles + 1 /\ Block(t, "idle") /\ UNCHANGED waiting
    <2>1. Moves(t, "idle") /\ vm' = NoThread
      BY <1>0, <1>3, MovesExcept DEF Block, Labels
    <2>2. NeverAbandoned'
      BY <1>1, <1>3 DEF NeverAbandoned
    <2>3. FlagTypes'
      BY <1>1, <1>3, TypesKept DEF FlagTypes
    <2>4. Tallied(t, "idle")
      BY <1>1, <1>3, TypesKept DEF Tallied, Bit, WaiterLabels, ActiveLabels, IdleLabels
    <2>. QED BY <1>0, <1>1, <1>2, <2>1, <2>2, <2>3, <2>4, TypesKept, StepInv DEF LockLabels
  <1>4. CASE /\ ~(nactives > 0 \/ waiting)
             /\ waiting' = TRUE /\ Block(t, "epoll") /\ UNCHANGED nidles
    <2>1. Moves(t, "epoll") /\ vm' = NoThread
      BY <1>0, <1>4, MovesExcept DEF Block, Labels
    <2>2. NeverAbandoned'
      BY <1>4 DEF NeverAbandoned
    <2>3. FlagTypes'
      BY <1>1, <1>4, TypesKept DEF FlagTypes
    <2>4. Tallied(t, "epoll")
      BY <1>1, <1>4, TypesKept DEF Tallied, Bit, WaiterLabels, ActiveLabels, IdleLabels
    <2>. QED BY <1>0, <1>1, <1>2, <2>1, <2>2, <2>3, <2>4, TypesKept, StepInv DEF LockLabels
  <1>. QED BY <1>3, <1>4 DEF Gate

LEMMA ConsumeInv ==
  ASSUME Inv, NEW t \in Loopers, Consume(t)
  PROVE  Inv'
  <1>0. t \in Threads /\ t # NoThread /\ Roles(t, "woken")
    BY KindsOfThreads DEF Roles
  <1>1. /\ pc[t] = "idle" /\ pc' = [pc EXCEPT ![t] = "woken"] /\ wait_tev' = FALSE
        /\ UNCHANGED <<stop, waiting, nactives, nidles, sig, sync_op, fetched, slotVars, arg, vm>>
    BY DEF Consume
  <1>2. SlotTypes' /\ ready' = ready /\ FlagTypes'
    BY <1>1, TypesKept DEF slotVars, FlagTypes
  <1>3. Moves(t, "woken")
    BY <1>0, <1>1, MovesExcept DEF Labels
  <1>4. NeverAbandoned'
    BY <1>3 DEF NeverAbandoned, Moves
  <1>5. Tallied(t, "woken")
    BY <1>1, TypesKept DEF Tallied, Bit, WaiterLabels, ActiveLabels, IdleLabels
  <1>6. vm # t
    BY <1>0, <1>1 DEF Inv, Located, LockLabels
  <1>. QED BY <1>0, <1>1, <1>2, <1>3, <1>4, <1>5, <1>6, TypesKept, StepInv DEF LockLabels

LEMMA WokenInv ==
  ASSUME Inv, NEW t \in Loopers, Woken(t)
  PROVE  Inv'
  <1>0. t \in Threads /\ t # NoThread /\ Roles(t, "ready") /\ Roles(t, "gate")
    BY KindsOfThreads DEF Roles
  <1>. DEFINE l == IF ready # <<>> \/ stop THEN "ready" ELSE "gate"
  <1>1. /\ pc[t] = "woken" /\ vm = NoThread /\ vm' = t /\ nidles' = nidles - 1
        /\ pc' = [pc EXCEPT ![t] = l] /\ l \in {"ready", "gate"}
        /\ UNCHANGED <<stop, waiting, nactives, wait_tev, sig, sync_op, fetched, slotVars, arg>>
    BY DEF Woken, At, Continue
  <1>. HIDE DEF l
  <1>2. SlotTypes' /\ ready' = ready /\ FlagTypes'
    BY <1>1, TypesKept DEF slotVars, FlagTypes
  <1>3. Moves(t, l)
    BY <1>0, <1>1, MovesExcept DEF Labels
  <1>4. NeverAbandoned'
    BY <1>0, <1>1, AttendedHolder
  <1>5. Tallied(t, l)
    BY <1>1, TypesKept DEF Tallied, Bit, WaiterLabels, ActiveLabels, IdleLabels
  <1>. QED BY <1>0, <1>1, <1>2, <1>3, <1>4, <1>5, TypesKept, StepInv DEF LockLabels

-----------------------------------------------------------------------------
(* evq_wait                                                                *)

LEMMA WakesInv ==
  ASSUME Inv, NEW t \in Loopers, Wakes(t)
  PROVE  Inv'
  <1>0. t \in Threads /\ t # NoThread /\ Roles(t, "polled") /\ Roles(t, "expired")
    BY KindsOfThreads DEF Roles
  <1>1. PICK l \in {"polled", "expired"} :
          /\ pc[t] = "epoll" /\ pc' = [pc EXCEPT ![t] = l]
          /\ UNCHANGED <<stop, waiting, nactives, nidles, wait_tev, sig, sync_op, slotVars, arg, vm>>
          /\ fetched' \in [slots : SUBSET Slots, eventfd : BOOLEAN]
    <2>1. CASE EpollReturns(t)
      <3>1. /\ pc[t] = "epoll" /\ pc' = [pc EXCEPT ![t] = "polled"]
            /\ UNCHANGED <<stop, waiting, nactives, nidles, wait_tev, sig, sync_op, slotVars, arg, vm>>
            /\ \E S \in SUBSET alive : fetched' = [slots |-> S, eventfd |-> sig]
        BY <2>1 DEF EpollReturns
      <3>2. fetched' \in [slots : SUBSET Slots, eventfd : BOOLEAN]
        BY <3>1 DEF Inv, TypeOK
      <3>. QED BY <3>1, <3>2
    <2>2. CASE EpollInterrupted(t) \/ EpollTimesOut(t)
      BY <2>2 DEF EpollInterrupted, EpollTimesOut, loopVars, Inv, TypeOK
    <2>. QED BY <2>1, <2>2 DEF Wakes
  <1>2. SlotTypes' /\ ready' = ready
    BY <1>1, TypesKept DEF slotVars
  <1>3. FlagTypes'
    BY <1>1, TypesKept DEF FlagTypes
  <1>4. Moves(t, l)
    BY <1>0, <1>1, MovesExcept DEF Labels
  <1>5. NeverAbandoned'
    BY <1>0, <1>1, WaiterCounted DEF NeverAbandoned, WaiterLabels
  <1>6. Tallied(t, l)
    BY <1>1, TypesKept DEF Tallied, Bit, WaiterLabels, ActiveLabels, IdleLabels
  <1>7. vm # t
    BY <1>0, <1>1 DEF Inv, Located, LockLabels
  <1>. QED BY <1>0, <1>1, <1>2, <1>3, <1>4, <1>5, <1>6, <1>7, TypesKept, StepInv DEF LockLabels

LEMMA PolledInv ==
  ASSUME Inv, NEW t \in Loopers, Polled(t)
  PROVE  Inv'
  <1>0. t \in Threads /\ t # NoThread /\ Roles(t, "ready")
    BY KindsOfThreads DEF Roles
  <1>1. /\ pc[t] = "polled" /\ vm = NoThread /\ vm' = t
        /\ pc' = [pc EXCEPT ![t] = "ready"]
        /\ active' = active \cup fetched.slots
        /\ alive' = alive \ ((fetched.slots \ active) \cap oneshot)
        /\ sig' = (sig /\ ~fetched.eventfd) /\ fetched' = Nothing /\ waiting' = FALSE
        /\ UNCHANGED <<stop, nactives, nidles, wait_tev, sync_op,
                       nslots, free, deleted, oneshot, held, arg>>
    BY DEF Polled, At, Continue, evq_del
  <1>2. SlotTypes'
    <2>1. fetched.slots \subseteq Slots
      BY DEF Inv, TypeOK
    <2>2. PICK q \in SetToSeqs(fetched.slots \ active) : ready' = q \o ready
      BY DEF Polled
    <2>3. q \in Seq(Slots)
      <3>1. IsFiniteSet(Slots)
        BY LoopAssumption, FS_Interval DEF Slots
      <3>2. Cardinality(fetched.slots \ active) \in Nat
        BY <2>1, <3>1, FS_Subset, FS_CardinalityType
      <3>3. q \in [1..Cardinality(fetched.slots \ active) -> fetched.slots \ active]
        BY <2>2 DEF SetToSeqs
      <3>4. q \in [1..Cardinality(fetched.slots \ active) -> Slots]
        BY <2>1, <3>3
      <3>. QED BY <3>2, <3>4, FunctionIsSeq
    <2>4. ready' \in Seq(Slots)
      BY <2>2, <2>3, TypesKept DEF SlotTypes
    <2>. QED BY <1>1, <2>1, <2>4, TypesKept DEF SlotTypes
  <1>3. FlagTypes'
    BY <1>1, TypesKept DEF FlagTypes, Nothing
  <1>4. Moves(t, "ready")
    BY <1>0, <1>1, MovesExcept DEF Labels
  <1>5. NeverAbandoned'
    BY <1>0, <1>1, AttendedHolder
  <1>6. Tallied(t, "ready")
    <2>1. waiting
      BY <1>0, <1>1, WaiterCounted DEF WaiterLabels
    <2>. QED BY <1>1, <2>1, TypesKept DEF Tallied, Bit, WaiterLabels, ActiveLabels, IdleLabels
  <1>. QED BY <1>0, <1>1, <1>2, <1>3, <1>4, <1>5, <1>6, TypesKept, StepInv DEF LockLabels

LEMMA ExpiredInv ==
  ASSUME Inv, NEW t \in Loopers, Expired(t)
  PROVE  Inv'
  <1>0. t \in Threads /\ t # NoThread /\ Roles(t, "out")
    BY KindsOfThreads DEF Roles
  <1>1. /\ pc[t] = "expired" /\ vm = NoThread /\ vm' = NoThread
        /\ pc' = [pc EXCEPT ![t] = "out"] /\ waiting' = FALSE
        /\ wait_tev' = (wait_tev \/ nidles > 0)
        /\ UNCHANGED <<stop, nactives, nidles, sig, sync_op, fetched, slotVars, arg>>
    BY DEF Expired, At, Leave, HandOver, Block
  <1>2. SlotTypes' /\ ready' = ready
    BY <1>1, TypesKept DEF slotVars
  <1>3. FlagTypes'
    BY <1>1, TypesKept DEF FlagTypes
  <1>4. Moves(t, "out")
    BY <1>0, <1>1, MovesExcept DEF Labels
  <1>5. NeverAbandoned'
    BY <1>0, <1>1, <1>4, AttendedOut
  <1>6. Tallied(t, "out")
    <2>1. waiting
      BY <1>0, <1>1, WaiterCounted DEF WaiterLabels
    <2>. QED BY <1>1, <2>1, TypesKept DEF Tallied, Bit, WaiterLabels, ActiveLabels, IdleLabels
  <1>. QED BY <1>0, <1>1, <1>2, <1>3, <1>4, <1>5, <1>6, TypesKept, StepInv DEF LockLabels

-----------------------------------------------------------------------------
(* The ready events                                                        *)

LEMMA ReadyTurnInv ==
  ASSUME Inv, NEW t \in Loopers, ReadyTurn(t)
  PROVE  Inv'
  <1>0. t \in Threads /\ t # NoThread /\ Roles(t, "top") /\ Roles(t, "next")
    BY KindsOfThreads DEF Roles
  <1>1. /\ pc[t] = "ready" /\ vm = t
        /\ UNCHANGED <<stop, waiting, nidles, sig, sync_op, fetched, slotVars, arg>>
    BY DEF ReadyTurn, At
  <1>2. SlotTypes' /\ ready' = ready
    BY <1>1, TypesKept DEF slotVars
  <1>3. PICK l \in {"top", "next"} :
          /\ Continue(t, l) /\ (l = "next" => ready # <<>>)
          /\ nactives' = IF l = "next" THEN nactives + 1 ELSE nactives
          /\ wait_tev' \in BOOLEAN
    BY TypesKept DEF ReadyTurn, FlagTypes
  <1>4. Moves(t, l) /\ vm' = t
    BY <1>0, <1>3, MovesExcept DEF Labels, Continue
  <1>5. FlagTypes'
    BY <1>1, <1>3, TypesKept DEF FlagTypes
  <1>6. NeverAbandoned'
    BY <1>0, <1>4, AttendedHolder
  <1>7. Tallied(t, l)
    BY <1>1, <1>3, TypesKept DEF Tallied, Bit, WaiterLabels, ActiveLabels, IdleLabels
  <1>. QED BY <1>0, <1>1, <1>2, <1>3, <1>4, <1>5, <1>6, <1>7, TypesKept, StepInv DEF LockLabels

\* The ways on after an event: out of the loop, to its top, or to the next event.
LEMMA AfterEventInv ==
  ASSUME Inv, NEW t \in Loopers, pc[t] \in {"next", "callback"}, vm \in {t, NoThread},
         UNCHANGED <<stop, waiting, nidles, sig, sync_op, fetched>>,
         SlotTypes', arg' \in [Threads -> Slots \cup {0}],
         \A u \in Threads : u # t => arg'[u] = arg[u],
         \/ nactives' = nactives - 1 /\ Leave(t, waiting)
         \/ nactives' = nactives - 1 /\ Continue(t, "top") /\ UNCHANGED wait_tev
         \/ Continue(t, "next") /\ UNCHANGED <<nactives, wait_tev>> /\ ready' # <<>>
  PROVE  Inv'
  <1>0. t \in Threads /\ t # NoThread
        /\ Roles(t, "out") /\ Roles(t, "top") /\ Roles(t, "next")
    BY KindsOfThreads DEF Roles
  <1>1. CASE nactives' = nactives - 1 /\ Leave(t, waiting)
    <2>1. Moves(t, "out") /\ vm' = NoThread
      BY <1>0, <1>1, MovesExcept DEF Labels, Leave, Block
    <2>2. wait_tev' = (wait_tev \/ (nidles > 0 /\ ~waiting)) /\ FlagTypes'
      BY <1>1, TypesKept DEF Leave, HandOver, FlagTypes
    <2>3. NeverAbandoned'
      BY <1>0, <2>1, <2>2, AttendedOut
    <2>4. Tallied(t, "out")
      BY <1>1, TypesKept DEF Tallied, Bit, WaiterLabels, ActiveLabels, IdleLabels
    <2>. QED BY <1>0, <2>1, <2>2, <2>3, <2>4, StepInv DEF LockLabels
  <1>2. CASE nactives' = nactives - 1 /\ Continue(t, "top") /\ UNCHANGED wait_tev
    <2>1. Moves(t, "top") /\ vm' = t
      BY <1>0, <1>2, MovesExcept DEF Labels, Continue
    <2>2. NeverAbandoned' /\ FlagTypes'
      BY <1>0, <1>2, <2>1, AttendedHolder, TypesKept DEF FlagTypes
    <2>4. Tallied(t, "top")
      BY <1>2, TypesKept DEF Tallied, Bit, WaiterLabels, ActiveLabels, IdleLabels
    <2>. QED BY <1>0, <2>1, <2>2, <2>4, StepInv DEF LockLabels
  <1>3. CASE Continue(t, "next") /\ UNCHANGED <<nactives, wait_tev>> /\ ready' # <<>>
    <2>1. Moves(t, "next") /\ vm' = t
      BY <1>0, <1>3, MovesExcept DEF Labels, Continue
    <2>2. NeverAbandoned' /\ FlagTypes'
      BY <1>0, <1>3, <2>1, AttendedHolder, TypesKept DEF FlagTypes
    <2>4. Tallied(t, "next")
      BY <1>3, TypesKept DEF Tallied, Bit, WaiterLabels, ActiveLabels, IdleLabels
    <2>. QED BY <1>0, <1>3, <2>1, <2>2, <2>4, StepInv DEF LockLabels
  <1>. QED BY <1>1, <1>2, <1>3

LEMMA HandleDeletedInv ==
  ASSUME Inv, NEW t \in Loopers, HandleDeleted(t)
  PROVE  Inv'
  <1>1. /\ pc[t] = "next" /\ vm = t /\ t \in Threads
        /\ ready' = Tail(ready) /\ free' = <<Head(ready)>> \o free
        /\ active' = active \ {Head(ready)}
        /\ UNCHANGED <<stop, waiting, nidles, sig, sync_op, fetched,
                       nslots, alive, deleted, oneshot, held, arg>>
    BY KindsOfThreads DEF HandleDeleted, At, Freed
  <1>2. ready # <<>>
    BY <1>1 DEF Inv, Located
  <1>3. SlotTypes'
    BY <1>1, <1>2, TypesKept DEF SlotTypes
  <1>4. \/ nactives' = nactives - 1 /\ Leave(t, waiting)
        \/ nactives' = nactives - 1 /\ Continue(t, "top") /\ UNCHANGED wait_tev
        \/ Continue(t, "next") /\ UNCHANGED <<nactives, wait_tev>> /\ ready' # <<>>
    BY DEF HandleDeleted, ListDone
  <1>. QED BY <1>1, <1>3, <1>4, TypesKept, AfterEventInv

LEMMA HandleReadyInv ==
  ASSUME Inv, NEW t \in Loopers, HandleReady(t)
  PROVE  Inv'
  <1>0. t \in Threads /\ t # NoThread /\ Roles(t, "callback")
    BY KindsOfThreads DEF Roles
  <1>. DEFINE s == Head(ready)
  <1>1. /\ pc[t] = "next" /\ vm = t /\ vm' = NoThread
        /\ pc' = [pc EXCEPT ![t] = "callback"] /\ arg' = [arg EXCEPT ![t] = s]
        /\ ready' = Tail(ready) /\ free' \in {free, <<s>> \o free}
        /\ active' = active \ {s} /\ alive' \in {alive, alive \ {s}} /\ held' \in {held, held \ {s}}
        /\ UNCHANGED <<loopVars, nslots, deleted, oneshot>>
    BY DEF HandleReady, At, Freed, Block, evq_del
  <1>2. ready # <<>>
    BY <1>0, <1>1 DEF Inv, Located
  <1>3. s \in Slots
    BY <1>2, TypesKept DEF SlotTypes
  <1>. HIDE DEF s
  <1>4. Tail(ready) \in Seq(Slots) /\ <<s>> \o free \in Seq(Slots)
    BY <1>2, <1>3, TypesKept DEF SlotTypes
  <1>5. SlotTypes' /\ FlagTypes'
    BY <1>1, <1>4, TypesKept DEF SlotTypes, FlagTypes, loopVars
  <1>6. Moves(t, "callback")
    BY <1>0, <1>1, MovesExcept DEF Labels
  <1>7. NeverAbandoned'
    <2>1. nactives' > 0
      BY <1>0, <1>1, ActiveCounted DEF ActiveLabels, loopVars
    <2>. QED BY <2>1 DEF NeverAbandoned
  <1>8. Tallied(t, "callback")
    BY <1>1, TypesKept DEF Tallied, Bit, WaiterLabels, ActiveLabels, IdleLabels, loopVars
  <1>9. arg' \in [Threads -> Slots \cup {0}] /\ \A u \in Threads : u # t => arg'[u] = arg[u]
    BY <1>0, <1>1, <1>3, TypesKept
  <1>. QED BY <1>0, <1>1, <1>5, <1>6, <1>7, <1>8, <1>9, StepInv DEF LockLabels

LEMMA CallbackInv ==
  ASSUME Inv, NEW t \in Loopers, CallbackReturns(t) \/ CallbackFails(t)
  PROVE  Inv'
  <1>1. /\ pc[t] = "callback" /\ vm = NoThread /\ t \in Threads
        /\ arg' = [arg EXCEPT ![t] = 0]
        /\ UNCHANGED <<stop, waiting, nidles, sig, sync_op, fetched, slotVars>>
    BY KindsOfThreads DEF CallbackReturns, CallbackFails, At
  <1>2. SlotTypes' /\ ready' = ready
    BY <1>1, TypesKept
  <1>3. arg' \in [Threads -> Slots \cup {0}] /\ \A u \in Threads : u # t => arg'[u] = arg[u]
    BY <1>1, TypesKept
  <1>4. \/ nactives' = nactives - 1 /\ Leave(t, waiting)
        \/ nactives' = nactives - 1 /\ Continue(t, "top") /\ UNCHANGED wait_tev
        \/ Continue(t, "next") /\ UNCHANGED <<nactives, wait_tev>> /\ ready' # <<>>
    BY <1>2 DEF CallbackReturns, CallbackFails, ListDone
  <1>. QED BY <1>1, <1>2, <1>3, <1>4, AfterEventInv

-----------------------------------------------------------------------------
(* The calls                                                               *)

\* A call that does not wait moves nobody.
LEMMA CallGoesInv ==
  ASSUME Inv, NEW t \in Threads, MayCall(t), ControlGo(nactives), UNCHANGED threadVars, SlotTypes'
  PROVE  Inv'
  <1>1. /\ vm = NoThread /\ pc[t] \in {"out", "callback"} /\ UNCHANGED <<pc, arg, vm>>
        /\ UNCHANGED <<stop, waiting, nactives, nidles, sig, sync_op, fetched>>
        /\ wait_tev' = (wait_tev \/ (nactives = 0 /\ nidles > 0))
    BY DEF MayCall, At, ControlGo, threadVars
  <1>2. Moves(t, pc[t]) /\ Roles(t, pc[t]) /\ t # NoThread
    BY <1>1, TypesKept, KindsOfThreads DEF Moves, Stays, Roles, Inv, Located
  <1>3. FlagTypes'
    BY <1>1, TypesKept DEF FlagTypes
  <1>4. NeverAbandoned'
    <2>1. nactives = 0 /\ nidles > 0 => wait_tev'
      BY <1>1
    <2>2. nactives' = 0 \/ nactives' > 0
      BY <1>1, TypesKept
    <2>. QED BY <1>1, <1>2, <2>1, <2>2, AttendedOut
  <1>5. Tallied(t, pc[t])
    BY <1>1, TypesKept DEF Tallied, Bit
  <1>. QED BY <1>1, <1>2, <1>3, <1>4, <1>5, TypesKept, StepInv DEF LockLabels

\* A call that waits is one of a controller: a callback is active.
LEMMA CallWaitsInv ==
  ASSUME Inv, NEW t \in Threads, MayCall(t), MustWait, NEW l \in {"add", "del"}, NEW s \in Slots,
         ControlStop(t, l, s), SlotTypes', ready' = ready
  PROVE  Inv'
  <1>1. /\ vm = NoThread /\ vm' = NoThread /\ nactives = 0 /\ nactives' = nactives + 1 /\ sig' = TRUE
        /\ pc' = [pc EXCEPT ![t] = l] /\ arg' = [arg EXCEPT ![t] = s]
        /\ UNCHANGED <<stop, waiting, nidles, wait_tev, sync_op, fetched>>
    BY DEF MayCall, At, ControlStop, MustWait, Block
  <1>2. pc[t] = "out" /\ t \in Controllers
    BY <1>1, ActiveCounted DEF MayCall, At, ActiveLabels
  <1>3. Moves(t, l) /\ Roles(t, l) /\ t # NoThread
    BY <1>1, <1>2, MovesExcept, KindsOfThreads DEF Roles, Labels
  <1>4. FlagTypes'
    BY <1>1, TypesKept DEF FlagTypes
  <1>5. NeverAbandoned'
    BY <1>1 DEF NeverAbandoned
  <1>6. Tallied(t, l)
    BY <1>1, <1>2, TypesKept DEF Tallied, Bit, WaiterLabels, ActiveLabels, IdleLabels
  <1>7. /\ arg' \in [Threads -> Slots \cup {0}] /\ arg'[t] \in Slots
        /\ \A u \in Threads : u # t => arg'[u] = arg[u]
    BY <1>1, TypesKept
  <1>. QED BY <1>1, <1>3, <1>4, <1>5, <1>6, <1>7, StepInv DEF LockLabels

\* The rest of a call that waited.
LEMMA CallEndsInv ==
  ASSUME Inv, NEW t \in Controllers, pc[t] \in {"add", "del"}, vm = NoThread,
         ControlGo(nactives - 1), Block(t, "out"), arg' = [arg EXCEPT ![t] = 0],
         SlotTypes', ready' = ready
  PROVE  Inv'
  <1>0. t \in Threads /\ t # NoThread /\ Roles(t, "out")
    BY KindsOfThreads DEF Roles
  <1>1. /\ vm' = NoThread /\ pc' = [pc EXCEPT ![t] = "out"] /\ nactives' = nactives - 1
        /\ wait_tev' = (wait_tev \/ (nactives - 1 = 0 /\ nidles > 0))
        /\ UNCHANGED <<stop, waiting, nidles, sig, sync_op, fetched>>
    BY DEF ControlGo, Block
  <1>2. Moves(t, "out")
    BY <1>0, <1>1, MovesExcept DEF Labels
  <1>3. FlagTypes'
    BY <1>1, TypesKept DEF FlagTypes
  <1>4. nactives > 0
    BY <1>0, ActiveCounted DEF ActiveLabels
  <1>5. NeverAbandoned'
    <2>1. nactives - 1 = 0 /\ nidles > 0 => wait_tev'
      BY <1>1
    <2>2. nactives' > 0 \/ nactives - 1 = 0
      BY <1>1, <1>4, TypesKept
    <2>. QED BY <1>0, <1>2, <2>1, <2>2, AttendedOut
  <1>6. Tallied(t, "out")
    BY <1>1, TypesKept DEF Tallied, Bit, WaiterLabels, ActiveLabels, IdleLabels
  <1>7. arg' \in [Threads -> Slots \cup {0}] /\ \A u \in Threads : u # t => arg'[u] = arg[u]
    BY <1>0, TypesKept
  <1>. QED BY <1>0, <1>1, <1>2, <1>3, <1>5, <1>6, <1>7, StepInv DEF LockLabels

\* levq_new_event: a slot for the event, and one in reserve.
LEMMA SupplyOK ==
  ASSUME SlotTypes, nslots + Fresh <= MaxSlots
  PROVE  /\ Fresh \in 0..2 /\ Len(free) + Fresh >= 2
         /\ Supply \in Seq(Slots) /\ Len(Supply) = Len(free) + Fresh
         /\ \A i \in 1..Len(Supply) :
              Supply[i] = IF i <= Len(free) THEN free[i] ELSE nslots + i - Len(free)
         /\ Head(Supply) \in Slots /\ Tail(Supply) \in Seq(Slots)
  <1>1. /\ free \in Seq(Slots) /\ Len(free) \in Nat /\ nslots \in Nat /\ MaxSlots \in Nat
        /\ Fresh \in 0..2 /\ Len(free) + Fresh >= 2
    BY LoopAssumption DEF SlotTypes, Fresh
  <1>. DEFINE g == [i \in 1..Fresh |-> nslots + i]
  <1>2. \A i \in 1..Fresh : nslots + i \in Slots
    BY <1>1 DEF Slots
  <1>3. g \in [1..Fresh -> Slots]
    BY <1>2
  <1>4. \A i \in 1..Fresh : g[i] = nslots + i
    OBVIOUS
  <1>5. Supply = free \o g
    BY DEF Supply
  <1>. HIDE DEF g
  <1>8. g \in Seq(Slots) /\ Len(g) = Fresh
    BY <1>1, <1>3, FunctionIsSeq
  <1>6. /\ Supply \in Seq(Slots) /\ Len(Supply) = Len(free) + Fresh
        /\ \A i \in 1..Len(Supply) :
             Supply[i] = IF i <= Len(free) THEN free[i] ELSE nslots + i - Len(free)
    BY <1>1, <1>4, <1>5, <1>8, SMTT(30)
  <1>7. Supply # <<>>
    BY <1>1, <1>6
  <1>. QED BY <1>1, <1>6, <1>7

LEMMA levq_addInv ==
  ASSUME Inv, NEW t \in Threads, levq_add(t)
  PROVE  Inv'
  <1>0. SlotTypes
    BY TypesKept
  <1>1. /\ MayCall(t) /\ nslots + Fresh <= MaxSlots /\ nslots' = nslots + Fresh
        /\ active' = active \ {Head(Supply)} /\ deleted' = deleted \ {Head(Supply)}
        /\ oneshot' \in {oneshot \cup {Head(Supply)}, oneshot \ {Head(Supply)}}
        /\ ready' = ready
    BY DEF levq_add, NewEvent
  <1>2. Head(Supply) \in Slots /\ Tail(Supply) \in Seq(Slots) /\ nslots' \in 0..MaxSlots
    BY <1>0, <1>1, SupplyOK, LoopAssumption DEF SlotTypes
  <1>3. CASE /\ MustWait /\ ControlStop(t, "add", Head(Supply)) /\ free' = Tail(Supply)
             /\ UNCHANGED <<alive, held>>
    <2>1. SlotTypes'
      BY <1>0, <1>1, <1>2, <1>3 DEF SlotTypes
    <2>. QED BY <1>1, <1>2, <1>3, <2>1, CallWaitsInv
  <1>4. CASE /\ Register(Head(Supply), Tail(Supply)) /\ ControlGo(nactives)
             /\ UNCHANGED threadVars
    <2>1. /\ free' \in {Tail(Supply), <<Head(Supply)>> \o Tail(Supply)}
          /\ alive' \in {alive, alive \cup {Head(Supply)}} /\ held' \in {held, held \cup {Head(Supply)}}
      BY <1>4 DEF Register, evq_add
    <2>2. <<Head(Supply)>> \o Tail(Supply) \in Seq(Slots)
      BY <1>2
    <2>3. SlotTypes'
      BY <1>0, <1>1, <1>2, <2>1, <2>2 DEF SlotTypes
    <2>. QED BY <1>1, <1>4, <2>3, CallGoesInv
  <1>. QED BY <1>3, <1>4 DEF levq_add

LEMMA AddGoInv ==
  ASSUME Inv, NEW t \in Controllers, AddGo(t)
  PROVE  Inv'
  <1>1. /\ pc[t] = "add" /\ vm = NoThread /\ Register(arg[t], free)
        /\ ControlGo(nactives - 1) /\ Block(t, "out") /\ arg' = [arg EXCEPT ![t] = 0]
        /\ UNCHANGED <<nslots, ready, active, deleted, oneshot>>
    BY DEF AddGo, At
  <1>2. arg[t] \in Slots
    BY <1>1, KindsOfThreads DEF Inv, Located
  <1>3. /\ free' \in {free, <<arg[t]>> \o free}
        /\ alive' \in {alive, alive \cup {arg[t]}} /\ held' \in {held, held \cup {arg[t]}}
    BY <1>1 DEF Register, evq_add
  <1>4. free \in Seq(Slots) /\ <<arg[t]>> \o free \in Seq(Slots)
    BY <1>2, TypesKept DEF SlotTypes
  <1>5. SlotTypes'
    BY <1>1, <1>2, <1>3, <1>4, TypesKept DEF SlotTypes
  <1>. QED BY <1>1, <1>5, CallEndsInv

LEMMA levq_delInv ==
  ASSUME Inv, NEW t \in Threads, levq_del(t)
  PROVE  Inv'
  <1>1. PICK s \in held :
          /\ held' = held \ {s}
          /\ \/ /\ MustWait /\ ControlStop(t, "del", s)
                /\ UNCHANGED <<nslots, free, ready, alive, active, deleted, oneshot>>
             \/ ControlGo(nactives) /\ Delete(s) /\ UNCHANGED threadVars
    BY DEF levq_del
  <1>2. s \in Slots /\ MayCall(t)
    BY TypesKept DEF SlotTypes, levq_del
  <1>3. CASE /\ MustWait /\ ControlStop(t, "del", s)
             /\ UNCHANGED <<nslots, free, ready, alive, active, deleted, oneshot>>
    <2>1. SlotTypes'
      BY <1>1, <1>3, TypesKept DEF SlotTypes
    <2>. QED BY <1>2, <1>3, <2>1, CallWaitsInv
  <1>4. CASE ControlGo(nactives) /\ Delete(s) /\ UNCHANGED threadVars
    <2>1. SlotTypes'
      BY <1>1, <1>2, <1>4, TypesKept DEF SlotTypes, Delete, Freed, evq_del
    <2>. QED BY <1>2, <1>4, <2>1, CallGoesInv
  <1>. QED BY <1>1, <1>3, <1>4

LEMMA DelGoInv ==
  ASSUME Inv, NEW t \in Controllers, DelGo(t)
  PROVE  Inv'
  <1>1. /\ pc[t] = "del" /\ vm = NoThread /\ Delete(arg[t])
        /\ ControlGo(nactives - 1) /\ Block(t, "out") /\ arg' = [arg EXCEPT ![t] = 0]
        /\ UNCHANGED held
    BY DEF DelGo, At
  <1>2. arg[t] \in Slots
    BY <1>1, KindsOfThreads DEF Inv, Located
  <1>3. SlotTypes' /\ ready' = ready
    BY <1>1, <1>2, TypesKept DEF SlotTypes, Delete, Freed, evq_del
  <1>. QED BY <1>1, <1>3, CallEndsInv

\* A step that leaves the flags and counters of the loop alone, and moves no looper.
LEMMA AttendedSame ==
  ASSUME Inv, vm = NoThread, UNCHANGED <<waiting, wait_tev, nactives>>,
         \A u \in Loopers : pc'[u] = pc[u]
  PROVE  NeverAbandoned'
  BY DEF Inv, NeverAbandoned

LEMMA levq_stopInv ==
  ASSUME Inv, NEW t \in Threads, levq_stop(t)
  PROVE  Inv'
  <1>1. /\ vm = NoThread /\ pc[t] \in {"out", "callback"} /\ UNCHANGED <<pc, arg, vm>>
        /\ stop' = TRUE /\ sig' = (sig \/ waiting)
        /\ UNCHANGED <<waiting, nactives, nidles, wait_tev, sync_op, fetched, slotVars>>
    BY DEF levq_stop, MayCall, At, threadVars
  <1>2. Moves(t, pc[t]) /\ Roles(t, pc[t]) /\ t # NoThread
    BY <1>1, TypesKept, KindsOfThreads DEF Moves, Stays, Roles, Inv, Located
  <1>3. FlagTypes' /\ SlotTypes' /\ ready' = ready
    BY <1>1, TypesKept DEF FlagTypes
  <1>4. NeverAbandoned'
    BY <1>1, AttendedSame
  <1>5. Tallied(t, pc[t])
    BY <1>1, TypesKept DEF Tallied, Bit
  <1>. QED BY <1>1, <1>2, <1>3, <1>4, <1>5, TypesKept, StepInv DEF LockLabels

LEMMA levq_syncInv ==
  ASSUME Inv, NEW t \in Callers, levq_sync(t)
  PROVE  Inv'
  <1>0. t \in Threads /\ t # NoThread /\ Roles(t, "sync") /\ t \notin Loopers
    BY KindsOfThreads DEF Roles
  <1>1. /\ vm = NoThread /\ vm' = NoThread /\ pc[t] = "out" /\ pc' = [pc EXCEPT ![t] = "sync"]
        /\ sync_op' = sync_op \cup {t} /\ sig' = (sig \/ waiting)
        /\ UNCHANGED <<stop, waiting, nactives, nidles, wait_tev, fetched, slotVars, arg>>
    BY DEF levq_sync, At, Block
  <1>2. Moves(t, "sync")
    BY <1>0, <1>1, MovesExcept DEF Labels
  <1>3. FlagTypes' /\ SlotTypes' /\ ready' = ready
    BY <1>1, TypesKept DEF FlagTypes
  <1>4. NeverAbandoned'
    <2>1. \A u \in Loopers : pc'[u] = pc[u]
      BY <1>0, <1>1, TypesKept, KindsOfThreads
    <2>. QED BY <1>1, <2>1, AttendedSame
  <1>5. Tallied(t, "sync")
    BY <1>1, TypesKept DEF Tallied, Bit, WaiterLabels, ActiveLabels, IdleLabels
  <1>. QED BY <1>0, <1>1, <1>2, <1>3, <1>4, <1>5, TypesKept, StepInv DEF LockLabels

-----------------------------------------------------------------------------
(* The loop is sound.                                                      *)

LEMMA InitInv == Init => Inv
  <1>. SUFFICES ASSUME Init PROVE Inv
    OBVIOUS
  <1>1. TypeOK
    <2>1. SlotTypes
      BY LoopAssumption DEF Init, SlotTypes
    <2>2. FlagTypes
      BY DEF Init, FlagTypes, Nothing
    <2>3. pc \in [Threads -> Labels] /\ arg \in [Threads -> Slots \cup {0}]
      BY DEF Init, Labels
    <2>. QED BY <2>1, <2>2, <2>3, Types DEF Init
  <1>2. pc = [t \in Threads |-> "out"] /\ vm = NoThread
    BY DEF Init
  <1>3. Located
    BY <1>2, KindsOfThreads DEF Located, LockLabels
  <1>4. Counted
    <2>1. \A L \in {WaiterLabels, ActiveLabels, IdleLabels} : In(L, pc) = {}
      BY <1>2 DEF In, WaiterLabels, ActiveLabels, IdleLabels
    <2>. QED BY <2>1, FS_EmptySet DEF Counted, Init, Bit
  <1>5. NeverAbandoned
    BY <1>2, KindsOfThreads DEF NeverAbandoned
  <1>. QED BY <1>1, <1>3, <1>4, <1>5 DEF Inv

LEMMA NextInv == Inv /\ [Next]_vars => Inv'
  <1>. SUFFICES ASSUME Inv, [Next]_vars PROVE Inv'
    OBVIOUS
  <1>1. ASSUME NEW t \in Loopers, levq_loop(t) \/ LoopStep(t) \/ Consume(t) \/ Wakes(t)
        PROVE  Inv'
    BY <1>1, levq_loopInv, ConsumeInv, WakesInv, LoopTopInv, GateInv, WokenInv, PolledInv,
       ExpiredInv, ReadyTurnInv, HandleDeletedInv, HandleReadyInv, CallbackInv DEF LoopStep
  <1>2. ASSUME NEW t \in Loopers \cup Controllers, Call(t)
        PROVE  Inv'
    BY <1>2, KindsOfThreads, levq_addInv, levq_delInv, levq_stopInv DEF Call
  <1>3. ASSUME NEW t \in Controllers, AddGo(t) \/ DelGo(t)
        PROVE  Inv'
    BY <1>3, AddGoInv, DelGoInv
  <1>4. ASSUME NEW t \in Callers, levq_sync(t)
        PROVE  Inv'
    BY <1>4, levq_syncInv
  <1>5. CASE UNCHANGED vars
    <2>1. UNCHANGED <<loopVars, slotVars, threadVars>>
      BY <1>5 DEF vars
    <2>2. UNCHANGED <<stop, waiting, nactives, nidles, wait_tev, sig, sync_op, fetched, nslots,
                      free, ready, alive, active, deleted, oneshot, held, pc, arg, vm>>
      BY <2>1 DEF loopVars, slotVars, threadVars
    <2>. QED BY <2>2 DEF Inv, TypeOK, Located, Counted, NeverAbandoned
  <1>. QED BY <1>1, <1>2, <1>3, <1>4, <1>5 DEF Next

LEMMA Invariance == Spec => []Inv
  BY InitInv, NextInv, PTL DEF Spec

\* For any number of threads: one of those in evq:loop waits for events and the flag says
\* so, nactives and nidles are exact, and no idle thread is left without another that
\* waits, works or is about to look (sys_evq.c:798-840, 930).
THEOREM LoopCorrect == Spec => []LoopSound
  <1>1. Inv => LoopSound
    BY CountedIsExact DEF Inv, LoopSound, TypeOK
  <1>. QED BY <1>1, Invariance, PTL

-----------------------------------------------------------------------------
(***************************************************************************)
(* The slots.  With one thread that changes the queue from outside, and    *)
(* no deletion of one-shot events, nothing happens to the events that      *)
(* epoll_wait has returned until they are processed.                       *)
(***************************************************************************)
Deleting == {arg[t] : t \in {u \in Threads : pc[u] = "del"}}

\* Where the slots are.
Parts ==
    /\ IsRepeatFree(free) /\ IsRepeatFree(ready) /\ ToSet(ready) = active
    /\ ToSet(free) \cap (active \cup alive \cup BeingAdded) = {}
    /\ (active \cup alive \cup deleted) \cap BeingAdded = {}
    /\ ToSet(free) \cup active \cup alive \cup BeingAdded = 1..nslots
    /\ deleted \cap alive = {}
    /\ held \subseteq alive \cup active /\ held \subseteq alive \cup oneshot
    /\ held \cap deleted = {}
    /\ Deleting \subseteq alive \ (oneshot \cup deleted \cup held)

\* While a thread waits there is no ready event and no callback runs, and what it was
\* returned stays where it is.
Quiet ==
    /\ waiting => ready = <<>>
    /\ \A t \in Threads : pc[t] = "gate" => ready = <<>>
    /\ \A t \in Threads : pc[t] \in {"next", "callback"} => ~waiting
    /\ fetched.slots \subseteq alive
    /\ ~waiting => fetched.slots = {}
    /\ \A t \in Threads : pc[t] \in {"epoll", "expired"} => fetched.slots = {}

SlotInv == Inv /\ Parts /\ Quiet

LEMMA Pushed ==
  ASSUME NEW S, NEW q \in Seq(S), NEW x \in S, IsRepeatFree(q), x \notin ToSet(q)
  PROVE  IsRepeatFree(<<x>> \o q) /\ ToSet(<<x>> \o q) = ToSet(q) \cup {x}
  <1>. DEFINE r == <<x>> \o q
  <1>1. /\ r \in Seq(S) /\ Len(r) = Len(q) + 1 /\ r[1] = x
        /\ \A i \in 2..Len(r) : i - 1 \in 1..Len(q) /\ r[i] = q[i - 1]
        /\ DOMAIN r = 1..Len(r) /\ DOMAIN q = 1..Len(q)
    OBVIOUS
  <1>2. \A i \in 1..Len(q) : i + 1 \in 2..Len(r) /\ r[i + 1] = q[i]
    BY <1>1
  <1>. HIDE DEF r
  <1>3. \A i \in 2..Len(r) : r[i] \in ToSet(q)
    BY <1>1 DEF ToSet
  <1>4. IsRepeatFree(r)
    <2>. SUFFICES ASSUME NEW i \in 1..Len(r), NEW j \in 1..Len(r), r[i] = r[j] PROVE i = j
      BY <1>1 DEF IsRepeatFree
    <2>1. CASE i = 1 \/ j = 1
      BY <1>1, <1>3, <2>1
    <2>2. CASE i # 1 /\ j # 1
      <3>1. i \in 2..Len(r) /\ j \in 2..Len(r)
        BY <1>1, <2>2
      <3>2. q[i - 1] = q[j - 1] /\ i - 1 \in DOMAIN q /\ j - 1 \in DOMAIN q
        BY <1>1, <3>1
      <3>3. i - 1 = j - 1
        BY <3>2 DEF IsRepeatFree
      <3>. QED BY <3>1, <3>3
    <2>. QED BY <2>1, <2>2
  <1>5. ToSet(r) = ToSet(q) \cup {x}
    <2>1. ASSUME NEW y \in ToSet(r) PROVE y \in ToSet(q) \cup {x}
      <3>1. PICK i \in 1..Len(r) : y = r[i]
        BY <1>1 DEF ToSet
      <3>2. i = 1 \/ i \in 2..Len(r)
        BY <1>1
      <3>. QED BY <1>1, <1>3, <3>1, <3>2
    <2>2. ASSUME NEW y \in ToSet(q) PROVE y \in ToSet(r)
      <3>1. PICK i \in 1..Len(q) : y = q[i]
        BY <1>1 DEF ToSet
      <3>2. i + 1 \in DOMAIN r /\ r[i + 1] = y
        BY <1>1, <1>2, <3>1
      <3>. QED BY <3>2 DEF ToSet
    <2>3. 1 \in DOMAIN r
      BY <1>1
    <2>4. x \in ToSet(r)
      BY <1>1, <2>3 DEF ToSet
    <2>. QED BY <2>1, <2>2, <2>4
  <1>. QED BY <1>4, <1>5 DEF r

LEMMA Popped ==
  ASSUME NEW S, NEW q \in Seq(S), q # <<>>, IsRepeatFree(q)
  PROVE  /\ IsRepeatFree(Tail(q)) /\ ToSet(Tail(q)) = ToSet(q) \ {Head(q)}
         /\ Head(q) \in ToSet(q)
  <1>. DEFINE r == Tail(q)
  <1>1. /\ r \in Seq(S) /\ Len(q) > 0 /\ Len(r) = Len(q) - 1 /\ Head(q) = q[1]
        /\ \A i \in 1..Len(r) : i + 1 \in 2..Len(q) /\ r[i] = q[i + 1]
        /\ DOMAIN r = 1..Len(r) /\ DOMAIN q = 1..Len(q)
    OBVIOUS
  <1>2. \A i \in 2..Len(q) : i - 1 \in 1..Len(r) /\ r[i - 1] = q[i]
    BY <1>1
  <1>. HIDE DEF r
  <1>3. IsRepeatFree(r)
    <2>. SUFFICES ASSUME NEW i \in 1..Len(r), NEW j \in 1..Len(r), r[i] = r[j] PROVE i = j
      BY <1>1 DEF IsRepeatFree
    <2>1. q[i + 1] = q[j + 1] /\ i + 1 \in DOMAIN q /\ j + 1 \in DOMAIN q
      BY <1>1
    <2>2. i + 1 = j + 1
      BY <2>1 DEF IsRepeatFree
    <2>. QED BY <1>1, <2>2
  <1>4. 1 \in DOMAIN q /\ Head(q) \in ToSet(q)
    BY <1>1 DEF ToSet
  <1>5. ASSUME NEW y \in ToSet(r) PROVE y \in ToSet(q) /\ y # Head(q)
    <2>1. PICK i \in 1..Len(r) : y = r[i]
      BY <1>1 DEF ToSet
    <2>2. i + 1 \in DOMAIN q /\ q[i + 1] = y /\ i + 1 # 1
      BY <1>1, <2>1
    <2>3. y # q[1]
      BY <1>4, <2>2 DEF IsRepeatFree
    <2>. QED BY <1>1, <2>2, <2>3 DEF ToSet
  <1>6. ASSUME NEW y \in ToSet(q), y # Head(q) PROVE y \in ToSet(r)
    <2>1. PICK i \in 1..Len(q) : y = q[i]
      BY <1>1 DEF ToSet
    <2>2. i \in 2..Len(q)
      BY <1>1, <1>6, <2>1
    <2>3. i - 1 \in DOMAIN r /\ r[i - 1] = y
      BY <1>1, <1>2, <2>1, <2>2
    <2>. QED BY <2>3 DEF ToSet
  <1>. QED BY <1>3, <1>4, <1>5, <1>6 DEF r

LEMMA Listed ==
  ASSUME NEW S, IsFiniteSet(S), NEW q \in SetToSeqs(S)
  PROVE  q \in Seq(S) /\ IsRepeatFree(q) /\ ToSet(q) = S
  <1>. DEFINE n == Cardinality(S)
  <1>1. n \in Nat
    BY FS_CardinalityType
  <1>. HIDE DEF n
  <1>2. q \in [1..n -> S] /\ \A i, j \in 1..n : i # j => q[i] # q[j]
    BY DEF SetToSeqs, n
  <1>3. q \in Seq(S) /\ DOMAIN q = 1..n
    BY <1>1, <1>2
  <1>4. IsRepeatFree(q)
    BY <1>2, <1>3 DEF IsRepeatFree
  <1>5. q \in Injection(1..n, S)
    BY <1>2 DEF Injection, IsInjective
  <1>6. IsFiniteSet(1..n) /\ Cardinality(1..n) = n
    BY <1>1, FS_Interval
  <1>7. q \in Surjection(1..n, S)
    BY <1>5, <1>6, FS_Injection DEF n
  <1>8. \A x \in S : \E i \in 1..n : q[i] = x
    BY <1>7 DEF Surjection
  <1>9. ToSet(q) = S
    BY <1>2, <1>3, <1>8 DEF ToSet
  <1>. QED BY <1>3, <1>4, <1>9

-----------------------------------------------------------------------------
(* Steps that leave the slots alone.                                       *)

\* No thread enters or leaves a call that waits.
LEMMA SameCalls ==
  ASSUME NEW t \in Threads, NEW l, Moves(t, l), {pc[t], l} \cap {"add", "del"} = {},
         \A u \in Threads : u # t => arg'[u] = arg[u]
  PROVE  BeingAdded' = BeingAdded /\ Deleting' = Deleting
  <1>1. \A u \in Threads : pc'[u] = "add" <=> pc[u] = "add"
    BY DEF Moves, Stays
  <1>2. \A u \in Threads : pc'[u] = "del" <=> pc[u] = "del"
    BY DEF Moves, Stays
  <1>3. \A u \in Threads : pc[u] \in {"add", "del"} => arg'[u] = arg[u]
    OBVIOUS
  <1>. QED BY <1>1, <1>2, <1>3 DEF BeingAdded, Deleting

LEMMA PartsKept ==
  ASSUME Parts, UNCHANGED slotVars, BeingAdded' = BeingAdded, Deleting' = Deleting
  PROVE  Parts'
  BY DEF Parts, slotVars

LEMMA QuietKept ==
  ASSUME Quiet, NEW t \in Threads, NEW l, Moves(t, l), ready' = ready, alive' = alive,
         waiting' = waiting, fetched' = fetched,
         l = "gate" => ready = <<>>,
         l \in {"next", "callback"} => ~waiting,
         l \in {"epoll", "expired"} => fetched.slots = {}
  PROVE  Quiet'
  <1>1. \A u \in Threads : u # t => pc'[u] = pc[u] \/ pc'[u] = "out"
    BY DEF Moves, Stays
  <1>2. pc'[t] = l
    BY DEF Moves
  <1>3. \A u \in Threads : pc'[u] = "gate" => ready = <<>>
    BY <1>1, <1>2 DEF Quiet
  <1>4. \A u \in Threads : pc'[u] \in {"next", "callback"} => ~waiting
    BY <1>1, <1>2 DEF Quiet
  <1>5. \A u \in Threads : pc'[u] \in {"epoll", "expired"} => fetched.slots = {}
    BY <1>1, <1>2 DEF Quiet
  <1>. QED BY <1>3, <1>4, <1>5 DEF Quiet

LEMMA IdleStepSlots ==
  ASSUME SlotInv, NEW t \in Loopers, levq_loop(t) \/ LoopTop(t) \/ Consume(t) \/ Woken(t)
  PROVE  Parts' /\ Quiet'
  <1>0. t \in Threads /\ Inv /\ Parts /\ Quiet
    BY KindsOfThreads DEF SlotInv
  <1>1. UNCHANGED <<slotVars, waiting, fetched, arg>>
    BY DEF levq_loop, LoopTop, Consume, Woken, loopVars
  <1>2. PICK l \in {"top", "out", "ready", "gate", "woken"} :
          Moves(t, l) /\ (l = "gate" => ready = <<>>) /\ pc[t] \in {"out", "top", "idle", "woken"}
    <2>1. CASE levq_loop(t)
      BY <1>0, <2>1, MovesExcept DEF levq_loop, At, Continue, Labels
    <2>2. CASE LoopTop(t)
      <3>1. CASE Leave(t, waiting)
        BY <1>0, <2>2, <3>1, MovesExcept DEF LoopTop, At, Leave, Block, Labels
      <3>2. ASSUME NEW l \in {"ready", "gate", "out"}, SyncProcess(t, l), l = "gate" => ready = <<>>
            PROVE  Moves(t, l) /\ pc[t] = "top"
        BY <1>0, <2>2, <3>2, SyncMoves DEF LoopTop, At, Labels
      <3>. QED BY <2>2, <3>1, <3>2 DEF LoopTop
    <2>3. CASE Consume(t)
      BY <1>0, <2>3, MovesExcept DEF Consume, Labels
    <2>4. CASE Woken(t)
      <3>1. PICK l \in {"ready", "gate"} : pc' = [pc EXCEPT ![t] = l] /\ (l = "gate" => ready = <<>>)
        BY <2>4 DEF Woken, Continue
      <3>. QED BY <1>0, <2>4, <3>1, MovesExcept DEF Woken, At, Labels
    <2>. QED BY <2>1, <2>2, <2>3, <2>4
  <1>3. BeingAdded' = BeingAdded /\ Deleting' = Deleting
    BY <1>0, <1>1, <1>2, SameCalls
  <1>4. Parts'
    BY <1>0, <1>1, <1>3, PartsKept
  <1>5. Quiet'
    BY <1>0, <1>1, <1>2, QuietKept DEF slotVars
  <1>. QED BY <1>4, <1>5

LEMMA GateSlots ==
  ASSUME SlotInv, NEW t \in Loopers, Gate(t)
  PROVE  Parts' /\ Quiet'
  <1>0. t \in Threads /\ Inv /\ Parts /\ Quiet
    BY KindsOfThreads DEF SlotInv
  <1>1. UNCHANGED <<slotVars, fetched, arg>> /\ pc[t] = "gate" /\ vm = t
    BY DEF Gate, At
  <1>2. CASE Block(t, "idle") /\ UNCHANGED waiting
    <2>1. Moves(t, "idle")
      BY <1>0, <1>2, MovesExcept DEF Block, Labels
    <2>2. BeingAdded' = BeingAdded /\ Deleting' = Deleting
      BY <1>0, <1>1, <2>1, SameCalls
    <2>. QED BY <1>0, <1>1, <1>2, <2>1, <2>2, PartsKept, QuietKept DEF slotVars
  <1>3. CASE ~(nactives > 0 \/ waiting) /\ Block(t, "epoll") /\ waiting' = TRUE
    <2>1. Moves(t, "epoll")
      BY <1>0, <1>3, MovesExcept DEF Block, Labels
    <2>2. BeingAdded' = BeingAdded /\ Deleting' = Deleting
      BY <1>0, <1>1, <2>1, SameCalls
    <2>3. \A u \in Threads : pc'[u] \notin {"next", "callback"}
      <3>1. \A u \in Threads : pc[u] \notin ActiveLabels
        BY <1>0, <1>3, ActiveCounted
      <3>. QED BY <2>1, <3>1 DEF Moves, Stays, ActiveLabels
    <2>4. ready' = <<>> /\ fetched'.slots = {}
      BY <1>0, <1>1, <1>3 DEF Quiet, slotVars
    <2>. QED BY <1>0, <1>1, <2>2, <2>3, <2>4, PartsKept DEF Quiet
  <1>. QED BY <1>2, <1>3 DEF Gate

\* There is one waiting thread.
LEMMA OnlyWaiter ==
  ASSUME Inv, NEW t \in Threads, NEW u \in Threads,
         pc[t] \in WaiterLabels, pc[u] \in WaiterLabels
  PROVE  t = u
  <1>1. Cardinality(In(WaiterLabels, pc)) <= 1
    BY DEF Inv, Counted, Bit
  <1>. QED BY <1>1, InOne

LEMMA WakesSlots ==
  ASSUME SlotInv, NEW t \in Loopers, Wakes(t)
  PROVE  Parts' /\ Quiet'
  <1>0. t \in Threads /\ Inv /\ Parts /\ Quiet
    BY KindsOfThreads DEF SlotInv
  <1>1. UNCHANGED <<slotVars, waiting, arg>> /\ pc[t] = "epoll"
    BY DEF Wakes, EpollReturns, EpollInterrupted, EpollTimesOut, loopVars
  <1>2. PICK l \in {"polled", "expired"} :
          /\ pc' = [pc EXCEPT ![t] = l] /\ (l = "expired" => fetched' = fetched)
          /\ fetched' = fetched \/ fetched'.slots \subseteq alive
    BY DEF Wakes, EpollReturns, EpollInterrupted, EpollTimesOut, loopVars
  <1>3. Moves(t, l)
    BY <1>0, <1>2, MovesExcept DEF Labels
  <1>4. BeingAdded' = BeingAdded /\ Deleting' = Deleting
    BY <1>0, <1>1, <1>3, SameCalls
  <1>5. Parts'
    BY <1>0, <1>1, <1>4, PartsKept
  <1>6. Quiet'
    <2>1. waiting /\ fetched.slots = {}
      BY <1>0, <1>1, WaiterCounted DEF Quiet, WaiterLabels
    <2>2. \A u \in Threads : u # t => pc'[u] \notin {"epoll", "expired"}
      BY <1>0, <1>1, <1>3, OnlyWaiter DEF Moves, Stays, WaiterLabels
    <2>3. \A u \in Threads : pc'[u] \notin {"next", "callback"} /\ (pc'[u] = "gate" => ready = <<>>)
      BY <1>0, <1>3, <2>1 DEF Moves, Stays, Quiet
    <2>4. pc'[t] = l /\ fetched'.slots \subseteq alive
      BY <1>0, <1>2, <1>3 DEF Quiet, Moves
    <2>5. \A u \in Threads : pc'[u] \in {"epoll", "expired"} => fetched'.slots = {}
      BY <1>2, <2>1, <2>2, <2>4
    <2>. QED BY <1>0, <1>1, <2>1, <2>3, <2>4, <2>5 DEF Quiet, slotVars
  <1>. QED BY <1>5, <1>6

-----------------------------------------------------------------------------
(* The ready events.                                                       *)

LEMMA ExpiredSlots ==
  ASSUME SlotInv, NEW t \in Loopers, Expired(t)
  PROVE  Parts' /\ Quiet'
  <1>0. t \in Threads /\ Inv /\ Parts /\ Quiet
    BY KindsOfThreads DEF SlotInv
  <1>1. /\ UNCHANGED <<slotVars, fetched, arg>> /\ pc[t] = "expired" /\ vm = NoThread
        /\ waiting' = FALSE /\ pc' = [pc EXCEPT ![t] = "out"]
    BY DEF Expired, At, Leave, Block
  <1>2. Moves(t, "out")
    BY <1>0, <1>1, MovesExcept DEF Labels
  <1>3. BeingAdded' = BeingAdded /\ Deleting' = Deleting
    BY <1>0, <1>1, <1>2, SameCalls
  <1>4. fetched.slots = {}
    BY <1>0, <1>1 DEF Quiet
  <1>5. \A u \in Threads : pc'[u] = "gate" => ready = <<>>
    BY <1>0, <1>2 DEF Moves, Stays, Quiet
  <1>. QED BY <1>0, <1>1, <1>3, <1>4, <1>5, PartsKept DEF Quiet, slotVars

LEMMA PolledSlots ==
  ASSUME SlotInv, NEW t \in Loopers, Polled(t)
  PROVE  Parts' /\ Quiet'
  <1>0. t \in Threads /\ Inv /\ Parts /\ Quiet
    BY KindsOfThreads DEF SlotInv
  <1>. DEFINE S == fetched.slots \ active
  <1>1. /\ pc[t] = "polled" /\ vm = NoThread /\ pc' = [pc EXCEPT ![t] = "ready"]
        /\ active' = active \cup fetched.slots /\ alive' = alive \ (S \cap oneshot)
        /\ fetched' = Nothing /\ waiting' = FALSE
        /\ UNCHANGED <<nslots, free, deleted, oneshot, held, arg>>
    BY DEF Polled, At, Continue, evq_del
  <1>2. Moves(t, "ready")
    BY <1>0, <1>1, MovesExcept DEF Labels
  <1>3. BeingAdded' = BeingAdded /\ Deleting' = Deleting
    BY <1>0, <1>1, <1>2, SameCalls
  <1>4. waiting
    BY <1>0, <1>1, WaiterCounted DEF WaiterLabels
  <1>5. ready = <<>> /\ active = {} /\ fetched.slots \subseteq alive
    BY <1>0, <1>4 DEF Quiet, Parts, ToSet
  <1>6. PICK q \in SetToSeqs(S) : ready' = q \o ready
    BY DEF Polled
  <1>7. IsFiniteSet(S)
    <2>1. S \subseteq Slots
      BY <1>0 DEF Inv, TypeOK
    <2>. QED BY <2>1, LoopAssumption, FS_Interval, FS_Subset DEF Slots
  <1>8. q \in Seq(S) /\ IsRepeatFree(q) /\ ToSet(q) = S
    BY <1>7, Listed
  <1>9. ready' = q
    BY <1>5, <1>6, <1>8
  <1>10. Parts'
    <2>1. ToSet(ready') = active' /\ active' = fetched.slots /\ IsRepeatFree(ready')
      BY <1>1, <1>5, <1>8, <1>9
    <2>2. active' \cup alive' = active \cup alive
      BY <1>1, <1>5
    <2>3. Deleting \subseteq alive'
      BY <1>0, <1>1 DEF Parts
    <2>4. held \subseteq alive' \cup active' /\ held \subseteq alive' \cup oneshot
      BY <1>0, <1>1 DEF Parts
    <2>5. alive' \subseteq alive
      BY <1>1
    <2>. QED BY <1>0, <1>1, <1>3, <2>1, <2>2, <2>3, <2>4, <2>5 DEF Parts
  <1>11. Quiet'
    <2>1. fetched'.slots = {}
      BY <1>1 DEF Nothing
    <2>2. \A u \in Threads : pc'[u] # "gate"
      <3>1. \A u \in Threads : pc[u] # "gate"
        BY <1>0, <1>1, KindsOfThreads DEF Inv, Located, LockLabels
      <3>. QED BY <1>2, <3>1 DEF Moves, Stays
    <2>. QED BY <1>1, <2>1, <2>2 DEF Quiet
  <1>. QED BY <1>10, <1>11

LEMMA ReadyTurnSlots ==
  ASSUME SlotInv, NEW t \in Loopers, ReadyTurn(t)
  PROVE  Parts' /\ Quiet'
  <1>0. t \in Threads /\ Inv /\ Parts /\ Quiet
    BY KindsOfThreads DEF SlotInv
  <1>1. UNCHANGED <<slotVars, waiting, fetched, arg>> /\ pc[t] = "ready"
    BY DEF ReadyTurn, At
  <1>2. PICK l \in {"top", "next"} : pc' = [pc EXCEPT ![t] = l] /\ (l = "next" => ready # <<>>)
    BY DEF ReadyTurn, Continue
  <1>3. Moves(t, l)
    BY <1>0, <1>2, MovesExcept DEF Labels
  <1>4. BeingAdded' = BeingAdded /\ Deleting' = Deleting
    BY <1>0, <1>1, <1>3, SameCalls
  <1>5. l = "next" => ~waiting
    BY <1>0, <1>2 DEF Quiet
  <1>. QED BY <1>0, <1>1, <1>3, <1>4, <1>5, PartsKept, QuietKept DEF slotVars

\* Quiet after a step of a thread at work: nobody waits.
LEMMA QuietAtWork ==
  ASSUME SlotInv, NEW t \in Threads, pc[t] \in {"next", "callback"}, vm \in {t, NoThread},
         NEW l \in {"out", "top", "next", "callback"}, Moves(t, l), waiting' = waiting, fetched' = fetched
  PROVE  Quiet'
  <1>1. ~waiting /\ fetched.slots = {}
    BY DEF SlotInv, Quiet
  <1>2. \A u \in Threads : pc'[u] # "gate"
    <2>1. \A u \in Threads : u # t => pc[u] # "gate"
      BY KindsOfThreads DEF SlotInv, Inv, Located, LockLabels
    <2>. QED BY <2>1 DEF Moves, Stays
  <1>. QED BY <1>1, <1>2 DEF Quiet

LEMMA ListDoneMoves ==
  ASSUME Inv, NEW t \in Threads, ListDone(t) \/ Leave(t, waiting) \/ Continue(t, "next")
  PROVE  \E l \in {"out", "top", "next", "callback"} : Moves(t, l) /\ l \notin {"add", "del"}
  BY MovesExcept DEF ListDone, Leave, Block, Continue, Labels

LEMMA HandleDeletedSlots ==
  ASSUME SlotInv, NEW t \in Loopers, HandleDeleted(t)
  PROVE  Parts' /\ Quiet'
  <1>0. t \in Threads /\ Inv /\ Parts /\ Quiet
    BY KindsOfThreads DEF SlotInv
  <1>. DEFINE s == Head(ready)
  <1>1. /\ pc[t] = "next" /\ vm = t /\ s \in deleted
        /\ ready' = Tail(ready) /\ active' = active \ {s} /\ free' = <<s>> \o free
        /\ UNCHANGED <<waiting, fetched, nslots, alive, deleted, oneshot, held, arg>>
    BY DEF HandleDeleted, At, Freed
  <1>2. PICK l \in {"out", "top", "next", "callback"} : Moves(t, l) /\ l \notin {"add", "del"}
    BY <1>0, ListDoneMoves DEF HandleDeleted
  <1>3. BeingAdded' = BeingAdded /\ Deleting' = Deleting
    BY <1>0, <1>1, <1>2, SameCalls
  <1>4. Quiet'
    BY <1>0, <1>1, <1>2, QuietAtWork
  <1>5. ready # <<>> /\ ready \in Seq(Slots) /\ free \in Seq(Slots)
    BY <1>0, <1>1 DEF Inv, Located, TypeOK
  <1>6. /\ IsRepeatFree(ready') /\ ToSet(ready') = active \ {s} /\ s \in active
    BY <1>0, <1>1, <1>5, Popped DEF Parts
  <1>7. s \in Slots /\ s \notin ToSet(free)
    BY <1>0, <1>5, <1>6 DEF Parts
  <1>8. IsRepeatFree(free') /\ ToSet(free') = ToSet(free) \cup {s}
    BY <1>0, <1>1, <1>5, <1>7, Pushed DEF Parts
  <1>. HIDE DEF s
  <1>9. Parts'
    BY <1>0, <1>1, <1>3, <1>6, <1>8 DEF Parts
  <1>. QED BY <1>4, <1>9

LEMMA HandleReadySlots ==
  ASSUME SlotInv, NEW t \in Loopers, HandleReady(t)
  PROVE  Parts' /\ Quiet'
  <1>0. t \in Threads /\ Inv /\ Parts /\ Quiet
    BY KindsOfThreads DEF SlotInv
  <1>. DEFINE s == Head(ready)
  <1>1. /\ pc[t] = "next" /\ vm = t /\ s \notin deleted
        /\ ready' = Tail(ready) /\ active' = active \ {s}
        /\ alive' = IF s \in oneshot THEN alive \ {s} ELSE alive
        /\ IF s \in alive' THEN UNCHANGED <<free, held>>
           ELSE free' = <<s>> \o free /\ held' = held \ {s}
        /\ pc' = [pc EXCEPT ![t] = "callback"] /\ arg' = [arg EXCEPT ![t] = s]
        /\ UNCHANGED <<waiting, fetched, nslots, deleted, oneshot>>
    BY DEF HandleReady, At, Freed, Block, evq_del, loopVars
  <1>2. Moves(t, "callback")
    BY <1>0, <1>1, MovesExcept DEF Labels
  <1>3. BeingAdded' = BeingAdded /\ Deleting' = Deleting
    <2>1. \A u \in Threads : u # t => arg'[u] = arg[u]
      BY <1>0, <1>1 DEF Inv, TypeOK
    <2>. QED BY <1>0, <1>1, <1>2, <2>1, SameCalls
  <1>4. Quiet'
    BY <1>0, <1>1, <1>2, QuietAtWork
  <1>5. ready # <<>> /\ ready \in Seq(Slots) /\ free \in Seq(Slots)
    BY <1>0, <1>1 DEF Inv, Located, TypeOK
  <1>6. /\ IsRepeatFree(ready') /\ ToSet(ready') = active \ {s} /\ s \in active
    BY <1>0, <1>1, <1>5, Popped DEF Parts
  <1>7. s \in Slots /\ s \notin ToSet(free)
    BY <1>0, <1>5, <1>6 DEF Parts
  <1>8. IsRepeatFree(<<s>> \o free) /\ ToSet(<<s>> \o free) = ToSet(free) \cup {s}
    BY <1>0, <1>5, <1>7, Pushed DEF Parts
  <1>. HIDE DEF s
  <1>9. CASE s \in alive'
    <2>1. alive' = alive /\ free' = free /\ held' = held
      BY <1>1, <1>9
    <2>. QED BY <1>0, <1>1, <1>3, <1>4, <1>6, <1>9, <2>1 DEF Parts
  <1>10. CASE s \notin alive'
    <2>1. /\ alive' = alive \ {s} /\ held' = held \ {s}
          /\ IsRepeatFree(free') /\ ToSet(free') = ToSet(free) \cup {s}
      BY <1>1, <1>8, <1>10
    <2>2. s \notin Deleting
      BY <1>0, <1>1, <1>10 DEF Parts
    <2>3. Parts'
      BY <1>0, <1>1, <1>3, <1>6, <2>1, <2>2 DEF Parts
    <2>. QED BY <1>4, <2>3
  <1>. QED BY <1>9, <1>10

LEMMA CallbackSlots ==
  ASSUME SlotInv, NEW t \in Loopers, CallbackReturns(t) \/ CallbackFails(t)
  PROVE  Parts' /\ Quiet'
  <1>0. t \in Threads /\ Inv /\ Parts /\ Quiet
    BY KindsOfThreads DEF SlotInv
  <1>1. /\ pc[t] = "callback" /\ vm = NoThread /\ arg' = [arg EXCEPT ![t] = 0]
        /\ UNCHANGED <<waiting, fetched, slotVars>>
    BY DEF CallbackReturns, CallbackFails, At
  <1>2. PICK l \in {"out", "top", "next", "callback"} : Moves(t, l) /\ l \notin {"add", "del"}
    BY <1>0, ListDoneMoves DEF CallbackReturns, CallbackFails
  <1>3. BeingAdded' = BeingAdded /\ Deleting' = Deleting
    <2>1. \A u \in Threads : u # t => arg'[u] = arg[u]
      BY <1>0, <1>1 DEF Inv, TypeOK
    <2>. QED BY <1>0, <1>1, <1>2, <2>1, SameCalls
  <1>. QED BY <1>0, <1>1, <1>2, <1>3, QuietAtWork, PartsKept

-----------------------------------------------------------------------------
(* The calls.                                                              *)

\* One thread makes calls from outside the loop, and deletes no one-shot event.
OneController == (\A c, d \in Controllers : c = d) /\ ~DelOneshot

\* A call that need not wait finds nobody waiting: else the active thread would be the
\* only controller, in a call already.
LEMMA NobodyWaits ==
  ASSUME SlotInv, OneController, NEW t \in Threads, MayCall(t), ~MustWait
  PROVE  ~waiting
  <1>. SUFFICES ASSUME waiting PROVE FALSE
    OBVIOUS
  <1>1. nactives > 0
    BY DEF MustWait, SlotInv, Inv, TypeOK
  <1>2. In(ActiveLabels, pc) # {}
    BY <1>1, FS_EmptySet DEF SlotInv, Inv, Counted
  <1>3. PICK u \in Threads : pc[u] \in ActiveLabels
    BY <1>2 DEF In
  <1>4. pc[u] \in {"add", "del"}
    BY <1>3 DEF SlotInv, Quiet, ActiveLabels
  <1>5. u \in Controllers
    BY <1>4, KindsOfThreads DEF SlotInv, Inv, Located, Threads
  <1>6. t \in Loopers
    BY <1>4, <1>5 DEF MayCall, At, OneController
  <1>7. t \notin Controllers /\ pc[t] = "callback"
    BY <1>6, KindsOfThreads DEF MayCall, At
  <1>. QED BY <1>7 DEF SlotInv, Quiet

\* When a call waits, or ends after it waited, no other call does.
LEMMA NoOtherCall ==
  ASSUME Inv, OneController, NEW t \in Controllers
  PROVE  /\ \A u \in Threads : u # t => pc[u] \notin {"add", "del"}
         /\ pc[t] \notin {"add", "del"} => BeingAdded = {} /\ Deleting = {}
         /\ pc[t] = "add" => BeingAdded = {arg[t]} /\ Deleting = {}
         /\ pc[t] = "del" => BeingAdded = {} /\ Deleting = {arg[t]}
  <1>1. \A u \in Threads : u # t => pc[u] \notin {"add", "del"}
    BY KindsOfThreads DEF OneController, Inv, Located, Threads
  <1>2. t \in Threads
    BY KindsOfThreads
  <1>. QED BY <1>1, <1>2 DEF BeingAdded, Deleting

\* The slots that levq_new_event may take.
LEMMA SupplyFree ==
  ASSUME SlotInv, nslots + Fresh <= MaxSlots
  PROVE  /\ Supply \in Seq(Slots) /\ Supply # <<>> /\ IsRepeatFree(Supply)
         /\ ToSet(Supply) = ToSet(free) \cup ((nslots + 1)..(nslots + Fresh))
         /\ 1..(nslots + Fresh) = (1..nslots) \cup ((nslots + 1)..(nslots + Fresh))
         /\ (1..nslots) \cap ((nslots + 1)..(nslots + Fresh)) = {}
  <1>1. /\ Fresh \in 0..2 /\ Len(free) + Fresh >= 2 /\ nslots \in Nat
        /\ Supply \in Seq(Slots) /\ Len(Supply) = Len(free) + Fresh
        /\ \A i \in 1..Len(Supply) :
             Supply[i] = IF i <= Len(free) THEN free[i] ELSE nslots + i - Len(free)
    BY SupplyOK, TypesKept DEF SlotInv, SlotTypes
  <1>2. free \in Seq(Slots) /\ ToSet(free) \subseteq 1..nslots /\ IsRepeatFree(free)
    BY TypesKept DEF SlotInv, SlotTypes, Parts
  <1>3. Len(free) \in Nat /\ DOMAIN free = 1..Len(free) /\ DOMAIN Supply = 1..Len(Supply)
    BY <1>1, <1>2
  <1>4. \A i \in 1..Len(free) : Supply[i] = free[i] /\ free[i] \in 1..nslots
    BY <1>1, <1>2, <1>3 DEF ToSet
  <1>5. \A i \in 1..Len(Supply) : i > Len(free) =>
          Supply[i] = nslots + i - Len(free) /\ Supply[i] \in (nslots + 1)..(nslots + Fresh)
    BY <1>1, <1>3
  <1>6. IsRepeatFree(Supply)
    <2>. SUFFICES ASSUME NEW i \in 1..Len(Supply), NEW j \in 1..Len(Supply), Supply[i] = Supply[j]
                  PROVE  i = j
      BY <1>3 DEF IsRepeatFree
    <2>1. CASE i <= Len(free) /\ j <= Len(free)
      <3>1. i \in DOMAIN free /\ j \in DOMAIN free /\ free[i] = free[j]
        BY <1>3, <1>4, <2>1
      <3>. QED BY <1>2, <3>1 DEF IsRepeatFree
    <2>2. CASE i > Len(free) /\ j > Len(free)
      BY <1>1, <1>3, <1>5, <2>2
    <2>3. CASE i <= Len(free) /\ j > Len(free)
      BY <1>1, <1>3, <1>4, <1>5, <2>3
    <2>4. CASE i > Len(free) /\ j <= Len(free)
      BY <1>1, <1>3, <1>4, <1>5, <2>4
    <2>5. i \in Nat /\ j \in Nat /\ Len(free) \in Nat
      BY <1>1, <1>3
    <2>. QED BY <2>1, <2>2, <2>3, <2>4, <2>5
  <1>7. ToSet(Supply) \subseteq ToSet(free) \cup ((nslots + 1)..(nslots + Fresh))
    BY <1>1, <1>3, <1>4, <1>5 DEF ToSet
  <1>8. ToSet(free) \subseteq ToSet(Supply)
    <2>1. \A i \in DOMAIN free : i \in DOMAIN Supply /\ Supply[i] = free[i]
      BY <1>1, <1>3, <1>4
    <2>. QED BY <2>1 DEF ToSet
  <1>9. ASSUME NEW x \in (nslots + 1)..(nslots + Fresh) PROVE x \in ToSet(Supply)
    <2>. DEFINE i == x - nslots + Len(free)
    <2>1. i \in DOMAIN Supply /\ i > Len(free) /\ nslots + i - Len(free) = x
      BY <1>1, <1>3
    <2>2. Supply[i] = x
      BY <1>3, <1>5, <2>1
    <2>. QED BY <2>1, <2>2 DEF ToSet
  <1>10. Supply # <<>>
    BY <1>1
  <1>. QED BY <1>1, <1>6, <1>7, <1>8, <1>9, <1>10

LEMMA levq_addSlots ==
  ASSUME SlotInv, OneController, NEW t \in Threads, levq_add(t)
  PROVE  Parts' /\ Quiet'
  <1>0. Inv /\ Parts /\ Quiet
    BY DEF SlotInv
  <1>. DEFINE s == Head(Supply)
              new == (nslots + 1)..(nslots + Fresh)
  <1>1. /\ MayCall(t) /\ nslots + Fresh <= MaxSlots /\ nslots' = nslots + Fresh
        /\ active' = active \ {s} /\ deleted' = deleted \ {s}
        /\ oneshot' \in {oneshot \cup {s}, oneshot \ {s}} /\ ready' = ready
    BY DEF levq_add, NewEvent
  <1>2. /\ Supply \in Seq(Slots) /\ Supply # <<>> /\ IsRepeatFree(Supply)
        /\ ToSet(Supply) = ToSet(free) \cup new
        /\ 1..nslots' = (1..nslots) \cup new /\ (1..nslots) \cap new = {}
    BY <1>1, SupplyFree
  <1>3. /\ IsRepeatFree(Tail(Supply)) /\ ToSet(Tail(Supply)) = ToSet(Supply) \ {s}
        /\ s \in ToSet(Supply) /\ Tail(Supply) \in Seq(Slots) /\ s \in Slots
        /\ <<s>> \o Tail(Supply) = Supply
    BY <1>2, Popped
  <1>. HIDE DEF s, new
  <1>4. s \notin active \cup alive \cup BeingAdded \cup held \cup Deleting
    BY <1>0, <1>2, <1>3 DEF Parts
  <1>5. CASE /\ MustWait /\ ControlStop(t, "add", s) /\ free' = Tail(Supply)
             /\ UNCHANGED <<alive, held>>
    <2>1. /\ pc' = [pc EXCEPT ![t] = "add"] /\ arg' = [arg EXCEPT ![t] = s]
          /\ waiting /\ UNCHANGED <<waiting, fetched>> /\ nactives = 0
      BY <1>5 DEF ControlStop, Block, MustWait
    <2>2. t \in Controllers /\ pc[t] = "out"
      BY <1>0, <1>1, <2>1, ActiveCounted DEF MayCall, At, ActiveLabels
    <2>3. BeingAdded = {} /\ Deleting = {} /\ \A u \in Threads : u # t => pc[u] \notin {"add", "del"}
      BY <1>0, <2>2, NoOtherCall
    <2>4. /\ pc'[t] = "add" /\ arg'[t] = s
          /\ \A u \in Threads : u # t => pc'[u] = pc[u] /\ arg'[u] = arg[u]
      BY <1>0, <2>1 DEF Inv, TypeOK
    <2>5. BeingAdded' = {s} /\ Deleting' = {}
      BY <2>3, <2>4 DEF BeingAdded, Deleting
    <2>6. Parts'
      BY <1>0, <1>1, <1>2, <1>3, <1>4, <1>5, <2>3, <2>5 DEF Parts
    <2>7. Moves(t, "add")
      BY <1>0, <2>1, MovesExcept DEF Labels
    <2>. QED BY <1>0, <1>1, <1>5, <2>1, <2>6, <2>7, QuietKept
  <1>6. CASE /\ ~MustWait /\ Register(s, Tail(Supply)) /\ ControlGo(nactives)
             /\ UNCHANGED threadVars
    <2>1. UNCHANGED <<pc, arg, waiting, fetched>>
      BY <1>6 DEF ControlGo, threadVars
    <2>2. ~waiting /\ fetched.slots = {}
      BY <1>0, <1>1, <1>6, NobodyWaits DEF Quiet
    <2>3. BeingAdded' = BeingAdded /\ Deleting' = Deleting
      BY <2>1 DEF BeingAdded, Deleting
    <2>4. Quiet'
      BY <1>0, <1>1, <2>1, <2>2 DEF Quiet
    <2>5. CASE alive' = alive \cup {s} /\ held' = held \cup {s} /\ free' = Tail(Supply)
      <3>1. Parts'
        BY <1>0, <1>1, <1>2, <1>3, <1>4, <2>3, <2>5 DEF Parts
      <3>. QED BY <2>4, <3>1
    <2>6. CASE free' = Supply /\ UNCHANGED <<alive, held>>
      <3>1. Parts'
        BY <1>0, <1>1, <1>2, <1>3, <1>4, <2>3, <2>6 DEF Parts
      <3>. QED BY <2>4, <3>1
    <2>. QED BY <1>3, <1>6, <2>5, <2>6 DEF Register, evq_add
  <1>. QED BY <1>5, <1>6 DEF levq_add, s

LEMMA AddGoSlots ==
  ASSUME SlotInv, OneController, NEW t \in Controllers, AddGo(t)
  PROVE  Parts' /\ Quiet'
  <1>0. t \in Threads /\ Inv /\ Parts /\ Quiet
    BY KindsOfThreads DEF SlotInv
  <1>. DEFINE s == arg[t]
  <1>1. /\ pc[t] = "add" /\ ~waiting /\ Register(s, free)
        /\ pc' = [pc EXCEPT ![t] = "out"] /\ arg' = [arg EXCEPT ![t] = 0]
        /\ UNCHANGED <<nslots, ready, active, deleted, oneshot, waiting, fetched>>
    BY DEF AddGo, At, Block, ControlGo
  <1>2. BeingAdded = {s} /\ Deleting = {} /\ \A u \in Threads : u # t => pc[u] \notin {"add", "del"}
    BY <1>0, <1>1, NoOtherCall
  <1>3. pc'[t] = "out" /\ \A u \in Threads : u # t => pc'[u] = pc[u]
    BY <1>0, <1>1 DEF Inv, TypeOK
  <1>4. BeingAdded' = {} /\ Deleting' = {}
    BY <1>2, <1>3 DEF BeingAdded, Deleting
  <1>5. s \in Slots /\ free \in Seq(Slots)
    BY <1>0, <1>1 DEF Inv, Located, TypeOK
  <1>6. s \notin ToSet(free) \cup active \cup alive \cup deleted \cup held
    BY <1>0, <1>2 DEF Parts
  <1>7. IsRepeatFree(<<s>> \o free) /\ ToSet(<<s>> \o free) = ToSet(free) \cup {s}
    BY <1>0, <1>5, <1>6, Pushed DEF Parts
  <1>8. fetched.slots = {}
    BY <1>0, <1>1 DEF Quiet
  <1>. HIDE DEF s
  <1>9. Quiet'
    BY <1>0, <1>1, <1>3, <1>8 DEF Quiet
  <1>10. CASE alive' = alive \cup {s} /\ held' = held \cup {s} /\ free' = free
    <2>1. Parts'
      BY <1>0, <1>1, <1>2, <1>4, <1>6, <1>10 DEF Parts
    <2>. QED BY <1>9, <2>1
  <1>11. CASE free' = <<s>> \o free /\ UNCHANGED <<alive, held>>
    <2>1. Parts'
      BY <1>0, <1>1, <1>2, <1>4, <1>6, <1>7, <1>11 DEF Parts
    <2>. QED BY <1>9, <2>1
  <1>. QED BY <1>1, <1>10, <1>11 DEF Register, evq_add

\* Deletion of an event that the program may name.
LEMMA DeleteParts ==
  ASSUME Inv, Parts, NEW s \in alive \ deleted, Delete(s), held' = held \ {s},
         BeingAdded' = BeingAdded, Deleting' = Deleting \ {s}
  PROVE  Parts'
  <1>1. /\ alive' = alive \ {s} /\ deleted' = deleted \cup {s}
        /\ free' = IF s \in active \cup deleted THEN free ELSE <<s>> \o free
        /\ UNCHANGED <<nslots, ready, active, oneshot>>
    BY DEF Delete, evq_del, Freed
  <1>2. s \in Slots /\ free \in Seq(Slots) /\ s \notin ToSet(free)
    BY DEF Inv, TypeOK, Parts
  <1>3. IsRepeatFree(<<s>> \o free) /\ ToSet(<<s>> \o free) = ToSet(free) \cup {s}
    BY <1>2, Pushed DEF Parts
  <1>4. CASE s \in active
    <2>1. free' = free
      BY <1>1, <1>4
    <2>. QED BY <1>1, <1>4, <2>1 DEF Parts
  <1>5. CASE s \notin active
    <2>1. IsRepeatFree(free') /\ ToSet(free') = ToSet(free) \cup {s}
      BY <1>1, <1>3, <1>5
    <2>. QED BY <1>1, <1>5, <2>1 DEF Parts
  <1>. QED BY <1>4, <1>5

LEMMA levq_delSlots ==
  ASSUME SlotInv, OneController, NEW t \in Threads, levq_del(t)
  PROVE  Parts' /\ Quiet'
  <1>0. Inv /\ Parts /\ Quiet /\ MayCall(t)
    BY DEF SlotInv, levq_del
  <1>1. PICK s \in held :
          /\ s \in oneshot => DelOneshot
          /\ held' = held \ {s}
          /\ \/ /\ MustWait /\ ControlStop(t, "del", s)
                /\ UNCHANGED <<nslots, free, ready, alive, active, deleted, oneshot>>
             \/ ~MustWait /\ ControlGo(nactives) /\ Delete(s) /\ UNCHANGED threadVars
    BY DEF levq_del
  <1>2. s \in alive \ (oneshot \cup deleted) /\ s \in Slots
    BY <1>0, <1>1 DEF Parts, OneController, Inv, TypeOK
  <1>3. CASE /\ MustWait /\ ControlStop(t, "del", s)
             /\ UNCHANGED <<nslots, free, ready, alive, active, deleted, oneshot>>
    <2>1. /\ pc' = [pc EXCEPT ![t] = "del"] /\ arg' = [arg EXCEPT ![t] = s]
          /\ waiting /\ UNCHANGED <<waiting, fetched>> /\ nactives = 0
      BY <1>3 DEF ControlStop, Block, MustWait
    <2>2. t \in Controllers /\ pc[t] = "out"
      BY <1>0, <2>1, ActiveCounted DEF MayCall, At, ActiveLabels
    <2>3. BeingAdded = {} /\ Deleting = {} /\ \A u \in Threads : u # t => pc[u] \notin {"add", "del"}
      BY <1>0, <2>2, NoOtherCall
    <2>4. /\ pc'[t] = "del" /\ arg'[t] = s
          /\ \A u \in Threads : u # t => pc'[u] = pc[u] /\ arg'[u] = arg[u]
      BY <1>0, <2>1 DEF Inv, TypeOK
    <2>5. BeingAdded' = {} /\ Deleting' = {s}
      BY <2>3, <2>4 DEF BeingAdded, Deleting
    <2>6. Parts'
      BY <1>0, <1>1, <1>2, <1>3, <2>3, <2>5 DEF Parts
    <2>7. Moves(t, "del")
      BY <1>0, <2>1, MovesExcept DEF Labels
    <2>. QED BY <1>0, <1>3, <2>1, <2>6, <2>7, QuietKept
  <1>4. CASE ~MustWait /\ ControlGo(nactives) /\ Delete(s) /\ UNCHANGED threadVars
    <2>1. UNCHANGED <<pc, arg, waiting, fetched, ready>>
      BY <1>4 DEF ControlGo, threadVars, Delete
    <2>2. ~waiting /\ fetched.slots = {}
      BY <1>0, <1>4, NobodyWaits DEF Quiet
    <2>3. BeingAdded' = BeingAdded /\ Deleting' = Deleting
      BY <2>1 DEF BeingAdded, Deleting
    <2>4. s \notin Deleting
      BY <1>0, <1>1 DEF Parts
    <2>5. Parts'
      BY <1>0, <1>1, <1>2, <1>4, <2>3, <2>4, DeleteParts
    <2>6. Quiet'
      BY <1>0, <2>1, <2>2 DEF Quiet
    <2>. QED BY <2>5, <2>6
  <1>. QED BY <1>1, <1>3, <1>4

LEMMA DelGoSlots ==
  ASSUME SlotInv, OneController, NEW t \in Controllers, DelGo(t)
  PROVE  Parts' /\ Quiet'
  <1>0. t \in Threads /\ Inv /\ Parts /\ Quiet
    BY KindsOfThreads DEF SlotInv
  <1>1. /\ pc[t] = "del" /\ ~waiting /\ Delete(arg[t])
        /\ pc' = [pc EXCEPT ![t] = "out"] /\ UNCHANGED <<ready, held, waiting, fetched>>
    BY DEF DelGo, At, Block, ControlGo, Delete
  <1>2. /\ BeingAdded = {} /\ Deleting = {arg[t]}
        /\ \A u \in Threads : u # t => pc[u] \notin {"add", "del"}
    BY <1>0, <1>1, NoOtherCall
  <1>3. pc'[t] = "out" /\ \A u \in Threads : u # t => pc'[u] = pc[u]
    BY <1>0, <1>1 DEF Inv, TypeOK
  <1>4. BeingAdded' = {} /\ Deleting' = {}
    BY <1>2, <1>3 DEF BeingAdded, Deleting
  <1>5. arg[t] \in alive \ deleted /\ arg[t] \notin held
    BY <1>0, <1>2 DEF Parts
  <1>6. held' = held \ {arg[t]} /\ Deleting' = Deleting \ {arg[t]}
    BY <1>1, <1>2, <1>4, <1>5
  <1>7. Parts'
    BY <1>0, <1>1, <1>2, <1>4, <1>5, <1>6, DeleteParts
  <1>8. Quiet'
    BY <1>0, <1>1, <1>3 DEF Quiet
  <1>. QED BY <1>7, <1>8

LEMMA FlagsSlots ==
  ASSUME SlotInv, NEW t \in Threads, levq_stop(t) \/ levq_sync(t)
  PROVE  Parts' /\ Quiet'
  <1>0. Inv /\ Parts /\ Quiet
    BY DEF SlotInv
  <1>1. UNCHANGED <<slotVars, waiting, fetched, arg>> /\ pc[t] \in {"out", "callback"}
    BY DEF levq_stop, levq_sync, MayCall, At, threadVars
  <1>2. \A u \in Threads : pc'[u] = pc[u] \/ (pc'[u] = "sync" /\ pc[u] = "out")
    BY <1>0 DEF levq_stop, levq_sync, threadVars, Block, At, Inv, TypeOK
  <1>3. BeingAdded' = BeingAdded /\ Deleting' = Deleting
    <2>1. \A u \in Threads : (pc'[u] = "add" <=> pc[u] = "add") /\ (pc'[u] = "del" <=> pc[u] = "del")
      BY <1>2
    <2>. QED BY <1>1, <2>1 DEF BeingAdded, Deleting
  <1>. QED BY <1>0, <1>1, <1>2, <1>3, PartsKept DEF Quiet, slotVars

-----------------------------------------------------------------------------
LEMMA InitSlots == Init => Parts /\ Quiet
  <1>. SUFFICES ASSUME Init PROVE Parts /\ Quiet
    OBVIOUS
  <1>1. \A t \in Threads : pc[t] = "out"
    BY DEF Init
  <1>2. BeingAdded = {} /\ Deleting = {}
    BY <1>1 DEF BeingAdded, Deleting
  <1>3. ToSet(free) = {} /\ ToSet(ready) = {} /\ IsRepeatFree(free) /\ IsRepeatFree(ready)
    BY DEF Init, ToSet, IsRepeatFree
  <1>4. 1..nslots = {}
    BY DEF Init
  <1>. QED BY <1>1, <1>2, <1>3, <1>4 DEF Init, Parts, Quiet, Nothing

LEMMA NextSlots == ASSUME OneController PROVE SlotInv /\ [Next]_vars => SlotInv'
  <1>. SUFFICES ASSUME SlotInv, [Next]_vars PROVE Parts' /\ Quiet'
    BY NextInv DEF SlotInv
  <1>1. ASSUME NEW t \in Loopers, levq_loop(t) \/ LoopStep(t) \/ Consume(t) \/ Wakes(t)
        PROVE  Parts' /\ Quiet'
    BY <1>1, IdleStepSlots, WakesSlots, GateSlots, PolledSlots, ExpiredSlots, ReadyTurnSlots,
       HandleDeletedSlots, HandleReadySlots, CallbackSlots DEF LoopStep
  <1>2. ASSUME NEW t \in Loopers \cup Controllers, Call(t)
        PROVE  Parts' /\ Quiet'
    BY <1>2, KindsOfThreads, levq_addSlots, levq_delSlots, FlagsSlots DEF Call
  <1>3. ASSUME NEW t \in Controllers, AddGo(t) \/ DelGo(t)
        PROVE  Parts' /\ Quiet'
    BY <1>3, AddGoSlots, DelGoSlots
  <1>4. ASSUME NEW t \in Callers, levq_sync(t)
        PROVE  Parts' /\ Quiet'
    BY <1>4, KindsOfThreads, FlagsSlots
  <1>5. CASE UNCHANGED vars
    <2>1. UNCHANGED <<slotVars, waiting, fetched, pc, arg>>
      BY <1>5 DEF vars, loopVars, threadVars
    <2>2. BeingAdded' = BeingAdded /\ Deleting' = Deleting
      BY <2>1 DEF BeingAdded, Deleting
    <2>. QED BY <2>1, <2>2, PartsKept DEF SlotInv, Quiet, slotVars
  <1>. QED BY <1>1, <1>2, <1>3, <1>4, <1>5 DEF Next

\* When one thread changes the queue from outside the loop and deletes no one-shot event,
\* every slot is in one place: none is lost or freed twice, and the events that epoll_wait
\* returned are still there when they are processed, for any number of loopers and slots
\* (sys_evq.c:60-110, levq_control_wait).
THEOREM SlotsCorrect == OneController => (Spec => []SlotsSound)
  <1>. SUFFICES ASSUME OneController PROVE Spec => []SlotsSound
    OBVIOUS
  <1>1. Init => SlotInv
    BY InitInv, InitSlots DEF SlotInv
  <1>2. SlotInv /\ [Next]_vars => SlotInv'
    BY NextSlots
  <1>3. SlotInv => SlotsSound
    BY DEF SlotInv, Parts, Quiet, SlotsSound
  <1>. QED BY <1>1, <1>2, <1>3, PTL DEF Spec
=============================================================================
