--------------------------- MODULE Scheduler_proofs ---------------------------
(***************************************************************************)
(* Proofs about Scheduler, for any number of workers, tasks and events.    *)
(*                                                                         *)
(* Three invariants: Typed says what the lists, the places of the workers  *)
(* and their tasks look like; Manned counts workers and says who will look *)
(* after the event queue; Tidy says where each task is and which event it  *)
(* waits for.  The first two hold without a condition; the third holds     *)
(* when no task is terminated while it runs or while its event is ready.   *)
(***************************************************************************)
EXTENDS Scheduler, TLAPS, FiniteSetTheorems, WellFoundedInduction

-----------------------------------------------------------------------------
(***************************************************************************)
(* Induction, by the least counterexample.                                 *)
(***************************************************************************)
LEMMA LeastNat ==
  ASSUME NEW T, T \subseteq Nat, T # {}
  PROVE  \E x \in T : \A y \in T : x <= y
  <1>. DEFINE R == OpToRel(<, Nat)
  <1>1. IsWellFoundedOn(R, Nat)
    BY NatLessThanWellFounded
  <1>. HIDE DEF R
  <1>2. PICK x \in T : \A y \in T : ~(<<y, x>> \in R)
    BY <1>1, WFMin
  <1>3. \A y \in T : ~(y < x)
    BY <1>2 DEF R, OpToRel
  <1>. QED BY <1>2, <1>3

\* What the first step keeps, and every further step, all of them keep.
LEMMA UpTo ==
  ASSUME NEW n \in Nat, NEW B, B \subseteq 0..n, 0 \in B, \A i \in 1..n : i - 1 \in B => i \in B
  PROVE  n \in B
  <1>. SUFFICES ASSUME n \notin B PROVE FALSE
    OBVIOUS
  <1>. DEFINE T == {i \in 0..n : i \notin B}
  <1>1. T \subseteq Nat /\ T # {}
    OBVIOUS
  <1>2. PICK k \in T : \A y \in T : k <= y
    BY <1>1, LeastNat
  <1>3. k \in 1..n /\ k - 1 \in 0..n /\ k - 1 \notin T
    BY <1>2
  <1>. QED BY <1>2, <1>3

\* levq_sync_process takes one pending call after the other.
LEMMA SyncSteps ==
  ASSUME NEW st, NEW fails, Len(st.sync) \in Nat
  PROVE  LET done == SyncUpTo(st, fails)
         IN  /\ done[0] = st
             /\ \A i \in 1..Len(st.sync) : done[i] = SyncOne(done[i - 1], st.sync[i], fails)
  <1>. DEFINE n == Len(st.sync)
              Def(g, k) == g = [i \in 0..k |-> IF i = 0 THEN st ELSE SyncOne(g[i - 1], st.sync[i], fails)]
              B == {k \in 0..n : \E g : Def(g, k)}
  <1>1. 0 \in B
    <2>1. Def([i \in 0..0 |-> st], 0)
      OBVIOUS
    <2>2. 0 \in 0..n
      OBVIOUS
    <2>. HIDE DEF Def, n
    <2>. QED BY <2>1, <2>2
  <1>2. ASSUME NEW k \in 1..n, k - 1 \in B PROVE k \in B
    <2>1. PICK g : Def(g, k - 1)
      BY <1>2
    <2>. DEFINE h == [i \in 0..k |-> IF i = k THEN SyncOne(g[k - 1], st.sync[k], fails) ELSE g[i]]
    <2>2. ASSUME NEW i \in 0..k
          PROVE  h[i] = IF i = 0 THEN st ELSE SyncOne(h[i - 1], st.sync[i], fails)
      <3>1. CASE i = k
        <4>1. k # 0 /\ k - 1 \in 0..k /\ k - 1 # k
          OBVIOUS
        <4>2. h[k - 1] = g[k - 1]
          BY <4>1
        <4>. QED BY <3>1, <4>1, <4>2
      <3>2. CASE i # k
        <4>1. i \in 0..(k - 1) /\ h[i] = g[i]
          BY <3>2
        <4>2. i # 0 => h[i - 1] = g[i - 1]
          BY <4>1
        <4>. QED BY <2>1, <4>1, <4>2
      <3>. QED BY <3>1, <3>2
    <2>3. Def(h, k)
      <3>1. h = [i \in 0..k |-> h[i]]
        OBVIOUS
      <3>. HIDE DEF h
      <3>. QED BY <2>2, <3>1, ZenonT(30)
    <2>4. k \in 0..n
      OBVIOUS
    <2>. HIDE DEF Def, h, n
    <2>. QED BY <2>3, <2>4
  <1>3. n \in B
    <2>. HIDE DEF B
    <2>1. B \subseteq 0..n /\ n \in Nat
      BY DEF B
    <2>. QED BY <1>1, <1>2, <2>1, UpTo
  <1>4. SyncUpTo(st, fails) = CHOOSE g : Def(g, n)
    BY DEF SyncUpTo
  <1>5. Def(SyncUpTo(st, fails), n)
    BY <1>3, <1>4
  <1>. QED BY <1>5

\* sys_evq_loop handles one ready event after the other.
LEMMA HandleSteps ==
  ASSUME NEW st, Len(st.ready) \in Nat
  PROVE  LET done == HandleUpTo(st)
         IN  /\ done[0] = st
             /\ \A i \in 1..Len(st.ready) : done[i] = HandleOne(done[i - 1], st.ready[i])
  <1>. DEFINE n == Len(st.ready)
              Def(g, k) == g = [i \in 0..k |-> IF i = 0 THEN st ELSE HandleOne(g[i - 1], st.ready[i])]
              B == {k \in 0..n : \E g : Def(g, k)}
  <1>1. 0 \in B
    <2>1. Def([i \in 0..0 |-> st], 0)
      OBVIOUS
    <2>2. 0 \in 0..n
      OBVIOUS
    <2>. HIDE DEF Def, n
    <2>. QED BY <2>1, <2>2
  <1>2. ASSUME NEW k \in 1..n, k - 1 \in B PROVE k \in B
    <2>1. PICK g : Def(g, k - 1)
      BY <1>2
    <2>. DEFINE h == [i \in 0..k |-> IF i = k THEN HandleOne(g[k - 1], st.ready[k]) ELSE g[i]]
    <2>2. ASSUME NEW i \in 0..k
          PROVE  h[i] = IF i = 0 THEN st ELSE HandleOne(h[i - 1], st.ready[i])
      <3>1. CASE i = k
        <4>1. k # 0 /\ k - 1 \in 0..k /\ k - 1 # k
          OBVIOUS
        <4>2. h[k - 1] = g[k - 1]
          BY <4>1
        <4>. QED BY <3>1, <4>1, <4>2
      <3>2. CASE i # k
        <4>1. i \in 0..(k - 1) /\ h[i] = g[i]
          BY <3>2
        <4>2. i # 0 => h[i - 1] = g[i - 1]
          BY <4>1
        <4>. QED BY <2>1, <4>1, <4>2
      <3>. QED BY <3>1, <3>2
    <2>3. Def(h, k)
      <3>1. h = [i \in 0..k |-> h[i]]
        OBVIOUS
      <3>. HIDE DEF h
      <3>. QED BY <2>2, <3>1, ZenonT(30)
    <2>4. k \in 0..n
      OBVIOUS
    <2>. HIDE DEF Def, h, n
    <2>. QED BY <2>3, <2>4
  <1>3. n \in B
    <2>. HIDE DEF B
    <2>1. B \subseteq 0..n /\ n \in Nat
      BY DEF B
    <2>. QED BY <1>1, <1>2, <2>1, UpTo
  <1>4. HandleUpTo(st) = CHOOSE g : Def(g, n)
    BY DEF HandleUpTo
  <1>5. Def(HandleUpTo(st), n)
    BY <1>3, <1>4
  <1>. QED BY <1>5

\* What each of them keeps holds behind the last: J[i] is where the lists may be
\* after i of them.
LEMMA SyncFold ==
  ASSUME NEW st, NEW fails, Len(st.sync) \in Nat, NEW J, st \in J[0],
         \A i \in 1..Len(st.sync) : \A x \in J[i - 1] : SyncOne(x, st.sync[i], fails) \in J[i]
  PROVE  SyncUpTo(st, fails)[Len(st.sync)] \in J[Len(st.sync)]
  <1>. DEFINE n == Len(st.sync)
              done == SyncUpTo(st, fails)
              B == {i \in 0..n : done[i] \in J[i]}
  <1>1. done[0] = st /\ \A i \in 1..n : done[i] = SyncOne(done[i - 1], st.sync[i], fails)
    BY SyncSteps
  <1>. HIDE DEF done
  <1>2. 0 \in B /\ n \in Nat
    BY <1>1
  <1>3. \A i \in 1..n : i - 1 \in B => i \in B
    BY <1>1
  <1>4. n \in B
    <2>. HIDE DEF n, B
    <2>1. B \subseteq 0..n
      BY DEF B
    <2>. QED BY <1>2, <1>3, <2>1, UpTo
  <1>. QED BY <1>4 DEF done

LEMMA HandleFold ==
  ASSUME NEW st, Len(st.ready) \in Nat, NEW J, st \in J[0],
         \A i \in 1..Len(st.ready) : \A x \in J[i - 1] : HandleOne(x, st.ready[i]) \in J[i]
  PROVE  HandleUpTo(st)[Len(st.ready)] \in J[Len(st.ready)]
  <1>. DEFINE n == Len(st.ready)
              done == HandleUpTo(st)
              B == {i \in 0..n : done[i] \in J[i]}
  <1>1. done[0] = st /\ \A i \in 1..n : done[i] = HandleOne(done[i - 1], st.ready[i])
    BY HandleSteps
  <1>. HIDE DEF done
  <1>2. 0 \in B /\ n \in Nat
    BY <1>1
  <1>3. \A i \in 1..n : i - 1 \in B => i \in B
    BY <1>1
  <1>4. n \in B
    <2>. HIDE DEF n, B
    <2>1. B \subseteq 0..n
      BY DEF B
    <2>. QED BY <1>2, <1>3, <2>1, UpTo
  <1>. QED BY <1>4 DEF done

-----------------------------------------------------------------------------
(***************************************************************************)
(* Types.                                                                  *)
(***************************************************************************)
Labels == {"out", "start", "top", "run", "blocked", "spawn", "cond", "woken",
           "expired", "evq", "failed", "lost", "lost_evq", "lost_task"}
AtTask == {"run", "blocked", "spawn", "lost_task"}

Tasks == [suspended : BOOLEAN, terminate : BOOLEAN, ev_op : Ids \cup {NoTask}, ev_added : BOOLEAN]
Events == [state : {"free", "op", "live", "ready"}, task : Ids \cup {NoTask}]
Lists ==
    [active : Seq(Ids), free : Seq(Ids), ntasks : Int, buf_idx : 0..MaxTasks,
     task : [Ids -> Tasks], ev : [Slots -> Events], sync : Seq(Slots), ready : Seq(Slots),
     signal : BOOLEAN]

LEMMA Finite ==
    /\ MaxTasks \in Nat /\ NoTask \notin Ids \cup Workers /\ IsFiniteSet(Workers) /\ IsFiniteSet(Ids)
    /\ \A i \in 0..MaxTasks : i \in Int
  <1>1. MaxTasks \in Nat /\ NoTask \notin Ids \cup Workers /\ IsFiniteSet(Workers)
    BY SchedAssumption
  <1>2. 0 \in Int /\ MaxTasks - 1 \in Int /\ \A i \in 0..MaxTasks : i \in Int
    BY <1>1
  <1>3. IsFiniteSet(0..(MaxTasks - 1))
    BY <1>2, FS_Interval
  <1>. QED BY <1>1, <1>2, <1>3 DEF Ids

\* The number of tasks is that of the ids taken from the buffer and not freed.
Numbered(st) == st.ntasks = st.buf_idx - Len(st.free)

Typed ==
    /\ s \in Lists /\ Numbered(s)
    /\ stop \in BOOLEAN /\ evq_waiting \in BOOLEAN
    /\ pc \in [Workers -> Labels]
    /\ cur \in [Workers -> Ids \cup {NoTask}]
    /\ \A w \in Workers : cur[w] # NoTask <=> pc[w] \in AtTask

\* A step of the event queue leaves these lists alone.
Apart(x, st) ==
    /\ x.free = st.free /\ x.ntasks = st.ntasks /\ x.buf_idx = st.buf_idx
    /\ x.sync = st.sync /\ x.ready = st.ready

LEMMA ActivateIs ==
  ASSUME NEW st \in Lists, NEW t \in Ids
  PROVE  LET x == Activate(st, t)
         IN  /\ x \in Lists /\ x.active = Append(st.active, t) /\ Apart(x, st)
             /\ x.task = st.task /\ x.ev = st.ev /\ x.signal = st.signal
  <1>. DEFINE x == Activate(st, t)
  <1>1. x \in Lists
    <2>0. st.active \in Seq(Ids)
      BY DEF Lists
    <2>. DEFINE a == Append(st.active, t)
    <2>1. a \in Seq(Ids)
      BY <2>0
    <2>2. x = [st EXCEPT !.active = a]
      BY DEF Activate
    <2>. HIDE DEF x, a
    <2>. QED BY <2>1, <2>2 DEF Lists
  <1>2. Apart(x, st) /\ x.task = st.task /\ x.ev = st.ev /\ x.signal = st.signal
    BY ZenonT(30) DEF Activate, Lists, Apart
  <1>3. x.active = Append(st.active, t)
    BY DEF Activate, Lists
  <1>. QED BY <1>1, <1>2, <1>3

\* Task t gets the record r.
LEMMA TaskIs ==
  ASSUME NEW st \in Lists, NEW t \in Ids, NEW r \in Tasks
  PROVE  LET x == [st EXCEPT !.task[t] = r]
         IN  /\ x \in Lists /\ Apart(x, st) /\ x.active = st.active /\ x.ev = st.ev
             /\ x.signal = st.signal /\ x.task = [st.task EXCEPT ![t] = r]
             /\ x.task[t] = r /\ \A u \in Ids \ {t} : x.task[u] = st.task[u]
  <1>. DEFINE x == [st EXCEPT !.task[t] = r]
  <1>1. x \in Lists
    BY DEF Lists
  <1>2. Apart(x, st) /\ x.active = st.active /\ x.ev = st.ev /\ x.signal = st.signal
    BY ZenonT(30) DEF Lists, Apart
  <1>3. x.task = [st.task EXCEPT ![t] = r] /\ st.task \in [Ids -> Tasks]
    BY DEF Lists
  <1>. QED BY <1>1, <1>2, <1>3

\* Slot e gets the record r.
LEMMA EventIs ==
  ASSUME NEW st \in Lists, NEW e \in Slots, NEW r \in Events
  PROVE  LET x == [st EXCEPT !.ev[e] = r]
         IN  /\ x \in Lists /\ Apart(x, st) /\ x.active = st.active /\ x.task = st.task
             /\ x.signal = st.signal /\ x.ev = [st.ev EXCEPT ![e] = r]
             /\ x.ev[e] = r /\ \A d \in Slots \ {e} : x.ev[d] = st.ev[d]
  <1>. DEFINE x == [st EXCEPT !.ev[e] = r]
  <1>1. x \in Lists
    BY DEF Lists
  <1>2. Apart(x, st) /\ x.active = st.active /\ x.task = st.task /\ x.signal = st.signal
    BY ZenonT(30) DEF Lists, Apart
  <1>3. x.ev = [st.ev EXCEPT ![e] = r] /\ st.ev \in [Slots -> Events]
    BY DEF Lists
  <1>. QED BY <1>1, <1>2, <1>3

LEMMA Fields ==
  ASSUME NEW st \in Lists, NEW t \in Ids, NEW e \in Slots
  PROVE  /\ st.active \in Seq(Ids) /\ st.free \in Seq(Ids) /\ st.ntasks \in Int
         /\ st.buf_idx \in 0..MaxTasks /\ st.sync \in Seq(Slots) /\ st.ready \in Seq(Slots)
         /\ st.task[t] \in Tasks /\ st.ev[e] \in Events
         /\ st.task[t].suspended \in BOOLEAN /\ st.task[t].terminate \in BOOLEAN
         /\ st.task[t].ev_op \in Ids \cup {NoTask} /\ st.ev[e].task \in Ids \cup {NoTask}
  BY DEF Lists, Tasks, Events

\* Task t is active again, and waits for nothing.
Freed(r) == [r EXCEPT !.ev_op = NoTask, !.ev_added = FALSE, !.suspended = FALSE]

LEMMA EventReadyIs ==
  ASSUME NEW st \in Lists, NEW t \in Ids, NEW e, st.task[t].ev_op = e
  PROVE  LET x == sys_sched_event_ready(st, t, e)
         IN  /\ x \in Lists /\ Apart(x, st) /\ x.active = Append(st.active, t) /\ x.ev = st.ev
             /\ x.task[t] = Freed(st.task[t]) /\ \A u \in Ids \ {t} : x.task[u] = st.task[u]
  <1>. DEFINE x == sys_sched_event_ready(st, t, e)
              y == Activate(st, t)
              r == Freed(st.task[t])
              b == st.signal \/ (st.active = <<>> /\ nwaiters > 0)
  <1>1. y \in Lists /\ y.active = Append(st.active, t) /\ Apart(y, st) /\ y.task = st.task
        /\ y.ev = st.ev /\ y.signal = st.signal
    BY ActivateIs
  <1>2. r \in Tasks
    BY DEF Freed, Lists, Tasks
  <1>3. [y.task[t] EXCEPT !.ev_op = NoTask, !.ev_added = FALSE, !.suspended = FALSE] = r
    BY <1>1 DEF Freed
  <1>4. x = [y EXCEPT !.task[t] = r, !.signal = b]
    <2>1. x = [y EXCEPT !.task[t].ev_op = NoTask, !.task[t].ev_added = FALSE,
                        !.task[t].suspended = FALSE, !.signal = @ \/ (st.active = <<>> /\ nwaiters > 0)]
      BY DEF sys_sched_event_ready
    <2>2. y.task \in [Ids -> Tasks]
      BY <1>1 DEF Lists
    <2>3. [y.task EXCEPT ![t].ev_op = NoTask, ![t].ev_added = FALSE, ![t].suspended = FALSE]
            = [y.task EXCEPT ![t] = r]
      BY <1>3, <2>2
    <2>. HIDE DEF x, y, r
    <2>. QED BY <1>1, <2>1, <2>3 DEF Lists
  <1>. HIDE DEF x, y, r, b
  <1>5. x \in Lists
    BY <1>1, <1>2, <1>4 DEF Lists, b
  <1>6. Apart(x, y) /\ x.active = y.active /\ x.ev = y.ev
    BY <1>1, <1>4, ZenonT(30) DEF Lists, Apart
  <1>7. x.task = [y.task EXCEPT ![t] = r]
    BY <1>1, <1>4 DEF Lists
  <1>8. x.task[t] = r /\ \A u \in Ids \ {t} : x.task[u] = st.task[u]
    BY <1>1, <1>7 DEF Lists
  <1>. QED BY <1>1, <1>5, <1>6, <1>8 DEF Apart, x, r

LEMMA EventTaskFree == NoEvent \in Events /\ NoEvent.task = NoTask /\ NoEvent.state = "free"
  BY DEF NoEvent, Events

\* What becomes of slot e and its task t when its call is made or its event is handled:
\* the event lives on, there is no task, or the task is active again.  (The last case,
\* a task that does not wait for e, does not occur when tasks and events match.)
Stirred(x, t, r) ==
    x.task[t].ev_op = r.ev_op /\ x.task[t].suspended = r.suspended /\ x.task[t].terminate = r.terminate

Outcome(st, x, e) ==
    LET t == st.ev[e].task IN
    /\ x \in Lists /\ Apart(x, st) /\ x.ev[e].state = IF x.ev[e].task = NoTask THEN "free" ELSE "live"
    /\ \A d \in Slots \ {e} : x.ev[d] = st.ev[d]
    /\ \A u \in Ids \ {t} : x.task[u] = st.task[u]
    /\ \/ t = NoTask /\ x.ev[e].task = NoTask /\ x.active = st.active
       \/ t # NoTask /\ x.ev[e].task = t /\ x.active = st.active
          /\ Stirred(x, t, [st.task[t] EXCEPT !.ev_op = e])
       \/ t # NoTask /\ x.ev[e].task = NoTask /\ x.active = Append(st.active, t)
          /\ Stirred(x, t, Freed(st.task[t]))
       \/ t # NoTask /\ (st.task[t].ev_op # e \/ ~st.task[t].suspended)

LEMMA FreedIs ==
  ASSUME NEW r \in Tasks
  PROVE  LET q == Freed(r)
         IN  q \in Tasks /\ q.ev_op = NoTask /\ q.suspended = FALSE /\ q.terminate = r.terminate
  <1>1. Freed(r) \in Tasks
    BY DEF Freed, Tasks
  <1>2. Freed(r).ev_op = NoTask /\ Freed(r).suspended = FALSE /\ Freed(r).terminate = r.terminate
    BY ZenonT(30) DEF Freed, Tasks
  <1>. QED BY <1>1, <1>2

LEMMA HandleOneIs ==
  ASSUME NEW st \in Lists, NEW e \in Slots
  PROVE  Outcome(st, HandleOne(st, e), e) /\ HandleOne(st, e).ev[e] = NoEvent
  <1>. DEFINE t == st.ev[e].task
              y == [st EXCEPT !.ev[e] = NoEvent]
              x == HandleOne(st, e)
  <1>0. t \in Ids \cup {NoTask} /\ st.task \in [Ids -> Tasks]
    BY DEF Lists, Events
  <1>1. /\ y \in Lists /\ Apart(y, st) /\ y.active = st.active /\ y.task = st.task
        /\ y.ev[e] = NoEvent /\ \A d \in Slots \ {e} : y.ev[d] = st.ev[d]
    BY EventIs, EventTaskFree
  <1>2. x = IF t = NoTask THEN y ELSE sys_sched_event_ready(y, t, e)
    BY DEF HandleOne
  <1>. HIDE DEF x, y, t
  <1>3. CASE t = NoTask
    BY <1>1, <1>2, <1>3, EventTaskFree DEF Outcome, x, t
  <1>4. CASE t # NoTask /\ y.task[t].ev_op # e
    <2>1. x = y
      BY <1>2, <1>4 DEF sys_sched_event_ready
    <2>. QED BY <1>1, <1>4, <2>1, EventTaskFree DEF Outcome, x, t
  <1>5. CASE t # NoTask /\ y.task[t].ev_op = e
    <2>1. t \in Ids /\ x = sys_sched_event_ready(y, t, e)
      BY <1>0, <1>2, <1>5
    <2>2. /\ x \in Lists /\ Apart(x, y) /\ x.active = Append(y.active, t) /\ x.ev = y.ev
          /\ x.task[t] = Freed(y.task[t]) /\ \A u \in Ids \ {t} : x.task[u] = y.task[u]
      <3>1. y \in Lists /\ t \in Ids /\ y.task[t].ev_op = e
        BY <1>1, <1>5, <2>1
      <3>2. x = sys_sched_event_ready(y, t, e)
        BY <2>1
      <3>3. LET z == sys_sched_event_ready(y, t, e)
            IN  /\ z \in Lists /\ Apart(z, y) /\ z.active = Append(y.active, t) /\ z.ev = y.ev
                /\ z.task[t] = Freed(y.task[t]) /\ \A u \in Ids \ {t} : z.task[u] = y.task[u]
        BY <3>1, EventReadyIs
      <3>. QED BY ONLY <3>2, <3>3, Zenon
    <2>3. x.task[t] = Freed(st.task[t]) /\ \A u \in Ids \ {t} : x.task[u] = st.task[u]
      BY <1>0, <1>1, <2>1, <2>2
    <2>4. Apart(x, st)
      BY <1>1, <2>2 DEF Apart
    <2>. QED BY <1>1, <1>5, <2>2, <2>3, <2>4, EventTaskFree DEF Outcome, Stirred, x, t
  <1>. QED BY <1>3, <1>4, <1>5

\* sys_sched_event_added when the event has been added, or could not be.
LEMMA EventAddedIs ==
  ASSUME NEW st \in Lists, NEW t \in Ids, NEW e \in Slots \cup {NoTask}
  PROVE  LET x == sys_sched_event_added(st, t, e)
             r == IF e = NoTask THEN Freed(st.task[t]) ELSE [st.task[t] EXCEPT !.ev_op = e]
         IN  /\ x \in Lists /\ Apart(x, st) /\ x.ev = st.ev
             /\ \A u \in Ids \ {t} : x.task[u] = st.task[u]
             /\ st.task[t].suspended =>
                  /\ x.active = IF e = NoTask THEN Append(st.active, t) ELSE st.active
                  /\ Stirred(x, t, r)
  <1>. DEFINE x == sys_sched_event_added(st, t, e)
              q == [st.task[t] EXCEPT !.ev_op = e, !.ev_added = TRUE]
              y == [st EXCEPT !.task[t] = q]
  <1>0. st.task \in [Ids -> Tasks] /\ st.task[t] \in Tasks
    BY DEF Lists
  <1>1. q \in Tasks
    BY <1>0 DEF Tasks, Slots
  <1>2. q.ev_op = e /\ q.suspended = st.task[t].suspended /\ q.terminate = st.task[t].terminate
    BY <1>0, ZenonT(30) DEF Tasks
  <1>3. x = IF e = NoTask /\ st.task[t].suspended THEN sys_sched_event_ready(y, t, NoTask) ELSE y
    BY <1>0 DEF sys_sched_event_added, Lists
  <1>. HIDE DEF q
  <1>4. /\ y \in Lists /\ Apart(y, st) /\ y.active = st.active /\ y.ev = st.ev
        /\ y.task[t] = q /\ \A u \in Ids \ {t} : y.task[u] = st.task[u]
    BY <1>1, TaskIs
  <1>. HIDE DEF x, y
  <1>5. CASE e = NoTask /\ st.task[t].suspended
    <2>1. /\ x \in Lists /\ Apart(x, y) /\ x.active = Append(y.active, t) /\ x.ev = y.ev
          /\ x.task[t] = Freed(y.task[t]) /\ \A u \in Ids \ {t} : x.task[u] = y.task[u]
      <3>1. y \in Lists /\ y.task[t].ev_op = NoTask
        BY <1>2, <1>4, <1>5
      <3>2. x = sys_sched_event_ready(y, t, NoTask)
        BY <1>3, <1>5
      <3>3. LET z == sys_sched_event_ready(y, t, NoTask)
            IN  /\ z \in Lists /\ Apart(z, y) /\ z.active = Append(y.active, t) /\ z.ev = y.ev
                /\ z.task[t] = Freed(y.task[t]) /\ \A u \in Ids \ {t} : z.task[u] = y.task[u]
        BY <3>1, EventReadyIs
      <3>. QED BY ONLY <3>2, <3>3, Zenon
    <2>2. y.task \in [Ids -> Tasks]
      BY <1>4 DEF Lists
    <2>3. x.task[t] = Freed(q) /\ \A u \in Ids \ {t} : x.task[u] = st.task[u]
      BY <1>4, <2>1, <2>2
    <2>4. Apart(x, st)
      BY <1>4, <2>1 DEF Apart
    <2>5. Stirred(x, t, Freed(st.task[t]))
      BY <1>0, <1>1, <1>2, <2>3, FreedIs DEF Stirred
    <2>. QED BY <1>4, <1>5, <2>1, <2>3, <2>4, <2>5 DEF x
  <1>6. CASE ~(e = NoTask /\ st.task[t].suspended)
    <2>1. x = y
      BY <1>3, <1>6
    <2>. DEFINE r == [st.task[t] EXCEPT !.ev_op = e]
    <2>2. r.ev_op = e /\ r.suspended = st.task[t].suspended /\ r.terminate = st.task[t].terminate
      BY <1>0, ZenonT(30) DEF Tasks
    <2>. HIDE DEF r
    <2>3. Stirred(x, t, r)
      BY <1>2, <1>4, <2>1, <2>2 DEF Stirred
    <2>4. st.task[t].suspended => e # NoTask
      BY <1>6
    <2>. QED BY <1>4, <2>1, <2>3, <2>4 DEF x, r
  <1>. QED BY <1>5, <1>6

LEMMA SyncOneIs ==
  ASSUME NEW st \in Lists, NEW e \in Slots, NEW fails
  PROVE  Outcome(st, SyncOne(st, e, fails), e)
  <1>. DEFINE t == st.ev[e].task
              p == [st.ev[e] EXCEPT !.state = "live"]
              y == [st EXCEPT !.ev[e] = NoEvent]
              z == [st EXCEPT !.ev[e] = p]
              x == SyncOne(st, e, fails)
  <1>0. t \in Ids \cup {NoTask} /\ st.ev \in [Slots -> Events] /\ st.ev[e] \in Events
    BY DEF Lists, Events
  <1>1. /\ y \in Lists /\ Apart(y, st) /\ y.active = st.active /\ y.task = st.task
        /\ y.ev[e] = NoEvent /\ \A d \in Slots \ {e} : y.ev[d] = st.ev[d]
    BY EventIs, EventTaskFree
  <1>2. p \in Events /\ p.task = t /\ p.state = "live"
    BY <1>0 DEF Events
  <1>3. /\ z \in Lists /\ Apart(z, st) /\ z.active = st.active /\ z.task = st.task
        /\ z.ev[e] = p /\ \A d \in Slots \ {e} : z.ev[d] = st.ev[d]
    BY <1>2, EventIs
  <1>4. x = IF t = NoTask THEN y ELSE IF e \in fails THEN sys_sched_event_added(y, t, NoTask)
            ELSE sys_sched_event_added(z, t, e)
    BY <1>0 DEF SyncOne, Lists
  <1>. HIDE DEF x, y, z, p, t
  <1>5. CASE t = NoTask
    BY <1>1, <1>4, <1>5, EventTaskFree DEF Outcome, x, t
  <1>6. CASE t # NoTask /\ e \in fails
    <2>1. t \in Ids /\ x = sys_sched_event_added(y, t, NoTask) /\ NoTask \in Slots \cup {NoTask}
      BY <1>0, <1>4, <1>6
    <2>2. /\ x \in Lists /\ Apart(x, y) /\ x.ev = y.ev /\ \A u \in Ids \ {t} : x.task[u] = y.task[u]
          /\ y.task[t].suspended =>
               x.active = Append(y.active, t) /\ Stirred(x, t, Freed(y.task[t]))
      BY ONLY <1>1, <2>1, EventAddedIs, ZenonT(30)
    <2>3. Apart(x, st)
      BY <1>1, <2>2 DEF Apart
    <2>. QED BY <1>1, <1>6, <2>2, <2>3, EventTaskFree DEF Outcome, x, t
  <1>7. CASE t # NoTask /\ e \notin fails
    <2>1. t \in Ids /\ x = sys_sched_event_added(z, t, e) /\ e # NoTask /\ e \in Slots \cup {NoTask}
      BY <1>0, <1>4, <1>7, SchedAssumption DEF Slots
    <2>2. /\ x \in Lists /\ Apart(x, z) /\ x.ev = z.ev /\ \A u \in Ids \ {t} : x.task[u] = z.task[u]
          /\ z.task[t].suspended =>
               x.active = z.active /\ Stirred(x, t, [z.task[t] EXCEPT !.ev_op = e])
      BY ONLY <1>3, <2>1, EventAddedIs, ZenonT(30)
    <2>3. Apart(x, st)
      BY <1>3, <2>2 DEF Apart
    <2>. QED BY <1>2, <1>3, <1>7, <2>2, <2>3 DEF Outcome, x, t
  <1>. QED BY <1>5, <1>6, <1>7

LEMMA SyncTypes ==
  ASSUME NEW st \in Lists, NEW fails
  PROVE  LET x == levq_sync_process(st, fails)
         IN  /\ x \in Lists /\ x.free = st.free /\ x.ntasks = st.ntasks /\ x.buf_idx = st.buf_idx
             /\ x.sync = <<>> /\ x.ready = st.ready
  <1>. DEFINE n == Len(st.sync)
              A == {x \in Lists : Apart(x, st)}
              J == [i \in 0..n |-> A]
              y == SyncUpTo(st, fails)[n]
              x == levq_sync_process(st, fails)
  <1>0. n \in Nat /\ \A i \in 1..n : st.sync[i] \in Slots /\ i - 1 \in 0..n /\ i \in 0..n
    BY DEF Lists
  <1>1. st \in J[0]
    BY <1>0 DEF Apart
  <1>2. ASSUME NEW i \in 1..n, NEW z \in J[i - 1] PROVE SyncOne(z, st.sync[i], fails) \in J[i]
    <2>1. Outcome(z, SyncOne(z, st.sync[i], fails), st.sync[i]) /\ Apart(z, st)
      BY <1>0, <1>2, SyncOneIs
    <2>. QED BY <1>0, <2>1 DEF Outcome, Apart
  <1>3. y \in J[n]
    <2>. HIDE DEF J
    <2>. QED BY <1>0, <1>1, <1>2, SyncFold
  <1>4. y \in Lists /\ Apart(y, st) /\ x = [y EXCEPT !.sync = <<>>] /\ <<>> \in Seq(Slots)
    BY <1>0, <1>3 DEF levq_sync_process
  <1>. HIDE DEF x, y, n
  <1>5. x \in Lists
    BY <1>4 DEF Lists
  <1>6. x.free = y.free /\ x.ntasks = y.ntasks /\ x.buf_idx = y.buf_idx /\ x.sync = <<>> /\ x.ready = y.ready
    BY <1>4, ZenonT(30) DEF Lists
  <1>. QED BY <1>4, <1>5, <1>6 DEF Apart, x

LEMMA HandleTypes ==
  ASSUME NEW st \in Lists
  PROVE  LET x == HandleReady(st)
         IN  /\ x \in Lists /\ x.free = st.free /\ x.ntasks = st.ntasks /\ x.buf_idx = st.buf_idx
             /\ x.sync = st.sync /\ x.ready = <<>>
  <1>. DEFINE n == Len(st.ready)
              A == {x \in Lists : Apart(x, st)}
              J == [i \in 0..n |-> A]
              y == HandleUpTo(st)[n]
              x == HandleReady(st)
  <1>0. n \in Nat /\ \A i \in 1..n : st.ready[i] \in Slots /\ i - 1 \in 0..n /\ i \in 0..n
    BY DEF Lists
  <1>1. st \in J[0]
    BY <1>0 DEF Apart
  <1>2. ASSUME NEW i \in 1..n, NEW z \in J[i - 1] PROVE HandleOne(z, st.ready[i]) \in J[i]
    <2>1. Outcome(z, HandleOne(z, st.ready[i]), st.ready[i]) /\ Apart(z, st)
      BY <1>0, <1>2, HandleOneIs
    <2>. QED BY <1>0, <2>1 DEF Outcome, Apart
  <1>3. y \in J[n]
    <2>. HIDE DEF J
    <2>. QED BY <1>0, <1>1, <1>2, HandleFold
  <1>4. y \in Lists /\ Apart(y, st) /\ x = [y EXCEPT !.ready = <<>>] /\ <<>> \in Seq(Slots)
    BY <1>0, <1>3 DEF HandleReady
  <1>. HIDE DEF x, y, n
  <1>5. x \in Lists
    BY <1>4 DEF Lists
  <1>6. x.free = y.free /\ x.ntasks = y.ntasks /\ x.buf_idx = y.buf_idx /\ x.sync = y.sync /\ x.ready = <<>>
    BY <1>4, ZenonT(30) DEF Lists
  <1>. QED BY <1>4, <1>5, <1>6 DEF Apart, x

\* evq_wait returns the events S.
LEMMA OccurIs ==
  ASSUME NEW st \in Lists, NEW S, NEW q \in Seq(Slots)
  PROVE  LET x == Occur(st, S, q)
         IN  /\ x \in Lists /\ x.free = st.free /\ x.ntasks = st.ntasks /\ x.buf_idx = st.buf_idx
             /\ x.sync = st.sync /\ x.ready = q \o st.ready /\ x.task = st.task /\ x.active = st.active
             /\ \A e \in Slots : /\ x.ev[e].task = st.ev[e].task
                                 /\ x.ev[e].state = IF e \in S THEN "ready" ELSE st.ev[e].state
  <1>. DEFINE v == [e \in Slots |-> IF e \in S THEN [st.ev[e] EXCEPT !.state = "ready"] ELSE st.ev[e]]
              r == q \o st.ready
              x == Occur(st, S, q)
  <1>0. st.ev \in [Slots -> Events] /\ st.ready \in Seq(Slots)
    BY DEF Lists
  <1>1. v \in [Slots -> Events] /\ r \in Seq(Slots)
    BY <1>0 DEF Events
  <1>2. \A e \in Slots : v[e].task = st.ev[e].task /\ v[e].state = IF e \in S THEN "ready" ELSE st.ev[e].state
    BY <1>0 DEF Events
  <1>3. x = [st EXCEPT !.ready = r, !.ev = v]
    BY DEF Occur
  <1>. HIDE DEF x, v, r
  <1>4. x \in Lists
    BY <1>1, <1>3 DEF Lists
  <1>5. /\ x.free = st.free /\ x.ntasks = st.ntasks /\ x.buf_idx = st.buf_idx /\ x.sync = st.sync
        /\ x.ready = r /\ x.task = st.task /\ x.active = st.active /\ x.ev = v
    BY <1>3, ZenonT(30) DEF Lists
  <1>. QED BY <1>2, <1>4, <1>5 DEF x, r

-----------------------------------------------------------------------------
(***************************************************************************)
(* The kinds of steps, by what they do to the workers.                     *)
(***************************************************************************)
\* A worker that waits on sched->cond, if there is any, is told.
Told == (\E u \in Workers : pc[u] = "cond") => \E u \in Workers : pc[u] = "cond" /\ pc'[u] = "woken"
Stays(u) == pc'[u] = pc[u] \/ (pc[u] = "cond" /\ pc'[u] = "woken")
OthersStay(w) == \A u \in Workers \ {w} : Stays(u)
Counters == <<nworkers, nwaiters, evq_waiting>>

\* Nobody starts or stops waiting.
Quiet ==
    /\ UNCHANGED <<Counters, stop>>
    /\ \A u \in Workers :
         \/ pc'[u] = pc[u]
         \/ pc[u] = "cond" /\ pc'[u] \in {"woken", "expired"}
         \/ /\ pc[u] \in {"run", "blocked", "spawn", "top"} /\ pc'[u] \in AtTask \cup {"top"}
            /\ pc[u] = "top" => ~stop
         \/ pc[u] = "out" /\ pc'[u] = "start"

Enters(w) ==
    /\ nworkers' = nworkers + 1 /\ UNCHANGED <<nwaiters, evq_waiting, stop>>
    /\ pc[w] \in {"out", "start"} /\ pc'[w] = "top"
    /\ \A u \in Workers \ {w} : pc'[u] = pc[u] \/ (pc[u] = "spawn" /\ pc'[u] = "blocked")

\* w comes from the event queue, or goes to it, or looks into it.
Turns(w) ==
    /\ UNCHANGED <<nworkers, nwaiters, stop>>
    /\ pc[w] = "evq" \/ (pc[w] = "top" /\ ~stop /\ Polls)
    /\ pc'[w] \in {"top", "evq", "lost_evq"} /\ evq_waiting' = (pc'[w] # "top")
    /\ OthersStay(w)

Waits(w) ==
    /\ UNCHANGED <<nworkers, evq_waiting, stop>> /\ nwaiters' = nwaiters + 1
    /\ pc[w] = "top" /\ ~stop /\ ~Polls /\ pc' = Go(w, "cond")

Wakes(w) ==
    /\ UNCHANGED <<nworkers, evq_waiting, stop>> /\ nwaiters' = nwaiters - 1
    /\ pc[w] = "woken" /\ pc' = Go(w, "top")

\* w leaves sched:loop, and tells the others when it has to.
Leaves(w) ==
    /\ UNCHANGED <<nwaiters, evq_waiting, stop>> /\ nworkers' = nworkers - 1
    /\ pc[w] \in {"top", "run"} /\ pc'[w] \in {"out", "failed"} /\ OthersStay(w)
    /\ (IF stop THEN pc[w] = "top" ELSE ~evq_waiting /\ HasEvq /\ nwaiters = nworkers - 1) => Told

Expires(w) ==
    /\ UNCHANGED <<evq_waiting, stop>> /\ nworkers' = nworkers - 1 /\ nwaiters' = nwaiters - 1
    /\ pc[w] = "expired" /\ pc'[w] = "out" /\ OthersStay(w)
    /\ (~stop /\ ~evq_waiting /\ HasEvq /\ nwaiters - 1 = nworkers - 1) => Told

\* sys_thread_check takes w away from its wait.
Loses(w) ==
    /\ UNCHANGED <<nworkers, evq_waiting, stop>> /\ nwaiters' = nwaiters - 1
    /\ pc[w] \in {"woken", "expired"} /\ pc' = Go(w, "lost")

\* w leaves sched:loop because of an error of the event queue.
Breaks(w) ==
    /\ UNCHANGED <<nwaiters, stop>> /\ nworkers' = nworkers - 1 /\ evq_waiting' = FALSE
    /\ pc[w] = "evq" /\ pc'[w] \in {"out", "failed"} /\ OthersStay(w)
    /\ (~stop /\ HasEvq /\ nwaiters = nworkers - 1) => Told

Stopped == UNCHANGED Counters /\ Told /\ \A u \in Workers : Stays(u)

Kinds ==
    \/ Quiet \/ Stopped
    \/ \E w \in Workers : \/ Enters(w) \/ Turns(w) \/ Waits(w) \/ Wakes(w) \/ Leaves(w) \/ Expires(w)
                          \/ Loses(w) \/ Breaks(w)

-----------------------------------------------------------------------------
(***************************************************************************)
(* Each step has a kind, and keeps the types.                              *)
(***************************************************************************)
LEMMA SignalledIs ==
  ASSUME NEW f \in [Workers -> Labels], NEW g \in Signalled(f)
  PROVE  /\ g \in [Workers -> Labels]
         /\ \A u \in Workers : g[u] = f[u] \/ (f[u] = "cond" /\ g[u] = "woken")
         /\ (\E u \in Workers : f[u] = "cond") => \E u \in Workers : f[u] = "cond" /\ g[u] = "woken"
  <1>. DEFINE W == {w \in Workers : f[w] = "cond"}
  <1>1. CASE W = {}
    <2>1. g = f
      BY <1>1 DEF Signalled
    <2>. QED BY <1>1, <2>1
  <1>2. CASE W # {}
    <2>1. PICK w \in W : g = [f EXCEPT ![w] = "woken"]
      BY <1>2 DEF Signalled
    <2>2. "woken" \in Labels
      BY DEF Labels
    <2>. QED BY <2>1, <2>2
  <1>. QED BY <1>1, <1>2

\* w goes to l, and a worker may be told.
Moved(w, l) == pc' \in {Go(w, l)} \cup Signalled(Go(w, l))

LEMMA MovedIs ==
  ASSUME pc \in [Workers -> Labels], NEW w \in Workers, NEW l \in Labels \ {"cond"}, Moved(w, l)
  PROVE  pc' \in [Workers -> Labels] /\ pc'[w] = l /\ OthersStay(w)
  <1>. DEFINE f == Go(w, l)
  <1>1. f \in [Workers -> Labels] /\ f[w] = l /\ \A u \in Workers \ {w} : f[u] = pc[u]
    BY DEF Go
  <1>. HIDE DEF f
  <1>2. pc' = f \/ pc' \in Signalled(f)
    BY DEF Moved, f
  <1>3. CASE pc' = f
    BY <1>1, <1>3 DEF OthersStay, Stays
  <1>4. CASE pc' \in Signalled(f)
    <2>1. pc' \in [Workers -> Labels] /\ \A u \in Workers : pc'[u] = f[u] \/ (f[u] = "cond" /\ pc'[u] = "woken")
      BY <1>1, <1>4, SignalledIs
    <2>. QED BY <1>1, <2>1 DEF OthersStay, Stays
  <1>. QED BY <1>2, <1>3, <1>4

LEMMA ToldBy ==
  ASSUME pc \in [Workers -> Labels], NEW w \in Workers, NEW l \in Labels \ {"cond"},
         pc[w] # "cond", pc' \in Signalled(Go(w, l))
  PROVE  Told
  <1>. DEFINE f == Go(w, l)
  <1>1. f \in [Workers -> Labels] /\ f[w] = l /\ \A u \in Workers \ {w} : f[u] = pc[u]
    BY DEF Go
  <1>. HIDE DEF f
  <1>2. (\E u \in Workers : f[u] = "cond") => \E u \in Workers : f[u] = "cond" /\ pc'[u] = "woken"
    BY <1>1, SignalledIs DEF f
  <1>. QED BY <1>1, <1>2 DEF Told

\* A worker without a task moves.
LEMMA CurKept ==
  ASSUME Typed, NEW w \in Workers, cur' = cur, pc'[w] \in AtTask <=> pc[w] \in AtTask, OthersStay(w)
  PROVE  /\ cur' \in [Workers -> Ids \cup {NoTask}]
         /\ \A u \in Workers : cur'[u] # NoTask <=> pc'[u] \in AtTask
  <1>1. ASSUME NEW u \in Workers PROVE pc'[u] \in AtTask <=> pc[u] \in AtTask
    BY DEF OthersStay, Stays, AtTask
  <1>. QED BY <1>1 DEF Typed

\* w gives its task back.
LEMMA CurGiven ==
  ASSUME Typed, NEW w \in Workers, cur' = [cur EXCEPT ![w] = NoTask], pc'[w] \notin AtTask, OthersStay(w)
  PROVE  /\ cur' \in [Workers -> Ids \cup {NoTask}]
         /\ \A u \in Workers : cur'[u] # NoTask <=> pc'[u] \in AtTask
  <1>1. ASSUME NEW u \in Workers \ {w} PROVE pc'[u] \in AtTask <=> pc[u] \in AtTask
    BY DEF OthersStay, Stays, AtTask
  <1>. QED BY <1>1 DEF Typed

LEMMA LeaveStep ==
  ASSUME Typed, NEW w \in Workers, NEW l \in {"out", "failed"}, NEW b \in BOOLEAN, Leave(w, l, b),
         pc[w] \in {"top", "run"}, UNCHANGED <<nwaiters, evq_waiting, stop>>,
         stop /\ pc[w] = "top" => b
  PROVE  Leaves(w) /\ pc' \in [Workers -> Labels] /\ pc'[w] = l /\ OthersStay(w)
  <1>1. Moved(w, l) /\ nworkers' = nworkers - 1 /\ l \in Labels \ {"cond"}
    BY DEF Leave, Moved, Labels
  <1>2. pc' \in [Workers -> Labels] /\ pc'[w] = l /\ OthersStay(w)
    BY <1>1, MovedIs DEF Typed
  <1>3. ASSUME IF stop THEN pc[w] = "top" ELSE ~evq_waiting /\ HasEvq /\ nwaiters = nworkers - 1
        PROVE  Told
    <2>1. pc' \in Signalled(Go(w, l))
      BY <1>3 DEF Leave
    <2>. QED BY <1>1, <2>1, ToldBy DEF Typed
  <1>. QED BY <1>1, <1>2, <1>3 DEF Leaves

\* The lists that the tasks' own steps leave alone.
Waiting(x, st) == x.ev = st.ev /\ x.sync = st.sync /\ x.ready = st.ready

LEMMA DelIs ==
  ASSUME NEW st \in Lists, NEW t \in Ids
  PROVE  LET x == sched_task_del(st, t)
         IN  /\ x \in Lists /\ x.free = Append(st.free, t) /\ x.active = st.active
             /\ x.buf_idx = st.buf_idx /\ x.task = st.task /\ Waiting(x, st)
             /\ Numbered(st) => Numbered(x)
  <1>. DEFINE x == sched_task_del(st, t)
              f == Append(st.free, t)
              n == st.ntasks - 1
  <1>0. st.free \in Seq(Ids) /\ st.ntasks \in Int /\ st.buf_idx \in 0..MaxTasks
    BY DEF Lists
  <1>1. f \in Seq(Ids) /\ n \in Int /\ Len(f) = Len(st.free) + 1 /\ Len(st.free) \in Nat
    BY <1>0
  <1>2. x = [st EXCEPT !.free = f, !.ntasks = n]
    BY DEF sched_task_del
  <1>. HIDE DEF x, f
  <1>3. x \in Lists
    BY <1>1, <1>2 DEF Lists
  <1>4. /\ x.free = f /\ x.active = st.active /\ x.ntasks = n
        /\ x.buf_idx = st.buf_idx /\ x.task = st.task /\ Waiting(x, st)
    BY <1>2, ZenonT(30) DEF Lists, Waiting
  <1>5. Numbered(st) => Numbered(x)
    <2>1. st.buf_idx \in Int
      BY <1>0, Finite
    <2>2. x.ntasks = n /\ Len(x.free) = Len(st.free) + 1 /\ x.buf_idx = st.buf_idx
      BY <1>1, <1>4
    <2>. HIDE DEF n
    <2>3. n = st.ntasks - 1
      BY DEF n
    <2>. QED BY <1>0, <1>1, <2>1, <2>2, <2>3 DEF Numbered
  <1>. QED BY <1>3, <1>4, <1>5 DEF x, f

\* The first task is taken from the active list.
LEMMA TakenIs ==
  ASSUME NEW st \in Lists, st.active # <<>>
  PROVE  LET x == [st EXCEPT !.active = Tail(@)]
         IN  /\ x \in Lists /\ x.active = Tail(st.active) /\ x.free = st.free /\ x.ntasks = st.ntasks
             /\ x.buf_idx = st.buf_idx /\ x.task = st.task /\ Waiting(x, st)
             /\ Head(st.active) \in Ids
  <1>. DEFINE a == Tail(st.active)
              x == [st EXCEPT !.active = a]
  <1>0. st.active \in Seq(Ids)
    BY DEF Lists
  <1>1. a \in Seq(Ids) /\ Head(st.active) \in Ids
    BY <1>0
  <1>. HIDE DEF a
  <1>2. x \in Lists
    BY <1>1 DEF Lists
  <1>3. /\ x.active = a /\ x.free = st.free /\ x.ntasks = st.ntasks
        /\ x.buf_idx = st.buf_idx /\ x.task = st.task /\ Waiting(x, st)
    BY ZenonT(30) DEF Lists, Waiting
  <1>. QED BY <1>1, <1>2, <1>3 DEF a

\* A step that asks for no signal.
LEMMA SilentIs ==
  ASSUME NEW st \in Lists
  PROVE  LET x == [st EXCEPT !.signal = FALSE]
         IN  /\ x \in Lists /\ x.active = st.active /\ x.free = st.free /\ x.ntasks = st.ntasks
             /\ x.buf_idx = st.buf_idx /\ x.task = st.task /\ Waiting(x, st)
  <1>. DEFINE x == [st EXCEPT !.signal = FALSE]
  <1>1. x \in Lists
    BY DEF Lists
  <1>2. /\ x.active = st.active /\ x.free = st.free /\ x.ntasks = st.ntasks
        /\ x.buf_idx = st.buf_idx /\ x.task = st.task /\ Waiting(x, st)
    BY ZenonT(30) DEF Lists, Waiting
  <1>. QED BY <1>1, <1>2

LEMMA YieldedTypes ==
  ASSUME NEW st \in Lists, NEW t \in Ids, Numbered(st)
  PROVE  Yielded(st, t) \in Lists /\ Numbered(Yielded(st, t))
  <1>1. sched_task_del(st, t) \in Lists /\ Numbered(sched_task_del(st, t))
    BY DelIs
  <1>2. Activate(st, t) \in Lists /\ Apart(Activate(st, t), st)
    BY ActivateIs
  <1>3. Numbered(Activate(st, t))
    BY <1>2 DEF Apart, Numbered
  <1>. QED BY <1>1, <1>2, <1>3 DEF Yielded

-----------------------------------------------------------------------------
LEMMA LoopStep ==
  ASSUME Typed, NEW w \in Workers, sched_loop(w)
  PROVE  Typed' /\ Enters(w)
  <1>1. /\ pc[w] \in {"out", "start"} /\ nworkers' = nworkers + 1
        /\ UNCHANGED <<s, stop, nwaiters, evq_waiting, cur>>
        /\ pc' = [u \in Workers |-> IF u = w THEN "top"
                                    ELSE IF pc[w] = "start" /\ pc[u] = "spawn" THEN "blocked"
                                    ELSE pc[u]]
    BY DEF sched_loop
  <1>2. /\ pc'[w] = "top"
        /\ \A u \in Workers \ {w} : pc'[u] = pc[u] \/ (pc[u] = "spawn" /\ pc'[u] = "blocked")
    BY <1>1
  <1>3. pc' \in [Workers -> Labels]
    BY <1>1 DEF Typed, Labels
  <1>4. \A u \in Workers : pc'[u] \in AtTask <=> pc[u] \in AtTask
    BY <1>1, <1>2 DEF AtTask
  <1>5. Enters(w)
    BY <1>1, <1>2 DEF Enters
  <1>. QED BY <1>1, <1>3, <1>4, <1>5 DEF Typed

LEMMA StopLeaveStep ==
  ASSUME Typed, NEW w \in Workers, StopLeave(w) \/ IdleLeave(w)
  PROVE  Typed' /\ Leaves(w)
  <1>1. /\ pc[w] = "top" /\ UNCHANGED <<s, stop, nwaiters, evq_waiting, cur>>
        /\ \E b \in BOOLEAN : Leave(w, "out", b) /\ (stop => b)
    BY DEF StopLeave, IdleLeave, NoneActive
  <1>2. Leaves(w) /\ pc' \in [Workers -> Labels] /\ pc'[w] = "out" /\ OthersStay(w)
    BY <1>1, LeaveStep
  <1>3. /\ cur' \in [Workers -> Ids \cup {NoTask}]
        /\ \A u \in Workers : cur'[u] # NoTask <=> pc'[u] \in AtTask
    BY <1>1, <1>2, CurKept DEF AtTask
  <1>. QED BY <1>1, <1>2, <1>3 DEF Typed

\* What w does in sys_evq_loop.
LEMMA EvqTurnStep ==
  ASSUME NEW st \in Lists, Numbered(st), NEW w \in Workers, EvqTurn(w, st)
  PROVE  /\ s' \in Lists /\ Numbered(s')
         /\ \E l \in {"top", "evq", "lost_evq"} : Moved(w, l) /\ evq_waiting' = (l # "top")
  <1>1. PICK fails : LET x == levq_sync_process(st, fails) IN
          IF x.ready # <<>>
          THEN Becomes(HandleReady(x), Go(w, "top")) /\ evq_waiting' = FALSE
          ELSE IF Live(x) = {} /\ ~KeptEvent
          THEN Becomes(x, Go(w, "top")) /\ evq_waiting' = FALSE
          ELSE /\ Becomes(x, Go(w, "evq")) \/ (w \in Interrupts /\ Becomes(x, Go(w, "lost_evq")))
               /\ evq_waiting' = TRUE
    BY DEF EvqTurn
  <1>. DEFINE x == levq_sync_process(st, fails)
  <1>2. x \in Lists /\ Numbered(x)
    BY SyncTypes DEF Numbered
  <1>3. HandleReady(x) \in Lists /\ Numbered(HandleReady(x))
    BY <1>2, HandleTypes DEF Numbered
  <1>. HIDE DEF x
  <1>4. PICK y \in {x, HandleReady(x)}, l \in {"top", "evq", "lost_evq"} :
            Becomes(y, Go(w, l)) /\ evq_waiting' = (l # "top")
    BY <1>1 DEF x
  <1>5. y \in Lists /\ Numbered(y) /\ s' = [y EXCEPT !.signal = FALSE] /\ Moved(w, l)
    BY <1>2, <1>3, <1>4 DEF Becomes, Moved
  <1>6. s' \in Lists /\ Numbered(s')
    BY <1>5, SilentIs DEF Numbered
  <1>. QED BY <1>4, <1>5, <1>6

\* The ready events are handled, and w leaves sys_evq_loop.
LEMMA HandledStep ==
  ASSUME NEW st \in Lists, Numbered(st), NEW w \in Workers,
         Becomes(HandleReady(st), Go(w, "top")), evq_waiting' = FALSE
  PROVE  /\ s' \in Lists /\ Numbered(s')
         /\ \E l \in {"top", "evq", "lost_evq"} : Moved(w, l) /\ evq_waiting' = (l # "top")
  <1>1. HandleReady(st) \in Lists /\ Numbered(HandleReady(st))
    BY HandleTypes DEF Numbered
  <1>2. s' = [HandleReady(st) EXCEPT !.signal = FALSE] /\ Moved(w, "top")
    BY DEF Becomes, Moved
  <1>3. s' \in Lists /\ Numbered(s')
    BY <1>1, <1>2, SilentIs DEF Numbered
  <1>. QED BY <1>2, <1>3

\* The events that evq_wait returns, in some order.
LEMMA OrderTypes ==
  ASSUME NEW S \in SUBSET Slots, NEW q \in SetToSeqs(S)
  PROVE  q \in Seq(Slots)
  <1>1. IsFiniteSet(Slots)
    BY Finite DEF Slots
  <1>2. Cardinality(S) \in Nat
    BY <1>1, FS_Subset, FS_CardinalityType
  <1>. QED BY <1>2 DEF SetToSeqs

LEMMA EvqStep ==
  ASSUME Typed, NEW w \in Workers, GoEvq(w) \/ EvqReturns(w) \/ EvqOwnEvent(w)
  PROVE  Typed' /\ Turns(w)
  <1>1. /\ UNCHANGED <<stop, nworkers, nwaiters, cur>>
        /\ pc[w] = "evq" \/ (pc[w] = "top" /\ ~stop /\ Polls)
    BY DEF GoEvq, EvqReturns, EvqOwnEvent, NoneActive, InEvq
  <1>2. /\ s' \in Lists /\ Numbered(s')
        /\ \E l \in {"top", "evq", "lost_evq"} : Moved(w, l) /\ evq_waiting' = (l # "top")
    <2>1. CASE GoEvq(w)
      BY <2>1, EvqTurnStep DEF GoEvq, Typed
    <2>2. CASE EvqReturns(w)
      <3>. PICK S \in SUBSET Live(s) : \E q \in SetToSeqs(S) :
              IF Occur(s, S, q).ready # <<>>
              THEN Becomes(HandleReady(Occur(s, S, q)), Go(w, "top")) /\ evq_waiting' = FALSE
              ELSE EvqTurn(w, Occur(s, S, q))
        BY <2>2 DEF EvqReturns
      <3>1. PICK q \in SetToSeqs(S) :
              IF Occur(s, S, q).ready # <<>>
              THEN Becomes(HandleReady(Occur(s, S, q)), Go(w, "top")) /\ evq_waiting' = FALSE
              ELSE EvqTurn(w, Occur(s, S, q))
        OBVIOUS
      <3>2. q \in Seq(Slots)
        BY OrderTypes DEF Live
      <3>3. Occur(s, S, q) \in Lists /\ Numbered(Occur(s, S, q))
        BY <3>2, OccurIs DEF Numbered, Typed
      <3>. QED BY <3>1, <3>3, EvqTurnStep, HandledStep
    <2>3. CASE EvqOwnEvent(w)
      BY <2>3, HandledStep DEF EvqOwnEvent, Typed
    <2>. QED BY <2>1, <2>2, <2>3
  <1>3. PICK l \in {"top", "evq", "lost_evq"} : Moved(w, l) /\ evq_waiting' = (l # "top")
    BY <1>2
  <1>4. pc' \in [Workers -> Labels] /\ pc'[w] = l /\ OthersStay(w)
    BY <1>3, MovedIs DEF Typed, Labels
  <1>5. /\ cur' \in [Workers -> Ids \cup {NoTask}]
        /\ \A u \in Workers : cur'[u] # NoTask <=> pc'[u] \in AtTask
    BY <1>1, <1>4, CurKept DEF AtTask
  <1>6. Turns(w)
    BY <1>1, <1>3, <1>4 DEF Turns
  <1>. QED BY <1>1, <1>2, <1>3, <1>4, <1>5, <1>6 DEF Typed

\* An error of the event queue, with the lists st.
LEMMA EvqLeaveStep ==
  ASSUME Typed, NEW st \in Lists, Numbered(st), NEW w \in Workers, NEW l \in {"out", "failed"},
         EvqLeave(w, l, st), pc[w] = "evq", UNCHANGED <<stop, nwaiters, cur>>
  PROVE  Typed' /\ Breaks(w)
  <1>. DEFINE hand == ~stop /\ HasEvq /\ nwaiters = nworkers - 1
  <1>1. /\ s' = [st EXCEPT !.signal = FALSE] /\ nworkers' = nworkers - 1 /\ evq_waiting' = FALSE
        /\ \E f \in {Go(w, l)} \cup Signalled(Go(w, l)) :
             pc' \in IF hand THEN Signalled(f) ELSE {f}
    BY DEF EvqLeave
  <1>2. PICK f \in {Go(w, l)} \cup Signalled(Go(w, l)) : pc' \in IF hand THEN Signalled(f) ELSE {f}
    BY <1>1
  <1>3. l \in Labels \ {"cond"} /\ pc \in [Workers -> Labels]
    BY DEF Labels, Typed
  <1>4. /\ f \in [Workers -> Labels] /\ f[w] = l
        /\ \A u \in Workers \ {w} : f[u] = pc[u] \/ (pc[u] = "cond" /\ f[u] = "woken")
    <2>. DEFINE g == Go(w, l)
    <2>1. g \in [Workers -> Labels] /\ g[w] = l /\ \A u \in Workers \ {w} : g[u] = pc[u]
      BY <1>3 DEF Go
    <2>. HIDE DEF g
    <2>2. f = g \/ f \in Signalled(g)
      BY <1>2 DEF g
    <2>3. f = g \/ \A u \in Workers : f[u] = g[u] \/ (g[u] = "cond" /\ f[u] = "woken")
      BY <2>1, <2>2, SignalledIs
    <2>4. f \in [Workers -> Labels]
      BY <2>1, <2>2, SignalledIs
    <2>. QED BY <1>3, <2>1, <2>3, <2>4
  <1>5. /\ pc' \in [Workers -> Labels]
        /\ \A u \in Workers : pc'[u] = f[u] \/ (f[u] = "cond" /\ pc'[u] = "woken")
        /\ hand /\ (\E u \in Workers : f[u] = "cond") => \E u \in Workers : f[u] = "cond" /\ pc'[u] = "woken"
    <2>1. CASE hand
      BY <1>2, <1>4, <2>1, SignalledIs
    <2>2. CASE ~hand
      BY <1>2, <1>4, <2>2
    <2>. QED BY <2>1, <2>2
  <1>6. pc'[w] = l /\ OthersStay(w)
    BY <1>3, <1>4, <1>5 DEF OthersStay, Stays
  <1>7. hand => Told
    <2>. SUFFICES ASSUME hand, NEW v \in Workers, pc[v] = "cond"
                  PROVE  \E u \in Workers : pc[u] = "cond" /\ pc'[u] = "woken"
      BY DEF Told
    <2>. HIDE DEF hand
    <2>1. v # w
      OBVIOUS
    <2>2. CASE f[v] = "woken"
      <3>1. pc'[v] = "woken"
        BY <1>5, <2>2
      <3>. QED BY <3>1
    <2>3. CASE f[v] = "cond"
      <3>1. PICK u \in Workers : f[u] = "cond" /\ pc'[u] = "woken"
        BY <1>5, <2>3
      <3>2. u # w /\ pc[u] = "cond"
        BY <1>4, <3>1
      <3>. QED BY <3>1, <3>2
    <2>. QED BY <1>4, <2>1, <2>2, <2>3
  <1>8. s' \in Lists /\ Numbered(s')
    BY <1>1, SilentIs DEF Numbered
  <1>9. /\ cur' \in [Workers -> Ids \cup {NoTask}]
        /\ \A u \in Workers : cur'[u] # NoTask <=> pc'[u] \in AtTask
    BY <1>6, CurKept DEF AtTask
  <1>10. Breaks(w)
    BY <1>1, <1>6, <1>7 DEF Breaks
  <1>. QED BY <1>1, <1>5, <1>8, <1>9, <1>10 DEF Typed

\* The lists without the ready one, and with another one.
LEMMA ReadyIs ==
  ASSUME NEW st \in Lists, NEW q \in Seq(Slots)
  PROVE  LET x == [st EXCEPT !.ready = q]
         IN  /\ x \in Lists /\ x.active = st.active /\ x.free = st.free /\ x.ntasks = st.ntasks
             /\ x.buf_idx = st.buf_idx /\ x.task = st.task /\ x.ev = st.ev /\ x.sync = st.sync
             /\ x.ready = q
  <1>. DEFINE x == [st EXCEPT !.ready = q]
  <1>1. x \in Lists
    BY DEF Lists
  <1>2. /\ x.active = st.active /\ x.free = st.free /\ x.ntasks = st.ntasks /\ x.buf_idx = st.buf_idx
        /\ x.task = st.task /\ x.ev = st.ev /\ x.sync = st.sync /\ x.ready = q
    BY ZenonT(30) DEF Lists
  <1>. QED BY <1>1, <1>2

LEMMA EvqFailsStep ==
  ASSUME Typed, NEW w \in Workers, EvqFails(w)
  PROVE  Typed' /\ Breaks(w)
  <1>1. pc[w] = "evq" /\ UNCHANGED <<stop, nwaiters, cur>>
    BY DEF EvqFails, InEvq
  <1>2. CASE EvqLeave(w, "out", s)
    BY <1>1, <1>2, EvqLeaveStep DEF Typed
  <1>3. CASE \E S \in SUBSET Live(s) : \E T \in SUBSET (Live(s) \ S) :
               \E p \in SetToSeqs(S), q \in SetToSeqs(T) : EvqLeave(w, "failed", FailsAmid(S, p, T, q))
    <2>. PICK S \in SUBSET Live(s), T \in SUBSET Live(s) :
            \E p \in SetToSeqs(S), q \in SetToSeqs(T) : EvqLeave(w, "failed", FailsAmid(S, p, T, q))
      BY <1>3
    <2>1. PICK p \in SetToSeqs(S), q \in SetToSeqs(T) : EvqLeave(w, "failed", FailsAmid(S, p, T, q))
      OBVIOUS
    <2>2. p \in Seq(Slots) /\ q \in Seq(Slots)
      BY OrderTypes DEF Live
    <2>. DEFINE a == [s EXCEPT !.ready = <<>>]
                b == Occur(a, S, p)
                c == HandleReady(b)
                d == [c EXCEPT !.ready = s.ready]
                x == Occur(d, T, q)
    <2>3. x = FailsAmid(S, p, T, q) /\ s \in Lists /\ Numbered(s) /\ <<>> \in Seq(Slots)
      BY DEF FailsAmid, Typed
    <2>4. a \in Lists /\ Numbered(a)
      BY <2>3, ReadyIs DEF Numbered
    <2>. HIDE DEF a
    <2>5. b \in Lists /\ Numbered(b)
      BY <2>2, <2>4, OccurIs DEF Numbered
    <2>. HIDE DEF b
    <2>6. c \in Lists /\ Numbered(c)
      BY <2>5, HandleTypes DEF Numbered
    <2>. HIDE DEF c
    <2>7. d \in Lists /\ Numbered(d)
      <3>1. s.ready \in Seq(Slots)
        BY <2>3 DEF Lists
      <3>. QED BY <2>6, <3>1, ReadyIs DEF Numbered
    <2>. HIDE DEF d
    <2>8. x \in Lists /\ Numbered(x)
      BY <2>2, <2>7, OccurIs DEF Numbered
    <2>. HIDE DEF x
    <2>. QED BY <1>1, <2>1, <2>3, <2>8, EvqLeaveStep
  <1>. QED BY <1>2, <1>3 DEF EvqFails

\* A step of w that leaves the lists and the tasks alone.
LEMMA PlainStep ==
  ASSUME Typed, NEW w \in Workers, NEW l \in Labels, pc' = Go(w, l), UNCHANGED <<s, stop, evq_waiting, cur>>,
         l \in AtTask <=> pc[w] \in AtTask
  PROVE  Typed' /\ pc'[w] = l /\ \A u \in Workers \ {w} : pc'[u] = pc[u]
  <1>1. pc' \in [Workers -> Labels] /\ pc'[w] = l /\ \A u \in Workers \ {w} : pc'[u] = pc[u]
    BY DEF Typed, Go
  <1>2. \A u \in Workers : pc'[u] \in AtTask <=> pc[u] \in AtTask
    BY <1>1
  <1>. QED BY <1>1, <1>2 DEF Typed

LEMMA GoWaitStep ==
  ASSUME Typed, NEW w \in Workers, GoWait(w)
  PROVE  Typed' /\ Waits(w)
  <1>1. "cond" \in Labels /\ ("cond" \in AtTask <=> pc[w] \in AtTask)
    BY DEF GoWait, NoneActive, Labels, AtTask
  <1>2. Typed'
    BY <1>1, PlainStep DEF GoWait
  <1>. QED BY <1>2 DEF GoWait, NoneActive, Waits

LEMMA WokenStep ==
  ASSUME Typed, NEW w \in Workers, Woken(w)
  PROVE  Typed' /\ Wakes(w)
  <1>1. "top" \in Labels /\ ("top" \in AtTask <=> pc[w] \in AtTask)
    BY DEF Woken, Labels, AtTask
  <1>2. Typed'
    BY <1>1, PlainStep DEF Woken
  <1>. QED BY <1>2 DEF Woken, Wakes

LEMMA CheckFailsStep ==
  ASSUME Typed, NEW w \in Workers, CheckFails(w)
  PROVE  Typed' /\ Loses(w)
  <1>1. "lost" \in Labels /\ ("lost" \in AtTask <=> pc[w] \in AtTask)
    BY DEF CheckFails, Labels, AtTask
  <1>2. Typed'
    BY <1>1, PlainStep DEF CheckFails
  <1>. QED BY <1>2 DEF CheckFails, Loses

\* A waiting worker wakes by itself or its time is over; a task blocks, goes on or is lost.
LEMMA PlainQuietStep ==
  ASSUME Typed, NEW w \in Workers,
         Spurious(w) \/ TimesOut(w) \/ BlockTask(w) \/ Unblock(w) \/ EndsBlocked(w)
  PROVE  Typed' /\ Quiet
  <1>1. /\ UNCHANGED <<s, stop, nworkers, nwaiters, evq_waiting, cur>>
        /\ \E l \in Labels :
             /\ pc' = Go(w, l) /\ (l \in AtTask <=> pc[w] \in AtTask)
             /\ (pc[w] = "cond" /\ l \in {"woken", "expired"}) \/ (pc[w] \in {"run", "blocked"} /\ l \in AtTask)
    BY DEF Spurious, TimesOut, BlockTask, Unblock, EndsBlocked, workerVars, Labels, AtTask
  <1>2. PICK l \in Labels :
             /\ pc' = Go(w, l) /\ (l \in AtTask <=> pc[w] \in AtTask)
             /\ (pc[w] = "cond" /\ l \in {"woken", "expired"}) \/ (pc[w] \in {"run", "blocked"} /\ l \in AtTask)
    BY <1>1
  <1>3. Typed' /\ pc'[w] = l /\ \A u \in Workers \ {w} : pc'[u] = pc[u]
    BY <1>1, <1>2, PlainStep
  <1>. QED BY <1>1, <1>2, <1>3 DEF Quiet, Counters

LEMMA TimeoutLeaveStep ==
  ASSUME Typed, NEW w \in Workers, TimeoutLeave(w)
  PROVE  Typed' /\ Expires(w)
  <1>1. /\ pc[w] = "expired" /\ UNCHANGED <<s, stop, evq_waiting, cur>>
        /\ nworkers' = nworkers - 1 /\ nwaiters' = nwaiters - 1
        /\ pc' \in IF ~stop /\ ~evq_waiting /\ HasEvq /\ nwaiters - 1 = nworkers - 1
                   THEN Signalled(Go(w, "out")) ELSE {Go(w, "out")}
    BY DEF TimeoutLeave
  <1>2. Moved(w, "out") /\ "out" \in Labels \ {"cond"}
    BY <1>1 DEF Moved, Labels
  <1>3. pc' \in [Workers -> Labels] /\ pc'[w] = "out" /\ OthersStay(w)
    BY <1>2, MovedIs DEF Typed
  <1>4. (~stop /\ ~evq_waiting /\ HasEvq /\ nwaiters - 1 = nworkers - 1) => Told
    <2>. HAVE ~stop /\ ~evq_waiting /\ HasEvq /\ nwaiters - 1 = nworkers - 1
    <2>1. pc' \in Signalled(Go(w, "out")) /\ pc[w] # "cond"
      BY <1>1
    <2>. QED BY <1>2, <2>1, ToldBy DEF Typed
  <1>5. /\ cur' \in [Workers -> Ids \cup {NoTask}]
        /\ \A u \in Workers : cur'[u] # NoTask <=> pc'[u] \in AtTask
    BY <1>1, <1>3, CurKept DEF AtTask
  <1>6. Expires(w)
    BY <1>1, <1>3, <1>4 DEF Expires
  <1>. QED BY <1>1, <1>3, <1>5, <1>6 DEF Typed

LEMMA DropStep ==
  ASSUME Typed, NEW w \in Workers, DropTerminated(w)
  PROVE  Typed' /\ Quiet
  <1>. DEFINE t == Head(s.active)
              x == [s EXCEPT !.active = Tail(@)]
  <1>1. /\ s.active # <<>> /\ s' = sched_task_del(x, t)
        /\ UNCHANGED <<stop, nworkers, nwaiters, evq_waiting, pc, cur>>
    BY DEF DropTerminated, workerVars
  <1>2. x \in Lists /\ t \in Ids /\ Numbered(x)
    BY <1>1, TakenIs DEF Typed, Numbered
  <1>. HIDE DEF x, t
  <1>3. s' \in Lists /\ Numbered(s')
    BY <1>1, <1>2, DelIs
  <1>. QED BY <1>1, <1>3 DEF Typed, Quiet, Counters

LEMMA RunStep ==
  ASSUME Typed, NEW w \in Workers, RunTask(w)
  PROVE  Typed' /\ Quiet
  <1>. DEFINE t == Head(s.active)
              x == [s EXCEPT !.active = Tail(@)]
  <1>1. /\ s.active # <<>> /\ s' = x /\ pc[w] = "top" /\ ~stop
        /\ UNCHANGED <<stop, nworkers, nwaiters, evq_waiting>>
        /\ cur' = [cur EXCEPT ![w] = t] /\ pc' = [pc EXCEPT ![w] = "run"]
    BY DEF RunTask, workerVars, Go
  <1>2. x \in Lists /\ t \in Ids /\ Numbered(x)
    BY <1>1, TakenIs DEF Typed, Numbered
  <1>. HIDE DEF x, t
  <1>3. "run" \in Labels /\ "run" \in AtTask /\ t # NoTask
    BY <1>2, Finite DEF Labels, AtTask
  <1>4. pc' \in [Workers -> Labels] /\ cur' \in [Workers -> Ids \cup {NoTask}]
    BY <1>1, <1>2, <1>3 DEF Typed
  <1>5. \A u \in Workers : cur'[u] # NoTask <=> pc'[u] \in AtTask
    BY <1>1, <1>2, <1>3 DEF Typed
  <1>6. Quiet
    BY <1>1, <1>3 DEF Quiet, Counters, Typed
  <1>. QED BY <1>1, <1>2, <1>4, <1>5, <1>6 DEF Typed

\* w has let its task go: it looks for the next, or leaves.
LEMMA AfterTaskStep ==
  ASSUME Typed, NEW w \in Workers, pc[w] = "run", UNCHANGED <<stop, nwaiters, evq_waiting>>,
         s' \in Lists, Numbered(s'),
         \/ AfterTask(w)
         \/ cur' = [cur EXCEPT ![w] = NoTask] /\ Leave(w, "failed", FALSE)
  PROVE  Typed' /\ (Quiet \/ Leaves(w))
  <1>1. cur' = [cur EXCEPT ![w] = NoTask]
    BY DEF AfterTask
  <1>2. /\ pc' \in [Workers -> Labels] /\ pc'[w] \notin AtTask /\ OthersStay(w)
        /\ Quiet \/ Leaves(w)
    <2>1. CASE \E l \in {"out", "failed"} : Leave(w, l, FALSE)
      <3>1. PICK l \in {"out", "failed"} : Leave(w, l, FALSE)
        BY <2>1
      <3>2. Leaves(w) /\ pc' \in [Workers -> Labels] /\ pc'[w] = l /\ OthersStay(w)
        BY <3>1, LeaveStep
      <3>. QED BY <3>2 DEF AtTask
    <2>2. CASE pc' = Go(w, "top") /\ UNCHANGED nworkers
      <3>1. Moved(w, "top") /\ "top" \in Labels \ {"cond"}
        BY <2>2 DEF Moved, Labels
      <3>2. pc' \in [Workers -> Labels] /\ pc'[w] = "top" /\ OthersStay(w)
        BY <3>1, MovedIs DEF Typed
      <3>3. Quiet
        BY <2>2, <3>2 DEF Quiet, Counters, OthersStay, Stays, AtTask
      <3>. QED BY <3>2, <3>3 DEF AtTask
    <2>. QED BY <2>1, <2>2 DEF AfterTask
  <1>3. /\ cur' \in [Workers -> Ids \cup {NoTask}]
        /\ \A u \in Workers : cur'[u] # NoTask <=> pc'[u] \in AtTask
    BY <1>1, <1>2, CurGiven
  <1>. QED BY <1>2, <1>3 DEF Typed

\* The task of a worker that runs one.
LEMMA CurIs ==
  ASSUME Typed, NEW w \in Workers, pc[w] \in AtTask
  PROVE  cur[w] \in Ids
  BY DEF Typed

LEMMA SuspendedIs ==
  ASSUME NEW st \in Lists, NEW t \in Ids
  PROVE  LET x == [st EXCEPT !.task[t].suspended = TRUE]
         IN  /\ x \in Lists /\ Apart(x, st) /\ x.active = st.active /\ x.ev = st.ev /\ x.signal = st.signal
             /\ x.task[t].suspended = TRUE /\ x.task[t].terminate = st.task[t].terminate
             /\ x.task[t].ev_op = st.task[t].ev_op
             /\ \A u \in Ids \ {t} : x.task[u] = st.task[u]
  <1>. DEFINE r == [st.task[t] EXCEPT !.suspended = TRUE]
              y == [st EXCEPT !.task[t] = r]
              x == [st EXCEPT !.task[t].suspended = TRUE]
  <1>1. st.task \in [Ids -> Tasks] /\ st.task[t] \in Tasks
    BY DEF Lists
  <1>2. r \in Tasks
    BY <1>1 DEF Tasks
  <1>3. r.suspended = TRUE /\ r.terminate = st.task[t].terminate /\ r.ev_op = st.task[t].ev_op
    BY <1>1, ZenonT(30) DEF Tasks
  <1>4. x = y
    BY <1>1 DEF Lists
  <1>. HIDE DEF r
  <1>5. /\ y \in Lists /\ Apart(y, st) /\ y.active = st.active /\ y.ev = st.ev /\ y.signal = st.signal
        /\ y.task[t] = r /\ \A u \in Ids \ {t} : y.task[u] = st.task[u]
    BY <1>2, TaskIs
  <1>. HIDE DEF x, y
  <1>. QED BY <1>3, <1>4, <1>5 DEF x

LEMMA EndStep ==
  ASSUME Typed, NEW w \in Workers, Yield(w) \/ Finish(w) \/ Fail(w) \/ sched_suspend(w)
  PROVE  Typed' /\ (Quiet \/ Leaves(w))
  <1>. DEFINE t == cur[w]
              x == [s EXCEPT !.task[t].suspended = TRUE]
  <1>1. /\ pc[w] = "run" /\ UNCHANGED <<stop, nwaiters, evq_waiting>>
        /\ AfterTask(w) \/ (cur' = [cur EXCEPT ![w] = NoTask] /\ Leave(w, "failed", FALSE))
        /\ s' \in {Yielded(s, t), sched_task_del(s, t), Yielded(x, t)}
    BY DEF Yield, Finish, Fail, sched_suspend
  <1>2. t \in Ids /\ s \in Lists /\ Numbered(s)
    BY <1>1, CurIs DEF Typed, AtTask
  <1>3. x \in Lists /\ Numbered(x)
    BY <1>2, SuspendedIs DEF Numbered, Apart
  <1>. HIDE DEF x, t
  <1>4. s' \in Lists /\ Numbered(s')
    BY <1>1, <1>2, <1>3, YieldedTypes, DelIs
  <1>. QED BY <1>1, <1>4, AfterTaskStep

\* Task t waits in slot e for an event that is added at once (live) or later (op).
Awaits(x, st, t, e, state) ==
    /\ x \in Lists /\ x.free = st.free /\ x.ntasks = st.ntasks /\ x.buf_idx = st.buf_idx
    /\ x.ready = st.ready /\ x.active = st.active
    /\ x.task[t].suspended = TRUE /\ x.task[t].ev_op = e /\ x.task[t].terminate = st.task[t].terminate
    /\ \A u \in Ids \ {t} : x.task[u] = st.task[u]
    /\ x.ev[e].state = state /\ x.ev[e].task = t
    /\ \A d \in Slots \ {e} : x.ev[d] = st.ev[d]

LEMMA OpIs ==
  ASSUME NEW st \in Lists, NEW t \in Ids, NEW e \in Slots
  PROVE  LET y == [st EXCEPT !.task[t].suspended = TRUE, !.task[t].ev_op = e, !.ev[e].task = t]
             x == [y EXCEPT !.ev[e].state = "op", !.sync = <<e>> \o @]
         IN  Awaits(x, st, t, e, "op") /\ x.sync = <<e>> \o st.sync
  <1>. DEFINE y == [st EXCEPT !.task[t].suspended = TRUE, !.task[t].ev_op = e, !.ev[e].task = t]
              x == [y EXCEPT !.ev[e].state = "op", !.sync = <<e>> \o @]
              r == [st.task[t] EXCEPT !.suspended = TRUE, !.ev_op = e]
              p == [st.ev[e] EXCEPT !.task = t, !.state = "op"]
              q == <<e>> \o st.sync
              a == [st.task EXCEPT ![t] = r]
              b == [st.ev EXCEPT ![e] = p]
  <1>1. /\ st.task \in [Ids -> Tasks] /\ st.task[t] \in Tasks /\ st.ev \in [Slots -> Events]
        /\ st.ev[e] \in Events /\ st.sync \in Seq(Slots)
    BY DEF Lists
  <1>2. r \in Tasks /\ p \in Events /\ q \in Seq(Slots)
    <2>1. r \in Tasks /\ p \in Events
      BY <1>1 DEF Tasks, Events, Slots
    <2>2. <<e>> \in Seq(Slots)
      OBVIOUS
    <2>. QED BY <1>1, <2>1, <2>2
  <1>3. /\ r.suspended = TRUE /\ r.terminate = st.task[t].terminate /\ r.ev_op = e
        /\ p.task = t /\ p.state = "op"
    BY <1>1, ZenonT(30) DEF Tasks, Events
  <1>4. x = [st EXCEPT !.task = a, !.ev = b, !.sync = q]
    <2>. DEFINE a1 == [st.task EXCEPT ![t].suspended = TRUE, ![t].ev_op = e]
                b1 == [st.ev EXCEPT ![e].task = t]
                b2 == [b1 EXCEPT ![e].state = "op"]
    <2>1. a1 = a
      BY <1>1
    <2>2. b2 = b
      BY <1>1
    <2>3. y = [st EXCEPT !.task = a1, !.ev = b1]
      BY DEF Lists
    <2>. HIDE DEF y, a1, b1, a, b
    <2>4. y.ev = b1 /\ y.sync = st.sync
      BY <2>3 DEF Lists
    <2>5. x = [y EXCEPT !.ev = b2, !.sync = q]
      BY <2>3, <2>4 DEF Lists
    <2>. HIDE DEF b2, x, q
    <2>. QED BY <2>1, <2>2, <2>3, <2>5 DEF Lists
  <1>. HIDE DEF r, p, q
  <1>5. a \in [Ids -> Tasks] /\ b \in [Slots -> Events]
    BY <1>1, <1>2
  <1>6. /\ a[t] = r /\ \A u \in Ids \ {t} : a[u] = st.task[u]
        /\ b[e] = p /\ \A d \in Slots \ {e} : b[d] = st.ev[d]
    BY <1>1
  <1>. HIDE DEF x, a, b
  <1>7. x \in Lists
    BY <1>2, <1>4, <1>5 DEF Lists
  <1>8. /\ x.free = st.free /\ x.ntasks = st.ntasks /\ x.buf_idx = st.buf_idx /\ x.ready = st.ready
        /\ x.active = st.active /\ x.task = a /\ x.ev = b /\ x.sync = q
    BY <1>4, ZenonT(30) DEF Lists
  <1>9. Awaits(x, st, t, e, "op")
    BY <1>3, <1>6, <1>7, <1>8 DEF Awaits
  <1>. QED BY <1>8, <1>9 DEF x, q

LEMMA LiveIs ==
  ASSUME NEW st \in Lists, NEW t \in Ids, NEW e \in Slots
  PROVE  LET y == [st EXCEPT !.task[t].suspended = TRUE, !.task[t].ev_op = e, !.ev[e].task = t]
             x == [y EXCEPT !.ev[e].state = "live", !.task[t].ev_added = TRUE]
         IN  Awaits(x, st, t, e, "live") /\ x.sync = st.sync
  <1>. DEFINE y == [st EXCEPT !.task[t].suspended = TRUE, !.task[t].ev_op = e, !.ev[e].task = t]
              x == [y EXCEPT !.ev[e].state = "live", !.task[t].ev_added = TRUE]
              r == [st.task[t] EXCEPT !.suspended = TRUE, !.ev_op = e, !.ev_added = TRUE]
              p == [st.ev[e] EXCEPT !.task = t, !.state = "live"]
              a == [st.task EXCEPT ![t] = r]
              b == [st.ev EXCEPT ![e] = p]
  <1>1. /\ st.task \in [Ids -> Tasks] /\ st.task[t] \in Tasks /\ st.ev \in [Slots -> Events]
        /\ st.ev[e] \in Events /\ st.sync \in Seq(Slots)
    BY DEF Lists
  <1>2. r \in Tasks /\ p \in Events
    BY <1>1 DEF Tasks, Events, Slots
  <1>3. /\ r.suspended = TRUE /\ r.terminate = st.task[t].terminate /\ r.ev_op = e
        /\ p.task = t /\ p.state = "live"
    BY <1>1, ZenonT(30) DEF Tasks, Events
  <1>4. x = [st EXCEPT !.task = a, !.ev = b]
    <2>. DEFINE a1 == [st.task EXCEPT ![t].suspended = TRUE, ![t].ev_op = e]
                b1 == [st.ev EXCEPT ![e].task = t]
                a2 == [a1 EXCEPT ![t].ev_added = TRUE]
                b2 == [b1 EXCEPT ![e].state = "live"]
    <2>1. a2 = a
      BY <1>1
    <2>2. b2 = b
      BY <1>1
    <2>3. y = [st EXCEPT !.task = a1, !.ev = b1]
      BY DEF Lists
    <2>. HIDE DEF y, a1, b1, a, b
    <2>4. y.ev = b1 /\ y.task = a1
      BY <2>3 DEF Lists
    <2>5. x = [y EXCEPT !.ev = b2, !.task = a2]
      BY <2>3, <2>4 DEF Lists
    <2>. HIDE DEF b2, a2, x
    <2>. QED BY <2>1, <2>2, <2>3, <2>5 DEF Lists
  <1>. HIDE DEF r, p
  <1>5. a \in [Ids -> Tasks] /\ b \in [Slots -> Events]
    BY <1>1, <1>2
  <1>6. /\ a[t] = r /\ \A u \in Ids \ {t} : a[u] = st.task[u]
        /\ b[e] = p /\ \A d \in Slots \ {e} : b[d] = st.ev[d]
    BY <1>1
  <1>. HIDE DEF x, a, b
  <1>7. x \in Lists
    BY <1>2, <1>4, <1>5 DEF Lists
  <1>8. /\ x.free = st.free /\ x.ntasks = st.ntasks /\ x.buf_idx = st.buf_idx /\ x.ready = st.ready
        /\ x.active = st.active /\ x.task = a /\ x.ev = b /\ x.sync = st.sync
    BY <1>4, ZenonT(30) DEF Lists
  <1>9. Awaits(x, st, t, e, "live")
    BY <1>3, <1>6, <1>7, <1>8 DEF Awaits
  <1>. QED BY <1>8, <1>9 DEF x

\* The lists with which the task yields.
LEMMA SchedAddIs ==
  ASSUME s \in Lists, NEW t \in Ids, NEW e \in Slots, sys_evq_sched_add(t, e)
  PROVE  \E x \in Lists :
           /\ s' = Yielded(x, t)
           /\ \/ Awaits(x, s, t, e, "op") /\ x.sync = <<e>> \o s.sync
              \/ Awaits(x, s, t, e, "live") /\ x.sync = s.sync
              \/ x = s
  <1>. DEFINE y == [s EXCEPT !.task[t].suspended = TRUE, !.task[t].ev_op = e, !.ev[e].task = t]
              a == [y EXCEPT !.ev[e].state = "op", !.sync = <<e>> \o @]
              b == [y EXCEPT !.ev[e].state = "live", !.task[t].ev_added = TRUE]
  <1>1. Awaits(a, s, t, e, "op") /\ a.sync = <<e>> \o s.sync
    BY OpIs
  <1>2. Awaits(b, s, t, e, "live") /\ b.sync = s.sync
    BY LiveIs
  <1>3. s' = Yielded(a, t) \/ s' = Yielded(b, t) \/ s' = Yielded(s, t)
    BY DEF sys_evq_sched_add
  <1>. HIDE DEF a, b
  <1>4. a \in Lists /\ b \in Lists
    BY <1>1, <1>2 DEF Awaits
  <1>. QED BY <1>1, <1>2, <1>3, <1>4

LEMMA EventAddStep ==
  ASSUME Typed, NEW w \in Workers, sched_event_add(w)
  PROVE  Typed' /\ (Quiet \/ Leaves(w))
  <1>1. /\ pc[w] = "run" /\ UNCHANGED <<stop, nwaiters, evq_waiting>> /\ AfterTask(w)
        /\ \E e \in Slots : sys_evq_sched_add(cur[w], e)
    BY DEF sched_event_add
  <1>2. cur[w] \in Ids /\ s \in Lists /\ Numbered(s)
    BY <1>1, CurIs DEF Typed, AtTask
  <1>a. PICK e \in Slots : sys_evq_sched_add(cur[w], e)
    BY <1>1
  <1>b. PICK x \in Lists :
           /\ s' = Yielded(x, cur[w])
           /\ \/ Awaits(x, s, cur[w], e, "op") \/ Awaits(x, s, cur[w], e, "live") \/ x = s
    BY <1>2, <1>a, SchedAddIs
  <1>3. s' = Yielded(x, cur[w]) /\ Numbered(x)
    BY <1>2, <1>b DEF Awaits, Numbered
  <1>4. s' \in Lists /\ Numbered(s')
    BY <1>2, <1>3, YieldedTypes
  <1>. QED BY <1>1, <1>4, AfterTaskStep

-----------------------------------------------------------------------------
\* A preempting look, or a call that leaves the workers alone.
LEMMA PreemptStep ==
  ASSUME Typed, sched_preempt_tasks \/ UNCHANGED vars
  PROVE  Typed' /\ Quiet
  <1>1. UNCHANGED <<s, stop, nworkers, nwaiters, evq_waiting, pc, cur>>
    BY DEF sched_preempt_tasks, vars, workerVars
  <1>. QED BY <1>1 DEF Typed, Numbered, Quiet, Counters

\* A free id is taken, or the next of the buffer.
LEMMA AllocIs ==
  ASSUME NEW st \in Lists, CanAllocate(st), Numbered(st)
  PROVE  LET x == sched_task_alloc(st)
         IN  /\ x \in Lists /\ Allocated(st) \in Ids
             /\ x.active = st.active /\ x.task = st.task /\ Waiting(x, st)
             /\ x.ntasks + 1 = x.buf_idx - Len(x.free)
             /\ \/ /\ st.free # <<>> /\ x.free = Tail(st.free) /\ x.buf_idx = st.buf_idx
                   /\ Allocated(st) = Head(st.free)
                \/ /\ st.free = <<>> /\ x.free = st.free /\ x.buf_idx = st.buf_idx + 1
                   /\ Allocated(st) = st.buf_idx
  <1>. DEFINE x == sched_task_alloc(st)
              f == Tail(st.free)
              k == st.buf_idx + 1
  <1>1. st.free \in Seq(Ids) /\ st.buf_idx \in 0..MaxTasks /\ st.ntasks \in Int /\ MaxTasks \in Nat
    BY Finite DEF Lists
  <1>2. CASE st.free # <<>>
    <2>1. f \in Seq(Ids) /\ Head(st.free) \in Ids /\ Len(f) = Len(st.free) - 1 /\ Len(st.free) \in Nat
      BY <1>1, <1>2
    <2>2. x = [st EXCEPT !.free = f] /\ Allocated(st) = Head(st.free)
      BY <1>2 DEF sched_task_alloc, Allocated
    <2>. HIDE DEF x, f
    <2>3. x \in Lists
      BY <2>1, <2>2 DEF Lists
    <2>4. /\ x.active = st.active /\ x.task = st.task /\ Waiting(x, st) /\ x.free = f
          /\ x.buf_idx = st.buf_idx /\ x.ntasks = st.ntasks
      BY <2>2, ZenonT(30) DEF Lists, Waiting
    <2>5. x.ntasks + 1 = x.buf_idx - Len(x.free)
      BY <1>1, <2>1, <2>4 DEF Numbered
    <2>. QED BY <1>2, <2>1, <2>2, <2>3, <2>4, <2>5 DEF x, f
  <1>3. CASE st.free = <<>>
    <2>1. k \in 0..MaxTasks /\ st.buf_idx \in Ids /\ Len(st.free) = 0
      BY <1>1, <1>3 DEF CanAllocate, Ids
    <2>2. x = [st EXCEPT !.buf_idx = k] /\ Allocated(st) = st.buf_idx
      BY <1>3 DEF sched_task_alloc, Allocated
    <2>. HIDE DEF x, k
    <2>3. x \in Lists
      BY <2>1, <2>2 DEF Lists
    <2>4. /\ x.active = st.active /\ x.task = st.task /\ Waiting(x, st) /\ x.free = st.free
          /\ x.buf_idx = k /\ x.ntasks = st.ntasks
      BY <2>2, ZenonT(30) DEF Lists, Waiting
    <2>5. x.ntasks + 1 = x.buf_idx - Len(x.free)
      BY <1>1, <2>1, <2>4 DEF Numbered, k
    <2>. QED BY <1>3, <2>1, <2>2, <2>3, <2>4, <2>5 DEF x, k
  <1>. QED BY <1>2, <1>3

LEMMA PutIs ==
  ASSUME NEW st \in Lists, CanAllocate(st), Numbered(st)
  PROVE  LET t == Allocated(st)
             x == [Activate(sched_task_alloc(st), t) EXCEPT !.task[t] = NewTask, !.ntasks = @ + 1]
         IN  /\ x \in Lists /\ Numbered(x) /\ t \in Ids /\ x.active = Append(st.active, t) /\ Waiting(x, st)
             /\ x.task[t] = NewTask /\ \A u \in Ids \ {t} : x.task[u] = st.task[u]
             /\ \/ /\ st.free # <<>> /\ x.free = Tail(st.free) /\ x.buf_idx = st.buf_idx
                   /\ t = Head(st.free)
                \/ /\ st.free = <<>> /\ x.free = st.free /\ x.buf_idx = st.buf_idx + 1
                   /\ t = st.buf_idx
  <1>. DEFINE t == Allocated(st)
              z == sched_task_alloc(st)
              y == Activate(z, t)
              n == y.ntasks + 1
              a == [y.task EXCEPT ![t] = NewTask]
              x == [Activate(sched_task_alloc(st), t) EXCEPT !.task[t] = NewTask, !.ntasks = @ + 1]
  <1>1. /\ z \in Lists /\ t \in Ids /\ z.active = st.active /\ z.task = st.task /\ Waiting(z, st)
        /\ z.ntasks + 1 = z.buf_idx - Len(z.free)
        /\ \/ /\ st.free # <<>> /\ z.free = Tail(st.free) /\ z.buf_idx = st.buf_idx
              /\ t = Head(st.free)
           \/ /\ st.free = <<>> /\ z.free = st.free /\ z.buf_idx = st.buf_idx + 1
              /\ t = st.buf_idx
    BY AllocIs
  <1>2. /\ y \in Lists /\ y.active = Append(z.active, t) /\ Apart(y, z) /\ y.task = z.task /\ y.ev = z.ev
    BY <1>1, ActivateIs
  <1>3. NewTask \in Tasks /\ y.ntasks \in Int /\ y.task \in [Ids -> Tasks] /\ n \in Int
    BY <1>2 DEF NewTask, Tasks, Lists
  <1>4. a \in [Ids -> Tasks] /\ a[t] = NewTask /\ \A u \in Ids \ {t} : a[u] = y.task[u]
    BY <1>1, <1>3
  <1>5. x = [y EXCEPT !.task = a, !.ntasks = n]
    BY <1>2 DEF Lists
  <1>. HIDE DEF x, y, z, t, a, n
  <1>6. x \in Lists
    BY <1>2, <1>3, <1>4, <1>5 DEF Lists
  <1>7. /\ x.active = y.active /\ x.ev = y.ev /\ x.sync = y.sync /\ x.ready = y.ready
        /\ x.free = y.free /\ x.buf_idx = y.buf_idx /\ x.task = a /\ x.ntasks = n
    BY <1>2, <1>5, ZenonT(30) DEF Lists
  <1>8. Numbered(x) /\ Waiting(x, st)
    BY <1>1, <1>2, <1>7 DEF Numbered, Waiting, Apart, n
  <1>9. x.active = Append(st.active, t) /\ x.free = z.free /\ x.buf_idx = z.buf_idx
    BY <1>1, <1>2, <1>7 DEF Apart
  <1>10. x.task[t] = NewTask /\ \A u \in Ids \ {t} : x.task[u] = st.task[u]
    BY <1>1, <1>2, <1>4, <1>7
  <1>. QED BY <1>1, <1>6, <1>8, <1>9, <1>10 DEF x, t

LEMMA PutStep ==
  ASSUME Typed, NEW w \in Callers, sched_put(w)
  PROVE  Typed' /\ Quiet
  <1>1. /\ UNCHANGED <<stop, nworkers, nwaiters, evq_waiting, cur>> /\ CanAllocate(s)
        /\ (w # NoTask => pc[w] = "run") /\ w \in Workers \cup {NoTask}
        /\ \/ \E u \in {x \in Workers : pc[x] = "out"} :
                pc' = [x \in Workers |-> IF x = u THEN "start" ELSE IF x = w THEN "spawn" ELSE pc[x]]
           \/ pc' = pc \/ pc' \in Signalled(pc)
    BY DEF sched_put, workerVars, MayCall, Callers
  <1>2. s' \in Lists /\ Numbered(s')
    <2>. DEFINE t == Allocated(s)
                x == [Activate(sched_task_alloc(s), t) EXCEPT !.task[t] = NewTask, !.ntasks = @ + 1]
    <2>1. s' = x
      BY DEF sched_put
    <2>2. x \in Lists /\ Numbered(x)
      BY <1>1, PutIs DEF Typed
    <2>. HIDE DEF x
    <2>. QED BY <2>1, <2>2
  <1>3. /\ pc' \in [Workers -> Labels]
        /\ \A u \in Workers :
             \/ pc'[u] = pc[u]
             \/ pc[u] = "cond" /\ pc'[u] \in {"woken", "expired"}
             \/ pc[u] = "run" /\ pc'[u] \in AtTask
             \/ pc[u] = "out" /\ pc'[u] = "start"
    <2>0. pc \in [Workers -> Labels] /\ NoTask \notin Workers
      BY Finite DEF Typed
    <2>1. CASE pc' = pc \/ pc' \in Signalled(pc)
      BY <2>0, <2>1, SignalledIs
    <2>2. CASE \E u \in {x \in Workers : pc[x] = "out"} :
                pc' = [x \in Workers |-> IF x = u THEN "start" ELSE IF x = w THEN "spawn" ELSE pc[x]]
      BY <1>1, <2>0, <2>2 DEF Labels, AtTask
    <2>. QED BY <1>1, <2>1, <2>2
  <1>4. \A u \in Workers : pc'[u] \in AtTask <=> pc[u] \in AtTask
    BY <1>3 DEF AtTask
  <1>5. Quiet
    BY <1>1, <1>3 DEF Quiet, Counters, AtTask
  <1>. QED BY <1>1, <1>2, <1>3, <1>4, <1>5 DEF Typed

\* Task t is put in the active list, and is not suspended any more.
LEMMA ResumedIs ==
  ASSUME NEW st \in Lists, NEW t \in Ids
  PROVE  LET x == [Activate(st, t) EXCEPT !.task[t].suspended = FALSE]
         IN  /\ x \in Lists /\ Apart(x, st) /\ x.active = Append(st.active, t) /\ x.ev = st.ev
             /\ x.task[t].suspended = FALSE /\ x.task[t].terminate = st.task[t].terminate
             /\ x.task[t].ev_op = st.task[t].ev_op
             /\ \A u \in Ids \ {t} : x.task[u] = st.task[u]
  <1>. DEFINE y == Activate(st, t)
              r == [y.task[t] EXCEPT !.suspended = FALSE]
              z == [y EXCEPT !.task[t] = r]
              x == [y EXCEPT !.task[t].suspended = FALSE]
  <1>1. y \in Lists /\ y.active = Append(st.active, t) /\ Apart(y, st) /\ y.task = st.task /\ y.ev = st.ev
    BY ActivateIs
  <1>. HIDE DEF y
  <1>2. y.task \in [Ids -> Tasks] /\ y.task[t] \in Tasks
    BY <1>1 DEF Lists
  <1>3. r \in Tasks
    BY <1>2 DEF Tasks
  <1>4. r.suspended = FALSE /\ r.terminate = y.task[t].terminate /\ r.ev_op = y.task[t].ev_op
    BY <1>2, ZenonT(30) DEF Tasks
  <1>5. x = z
    BY <1>1, <1>2 DEF Lists
  <1>. HIDE DEF r
  <1>6. /\ z \in Lists /\ Apart(z, y) /\ z.active = y.active /\ z.ev = y.ev
        /\ z.task[t] = r /\ \A u \in Ids \ {t} : z.task[u] = y.task[u]
    <2>1. y \in Lists
      BY <1>1
    <2>. QED BY <1>3, <2>1, TaskIs
  <1>. HIDE DEF x, z
  <1>7. Apart(z, st)
    BY <1>1, <1>6 DEF Apart
  <1>. QED BY <1>1, <1>4, <1>5, <1>6, <1>7 DEF x, y

LEMMA ResumeStep ==
  ASSUME Typed, NEW w \in Callers, NEW t \in Ids, sched_resume(w, t)
  PROVE  Typed' /\ Quiet
  <1>. DEFINE x == [Activate(s, t) EXCEPT !.task[t].suspended = FALSE]
  <1>1. s' = x /\ UNCHANGED <<stop, nworkers, nwaiters, evq_waiting, pc, cur>>
    BY DEF sched_resume, workerVars
  <1>2. x \in Lists /\ Numbered(x)
    <2>1. s \in Lists /\ Numbered(s)
      BY DEF Typed
    <2>2. x \in Lists /\ Apart(x, s)
      BY <2>1, ResumedIs
    <2>. HIDE DEF x
    <2>. QED BY <2>1, <2>2 DEF Numbered, Apart
  <1>. HIDE DEF x
  <1>. QED BY <1>1, <1>2 DEF Typed, Quiet, Counters

LEMMA StopStep ==
  ASSUME Typed, NEW w \in Callers, sched_stop(w)
  PROVE  Typed' /\ Stopped
  <1>1. /\ pc' \in Signalled(pc) /\ stop' \in BOOLEAN /\ pc \in [Workers -> Labels]
        /\ UNCHANGED <<s, nworkers, nwaiters, evq_waiting, cur>>
    BY SchedAssumption DEF sched_stop, Typed
  <1>2. /\ pc' \in [Workers -> Labels]
        /\ \A u \in Workers : pc'[u] = pc[u] \/ (pc[u] = "cond" /\ pc'[u] = "woken")
        /\ (\E u \in Workers : pc[u] = "cond") => \E u \in Workers : pc[u] = "cond" /\ pc'[u] = "woken"
    BY <1>1, SignalledIs
  <1>3. \A u \in Workers : pc'[u] \in AtTask <=> pc[u] \in AtTask
    BY <1>2 DEF AtTask
  <1>4. Stopped
    BY <1>1, <1>2 DEF Stopped, Counters, Told, Stays
  <1>. QED BY <1>1, <1>2, <1>3, <1>4 DEF Typed

\* sched:terminate marks the task; a suspended one is put in the active list.
LEMMA MarkedIs ==
  ASSUME NEW st \in Lists, NEW t \in Ids
  PROVE  LET y == [st EXCEPT !.task[t].terminate = TRUE]
             x == IF st.task[t].suspended
                  THEN [Activate(y, t) EXCEPT !.task[t].suspended = FALSE] ELSE y
         IN  /\ x \in Lists /\ Apart(x, st) /\ x.ev = st.ev
             /\ x.active = IF st.task[t].suspended THEN Append(st.active, t) ELSE st.active
             /\ x.task[t].suspended = FALSE /\ x.task[t].ev_op = st.task[t].ev_op
             /\ \A u \in Ids \ {t} : x.task[u] = st.task[u]
  <1>. DEFINE r == [st.task[t] EXCEPT !.terminate = TRUE]
              z == [st EXCEPT !.task[t] = r]
              y == [st EXCEPT !.task[t].terminate = TRUE]
              v == [Activate(y, t) EXCEPT !.task[t].suspended = FALSE]
              x == IF st.task[t].suspended THEN v ELSE y
  <1>1. st.task \in [Ids -> Tasks] /\ st.task[t] \in Tasks /\ st.task[t].suspended \in BOOLEAN
    BY DEF Lists, Tasks
  <1>2. r \in Tasks
    BY <1>1 DEF Tasks
  <1>3. r.suspended = st.task[t].suspended /\ r.ev_op = st.task[t].ev_op
    BY <1>1, ZenonT(30) DEF Tasks
  <1>4. y = z
    BY <1>1 DEF Lists
  <1>. HIDE DEF r
  <1>5. /\ z \in Lists /\ Apart(z, st) /\ z.active = st.active /\ z.ev = st.ev
        /\ z.task[t] = r /\ \A u \in Ids \ {t} : z.task[u] = st.task[u]
    BY <1>2, TaskIs
  <1>. HIDE DEF y, z
  <1>6. /\ v \in Lists /\ Apart(v, y) /\ v.active = Append(y.active, t) /\ v.ev = y.ev
        /\ v.task[t].suspended = FALSE /\ v.task[t].ev_op = y.task[t].ev_op
        /\ \A u \in Ids \ {t} : v.task[u] = y.task[u]
    <2>1. y \in Lists
      BY <1>4, <1>5
    <2>. QED BY <2>1, ResumedIs
  <1>. HIDE DEF v
  <1>7. CASE st.task[t].suspended
    <2>1. x = v /\ Apart(v, st)
      BY <1>4, <1>5, <1>6, <1>7 DEF Apart
    <2>2. /\ v.active = Append(st.active, t) /\ v.ev = st.ev /\ v.task[t].ev_op = st.task[t].ev_op
          /\ \A u \in Ids \ {t} : v.task[u] = st.task[u]
      BY <1>3, <1>4, <1>5, <1>6
    <2>3. v \in Lists /\ v.task[t].suspended = FALSE
      BY <1>6
    <2>4. x = v
      BY <1>7
    <2>. HIDE DEF x
    <2>. QED BY <1>7, <2>1, <2>2, <2>3, <2>4 DEF x, v, y
  <1>8. CASE ~st.task[t].suspended
    <2>1. x = y
      BY <1>8
    <2>. HIDE DEF x
    <2>. QED BY <1>1, <1>3, <1>4, <1>5, <1>8, <2>1 DEF x, v, y
  <1>. QED BY <1>7, <1>8

LEMMA SchedDelIs ==
  ASSUME NEW st \in Lists, NEW e \in Slots
  PROVE  LET x == sys_evq_sched_del(st, e)
         IN  /\ x \in Lists /\ x.free = st.free /\ x.ntasks = st.ntasks /\ x.buf_idx = st.buf_idx
             /\ x.sync = st.sync /\ x.active = st.active /\ x.task = st.task
             /\ \A d \in Slots \ {e} : x.ev[d] = st.ev[d]
             /\ \/ /\ st.ev[e].state = "op" /\ x.ev[e].state = "op" /\ x.ev[e].task = NoTask
                   /\ x.ready = st.ready
                \/ /\ st.ev[e].state = "live" /\ x.ev[e].state = "ready" /\ x.ev[e].task = NoTask
                   /\ x.ready = <<e>> \o st.ready
                \/ st.ev[e].state \notin {"op", "live"} /\ x = st
  <1>. DEFINE x == sys_evq_sched_del(st, e)
  <1>0. st.ev \in [Slots -> Events] /\ st.ev[e] \in Events /\ st.ready \in Seq(Slots)
    BY DEF Lists
  <1>1. CASE st.ev[e].state = "op"
    <2>. DEFINE p == [st.ev[e] EXCEPT !.task = NoTask]
                y == [st EXCEPT !.ev[e] = p]
    <2>1. p \in Events /\ p.state = "op" /\ p.task = NoTask
      BY <1>0, <1>1 DEF Events
    <2>2. x = y
      BY <1>0, <1>1 DEF sys_evq_sched_del, Lists
    <2>. HIDE DEF p
    <2>3. /\ y \in Lists /\ Apart(y, st) /\ y.active = st.active /\ y.task = st.task
          /\ y.ev[e] = p /\ \A d \in Slots \ {e} : y.ev[d] = st.ev[d]
      BY <2>1, EventIs
    <2>. HIDE DEF y, x
    <2>. QED BY <1>1, <2>1, <2>2, <2>3 DEF Apart, x
  <1>2. CASE st.ev[e].state = "live"
    <2>. DEFINE p == [state |-> "ready", task |-> NoTask]
                b == [st.ev EXCEPT ![e] = p]
                q == <<e>> \o st.ready
    <2>1. p \in Events /\ p.state = "ready" /\ p.task = NoTask
      BY DEF Events
    <2>2. q \in Seq(Slots)
      <3>1. <<e>> \in Seq(Slots)
        OBVIOUS
      <3>. QED BY <1>0, <3>1
    <2>3. x = [st EXCEPT !.ev[e] = p, !.ready = q]
      BY <1>2 DEF sys_evq_sched_del
    <2>. HIDE DEF p, q
    <2>4. b \in [Slots -> Events] /\ b[e] = p /\ \A d \in Slots \ {e} : b[d] = st.ev[d]
      BY <1>0, <2>1
    <2>5. x = [st EXCEPT !.ev = b, !.ready = q]
      <3>. HIDE DEF x
      <3>. QED BY <2>3 DEF Lists
    <2>. HIDE DEF x, b
    <2>6. x \in Lists
      BY <2>2, <2>4, <2>5 DEF Lists
    <2>7. /\ x.free = st.free /\ x.ntasks = st.ntasks /\ x.buf_idx = st.buf_idx
          /\ x.sync = st.sync /\ x.active = st.active /\ x.task = st.task /\ x.ev = b /\ x.ready = q
      BY <2>5, ZenonT(30) DEF Lists
    <2>. QED BY <1>2, <2>1, <2>4, <2>6, <2>7 DEF x, q
  <1>3. CASE st.ev[e].state \notin {"op", "live"}
    <2>1. x = st
      BY <1>3 DEF sys_evq_sched_del
    <2>. HIDE DEF x
    <2>. QED BY <1>3, <2>1 DEF x
  <1>. QED BY <1>1, <1>2, <1>3

\* What sched:terminate does to task t and its event.
Terminated(x, t) ==
    /\ x \in Lists /\ x.free = s.free /\ x.ntasks = s.ntasks /\ x.buf_idx = s.buf_idx /\ x.sync = s.sync
    /\ x.active = IF s.task[t].suspended THEN Append(s.active, t) ELSE s.active
    /\ x.task[t].suspended = FALSE /\ x.task[t].ev_op = NoTask
    /\ \A u \in Ids \ {t} : x.task[u] = s.task[u]
    /\ LET e == s.task[t].ev_op IN
       \/ e = NoTask /\ x.ready = s.ready /\ x.ev = s.ev
       \/ /\ e \in Slots /\ \A d \in Slots \ {e} : x.ev[d] = s.ev[d]
          /\ \/ s.ev[e].state = "op" /\ x.ev[e].state = "op" /\ x.ev[e].task = NoTask /\ x.ready = s.ready
             \/ /\ s.ev[e].state = "live" /\ x.ev[e].state = "ready" /\ x.ev[e].task = NoTask
                /\ x.ready = <<e>> \o s.ready
             \/ s.ev[e].state \notin {"op", "live"} /\ x.ev[e] = s.ev[e] /\ x.ready = s.ready

LEMMA UnlinkedIs ==
  ASSUME NEW st \in Lists, NEW t \in Ids
  PROVE  LET x == [st EXCEPT !.task[t].ev_op = NoTask, !.task[t].ev_added = FALSE]
         IN  /\ x \in Lists /\ Apart(x, st) /\ x.active = st.active /\ x.ev = st.ev
             /\ x.task[t].suspended = st.task[t].suspended /\ x.task[t].ev_op = NoTask
             /\ \A u \in Ids \ {t} : x.task[u] = st.task[u]
  <1>. DEFINE r == [st.task[t] EXCEPT !.ev_op = NoTask, !.ev_added = FALSE]
              y == [st EXCEPT !.task[t] = r]
              x == [st EXCEPT !.task[t].ev_op = NoTask, !.task[t].ev_added = FALSE]
  <1>1. st.task \in [Ids -> Tasks] /\ st.task[t] \in Tasks
    BY DEF Lists
  <1>2. r \in Tasks
    BY <1>1 DEF Tasks
  <1>3. r.suspended = st.task[t].suspended /\ r.ev_op = NoTask
    BY <1>1, ZenonT(30) DEF Tasks
  <1>4. x = y
    BY <1>1 DEF Lists
  <1>. HIDE DEF r
  <1>5. /\ y \in Lists /\ Apart(y, st) /\ y.active = st.active /\ y.ev = st.ev
        /\ y.task[t] = r /\ \A u \in Ids \ {t} : y.task[u] = st.task[u]
    BY <1>2, TaskIs
  <1>. HIDE DEF x, y
  <1>. QED BY <1>3, <1>4, <1>5 DEF x

LEMMA TerminatedIs ==
  ASSUME s \in Lists, NEW w \in Callers, NEW t \in Ids, sched_terminate(w, t)
  PROVE  Terminated(s', t)
  <1>. DEFINE e == s.task[t].ev_op
              y == [s EXCEPT !.task[t].terminate = TRUE]
              x == IF s.task[t].suspended
                   THEN [Activate(y, t) EXCEPT !.task[t].suspended = FALSE] ELSE y
              z == sys_evq_sched_del(x, e)
              v == [z EXCEPT !.task[t].ev_op = NoTask, !.task[t].ev_added = FALSE]
  <1>1. s' = IF e = NoTask THEN x ELSE v
    BY DEF sched_terminate
  <1>2. /\ x \in Lists /\ Apart(x, s) /\ x.ev = s.ev
        /\ x.active = IF s.task[t].suspended THEN Append(s.active, t) ELSE s.active
        /\ x.task[t].suspended = FALSE /\ x.task[t].ev_op = e
        /\ \A u \in Ids \ {t} : x.task[u] = s.task[u]
    BY MarkedIs
  <1>. HIDE DEF x
  <1>3. CASE e = NoTask
    <2>1. s' = x
      BY <1>1, <1>3
    <2>. HIDE DEF v, z, e
    <2>. QED BY <1>2, <1>3, <2>1 DEF Terminated, Apart, e
  <1>4. CASE e # NoTask
    <2>1. e \in Slots
      BY <1>4 DEF Lists, Tasks, Slots
    <2>. HIDE DEF e
    <2>2. /\ z \in Lists /\ z.free = x.free /\ z.ntasks = x.ntasks /\ z.buf_idx = x.buf_idx
          /\ z.sync = x.sync /\ z.active = x.active /\ z.task = x.task
          /\ \A d \in Slots \ {e} : z.ev[d] = x.ev[d]
          /\ \/ x.ev[e].state = "op" /\ z.ev[e].state = "op" /\ z.ev[e].task = NoTask /\ z.ready = x.ready
             \/ /\ x.ev[e].state = "live" /\ z.ev[e].state = "ready" /\ z.ev[e].task = NoTask
                /\ z.ready = <<e>> \o x.ready
             \/ x.ev[e].state \notin {"op", "live"} /\ z = x
      BY <1>2, <2>1, SchedDelIs
    <2>. HIDE DEF z
    <2>3. /\ v \in Lists /\ Apart(v, z) /\ v.active = z.active /\ v.ev = z.ev
          /\ v.task[t].suspended = z.task[t].suspended /\ v.task[t].ev_op = NoTask
          /\ \A u \in Ids \ {t} : v.task[u] = z.task[u]
      BY <2>2, UnlinkedIs
    <2>4. s' = v
      BY <1>1, <1>4
    <2>. HIDE DEF v
    <2>5. \A u \in Ids \ {t} : v.task[u] = s.task[u]
      BY <1>2, <2>2, <2>3
    <2>6. /\ v.free = s.free /\ v.ntasks = s.ntasks /\ v.buf_idx = s.buf_idx /\ v.sync = s.sync
          /\ v.active = x.active /\ v.task[t].suspended = FALSE
      BY <1>2, <2>2, <2>3 DEF Apart
    <2>7. /\ \A d \in Slots \ {e} : v.ev[d] = s.ev[d]
          /\ \/ s.ev[e].state = "op" /\ v.ev[e].state = "op" /\ v.ev[e].task = NoTask /\ v.ready = s.ready
             \/ /\ s.ev[e].state = "live" /\ v.ev[e].state = "ready" /\ v.ev[e].task = NoTask
                /\ v.ready = <<e>> \o s.ready
             \/ s.ev[e].state \notin {"op", "live"} /\ v.ev[e] = s.ev[e] /\ v.ready = s.ready
      BY <1>2, <2>2, <2>3 DEF Apart
    <2>. QED BY <1>2, <2>1, <2>3, <2>4, <2>5, <2>6, <2>7 DEF Terminated, e
  <1>. QED BY <1>3, <1>4

LEMMA TerminateStep ==
  ASSUME Typed, NEW w \in Callers, NEW t \in Ids, sched_terminate(w, t)
  PROVE  Typed' /\ Quiet
  <1>1. UNCHANGED <<stop, nworkers, nwaiters, evq_waiting, pc, cur>>
    BY DEF sched_terminate, workerVars
  <1>2. s' \in Lists /\ Numbered(s')
    BY TerminatedIs DEF Typed, Numbered, Terminated
  <1>. QED BY <1>1, <1>2 DEF Typed, Quiet, Counters

LEMMA TypedStep ==
  ASSUME Typed, [Next]_vars
  PROVE  Typed' /\ Kinds
  <1>1. ASSUME NEW w \in Workers, sched_loop(w) PROVE Typed' /\ Kinds
    BY <1>1, LoopStep DEF Kinds
  <1>2. ASSUME NEW w \in Workers, WorkerStep(w) PROVE Typed' /\ Kinds
    BY <1>2, StopLeaveStep, EvqStep, GoWaitStep, DropStep, RunStep DEF Kinds, WorkerStep
  <1>3. ASSUME NEW w \in Workers, TaskStep(w) PROVE Typed' /\ Kinds
    BY <1>3, EndStep, PlainQuietStep, EventAddStep DEF Kinds, TaskStep
  <1>4. ASSUME NEW w \in Workers, EvqReturns(w) \/ EvqOwnEvent(w) \/ EvqFails(w) PROVE Typed' /\ Kinds
    BY <1>4, EvqStep, EvqFailsStep DEF Kinds
  <1>5. ASSUME NEW w \in Workers,
               \/ Woken(w) \/ Unblock(w) \/ Spurious(w) \/ TimesOut(w) \/ TimeoutLeave(w)
               \/ CheckFails(w) \/ EndsBlocked(w)
        PROVE  Typed' /\ Kinds
    BY <1>5, WokenStep, PlainQuietStep, TimeoutLeaveStep, CheckFailsStep DEF Kinds
  <1>6. ASSUME NEW w \in Callers, Call(w) PROVE Typed' /\ Kinds
    BY <1>6, PutStep, StopStep, ResumeStep, TerminateStep DEF Kinds, Call
  <1>7. CASE sched_preempt_tasks \/ UNCHANGED vars
    BY <1>7, PreemptStep DEF Kinds
  <1>. QED BY <1>1, <1>2, <1>3, <1>4, <1>5, <1>6, <1>7 DEF Next

-----------------------------------------------------------------------------
(***************************************************************************)
(* The counters, and who looks after the event queue.                      *)
(***************************************************************************)
WorkL == {"top", "run", "blocked", "spawn", "cond", "woken", "expired", "evq",
          "lost", "lost_evq", "lost_task"}
WaitL == {"cond", "woken", "expired"}
EvqL == {"evq", "lost_evq"}

In(L, p) == {w \in Workers : p[w] \in L}
Bit(b) == IF b THEN 1 ELSE 0

Counted ==
    /\ nworkers = Cardinality(In(WorkL, pc)) /\ nwaiters = Cardinality(In(WaitL, pc))
    /\ Bit(evq_waiting) = Cardinality(In(EvqL, pc))

\* While a worker waits on sched->cond, another one is awake or in the queue; once the
\* workers are to stop, one that will see it is awake; or else some worker is lost.
Attended ==
    (\E u \in Workers : pc[u] = "cond") =>
        IF stop THEN \E u \in Workers : pc[u] \in {"woken", "top"} \cup LostLabels
        ELSE HasEvq => \E u \in Workers : pc[u] \in WorkL \ {"cond"}

Manned == Counted /\ Attended

LEMMA InFinite ==
  ASSUME NEW L, NEW p
  PROVE  IsFiniteSet(In(L, p)) /\ Cardinality(In(L, p)) \in Nat
  <1>1. In(L, p) \subseteq Workers
    BY DEF In
  <1>2. IsFiniteSet(In(L, p))
    BY <1>1, Finite, FS_Subset
  <1>. QED BY <1>2, FS_CardinalityType

\* Only w enters L or leaves it.
LEMMA InMove ==
  ASSUME NEW L, NEW p, NEW q, NEW w \in Workers,
         \A u \in Workers \ {w} : q[u] \in L <=> p[u] \in L
  PROVE  Cardinality(In(L, q)) = Cardinality(In(L, p)) + Bit(q[w] \in L) - Bit(p[w] \in L)
  <1>1. Cardinality(In(L, p)) \in Nat /\ IsFiniteSet(In(L, p))
    BY InFinite
  <1>2. CASE p[w] \in L /\ q[w] \notin L
    <2>1. In(L, q) = In(L, p) \ {w} /\ w \in In(L, p)
      BY <1>2 DEF In
    <2>2. Cardinality(In(L, q)) = Cardinality(In(L, p)) - 1
      BY <1>1, <2>1, FS_RemoveElement
    <2>. QED BY <1>1, <1>2, <2>2 DEF Bit
  <1>3. CASE p[w] \notin L /\ q[w] \in L
    <2>1. In(L, q) = In(L, p) \cup {w} /\ w \notin In(L, p)
      BY <1>3 DEF In
    <2>2. Cardinality(In(L, q)) = Cardinality(In(L, p)) + 1
      BY <1>1, <2>1, FS_AddElement
    <2>. QED BY <1>1, <1>3, <2>2 DEF Bit
  <1>4. CASE p[w] \in L <=> q[w] \in L
    <2>1. In(L, q) = In(L, p)
      BY <1>4 DEF In
    <2>. QED BY <1>1, <1>4, <2>1 DEF Bit
  <1>. QED BY <1>2, <1>3, <1>4

\* A worker other than w is at work or in the queue, when the counters say so.
LEMMA SomeBusy ==
  ASSUME Counted, NEW w \in Workers, pc[w] \in WorkL,
         nwaiters # nworkers - Bit(pc[w] \notin WaitL)
  PROVE  \E u \in Workers \ {w} : pc[u] \in WorkL \ WaitL
  <1>. SUFFICES ASSUME \A u \in Workers \ {w} : pc[u] \in WorkL => pc[u] \in WaitL
                PROVE  FALSE
    OBVIOUS
  <1>1. \A u \in Workers \ {w} : pc[u] \in WorkL <=> pc[u] \in WaitL
    BY DEF WorkL, WaitL
  <1>2. IsFiniteSet(In(WaitL, pc)) /\ Cardinality(In(WaitL, pc)) \in Nat
    BY InFinite
  <1>3. CASE pc[w] \in WaitL
    <2>1. In(WorkL, pc) = In(WaitL, pc)
      BY <1>1, <1>3 DEF In
    <2>. QED BY <1>2, <1>3, <2>1 DEF Counted, Bit
  <1>4. CASE pc[w] \notin WaitL
    <2>1. In(WorkL, pc) = In(WaitL, pc) \cup {w} /\ w \notin In(WaitL, pc)
      BY <1>1, <1>4 DEF In
    <2>2. Cardinality(In(WorkL, pc)) = Cardinality(In(WaitL, pc)) + 1
      BY <1>2, <2>1, FS_AddElement
    <2>. QED BY <1>2, <1>4, <2>2 DEF Counted, Bit
  <1>. QED BY <1>3, <1>4

LEMMA InQueue ==
  ASSUME Counted, evq_waiting
  PROVE  \E u \in Workers : pc[u] \in EvqL
  <1>1. Cardinality(In(EvqL, pc)) = 1
    BY DEF Counted, Bit
  <1>2. In(EvqL, pc) # {}
    BY <1>1, FS_EmptySet
  <1>. QED BY <1>2 DEF In

LEMMA QuietCounted ==
  ASSUME Manned, Quiet
  PROVE  Manned'
  <1>1. \A u \in Workers : /\ pc'[u] \in WorkL <=> pc[u] \in WorkL
                           /\ pc'[u] \in WaitL <=> pc[u] \in WaitL
                           /\ pc'[u] \in EvqL <=> pc[u] \in EvqL
    BY DEF Quiet, AtTask, WorkL, WaitL, EvqL
  <1>2. In(WorkL, pc') = In(WorkL, pc) /\ In(WaitL, pc') = In(WaitL, pc) /\ In(EvqL, pc') = In(EvqL, pc)
    BY <1>1 DEF In
  <1>3. Counted'
    BY <1>2 DEF Manned, Counted, Quiet, Counters
  <1>4. Attended'
    <2>. SUFFICES ASSUME NEW v \in Workers, pc'[v] = "cond" PROVE
             IF stop THEN \E u \in Workers : pc'[u] \in {"woken", "top"} \cup LostLabels
             ELSE HasEvq => \E u \in Workers : pc'[u] \in WorkL \ {"cond"}
      BY DEF Attended, Quiet
    <2>1. pc[v] = "cond"
      BY DEF Quiet, AtTask
    <2>2. CASE stop
      <3>1. PICK u \in Workers : pc[u] \in {"woken", "top"} \cup LostLabels
        BY <2>1, <2>2 DEF Manned, Attended
      <3>2. pc'[u] = pc[u]
        BY <2>2, <3>1 DEF Quiet, LostLabels
      <3>. QED BY <2>2, <3>1, <3>2
    <2>3. CASE ~stop /\ HasEvq
      <3>1. PICK u \in Workers : pc[u] \in WorkL \ {"cond"}
        BY <2>1, <2>3 DEF Manned, Attended
      <3>2. pc'[u] \in WorkL \ {"cond"}
        BY <3>1 DEF Quiet, WorkL, AtTask
      <3>. QED BY <2>3, <3>2
    <2>. QED BY <2>2, <2>3
  <1>. QED BY <1>3, <1>4 DEF Manned

LEMMA StoppedCounted ==
  ASSUME Manned, Stopped
  PROVE  Manned'
  <1>1. \A u \in Workers : /\ pc'[u] \in WorkL <=> pc[u] \in WorkL
                           /\ pc'[u] \in WaitL <=> pc[u] \in WaitL
                           /\ pc'[u] \in EvqL <=> pc[u] \in EvqL
    BY DEF Stopped, Stays, WorkL, WaitL, EvqL
  <1>2. In(WorkL, pc') = In(WorkL, pc) /\ In(WaitL, pc') = In(WaitL, pc) /\ In(EvqL, pc') = In(EvqL, pc)
    BY <1>1 DEF In
  <1>3. Counted'
    BY <1>2 DEF Manned, Counted, Stopped, Counters
  <1>4. Attended'
    BY DEF Attended, Stopped, Told, Stays, WorkL
  <1>. QED BY <1>3, <1>4 DEF Manned

\* The counters follow a worker that moves from a label to another.
LEMMA CountMove ==
  ASSUME Counted, NEW w \in Workers,
         \A u \in Workers \ {w} : /\ pc'[u] \in WorkL <=> pc[u] \in WorkL
                                  /\ pc'[u] \in WaitL <=> pc[u] \in WaitL
                                  /\ pc'[u] \in EvqL <=> pc[u] \in EvqL,
         nworkers' = nworkers + Bit(pc'[w] \in WorkL) - Bit(pc[w] \in WorkL),
         nwaiters' = nwaiters + Bit(pc'[w] \in WaitL) - Bit(pc[w] \in WaitL),
         Bit(evq_waiting') = Bit(evq_waiting) + Bit(pc'[w] \in EvqL) - Bit(pc[w] \in EvqL)
  PROVE  Counted'
  <1>1. /\ Cardinality(In(WorkL, pc')) = Cardinality(In(WorkL, pc)) + Bit(pc'[w] \in WorkL) - Bit(pc[w] \in WorkL)
        /\ Cardinality(In(WaitL, pc')) = Cardinality(In(WaitL, pc)) + Bit(pc'[w] \in WaitL) - Bit(pc[w] \in WaitL)
        /\ Cardinality(In(EvqL, pc')) = Cardinality(In(EvqL, pc)) + Bit(pc'[w] \in EvqL) - Bit(pc[w] \in EvqL)
    BY InMove
  <1>. QED BY <1>1 DEF Counted

LEMMA CountTypes ==
  ASSUME Counted
  PROVE  nworkers \in Nat /\ nwaiters \in Nat
  BY InFinite DEF Counted

LEMMA StayLabels ==
  ASSUME NEW w \in Workers, OthersStay(w)
  PROVE  \A u \in Workers \ {w} : /\ pc'[u] \in WorkL <=> pc[u] \in WorkL
                                  /\ pc'[u] \in WaitL <=> pc[u] \in WaitL
                                  /\ pc'[u] \in EvqL <=> pc[u] \in EvqL
  BY DEF OthersStay, Stays, WorkL, WaitL, EvqL

\* Only w moves.
LEMMA GoStays ==
  ASSUME Typed, NEW w \in Workers, NEW l, pc' = Go(w, l)
  PROVE  pc'[w] = l /\ OthersStay(w)
  BY DEF Typed, Go, OthersStay, Stays

LEMMA EntersManned ==
  ASSUME Manned, NEW w \in Workers, Enters(w)
  PROVE  Manned'
  <1>1. \A u \in Workers \ {w} : /\ pc'[u] \in WorkL <=> pc[u] \in WorkL
                                 /\ pc'[u] \in WaitL <=> pc[u] \in WaitL
                                 /\ pc'[u] \in EvqL <=> pc[u] \in EvqL
    BY DEF Enters, WorkL, WaitL, EvqL
  <1>2. /\ Bit(pc'[w] \in WorkL) = 1 /\ Bit(pc[w] \in WorkL) = 0 /\ Bit(pc'[w] \in WaitL) = 0
        /\ Bit(pc[w] \in WaitL) = 0 /\ Bit(pc'[w] \in EvqL) = 0 /\ Bit(pc[w] \in EvqL) = 0
    BY DEF Enters, WorkL, WaitL, EvqL, Bit
  <1>3. Counted'
    BY <1>1, <1>2, CountMove, CountTypes DEF Manned, Enters, Bit
  <1>4. Attended'
    BY DEF Attended, Enters, WorkL
  <1>. QED BY <1>3, <1>4 DEF Manned

LEMMA TurnsManned ==
  ASSUME Manned, NEW w \in Workers, Turns(w)
  PROVE  Manned'
  <1>1. /\ Bit(pc'[w] \in WorkL) = 1 /\ Bit(pc[w] \in WorkL) = 1 /\ Bit(pc'[w] \in WaitL) = 0
        /\ Bit(pc[w] \in WaitL) = 0 /\ Bit(pc'[w] \in EvqL) = Bit(evq_waiting')
    BY DEF Turns, WorkL, WaitL, EvqL, Bit
  <1>2. Bit(pc[w] \in EvqL) = Bit(evq_waiting)
    <2>1. CASE pc[w] = "evq"
      <3>1. w \in In(EvqL, pc)
        BY <2>1 DEF In, EvqL
      <3>2. Cardinality(In(EvqL, pc)) # 0
        BY <3>1, InFinite, FS_EmptySet
      <3>. QED BY <2>1, <3>2 DEF Manned, Counted, Bit, EvqL
    <2>2. CASE pc[w] = "top" /\ Polls
      BY <2>2 DEF Polls, Bit, EvqL
    <2>. QED BY <2>1, <2>2 DEF Turns
  <1>3. Counted'
    <2>1. Bit(evq_waiting) \in Int /\ Bit(evq_waiting') \in Int
      BY DEF Bit
    <2>2. Bit(evq_waiting') = Bit(evq_waiting) + Bit(pc'[w] \in EvqL) - Bit(pc[w] \in EvqL)
      BY <1>1, <1>2, <2>1
    <2>3. /\ nworkers' = nworkers + Bit(pc'[w] \in WorkL) - Bit(pc[w] \in WorkL)
          /\ nwaiters' = nwaiters + Bit(pc'[w] \in WaitL) - Bit(pc[w] \in WaitL)
      BY <1>1, CountTypes DEF Manned, Turns
    <2>. QED BY <2>2, <2>3, StayLabels, CountMove DEF Manned, Turns
  <1>4. Attended'
    BY DEF Manned, Attended, Turns, OthersStay, Stays, WorkL, LostLabels
  <1>. QED BY <1>3, <1>4 DEF Manned

LEMMA WaitsManned ==
  ASSUME Typed, Manned, NEW w \in Workers, Waits(w)
  PROVE  Manned'
  <1>0. pc'[w] = "cond" /\ OthersStay(w)
    BY GoStays DEF Waits
  <1>1. /\ Bit(pc'[w] \in WorkL) = 1 /\ Bit(pc[w] \in WorkL) = 1 /\ Bit(pc'[w] \in WaitL) = 1
        /\ Bit(pc[w] \in WaitL) = 0 /\ Bit(pc'[w] \in EvqL) = 0 /\ Bit(pc[w] \in EvqL) = 0
    BY <1>0 DEF Waits, WorkL, WaitL, EvqL, Bit
  <1>3. Counted'
    BY <1>0, <1>1, StayLabels, CountMove, CountTypes DEF Manned, Waits, Bit
  <1>4. Attended'
    <2>. SUFFICES ASSUME HasEvq PROVE \E u \in Workers \ {w} : pc[u] \in WorkL \ {"cond"}
      BY <1>0 DEF Attended, Waits, OthersStay, Stays, WorkL
    <2>1. evq_waiting \/ nwaiters # nworkers - 1
      BY DEF Waits, Polls
    <2>2. CASE evq_waiting
      BY <2>2, InQueue DEF Manned, Waits, WorkL, EvqL
    <2>3. CASE nwaiters # nworkers - 1
      <3>1. pc[w] \in WorkL /\ Bit(pc[w] \notin WaitL) = 1
        BY DEF Waits, WorkL, WaitL, Bit
      <3>2. \E u \in Workers \ {w} : pc[u] \in WorkL \ WaitL
        BY <2>3, <3>1, SomeBusy DEF Manned
      <3>. QED BY <3>2 DEF WaitL
    <2>. QED BY <2>1, <2>2, <2>3
  <1>. QED BY <1>3, <1>4 DEF Manned

LEMMA WakesManned ==
  ASSUME Typed, Manned, NEW w \in Workers, Wakes(w)
  PROVE  Manned'
  <1>0. pc'[w] = "top" /\ OthersStay(w)
    BY GoStays DEF Wakes
  <1>1. /\ Bit(pc'[w] \in WorkL) = 1 /\ Bit(pc[w] \in WorkL) = 1 /\ Bit(pc'[w] \in WaitL) = 0
        /\ Bit(pc[w] \in WaitL) = 1 /\ Bit(pc'[w] \in EvqL) = 0 /\ Bit(pc[w] \in EvqL) = 0
    BY <1>0 DEF Wakes, WorkL, WaitL, EvqL, Bit
  <1>3. Counted'
    BY <1>0, <1>1, StayLabels, CountMove, CountTypes DEF Manned, Wakes, Bit
  <1>4. Attended'
    BY <1>0 DEF Attended, WorkL
  <1>. QED BY <1>3, <1>4 DEF Manned

\* When a worker leaves without telling anyone, another one is there.
LEMMA LeftAttended ==
  ASSUME Manned, NEW w \in Workers, pc[w] \in WorkL \ {"cond"}, OthersStay(w), pc'[w] \in {"out", "failed"},
         UNCHANGED stop, stop /\ pc[w] \in {"top", "woken"} => Told,
         (~stop /\ ~evq_waiting /\ HasEvq /\ nwaiters = nworkers - Bit(pc[w] \notin WaitL)) => Told,
         pc[w] \notin EvqL \cup LostLabels
  PROVE  Attended'
  <1>. SUFFICES ASSUME NEW v \in Workers, pc'[v] = "cond"
                PROVE  IF stop THEN \E u \in Workers : pc'[u] \in {"woken", "top"} \cup LostLabels
                       ELSE HasEvq => \E u \in Workers : pc'[u] \in WorkL \ {"cond"}
    BY DEF Attended
  <1>1. v # w /\ pc[v] = "cond"
    BY DEF OthersStay, Stays
  <1>2. CASE Told
    BY <1>1, <1>2 DEF Told, WorkL
  <1>3. CASE stop /\ ~Told
    <2>1. PICK u \in Workers : pc[u] \in {"woken", "top"} \cup LostLabels
      BY <1>1, <1>3 DEF Manned, Attended
    <2>2. u # w
      BY <1>3, <2>1
    <2>3. pc'[u] = pc[u]
      BY <2>1, <2>2 DEF OthersStay, Stays, LostLabels
    <2>. QED BY <1>3, <2>1, <2>3
  <1>4. CASE ~stop /\ HasEvq /\ ~Told
    <2>1. CASE evq_waiting
      <3>1. PICK u \in Workers : pc[u] \in EvqL
        BY <2>1, InQueue DEF Manned
      <3>. QED BY <1>4, <3>1 DEF OthersStay, Stays, WorkL, EvqL
    <2>2. CASE ~evq_waiting
      <3>1. PICK u \in Workers \ {w} : pc[u] \in WorkL \ WaitL
        BY <1>4, <2>2, SomeBusy DEF Manned
      <3>. QED BY <1>4, <3>1 DEF OthersStay, Stays, WorkL, WaitL
    <2>. QED BY <2>1, <2>2
  <1>. QED BY <1>2, <1>3, <1>4

LEMMA LeavesManned ==
  ASSUME Manned, NEW w \in Workers, Leaves(w)
  PROVE  Manned'
  <1>1. /\ Bit(pc'[w] \in WorkL) = 0 /\ Bit(pc[w] \in WorkL) = 1 /\ Bit(pc'[w] \in WaitL) = 0
        /\ Bit(pc[w] \in WaitL) = 0 /\ Bit(pc'[w] \in EvqL) = 0 /\ Bit(pc[w] \in EvqL) = 0
        /\ Bit(pc[w] \notin WaitL) = 1 /\ pc[w] \in WorkL \ {"cond"} /\ pc[w] # "woken"
        /\ pc[w] \notin EvqL \cup LostLabels
    BY DEF Leaves, WorkL, WaitL, EvqL, Bit, LostLabels
  <1>3. Counted'
    BY <1>1, StayLabels, CountMove, CountTypes DEF Manned, Leaves, Bit
  <1>4. Attended'
    <2>1. /\ OthersStay(w) /\ pc'[w] \in {"out", "failed"} /\ UNCHANGED stop
          /\ stop /\ pc[w] \in {"top", "woken"} => Told
          /\ (~stop /\ ~evq_waiting /\ HasEvq /\ nwaiters = nworkers - Bit(pc[w] \notin WaitL)) => Told
      BY <1>1 DEF Leaves
    <2>. QED BY <1>1, <2>1, LeftAttended
  <1>. QED BY <1>3, <1>4 DEF Manned

LEMMA ExpiresManned ==
  ASSUME Manned, NEW w \in Workers, Expires(w)
  PROVE  Manned'
  <1>1. /\ Bit(pc'[w] \in WorkL) = 0 /\ Bit(pc[w] \in WorkL) = 1 /\ Bit(pc'[w] \in WaitL) = 0
        /\ Bit(pc[w] \in WaitL) = 1 /\ Bit(pc'[w] \in EvqL) = 0 /\ Bit(pc[w] \in EvqL) = 0
        /\ Bit(pc[w] \notin WaitL) = 0 /\ pc[w] \in WorkL \ {"cond"} /\ pc[w] \notin {"top", "woken"}
        /\ pc[w] \notin EvqL \cup LostLabels
    BY DEF Expires, WorkL, WaitL, EvqL, Bit, LostLabels
  <1>2. nworkers \in Nat /\ nwaiters \in Nat
    BY CountTypes DEF Manned
  <1>3. Counted'
    BY <1>1, <1>2, StayLabels, CountMove DEF Manned, Expires, Bit
  <1>4. Attended'
    <2>1. /\ OthersStay(w) /\ pc'[w] \in {"out", "failed"} /\ UNCHANGED stop
          /\ (~stop /\ ~evq_waiting /\ HasEvq /\ nwaiters = nworkers - Bit(pc[w] \notin WaitL)) => Told
      BY <1>1, <1>2 DEF Expires
    <2>. QED BY <1>1, <2>1, LeftAttended
  <1>. QED BY <1>3, <1>4 DEF Manned

LEMMA LosesManned ==
  ASSUME Typed, Manned, NEW w \in Workers, Loses(w)
  PROVE  Manned'
  <1>0. pc'[w] = "lost" /\ OthersStay(w)
    BY GoStays DEF Loses
  <1>1. /\ Bit(pc'[w] \in WorkL) = 1 /\ Bit(pc[w] \in WorkL) = 1 /\ Bit(pc'[w] \in WaitL) = 0
        /\ Bit(pc[w] \in WaitL) = 1 /\ Bit(pc'[w] \in EvqL) = 0 /\ Bit(pc[w] \in EvqL) = 0
    BY <1>0 DEF Loses, WorkL, WaitL, EvqL, Bit
  <1>2. Counted'
    BY <1>0, <1>1, StayLabels, CountMove, CountTypes DEF Manned, Loses, Bit
  <1>3. Attended'
    BY <1>0 DEF Attended, WorkL, LostLabels
  <1>. QED BY <1>2, <1>3 DEF Manned

LEMMA BreaksManned ==
  ASSUME Manned, NEW w \in Workers, Breaks(w)
  PROVE  Manned'
  <1>1. /\ Bit(pc'[w] \in WorkL) = 0 /\ Bit(pc[w] \in WorkL) = 1 /\ Bit(pc'[w] \in WaitL) = 0
        /\ Bit(pc[w] \in WaitL) = 0 /\ Bit(pc'[w] \in EvqL) = 0 /\ Bit(pc[w] \in EvqL) = 1
        /\ Bit(pc[w] \notin WaitL) = 1 /\ pc[w] \in WorkL
    BY DEF Breaks, WorkL, WaitL, EvqL, Bit
  <1>2. nworkers \in Nat /\ nwaiters \in Nat
    BY CountTypes DEF Manned
  <1>3. Bit(evq_waiting) = 1 /\ Bit(evq_waiting') = 0
    <2>1. w \in In(EvqL, pc)
      BY DEF In, EvqL, Breaks
    <2>2. Cardinality(In(EvqL, pc)) # 0
      BY <2>1, InFinite, FS_EmptySet
    <2>. QED BY <2>2 DEF Manned, Counted, Bit, Breaks
  <1>4. Counted'
    <2>1. /\ nworkers' = nworkers + Bit(pc'[w] \in WorkL) - Bit(pc[w] \in WorkL)
          /\ nwaiters' = nwaiters + Bit(pc'[w] \in WaitL) - Bit(pc[w] \in WaitL)
          /\ Bit(evq_waiting') = Bit(evq_waiting) + Bit(pc'[w] \in EvqL) - Bit(pc[w] \in EvqL)
      BY <1>1, <1>2, <1>3 DEF Breaks
    <2>. QED BY <2>1, StayLabels, CountMove DEF Manned, Breaks
  <1>5. Attended'
    <2>. SUFFICES ASSUME NEW v \in Workers, pc'[v] = "cond"
                  PROVE  IF stop' THEN \E u \in Workers : pc'[u] \in {"woken", "top"} \cup LostLabels
                         ELSE HasEvq => \E u \in Workers : pc'[u] \in WorkL \ {"cond"}
      BY DEF Attended
    <2>1. v # w /\ pc[v] = "cond" /\ stop' = stop
      BY DEF Breaks, OthersStay, Stays
    <2>2. CASE stop
      <3>1. PICK u \in Workers : pc[u] \in {"woken", "top"} \cup LostLabels
        BY <2>1, <2>2 DEF Manned, Attended
      <3>2. u # w /\ pc'[u] = pc[u]
        BY <3>1 DEF Breaks, OthersStay, Stays, LostLabels
      <3>. QED BY <2>1, <2>2, <3>1, <3>2
    <2>3. CASE ~stop /\ HasEvq /\ nwaiters = nworkers - 1
      BY <2>1, <2>3 DEF Breaks, Told, WorkL
    <2>4. CASE ~stop /\ HasEvq /\ nwaiters # nworkers - 1
      <3>1. PICK u \in Workers \ {w} : pc[u] \in WorkL \ WaitL
        BY <1>1, <2>4, SomeBusy DEF Manned
      <3>. QED BY <2>1, <2>4, <3>1 DEF Breaks, OthersStay, Stays, WorkL, WaitL
    <2>. QED BY <2>1, <2>2, <2>3, <2>4
  <1>. QED BY <1>4, <1>5 DEF Manned

LEMMA MannedStep ==
  ASSUME Typed, Manned, [Next]_vars
  PROVE  Manned'
  <1>1. Kinds
    BY TypedStep
  <1>. QED BY <1>1, QuietCounted, StoppedCounted, EntersManned, TurnsManned, WaitsManned, WakesManned,
              LeavesManned, ExpiresManned, LosesManned, BreaksManned DEF Kinds

-----------------------------------------------------------------------------
LEMMA TypedInit ==
  ASSUME Init
  PROVE  Typed
  <1>1. NewTask \in Tasks /\ NoEvent \in Events
    BY DEF NewTask, Tasks, NoEvent, Events
  <1>2. MaxTasks \in Nat /\ 0 \in 0..MaxTasks
    BY Finite
  <1>3. [t \in Ids |-> NewTask] \in [Ids -> Tasks] /\ [e \in Slots |-> NoEvent] \in [Slots -> Events]
    BY <1>1
  <1>4. <<>> \in Seq(Ids) /\ <<>> \in Seq(Slots) /\ 0 \in Int /\ Len(<<>>) = 0
    OBVIOUS
  <1>5. s \in Lists
    BY <1>2, <1>3, <1>4 DEF Init, Lists
  <1>6. Numbered(s)
    BY DEF Init, Numbered
  <1>. QED BY <1>5, <1>6 DEF Init, Typed, Labels, AtTask

LEMMA MannedInit ==
  ASSUME Init
  PROVE  Manned
  <1>1. In(WorkL, pc) = {} /\ In(WaitL, pc) = {} /\ In(EvqL, pc) = {}
    BY DEF Init, In, WorkL, WaitL, EvqL
  <1>2. Counted
    BY <1>1, FS_EmptySet DEF Init, Counted, Bit
  <1>3. Attended
    BY DEF Init, Attended
  <1>. QED BY <1>2, <1>3 DEF Manned

LEMMA WorkersInvariant == Spec => [](Typed /\ Manned)
  <1>1. Init => Typed /\ Manned
    BY TypedInit, MannedInit
  <1>2. Typed /\ Manned /\ [Next]_vars => (Typed /\ Manned)'
    BY TypedStep, MannedStep
  <1>. QED BY <1>1, <1>2, PTL DEF Spec

LEMMA CountIs ==
  ASSUME NEW L
  PROVE  Count(L) = Cardinality(In(L, pc)) /\ Count(L) \in Nat
  <1>1. Count(L) = Cardinality(In(L, pc))
    BY DEF Count, In
  <1>. QED BY <1>1, InFinite

LEMMA CountsFollow ==
  ASSUME Typed, Manned
  PROVE  CountsExact
  <1>1. /\ Count({"top", "run", "blocked", "spawn", "cond", "woken", "expired", "evq"} \cup LostLabels)
             = Cardinality(In(WorkL, pc))
        /\ Count({"cond", "woken", "expired"}) = Cardinality(In(WaitL, pc))
        /\ Count({"evq", "lost_evq"}) = Cardinality(In(EvqL, pc))
    <2>1. WorkL = {"top", "run", "blocked", "spawn", "cond", "woken", "expired", "evq"} \cup LostLabels
      BY DEF WorkL, LostLabels
    <2>. QED BY <2>1, CountIs DEF WaitL, EvqL
  <1>2. Count({"evq", "lost_evq"}) = Bit(evq_waiting) /\ evq_waiting \in BOOLEAN
    BY <1>1 DEF Typed, Manned, Counted
  <1>3. evq_waiting = (Count({"evq", "lost_evq"}) = 1) /\ Count({"evq", "lost_evq"}) <= 1
    BY <1>2 DEF Bit
  <1>4. /\ nworkers = Cardinality(In(WorkL, pc)) /\ nwaiters = Cardinality(In(WaitL, pc))
        /\ s.ntasks = s.buf_idx - Len(s.free)
    BY DEF Typed, Manned, Counted, Numbered
  <1>. HIDE DEF CountsExact
  <1>. QED BY <1>1, <1>3, <1>4 DEF CountsExact

\* The counters of the scheduler are exact, for any number of workers, whatever tasks and
\* outsiders do and however workers leave sched:loop: by its end, or through
\* sys_thread_check (thread_sched.c:370), which leaves them counted in nworkers for good.
\* Line 353 compares the counters to choose the worker that polls the event queue.
THEOREM CountsCorrect == Spec => []CountsExact
  <1>1. Typed /\ Manned => CountsExact
    BY CountsFollow
  <1>. QED BY <1>1, WorkersInvariant, PTL

LEMMA AttendedFollows ==
  ASSUME Typed, Manned
  PROVE  EvqAttended
  <1>. SUFFICES ASSUME HasEvq, ~stop, Count({"cond"}) > 0
                PROVE  Count({"cond"}) < nworkers
    BY DEF EvqAttended
  <1>. DEFINE A == In({"cond"}, pc)
              B == In(WorkL, pc)
  <1>1. Count({"cond"}) = Cardinality(A) /\ nworkers = Cardinality(B)
    BY CountIs DEF Manned, Counted
  <1>2. IsFiniteSet(A) /\ IsFiniteSet(B) /\ Cardinality(A) \in Nat /\ Cardinality(B) \in Nat
    BY InFinite
  <1>3. A # {}
    BY <1>1, FS_EmptySet
  <1>4. PICK u \in Workers : pc[u] \in WorkL \ {"cond"}
    BY <1>3 DEF Manned, Attended, In
  <1>5. A \subseteq B /\ u \in B /\ u \notin A
    BY <1>4 DEF In, WorkL
  <1>. HIDE DEF A, B
  <1>6. Cardinality(A) < Cardinality(B)
    BY <1>2, <1>5, FS_Subset
  <1>. QED BY <1>1, <1>6

\* Whoever leaves sched:loop through its end, times out, fails or meets an error of the
\* event queue: while workers wait and the scheduler is not stopped, one of them is awake
\* or looks after the event queue, so that events are not left to nobody
\* (thread_sched.c:445).  It holds as long as no worker was taken away by
\* sys_thread_check (Lost = {}), for which nobody takes over.
THEOREM AttendedCorrect == Spec => []EvqAttended
  <1>1. Typed /\ Manned => EvqAttended
    BY AttendedFollows
  <1>. QED BY <1>1, WorkersInvariant, PTL

-----------------------------------------------------------------------------
(***************************************************************************)
(* Where the tasks are, and the events they wait for.                      *)
(***************************************************************************)
\* No task is terminated by another thread while it runs, or between the occurrence of
\* its event and the event's callback.
Orderly == Terminates \cap {"running", "event ready"} = {}

\* The tasks of the workers.
Runs == {t \in Ids : \E w \in Workers : cur[w] = t}

\* Task t is in one place if it is known, and nowhere otherwise.
At(st, R, t) ==
    LET f == t \in ToSet(st.free)
        a == t \in ToSet(st.active)
        r == t \in R
        z == st.task[t].suspended
    IN  /\ (f \/ a \/ r \/ z) <=> t < st.buf_idx
        /\ ~(f /\ a) /\ ~(f /\ r) /\ ~(f /\ z) /\ ~(a /\ r) /\ ~(a /\ z) /\ ~(r /\ z)

Placed(st, R) ==
    /\ IsRepeatFree(st.free) /\ IsRepeatFree(st.active)
    /\ \A t \in Ids : At(st, R, t)

\* A task that waits for an event and the event's slot know each other.
Linked(st) ==
    /\ \A t \in Ids : st.task[t].ev_op # NoTask =>
         st.task[t].suspended /\ st.ev[st.task[t].ev_op].task = t
    /\ \A e \in Slots : st.ev[e].task # NoTask => st.task[st.ev[e].task].ev_op = e

\* Only ready events wait to be handled; no task waits for other ones that occurred.
Turning(st) ==
    /\ \A e \in ToSet(st.ready) : st.ev[e].state = "ready"
    /\ \A e \in Slots : (st.ev[e].state = "free" \/ (st.ev[e].state = "ready" /\ e \notin ToSet(st.ready)))
         => st.ev[e].task = NoTask

\* The pending calls, the ready events, and the slots that no task waits for.
Queued(st) ==
    /\ IsRepeatFree(st.sync)
    /\ \A e \in Slots : st.ev[e].state = "op" <=> e \in ToSet(st.sync)
    /\ Turning(st)

\* A worker's task is its own, and nobody has terminated it.
Held ==
    /\ \A v, w \in Workers : cur[v] = cur[w] /\ cur[v] # NoTask => v = w
    /\ \A t \in Runs : ~s.task[t].terminate

Tidy == Placed(s, Runs) /\ Linked(s) /\ Queued(s) /\ Held

LEMMA AppendSet ==
  ASSUME NEW S, NEW q \in Seq(S), NEW t \in S
  PROVE  /\ ToSet(Append(q, t)) = ToSet(q) \cup {t}
         /\ IsRepeatFree(q) /\ t \notin ToSet(q) => IsRepeatFree(Append(q, t))
  <1>. DEFINE n == Len(q)
              p == Append(q, t)
  <1>1. /\ n \in Nat /\ DOMAIN q = 1..n /\ DOMAIN p = 1..(n + 1)
        /\ p[n + 1] = t /\ \A i \in 1..n : p[i] = q[i]
    OBVIOUS
  <1>. HIDE DEF p, n
  <1>2. ToSet(p) = ToSet(q) \cup {t}
    BY <1>1 DEF ToSet
  <1>3. IsRepeatFree(q) /\ t \notin ToSet(q) => IsRepeatFree(p)
    BY <1>1 DEF IsRepeatFree, ToSet
  <1>. QED BY <1>2, <1>3 DEF p

LEMMA TailSet ==
  ASSUME NEW S, NEW q \in Seq(S), q # <<>>, IsRepeatFree(q)
  PROVE  /\ Head(q) \in ToSet(q) /\ ToSet(Tail(q)) = ToSet(q) \ {Head(q)}
         /\ IsRepeatFree(Tail(q))
  <1>. DEFINE n == Len(q)
              p == Tail(q)
  <1>1. /\ n \in Nat \ {0} /\ DOMAIN q = 1..n /\ DOMAIN p = 1..(n - 1)
        /\ Head(q) = q[1] /\ \A i \in 1..(n - 1) : p[i] = q[i + 1]
    OBVIOUS
  <1>. HIDE DEF p, n
  <1>2. Head(q) \in ToSet(q) /\ ToSet(p) \subseteq ToSet(q) \ {Head(q)}
    BY <1>1 DEF ToSet, IsRepeatFree
  <1>3. ASSUME NEW x \in ToSet(q) \ {Head(q)} PROVE x \in ToSet(p)
    <2>1. PICK i \in 1..n : x = q[i]
      BY <1>1 DEF ToSet
    <2>2. i - 1 \in 1..(n - 1) /\ p[i - 1] = x
      BY <1>1, <2>1
    <2>. QED BY <1>1, <2>2 DEF ToSet
  <1>4. IsRepeatFree(p)
    BY <1>1 DEF IsRepeatFree
  <1>. QED BY <1>2, <1>3, <1>4 DEF p

LEMMA ConcatSet ==
  ASSUME NEW S, NEW q \in Seq(S), NEW r \in Seq(S)
  PROVE  ToSet(q \o r) = ToSet(q) \cup ToSet(r)
  <1>. DEFINE m == Len(q)
              n == Len(r)
              p == q \o r
  <1>1. /\ m \in Nat /\ n \in Nat /\ DOMAIN q = 1..m /\ DOMAIN r = 1..n /\ DOMAIN p = 1..(m + n)
        /\ \A i \in 1..(m + n) : p[i] = IF i <= m THEN q[i] ELSE r[i - m]
    OBVIOUS
  <1>. HIDE DEF p, m, n
  <1>2. ASSUME NEW x \in ToSet(p) PROVE x \in ToSet(q) \cup ToSet(r)
    <2>1. PICK i \in 1..(m + n) : x = p[i]
      BY <1>1 DEF ToSet
    <2>2. (i \in 1..m /\ x = q[i]) \/ (i - m \in 1..n /\ x = r[i - m])
      BY <1>1, <2>1
    <2>. QED BY <1>1, <2>2 DEF ToSet
  <1>3. ToSet(q) \subseteq ToSet(p)
    BY <1>1 DEF ToSet
  <1>4. ASSUME NEW x \in ToSet(r) PROVE x \in ToSet(p)
    <2>1. PICK i \in 1..n : x = r[i]
      BY <1>1 DEF ToSet
    <2>2. i + m \in 1..(m + n) /\ p[i + m] = x
      BY <1>1, <2>1
    <2>. QED BY <1>1, <2>2 DEF ToSet
  <1>. QED BY <1>2, <1>3, <1>4 DEF p

LEMMA ConsSet ==
  ASSUME NEW S, NEW q \in Seq(S), NEW e \in S
  PROVE  /\ ToSet(<<e>> \o q) = ToSet(q) \cup {e}
         /\ IsRepeatFree(q) /\ e \notin ToSet(q) => IsRepeatFree(<<e>> \o q)
  <1>. DEFINE n == Len(q)
              p == <<e>> \o q
  <1>0. <<e>> \in Seq(S) /\ Len(<<e>>) = 1
    OBVIOUS
  <1>1. /\ n \in Nat /\ DOMAIN q = 1..n /\ DOMAIN p = 1..(n + 1)
        /\ \A i \in 1..(n + 1) : p[i] = IF i = 1 THEN e ELSE q[i - 1]
    BY <1>0
  <1>. HIDE DEF p, n
  <1>2. ToSet(p) \subseteq ToSet(q) \cup {e} /\ e \in ToSet(p)
    <2>1. \A i \in 1..(n + 1) : i # 1 => i - 1 \in 1..n
      BY <1>1
    <2>2. 1 \in 1..(n + 1)
      BY <1>1
    <2>3. \A i \in 1..(n + 1) : p[i] = e \/ \E j \in 1..n : p[i] = q[j]
      BY <1>1, <2>1
    <2>4. p[1] = e
      BY <1>1, <2>2
    <2>5. ToSet(p) = {p[i] : i \in 1..(n + 1)} /\ ToSet(q) = {q[i] : i \in 1..n}
      BY <1>1 DEF ToSet
    <2>6. e \in ToSet(p)
      BY <2>2, <2>4, <2>5
    <2>7. ToSet(p) \subseteq ToSet(q) \cup {e}
      BY <2>3, <2>5, ZenonT(30)
    <2>. QED BY <2>6, <2>7
  <1>3. ASSUME NEW x \in ToSet(q) PROVE x \in ToSet(p)
    <2>1. PICK i \in 1..n : x = q[i]
      BY <1>1 DEF ToSet
    <2>2. i + 1 \in 1..(n + 1) /\ p[i + 1] = x
      BY <1>1, <2>1
    <2>. QED BY <1>1, <2>2 DEF ToSet
  <1>4. ASSUME IsRepeatFree(q), e \notin ToSet(q) PROVE IsRepeatFree(p)
    <2>1. \A i \in 1..n : q[i] # e
      BY <1>1, <1>4 DEF ToSet
    <2>2. \A i, j \in 1..n : q[i] = q[j] => i = j
      BY <1>1, <1>4 DEF IsRepeatFree
    <2>3. ASSUME NEW i \in 1..(n + 1), NEW j \in 1..(n + 1), p[i] = p[j] PROVE i = j
      <3>1. (i # 1 => i - 1 \in 1..n) /\ (j # 1 => j - 1 \in 1..n)
        BY <1>1
      <3>2. p[i] = (IF i = 1 THEN e ELSE q[i - 1]) /\ p[j] = (IF j = 1 THEN e ELSE q[j - 1])
        BY <1>1
      <3>3. i # 1 /\ j # 1 => i - 1 = j - 1
        BY <2>2, <2>3, <3>1, <3>2
      <3>4. i = 1 <=> j = 1
        BY <2>1, <2>3, <3>1, <3>2
      <3>5. i \in Int /\ j \in Int
        BY <1>1
      <3>. QED BY <3>3, <3>4, <3>5
    <2>. QED BY <1>1, <2>3 DEF IsRepeatFree
  <1>. QED BY <1>2, <1>3, <1>4 DEF p

\* All that is said here depends on these fields only.
LEMMA SameFields ==
  ASSUME NEW x, NEW y, NEW R, x.free = y.free, x.active = y.active, x.buf_idx = y.buf_idx,
         x.task = y.task, x.ev = y.ev
  PROVE  /\ Placed(y, R) => Placed(x, R)
         /\ Linked(y) => Linked(x)
         /\ (x.sync = y.sync /\ x.ready = y.ready /\ Queued(y)) => Queued(x)
  BY DEF Placed, At, Linked, Queued, Turning

\* A call is made or an event is handled: its task stays or becomes active.
LEMMA StirPlaced ==
  ASSUME NEW st \in Lists, NEW x, NEW e \in Slots, Outcome(st, x, e), NEW R, Placed(st, R), Linked(st)
  PROVE  /\ Placed(x, R) /\ Linked(x)
         /\ \A u \in Ids : x.task[u].terminate = st.task[u].terminate
  <1>. DEFINE t == st.ev[e].task
  <1>0. /\ t \in Ids \cup {NoTask} /\ NoTask \notin Ids /\ NoTask \notin Slots /\ x \in Lists
        /\ x.free = st.free /\ x.buf_idx = st.buf_idx
        /\ x.active \in Seq(Ids) /\ st.active \in Seq(Ids)
    BY Finite DEF Lists, Events, Outcome, Apart, Slots
  <1>1. /\ \A d \in Slots \ {e} : x.ev[d] = st.ev[d]
        /\ \A u \in Ids \ {t} : x.task[u] = st.task[u]
    BY DEF Outcome
  <1>2. t # NoTask => t \in Ids /\ st.task[t].ev_op = e /\ st.task[t].suspended
    BY <1>0 DEF Linked
  <1>3. CASE t = NoTask
    <2>1. x.active = st.active /\ x.ev[e].task = NoTask /\ \A u \in Ids : x.task[u] = st.task[u]
      BY <1>0, <1>1, <1>3 DEF Outcome
    <2>2. Placed(x, R)
      BY <1>0, <2>1 DEF Placed, At
    <2>3. \A d \in Slots : x.ev[d].task = st.ev[d].task
      BY <1>1, <1>3, <2>1
    <2>4. \A u \in Ids : st.task[u].ev_op # NoTask => st.task[u].ev_op \in Slots
      BY DEF Lists, Tasks, Slots
    <2>5. \A d \in Slots : st.ev[d].task # NoTask => st.ev[d].task \in Ids
      BY DEF Lists, Events
    <2>6. Linked(x)
      BY <2>1, <2>3, <2>4, <2>5 DEF Linked
    <2>. QED BY <2>1, <2>2, <2>6
  <1>4. CASE t # NoTask /\ x.ev[e].task = t /\ x.active = st.active
             /\ Stirred(x, t, [st.task[t] EXCEPT !.ev_op = e])
    <2>1. st.task[t] \in Tasks /\ t \in Ids
      BY <1>2, <1>4 DEF Lists
    <2>. DEFINE r == [st.task[t] EXCEPT !.ev_op = e]
    <2>2. r.ev_op = e /\ r.suspended = st.task[t].suspended /\ r.terminate = st.task[t].terminate
      BY <2>1, ZenonT(30) DEF Tasks
    <2>. HIDE DEF r
    <2>3. /\ x.task[t].ev_op = e /\ x.task[t].suspended = st.task[t].suspended
          /\ x.task[t].terminate = st.task[t].terminate
      BY <1>4, <2>2 DEF Stirred, r
    <2>4. \A u \in Ids : /\ x.task[u].ev_op = st.task[u].ev_op /\ x.task[u].suspended = st.task[u].suspended
                         /\ x.task[u].terminate = st.task[u].terminate
      BY <1>1, <1>2, <1>4, <2>3
    <2>5. \A d \in Slots : x.ev[d].task = st.ev[d].task
      BY <1>1, <1>4
    <2>6. Placed(x, R)
      BY <1>0, <1>4, <2>4 DEF Placed, At
    <2>7. ASSUME NEW u \in Ids, x.task[u].ev_op # NoTask
          PROVE  x.task[u].suspended /\ x.ev[x.task[u].ev_op].task = u
      <3>1. st.task[u].ev_op \in Slots /\ st.ev[st.task[u].ev_op].task = u /\ st.task[u].suspended
        BY <2>4, <2>7 DEF Linked, Lists, Tasks, Slots
      <3>. QED BY <2>4, <2>5, <3>1
    <2>8. ASSUME NEW d \in Slots, x.ev[d].task # NoTask PROVE x.task[x.ev[d].task].ev_op = d
      <3>1. st.ev[d].task \in Ids /\ st.task[st.ev[d].task].ev_op = d
        BY <2>5, <2>8 DEF Linked, Lists, Events
      <3>. QED BY <2>4, <2>5, <3>1
    <2>. QED BY <2>4, <2>6, <2>7, <2>8 DEF Linked
  <1>5. CASE t # NoTask /\ x.ev[e].task = NoTask /\ x.active = Append(st.active, t)
             /\ Stirred(x, t, Freed(st.task[t]))
    <2>1. st.task[t] \in Tasks /\ t \in Ids
      BY <1>2, <1>5 DEF Lists
    <2>2. /\ x.task[t].ev_op = NoTask /\ x.task[t].suspended = FALSE
          /\ x.task[t].terminate = st.task[t].terminate
      BY <1>5, <2>1, FreedIs DEF Stirred
    <2>3. At(st, R, t) /\ t \notin ToSet(st.active)
      BY <1>2, <1>5, <2>1 DEF Placed, At
    <2>4. ToSet(x.active) = ToSet(st.active) \cup {t} /\ IsRepeatFree(x.active)
      BY <1>0, <1>5, <2>1, <2>3, AppendSet DEF Placed
    <2>5. \A u \in Ids : At(x, R, u)
      <3>1. At(x, R, t)
        <4>1. t < st.buf_idx /\ t \notin ToSet(st.free) /\ t \notin R
          BY <1>2, <1>5, <2>3 DEF At
        <4>. QED BY <1>0, <2>2, <2>4, <4>1 DEF At
      <3>2. ASSUME NEW u \in Ids \ {t} PROVE At(x, R, u)
        BY <1>0, <1>1, <2>4, <3>2 DEF At, Placed
      <3>. QED BY <3>1, <3>2
    <2>6. ASSUME NEW u \in Ids, x.task[u].ev_op # NoTask
          PROVE  x.task[u].suspended /\ x.ev[x.task[u].ev_op].task = u
      <3>1. u # t /\ x.task[u] = st.task[u]
        BY <1>1, <2>2, <2>6
      <3>2. st.task[u].ev_op \in Slots /\ st.ev[st.task[u].ev_op].task = u /\ st.task[u].suspended
        BY <2>6, <3>1 DEF Linked, Lists, Tasks, Slots
      <3>3. st.task[u].ev_op # e
        BY <3>1, <3>2
      <3>. QED BY <1>1, <3>1, <3>2, <3>3
    <2>7. ASSUME NEW d \in Slots, x.ev[d].task # NoTask PROVE x.task[x.ev[d].task].ev_op = d
      <3>1. d # e /\ x.ev[d] = st.ev[d]
        BY <1>1, <1>5, <2>7
      <3>2. st.ev[d].task \in Ids /\ st.task[st.ev[d].task].ev_op = d
        BY <2>7, <3>1 DEF Linked, Lists, Events
      <3>3. st.ev[d].task # t
        BY <1>2, <1>5, <3>1, <3>2
      <3>. QED BY <1>1, <3>1, <3>2, <3>3
    <2>8. \A u \in Ids : x.task[u].terminate = st.task[u].terminate
      BY <1>1, <2>2
    <2>. QED BY <1>0, <2>4, <2>5, <2>6, <2>7, <2>8 DEF Placed, Linked
  <1>. QED BY <1>2, <1>3, <1>4, <1>5 DEF Outcome

LEMMA SyncPlaced ==
  ASSUME NEW st \in Lists, NEW fails, NEW R, Placed(st, R), Linked(st), Turning(st), IsRepeatFree(st.sync),
         \A e \in Slots : st.ev[e].state = "op" <=> e \in ToSet(st.sync)
  PROVE  LET x == levq_sync_process(st, fails)
         IN  /\ Placed(x, R) /\ Linked(x) /\ Turning(x)
             /\ \A e \in Slots : x.ev[e].state # "op"
             /\ \A u \in Ids : x.task[u].terminate = st.task[u].terminate
  <1>. DEFINE n == Len(st.sync)
              Left(z, i) == \A e \in Slots : z.ev[e].state = "op" <=> \E j \in (i + 1)..n : st.sync[j] = e
              Kept(z) == \A u \in Ids : z.task[u].terminate = st.task[u].terminate
              J == [i \in 0..n |-> {z \in Lists : /\ Apart(z, st) /\ Placed(z, R) /\ Linked(z) /\ Turning(z)
                                                   /\ Left(z, i) /\ Kept(z)}]
              y == SyncUpTo(st, fails)[n]
              x == levq_sync_process(st, fails)
  <1>0. /\ n \in Nat /\ DOMAIN st.sync = 1..n
        /\ \A i \in 1..n : st.sync[i] \in Slots /\ i - 1 \in 0..n /\ i \in 0..n
    BY DEF Lists
  <1>. HIDE DEF n
  <1>1. st \in J[0]
    <2>1. Left(st, 0)
      BY <1>0 DEF ToSet
    <2>. HIDE DEF Left
    <2>. QED BY <1>0, <2>1 DEF Apart
  <1>2. ASSUME NEW i \in 1..n, NEW z \in J[i - 1] PROVE SyncOne(z, st.sync[i], fails) \in J[i]
    <2>. DEFINE e == st.sync[i]
                v == SyncOne(z, e, fails)
    <2>0. e \in Slots /\ i - 1 \in 0..n /\ i \in 0..n
      BY <1>0
    <2>1. z \in Lists /\ Apart(z, st) /\ Placed(z, R) /\ Linked(z) /\ Turning(z) /\ Left(z, i - 1) /\ Kept(z)
      <3>. HIDE DEF Left, Kept
      <3>. QED BY <2>0
    <2>2. Outcome(z, v, e)
      BY <2>0, <2>1, SyncOneIs
    <2>. HIDE DEF v
    <2>3. Placed(v, R) /\ Linked(v) /\ \A u \in Ids : v.task[u].terminate = z.task[u].terminate
      BY <2>0, <2>1, <2>2, StirPlaced
    <2>4. /\ v \in Lists /\ Apart(v, z) /\ v.ev[e].state = (IF v.ev[e].task = NoTask THEN "free" ELSE "live")
          /\ \A d \in Slots \ {e} : v.ev[d] = z.ev[d]
      BY <2>2 DEF Outcome
    <2>5. z.ev[e].state = "op"
      <3>1. i \in ((i - 1) + 1)..n
        BY <1>0
      <3>. QED BY <2>0, <2>1, <3>1
    <2>6. Turning(v)
      <3>1. v.ready = z.ready /\ Turning(z) /\ ToSet(z.ready) \subseteq Slots
        BY <2>1, <2>4 DEF Apart, Lists, ToSet
      <3>2. e \notin ToSet(z.ready)
        BY <2>5, <3>1 DEF Turning
      <3>3. \A d \in ToSet(z.ready) : v.ev[d].state = "ready"
        BY <2>4, <3>1, <3>2 DEF Turning
      <3>4. ASSUME NEW d \in Slots,
                   v.ev[d].state = "free" \/ (v.ev[d].state = "ready" /\ d \notin ToSet(z.ready))
            PROVE  v.ev[d].task = NoTask
        BY <2>4, <3>1, <3>4 DEF Turning
      <3>. QED BY <3>1, <3>3, <3>4 DEF Turning
    <2>7. Left(v, i)
      <3>. SUFFICES ASSUME NEW d \in Slots
                    PROVE  v.ev[d].state = "op" <=> \E j \in (i + 1)..n : st.sync[j] = d
        OBVIOUS
      <3>1. CASE d = e
        <4>1. v.ev[d].state # "op"
          BY <2>4, <3>1
        <4>2. ASSUME NEW j \in (i + 1)..n PROVE st.sync[j] # d
          <5>1. j \in 1..n /\ j # i
            BY <1>0
          <5>. QED BY <1>0, <3>1, <5>1 DEF IsRepeatFree
        <4>. QED BY <4>1, <4>2
      <3>2. CASE d # e
        <4>1. v.ev[d].state = "op" <=> \E j \in ((i - 1) + 1)..n : st.sync[j] = d
          BY <2>1, <2>4, <3>2
        <4>2. \A j \in ((i - 1) + 1)..n : j = i \/ j \in (i + 1)..n
          BY <1>0
        <4>3. \A j \in (i + 1)..n : j \in ((i - 1) + 1)..n
          BY <1>0
        <4>. QED BY <3>2, <4>1, <4>2, <4>3
      <3>. QED BY <3>1, <3>2
    <2>8. Kept(v) /\ Apart(v, st)
      BY <2>1, <2>3, <2>4 DEF Apart
    <2>. HIDE DEF Left, Kept
    <2>. QED BY <2>0, <2>3, <2>4, <2>6, <2>7, <2>8 DEF v
  <1>3. y \in J[n]
    <2>. HIDE DEF J
    <2>. QED BY <1>0, <1>1, <1>2, SyncFold DEF n
  <1>4. /\ y \in Lists /\ Placed(y, R) /\ Linked(y) /\ Turning(y) /\ Left(y, n) /\ Kept(y)
        /\ x = [y EXCEPT !.sync = <<>>]
    <2>. HIDE DEF Left, Kept
    <2>. QED BY <1>0, <1>3 DEF levq_sync_process, n
  <1>5. \A e \in Slots : y.ev[e].state # "op"
    <2>1. \A j \in (n + 1)..n : FALSE
      BY <1>0
    <2>. QED BY <1>4, <2>1
  <1>. HIDE DEF x, y
  <1>6. /\ x.free = y.free /\ x.active = y.active /\ x.buf_idx = y.buf_idx /\ x.task = y.task
        /\ x.ev = y.ev /\ x.ready = y.ready
    <2>. HIDE DEF Left, Kept
    <2>. QED BY <1>4, ZenonT(30) DEF Lists
  <1>7. Placed(x, R) /\ Linked(x) /\ Turning(x)
    <2>. HIDE DEF Left, Kept
    <2>1. Turning(x)
      BY <1>4, <1>6 DEF Turning
    <2>. QED BY <1>4, <1>6, <2>1, SameFields
  <1>. QED BY <1>4, <1>5, <1>6, <1>7 DEF x

\* The ready events are handled: their slots are free again, no other slot changes.
LEMMA HandlePlaced ==
  ASSUME NEW st \in Lists, NEW R, Placed(st, R), Linked(st)
  PROVE  LET x == HandleReady(st)
         IN  /\ Placed(x, R) /\ Linked(x)
             /\ \A e \in Slots : x.ev[e] = IF e \in ToSet(st.ready) THEN NoEvent ELSE st.ev[e]
             /\ \A u \in Ids : x.task[u].terminate = st.task[u].terminate
  <1>. DEFINE n == Len(st.ready)
              Done(z, i) ==
                \A e \in Slots : z.ev[e] = IF \E j \in 1..i : st.ready[j] = e THEN NoEvent ELSE st.ev[e]
              Kept(z) == \A u \in Ids : z.task[u].terminate = st.task[u].terminate
              J == [i \in 0..n |-> {z \in Lists : Placed(z, R) /\ Linked(z) /\ Done(z, i) /\ Kept(z)}]
              y == HandleUpTo(st)[n]
              x == HandleReady(st)
  <1>0. /\ n \in Nat /\ DOMAIN st.ready = 1..n
        /\ \A i \in 1..n : st.ready[i] \in Slots /\ i - 1 \in 0..n /\ i \in 0..n
    BY DEF Lists
  <1>. HIDE DEF n
  <1>1. st \in J[0]
    <2>1. Done(st, 0)
      <3>1. \A j \in 1..0 : FALSE
        OBVIOUS
      <3>. QED BY <3>1
    <2>2. Kept(st)
      OBVIOUS
    <2>. HIDE DEF Done, Kept
    <2>. QED BY <1>0, <2>1, <2>2
  <1>2. ASSUME NEW i \in 1..n, NEW z \in J[i - 1] PROVE HandleOne(z, st.ready[i]) \in J[i]
    <2>. DEFINE e == st.ready[i]
                v == HandleOne(z, e)
    <2>0. e \in Slots /\ i - 1 \in 0..n /\ i \in 0..n
      BY <1>0
    <2>1. z \in Lists /\ Placed(z, R) /\ Linked(z) /\ Done(z, i - 1) /\ Kept(z)
      <3>. HIDE DEF Done, Kept
      <3>. QED BY <2>0
    <2>2. Outcome(z, v, e) /\ v.ev[e] = NoEvent
      <3>. HIDE DEF Done, Kept
      <3>. QED BY <2>0, <2>1, HandleOneIs
    <2>. HIDE DEF v
    <2>3. Placed(v, R) /\ Linked(v) /\ \A u \in Ids : v.task[u].terminate = z.task[u].terminate
      <3>. HIDE DEF Done, Kept
      <3>. QED BY <2>0, <2>1, <2>2, StirPlaced
    <2>4. v \in Lists /\ \A d \in Slots \ {e} : v.ev[d] = z.ev[d]
      BY <2>2 DEF Outcome
    <2>5. Done(v, i)
      <3>. SUFFICES ASSUME NEW d \in Slots
                    PROVE  v.ev[d] = IF \E j \in 1..i : st.ready[j] = d THEN NoEvent ELSE st.ev[d]
        OBVIOUS
      <3>1. CASE d = e
        <4>1. i \in 1..i
          BY <1>0
        <4>. QED BY <2>2, <3>1, <4>1
      <3>2. CASE d # e
        <4>1. v.ev[d] = IF \E j \in 1..(i - 1) : st.ready[j] = d THEN NoEvent ELSE st.ev[d]
          BY <2>1, <2>4, <3>2
        <4>2. \A j \in 1..i : j = i \/ j \in 1..(i - 1)
          BY <1>0
        <4>3. \A j \in 1..(i - 1) : j \in 1..i
          BY <1>0
        <4>. QED BY <3>2, <4>1, <4>2, <4>3
      <3>. QED BY <3>1, <3>2
    <2>6. Kept(v)
      BY <2>1, <2>3
    <2>. HIDE DEF Done, Kept
    <2>. QED BY <2>0, <2>3, <2>4, <2>5, <2>6 DEF v
  <1>3. y \in J[n]
    <2>. HIDE DEF J
    <2>. QED BY <1>0, <1>1, <1>2, HandleFold DEF n
  <1>4. /\ y \in Lists /\ Placed(y, R) /\ Linked(y) /\ Done(y, n) /\ Kept(y)
        /\ x = [y EXCEPT !.ready = <<>>]
    <2>. HIDE DEF Done, Kept
    <2>. QED BY <1>0, <1>3 DEF HandleReady, n
  <1>. HIDE DEF x, y
  <1>5. /\ x.free = y.free /\ x.active = y.active /\ x.buf_idx = y.buf_idx /\ x.task = y.task
        /\ x.ev = y.ev
    <2>. HIDE DEF Done, Kept
    <2>. QED BY <1>4, ZenonT(30) DEF Lists
  <1>6. Placed(x, R) /\ Linked(x)
    <2>. HIDE DEF Done, Kept
    <2>. QED BY <1>4, <1>5, SameFields
  <1>7. \A e : e \in ToSet(st.ready) <=> \E j \in 1..n : st.ready[j] = e
    BY <1>0 DEF ToSet
  <1>8. \A e \in Slots : x.ev[e] = IF e \in ToSet(st.ready) THEN NoEvent ELSE st.ev[e]
    BY <1>4, <1>5, <1>7
  <1>. QED BY <1>4, <1>5, <1>6, <1>8 DEF x

\* Nothing is left to be handled, and the pending calls are as before.
LEMMA HandleQueued ==
  ASSUME NEW st \in Lists, NEW R, Placed(st, R), Linked(st), Queued(st)
  PROVE  LET x == HandleReady(st)
         IN  /\ x \in Lists /\ Placed(x, R) /\ Linked(x) /\ Queued(x)
             /\ \A u \in Ids : x.task[u].terminate = st.task[u].terminate
  <1>. DEFINE x == HandleReady(st)
  <1>1. x \in Lists /\ x.sync = st.sync /\ x.ready = <<>>
    BY HandleTypes
  <1>2. /\ Placed(x, R) /\ Linked(x)
        /\ \A e \in Slots : x.ev[e] = IF e \in ToSet(st.ready) THEN NoEvent ELSE st.ev[e]
        /\ \A u \in Ids : x.task[u].terminate = st.task[u].terminate
    BY HandlePlaced
  <1>. HIDE DEF x
  <1>3. ToSet(<<>>) = {}
    BY DEF ToSet
  <1>4. \A e \in Slots : x.ev[e].state = "op" <=> st.ev[e].state = "op"
    BY <1>2, EventTaskFree DEF Queued, Turning
  <1>5. Turning(x)
    BY <1>1, <1>2, <1>3, EventTaskFree DEF Queued, Turning
  <1>. QED BY <1>1, <1>2, <1>4, <1>5 DEF Queued, x

\* The lists st take the place of s, with no signal left.
LEMMA BecomesPlaced ==
  ASSUME NEW st \in Lists, s' = [st EXCEPT !.signal = FALSE], NEW R, Placed(st, R), Linked(st), Queued(st)
  PROVE  Placed(s', R) /\ Linked(s') /\ Queued(s') /\ s'.task = st.task
  <1>1. /\ s'.active = st.active /\ s'.free = st.free /\ s'.buf_idx = st.buf_idx /\ s'.task = st.task
        /\ s'.ev = st.ev /\ s'.sync = st.sync /\ s'.ready = st.ready
    BY ZenonT(30) DEF Lists
  <1>. QED BY <1>1, SameFields

\* A turn of the event queue.
LEMMA EvqTurnPlaced ==
  ASSUME NEW st \in Lists, NEW w \in Workers, EvqTurn(w, st), NEW R, Placed(st, R), Linked(st), Queued(st)
  PROVE  /\ Placed(s', R) /\ Linked(s') /\ Queued(s')
         /\ \A u \in Ids : s'.task[u].terminate = st.task[u].terminate
  <1>1. PICK fails : LET x == levq_sync_process(st, fails) IN
          IF x.ready # <<>>
          THEN Becomes(HandleReady(x), Go(w, "top")) /\ evq_waiting' = FALSE
          ELSE IF Live(x) = {} /\ ~KeptEvent
          THEN Becomes(x, Go(w, "top")) /\ evq_waiting' = FALSE
          ELSE /\ Becomes(x, Go(w, "evq")) \/ (w \in Interrupts /\ Becomes(x, Go(w, "lost_evq")))
               /\ evq_waiting' = TRUE
    BY DEF EvqTurn
  <1>. DEFINE x == levq_sync_process(st, fails)
              z == HandleReady(x)
  <1>2. x \in Lists /\ x.sync = <<>>
    BY SyncTypes
  <1>3. /\ Placed(x, R) /\ Linked(x) /\ Turning(x)
        /\ \A e \in Slots : x.ev[e].state # "op"
        /\ \A u \in Ids : x.task[u].terminate = st.task[u].terminate
    BY SyncPlaced DEF Queued
  <1>. HIDE DEF x
  <1>4. ToSet(<<>>) = {} /\ IsRepeatFree(<<>>)
    BY DEF ToSet, IsRepeatFree
  <1>5. Queued(x)
    BY <1>2, <1>3, <1>4 DEF Queued
  <1>6. /\ z \in Lists /\ Placed(z, R) /\ Linked(z) /\ Queued(z)
        /\ \A u \in Ids : z.task[u].terminate = x.task[u].terminate
    BY <1>2, <1>3, <1>5, HandleQueued
  <1>. HIDE DEF z
  <1>7. s' = [x EXCEPT !.signal = FALSE] \/ s' = [z EXCEPT !.signal = FALSE]
    BY <1>1 DEF Becomes, x, z
  <1>8. PICK y \in {x, z} : s' = [y EXCEPT !.signal = FALSE]
    BY <1>7
  <1>9. /\ y \in Lists /\ Placed(y, R) /\ Linked(y) /\ Queued(y)
        /\ \A u \in Ids : y.task[u].terminate = st.task[u].terminate
    BY <1>2, <1>3, <1>5, <1>6
  <1>10. Placed(s', R) /\ Linked(s') /\ Queued(s') /\ s'.task = y.task
    BY <1>8, <1>9, BecomesPlaced
  <1>. QED BY <1>9, <1>10

-----------------------------------------------------------------------------
LEMMA KeptTidy ==
  ASSUME Tidy, s' = s, cur' = cur
  PROVE  Tidy'
  BY DEF Tidy, Placed, At, Linked, Queued, Turning, Held, Runs

\* The tasks change hands in the lists only.
LEMMA ListsTidy ==
  ASSUME Tidy, Placed(s', Runs), Linked(s'), Queued(s'), cur' = cur,
         \A u \in Runs : s'.task[u].terminate = s.task[u].terminate
  PROVE  Tidy'
  <1>1. Runs' = Runs
    BY DEF Runs
  <1>2. Held'
    BY <1>1 DEF Tidy, Held
  <1>3. Placed(s', Runs')
    BY <1>1
  <1>. QED BY <1>2, <1>3 DEF Tidy

\* The events that evq_wait returns, in some order.
LEMMA OrderSet ==
  ASSUME NEW S, S \subseteq Slots, NEW q \in SetToSeqs(S)
  PROVE  q \in Seq(Slots) /\ ToSet(q) = S
  <1>. DEFINE n == Cardinality(S)
              D == 1..n
  <1>0. IsFiniteSet(Slots)
    BY Finite DEF Slots
  <1>1. IsFiniteSet(S) /\ n \in Nat
    BY <1>0, FS_Subset, FS_CardinalityType
  <1>2. q \in [D -> S] /\ \A i, j \in D : i # j => q[i] # q[j]
    BY DEF SetToSeqs
  <1>3. IsFiniteSet(D) /\ Cardinality(D) = n
    BY <1>1, FS_Interval
  <1>. HIDE DEF n
  <1>4. q \in Seq(Slots)
    BY <1>1, <1>2
  <1>5. ToSet(q) \subseteq S
    BY <1>2 DEF ToSet
  <1>6. ASSUME NEW e \in S, e \notin ToSet(q) PROVE FALSE
    <2>. DEFINE T == S \ {e}
    <2>1. IsFiniteSet(T) /\ Cardinality(T) = n - 1
      BY <1>1, FS_RemoveElement DEF n
    <2>2. q \in [D -> T]
      BY <1>2, <1>6 DEF ToSet
    <2>3. Cardinality(T) < Cardinality(D)
      BY <1>1, <1>3, <2>1
    <2>. HIDE DEF T, D
    <2>4. \E i, j \in D : i # j /\ q[i] = q[j]
      BY <1>3, <2>1, <2>2, <2>3, FS_PigeonHole
    <2>. QED BY <1>2, <2>4
  <1>. QED BY <1>4, <1>5, <1>6

LEMMA OccurPlaced ==
  ASSUME NEW st \in Lists, NEW S \in SUBSET Live(st), NEW q \in SetToSeqs(S), NEW R, Placed(st, R), Linked(st)
  PROVE  LET x == Occur(st, S, q)
         IN  /\ x \in Lists /\ Placed(x, R) /\ Linked(x)
             /\ ToSet(x.ready) = S \cup ToSet(st.ready)
             /\ Queued(st) => Queued(x)
             /\ x.task = st.task /\ x.sync = st.sync
             /\ \A e \in Slots : x.ev[e].state = IF e \in S THEN "ready" ELSE st.ev[e].state
             /\ \A e \in Slots : x.ev[e].task = st.ev[e].task
  <1>. DEFINE x == Occur(st, S, q)
  <1>0. S \subseteq Slots /\ \A e \in S : st.ev[e].state = "live"
    BY DEF Live
  <1>1. q \in Seq(Slots) /\ ToSet(q) = S
    BY <1>0, OrderSet
  <1>2. /\ x \in Lists /\ x.free = st.free /\ x.buf_idx = st.buf_idx
        /\ x.sync = st.sync /\ x.ready = q \o st.ready /\ x.task = st.task /\ x.active = st.active
        /\ \A e \in Slots : /\ x.ev[e].task = st.ev[e].task
                            /\ x.ev[e].state = IF e \in S THEN "ready" ELSE st.ev[e].state
    BY <1>1, OccurIs
  <1>. HIDE DEF x
  <1>3. st.ready \in Seq(Slots)
    BY DEF Lists
  <1>4. ToSet(x.ready) = S \cup ToSet(st.ready) /\ ToSet(st.ready) \subseteq Slots
    <2>1. ToSet(q \o st.ready) = ToSet(q) \cup ToSet(st.ready)
      BY <1>1, <1>3, ConcatSet
    <2>2. ToSet(st.ready) \subseteq Slots
      BY <1>3 DEF ToSet
    <2>. QED BY <1>1, <1>2, <2>1, <2>2
  <1>5. Placed(x, R)
    BY <1>2 DEF Placed, At
  <1>6. Linked(x)
    <2>1. \A u \in Ids : st.task[u].ev_op # NoTask => st.task[u].ev_op \in Slots
      BY DEF Lists, Tasks, Slots
    <2>2. \A e \in Slots : st.ev[e].task # NoTask => st.ev[e].task \in Ids
      BY DEF Lists, Events
    <2>3. x.task = st.task /\ \A e \in Slots : x.ev[e].task = st.ev[e].task
      BY <1>2
    <2>. QED BY <2>1, <2>2, <2>3 DEF Linked
  <1>7. Queued(st) => Queued(x)
    <2>. HAVE Queued(st)
    <2>1. Turning(x)
      BY <1>0, <1>2, <1>4 DEF Queued, Turning
    <2>2. \A e \in Slots : x.ev[e].state = "op" <=> e \in ToSet(x.sync)
      BY <1>0, <1>2 DEF Queued
    <2>. QED BY <1>2, <2>1, <2>2 DEF Queued
  <1>. QED BY <1>2, <1>4, <1>5, <1>6, <1>7 DEF x

LEMMA EvqTidy ==
  ASSUME Typed, Tidy, NEW w \in Workers, GoEvq(w) \/ EvqReturns(w) \/ EvqOwnEvent(w)
  PROVE  Tidy'
  <1>0. s \in Lists /\ cur' = cur /\ Runs \subseteq Ids
    BY DEF Typed, GoEvq, EvqReturns, EvqOwnEvent, Runs
  <1>1. Placed(s, Runs) /\ Linked(s) /\ Queued(s)
    BY DEF Tidy
  <1>2. PICK x \in Lists : /\ Placed(x, Runs) /\ Linked(x) /\ Queued(x) /\ x.task = s.task
                           /\ EvqTurn(w, x) \/ s' = [HandleReady(x) EXCEPT !.signal = FALSE]
    <2>1. CASE GoEvq(w)
      BY <1>0, <1>1, <2>1 DEF GoEvq
    <2>2. CASE EvqReturns(w)
      <3>1. PICK S \in SUBSET Live(s) : \E q \in SetToSeqs(S) :
              LET x == Occur(s, S, q) IN
              IF x.ready # <<>>
              THEN Becomes(HandleReady(x), Go(w, "top")) /\ evq_waiting' = FALSE
              ELSE EvqTurn(w, x)
        BY <2>2 DEF EvqReturns
      <3>2. PICK q \in SetToSeqs(S) :
              LET x == Occur(s, S, q) IN
              IF x.ready # <<>>
              THEN Becomes(HandleReady(x), Go(w, "top")) /\ evq_waiting' = FALSE
              ELSE EvqTurn(w, x)
        BY <3>1
      <3>. DEFINE x == Occur(s, S, q)
      <3>3. x \in Lists /\ Placed(x, Runs) /\ Linked(x) /\ Queued(x) /\ x.task = s.task
        BY <1>0, <1>1, OccurPlaced
      <3>4. EvqTurn(w, x) \/ s' = [HandleReady(x) EXCEPT !.signal = FALSE]
        BY <3>2 DEF Becomes
      <3>. HIDE DEF x
      <3>. QED BY <3>3, <3>4
    <2>3. CASE EvqOwnEvent(w)
      BY <1>0, <1>1, <2>3 DEF EvqOwnEvent, Becomes
    <2>. QED BY <2>1, <2>2, <2>3
  <1>3. CASE EvqTurn(w, x)
    <2>1. /\ Placed(s', Runs) /\ Linked(s') /\ Queued(s')
          /\ \A u \in Ids : s'.task[u].terminate = x.task[u].terminate
      BY <1>2, <1>3, EvqTurnPlaced
    <2>. QED BY <1>0, <1>2, <2>1, ListsTidy
  <1>4. CASE s' = [HandleReady(x) EXCEPT !.signal = FALSE]
    <2>. DEFINE z == HandleReady(x)
    <2>1. /\ z \in Lists /\ Placed(z, Runs) /\ Linked(z) /\ Queued(z)
          /\ \A u \in Ids : z.task[u].terminate = x.task[u].terminate
      BY <1>2, HandleQueued
    <2>. HIDE DEF z
    <2>2. Placed(s', Runs) /\ Linked(s') /\ Queued(s') /\ s'.task = z.task
      BY <1>4, <2>1, BecomesPlaced DEF z
    <2>. QED BY <1>0, <1>2, <2>1, <2>2, ListsTidy
  <1>. QED BY <1>2, <1>3, <1>4

\* A callback fails: the events before it have been handled, those behind it stay ready.
LEMMA AmidPlaced ==
  ASSUME s \in Lists, NEW R, Placed(s, R), Linked(s), Queued(s),
         NEW S \in SUBSET Live(s), NEW T \in SUBSET (Live(s) \ S), NEW p \in SetToSeqs(S), NEW q \in SetToSeqs(T)
  PROVE  LET x == FailsAmid(S, p, T, q)
         IN  /\ x \in Lists /\ Placed(x, R) /\ Linked(x) /\ Queued(x)
             /\ \A u \in Ids : x.task[u].terminate = s.task[u].terminate
  <1>. DEFINE a == [s EXCEPT !.ready = <<>>]
              b == Occur(a, S, p)
              c == HandleReady(b)
              d == [c EXCEPT !.ready = s.ready]
              x == Occur(d, T, q)
  <1>0. <<>> \in Seq(Slots) /\ s.ready \in Seq(Slots) /\ ToSet(<<>>) = {} /\ ToSet(s.ready) \subseteq Slots
    BY DEF Lists, ToSet
  <1>1. /\ a \in Lists /\ a.active = s.active /\ a.free = s.free /\ a.buf_idx = s.buf_idx
        /\ a.task = s.task /\ a.ev = s.ev /\ a.sync = s.sync /\ a.ready = <<>>
    BY <1>0, ReadyIs
  <1>. HIDE DEF a
  <1>2. Placed(a, R) /\ Linked(a)
    BY <1>1, SameFields
  <1>3. S \in SUBSET Live(a) /\ \A e \in S \cup T : e \in Slots /\ s.ev[e].state = "live"
    BY <1>1 DEF Live
  <1>4. /\ b \in Lists /\ Placed(b, R) /\ Linked(b) /\ ToSet(b.ready) = S \cup ToSet(a.ready)
        /\ b.task = a.task /\ b.sync = a.sync
        /\ \A e \in Slots : b.ev[e].state = IF e \in S THEN "ready" ELSE a.ev[e].state
        /\ \A e \in Slots : b.ev[e].task = a.ev[e].task
    BY <1>1, <1>2, <1>3, OccurPlaced
  <1>. HIDE DEF b
  <1>5. c \in Lists /\ c.sync = b.sync
    BY <1>4, HandleTypes
  <1>6. /\ Placed(c, R) /\ Linked(c)
        /\ \A e \in Slots : c.ev[e] = IF e \in ToSet(b.ready) THEN NoEvent ELSE b.ev[e]
        /\ \A u \in Ids : c.task[u].terminate = b.task[u].terminate
    BY <1>4, HandlePlaced
  <1>. HIDE DEF c
  <1>7. \A e \in Slots : /\ c.ev[e].state = IF e \in S THEN "free" ELSE s.ev[e].state
                         /\ c.ev[e].task = IF e \in S THEN NoTask ELSE s.ev[e].task
    BY <1>0, <1>1, <1>4, <1>6, EventTaskFree
  <1>8. /\ d \in Lists /\ d.active = c.active /\ d.free = c.free /\ d.buf_idx = c.buf_idx
        /\ d.task = c.task /\ d.ev = c.ev /\ d.sync = c.sync /\ d.ready = s.ready
    BY <1>0, <1>5, ReadyIs
  <1>. HIDE DEF d
  <1>9. Placed(d, R) /\ Linked(d)
    BY <1>6, <1>8, SameFields
  <1>10. Queued(d)
    <2>1. d.sync = s.sync /\ \A e \in Slots : d.ev[e].state = "op" <=> s.ev[e].state = "op"
      BY <1>1, <1>3, <1>4, <1>5, <1>7, <1>8
    <2>2. \A e \in ToSet(s.ready) : e \in Slots /\ e \notin S
      BY <1>0, <1>3 DEF Queued, Turning
    <2>3. Turning(d)
      BY <1>7, <1>8, <2>2 DEF Queued, Turning
    <2>. QED BY <2>1, <2>3 DEF Queued
  <1>11. T \in SUBSET Live(d)
    BY <1>3, <1>7, <1>8 DEF Live
  <1>12. x \in Lists /\ Placed(x, R) /\ Linked(x) /\ Queued(x) /\ x.task = d.task
    BY <1>8, <1>9, <1>10, <1>11, OccurPlaced
  <1>. HIDE DEF x
  <1>13. \A u \in Ids : x.task[u].terminate = s.task[u].terminate
    BY <1>1, <1>4, <1>6, <1>8, <1>12
  <1>14. x = FailsAmid(S, p, T, q)
    BY DEF FailsAmid, a, b, c, d, x
  <1>. QED BY <1>12, <1>13, <1>14

LEMMA EvqFailsTidy ==
  ASSUME Typed, Tidy, NEW w \in Workers, EvqFails(w)
  PROVE  Tidy'
  <1>0. s \in Lists /\ cur' = cur /\ Runs \subseteq Ids /\ Placed(s, Runs) /\ Linked(s) /\ Queued(s)
    BY DEF Typed, EvqFails, Runs, Tidy
  <1>1. PICK x \in Lists : /\ Placed(x, Runs) /\ Linked(x) /\ Queued(x)
                           /\ \A u \in Ids : x.task[u].terminate = s.task[u].terminate
                           /\ s' = [x EXCEPT !.signal = FALSE]
    <2>1. CASE EvqLeave(w, "out", s)
      BY <1>0, <2>1 DEF EvqLeave
    <2>2. CASE \E S \in SUBSET Live(s) : \E T \in SUBSET (Live(s) \ S) :
                 \E p \in SetToSeqs(S), q \in SetToSeqs(T) : EvqLeave(w, "failed", FailsAmid(S, p, T, q))
      <3>1. PICK S \in SUBSET Live(s) : \E T \in SUBSET (Live(s) \ S) :
                 \E p \in SetToSeqs(S), q \in SetToSeqs(T) : EvqLeave(w, "failed", FailsAmid(S, p, T, q))
        BY <2>2
      <3>2. PICK T \in SUBSET (Live(s) \ S) :
                 \E p \in SetToSeqs(S), q \in SetToSeqs(T) : EvqLeave(w, "failed", FailsAmid(S, p, T, q))
        BY <3>1
      <3>3. PICK p \in SetToSeqs(S), q \in SetToSeqs(T) : EvqLeave(w, "failed", FailsAmid(S, p, T, q))
        BY <3>2
      <3>. DEFINE x == FailsAmid(S, p, T, q)
      <3>4. /\ x \in Lists /\ Placed(x, Runs) /\ Linked(x) /\ Queued(x)
            /\ \A u \in Ids : x.task[u].terminate = s.task[u].terminate
        BY <1>0, AmidPlaced
      <3>. HIDE DEF x
      <3>5. s' = [x EXCEPT !.signal = FALSE]
        BY <3>3 DEF EvqLeave, x
      <3>. QED BY <3>4, <3>5
    <2>. QED BY <2>1, <2>2 DEF EvqFails
  <1>2. Placed(s', Runs) /\ Linked(s') /\ Queued(s') /\ s'.task = x.task
    BY <1>1, BecomesPlaced
  <1>. QED BY <1>0, <1>1, <1>2, ListsTidy

\* Task t is about to leave its worker; nothing is said yet of its suspension.
Leaving(x, R, t) ==
    /\ IsRepeatFree(x.free) /\ IsRepeatFree(x.active) /\ t \in R
    /\ \A u \in Ids \ {t} : At(x, R, u)
    /\ t \notin ToSet(x.free) /\ t \notin ToSet(x.active) /\ t < x.buf_idx

LEMMA DelPlaced ==
  ASSUME NEW x \in Lists, NEW t \in Ids, NEW R, Leaving(x, R, t), ~x.task[t].suspended
  PROVE  LET y == sched_task_del(x, t)
         IN  Placed(y, R \ {t}) /\ y.task = x.task /\ Waiting(y, x)
  <1>. DEFINE y == sched_task_del(x, t)
  <1>1. /\ y.free = Append(x.free, t) /\ y.active = x.active
        /\ y.buf_idx = x.buf_idx /\ y.task = x.task /\ Waiting(y, x)
    BY DelIs
  <1>. HIDE DEF y
  <1>2. x.free \in Seq(Ids)
    BY DEF Lists
  <1>3. ToSet(y.free) = ToSet(x.free) \cup {t} /\ IsRepeatFree(y.free)
    BY <1>1, <1>2, AppendSet DEF Leaving
  <1>4. At(y, R \ {t}, t)
    BY <1>1, <1>3 DEF Leaving, At
  <1>5. ASSUME NEW u \in Ids \ {t} PROVE At(y, R \ {t}, u)
    BY <1>1, <1>3 DEF Leaving, At
  <1>6. Placed(y, R \ {t})
    BY <1>1, <1>3, <1>4, <1>5 DEF Placed, Leaving
  <1>. QED BY <1>1, <1>6 DEF y

LEMMA YieldPlaced ==
  ASSUME NEW x \in Lists, NEW t \in Ids, NEW R, Leaving(x, R, t), ~x.task[t].terminate
  PROVE  LET y == Yielded(x, t)
         IN  Placed(y, R \ {t}) /\ y.task = x.task /\ Waiting(y, x)
  <1>. DEFINE y == Yielded(x, t)
  <1>1. CASE x.task[t].suspended
    <2>1. y = x
      BY <1>1 DEF Yielded
    <2>2. At(x, R \ {t}, t)
      BY <1>1 DEF Leaving, At
    <2>3. \A u \in Ids \ {t} : At(x, R \ {t}, u)
      BY DEF Leaving, At
    <2>. HIDE DEF y
    <2>. QED BY <2>1, <2>2, <2>3 DEF Placed, Leaving, Waiting, y
  <1>2. CASE ~x.task[t].suspended
    <2>1. y = Activate(x, t)
      BY <1>2 DEF Yielded
    <2>. DEFINE z == Activate(x, t)
    <2>2. z.active = Append(x.active, t) /\ Apart(z, x) /\ z.task = x.task /\ z.ev = x.ev
      BY ActivateIs
    <2>. HIDE DEF z, y
    <2>3. x.active \in Seq(Ids)
      BY DEF Lists
    <2>4. ToSet(z.active) = ToSet(x.active) \cup {t} /\ IsRepeatFree(z.active)
      BY <2>2, <2>3, AppendSet DEF Leaving
    <2>5. At(z, R \ {t}, t)
      BY <1>2, <2>2, <2>4 DEF Leaving, At, Apart
    <2>6. ASSUME NEW u \in Ids \ {t} PROVE At(z, R \ {t}, u)
      BY <2>2, <2>4 DEF Leaving, At, Apart
    <2>7. Placed(z, R \ {t}) /\ Waiting(z, x)
      BY <2>2, <2>4, <2>5, <2>6 DEF Placed, Leaving, Apart, Waiting
    <2>. QED BY <2>1, <2>2, <2>7 DEF y, z
  <1>. QED BY <1>1, <1>2

\* The worker w gives its task t back.
LEMMA RunsGiven ==
  ASSUME Typed, Tidy, NEW w \in Workers, pc[w] \in AtTask, cur' = [cur EXCEPT ![w] = NoTask]
  PROVE  /\ cur[w] \in Ids /\ cur[w] \in Runs /\ Runs' = Runs \ {cur[w]}
         /\ \A u, v \in Workers : cur'[u] = cur'[v] /\ cur'[u] # NoTask => u = v
         /\ ~s.task[cur[w]].terminate /\ ~s.task[cur[w]].suspended /\ s.task[cur[w]].ev_op = NoTask
         /\ Leaving(s, Runs, cur[w])
  <1>. DEFINE t == cur[w]
  <1>1. t \in Ids /\ t \in Runs /\ NoTask \notin Ids
    BY CurIs, Finite DEF Runs
  <1>2. \A u \in Workers : cur'[u] = IF u = w THEN NoTask ELSE cur[u]
    BY DEF Typed
  <1>3. \A u, v \in Workers : cur[u] = cur[v] /\ cur[u] # NoTask => u = v
    BY DEF Tidy, Held
  <1>. HIDE DEF t
  <1>4. Runs' = Runs \ {t}
    <2>1. ASSUME NEW x \in Runs' PROVE x \in Runs /\ x # t
      <3>1. x \in Ids /\ \E u \in Workers : cur'[u] = x
        BY <2>1 DEF Runs
      <3>2. PICK u \in Workers : cur'[u] = x
        BY <3>1
      <3>3. u # w /\ cur[u] = x
        BY <1>1, <1>2, <3>1, <3>2
      <3>. QED BY <1>1, <1>3, <3>1, <3>3 DEF Runs, t
    <2>2. ASSUME NEW x \in Runs, x # t PROVE x \in Runs'
      <3>1. PICK u \in Workers : cur[u] = x
        BY DEF Runs
      <3>2. u # w /\ cur'[u] = x
        BY <1>2, <2>2, <3>1 DEF t
      <3>. QED BY <3>2 DEF Runs
    <2>. QED BY <2>1, <2>2
  <1>5. \A u, v \in Workers : cur'[u] = cur'[v] /\ cur'[u] # NoTask => u = v
    BY <1>2, <1>3
  <1>6. ~s.task[t].terminate /\ ~s.task[t].suspended
    BY <1>1 DEF Tidy, Held, Placed, At
  <1>7. s.task[t].ev_op = NoTask
    BY <1>1, <1>6 DEF Tidy, Linked
  <1>8. Leaving(s, Runs, t)
    BY <1>1 DEF Tidy, Leaving, Placed, At
  <1>. QED BY <1>1, <1>4, <1>5, <1>6, <1>7, <1>8 DEF t

\* What is left to show for a step of the task of w.
LEMMA GivenTidy ==
  ASSUME Typed, Tidy, NEW w \in Workers, pc[w] \in AtTask, cur' = [cur EXCEPT ![w] = NoTask],
         Placed(s', Runs \ {cur[w]}), Linked(s'), Queued(s'),
         \A u \in Ids \ {cur[w]} : s'.task[u].terminate = s.task[u].terminate
  PROVE  Tidy'
  <1>1. /\ Runs' = Runs \ {cur[w]} /\ Runs \subseteq Ids
        /\ \A u, v \in Workers : cur'[u] = cur'[v] /\ cur'[u] # NoTask => u = v
    BY RunsGiven DEF Runs
  <1>2. \A u \in Runs' : ~s'.task[u].terminate
    BY <1>1 DEF Tidy, Held
  <1>3. Held'
    BY <1>1, <1>2 DEF Held
  <1>4. Placed(s', Runs')
    BY <1>1
  <1>. QED BY <1>3, <1>4 DEF Tidy

\* The places of tasks with an event do not change with those of t, which has none.
LEMMA LinkedKept ==
  ASSUME NEW x, NEW y, Linked(y), NEW t \in Ids, y.task[t].ev_op = NoTask, x.task[t].ev_op = NoTask,
         \A u \in Ids \ {t} : x.task[u] = y.task[u], x.ev = y.ev, y \in Lists
  PROVE  Linked(x)
  <1>1. ASSUME NEW u \in Ids, x.task[u].ev_op # NoTask
        PROVE  x.task[u].suspended /\ x.ev[x.task[u].ev_op].task = u
    BY <1>1 DEF Linked
  <1>2. ASSUME NEW e \in Slots, x.ev[e].task # NoTask PROVE x.task[x.ev[e].task].ev_op = e
    <2>1. y.ev[e].task \in Ids /\ y.task[y.ev[e].task].ev_op = e
      BY <1>2 DEF Linked, Lists, Events
    <2>2. e # NoTask
      BY Finite DEF Slots
    <2>. QED BY <2>1, <2>2
  <1>. QED BY <1>1, <1>2 DEF Linked

LEMMA EndTidy ==
  ASSUME Typed, Tidy, NEW w \in Workers, Yield(w) \/ Finish(w) \/ Fail(w) \/ sched_suspend(w)
  PROVE  Tidy'
  <1>. DEFINE t == cur[w]
              x == [s EXCEPT !.task[t].suspended = TRUE]
  <1>1. /\ pc[w] \in AtTask /\ cur' = [cur EXCEPT ![w] = NoTask]
        /\ s' \in {Yielded(s, t), sched_task_del(s, t), Yielded(x, t)}
    BY DEF Yield, Finish, Fail, sched_suspend, AfterTask, AtTask
  <1>2. /\ t \in Ids /\ t \in Runs /\ ~s.task[t].terminate /\ ~s.task[t].suspended /\ s.task[t].ev_op = NoTask
        /\ Leaving(s, Runs, t)
    BY <1>1, RunsGiven
  <1>3. s \in Lists /\ Linked(s) /\ Queued(s)
    BY DEF Typed, Tidy
  <1>4. /\ x \in Lists /\ Apart(x, s) /\ x.active = s.active /\ x.ev = s.ev
        /\ x.task[t].suspended = TRUE /\ x.task[t].terminate = s.task[t].terminate
        /\ x.task[t].ev_op = s.task[t].ev_op
        /\ \A u \in Ids \ {t} : x.task[u] = s.task[u]
    BY <1>2, <1>3, SuspendedIs
  <1>. HIDE DEF x, t
  <1>5. Leaving(x, Runs, t) /\ ~x.task[t].terminate
    BY <1>2, <1>4 DEF Leaving, At, Apart
  <1>6. Linked(x)
    BY <1>2, <1>3, <1>4, LinkedKept
  <1>7. PICK y \in {s, x} : Placed(s', Runs \ {t}) /\ s'.task = y.task /\ Waiting(s', y)
    <2>1. CASE s' = Yielded(s, t)
      BY <1>2, <1>3, <2>1, YieldPlaced
    <2>2. CASE s' = sched_task_del(s, t)
      BY <1>2, <1>3, <2>2, DelPlaced
    <2>3. CASE s' = Yielded(x, t)
      BY <1>2, <1>4, <1>5, <2>3, YieldPlaced
    <2>. QED BY <1>1, <2>1, <2>2, <2>3
  <1>8. Linked(y) /\ s'.ev = y.ev /\ s'.task = y.task
    BY <1>3, <1>6, <1>7 DEF Waiting
  <1>9. s'.ev = s.ev /\ s'.sync = s.sync /\ s'.ready = s.ready
    BY <1>4, <1>7 DEF Waiting, Apart
  <1>10. Linked(s')
    BY <1>8 DEF Linked
  <1>11. Queued(s')
    BY <1>3, <1>9 DEF Queued, Turning
  <1>12. \A u \in Ids \ {t} : s'.task[u].terminate = s.task[u].terminate
    BY <1>4, <1>7
  <1>. QED BY <1>1, <1>7, <1>10, <1>11, <1>12, GivenTidy DEF t

LEMMA EventAddTidy ==
  ASSUME Typed, Tidy, NEW w \in Workers, sched_event_add(w)
  PROVE  Tidy'
  <1>. DEFINE t == cur[w]
  <1>1. pc[w] \in AtTask /\ cur' = [cur EXCEPT ![w] = NoTask]
    BY DEF sched_event_add, AfterTask, AtTask
  <1>2. /\ t \in Ids /\ t \in Runs /\ ~s.task[t].terminate /\ ~s.task[t].suspended /\ s.task[t].ev_op = NoTask
        /\ Leaving(s, Runs, t)
    BY <1>1, RunsGiven
  <1>3. /\ s \in Lists /\ Linked(s) /\ Queued(s) /\ s.sync \in Seq(Slots)
        /\ NoTask \notin Ids /\ NoTask \notin Slots /\ ToSet(s.ready) \subseteq Slots
        /\ \A e \in Slots : s.ev[e].task # NoTask => s.ev[e].task \in Ids
        /\ \A u \in Ids : s.task[u].ev_op # NoTask => s.task[u].ev_op \in Slots
    <2>1. s \in Lists /\ Linked(s) /\ Queued(s)
      BY DEF Typed, Tidy
    <2>2. s.sync \in Seq(Slots) /\ ToSet(s.ready) \subseteq Slots
      BY <2>1 DEF Lists, ToSet
    <2>3. /\ \A e \in Slots : s.ev[e].task # NoTask => s.ev[e].task \in Ids
          /\ \A u \in Ids : s.task[u].ev_op # NoTask => s.task[u].ev_op \in Slots
      BY <2>1 DEF Lists, Events, Tasks, Slots
    <2>. QED BY <2>1, <2>2, <2>3, Finite DEF Slots
  <1>. HIDE DEF t
  <1>4. PICK e \in Slots : s.ev[e] = NoEvent /\ sys_evq_sched_add(t, e)
    BY DEF sched_event_add, t
  <1>5. s.ev[e].task = NoTask /\ s.ev[e].state = "free"
    BY <1>4, EventTaskFree
  <1>6. PICK x \in Lists :
           /\ s' = Yielded(x, t)
           /\ \/ Awaits(x, s, t, e, "op") /\ x.sync = <<e>> \o s.sync
              \/ Awaits(x, s, t, e, "live") /\ x.sync = s.sync
              \/ x = s
    BY <1>2, <1>3, <1>4, SchedAddIs
  <1>7. Leaving(x, Runs, t) /\ ~x.task[t].terminate /\ \A u \in Ids \ {t} : x.task[u] = s.task[u]
    BY <1>2, <1>6 DEF Leaving, At, Awaits
  <1>8. Linked(x) /\ Queued(x)
    <2>1. CASE x = s
      BY <1>3, <2>1
    <2>2. ASSUME NEW l \in {"op", "live"}, Awaits(x, s, t, e, l) PROVE Linked(x)
      <3>1. ASSUME NEW u \in Ids, x.task[u].ev_op # NoTask
            PROVE  x.task[u].suspended /\ x.ev[x.task[u].ev_op].task = u
        <4>1. CASE u = t
          BY <2>2, <4>1 DEF Awaits
        <4>2. CASE u # t
          <5>1. x.task[u] = s.task[u] /\ s.task[u].ev_op \in Slots /\ s.task[u].suspended
                /\ s.ev[s.task[u].ev_op].task = u
            BY <1>3, <2>2, <3>1, <4>2 DEF Awaits, Linked
          <5>2. s.task[u].ev_op # e
            BY <1>3, <1>5, <5>1
          <5>. QED BY <2>2, <5>1, <5>2 DEF Awaits
        <4>. QED BY <4>1, <4>2
      <3>2. ASSUME NEW d \in Slots, x.ev[d].task # NoTask PROVE x.task[x.ev[d].task].ev_op = d
        <4>1. CASE d = e
          BY <2>2, <4>1 DEF Awaits
        <4>2. CASE d # e
          <5>1. x.ev[d] = s.ev[d] /\ s.ev[d].task \in Ids /\ s.task[s.ev[d].task].ev_op = d
            BY <1>3, <2>2, <3>2, <4>2 DEF Awaits, Linked
          <5>2. s.ev[d].task # t
            BY <1>2, <1>3, <5>1
          <5>. QED BY <2>2, <5>1, <5>2 DEF Awaits
        <4>. QED BY <4>1, <4>2
      <3>. QED BY <3>1, <3>2 DEF Linked
    <2>3. e \notin ToSet(s.sync) /\ e \notin ToSet(s.ready)
      BY <1>3, <1>5 DEF Queued, Turning
    <2>4. CASE Awaits(x, s, t, e, "op") /\ x.sync = <<e>> \o s.sync
      <3>1. ToSet(x.sync) = ToSet(s.sync) \cup {e} /\ IsRepeatFree(x.sync)
        BY <1>3, <2>3, <2>4, ConsSet DEF Queued
      <3>2. \A d \in Slots : x.ev[d].state = "op" <=> d \in ToSet(x.sync)
        BY <1>3, <2>4, <3>1 DEF Queued, Awaits
      <3>3. \A d \in ToSet(x.ready) : x.ev[d].state = "ready"
        BY <1>3, <2>3, <2>4 DEF Queued, Turning, Awaits
      <3>4. \A d \in Slots : (x.ev[d].state = "free" \/ (x.ev[d].state = "ready" /\ d \notin ToSet(x.ready)))
              => x.ev[d].task = NoTask
        BY <1>3, <2>4 DEF Queued, Turning, Awaits
      <3>5. Queued(x)
        BY <3>1, <3>2, <3>3, <3>4 DEF Queued, Turning
      <3>. QED BY <2>2, <2>4, <3>5
    <2>5. CASE Awaits(x, s, t, e, "live") /\ x.sync = s.sync
      <3>2. IsRepeatFree(x.sync) /\ \A d \in Slots : x.ev[d].state = "op" <=> d \in ToSet(x.sync)
        BY <1>3, <2>3, <2>5 DEF Queued, Awaits
      <3>3. \A d \in ToSet(x.ready) : x.ev[d].state = "ready"
        BY <1>3, <2>3, <2>5 DEF Queued, Turning, Awaits
      <3>4. \A d \in Slots : (x.ev[d].state = "free" \/ (x.ev[d].state = "ready" /\ d \notin ToSet(x.ready)))
              => x.ev[d].task = NoTask
        BY <1>3, <2>5 DEF Queued, Turning, Awaits
      <3>5. Queued(x)
        BY <3>2, <3>3, <3>4 DEF Queued, Turning
      <3>. QED BY <2>2, <2>5, <3>5
    <2>. QED BY <1>6, <2>1, <2>4, <2>5
  <1>9. Placed(s', Runs \ {t}) /\ s'.task = x.task /\ Waiting(s', x)
    BY <1>2, <1>6, <1>7, YieldPlaced
  <1>10. Linked(s') /\ Queued(s')
    BY <1>8, <1>9 DEF Linked, Queued, Turning, Waiting
  <1>11. \A u \in Ids \ {t} : s'.task[u].terminate = s.task[u].terminate
    BY <1>7, <1>9
  <1>. QED BY <1>1, <1>9, <1>10, <1>11, GivenTidy DEF t

LEMMA TakenPlaced ==
  ASSUME NEW st \in Lists, st.active # <<>>, NEW R, Placed(st, R)
  PROVE  LET x == [st EXCEPT !.active = Tail(@)]
             t == Head(st.active)
         IN  /\ x \in Lists /\ t \in Ids /\ t \notin R /\ x.task = st.task /\ Waiting(x, st)
             /\ Placed(x, R \cup {t}) /\ Leaving(x, R \cup {t}, t) /\ ~st.task[t].suspended
  <1>. DEFINE x == [st EXCEPT !.active = Tail(@)]
              t == Head(st.active)
  <1>1. /\ x \in Lists /\ x.active = Tail(st.active) /\ x.free = st.free
        /\ x.buf_idx = st.buf_idx /\ x.task = st.task /\ Waiting(x, st) /\ t \in Ids
    BY TakenIs
  <1>2. st.active \in Seq(Ids)
    BY DEF Lists
  <1>3. t \in ToSet(st.active) /\ ToSet(Tail(st.active)) = ToSet(st.active) \ {t} /\ IsRepeatFree(Tail(st.active))
    BY <1>2, TailSet DEF Placed
  <1>. HIDE DEF x, t
  <1>4. ToSet(x.active) = ToSet(st.active) \ {t} /\ IsRepeatFree(x.active)
    BY <1>1, <1>3
  <1>5. At(st, R, t)
    BY <1>1 DEF Placed
  <1>6. t \notin R /\ ~st.task[t].suspended /\ t \notin ToSet(st.free) /\ t < st.buf_idx
    BY <1>3, <1>5 DEF At
  <1>7. At(x, R \cup {t}, t)
    BY <1>1, <1>4, <1>6 DEF At
  <1>8. ASSUME NEW u \in Ids \ {t} PROVE At(x, R \cup {t}, u)
    <2>1. At(st, R, u)
      BY DEF Placed
    <2>. QED BY <1>1, <1>4, <2>1 DEF At
  <1>9. Placed(x, R \cup {t})
    BY <1>1, <1>4, <1>7, <1>8 DEF Placed
  <1>10. Leaving(x, R \cup {t}, t)
    BY <1>1, <1>4, <1>6, <1>8 DEF Placed, Leaving
  <1>. QED BY <1>1, <1>6, <1>9, <1>10 DEF x, t

LEMMA DropTidy ==
  ASSUME Typed, Tidy, NEW w \in Workers, DropTerminated(w)
  PROVE  Tidy'
  <1>. DEFINE t == Head(s.active)
              x == [s EXCEPT !.active = Tail(@)]
              y == sched_task_del(x, t)
  <1>1. s.active # <<>> /\ s' = y /\ cur' = cur
    BY DEF DropTerminated
  <1>2. s \in Lists /\ Placed(s, Runs) /\ Linked(s) /\ Queued(s)
    BY DEF Typed, Tidy
  <1>3. /\ x \in Lists /\ t \in Ids /\ t \notin Runs /\ x.task = s.task /\ Waiting(x, s)
        /\ Leaving(x, Runs \cup {t}, t) /\ ~s.task[t].suspended
    BY <1>1, <1>2, TakenPlaced
  <1>. HIDE DEF x, t
  <1>4. Placed(y, (Runs \cup {t}) \ {t}) /\ y.task = x.task /\ Waiting(y, x)
    BY <1>3, DelPlaced
  <1>. HIDE DEF y
  <1>5. (Runs \cup {t}) \ {t} = Runs
    BY <1>3
  <1>6. Placed(s', Runs)
    BY <1>1, <1>4, <1>5
  <1>7. s'.task = s.task /\ s'.ev = s.ev /\ s'.sync = s.sync /\ s'.ready = s.ready
    BY <1>1, <1>3, <1>4 DEF Waiting
  <1>8. Linked(s') /\ Queued(s')
    BY <1>2, <1>7 DEF Linked, Queued, Turning
  <1>. QED BY <1>1, <1>6, <1>7, <1>8, ListsTidy

LEMMA RunTidy ==
  ASSUME Typed, Tidy, NEW w \in Workers, RunTask(w)
  PROVE  Tidy'
  <1>. DEFINE t == Head(s.active)
              x == [s EXCEPT !.active = Tail(@)]
  <1>1. /\ s.active # <<>> /\ s' = x /\ cur' = [cur EXCEPT ![w] = t] /\ pc[w] = "top" /\ ~s.task[t].terminate
    BY DEF RunTask
  <1>2. s \in Lists /\ Placed(s, Runs) /\ Linked(s) /\ Queued(s)
    BY DEF Typed, Tidy
  <1>3. /\ t \in Ids /\ t \notin Runs /\ x.task = s.task /\ Waiting(x, s) /\ Placed(x, Runs \cup {t})
    BY <1>1, <1>2, TakenPlaced
  <1>. HIDE DEF x, t
  <1>4. \A u \in Workers : cur'[u] = IF u = w THEN t ELSE cur[u]
    BY <1>1 DEF Typed
  <1>5. cur[w] = NoTask /\ NoTask \notin Ids
    BY <1>1, Finite DEF Typed, AtTask
  <1>6. Runs' = Runs \cup {t}
    <2>1. \A v \in Runs' : v \in Runs \cup {t}
      BY <1>4 DEF Runs
    <2>2. \A v \in Runs : v \in Runs'
      BY <1>4, <1>5 DEF Runs
    <2>3. t \in Runs'
      BY <1>3, <1>4 DEF Runs
    <2>. QED BY <2>1, <2>2, <2>3
  <1>7. ASSUME NEW u \in Workers, NEW v \in Workers, cur'[u] = cur'[v], cur'[u] # NoTask PROVE u = v
    <2>1. \A a \in Workers : cur[a] # t
      BY <1>3 DEF Runs
    <2>. QED BY <1>4, <1>7, <2>1 DEF Tidy, Held
  <1>8. s'.task = s.task /\ s'.ev = s.ev /\ s'.sync = s.sync /\ s'.ready = s.ready
    BY <1>1, <1>3 DEF Waiting
  <1>9. Linked(s') /\ Queued(s')
    BY <1>2, <1>8 DEF Linked, Queued, Turning
  <1>10. \A u \in Runs' : ~s'.task[u].terminate
    BY <1>1, <1>6, <1>8 DEF Tidy, Held
  <1>11. Held'
    BY <1>7, <1>10 DEF Held
  <1>12. Placed(s', Runs')
    BY <1>1, <1>3, <1>6
  <1>. QED BY <1>9, <1>11, <1>12 DEF Tidy

LEMMA ResumeTidy ==
  ASSUME Typed, Tidy, NEW w \in Callers, NEW t \in Ids, sched_resume(w, t)
  PROVE  Tidy'
  <1>. DEFINE x == [Activate(s, t) EXCEPT !.task[t].suspended = FALSE]
  <1>1. s' = x /\ cur' = cur /\ s.task[t].suspended /\ s.task[t].ev_op = NoTask
    BY DEF sched_resume
  <1>2. s \in Lists /\ Placed(s, Runs) /\ Linked(s) /\ Queued(s) /\ s.active \in Seq(Ids)
    BY DEF Typed, Tidy, Lists
  <1>3. /\ Apart(x, s) /\ x.active = Append(s.active, t) /\ x.ev = s.ev
        /\ x.task[t].suspended = FALSE /\ x.task[t].terminate = s.task[t].terminate
        /\ x.task[t].ev_op = s.task[t].ev_op
        /\ \A u \in Ids \ {t} : x.task[u] = s.task[u]
    BY <1>2, ResumedIs
  <1>. HIDE DEF x
  <1>4. t \notin ToSet(s.active) /\ t \notin ToSet(s.free) /\ t \notin Runs /\ t < s.buf_idx
    BY <1>1, <1>2 DEF Placed, At
  <1>5. ToSet(x.active) = ToSet(s.active) \cup {t} /\ IsRepeatFree(x.active)
    BY <1>2, <1>3, <1>4, AppendSet DEF Placed
  <1>6. At(x, Runs, t)
    BY <1>3, <1>4, <1>5 DEF At, Apart
  <1>7. ASSUME NEW u \in Ids \ {t} PROVE At(x, Runs, u)
    <2>1. At(s, Runs, u)
      BY <1>2 DEF Placed
    <2>. QED BY <1>3, <1>5, <2>1 DEF At, Apart
  <1>8. Placed(x, Runs)
    BY <1>2, <1>3, <1>5, <1>6, <1>7 DEF Placed, Apart
  <1>9. Linked(x)
    BY <1>1, <1>2, <1>3, LinkedKept
  <1>10. Queued(x)
    BY <1>2, <1>3 DEF Queued, Turning, Apart
  <1>11. \A u \in Runs : s'.task[u].terminate = s.task[u].terminate
    BY <1>1, <1>3 DEF Runs
  <1>. QED BY <1>1, <1>8, <1>9, <1>10, <1>11, ListsTidy

LEMMA PutTidy ==
  ASSUME Typed, Tidy, NEW w \in Callers, sched_put(w)
  PROVE  Tidy'
  <1>. DEFINE t == Allocated(s)
              x == [Activate(sched_task_alloc(s), t) EXCEPT !.task[t] = NewTask, !.ntasks = @ + 1]
  <1>1. s' = x /\ cur' = cur /\ CanAllocate(s)
    BY DEF sched_put
  <1>2. /\ s \in Lists /\ Numbered(s) /\ Placed(s, Runs) /\ Linked(s) /\ Queued(s) /\ s.active \in Seq(Ids)
        /\ s.free \in Seq(Ids) /\ s.buf_idx \in Int /\ \A u \in Ids : u \in Int
    <2>1. s \in Lists /\ Numbered(s) /\ Placed(s, Runs) /\ Linked(s) /\ Queued(s)
      BY DEF Typed, Tidy
    <2>2. s.active \in Seq(Ids) /\ s.free \in Seq(Ids) /\ s.buf_idx \in 0..MaxTasks
      BY <2>1 DEF Lists
    <2>. QED BY <2>1, <2>2, Finite DEF Ids
  <1>3. /\ t \in Ids /\ x.active = Append(s.active, t) /\ Waiting(x, s)
        /\ x.task[t] = NewTask /\ \A u \in Ids \ {t} : x.task[u] = s.task[u]
        /\ \/ /\ s.free # <<>> /\ x.free = Tail(s.free) /\ x.buf_idx = s.buf_idx
              /\ t = Head(s.free)
           \/ /\ s.free = <<>> /\ x.free = s.free /\ x.buf_idx = s.buf_idx + 1
              /\ t = s.buf_idx
    BY <1>1, <1>2, PutIs
  <1>. HIDE DEF x, t
  <1>4. At(s, Runs, t)
    BY <1>2, <1>3 DEF Placed
  <1>5. /\ ToSet(x.free) = ToSet(s.free) \ {t} /\ IsRepeatFree(x.free) /\ t < x.buf_idx
        /\ \A u \in Ids \ {t} : u < x.buf_idx <=> u < s.buf_idx
        /\ t \notin ToSet(s.active) /\ t \notin Runs /\ ~s.task[t].suspended
    <2>1. CASE s.free # <<>> /\ x.free = Tail(s.free) /\ x.buf_idx = s.buf_idx /\ t = Head(s.free)
      <3>1. t \in ToSet(s.free) /\ ToSet(x.free) = ToSet(s.free) \ {t} /\ IsRepeatFree(x.free)
        BY <1>2, <2>1, TailSet DEF Placed
      <3>. QED BY <1>4, <2>1, <3>1 DEF At
    <2>2. CASE s.free = <<>> /\ x.free = s.free /\ x.buf_idx = s.buf_idx + 1 /\ t = s.buf_idx
      <3>1. ~(t < s.buf_idx) /\ t < x.buf_idx
        BY <1>2, <2>2
      <3>2. \A u \in Ids \ {t} : u < x.buf_idx <=> u < s.buf_idx
        BY <1>2, <2>2
      <3>3. t \notin ToSet(s.free) /\ t \notin ToSet(s.active) /\ t \notin Runs /\ ~s.task[t].suspended
        BY <1>4, <3>1 DEF At
      <3>. QED BY <1>2, <2>2, <3>1, <3>2, <3>3 DEF Placed
    <2>. QED BY <1>3, <2>1, <2>2
  <1>6. ToSet(x.active) = ToSet(s.active) \cup {t} /\ IsRepeatFree(x.active)
    BY <1>2, <1>3, <1>5, AppendSet DEF Placed
  <1>7. NewTask.suspended = FALSE /\ NewTask.ev_op = NoTask
    BY DEF NewTask
  <1>8. At(x, Runs, t)
    BY <1>3, <1>5, <1>6, <1>7 DEF At
  <1>9. ASSUME NEW u \in Ids \ {t} PROVE At(x, Runs, u)
    <2>1. At(s, Runs, u)
      BY <1>2 DEF Placed
    <2>. QED BY <1>3, <1>5, <1>6, <2>1 DEF At
  <1>10. Placed(x, Runs)
    BY <1>5, <1>6, <1>8, <1>9 DEF Placed
  <1>11. Linked(x)
    <2>1. s.task[t].ev_op = NoTask
      BY <1>2, <1>3, <1>5 DEF Linked
    <2>2. x.task[t].ev_op = NoTask /\ x.ev = s.ev
      BY <1>3, <1>7 DEF Waiting
    <2>. QED BY <1>2, <1>3, <2>1, <2>2, LinkedKept
  <1>12. Queued(x)
    BY <1>2, <1>3 DEF Queued, Turning, Waiting
  <1>13. \A u \in Runs : s'.task[u].terminate = s.task[u].terminate
    BY <1>1, <1>3, <1>5 DEF Runs
  <1>. QED BY <1>1, <1>10, <1>11, <1>12, <1>13, ListsTidy

LEMMA TerminateTidy ==
  ASSUME Orderly, Typed, Tidy, NEW w \in Callers, NEW t \in Ids, sched_terminate(w, t)
  PROVE  Tidy'
  <1>. DEFINE e == s.task[t].ev_op
  <1>1. cur' = cur /\ StateOf(t) \in Terminates
    BY DEF sched_terminate
  <1>2. /\ s \in Lists /\ Placed(s, Runs) /\ Linked(s) /\ Queued(s) /\ s.active \in Seq(Ids)
        /\ s.ready \in Seq(Slots) /\ s.task[t].suspended \in BOOLEAN
        /\ \A d \in Slots : s.ev[d].task # NoTask => s.ev[d].task \in Ids
        /\ \A u \in Ids : s.task[u].ev_op # NoTask => s.task[u].ev_op \in Slots
        /\ \A d \in Slots : s.ev[d].state \in {"free", "op", "live", "ready"}
    <2>1. s \in Lists /\ Placed(s, Runs) /\ Linked(s) /\ Queued(s)
      BY DEF Typed, Tidy
    <2>2. s.active \in Seq(Ids) /\ s.ready \in Seq(Slots) /\ s.task[t].suspended \in BOOLEAN
      BY <2>1 DEF Lists, Tasks
    <2>3. /\ \A d \in Slots : s.ev[d].task # NoTask => s.ev[d].task \in Ids
          /\ \A u \in Ids : s.task[u].ev_op # NoTask => s.task[u].ev_op \in Slots
          /\ \A d \in Slots : s.ev[d].state \in {"free", "op", "live", "ready"}
      BY <2>1 DEF Lists, Events, Tasks, Slots
    <2>. QED BY <2>1, <2>2, <2>3
  <1>3. t \notin Runs
    <2>. SUFFICES ASSUME t \in Runs PROVE FALSE
      OBVIOUS
    <2>1. t \notin ToSet(s.free) /\ t \notin ToSet(s.active)
      BY <1>2 DEF Placed, At
    <2>2. PICK v \in Workers : cur[v] = t
      BY DEF Runs
    <2>3. pc[v] \in AtTask
      BY <2>2, Finite DEF Typed
    <2>4. Running(t)
      BY <2>2, <2>3 DEF Running, AtTask
    <2>5. StateOf(t) = "running"
      BY <2>1, <2>4 DEF StateOf
    <2>. QED BY <1>1, <2>5 DEF Orderly
  <1>4. Terminated(s', t)
    BY <1>2, TerminatedIs
  <1>5. /\ s'.free = s.free /\ s'.buf_idx = s.buf_idx /\ s'.sync = s.sync
        /\ s'.active = (IF s.task[t].suspended THEN Append(s.active, t) ELSE s.active)
        /\ s'.task[t].suspended = FALSE /\ s'.task[t].ev_op = NoTask
        /\ \A u \in Ids \ {t} : s'.task[u] = s.task[u]
    BY <1>4 DEF Terminated
  <1>6. At(s, Runs, t)
    BY <1>2 DEF Placed
  <1>7. /\ ToSet(s'.active) = ToSet(s.active) \cup (IF s.task[t].suspended THEN {t} ELSE {})
        /\ IsRepeatFree(s'.active)
    <2>1. CASE s.task[t].suspended
      <3>1. t \notin ToSet(s.active)
        BY <1>6, <2>1 DEF At
      <3>. QED BY <1>2, <1>5, <2>1, <3>1, AppendSet DEF Placed
    <2>2. CASE ~s.task[t].suspended
      BY <1>2, <1>5, <2>2 DEF Placed
    <2>. QED BY <2>1, <2>2
  <1>8. At(s', Runs, t)
    BY <1>3, <1>5, <1>6, <1>7 DEF At
  <1>9. ASSUME NEW u \in Ids \ {t} PROVE At(s', Runs, u)
    <2>1. At(s, Runs, u)
      BY <1>2 DEF Placed
    <2>. QED BY <1>5, <1>7, <2>1 DEF At
  <1>10. Placed(s', Runs)
    BY <1>2, <1>5, <1>7, <1>8, <1>9 DEF Placed
  <1>11. Linked(s') /\ Queued(s')
    <2>1. CASE e = NoTask
      <3>1. s'.ready = s.ready /\ s'.ev = s.ev
        <4>1. NoTask \notin Slots
          BY Finite DEF Slots
        <4>. QED BY <1>4, <2>1, <4>1 DEF Terminated
      <3>2. Linked(s')
        BY <1>2, <1>5, <2>1, <3>1, LinkedKept
      <3>3. Queued(s')
        BY <1>2, <1>5, <3>1 DEF Queued, Turning
      <3>. QED BY <3>2, <3>3
    <2>2. CASE e # NoTask
      <3>1. e \in Slots /\ s.task[t].suspended /\ s.ev[e].task = t /\ t # NoTask
        BY <1>2, <2>2, Finite DEF Linked
      <3>2. s.ev[e].state \in {"op", "live"}
        <4>1. s.ev[e].state \in {"free", "op", "live", "ready"} /\ s.ev[e].state # "free"
          BY <1>2, <3>1 DEF Queued, Turning
        <4>2. s.ev[e].state # "ready"
          <5>. SUFFICES ASSUME s.ev[e].state = "ready" PROVE FALSE
            OBVIOUS
          <5>1. t \notin ToSet(s.free) /\ t \notin ToSet(s.active)
            BY <1>6, <3>1 DEF At
          <5>2. ~Running(t)
            <6>. SUFFICES ASSUME NEW v \in Workers, cur[v] = t PROVE FALSE
              BY DEF Running
            <6>. QED BY <1>3 DEF Runs
          <5>3. StateOf(t) = "event ready"
            BY <2>2, <5>1, <5>2 DEF StateOf
          <5>. QED BY <1>1, <5>3 DEF Orderly
        <4>. QED BY <4>1, <4>2
      <3>3. /\ \A d \in Slots \ {e} : s'.ev[d] = s.ev[d]
            /\ s'.ev[e].task = NoTask
            /\ \/ s.ev[e].state = "op" /\ s'.ev[e].state = "op" /\ s'.ready = s.ready
               \/ s.ev[e].state = "live" /\ s'.ev[e].state = "ready" /\ s'.ready = <<e>> \o s.ready
        BY <1>4, <2>2, <3>2 DEF Terminated
      <3>. HIDE DEF e
      <3>4. s.task[t].ev_op = e
        BY DEF e
      <3>5. ASSUME NEW u \in Ids, s'.task[u].ev_op # NoTask
            PROVE  s'.task[u].suspended /\ s'.ev[s'.task[u].ev_op].task = u
        <4>1. u # t /\ s'.task[u] = s.task[u]
          BY <1>5, <3>5
        <4>2. s.task[u].ev_op \in Slots /\ s.task[u].suspended /\ s.ev[s.task[u].ev_op].task = u
          BY <1>2, <3>5, <4>1 DEF Linked
        <4>3. s.task[u].ev_op # e
          BY <3>1, <4>1, <4>2
        <4>. QED BY <3>3, <4>1, <4>2, <4>3
      <3>6. ASSUME NEW d \in Slots, s'.ev[d].task # NoTask PROVE s'.task[s'.ev[d].task].ev_op = d
        <4>1. d # e /\ s'.ev[d] = s.ev[d]
          BY <3>3, <3>6
        <4>2. s.ev[d].task \in Ids /\ s.task[s.ev[d].task].ev_op = d
          BY <1>2, <3>6, <4>1 DEF Linked
        <4>3. s.ev[d].task # t
          BY <3>4, <4>1, <4>2
        <4>. QED BY <1>5, <4>1, <4>2, <4>3
      <3>7. Linked(s')
        BY <3>5, <3>6 DEF Linked
      <3>8. ToSet(s'.ready) = ToSet(s.ready) \cup (IF s.ev[e].state = "live" THEN {e} ELSE {})
            /\ ToSet(s.ready) \subseteq Slots
        <4>1. ToSet(<<e>> \o s.ready) = ToSet(s.ready) \cup {e}
          BY <1>2, <3>1, ConsSet
        <4>2. ToSet(s.ready) \subseteq Slots
          BY <1>2 DEF ToSet
        <4>. QED BY <3>3, <4>1, <4>2
      <3>9. \A d \in Slots : s'.ev[d].state = "op" <=> d \in ToSet(s'.sync)
        BY <1>2, <1>5, <3>3 DEF Queued
      <3>10. \A d \in ToSet(s'.ready) : s'.ev[d].state = "ready"
        BY <1>2, <3>3, <3>8 DEF Queued, Turning
      <3>11. \A d \in Slots : (s'.ev[d].state = "free" \/ (s'.ev[d].state = "ready" /\ d \notin ToSet(s'.ready)))
               => s'.ev[d].task = NoTask
        BY <1>2, <3>3, <3>8 DEF Queued, Turning
      <3>12. Queued(s')
        BY <1>2, <1>5, <3>9, <3>10, <3>11 DEF Queued, Turning
      <3>. QED BY <3>7, <3>12
    <2>. QED BY <2>1, <2>2
  <1>12. \A u \in Runs : s'.task[u].terminate = s.task[u].terminate
    BY <1>3, <1>5 DEF Runs
  <1>. QED BY <1>1, <1>10, <1>11, <1>12, ListsTidy

LEMMA TidyStep ==
  ASSUME Orderly, Typed, Tidy, [Next]_vars
  PROVE  Tidy'
  <1>1. ASSUME NEW w \in Workers,
               \/ sched_loop(w) \/ StopLeave(w) \/ IdleLeave(w) \/ GoWait(w) \/ Woken(w) \/ Unblock(w)
               \/ Spurious(w) \/ TimesOut(w) \/ TimeoutLeave(w) \/ BlockTask(w)
               \/ CheckFails(w) \/ EndsBlocked(w)
        PROVE  Tidy'
    <2>1. s' = s /\ cur' = cur
      BY <1>1 DEF sched_loop, StopLeave, IdleLeave, GoWait, Woken, Unblock, Spurious, TimesOut, TimeoutLeave,
                  BlockTask, CheckFails, EndsBlocked
    <2>. QED BY <2>1, KeptTidy
  <1>2. ASSUME NEW w \in Callers, sched_stop(w) PROVE Tidy'
    <2>1. s' = s /\ cur' = cur
      BY <1>2 DEF sched_stop
    <2>. QED BY <2>1, KeptTidy
  <1>3. CASE sched_preempt_tasks \/ UNCHANGED vars
    <2>1. s' = s /\ cur' = cur
      BY <1>3 DEF sched_preempt_tasks, vars
    <2>. QED BY <2>1, KeptTidy
  <1>4. ASSUME NEW w \in Workers, WorkerStep(w) PROVE Tidy'
    BY <1>1, <1>4, EvqTidy, DropTidy, RunTidy DEF WorkerStep
  <1>5. ASSUME NEW w \in Workers, TaskStep(w) PROVE Tidy'
    BY <1>1, <1>5, EndTidy, EventAddTidy DEF TaskStep
  <1>6. ASSUME NEW w \in Workers, EvqReturns(w) \/ EvqOwnEvent(w) \/ EvqFails(w) PROVE Tidy'
    BY <1>6, EvqTidy, EvqFailsTidy
  <1>7. ASSUME NEW w \in Callers, Call(w) PROVE Tidy'
    BY <1>2, <1>7, PutTidy, ResumeTidy, TerminateTidy DEF Call
  <1>. QED BY <1>1, <1>3, <1>4, <1>5, <1>6, <1>7 DEF Next

LEMMA TidyInit ==
  ASSUME Init
  PROVE  Tidy
  <1>1. /\ s.free = <<>> /\ s.active = <<>> /\ s.sync = <<>> /\ s.ready = <<>> /\ s.buf_idx = 0
        /\ s.task = [t \in Ids |-> NewTask] /\ s.ev = [e \in Slots |-> NoEvent]
        /\ cur = [w \in Workers |-> NoTask]
    BY DEF Init
  <1>2. ToSet(<<>>) = {} /\ IsRepeatFree(<<>>)
    <2>1. DOMAIN <<>> = {}
      OBVIOUS
    <2>. QED BY <2>1 DEF ToSet, IsRepeatFree
  <1>3. NoTask \notin Ids /\ \A t \in Ids : t \in Nat
    <2>1. NoTask \notin Ids /\ MaxTasks \in Nat
      BY Finite
    <2>2. \A t \in 0..(MaxTasks - 1) : t \in Nat
      BY <2>1
    <2>. QED BY <2>1, <2>2 DEF Ids
  <1>4. Runs = {}
    BY <1>1, <1>3 DEF Runs
  <1>5. \A t \in Ids : ~s.task[t].suspended /\ s.task[t].ev_op = NoTask
    BY <1>1 DEF NewTask
  <1>6. \A e \in Slots : s.ev[e].state = "free" /\ s.ev[e].task = NoTask
    BY <1>1 DEF NoEvent
  <1>7. Placed(s, Runs)
    BY <1>1, <1>2, <1>3, <1>4, <1>5 DEF Placed, At
  <1>8. Linked(s)
    BY <1>5, <1>6 DEF Linked
  <1>9. Queued(s)
    BY <1>1, <1>2, <1>6 DEF Queued, Turning
  <1>10. Held
    BY <1>1, <1>4 DEF Held
  <1>. QED BY <1>7, <1>8, <1>9, <1>10 DEF Tidy

LEMMA TasksInvariant == Orderly => (Spec => [](Typed /\ Manned /\ Tidy))
  <1>1. Init => Tidy
    BY TidyInit
  <1>2. Orderly /\ Typed /\ Tidy /\ [Next]_vars => Tidy'
    BY TidyStep
  <1>3. Orderly => Orderly'
    BY DEF Orderly
  <1>. QED BY <1>1, <1>2, <1>3, WorkersInvariant, PTL DEF Spec

\* Four disjoint sets that make up a finite one.
LEMMA FourParts ==
  ASSUME NEW K, IsFiniteSet(K), NEW A, NEW B, NEW C, NEW D, A \cup B \cup C \cup D = K,
         A \cap B = {}, (A \cup B) \cap C = {}, (A \cup B \cup C) \cap D = {}
  PROVE  Cardinality(A) + Cardinality(B) + Cardinality(C) + Cardinality(D) = Cardinality(K)
  <1>1. /\ A \in SUBSET K /\ B \in SUBSET K /\ C \in SUBSET K /\ D \in SUBSET K
        /\ A \cup B \in SUBSET K /\ A \cup B \cup C \in SUBSET K
    OBVIOUS
  <1>2. /\ IsFiniteSet(A) /\ IsFiniteSet(B) /\ IsFiniteSet(C) /\ IsFiniteSet(D)
        /\ IsFiniteSet(A \cup B) /\ IsFiniteSet(A \cup B \cup C)
    BY <1>1, FS_Subset
  <1>3. /\ Cardinality(A) \in Nat /\ Cardinality(B) \in Nat /\ Cardinality(C) \in Nat
        /\ Cardinality(D) \in Nat /\ Cardinality(A \cup B) \in Nat /\ Cardinality(A \cup B \cup C) \in Nat
    BY <1>2, FS_CardinalityType
  <1>4. /\ Cardinality(A \cap B) = 0 /\ Cardinality((A \cup B) \cap C) = 0
        /\ Cardinality((A \cup B \cup C) \cap D) = 0
    BY FS_EmptySet
  <1>5. Cardinality(A \cup B) = Cardinality(A) + Cardinality(B) - Cardinality(A \cap B)
    BY <1>2, FS_Union
  <1>6. Cardinality((A \cup B) \cup C) = Cardinality(A \cup B) + Cardinality(C) - Cardinality((A \cup B) \cap C)
    BY <1>2, FS_Union
  <1>7. Cardinality((A \cup B \cup C) \cup D)
          = Cardinality(A \cup B \cup C) + Cardinality(D) - Cardinality((A \cup B \cup C) \cap D)
    BY <1>2, FS_Union
  <1>8. Cardinality(A \cup B) = Cardinality(A) + Cardinality(B)
    BY <1>3, <1>4, <1>5
  <1>9. Cardinality(A \cup B \cup C) = Cardinality(A) + Cardinality(B) + Cardinality(C)
    BY <1>3, <1>4, <1>6, <1>8
  <1>10. Cardinality(K) = Cardinality(A \cup B \cup C) + Cardinality(D)
    <2>1. K = (A \cup B \cup C) \cup D
      OBVIOUS
    <2>. QED BY <1>3, <1>4, <1>7, <2>1
  <1>. QED BY <1>3, <1>9, <1>10

LEMMA OnePlaceFollows ==
  ASSUME Typed, Tidy
  PROVE  OnePlace
  <1>. DEFINE free == ToSet(s.free)
              active == ToSet(s.active)
              running == {t \in Known : Running(t)}
  <1>1. s \in Lists /\ s.free \in Seq(Ids) /\ s.active \in Seq(Ids)
    BY DEF Typed, Lists
  <1>2. free \subseteq Ids /\ active \subseteq Ids
    BY <1>1 DEF ToSet
  <1>3. \A t \in Ids : At(s, Runs, t)
    BY DEF Tidy, Placed
  <1>4. \A t \in Ids : Running(t) <=> t \in Runs
    <2>1. \A w \in Workers : cur[w] # NoTask <=> pc[w] \in AtTask
      BY DEF Typed
    <2>2. NoTask \notin Ids
      BY Finite
    <2>. QED BY <2>1, <2>2 DEF Running, Runs, AtTask
  <1>5. Known \subseteq Ids /\ \A t \in Ids : t \in Known <=> t < s.buf_idx
    BY DEF Known
  <1>6. \A t \in Ids : t \in running <=> t \in Runs
    BY <1>3, <1>4, <1>5 DEF At
  <1>7. \A t \in Ids : t \in Suspended <=> s.task[t].suspended
    BY <1>3, <1>5 DEF At, Suspended
  <1>8. running \subseteq Ids /\ Suspended \subseteq Ids
    BY <1>5 DEF Suspended
  <1>. HIDE DEF free, active, running
  <1>9. \A t \in Ids : /\ (t \in free \/ t \in active \/ t \in running \/ t \in Suspended) <=> t \in Known
                       /\ ~(t \in free /\ t \in active) /\ ~(t \in free /\ t \in running)
                       /\ ~(t \in free /\ t \in Suspended) /\ ~(t \in active /\ t \in running)
                       /\ ~(t \in active /\ t \in Suspended) /\ ~(t \in running /\ t \in Suspended)
    BY <1>3, <1>5, <1>6, <1>7 DEF At, free, active
  <1>10. free \cup active \cup running \cup Suspended = Known
    BY <1>2, <1>5, <1>8, <1>9
  <1>11. /\ free \cap active = {} /\ (free \cup active) \cap running = {}
         /\ (free \cup active \cup running) \cap Suspended = {}
    BY <1>2, <1>5, <1>8, <1>9
  <1>12. IsFiniteSet(Known)
    <2>1. IsFiniteSet(Ids) /\ Known \in SUBSET Ids
      BY <1>5, Finite
    <2>. QED BY <2>1, FS_Subset
  <1>13. Cardinality(free) + Cardinality(active) + Cardinality(running) + Cardinality(Suspended)
           = Cardinality(Known)
    BY <1>10, <1>11, <1>12, FourParts
  <1>14. /\ IsRepeatFree(s.free) /\ IsRepeatFree(s.active)
         /\ \A v, w \in Workers : cur[v] = cur[w] /\ cur[v] # NoTask => v = w
    BY DEF Tidy, Placed, Held
  <1>. QED BY <1>10, <1>13, <1>14 DEF OnePlace, free, active, running

\* A task is free, active, suspended or with one worker, never in two of these places at
\* once, and the counters of the scheduler are exact: the links prev_id and next_id that the
\* lists share never tie them together (thread_sched.c:76).  A worker that sys_thread_check
\* took away (thread_sched.c:370) is counted for good.  Orderly is needed: a running task that
\* is terminated and then suspends itself is freed suspended; a task terminated between the
\* occurrence of its event and the callback leaves an event behind that still names it.
THEOREM ConsistentCorrect == Orderly => (Spec => []Consistent)
  <1>1. Typed /\ Manned /\ Tidy => Consistent
    BY CountsFollow, OnePlaceFollows DEF Consistent
  <1>. QED BY <1>1, TasksInvariant, PTL

LEMMA EventsFollow ==
  ASSUME Typed, Tidy
  PROVE  EventsMatch
  <1>1. Linked(s) /\ Queued(s)
    BY DEF Tidy
  <1>2. \A t \in Known : t \in Ids
    BY DEF Known
  <1>3. \A t \in Known : s.task[t].ev_op # NoTask =>
          t \in Suspended /\ s.ev[s.task[t].ev_op].task = t
    BY <1>1, <1>2 DEF Linked, Suspended
  <1>4. \A e \in Slots : s.ev[e].task # NoTask => s.task[s.ev[e].task].ev_op = e
    BY <1>1 DEF Linked
  <1>5. \A e \in Slots : s.ev[e].state = "op" <=> e \in ToSet(s.sync)
    BY <1>1 DEF Queued
  <1>6. \A e \in Slots : (s.ev[e].state = "op") = (e \in ToSet(s.sync))
    BY <1>5
  <1>. QED BY <1>3, <1>4, <1>6 DEF EventsMatch

\* A task that waits and the event or pending call it waits for know each other, through
\* sync points, failed calls, terminations and events that occur in any order: a callback
\* of the event queue never finds a task that is gone (lua_assert at thread_sched.c:147).
\* Again for programs in which no task is terminated while it runs or while its event is
\* ready (Orderly).
THEOREM EventsCorrect == Orderly => (Spec => []EventsMatch)
  <1>1. Typed /\ Tidy => EventsMatch
    BY EventsFollow
  <1>. QED BY <1>1, TasksInvariant, PTL


=============================================================================
