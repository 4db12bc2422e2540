---------------------------- MODULE TimeoutQueue ----------------------------
(***************************************************************************)
(* The timeouts of the event queue (timeout.c) and the part of evq_wait    *)
(* that is about time, with the calls that change timeouts: evq:add with a *)
(* timeout, evq:add_timer, evq:timeout, evq:timeout_manual, evq:notify,    *)
(* evq:del and evq:now.                                                    *)
(*                                                                         *)
(* Events with equal timeouts are in one doubly linked list, ordered by    *)
(* their deadlines.  The head of such a list (struct timeout_queue) lives  *)
(* in an event slot taken from evq->ev_free, and a map from milliseconds   *)
(* to heads finds it.  The links are kept as the code keeps them.  The     *)
(* ready list is a sequence; the free list is a set, as it does not matter *)
(* which free slot is taken.                                               *)
(*                                                                         *)
(* One thread is in evq:loop; the callers use the queue while that thread  *)
(* does not hold the VM's lock, and its callbacks use it too.              *)
(***************************************************************************)
EXTENDS Integers, Sequences, FiniteSets, SequencesExt

CONSTANTS
    Callers,      \* threads that call the queue's methods
    Msecs,        \* the timeouts that are asked for
    LoopTimeout,  \* the timeout of evq:loop, or INFINITE
    MIN_TIMEOUT,  \* an event expires when this is more than its time left
    Kinds,        \* the events that are added: [timer, oneshot : BOOLEAN]
    Manual,       \* the arguments of evq:timeout_manual
    HalfRange,    \* msec_t counts from -HalfRange to HalfRange - 1
    Slots,        \* the memory for struct event
    NULL,         \* no slot
    MaxCalls,     \* bound: calls
    MaxClock      \* bound: the clock

INFINITE == -1

ASSUME TimeoutAssumption ==
    /\ IsFiniteSet(Callers)
    /\ Msecs \subseteq Nat \ {0} /\ IsFiniteSet(Msecs)
    /\ LoopTimeout \in Nat \cup {INFINITE}
    /\ MIN_TIMEOUT \in Nat \ {0}
    /\ Kinds \subseteq [timer : BOOLEAN, oneshot : BOOLEAN]
    /\ Manual \subseteq BOOLEAN
    /\ HalfRange \in Nat \ {0}
    /\ IsFiniteSet(Slots) /\ NULL \notin Slots
    /\ MaxCalls \in Nat /\ MaxClock \in Nat

VARIABLES
    clock,    \* sys_milliseconds()
    now,      \* evq->now
    q,        \* the event slots and the lists of timeouts (see Queue)
    used,     \* slots taken from the buffers so far
    pc,       \* where the thread of evq:loop stands
    wake,     \* when its epoll_wait times out, or INFINITE
    entered,  \* history: the clock and evq->now when it went to sleep
    fetched,  \* what epoll_wait returned
    sig,      \* the eventfd is readable
    pending,  \* the call of each caller that waits in levq_control_wait
    late,     \* history: the lists changed after epoll_wait had timed out
    calls,    \* the number of calls made
    asked     \* history: the timeout each live event was given last (see Add)

loopVars == <<pc, wake, entered, fetched>>
vars == <<clock, now, q, used, loopVars, sig, pending, late, calls, asked>>

(***************************************************************************)
(* struct event, struct timeout_queue and their lists.                     *)
(***************************************************************************)
NoEvent == [evq |-> FALSE, timer |-> FALSE, oneshot |-> FALSE, manual |-> FALSE,
            active |-> FALSE, deleted |-> FALSE,
            tq |-> NULL, at |-> 0, prev |-> NULL, next |-> NULL]
NoQueue == [msec |-> 0, ev_head |-> NULL, ev_tail |-> NULL, tq_prev |-> NULL, tq_next |-> NULL]

EmptyQueue == [ev |-> [s \in Slots |-> NoEvent], tq |-> [s \in Slots |-> NoQueue],
               head |-> NULL, map |-> [m \in Msecs |-> NULL],
               free |-> {}, ready |-> <<>>]

\* The conversion to msec_t, a signed int.
Msec(x) == ((x + HalfRange) % (2 * HalfRange)) - HalfRange

MAX_TIMEOUT == HalfRange - 1

\* Free slots are alike.
AnySlot(S) == CHOOSE s \in S : TRUE

IsRepeatFree(s) == \A i, j \in DOMAIN s : s[i] = s[j] => i = j

\* A list that starts at h, as a sequence.
Chain(h, succ(_)) ==
    LET node[i \in Nat] == IF i = 0 THEN h
                           ELSE IF node[i - 1] = NULL THEN NULL ELSE succ(node[i - 1])
    IN  SelectSeq([i \in 1..Cardinality(Slots) |-> node[i - 1]], LAMBDA s : s # NULL)

Events(st, t) == Chain(st.tq[t].ev_head, LAMBDA e : st.ev[e].next)
Queues(st) == Chain(st.head, LAMBDA t : st.tq[t].tq_next)

Live(st) == {s \in Slots : st.ev[s].evq}

\* Mutant: an event is put after the others but keeps its old deadline.
timeout_resetKept(st, e, n) ==
    LET t == st.ev[e].tq
        p == st.ev[e].prev
        x == st.ev[e].next
        l == st.tq[t].ev_tail
        out == IF p # NULL THEN [st EXCEPT !.ev[p].next = x] ELSE [st EXCEPT !.tq[t].ev_head = x]
    IN  IF x = NULL THEN st
        ELSE [out EXCEPT !.ev[x].prev = p, !.ev[e].next = NULL, !.ev[e].prev = l,
                         !.ev[l].next = e, !.tq[t].ev_tail = e]

\* Mutant: the link back to the predecessor is not renewed.
timeout_resetLink(st, e, n) ==
    LET t == st.ev[e].tq
        at == [st EXCEPT !.ev[e].at = Msec(n + st.tq[t].msec)]
        p == st.ev[e].prev
        x == st.ev[e].next
        l == st.tq[t].ev_tail
        out == IF p # NULL THEN [at EXCEPT !.ev[p].next = x] ELSE [at EXCEPT !.tq[t].ev_head = x]
    IN  IF x = NULL THEN at
        ELSE [out EXCEPT !.ev[e].next = NULL, !.ev[e].prev = l,
                         !.ev[l].next = e, !.tq[t].ev_tail = e]

\* The deadline is renewed and the event goes to the end of its list.
timeout_reset(st, e, n) ==
    LET t == st.ev[e].tq
        at == [st EXCEPT !.ev[e].at = Msec(n + st.tq[t].msec)]
        p == st.ev[e].prev
        x == st.ev[e].next
        l == st.tq[t].ev_tail
        out == IF p # NULL THEN [at EXCEPT !.ev[p].next = x] ELSE [at EXCEPT !.tq[t].ev_head = x]
    IN  IF x = NULL THEN at
        ELSE [out EXCEPT !.ev[x].prev = p, !.ev[e].next = NULL, !.ev[e].prev = l,
                         !.ev[l].next = e, !.tq[t].ev_tail = e]

\* The head of a list that becomes empty leaves the list of heads and the
\* map, and its slot is free again.
DropQueue(st, t) ==
    LET p == st.tq[t].tq_prev
        x == st.tq[t].tq_next
        out == IF p # NULL THEN [st EXCEPT !.tq[p].tq_next = x] ELSE [st EXCEPT !.head = x]
        back == IF x # NULL THEN [out EXCEPT !.tq[x].tq_prev = p] ELSE out
    IN  [back EXCEPT !.free = @ \cup {t}, !.map[st.tq[t].msec] = NULL, !.tq[t] = NoQueue]

timeout_del(st, e) ==
    LET t == st.ev[e].tq
        p == st.ev[e].prev
        x == st.ev[e].next
        s0 == [st EXCEPT !.ev[e].tq = NULL, !.ev[e].at = 0, !.ev[e].prev = NULL, !.ev[e].next = NULL]
        s1 == IF p # NULL THEN [s0 EXCEPT !.ev[p].next = x] ELSE [s0 EXCEPT !.tq[t].ev_head = x]
    IN  IF t = NULL THEN st
        ELSE IF p = NULL /\ x = NULL THEN DropQueue(s0, t)
        ELSE IF x # NULL THEN [s1 EXCEPT !.ev[x].prev = p] ELSE [s1 EXCEPT !.tq[t].ev_tail = p]

\* levq_timeout_map finds the head for m; otherwise a free slot becomes it.
TakesSlot(st, m) == st.map[m] = NULL
timeout_add_fails(st, m) == TakesSlot(st, m) /\ st.free = {}

timeout_add(st, e, m, n) ==
    LET new == AnySlot(st.free)
        old == st.head
        s1 == [st EXCEPT !.free = @ \ {new}, !.head = new, !.map[m] = new,
                         !.tq[new] = [msec |-> m, ev_head |-> e, ev_tail |-> e,
                                      tq_prev |-> NULL, tq_next |-> old]]
        s2 == IF old # NULL THEN [s1 EXCEPT !.tq[old].tq_prev = new] ELSE s1
        t == st.map[m]
        l == st.tq[t].ev_tail
        s3 == [st EXCEPT !.ev[l].next = e, !.tq[t].ev_tail = e, !.ev[e].prev = l]
        placed == IF TakesSlot(st, m) THEN [s2 EXCEPT !.ev[e].prev = NULL] ELSE s3
    IN  [placed EXCEPT !.ev[e].next = NULL, !.ev[e].at = Msec(n + m), !.ev[e].tq = placed.map[m]]

evq_set_timeout_fails(st, e, m) ==
    /\ m # INFINITE
    /\ st.ev[e].tq = NULL \/ st.tq[st.ev[e].tq].msec # m
    /\ timeout_add_fails(timeout_del(st, e), m)

evq_set_timeout(st, e, m, n) ==
    IF st.ev[e].tq # NULL /\ st.tq[st.ev[e].tq].msec = m THEN timeout_reset(st, e, n)
    ELSE IF m = INFINITE \/ evq_set_timeout_fails(st, e, m) THEN timeout_del(st, e)
    ELSE timeout_add(timeout_del(st, e), e, m, n)

\* Mutant: only the list made last is looked at.
timeout_getFirst(st, min, n) ==
    IF st.head = NULL THEN min
    ELSE LET at == st.ev[st.tq[st.head].ev_head].at
             all == {at} \cup IF min = INFINITE THEN {} ELSE {Msec(min + n)}
             d == (CHOOSE a \in all : \A b \in all : a <= b) - n
         IN  IF d < 0 THEN 0 ELSE IF d > MAX_TIMEOUT THEN MAX_TIMEOUT ELSE d

\* How long to sleep: up to the first deadline or the loop's own timeout.
timeout_get(st, min, n) ==
    IF st.head = NULL THEN min
    ELSE LET heads == {st.ev[st.tq[t].ev_head].at : t \in ToSet(Queues(st))}
             all == heads \cup IF min = INFINITE THEN {} ELSE {Msec(min + n)}
             d == (CHOOSE a \in all : \A b \in all : a <= b) - n
         IN  IF d < 0 THEN 0 ELSE IF d > MAX_TIMEOUT THEN MAX_TIMEOUT ELSE d

\* Mutant: an event expires when its deadline has passed.
ExpiredAfter(at, n) == at < n

Expired(at, n) == at < n + MIN_TIMEOUT

\* The events at the front of list t that have expired become active and
\* ready, with a new deadline, and go to the end of the list.
Expire(st, t, n) ==
    LET es == Events(st, t)
        fresh == SelectInSeq(es, LAMBDA e : ~Expired(st.ev[e].at, n))
        k == IF fresh = 0 THEN Len(es) ELSE fresh - 1
        gone == SubSeq(es, 1, k)
        s1 == [st EXCEPT !.ready = Reverse(gone) \o @,
                         !.ev = [e \in Slots |-> IF e \in ToSet(gone)
                                   THEN [@[e] EXCEPT !.active = TRUE,
                                                     !.at = Msec(n + st.tq[t].msec)]
                                   ELSE @[e]]]
        l == st.tq[t].ev_tail
    IN  IF k = 0 \/ k = Len(es) THEN s1
        ELSE [s1 EXCEPT !.tq[t].ev_head = es[k + 1], !.ev[es[k + 1]].prev = NULL,
                        !.ev[l].next = es[1], !.ev[es[1]].prev = l,
                        !.tq[t].ev_tail = es[k], !.ev[es[k]].next = NULL]

timeout_process(st, n) == FoldLeft(LAMBDA s, t : Expire(s, t, n), st, Queues(st))

\* evq_del: the event leaves its list of timeouts and the queue.
evq_del(st, e) == [timeout_del(st, e) EXCEPT !.ev[e].evq = FALSE]

\* An event occurred (evq_process_active, and the same code in evq_wait).
evq_process_active(st, e, n) ==
    LET s1 == [st EXCEPT !.ev[e].active = TRUE]
        s2 == IF st.ev[e].oneshot THEN evq_del(s1, e)
              ELSE IF st.ev[e].tq # NULL /\ ~st.ev[e].manual THEN timeout_reset(s1, e, n) ELSE s1
    IN  IF st.ev[e].active THEN st ELSE [s2 EXCEPT !.ready = <<e>> \o @]

\* levq_del_event
FreeEvent(st, e) == [st EXCEPT !.free = @ \cup {e}, !.ev[e] = NoEvent]

-----------------------------------------------------------------------------
Awake == [at |-> 0, now |-> 0]

NoCall == [op |-> "none", e |-> NULL, m |-> 0]
Waits(c) == pending[c] # NoCall
Pending == {c \in Callers : Waits(c)}

Init ==
    /\ clock = 0 /\ now = 0
    /\ q = EmptyQueue
    /\ used = {}
    /\ pc = "out"
    /\ wake = INFINITE
    /\ entered = Awake
    /\ fetched = {}
    /\ sig = FALSE
    /\ pending = [c \in Callers |-> NoCall]
    /\ late = FALSE
    /\ calls = 0
    /\ asked = [s \in Slots |-> INFINITE]

\* The clock.  epoll_wait is punctual: no time passes between its wake-up
\* and its return.  The time that evq_wait's own code takes counts as the
\* callback's.
Tick ==
    /\ clock < MaxClock /\ pc \notin {"top", "next"}
    /\ pc = "epoll" => ~sig /\ (wake = INFINITE \/ clock < wake)
    /\ clock' = clock + 1
    /\ UNCHANGED <<now, q, used, loopVars, sig, pending, asked>>

(***************************************************************************)
(* evq:loop, lingering: evq_wait, then the callbacks of the ready events.  *)
(***************************************************************************)
levq_loop ==
    /\ pc = "out"
    /\ pc' = "top"
    /\ UNCHANGED <<clock, now, q, used, wake, entered, fetched, sig, pending, asked>>

\* The events that are alive afterwards keep what was asked for them.
Keep(st) == asked' = [s \in Slots |-> IF st.ev[s].evq THEN asked[s] ELSE INFINITE]

\* evq_wait goes to sleep, or processes timeouts at once.  The thread is
\* idle as long as calls are at work on the queue.
WaitEnter ==
    LET t == IF LoopTimeout = 0 THEN 0 ELSE timeout_get(q, LoopTimeout, now) IN
    /\ pc = "top" /\ q.ready = <<>> /\ Pending = {}
    /\ IF LoopTimeout # 0 /\ t = 0
       THEN /\ q' = timeout_process(q, now)
            /\ pc' = IF q'.ready = <<>> THEN "top" ELSE "next"
            /\ UNCHANGED <<wake, entered>>
       ELSE /\ pc' = "epoll"
            /\ wake' = IF t = INFINITE THEN INFINITE ELSE clock + t
            /\ entered' = [at |-> clock, now |-> now]
            /\ UNCHANGED q
    /\ UNCHANGED <<clock, now, used, fetched, sig, pending, asked>>

\* Ready events are there already.
WaitSkipped ==
    /\ pc = "top" /\ q.ready # <<>>
    /\ pc' = "next"
    /\ UNCHANGED <<clock, now, q, used, wake, entered, fetched, sig, pending, asked>>

\* epoll_wait returns descriptors or the eventfd (a descriptor may also be
\* one that was added while it slept) ...
EpollReturns ==
    /\ pc = "epoll"
    /\ \E S \in SUBSET {e \in Live(q) : ~q.ev[e].timer} :
         (S # {} \/ sig) /\ fetched' = S
    /\ pc' = "polled"
    /\ UNCHANGED <<clock, now, q, used, wake, entered, sig, pending, asked>>

\* ... or nothing when its time is over.
EpollTimesOut ==
    /\ pc = "epoll" /\ wake # INFINITE /\ clock >= wake /\ ~sig
    /\ pc' = "timed out"
    /\ UNCHANGED <<clock, now, q, used, wake, entered, fetched, sig, pending, asked>>

\* A signal handler ran: evq_wait takes the time and returns.
EpollInterrupted ==
    /\ pc = "epoll"
    /\ pc' = "interrupted"
    /\ UNCHANGED <<clock, now, q, used, wake, entered, fetched, sig, pending, asked>>

Interrupted ==
    /\ pc = "interrupted"
    /\ now' = Msec(clock)
    /\ wake' = INFINITE /\ entered' = Awake
    /\ pc' = IF q.ready = <<>> THEN "top" ELSE "next"
    /\ UNCHANGED <<clock, q, used, fetched, sig, pending, asked>>

\* The rest of evq_wait after events.  The local variable timeout holds the
\* current time only when the thread slept with a time limit.
Polled ==
    /\ pc = "polled"
    /\ now' = Msec(clock)
    /\ \E es \in SetToSeqs(fetched) :
         q' = FoldLeft(LAMBDA st, e :
                         evq_process_active(st, e, IF wake = INFINITE THEN INFINITE ELSE now'),
                       q, es)
    /\ Keep(q')
    /\ fetched' = {} /\ sig' = FALSE
    /\ wake' = INFINITE /\ entered' = Awake
    /\ pc' = IF q'.ready = <<>> THEN "top" ELSE "next"
    /\ UNCHANGED <<clock, used, pending>>

\* The rest of evq_wait after a time-out: SYS_ERR_TIMEOUT ends the loop when
\* no event has expired.  One that is ready already, and expires, is linked into the list
\* a second time: the list is circular then, and the thread is not followed any further.
TimedOut ==
    /\ pc = "timed out"
    /\ now' = Msec(clock)
    /\ q' = timeout_process(q, now')
    /\ pc' = IF q'.ready = q.ready THEN "out"
             ELSE IF IsRepeatFree(q'.ready) THEN "next" ELSE "circular"
    /\ wake' = INFINITE /\ entered' = Awake
    /\ UNCHANGED <<clock, used, fetched, sig, pending, asked>>

\* The first ready event: its postponed deletion, or its callback.
HandleReady ==
    LET e == Head(q.ready)
        s0 == [q EXCEPT !.ready = Tail(@), !.ev[e].active = FALSE]
        s1 == IF q.ev[e].oneshot /\ q.ev[e].evq THEN evq_del(s0, e) ELSE s0
    IN
    /\ pc = "next"
    /\ IF q.ev[e].deleted
       THEN q' = FreeEvent(s0, e) /\ pc' = IF Tail(q.ready) = <<>> THEN "top" ELSE "next"
       ELSE q' = (IF s1.ev[e].evq THEN s1 ELSE FreeEvent(s1, e)) /\ pc' = "callback"
    /\ Keep(q')
    /\ UNCHANGED <<clock, now, used, wake, entered, fetched, sig, pending>>

CallbackReturns ==
    /\ pc = "callback"
    /\ pc' = IF q.ready = <<>> THEN "top" ELSE "next"
    /\ UNCHANGED <<clock, now, q, used, wake, entered, fetched, sig, pending, asked>>

-----------------------------------------------------------------------------
(***************************************************************************)
(* The calls.  A caller runs when the looping thread has given up the VM's *)
(* lock; "loop" stands for a callback that makes the call.                 *)
(***************************************************************************)
InWait == pc \in {"epoll", "polled", "timed out", "interrupted"}
MayCall(c) ==
    ~Waits(c) /\ pc # "circular" /\ (InWait \/ pc \in {"callback", "out"} \/ Pending # {})

\* levq_control_wait(evq, 1) waits for the looping thread to leave evq_wait,
\* unless another call is at work.
MustWait == Pending = {} /\ InWait

Stop(c, op, e, m) ==
    /\ pending' = [pending EXCEPT ![c] = [op |-> op, e |-> e, m |-> m]]
    /\ sig' = TRUE

\* levq_new_event: st with a free slot.
Reserve(st, taken) == IF st.free = {} THEN [st EXCEPT !.free = {AnySlot(Slots \ taken)}] ELSE st

\* The event's slot, cleared and given its flags.
TakeSlot(st, e, k) ==
    [st EXCEPT !.free = @ \ {e}, !.ev[e] = [NoEvent EXCEPT !.timer = k.timer, !.oneshot = k.oneshot]]

\* levq_add up to levq_control_wait: a slot for the event, and another one
\* that may become the head of a list.
NewEvent(k) ==
    LET s0 == Reserve(q, used)
        e == AnySlot(s0.free)
        s1 == TakeSlot(s0, e, k)
        s2 == Reserve(s1, used \cup s0.free)
    IN  [e |-> e, used |-> used \cup s0.free \cup s2.free, st |-> s2]

\* The rest of levq_add.  A timer that gets no list is freed again; the
\* failure for another event is not noticed.
Add(st, e, m) ==
    LET added == evq_set_timeout([st EXCEPT !.ev[e].evq = TRUE], e, m, now) IN
    IF st.ev[e].timer /\ evq_set_timeout_fails(st, e, m)
    THEN q' = FreeEvent(st, e) /\ UNCHANGED asked
    ELSE q' = added /\ asked' = [asked EXCEPT ![e] = m]

levq_add(c, k, m) ==
    LET new == NewEvent(k) IN
    /\ MayCall(c)
    /\ Cardinality(q.free) + Cardinality(Slots \ used) >= 2
    /\ used' = new.used
    /\ IF MustWait
       THEN Stop(c, "add", new.e, m) /\ q' = new.st /\ UNCHANGED asked
       ELSE Add(new.st, new.e, m) /\ UNCHANGED <<pending, sig>>
    /\ UNCHANGED <<clock, now, loopVars>>

\* The events whose handle the program may use.
Held == {e \in Live(q) : ~q.ev[e].deleted /\ \A c \in Callers : pending[c].e # e}

\* levq_timeout reserves the slot after levq_control_wait.
SetTimeout(e, m) ==
    LET st == Reserve(q, used) IN
    /\ q.free # {} \/ used # Slots
    /\ used' = used \cup st.free
    /\ q' = evq_set_timeout(st, e, m, now)
    /\ asked' = [asked EXCEPT ![e] = m]

levq_timeout(c, e, m) ==
    /\ MayCall(c) /\ e \in Held
    /\ IF MustWait
       THEN ~q.ev[e].oneshot /\ Stop(c, "timeout", e, m) /\ UNCHANGED <<q, used, asked>>
       ELSE SetTimeout(e, m) /\ UNCHANGED <<pending, sig>>
    /\ UNCHANGED <<clock, now, loopVars>>

\* levq_del: an active event is freed when the ready list comes to it.
Del(e) ==
    LET st == evq_del(q, e) IN
    /\ q' = IF st.ev[e].active THEN [st EXCEPT !.ev[e].deleted = TRUE] ELSE FreeEvent(st, e)
    /\ asked' = [asked EXCEPT ![e] = INFINITE]
    /\ UNCHANGED used

levq_del(c, e) ==
    /\ MayCall(c) /\ e \in Held
    /\ IF MustWait
       THEN ~q.ev[e].oneshot /\ Stop(c, "del", e, 0) /\ UNCHANGED <<q, used, asked>>
       ELSE Del(e) /\ UNCHANGED <<pending, sig>>
    /\ UNCHANGED <<clock, now, loopVars>>

\* A call goes on once the looping thread has left evq_wait.
CallGo(c) ==
    /\ Waits(c) /\ ~InWait /\ pc \notin {"next", "circular"}
    /\ CASE pending[c].op = "add" -> Add(q, pending[c].e, pending[c].m) /\ UNCHANGED used
         [] pending[c].op = "timeout" -> SetTimeout(pending[c].e, pending[c].m)
         [] pending[c].op = "del" -> Del(pending[c].e)
    /\ pending' = [pending EXCEPT ![c] = NoCall]
    /\ UNCHANGED <<clock, now, loopVars, sig>>

levq_timeout_manual(c, e, manual) ==
    /\ MayCall(c) /\ e \in Held
    /\ q' = [q EXCEPT !.ev[e].manual = manual]
    /\ UNCHANGED <<clock, now, used, loopVars, sig, pending, asked>>

\* levq_notify makes a timer ready without waiting for the looping thread.
levq_notify(c, e) ==
    /\ MayCall(c) /\ e \in Held /\ q.ev[e].timer
    /\ q' = evq_process_active(q, e, now)
    /\ Keep(q')
    /\ sig' = (sig \/ InWait)
    /\ UNCHANGED <<clock, now, used, loopVars, pending>>

levq_now(c) ==
    /\ MayCall(c)
    /\ now' = Msec(clock)
    /\ UNCHANGED <<clock, q, used, loopVars, sig, pending, asked>>

-----------------------------------------------------------------------------
LoopStep ==
    \/ levq_loop \/ WaitEnter \/ WaitSkipped \/ EpollReturns \/ EpollTimesOut \/ EpollInterrupted
    \/ Polled \/ TimedOut \/ Interrupted \/ HandleReady \/ CallbackReturns

Call(c) ==
    \/ \E k \in Kinds, m \in Msecs : levq_add(c, k, m)
    \/ \E e \in Slots, m \in Msecs \cup {INFINITE} : levq_timeout(c, e, m)
    \/ \E e \in Slots : levq_del(c, e) \/ levq_notify(c, e)
    \/ \E e \in Slots, manual \in Manual : levq_timeout_manual(c, e, manual)
    \/ levq_now(c)

\* History.
Lateness == late' = (pc = "timed out" /\ pc' = pc /\ (late \/ q' # q))

Next ==
    \/ (Tick \/ LoopStep \/ \E c \in Callers : CallGo(c)) /\ UNCHANGED calls /\ Lateness
    \/ calls < MaxCalls /\ calls' = calls + 1 /\ (\E c \in Callers : Call(c)) /\ Lateness

Spec == Init /\ [][Next]_vars

-----------------------------------------------------------------------------
(***************************************************************************)
(* Properties                                                              *)
(***************************************************************************)
\* The list of events of t is linked both ways, ends in ev_tail, is not
\* empty, and holds the events whose tq is t.
EventsLinked(t) ==
    LET es == Events(q, t) IN
    /\ es # <<>> /\ IsRepeatFree(es)
    /\ Last(es) = q.tq[t].ev_tail
    /\ \A i \in DOMAIN es : q.ev[es[i]].prev = IF i = 1 THEN NULL ELSE es[i - 1]
    /\ ToSet(es) = {e \in Slots : q.ev[e].tq = t}

\* The links of timeout.c form lists, whatever order events are added, reset,
\* expired and deleted in: one list per timeout, found by the map; and every
\* slot is free, an event, the head of a list, or with a call that waits.
TimeoutListsSound ==
    LET ts == Queues(q)
        events == {e \in Slots : q.ev[e].evq \/ q.ev[e].active}
        adding == {pending[c].e : c \in {d \in Callers : pending[d].op = "add"}}
    IN
    /\ IsRepeatFree(ts)
    /\ \A i \in DOMAIN ts : q.tq[ts[i]].tq_prev = IF i = 1 THEN NULL ELSE ts[i - 1]
    /\ \A t \in ToSet(ts) : EventsLinked(t)
    /\ \A m \in Msecs : q.map[m] = NULL \/ (q.map[m] \in ToSet(ts) /\ q.tq[q.map[m]].msec = m)
    /\ \A t \in ToSet(ts) : q.map[q.tq[t].msec] = t
    /\ Cardinality(ToSet(ts)) + Cardinality(q.free) + Cardinality(events)
         + Cardinality(adding) = Cardinality(used)
    /\ ToSet(ts) \cup q.free \cup events \cup adding = used

\* The ready list holds each active event, and holds it once, with one exception: a timer
\* that is notified after its wait has timed out, but before the looping thread has the
\* VM's lock, is queued again by timeout_process (timeout.c:168).
ReadyOnce ==
    /\ pc # "circular" => IsRepeatFree(q.ready)
    /\ ToSet(q.ready) = {e \in Slots : q.ev[e].active}

\* The exception happens (the configuration of TimeoutQueue with this invariant).
NotQueuedTwice == pc # "circular"

\* An event is where timeout.c and evq.c look for it, once, after any sequence of calls,
\* notifications and timeouts up to such a late notification.
ListsSound == TimeoutListsSound /\ ReadyOnce

\* Every deadline is a timeout after a time the queue had, and each list is in
\* the order of its deadlines: only then may timeout_get and timeout_process
\* look at the first events alone (timeout.c:134, :158).
DeadlinesOrdered ==
    \A t \in ToSet(Queues(q)) :
      LET es == Events(q, t) IN
      /\ \A i, j \in DOMAIN es : i < j => q.ev[es[i]].at <= q.ev[es[j]].at
      /\ \A i \in DOMAIN es : q.ev[es[i]].at - q.tq[t].msec \in 0..now

\* The thread does not sleep past a deadline, those set while it sleeps
\* included, by more than evq->now was behind the clock when it fell asleep.
NoOversleep ==
    pc = "epoll" /\ ~sig =>
      /\ q.ready = <<>>
      /\ \A e \in Live(q) : q.ev[e].tq # NULL =>
           wake # INFINITE /\ wake <= q.ev[e].at + (entered.at - entered.now)

\* An event has the timeout it was given last: the slot that the comment
\* "reserve place for timeout_queue" keeps for its list is there when needed
\* (sys_evq.c:311).  This fails when another call takes the slot while evq:add waits in
\* levq_control_wait (configuration TimeoutQueue_slots).
TimeoutKept ==
    \A e \in Live(q) :
      asked[e] # INFINITE => q.ev[e].tq # NULL /\ q.tq[q.ev[e].tq].msec = asked[e]

\* evq:loop reports a timeout only when its own timeout has passed since it
\* went to sleep, never because a timer was due (epoll.c:175), unless a call gave that
\* timer a new deadline before the looping thread had the VM's lock again.
EndsInTime ==
    [][pc = "timed out" /\ pc' = "out" /\ ~late
         => LoopTimeout # INFINITE /\ clock - entered.at >= LoopTimeout]_vars
=============================================================================
