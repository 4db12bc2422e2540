----------------------------- MODULE EventLoop -----------------------------
(***************************************************************************)
(* The event queue of sys_evq.c with its epoll backend, used by several    *)
(* threads of one VM: evq:loop, evq:add, evq:del, evq:sync and evq:stop.   *)
(*                                                                         *)
(* At most one of the threads in evq:loop waits for events (the flag       *)
(* EVQ_FLAG_WAITING); the others are idle on the auto-reset event          *)
(* evq->wait_tev.  A thread that changes the queue stops the waiting       *)
(* thread first (levq_control_wait).  Ready events go to a list that all   *)
(* looping threads take from.                                              *)
(*                                                                         *)
(* A thread holds the VM's lock from one blocking call to the next; vm     *)
(* names the thread whose stretch of code takes several steps.  A callback *)
(* may block, so other threads may run while it does.                      *)
(*                                                                         *)
(* Events are file descriptors with a callback function.  Slots stand for  *)
(* struct event; the lists through next_ready are sequences, which is what *)
(* they are as long as SlotsSound holds.                                   *)
(***************************************************************************)
EXTENDS Integers, Sequences, FiniteSets, SequencesExt

CONSTANTS
    Loopers,      \* threads that call evq:loop
    Controllers,  \* threads that call evq:add, evq:del and evq:stop
    Callers,      \* threads that call evq:sync
    Linger,       \* the loopers that keep running on an empty queue
    Once,         \* the loopers that process one cycle of active events
    Timed,        \* the loopers that call evq:loop with a timeout
    DelOneshot,   \* may one-shot events be deleted?
    MaxSlots,     \* bound: event slots
    NoThread      \* the VM's lock is free

Threads == Loopers \cup Controllers \cup Callers
Slots == 1..MaxSlots

ASSUME LoopAssumption ==
    /\ IsFiniteSet(Threads)
    /\ Loopers \cap Controllers = {}
    /\ Callers \cap (Loopers \cup Controllers) = {}
    /\ Linger \subseteq Loopers /\ Once \subseteq Loopers /\ Timed \subseteq Loopers
    /\ DelOneshot \in BOOLEAN
    /\ MaxSlots \in Nat
    /\ NoThread \notin Threads

VARIABLES
    stop,      \* EVQ_FLAG_STOP
    waiting,   \* EVQ_FLAG_WAITING
    nactives,  \* evq->nactives
    nidles,    \* evq->nidles
    wait_tev,  \* evq->wait_tev is signalled
    sig,       \* evq->sig_ready: the eventfd of the queue is readable
    sync_op,   \* evq->sync_op: the threads whose calls wait to be run
    nslots,    \* slots taken from the buffers so far
    free,      \* evq->ev_free
    ready,     \* evq->ev_ready
    alive,     \* slots with ev->evq set; their number is evq->nevents
    active,    \* slots with EVENT_ACTIVE
    deleted,   \* slots with EVENT_DELETE
    oneshot,   \* slots with EVENT_ONESHOT
    held,      \* events whose ev_ludata the program may still use
    fetched,   \* what epoll_wait returned: slots, and whether the eventfd
    pc,        \* where each thread stands
    arg,       \* the slot a thread in a callback or a call is about
    vm         \* the thread that holds the VM's lock between steps

loopVars == <<stop, waiting, nactives, nidles, wait_tev, sig, sync_op, fetched>>
slotVars == <<nslots, free, ready, alive, active, deleted, oneshot, held>>
threadVars == <<pc, arg, vm>>
vars == <<loopVars, slotVars, threadVars>>

Nothing == [slots |-> {}, eventfd |-> FALSE]

Init ==
    /\ stop = FALSE /\ waiting = FALSE
    /\ nactives = 0 /\ nidles = 0
    /\ wait_tev = FALSE /\ sig = FALSE
    /\ sync_op = {}
    /\ nslots = 0
    /\ free = <<>> /\ ready = <<>>
    /\ alive = {} /\ active = {} /\ deleted = {} /\ oneshot = {} /\ held = {}
    /\ fetched = Nothing
    /\ pc = [t \in Threads |-> "out"]
    /\ arg = [t \in Threads |-> 0]
    /\ vm = NoThread

(***************************************************************************)
(* Control: a thread goes on in the same stretch (Continue) or gives up    *)
(* the VM's lock (Block).                                                  *)
(***************************************************************************)
At(t, l) == pc[t] = l /\ vm = IF l \in {"top", "gate", "ready", "next"} THEN t ELSE NoThread
Continue(t, l) == pc' = [pc EXCEPT ![t] = l] /\ vm' = t
Block(t, l) == pc' = [pc EXCEPT ![t] = l] /\ vm' = NoThread

InLoop(t) == t \in Loopers /\ pc[t] # "out"
Waiter(t) == pc[t] \in {"epoll", "polled", "expired"}
Idle(t) == pc[t] \in {"idle", "woken"}
Active(t) == pc[t] \in {"next", "callback", "add", "del"}

-----------------------------------------------------------------------------
(***************************************************************************)
(* evq:loop                                                                *)
(***************************************************************************)
levq_loop(t) ==
    /\ At(t, "out")
    /\ Continue(t, "top")
    /\ UNCHANGED <<loopVars, slotVars, arg>>

\* Mutant: the end of the loop tells nobody.
HandOverSilent(someoneWaits) == UNCHANGED wait_tev

\* The end of sys_evq_loop: an idle thread takes over, unless one waits.
HandOver(someoneWaits) == wait_tev' = (wait_tev \/ (nidles > 0 /\ ~someoneWaits))

Leave(t, someoneWaits) == HandOver(someoneWaits) /\ Block(t, "out")

\* The calls of evq:sync that wait are run, and their threads resumed.  What the
\* functions do to the queue is what a callback may do; they do not block here.
SyncProcess(t, l) ==
    /\ sync_op' = {}
    /\ pc' = [u \in Threads |-> IF u = t THEN l
                                ELSE IF u \in sync_op THEN "out" ELSE pc[u]]
    /\ vm' = IF l = "out" THEN NoThread ELSE t

IsEmpty == alive = {}

LoopTop(t) ==
    /\ At(t, "top")
    /\ IF stop
       THEN Leave(t, waiting) /\ UNCHANGED sync_op
       ELSE \/ ready # <<>> /\ SyncProcess(t, "ready") /\ UNCHANGED wait_tev
            \/ /\ ready = <<>> /\ (t \in Linger \/ ~IsEmpty)
               /\ SyncProcess(t, "gate") /\ UNCHANGED wait_tev
            \/ /\ ready = <<>> /\ t \notin Linger /\ IsEmpty
               /\ SyncProcess(t, "out") /\ HandOver(waiting)
    /\ UNCHANGED <<stop, waiting, nactives, nidles, sig, fetched, slotVars, arg>>

\* One thread waits for events, when nobody is at work on the queue.
Gate(t) ==
    /\ At(t, "gate")
    /\ IF nactives > 0 \/ waiting
       THEN nidles' = nidles + 1 /\ Block(t, "idle") /\ UNCHANGED waiting
       ELSE waiting' = TRUE /\ Block(t, "epoll") /\ UNCHANGED nidles
    /\ UNCHANGED <<stop, nactives, wait_tev, sig, sync_op, fetched, slotVars, arg>>

\* thread_event_wait takes the signal under the event's own lock ...
Consume(t) ==
    /\ pc[t] = "idle" /\ wait_tev
    /\ wait_tev' = FALSE
    /\ pc' = [pc EXCEPT ![t] = "woken"]
    /\ UNCHANGED <<stop, waiting, nactives, nidles, sig, sync_op, fetched, slotVars, arg, vm>>

\* ... and returns with the VM's lock.
Woken(t) ==
    /\ At(t, "woken")
    /\ nidles' = nidles - 1
    /\ Continue(t, IF ready # <<>> \/ stop THEN "ready" ELSE "gate")
    /\ UNCHANGED <<stop, waiting, nactives, wait_tev, sig, sync_op, fetched, slotVars, arg>>

-----------------------------------------------------------------------------
(***************************************************************************)
(* evq_wait                                                                *)
(***************************************************************************)
\* The backend's evq_add and evq_del: the events of the queue afterwards.  A
\* descriptor is taken out of epoll, or closed by the program.
evq_add(s) == alive \cup {s}
evq_del(S) == alive \ S

\* epoll_wait returns some of the readable descriptors, and the eventfd
\* when it is readable.
EpollReturns(t) ==
    /\ pc[t] = "epoll"
    /\ \E S \in SUBSET alive :
         /\ S # {} \/ sig
         /\ fetched' = [slots |-> S, eventfd |-> sig]
    /\ pc' = [pc EXCEPT ![t] = "polled"]
    /\ UNCHANGED <<stop, waiting, nactives, nidles, wait_tev, sig, sync_op, slotVars, arg, vm>>

\* epoll_wait fails with EINTR: evq_wait returns 0 and finds nothing.
EpollInterrupted(t) ==
    /\ pc[t] = "epoll"
    /\ pc' = [pc EXCEPT ![t] = "polled"]
    /\ UNCHANGED <<loopVars, slotVars, arg, vm>>

EpollTimesOut(t) ==
    /\ pc[t] = "epoll" /\ t \in Timed
    /\ pc' = [pc EXCEPT ![t] = "expired"]
    /\ UNCHANGED <<loopVars, slotVars, arg, vm>>

\* The events that were returned become active and ready; one-shot events
\* leave the queue.
Polled(t) ==
    /\ At(t, "polled")
    /\ \E q \in SetToSeqs(fetched.slots \ active) : ready' = q \o ready
    /\ active' = active \cup fetched.slots
    /\ alive' = evq_del((fetched.slots \ active) \cap oneshot)
    /\ sig' = (sig /\ ~fetched.eventfd)
    /\ fetched' = Nothing
    /\ waiting' = FALSE
    /\ Continue(t, "ready")
    /\ UNCHANGED <<stop, nactives, nidles, wait_tev, sync_op,
                   nslots, free, deleted, oneshot, held, arg>>

\* SYS_ERR_TIMEOUT ends the loop.
Expired(t) ==
    /\ At(t, "expired")
    /\ waiting' = FALSE
    /\ Leave(t, FALSE)
    /\ UNCHANGED <<stop, nactives, nidles, sig, sync_op, fetched, slotVars, arg>>

-----------------------------------------------------------------------------
(***************************************************************************)
(* The ready events                                                        *)
(***************************************************************************)
\* A thread becomes active and lets another one help it.
ReadyTurn(t) ==
    /\ At(t, "ready")
    /\ IF ready = <<>>
       THEN Continue(t, "top") /\ UNCHANGED <<nactives, wait_tev>>
       ELSE /\ nactives' = nactives + 1
            /\ wait_tev' = (wait_tev \/ (nidles > 0 /\ Len(ready) > 1))
            /\ Continue(t, "next")
    /\ UNCHANGED <<stop, waiting, nidles, sig, sync_op, fetched, slotVars, arg>>

\* The list is done: nobody is told when nactives gets to 0 here.
ListDone(t) ==
    /\ nactives' = nactives - 1
    /\ IF t \in Once THEN Leave(t, waiting) ELSE Continue(t, "top") /\ UNCHANGED wait_tev

\* levq_del_event puts a slot on the free list.
Freed(s) == <<s>> \o free

\* The first ready event: its postponed deletion, or its callback.  A
\* one-shot event is freed before its callback is called.
HandleDeleted(t) ==
    /\ At(t, "next") /\ Head(ready) \in deleted
    /\ ready' = Tail(ready)
    /\ active' = active \ {Head(ready)}
    /\ free' = Freed(Head(ready))
    /\ IF Tail(ready) = <<>>
       THEN ListDone(t)
       ELSE Continue(t, "next") /\ UNCHANGED <<nactives, wait_tev>>
    /\ UNCHANGED <<stop, waiting, nidles, sig, sync_op, fetched,
                   nslots, alive, deleted, oneshot, held, arg>>

\* Mutant: the event stays at the head of the ready list.
HandleReadyStuck(t) ==
    /\ At(t, "next") /\ Head(ready) \notin deleted
    /\ active' = active \ {Head(ready)}
    /\ Block(t, "callback")
    /\ arg' = [arg EXCEPT ![t] = Head(ready)]
    /\ UNCHANGED <<loopVars, nslots, free, ready, alive, deleted, oneshot, held>>

HandleReady(t) ==
    LET s == Head(ready) IN
    /\ At(t, "next") /\ s \notin deleted
    /\ ready' = Tail(ready)
    /\ active' = active \ {s}
    /\ alive' = IF s \in oneshot THEN evq_del({s}) ELSE alive
    /\ IF s \in alive'
       THEN UNCHANGED <<free, held>>
       ELSE free' = Freed(s) /\ held' = held \ {s}
    /\ Block(t, "callback")
    /\ arg' = [arg EXCEPT ![t] = s]
    /\ UNCHANGED <<loopVars, nslots, deleted, oneshot>>

\* The callback returns, or fails: an error ends the loop.
CallbackReturns(t) ==
    /\ At(t, "callback")
    /\ IF ready = <<>>
       THEN ListDone(t)
       ELSE Continue(t, "next") /\ UNCHANGED <<nactives, wait_tev>>
    /\ arg' = [arg EXCEPT ![t] = 0]
    /\ UNCHANGED <<stop, waiting, nidles, sig, sync_op, fetched, slotVars>>

CallbackFails(t) ==
    /\ At(t, "callback")
    /\ nactives' = nactives - 1
    /\ Leave(t, waiting)
    /\ arg' = [arg EXCEPT ![t] = 0]
    /\ UNCHANGED <<stop, waiting, nidles, sig, sync_op, fetched, slotVars>>

-----------------------------------------------------------------------------
(***************************************************************************)
(* The calls of other threads, and of callbacks.                           *)
(***************************************************************************)
MayCall(t) ==
    \/ t \in Controllers /\ At(t, "out")
    \/ t \in Loopers /\ At(t, "callback")

\* levq_control_wait(evq, 1) has to stop the waiting thread.
MustWait == nactives = 0 /\ waiting

\* Mutant: the waiting thread is not signalled.
ControlStopSilent(t, call, s) ==
    /\ nactives' = nactives + 1
    /\ Block(t, call)
    /\ arg' = [arg EXCEPT ![t] = s]
    /\ UNCHANGED <<stop, waiting, nidles, wait_tev, sig, sync_op, fetched>>

\* It signals the waiting thread, and yields until that has left evq_wait.
ControlStop(t, call, s) ==
    /\ nactives' = nactives + 1
    /\ sig' = TRUE
    /\ Block(t, call)
    /\ arg' = [arg EXCEPT ![t] = s]
    /\ UNCHANGED <<stop, waiting, nidles, wait_tev, sync_op, fetched>>

\* levq_control_wait(evq, 0), with n active threads left.
ControlGo(n) ==
    /\ nactives' = n
    /\ wait_tev' = (wait_tev \/ (n = 0 /\ nidles > 0))
    /\ UNCHANGED <<stop, waiting, nidles, sig, sync_op, fetched>>

\* levq_new_event takes a slot from the free list or a fresh one; levq_add
\* takes the first and leaves a second one for a timeout queue.
Fresh == IF Len(free) < 2 THEN 2 - Len(free) ELSE 0
Supply == free \o [i \in 1..Fresh |-> nslots + i]

\* levq_add up to levq_control_wait: a cleared slot gets its flags.
NewEvent ==
    /\ nslots + Fresh <= MaxSlots
    /\ nslots' = nslots + Fresh
    /\ active' = active \ {Head(Supply)}
    /\ deleted' = deleted \ {Head(Supply)}
    /\ oneshot' \in {oneshot \cup {Head(Supply)}, oneshot \ {Head(Supply)}}

\* The event is added, or freed again when that fails; rest is the free list.
Register(s, rest) ==
    \/ /\ alive' = evq_add(s) /\ held' = held \cup {s}
       /\ free' = rest
    \/ /\ free' = <<s>> \o rest
       /\ UNCHANGED <<alive, held>>

levq_add(t) ==
    /\ MayCall(t)
    /\ NewEvent
    /\ IF MustWait
       THEN /\ ControlStop(t, "add", Head(Supply))
            /\ free' = Tail(Supply)
            /\ UNCHANGED <<alive, held>>
       ELSE /\ Register(Head(Supply), Tail(Supply))
            /\ ControlGo(nactives)
            /\ UNCHANGED threadVars
    /\ UNCHANGED ready

\* The rest of levq_add once the waiting thread has stopped.
AddGo(t) ==
    /\ At(t, "add") /\ ~waiting
    /\ Register(arg[t], free)
    /\ ControlGo(nactives - 1)
    /\ Block(t, "out")
    /\ arg' = [arg EXCEPT ![t] = 0]
    /\ UNCHANGED <<nslots, ready, active, deleted, oneshot>>

\* Mutant: an active event is freed at once.
DeleteActive(s) ==
    /\ alive' = evq_del({s})
    /\ free' = IF s \in deleted THEN free ELSE Freed(s)
    /\ deleted' = deleted \cup {s}
    /\ UNCHANGED <<nslots, ready, active, oneshot>>

\* The change of levq_del: an active event is in the ready list and is freed from there.
Delete(s) ==
    /\ alive' = evq_del({s})
    /\ free' = IF s \in active \cup deleted THEN free ELSE Freed(s)
    /\ deleted' = deleted \cup {s}
    /\ UNCHANGED <<nslots, ready, active, oneshot>>

levq_del(t) ==
    /\ MayCall(t)
    /\ \E s \in held :
         /\ s \in oneshot => DelOneshot
         /\ held' = held \ {s}
         /\ IF MustWait
            THEN /\ ControlStop(t, "del", s)
                 /\ UNCHANGED <<nslots, free, ready, alive, active, deleted, oneshot>>
            ELSE ControlGo(nactives) /\ Delete(s) /\ UNCHANGED threadVars

DelGo(t) ==
    /\ At(t, "del") /\ ~waiting
    /\ Delete(arg[t])
    /\ ControlGo(nactives - 1)
    /\ Block(t, "out")
    /\ arg' = [arg EXCEPT ![t] = 0]
    /\ UNCHANGED held

\* Mutant: the waiting thread is not signalled.
levq_stopSilent(t) ==
    /\ MayCall(t)
    /\ stop' = TRUE
    /\ UNCHANGED <<waiting, nactives, nidles, wait_tev, sig, sync_op, fetched, slotVars, threadVars>>

levq_stop(t) ==
    /\ MayCall(t)
    /\ stop' = TRUE
    /\ sig' = (sig \/ waiting)
    /\ UNCHANGED <<waiting, nactives, nidles, wait_tev, sync_op, fetched, slotVars, threadVars>>

\* levq_sync_call: the thread is suspended until its function has been run.
levq_sync(t) ==
    /\ t \in Callers /\ At(t, "out")
    /\ sync_op' = sync_op \cup {t}
    /\ sig' = (sig \/ waiting)
    /\ Block(t, "sync")
    /\ UNCHANGED <<stop, waiting, nactives, nidles, wait_tev, fetched, slotVars, arg>>

-----------------------------------------------------------------------------
LoopStep(t) ==
    \/ LoopTop(t) \/ Gate(t) \/ Woken(t)
    \/ Polled(t) \/ Expired(t)
    \/ ReadyTurn(t) \/ HandleDeleted(t) \/ HandleReady(t)
    \/ CallbackReturns(t) \/ CallbackFails(t)

Wakes(t) == EpollReturns(t) \/ EpollInterrupted(t) \/ EpollTimesOut(t)

Call(t) == levq_add(t) \/ levq_del(t) \/ levq_stop(t)

Next ==
    \/ \E t \in Loopers : levq_loop(t) \/ LoopStep(t) \/ Consume(t) \/ Wakes(t) \/ Call(t)
    \/ \E t \in Controllers : Call(t) \/ AddGo(t) \/ DelGo(t)
    \/ \E t \in Callers : levq_sync(t)

Spec == Init /\ [][Next]_vars

(***************************************************************************)
(* A thread that needs the VM's lock gets it in the end (a mutex waiter is *)
(* not overtaken for ever), and callbacks return.  A signal of wait_tev is *)
(* taken by one of the idle threads, and epoll_wait returns once the       *)
(* eventfd is readable.  Events need not come, timeouts need not pass, and *)
(* nobody has to call.                                                     *)
(***************************************************************************)
Fairness ==
    /\ \A t \in Loopers : SF_vars(LoopStep(t))
    /\ WF_vars(\E t \in Loopers : Consume(t))
    /\ \A t \in Loopers : WF_vars(sig /\ EpollReturns(t))
    /\ \A t \in Controllers : SF_vars(AddGo(t) \/ DelGo(t))

FairSpec == Spec /\ Fairness

-----------------------------------------------------------------------------
(***************************************************************************)
(* Properties                                                              *)
(***************************************************************************)
Labels == {"out", "top", "gate", "idle", "woken", "epoll", "polled", "expired",
           "ready", "next", "callback", "add", "del", "sync"}

\* Every variable has its type.
TypeOK ==
    /\ stop \in BOOLEAN /\ waiting \in BOOLEAN
    /\ nactives \in Nat /\ nidles \in Nat
    /\ wait_tev \in BOOLEAN /\ sig \in BOOLEAN
    /\ sync_op \in SUBSET Callers
    /\ nslots \in 0..MaxSlots
    /\ free \in Seq(Slots) /\ ready \in Seq(Slots)
    /\ alive \in SUBSET Slots /\ active \in SUBSET Slots
    /\ deleted \in SUBSET Slots /\ oneshot \in SUBSET Slots /\ held \in SUBSET Slots
    /\ fetched \in [slots : SUBSET Slots, eventfd : BOOLEAN]
    /\ pc \in [Threads -> Labels]
    /\ arg \in [Threads -> Slots \cup {0}]
    /\ vm \in Threads \cup {NoThread}

Number(P(_)) == Cardinality({t \in Threads : P(t)})

\* EVQ_FLAG_WAITING says that one thread is in evq_wait, and there is never
\* a second one (sys_evq.c:810-824).
OneWaiter == Number(Waiter) = IF waiting THEN 1 ELSE 0

\* evq->nactives counts the threads at work on ready events and the calls
\* that stop the waiting thread; evq->nidles counts the idle threads.
CountsExact == nactives = Number(Active) /\ nidles = Number(Idle)

IsRepeatFree(q) == \A i, j \in DOMAIN q : q[i] = q[j] => i = j

\* A slot taken by a call that waits for the waiting thread to stop.
BeingAdded == {arg[t] : t \in {u \in Threads : pc[u] = "add"}}

\* Every slot is in one place: free, ready, or alive and not ready.  None is
\* lost, none is free twice, the ready list holds the active events, and the
\* events that epoll_wait returned are still there when they are processed.
SlotsSound ==
    /\ IsRepeatFree(free) /\ IsRepeatFree(ready)
    /\ ToSet(ready) = active
    /\ ToSet(free) \cap (active \cup alive \cup BeingAdded \cup fetched.slots) = {}
    /\ ToSet(free) \cup active \cup alive \cup BeingAdded = 1..nslots

\* When a thread is idle, another one waits for events, works or is about to
\* look again: the queue is never left without a thread (sys_evq.c:930).
NeverAbandoned ==
    (vm = NoThread /\ \E t \in Loopers : pc[t] = "idle")
      => waiting \/ wait_tev \/ nactives > 0 \/ \E t \in Loopers : pc[t] = "woken"

\* The threads that share the loop are where its flags and counters say, and the queue
\* always has one that attends to it.
LoopSound == TypeOK /\ OneWaiter /\ CountsExact /\ NeverAbandoned

\* After evq:stop every thread leaves evq:loop, idle ones too.
StopEnds == \A t \in Loopers : (stop /\ pc[t] # "out") ~> pc[t] = "out"

\* levq_control_wait returns: evq:add and evq:del stop the waiting thread.
CallsReturn == \A t \in Controllers : pc[t] \in {"add", "del"} ~> pc[t] = "out"

\* Ready events are handled, by another thread when a callback fails.
ReadyHandled ==
    ready # <<>> ~> \/ ready = <<>> \/ stop
                    \/ \A t \in Loopers : pc[t] = "out"

\* A call of evq:sync is run while some thread stays in evq:loop.
SyncServed ==
    \A c \in Callers : pc[c] = "sync" ~>
        \/ pc[c] # "sync" \/ stop
        \/ \A t \in Loopers : pc[t] = "out"
=============================================================================
