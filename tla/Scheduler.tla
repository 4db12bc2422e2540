------------------------------ MODULE Scheduler ------------------------------
(***************************************************************************)
(* The task scheduler of thread_sched.c: worker threads in sched:loop take *)
(* coroutines (tasks) from a list and resume them.  A task yields, ends,   *)
(* fails, is preempted, suspends itself, or waits for an event of the      *)
(* scheduler's event queue, which the last idle worker polls.              *)
(*                                                                         *)
(* A worker holds the VM's lock while it looks at the lists ("top") and    *)
(* while its task runs ("run"); sched->ctx is the context of that worker.  *)
(* It gives the lock up when its task makes a blocking call ("blocked"),   *)
(* when it waits on sched->cond, whose mutex is the VM's lock, and in      *)
(* evq_wait.  Outsiders are threads that are not workers.                  *)
(*                                                                         *)
(* The circular lists of tasks are sequences.  Events stand in slots; a    *)
(* slot first holds the pending call of evq:add when the queue is being    *)
(* waited for ("op"), then the event ("live", "ready").                    *)
(***************************************************************************)
EXTENDS Integers, Sequences, FiniteSets, SequencesExt

CONSTANTS
    Workers,      \* threads that may run sched:loop
    First,        \* the workers whose sched:loop the program calls itself
    Options,      \* how: "linger", "timed" (with a timeout), "not_linger", "once"
    MinWorkers,   \* sched->min_workers
    MaxWorkers,   \* sched->max_workers
    HasEvq,       \* has the scheduler an event queue?
    KeptEvent,    \* does that queue also hold an event of the program?
    OutsideCalls, \* which of "resume", "terminate" outsiders call
    Terminates,   \* the states of tasks that sched:terminate is called for
    StopArgs,     \* the argument of sched:stop
    Interrupts,   \* workers that thread:interrupt or thread:terminate is called for
    LateFail,     \* may a call left to the waiting worker fail?
    LateTimeout,  \* may a call come between a worker's time-out and the VM's lock?
    MaxTasks,     \* bound: task slots
    NoTask        \* no task, no slot

Ids == 0..(MaxTasks - 1)
Slots == Ids

ASSUME SchedAssumption ==
    /\ IsFiniteSet(Workers) /\ First \subseteq Workers
    /\ Options \subseteq {"linger", "timed", "not_linger", "once"}
    /\ MinWorkers \in Nat /\ MaxWorkers \in Nat /\ MaxTasks \in Nat
    /\ HasEvq \in BOOLEAN /\ KeptEvent \in BOOLEAN /\ LateTimeout \in BOOLEAN /\ LateFail \in BOOLEAN
    /\ StopArgs \subseteq BOOLEAN /\ Interrupts \subseteq Workers
    /\ OutsideCalls \subseteq {"resume", "terminate"}
    /\ Terminates \subseteq {"active", "suspended", "waiting", "event ready", "running", "gone"}
    /\ NoTask \notin Ids \cup Workers

VARIABLES
    s,            \* the lists of tasks and events (see State)
    stop,         \* sched->stop
    nworkers,     \* sched->nworkers
    nwaiters,     \* sched->nwaiters
    evq_waiting,  \* sched->evq_waiting
    sig,          \* the eventfd of the event queue is readable
    ticked,       \* sched->tick has changed since sched:preempt_tasks looked
    hook,         \* tasks whose coroutine has the preemption hook
    pc,           \* where each worker stands
    cur,          \* the task of each worker
    opt           \* the arguments of each worker's sched:loop

workerVars == <<stop, nworkers, nwaiters, evq_waiting, opt>>
vars == <<s, workerVars, sig, ticked, hook, pc, cur>>

NewTask == [suspended |-> FALSE, terminate |-> FALSE, ev_op |-> NoTask, ev_added |-> FALSE]
NoEvent == [state |-> "free", task |-> NoTask]

Init ==
    /\ s = [active |-> <<>>, free |-> <<>>, ntasks |-> 0, buf_idx |-> 0,
            task |-> [t \in Ids |-> NewTask], ev |-> [e \in Slots |-> NoEvent],
            sync |-> <<>>, ready |-> <<>>, signal |-> FALSE]
    /\ stop = FALSE /\ nworkers = 0 /\ nwaiters = 0 /\ evq_waiting = FALSE
    /\ sig = FALSE /\ ticked = FALSE /\ hook = {}
    /\ pc = [w \in Workers |-> "out"]
    /\ cur = [w \in Workers |-> NoTask]
    /\ opt = [w \in Workers |-> "linger"]

\* The worker that holds the VM's lock is sched->ctx.
HoldsVM(w) == pc[w] \in {"top", "run"} \/ (pc[w] = "expired" /\ ~LateTimeout)
VmFree == \A w \in Workers : ~HoldsVM(w)
InEvq(w) == pc[w] = "evq"
EvqWaits == \E w \in Workers : InEvq(w)
Running(t) == \E w \in Workers : pc[w] \in {"run", "blocked", "spawn", "lost_task"} /\ cur[w] = t

\* Workers that sys_thread_check has taken out of sched:loop, from a wait for tasks, for
\* events, or in a blocking call of their task.  The end of sched:loop is skipped.
LostLabels == {"lost", "lost_evq", "lost_task"}
Lost == {w \in Workers : pc[w] \in LostLabels}

\* thread_cond_signal wakes one of the threads that wait, if any.
Signalled(f) ==
    LET waiting == {w \in Workers : f[w] = "cond"} IN
    IF waiting = {} THEN {f} ELSE {[f EXCEPT ![w] = "woken"] : w \in waiting}

\* The lists after a step, with a signal if the step asked for one.
Becomes(st, f) ==
    /\ s' = [st EXCEPT !.signal = FALSE]
    /\ pc' \in IF st.signal THEN Signalled(f) ELSE {f}

-----------------------------------------------------------------------------
(***************************************************************************)
(* Operations on the lists.                                                *)
(***************************************************************************)
Activate(st, t) == [st EXCEPT !.active = Append(@, t)]

sched_task_del(st, t) ==
    [st EXCEPT !.free = Append(@, t), !.ntasks = @ - 1]

\* sched_task_alloc takes a freed task or the next of the buffer.
Allocated(st) == IF st.free # <<>> THEN Head(st.free) ELSE st.buf_idx
CanAllocate(st) == st.free # <<>> \/ st.buf_idx < MaxTasks
sched_task_alloc(st) ==
    IF st.free # <<>> THEN [st EXCEPT !.free = Tail(@)] ELSE [st EXCEPT !.buf_idx = @ + 1]

\* The event that task t waits for has occurred.
sys_sched_event_ready(st, t, e) ==
    IF st.task[t].ev_op # e THEN st
    ELSE [Activate(st, t) EXCEPT
            !.task[t].ev_op = NoTask, !.task[t].ev_added = FALSE, !.task[t].suspended = FALSE,
            !.signal = @ \/ (st.active = <<>> /\ nwaiters > 0)]

\* The event of t has been added, or could not be (e = NoTask).
sys_sched_event_added(st, t, e) ==
    LET added == [st EXCEPT !.task[t].ev_op = e, !.task[t].ev_added = TRUE] IN
    IF e = NoTask /\ st.task[t].suspended THEN sys_sched_event_ready(added, t, NoTask) ELSE added

\* levq_sync_process: a pending call is made; its slot becomes the event's
\* (the slot was freed just before).  A call that was cancelled is dropped.
SyncOne(st, e, fails) ==
    LET t == st.ev[e].task
        dropped == [st EXCEPT !.ev[e] = NoEvent]
    IN  IF t = NoTask THEN dropped
        ELSE IF e \in fails THEN sys_sched_event_added(dropped, t, NoTask)
        ELSE sys_sched_event_added([st EXCEPT !.ev[e].state = "live"], t, e)

\* The lists after the first i pending calls.
SyncUpTo(st, fails) ==
    LET done[i \in 0..Len(st.sync)] ==
          IF i = 0 THEN st ELSE SyncOne(done[i - 1], st.sync[i], fails)
    IN  done

levq_sync_process(st, fails) ==
    [SyncUpTo(st, fails)[Len(st.sync)] EXCEPT !.sync = <<>>]

\* The ready events in sys_evq_loop: a one-shot event is freed before its
\* callback; an event without callback (task = NoTask) is only freed.
HandleOne(st, e) ==
    LET t == st.ev[e].task
        freed == [st EXCEPT !.ev[e] = NoEvent]
    IN  IF t = NoTask THEN freed ELSE sys_sched_event_ready(freed, t, e)

\* The lists after the first i ready events.
HandleUpTo(st) ==
    LET done[i \in 0..Len(st.ready)] ==
          IF i = 0 THEN st ELSE HandleOne(done[i - 1], st.ready[i])
    IN  done

HandleReady(st) == [HandleUpTo(st)[Len(st.ready)] EXCEPT !.ready = <<>>]

\* evq_wait returns the events S.
Occur(st, S, q) ==
    [st EXCEPT !.ready = q \o @,
               !.ev = [e \in Slots |-> IF e \in S THEN [@[e] EXCEPT !.state = "ready"] ELSE @[e]]]

Live(st) == {e \in Slots : st.ev[e].state = "live"}

-----------------------------------------------------------------------------
(***************************************************************************)
(* sched:loop                                                              *)
(***************************************************************************)
Go(w, l) == [pc EXCEPT ![w] = l]

\* The program calls sched:loop, or a thread made by sched:put starts it and
\* resumes the thread that waits for it.
sched_loop(w) ==
    /\ VmFree
    /\ pc[w] = "start" \/ (pc[w] = "out" /\ w \in First)
    /\ nworkers' = nworkers + 1
    /\ \E o \in IF pc[w] = "out" THEN Options
               ELSE IF nworkers = MinWorkers THEN {"timed"} ELSE {"linger"} :
         opt' = [opt EXCEPT ![w] = o]
    /\ pc' = [u \in Workers |-> IF u = w THEN "top"
                                ELSE IF pc[w] = "start" /\ pc[u] = "spawn" THEN "blocked"
                                ELSE pc[u]]
    /\ UNCHANGED <<s, stop, nwaiters, evq_waiting, sig, ticked, hook, cur>>

\* Mutant: the worker that leaves does not wake a successor.
LeaveSilent(w, l, signal) ==
    /\ nworkers' = nworkers - 1
    /\ pc' \in IF signal THEN Signalled(Go(w, l)) ELSE {Go(w, l)}

\* The end of sched:loop: when the others all wait, one of them goes to the
\* event queue.
Leave(w, l, signal) ==
    LET n == nworkers - 1
        hand == ~stop /\ ~evq_waiting /\ HasEvq /\ nwaiters = n
    IN
    /\ nworkers' = n
    /\ pc' \in IF signal \/ hand THEN Signalled(Go(w, l)) ELSE {Go(w, l)}

\* A worker that sees sched->stop tells the next one.
StopLeave(w) ==
    /\ pc[w] = "top" /\ stop
    /\ Leave(w, "out", TRUE)
    /\ UNCHANGED <<s, stop, nwaiters, evq_waiting, opt, sig, ticked, hook, cur>>

NoneActive(w) == pc[w] = "top" /\ ~stop /\ s.active = <<>>

IdleLeave(w) ==
    /\ NoneActive(w) /\ opt[w] = "not_linger"
    /\ Leave(w, "out", FALSE)
    /\ UNCHANGED <<s, stop, nwaiters, evq_waiting, opt, sig, ticked, hook, cur>>

Polls == nwaiters = nworkers - 1 /\ HasEvq /\ ~evq_waiting

\* A turn of sys_evq_loop, once and not lingering, with the lists st: pending calls are
\* made first; ready events are handled; an empty queue is left at once, and otherwise
\* the worker waits, unless sys_thread_check takes it away with evq_waiting set.
EvqTurn(w, st) ==
    \E fails \in IF LateFail THEN SUBSET ToSet(st.sync) ELSE {{}} :
      LET x == levq_sync_process(st, fails) IN
      IF x.ready # <<>>
      THEN Becomes(HandleReady(x), Go(w, "top")) /\ evq_waiting' = FALSE
      ELSE IF Live(x) = {} /\ ~KeptEvent
      THEN Becomes(x, Go(w, "top")) /\ evq_waiting' = FALSE
      ELSE /\ \/ Becomes(x, Go(w, "evq"))
              \/ w \in Interrupts /\ Becomes(x, Go(w, "lost_evq"))
           /\ evq_waiting' = TRUE

GoEvq(w) ==
    /\ NoneActive(w) /\ opt[w] # "not_linger" /\ Polls
    /\ EvqTurn(w, s)
    /\ UNCHANGED <<stop, nworkers, nwaiters, opt, sig, ticked, hook, cur>>

\* evq_wait returns events of tasks or is interrupted.  Ready events are handled and end
\* the loop, pending calls are left to the next one; without any it takes another turn.
EvqReturns(w) ==
    /\ VmFree /\ InEvq(w)
    /\ \E S \in SUBSET Live(s) :
         /\ S # {} \/ sig
         /\ \E q \in SetToSeqs(S) :
              LET x == Occur(s, S, q) IN
              IF x.ready # <<>>
              THEN Becomes(HandleReady(x), Go(w, "top")) /\ evq_waiting' = FALSE
              ELSE EvqTurn(w, x)
    /\ sig' = FALSE
    /\ UNCHANGED <<stop, nworkers, nwaiters, opt, ticked, hook, cur>>

\* The program's own event occurs; its callback ends the loop.
EvqOwnEvent(w) ==
    /\ VmFree /\ InEvq(w) /\ KeptEvent
    /\ Becomes(HandleReady(s), Go(w, "top"))
    /\ evq_waiting' = FALSE
    /\ UNCHANGED <<stop, nworkers, nwaiters, opt, sig, ticked, hook, cur>>

\* An error of the event queue ends sched:loop, with the lists st.
EvqLeave(w, l, st) ==
    LET n == nworkers - 1
        hand == ~stop /\ HasEvq /\ nwaiters = n
    IN
    /\ s' = [st EXCEPT !.signal = FALSE]
    /\ nworkers' = n
    /\ evq_waiting' = FALSE
    /\ \E f \in IF st.signal THEN Signalled(Go(w, l)) ELSE {Go(w, l)} :
         pc' \in IF hand THEN Signalled(f) ELSE {f}

\* The events S are handled, the callback of the program's event fails, and the events T
\* that occurred with it stay in the ready list.
FailsAmid(S, p, T, q) ==
    Occur([HandleReady(Occur([s EXCEPT !.ready = <<>>], S, p)) EXCEPT !.ready = s.ready], T, q)

\* evq_wait fails, or a callback does.
EvqFails(w) ==
    /\ VmFree /\ InEvq(w)
    /\ \/ EvqLeave(w, "out", s)
       \/ /\ KeptEvent
          /\ \E S \in SUBSET Live(s) : \E T \in SUBSET (Live(s) \ S) :
               \E p \in SetToSeqs(S), q \in SetToSeqs(T) :
                  EvqLeave(w, "failed", FailsAmid(S, p, T, q))
    /\ UNCHANGED <<stop, nwaiters, opt, sig, ticked, hook, cur>>

GoWait(w) ==
    /\ NoneActive(w) /\ opt[w] # "not_linger" /\ ~Polls
    /\ nwaiters' = nwaiters + 1
    /\ pc' = Go(w, "cond")
    /\ UNCHANGED <<s, stop, nworkers, evq_waiting, opt, sig, ticked, hook, cur>>

Spurious(w) ==
    /\ pc[w] = "cond"
    /\ pc' = Go(w, "woken")
    /\ UNCHANGED <<s, workerVars, sig, ticked, hook, cur>>

Woken(w) ==
    /\ VmFree /\ pc[w] = "woken"
    /\ nwaiters' = nwaiters - 1
    /\ pc' = Go(w, "top")
    /\ UNCHANGED <<s, stop, nworkers, evq_waiting, opt, sig, ticked, hook, cur>>

\* sys_thread_check, behind the wait: a worker that was interrupted or terminated is gone,
\* still counted in nworkers, and tells nobody.
CheckFails(w) ==
    /\ w \in Interrupts
    /\ \/ VmFree /\ pc[w] = "woken"
       \/ pc[w] = "expired" /\ (LateTimeout => VmFree)
    /\ nwaiters' = nwaiters - 1
    /\ pc' = Go(w, "lost")
    /\ UNCHANGED <<s, stop, nworkers, evq_waiting, opt, sig, ticked, hook, cur>>

\* The wait times out; the worker then leaves without a look at the list.
TimesOut(w) ==
    /\ opt[w] = "timed" /\ pc[w] = "cond" /\ (LateTimeout \/ VmFree)
    /\ pc' = Go(w, "expired")
    /\ UNCHANGED <<s, workerVars, sig, ticked, hook, cur>>

TimeoutLeave(w) ==
    /\ pc[w] = "expired" /\ (LateTimeout => VmFree)
    /\ nwaiters' = nwaiters - 1
    /\ LET n == nworkers - 1
           hand == ~stop /\ ~evq_waiting /\ HasEvq /\ nwaiters' = n
       IN  /\ nworkers' = n
           /\ pc' \in IF hand THEN Signalled(Go(w, "out")) ELSE {Go(w, "out")}
    /\ opt' = [opt EXCEPT ![w] = "linger"]
    /\ UNCHANGED <<s, stop, evq_waiting, sig, ticked, hook, cur>>

\* The first active task is dropped when its termination was asked for ...
DropTerminated(w) ==
    LET t == Head(s.active) IN
    /\ pc[w] = "top" /\ ~stop /\ s.active # <<>> /\ s.task[t].terminate
    /\ s' = sched_task_del([s EXCEPT !.active = Tail(@)], t)
    /\ UNCHANGED <<workerVars, sig, ticked, hook, pc, cur>>

\* ... and resumed otherwise.
RunTask(w) ==
    LET t == Head(s.active) IN
    /\ pc[w] = "top" /\ ~stop /\ s.active # <<>> /\ ~s.task[t].terminate
    /\ s' = [s EXCEPT !.active = Tail(@)]
    /\ cur' = [cur EXCEPT ![w] = t]
    /\ ticked' = TRUE
    /\ pc' = Go(w, "run")
    /\ UNCHANGED <<workerVars, sig, hook>>

-----------------------------------------------------------------------------
(***************************************************************************)
(* What a running task does.                                               *)
(***************************************************************************)
\* Mutant: a suspended task goes back to the active list.
YieldedActive(st, t) ==
    IF st.task[t].terminate THEN sched_task_del(st, t) ELSE Activate(st, t)

\* The coroutine has yielded.
Yielded(st, t) ==
    IF st.task[t].terminate THEN sched_task_del(st, t)
    ELSE IF st.task[t].suspended THEN st ELSE Activate(st, t)

\* The worker goes on, or leaves after one task.
AfterTask(w) ==
    /\ cur' = [cur EXCEPT ![w] = NoTask]
    /\ IF opt[w] = "once" THEN Leave(w, "out", FALSE) ELSE pc' = Go(w, "top") /\ UNCHANGED nworkers

Yield(w) ==
    /\ pc[w] = "run"
    /\ s' = Yielded(s, cur[w])
    /\ hook' = hook \ {cur[w]}
    /\ AfterTask(w)
    /\ UNCHANGED <<stop, nwaiters, evq_waiting, opt, sig, ticked>>

Finish(w) ==
    /\ pc[w] = "run" /\ cur[w] \notin hook
    /\ s' = sched_task_del(s, cur[w])
    /\ AfterTask(w)
    /\ UNCHANGED <<stop, nwaiters, evq_waiting, opt, sig, ticked, hook>>

\* An error ends the worker's loop.
Fail(w) ==
    /\ pc[w] = "run" /\ cur[w] \notin hook
    /\ s' = sched_task_del(s, cur[w])
    /\ cur' = [cur EXCEPT ![w] = NoTask]
    /\ Leave(w, "failed", FALSE)
    /\ UNCHANGED <<stop, nwaiters, evq_waiting, opt, sig, ticked, hook>>

sched_suspend(w) ==
    /\ pc[w] = "run" /\ cur[w] \notin hook
    /\ s' = Yielded([s EXCEPT !.task[cur[w]].suspended = TRUE], cur[w])
    /\ AfterTask(w)
    /\ UNCHANGED <<stop, nwaiters, evq_waiting, opt, sig, ticked, hook>>

\* The event e of task t is added at once when nobody waits for the queue (this may
\* fail: the task then only yields); otherwise evq:add is left to the waiting worker.
sys_evq_sched_add(t, e) ==
    LET waits == [s EXCEPT !.task[t].suspended = TRUE, !.task[t].ev_op = e, !.ev[e].task = t]
    IN  \/ /\ EvqWaits
           /\ s' = Yielded([waits EXCEPT !.ev[e].state = "op", !.sync = <<e>> \o @], t)
           /\ sig' = TRUE
        \/ /\ ~EvqWaits
           /\ s' = Yielded([waits EXCEPT !.ev[e].state = "live", !.task[t].ev_added = TRUE], t)
           /\ UNCHANGED sig
        \/ /\ ~EvqWaits
           /\ s' = Yielded(s, t)
           /\ UNCHANGED sig

\* sched:wait_*: the task waits for an event in the first free slot.
sched_event_add(w) ==
    /\ pc[w] = "run" /\ cur[w] \notin hook /\ HasEvq
    /\ \E e \in Slots :
         /\ s.ev[e] = NoEvent /\ \A x \in Slots : s.ev[x] = NoEvent => e <= x
         /\ sys_evq_sched_add(cur[w], e)
    /\ AfterTask(w)
    /\ UNCHANGED <<stop, nwaiters, evq_waiting, opt, ticked, hook>>

\* A blocking call of the task: the VM's lock is given up for a while.
BlockTask(w) ==
    /\ pc[w] = "run" /\ cur[w] \notin hook
    /\ pc' = Go(w, "blocked")
    /\ UNCHANGED <<s, workerVars, sig, ticked, hook, cur>>

Unblock(w) ==
    /\ VmFree /\ pc[w] = "blocked"
    /\ pc' = Go(w, "run")
    /\ UNCHANGED <<s, workerVars, sig, ticked, hook, cur>>

\* The thread was told to terminate meanwhile, and ends in the call.
EndsBlocked(w) ==
    /\ w \in Interrupts
    /\ VmFree /\ pc[w] = "blocked"
    /\ pc' = Go(w, "lost_task")
    /\ UNCHANGED <<s, workerVars, sig, ticked, hook, cur>>

\* sched:preempt_tasks looks once per time slice, under sched->cs only: a
\* task that has run for the whole slice while others are active gets the
\* hook, which makes it yield.
sched_preempt_tasks ==
    /\ ~stop
    /\ hook' = IF ticked \/ s.active = <<>> THEN hook
               ELSE hook \cup {cur[w] : w \in {u \in Workers : pc[u] = "run"}}
    /\ ticked' = FALSE
    /\ UNCHANGED <<s, workerVars, sig, pc, cur>>

-----------------------------------------------------------------------------
(***************************************************************************)
(* The calls of outsiders (w = NoTask) and of running tasks.               *)
(***************************************************************************)
MayCall(w) == IF w = NoTask THEN VmFree ELSE pc[w] = "run" /\ cur[w] \notin hook
Callers == Workers \cup {NoTask}

\* Mutant: a worker is told only when all of them wait.
sched_putQuiet(w) ==
    LET st == sched_task_alloc(s)
        t == Allocated(s)
        put == [Activate(st, t) EXCEPT !.task[t] = NewTask, !.ntasks = @ + 1]
    IN
    /\ MayCall(w) /\ CanAllocate(s)
    /\ s' = put
    /\ pc' \in IF s.active = <<>> /\ nwaiters = nworkers THEN Signalled(pc) ELSE {pc}
    /\ UNCHANGED <<workerVars, sig, ticked, hook, cur>>

\* A new task.  When it is the only active one, a waiting worker is told or a
\* new one made, for which the caller waits.
sched_put(w) ==
    LET st == sched_task_alloc(s)
        t == Allocated(s)
        put == [Activate(st, t) EXCEPT !.task[t] = NewTask, !.ntasks = @ + 1]
        unborn == {u \in Workers \ First : pc[u] = "out"}
        spawns == s.active = <<>> /\ nwaiters = 0 /\ nworkers < MaxWorkers
    IN
    /\ MayCall(w) /\ CanAllocate(s)
    /\ s' = put
    /\ IF spawns
       THEN \E u \in unborn : pc' = [x \in Workers |-> IF x = u THEN "start"
                                                        ELSE IF x = w THEN "spawn" ELSE pc[x]]
       ELSE pc' \in IF s.active = <<>> /\ nwaiters > 0 THEN Signalled(pc) ELSE {pc}
    /\ UNCHANGED <<workerVars, sig, ticked, hook, cur>>

\* sched:resume puts a suspended task in the active list.
sched_resume(w, t) ==
    /\ MayCall(w) /\ (w = NoTask => "resume" \in OutsideCalls)
    /\ t < s.buf_idx /\ s.task[t].suspended /\ s.task[t].ev_op = NoTask
    /\ s' = [Activate(s, t) EXCEPT !.task[t].suspended = FALSE]
    /\ UNCHANGED <<workerVars, sig, ticked, hook, pc, cur>>

StateOf(t) ==
    IF t \in ToSet(s.free) THEN "gone"
    ELSE IF t \in ToSet(s.active) THEN "active"
    ELSE IF Running(t) THEN "running"
    ELSE IF s.task[t].ev_op = NoTask THEN "suspended"
    ELSE IF s.ev[s.task[t].ev_op].state = "ready" THEN "event ready"
    ELSE "waiting"

\* sys_evq_sched_del: a pending call is cancelled, an event loses its callback
\* and is left to the ready list; one that is active already is left alone.
sys_evq_sched_del(st, e) ==
    CASE st.ev[e].state = "op" -> [st EXCEPT !.ev[e].task = NoTask]
      [] st.ev[e].state = "live" -> [st EXCEPT !.ev[e] = [state |-> "ready", task |-> NoTask],
                                               !.ready = <<e>> \o @]
      [] OTHER -> st

\* Mutant: the event of the task is left alone.
sched_terminateKeeps(w, t) ==
    LET s1 == [s EXCEPT !.task[t].terminate = TRUE]
        s2 == IF s.task[t].suspended
              THEN [Activate(s1, t) EXCEPT !.task[t].suspended = FALSE] ELSE s1
    IN
    /\ MayCall(w) /\ (w = NoTask => "terminate" \in OutsideCalls)
    /\ t < s.buf_idx /\ StateOf(t) \in Terminates
    /\ s' = s2
    /\ UNCHANGED <<workerVars, sig, ticked, hook, pc, cur>>

sched_terminate(w, t) ==
    LET e == s.task[t].ev_op
        s1 == [s EXCEPT !.task[t].terminate = TRUE]
        s2 == IF s.task[t].suspended
              THEN [Activate(s1, t) EXCEPT !.task[t].suspended = FALSE] ELSE s1
        s3 == [sys_evq_sched_del(s2, e) EXCEPT !.task[t].ev_op = NoTask, !.task[t].ev_added = FALSE]
    IN
    /\ MayCall(w) /\ (w = NoTask => "terminate" \in OutsideCalls)
    /\ t < s.buf_idx /\ StateOf(t) \in Terminates
    /\ IF e = NoTask
       THEN s' = s2 /\ UNCHANGED sig
       ELSE s' = s3 /\ sig' = (sig \/ (EvqWaits /\ s.ev[e].state # "ready"))
    /\ UNCHANGED <<workerVars, ticked, hook, pc, cur>>

\* sched:stop, or sched:stop(false), which lets the workers go on.
sched_stop(w) ==
    /\ MayCall(w)
    /\ stop' \in StopArgs
    /\ pc' \in Signalled(pc)
    /\ UNCHANGED <<s, nworkers, nwaiters, evq_waiting, opt, sig, ticked, hook, cur>>

-----------------------------------------------------------------------------
\* The steps of a worker's own code.
WorkerStep(w) ==
    \/ StopLeave(w) \/ IdleLeave(w) \/ GoEvq(w) \/ GoWait(w)
    \/ DropTerminated(w) \/ RunTask(w)

\* What a thread does once it gets the VM's lock.
Resumes(w) ==
    \/ Woken(w) \/ Unblock(w) \/ TimeoutLeave(w) \/ CheckFails(w) \/ EndsBlocked(w)
    \/ pc[w] = "start" /\ sched_loop(w)

\* A task's own steps.
TaskStep(w) ==
    \/ Yield(w) \/ Finish(w) \/ Fail(w) \/ BlockTask(w)
    \/ sched_suspend(w) \/ sched_event_add(w)

Call(w) ==
    \/ sched_put(w) \/ sched_stop(w)
    \/ \E t \in Ids : sched_resume(w, t) \/ sched_terminate(w, t)

Next ==
    \/ \E w \in Workers :
         \/ sched_loop(w) \/ WorkerStep(w) \/ TaskStep(w)
         \/ EvqReturns(w) \/ EvqOwnEvent(w) \/ EvqFails(w)
         \/ Woken(w) \/ Unblock(w) \/ Spurious(w) \/ TimesOut(w) \/ TimeoutLeave(w)
         \/ CheckFails(w) \/ EndsBlocked(w)
    \/ \E w \in Callers : Call(w)
    \/ sched_preempt_tasks

Spec == Init /\ [][Next]_vars

(***************************************************************************)
(* The workers' own code runs on; a thread that wants the VM's lock gets   *)
(* it in the end; blocking calls return; the preempting thread looks again *)
(* and again, at some time while a given worker's task runs, and its hook  *)
(* makes a task yield; evq_wait returns once it is interrupted.  A task    *)
(* may compute for ever, events need not occur, and nobody has to call     *)
(* anything.                                                               *)
(***************************************************************************)
Fairness ==
    /\ \A w \in Workers :
         /\ WF_vars(WorkerStep(w))
         /\ SF_vars(Resumes(w))
         /\ WF_vars(pc[w] = "run" /\ cur[w] \in hook /\ Yield(w))
         /\ SF_vars(sig /\ EvqReturns(w))
         /\ SF_vars(pc[w] = "run" /\ sched_preempt_tasks)
    /\ WF_vars(sched_preempt_tasks)

FairSpec == Spec /\ Fairness

-----------------------------------------------------------------------------
(***************************************************************************)
(* Properties                                                              *)
(***************************************************************************)
Count(Ls) == Cardinality({w \in Workers : pc[w] \in Ls})

\* sched->nworkers, nwaiters and evq_waiting say how many workers there are, how many
\* wait, and whether one is in the event queue: the last worker goes there by comparing
\* them (thread_sched.c:353).  A worker that sys_thread_check took away is counted for
\* good, and as the one in the event queue if it was about to wait there.
CountsExact ==
    /\ nworkers = Count({"top", "run", "blocked", "spawn", "cond", "woken", "expired", "evq"}
                        \cup LostLabels)
    /\ nwaiters = Count({"cond", "woken", "expired"})
    /\ evq_waiting = (Count({"evq", "lost_evq"}) = 1) /\ Count({"evq", "lost_evq"}) <= 1
    /\ s.ntasks = s.buf_idx - Len(s.free)

IsRepeatFree(q) == \A i, j \in DOMAIN q : q[i] = q[j] => i = j
Known == {t \in Ids : t < s.buf_idx}
Suspended == {t \in Known : s.task[t].suspended}

\* A task is in one place: free, active, with one worker, or suspended.  The
\* links prev_id and next_id serve both lists, so a task that got into two
\* would tie them together (thread_sched.c:76).
OnePlace ==
    LET free == ToSet(s.free)
        active == ToSet(s.active)
        running == {t \in Known : Running(t)}
    IN
    /\ IsRepeatFree(s.free) /\ IsRepeatFree(s.active)
    /\ free \cup active \cup running \cup Suspended = Known
    /\ Cardinality(free) + Cardinality(active) + Cardinality(running)
         + Cardinality(Suspended) = Cardinality(Known)
    /\ \A v, w \in Workers : cur[v] = cur[w] /\ cur[v] # NoTask => v = w

\* The counters and the lists of the scheduler tell where its workers and tasks are.
Consistent == CountsExact /\ OnePlace

\* A task that waits for an event and its event know each other: ev_op is a
\* slot that holds the task's event or its pending call, and a callback never
\* finds a task that is gone (lua_assert at thread_sched.c:147).
EventsMatch ==
    /\ \A t \in Known : s.task[t].ev_op # NoTask =>
         t \in Suspended /\ s.ev[s.task[t].ev_op].task = t
    /\ \A e \in Slots : s.ev[e].task # NoTask => s.task[s.ev[e].task].ev_op = e
    /\ \A e \in Slots : (s.ev[e].state = "op") = (e \in ToSet(s.sync))

\* While workers wait for tasks, one of them has been woken or another is at work, or
\* in the event queue when there is no work: however workers leave sched:loop, the queue
\* is not left to nobody.  The exception is a worker that is interrupted or terminated
\* in its wait (thread_sched.c:370): nworkers stays too high, and nobody takes its place.
EvqAttended ==
    (HasEvq /\ ~stop /\ Lost = {} /\ Count({"cond"}) > 0) => Count({"cond"}) < nworkers

Alive == {w \in Workers : pc[w] \notin {"out", "failed"}}

\* An active task is run in the end, though other tasks may compute for ever:
\* workers are woken for it, and preemption makes the others yield.
TaskTaken ==
    \A t \in Ids : t \in ToSet(s.active) ~>
        \/ t \notin ToSet(s.active) \/ stop \/ Alive = {}
        \/ Count({"failed"}) > 0 \/ Lost # {}

\* sched:stop signals one worker; each one that leaves tells the next, so that all those
\* that wait for tasks leave, with the one in the event queue once an event brings it
\* back, unless a signalled one is interrupted or a task keeps the VM's lock for ever.
StopEnds ==
    ([]<>VmFree) =>
        \A w \in Workers :
            (stop /\ pc[w] \in {"top", "cond", "woken"}) ~> (~stop \/ pc[w] = "out" \/ Lost # {})
=============================================================================
