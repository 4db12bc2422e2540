------------------------------- MODULE Signals -------------------------------
(***************************************************************************)
(* Signals and child processes (event/signal.c) on their way from the      *)
(* kernel to the callbacks of event queues.                                *)
(*                                                                         *)
(* The signal handler finds the events that wait for the signal in a list  *)
(* that the queues of all VMs share (g_Signal, under the lock `cs') and    *)
(* tells each event's queue (sig_ready and sig_fd, under `sig_cs').  A     *)
(* queue's thread is woken by sig_fd, takes sig_ready, collects its events *)
(* in the list and runs their callbacks.  Meanwhile events come and go,    *)
(* and the handler runs on any thread of the process, this one included,   *)
(* on several at once, and within itself: it masks only its own signal.    *)
(***************************************************************************)
EXTENDS Integers, Sequences, SequencesExt, FiniteSets, FiniteSetsExt

CONSTANTS
    Queues,        \* event queues, each with a VM and a thread that loops
    Events,        \* slots for events
    What,          \* [Events -> [evq, signo, child, oneshot]]: what is added in a slot
    Children,      \* processes the program started
    Hosts,         \* threads the handler may run on: those of queues and "other"
    Anywhere,      \* may it interrupt a thread, or a handler there, that holds cs or sig_cs?
    Ignores,       \* signals that the program ignores at times
    Closes,        \* queues that are closed
    MaxSignals,    \* bound: how often a signal is sent or evq:signal called
    MaxAdds,       \* bound: how often events are added
    NONE

SIGINT == 2
SIGPIPE == 13
SIGCHLD == 17
EVQ_SIGEVQ == SIGPIPE
Signos == {SIGINT, SIGCHLD}   \* of the five that have a list, the two kinds
Named == {SIGINT}             \* sig_names: those a program may name

ASSUME SignalsAssumption ==
    /\ \A e \in Events :
         What[e] \in   [evq : Queues, signo : {SIGINT}, child : {NONE}, oneshot : BOOLEAN]
                  \cup [evq : Queues, signo : {SIGCHLD}, child : Children, oneshot : {TRUE}]
    /\ Hosts \subseteq Queues \cup {"other"} /\ Anywhere \in BOOLEAN /\ Ignores \subseteq Named /\ Closes \subseteq Queues
    /\ MaxSignals \in Nat /\ MaxAdds \in Nat
    /\ NONE \notin Queues \cup Events \cup Children

VARIABLES
    list,          \* g_Signal.events: the events of each signal
    cs,            \* the thread that holds g_Signal.cs, itself or in a handler; or NONE
    disp,          \* what the kernel does with a signal: "dfl", "ign", "handler"
    pending,       \* signals that the kernel has to deliver
    handler,       \* the handlers on each thread, innermost first: signo, has cs, events left
    evq,           \* ev->evq; NONE is NULL: deleted
    slot,          \* "free", "idle", "active" (EVENT_ACTIVE), "deleted" (and EVENT_DELETE)
    queue,         \* each queue's sig_ready, fd (sig_fd is readable), sig_cs, ev_ready
    loop,          \* its thread: at, op (with cs), signos left to process, events found
    child,         \* "running", "zombie", "reaped"
    owed,          \* history: events whose signal was delivered, not called since
    signals, adds  \* how many so far

kernel == <<disp, pending, child, signals>>
lists == <<list, cs>>
events == <<evq, slot, owed, adds>>
vars == <<list, cs, disp, pending, handler, evq, slot, queue, loop, child, owed,
          signals, adds>>

NoOp == [do |-> "none", ev |-> NONE]

\* signal_init and evq_init.
Init ==
    /\ list = [s \in Signos |-> <<>>] /\ cs = NONE
    /\ disp = [s \in Signos |-> "dfl"] /\ pending = {} /\ handler = [t \in Hosts |-> <<>>]
    /\ evq = [e \in Events |-> NONE] /\ slot = [e \in Events |-> "free"]
    /\ queue = [q \in Queues |-> [sig_ready |-> {}, fd |-> FALSE, sig_cs |-> FALSE,
                                  ev_ready |-> <<>>]]
    /\ loop = [q \in Queues |-> [at |-> "run", op |-> NoOp, signos |-> {}, found |-> <<>>]]
    /\ child = [c \in Children |-> "running"]
    /\ owed = {} /\ signals = 0 /\ adds = 0

\* The thread of q runs: no handler interrupts it.
Runs(q) == q \in Hosts => handler[q] = <<>>
\* It is in the program, or another thread of its VM is while it waits: the VM's lock
\* is theirs, so an operation ends before the thread returns from the wait.
InProgram(q) == Runs(q) /\ loop[q].at \in {"run", "wait"} /\ loop[q].op = NoOp

-----------------------------------------------------------------------------
(***************************************************************************)
(* The kernel.                                                             *)
(***************************************************************************)
\* A signal reaches the process.
Sent(s) == pending' = IF disp[s] = "handler" THEN pending \cup {s} ELSE pending

\* What is pending for a signal that the handler no longer catches is gone.
Discarded == pending' = {s \in pending : disp'[s] = "handler"}

\* SIGINT comes from a terminal, and only when it does not end the program; SIGCHLD is
\* also sent for a child that no event is for, or that is only stopped.
Kill(s) ==
    /\ signals < MaxSignals /\ (s = SIGINT => disp[s] # "dfl")
    /\ signals' = signals + 1
    /\ Sent(s)
    /\ UNCHANGED <<lists, disp, handler, events, queue, loop, child>>

\* A child ends.
Exit(c) ==
    /\ child[c] = "running"
    /\ child' = [child EXCEPT ![c] = "zombie"]
    /\ Sent(SIGCHLD)
    /\ UNCHANGED <<lists, disp, handler, events, queue, loop, signals>>

\* Does the signal concern an event?  One for a child only when that child ended.
Concerns(e) == What[e].signo = SIGCHLD => child[What[e].child] = "zombie"

\* A pending signal interrupts a thread, of a queue or another one, where its handler does
\* not run already: sa_mask is empty, so a handler of another signal is interrupted too.
Deliver(s, t) ==
    /\ s \in pending /\ \A i \in DOMAIN handler[t] : handler[t][i].signo # s
    /\ Anywhere \/ (cs # t /\ (t \in Queues => ~queue[t].sig_cs))
    /\ pending' = pending \ {s}
    /\ handler' = [handler EXCEPT ![t] = <<[signo |-> s, locked |-> FALSE, rest |-> <<>>]>> \o @]
    /\ owed' = owed \cup {e \in Range(list[s]) : evq[e] # NONE /\ Concerns(e)}
    /\ UNCHANGED <<lists, disp, evq, slot, adds, queue, loop, child, signals>>

-----------------------------------------------------------------------------
(***************************************************************************)
(* The handler.                                                            *)
(***************************************************************************)
\* Mutant: what is written to the descriptor depends on the signal, not on sig_ready.
evq_signalOnce(q, s) ==
    [q EXCEPT !.fd = @ \/ s # EVQ_SIGEVQ, !.sig_ready = @ \cup {s}]

\* evq_interrupt writes to sig_fd, for the first signal only.
evq_signal(q, s) ==
    [q EXCEPT !.fd = @ \/ q.sig_ready = {}, !.sig_ready = @ \cup {s}]

\* The innermost handler on thread t, whether it has the lock, and what becomes of it.
InHandler(t, locked) == handler[t] # <<>> /\ Head(handler[t]).locked = locked
Becomes(t, h) == handler' = [handler EXCEPT ![t] = <<h>> \o Tail(@)]

\* signal_handler waits for cs, ...
signal_handler_lock(t) ==
    /\ InHandler(t, FALSE) /\ cs = NONE
    /\ cs' = t
    /\ LET h == Head(handler[t]) IN
         Becomes(t, [h EXCEPT !.locked = TRUE, !.rest = list[h.signo]])
    /\ UNCHANGED <<list, kernel, events, queue, loop>>

\* ... tells the queue of each event that is not deleted, ...
signal_handler(t) ==
    /\ InHandler(t, TRUE)
    /\ LET h == Head(handler[t])
           q == evq[Head(h.rest)]
       IN
         /\ h.rest # <<>>
         /\ \/ q = NONE /\ UNCHANGED queue
            \/ /\ q # NONE /\ ~queue[q].sig_cs
               /\ queue' = [queue EXCEPT ![q] = evq_signal(@, h.signo)]
         /\ Becomes(t, [h EXCEPT !.rest = Tail(@)])
    /\ UNCHANGED <<lists, kernel, events, loop>>

\* ... and returns.
signal_handler_end(t) ==
    /\ InHandler(t, TRUE) /\ Head(handler[t]).rest = <<>>
    /\ cs' = NONE /\ handler' = [handler EXCEPT ![t] = Tail(@)]
    /\ UNCHANGED <<list, kernel, events, queue, loop>>

\* evq:signal tells a queue without the kernel, or just wakes it (EVQ_SIGEVQ).
levq_signal(q, s) ==
    /\ signals < MaxSignals /\ ~queue[q].sig_cs /\ loop[q].at # "closed"
    /\ signals' = signals + 1
    /\ queue' = [queue EXCEPT ![q] = evq_signal(@, s)]
    /\ UNCHANGED <<lists, disp, pending, handler, events, loop, child>>

-----------------------------------------------------------------------------
(***************************************************************************)
(* Operations under cs: evq_add and evq_del set ev->evq before they ask    *)
(* for the lock.  `op' is what a queue's thread wants it, or has it, for.  *)
(***************************************************************************)
Lock(q) ==
    /\ Runs(q) /\ loop[q].op # NoOp /\ cs = NONE
    /\ cs' = q
    /\ UNCHANGED <<list, kernel, handler, events, queue, loop>>

Holds(q, do) == Runs(q) /\ cs = q /\ loop[q].op.do = do
Unlock(q) == cs' = NONE

\* levq_add with a signal or a process: evq_add.
levq_add(q, e) ==
    /\ InProgram(q) /\ slot[e] = "free" /\ What[e].evq = q /\ adds < MaxAdds
    /\ adds' = adds + 1
    /\ slot' = [slot EXCEPT ![e] = "idle"] /\ evq' = [evq EXCEPT ![e] = q]
    /\ loop' = [loop EXCEPT ![q].op = [do |-> "add", ev |-> e]]
    /\ UNCHANGED <<lists, kernel, handler, owed, queue>>

\* The first event of a signal installs the handler.
signal_add(q) ==
    /\ Holds(q, "add") /\ Unlock(q)
    /\ LET e == loop[q].op.ev  s == What[e].signo IN
         /\ list' = [list EXCEPT ![s] = <<e>> \o @]
         /\ disp' = IF list[s] = <<>> THEN [disp EXCEPT ![s] = "handler"] ELSE disp
    /\ loop' = [loop EXCEPT ![q].op = NoOp]
    /\ UNCHANGED <<pending, child, signals, handler, events, queue>>

\* Mutant: the events behind the removed one are lost.
signal_delCut(s, e) ==
    /\ \E i \in DOMAIN list[s] :
         list[s][i] = e /\ list' = [list EXCEPT ![s] = SubSeq(@, 1, i - 1)]
    /\ disp' = IF list'[s] = <<>> THEN [disp EXCEPT ![s] = "dfl"] ELSE disp
    /\ Discarded

\* The event is searched for and unlinked; the last one of a signal restores the default.
signal_del(s, e) ==
    /\ \E i \in DOMAIN list[s] :
         list[s][i] = e /\ list' = [list EXCEPT ![s] = RemoveAt(@, i)]
    /\ disp' = IF list'[s] = <<>> THEN [disp EXCEPT ![s] = "dfl"] ELSE disp
    /\ Discarded

\* levq_free_event.
Freed(S) ==
    /\ slot' = [e \in Events |-> IF e \in S THEN "free" ELSE slot[e]]
    /\ owed' = owed \ S

\* levq_del: evq_del, unless a one-shot event that is active was deleted already.
levq_del(q, e) ==
    /\ InProgram(q) /\ What[e].evq = q /\ slot[e] \in {"idle", "active"}
    /\ \/ /\ evq[e] # NONE
          /\ evq' = [evq EXCEPT ![e] = NONE]
          /\ loop' = [loop EXCEPT ![q].op = [do |-> "del", ev |-> e]]
          /\ UNCHANGED slot
       \/ /\ evq[e] = NONE
          /\ slot' = [slot EXCEPT ![e] = "deleted"]
          /\ UNCHANGED <<evq, loop>>
    /\ UNCHANGED <<lists, kernel, handler, owed, adds, queue>>

\* The rest of levq_del: the slot of an active event is kept until the loop meets it.
levq_del_event(q) ==
    /\ Holds(q, "del") /\ Unlock(q)
    /\ LET e == loop[q].op.ev IN
         /\ signal_del(What[e].signo, e)
         /\ \/ slot[e] = "idle" /\ Freed({e})
            \/ /\ slot[e] = "active"
               /\ slot' = [slot EXCEPT ![e] = "deleted"]
               /\ UNCHANGED owed
    /\ loop' = [loop EXCEPT ![q].op = NoOp]
    /\ UNCHANGED <<child, signals, handler, evq, adds, queue>>

\* evq:ignore_signal(s, true) changes the disposition without the lock; with false it
\* restores what the list calls for.
evq_ignore_signal(q, s, ignore) ==
    /\ InProgram(q) /\ s \in Ignores
    /\ ignore \/ cs = NONE
    /\ (disp[s] = "ign") # ignore
    /\ disp' = [disp EXCEPT ![s] = CASE ignore -> "ign"
                                     [] list[s] # <<>> -> "handler"
                                     [] OTHER -> "dfl"]
    /\ Discarded
    /\ UNCHANGED <<lists, child, signals, handler, events, queue, loop>>

\* A queue that is not looping is collected: levq_done deletes its events one by one;
\* then the queue is gone.
levq_done(q) ==
    /\ q \in Closes /\ Runs(q) /\ loop[q].op = NoOp
    /\ loop[q].at \in {"run", "closing"} /\ queue[q].ev_ready = <<>>
    /\ \/ \E e \in Events :
            /\ evq[e] = q
            /\ evq' = [evq EXCEPT ![e] = NONE]
            /\ loop' = [loop EXCEPT ![q].at = "closing", ![q].op = [do |-> "done", ev |-> e]]
            /\ UNCHANGED <<slot, owed>>
       \/ /\ \A e \in Events : evq[e] # q
          /\ loop' = [loop EXCEPT ![q].at = "closed"]
          /\ Freed({e \in Events : What[e].evq = q})
          /\ UNCHANGED evq
    /\ UNCHANGED <<lists, kernel, handler, adds, queue>>

levq_done_event(q) ==
    /\ Holds(q, "done") /\ Unlock(q)
    /\ signal_del(What[loop[q].op.ev].signo, loop[q].op.ev)
    /\ loop' = [loop EXCEPT ![q].op = NoOp]
    /\ UNCHANGED <<child, signals, handler, events, queue>>

-----------------------------------------------------------------------------
(***************************************************************************)
(* The loop of a queue.                                                    *)
(***************************************************************************)
\* evq_wait returns with sig_fd: signal_process_interrupt takes sig_cs ...
signal_process_interrupt(q) ==
    /\ Runs(q) /\ loop[q].at = "wait" /\ loop[q].op = NoOp /\ queue[q].fd
    /\ queue' = [queue EXCEPT ![q].sig_cs = TRUE]
    /\ loop' = [loop EXCEPT ![q].at = "reset"]
    /\ UNCHANGED <<lists, kernel, handler, events>>

\* Mutant: sig_ready is read and not reset.
TakenKept(q) == [q EXCEPT !.sig_cs = FALSE, !.fd = FALSE]

Taken(q) == [q EXCEPT !.sig_cs = FALSE, !.fd = FALSE, !.sig_ready = {}]

\* ... resets the descriptor and takes the signals.
Reset(q) ==
    /\ Runs(q) /\ loop[q].at = "reset"
    /\ queue' = [queue EXCEPT ![q] = Taken(@)]
    /\ loop' = [loop EXCEPT ![q].at = "signals",
                            ![q].signos = queue[q].sig_ready \ {EVQ_SIGEVQ}]
    /\ UNCHANGED <<lists, kernel, handler, events>>

\* For the next signal, in the order of the bits, the list is searched under cs.
NextSignal(q) ==
    /\ Runs(q) /\ loop[q].at = "signals" /\ loop[q].op = NoOp /\ loop[q].found = <<>>
    /\ \/ /\ loop[q].signos # {}
          /\ loop' = [loop EXCEPT ![q].op = [do |-> "collect", ev |-> NONE]]
       \/ /\ loop[q].signos = {}
          /\ loop' = [loop EXCEPT ![q].at = "run"]
    /\ UNCHANGED <<lists, kernel, handler, events, queue>>

\* Where the list has this queue's events that are not active.
Mine(q, s) == {i \in DOMAIN list[s] : evq[list[s][i]] = q /\ slot[list[s][i]] = "idle"}

\* They are found in the order of the list, each put before those found so far.
signal_process_actives(q) ==
    /\ Holds(q, "collect") /\ Unlock(q)
    /\ LET s == Min(loop[q].signos) IN
       \E f \in [1..Cardinality(Mine(q, s)) -> Mine(q, s)] :
         /\ \A j, k \in DOMAIN f : j < k => f[j] > f[k]
         /\ loop' = [loop EXCEPT ![q].op = NoOp, ![q].signos = @ \ {s},
                                 ![q].found = [k \in DOMAIN f |-> list[s][f[k]]]]
    /\ UNCHANGED <<list, kernel, handler, events, queue>>

\* waitpid(WNOHANG) finds that the child ended.  Another event is no child's.
signal_process_child(e) == What[e].signo = SIGCHLD => child[What[e].child] = "zombie"

\* evq_process_active: the event is queued for its callback; a one-shot one is deleted.
evq_process_active(q) ==
    /\ Runs(q) /\ loop[q].at = "signals" /\ loop[q].op = NoOp /\ loop[q].found # <<>>
    /\ LET e == Head(loop[q].found) IN
         \/ /\ ~signal_process_child(e)
            /\ loop' = [loop EXCEPT ![q].found = Tail(@)]
            /\ UNCHANGED <<child, evq, slot, queue>>
         \/ /\ signal_process_child(e)
            /\ child' = [c \in Children |->
                           IF c = What[e].child THEN "reaped" ELSE child[c]]
            /\ slot' = [slot EXCEPT ![e] = "active"]
            /\ queue' = [queue EXCEPT ![q].ev_ready = <<e>> \o @]
            /\ \/ /\ What[e].oneshot
                  /\ evq' = [evq EXCEPT ![e] = NONE]
                  /\ loop' = [loop EXCEPT ![q].found = Tail(@),
                                          ![q].op = [do |-> "unlink", ev |-> e]]
               \/ /\ ~What[e].oneshot
                  /\ loop' = [loop EXCEPT ![q].found = Tail(@)]
                  /\ UNCHANGED evq
    /\ UNCHANGED <<lists, disp, pending, signals, handler, owed, adds>>

evq_del(q) ==
    /\ Holds(q, "unlink") /\ Unlock(q)
    /\ signal_del(What[loop[q].op.ev].signo, loop[q].op.ev)
    /\ loop' = [loop EXCEPT ![q].op = NoOp]
    /\ UNCHANGED <<child, signals, handler, events, queue>>

\* sys_evq_loop takes the ready events one by one, and waits when there is none.
sys_evq_loop(q) ==
    /\ Runs(q) /\ loop[q].at = "run" /\ loop[q].op = NoOp
    /\ \/ /\ queue[q].ev_ready = <<>>
          /\ loop' = [loop EXCEPT ![q].at = "wait"]
          /\ UNCHANGED <<slot, owed, queue>>
       \/ /\ queue[q].ev_ready # <<>>
          /\ LET e == Head(queue[q].ev_ready) IN
               \/ /\ slot[e] = "deleted" \/ evq[e] = NONE
                  /\ Freed({e})
               \/ /\ slot[e] # "deleted" /\ evq[e] # NONE
                  /\ slot' = [slot EXCEPT ![e] = "idle"]
                  /\ owed' = owed \ {e}
          /\ queue' = [queue EXCEPT ![q].ev_ready = Tail(@)]
          /\ UNCHANGED loop
    /\ UNCHANGED <<lists, kernel, handler, evq, adds>>

LoopStep(q) ==
    \/ Lock(q) \/ signal_add(q) \/ levq_del_event(q) \/ levq_done_event(q)
    \/ signal_process_interrupt(q) \/ Reset(q) \/ NextSignal(q)
    \/ signal_process_actives(q) \/ evq_process_active(q) \/ evq_del(q)
    \/ sys_evq_loop(q)

HandlerStep(t) == signal_handler_lock(t) \/ signal_handler(t) \/ signal_handler_end(t)

Next ==
    \/ \E s \in Signos : Kill(s)
    \/ \E c \in Children : Exit(c)
    \/ \E t \in Hosts : HandlerStep(t) \/ \E s \in Signos : Deliver(s, t)
    \/ \E q \in Queues :
         \/ \E s \in Named \cup {EVQ_SIGEVQ} : levq_signal(q, s)
         \/ \E e \in Events : levq_add(q, e) \/ levq_del(q, e)
         \/ \E s \in Named, ignore \in BOOLEAN : evq_ignore_signal(q, s, ignore)
         \/ levq_done(q)
         \/ LoopStep(q)

Spec == Init /\ [][Next]_vars

\* The kernel delivers a pending signal, handlers and loops go on, and whoever asks for cs
\* again and again while it is free gets it.
Fairness ==
    /\ \A t \in Hosts : SF_vars(signal_handler_lock(t)) /\ WF_vars(HandlerStep(t))
    /\ \A s \in Signos : SF_vars(\E t \in Hosts : Deliver(s, t))
    /\ \A q \in Queues : SF_vars(Lock(q)) /\ WF_vars(LoopStep(q))
                       /\ WF_vars(loop[q].at = "closing" /\ levq_done(q))

FairSpec == Spec /\ Fairness

-----------------------------------------------------------------------------
(***************************************************************************)
(* Properties.                                                             *)
(***************************************************************************)
\* A queue that has signals to look at is woken: evq_signal writes to sig_fd for the
\* first signal only, so descriptor and sig_ready must be reset together.
NoLostSignal ==
    \A q \in Queues : queue[q].sig_ready # {} => (queue[q].fd \/ loop[q].at = "closed")

\* While an event listens to a signal its default action, which for SIGINT ends the
\* program, is not in force, whatever queues add, delete and ignore; and no handler is
\* left behind when nobody listens.
Installed ==
    \A s \in Signos : /\ list[s] # <<>> => disp[s] # "dfl"
                      /\ disp[s] = "handler" => list[s] # <<>>

\* The list that all queues share holds the events that are added, each one once: no
\* event of a deleted, free or closed slot stays in it, where the handler would meet it.
\* But for the one a queue is about to link or unlink, which is not there, or still is:
\* signal_del searches for it without a look at the end of the list.
ListSound ==
    /\ \A s \in Signos : IsInjective(list[s])
    /\ \A e \in Events : LET q == What[e].evq IN
         (e \in Range(list[What[e].signo])) <=>
            IF loop[q].op.ev = e THEN loop[q].op.do # "add"
            ELSE evq[e] = q /\ slot[e] # "free" /\ loop[q].at # "closed"

\* Only a queue's own thread takes its events off the list to run them, and an event is
\* at most once among those that are ready.
OwnEvents ==
    \A q \in Queues :
        /\ IsInjective(queue[q].ev_ready \o loop[q].found)
        /\ \A e \in Range(queue[q].ev_ready) :
             What[e].evq = q /\ slot[e] \in {"active", "deleted"}

\* The table that all queues share, the handlers installed for it and the ready lists made
\* from it agree.
TableSound == Installed /\ ListSound /\ OwnEvents

\* Every signal that is delivered while an event listens to it, and the end of a child
\* when it is noticed by one, leads to the event's callback unless it is deleted first.
Answered == \A e \in Events : (e \in owed) ~> (e \notin owed)

\* What add_pid is for, as test_pid.lua uses it: an event for a child that has ended is
\* called, or deleted, in the end.
ChildNoticed ==
    \A e \in Events : What[e].signo = SIGCHLD =>
        ((child[What[e].child] = "zombie" /\ evq[e] # NONE)
            ~> (child[What[e].child] = "reaped" \/ evq[e] = NONE))
=============================================================================
