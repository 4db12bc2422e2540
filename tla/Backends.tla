------------------------------ MODULE Backends ------------------------------
(***************************************************************************)
(* The three event backends other than epoll: poll.c, select.c, kqueue.c.  *)
(* Each keeps a table of what the kernel is to watch, that evq:add,        *)
(* evq:del and evq:mod_socket change and that evq_wait hands to the kernel *)
(* and then walks to find the events that are ready, while evq_del of a    *)
(* one-shot event changes it under the walk.                               *)
(*                                                                         *)
(* A call for a queue whose thread waits first ends the wait through the   *)
(* descriptor sig_fd (levq_control_wait), which must be watched for that.  *)
(***************************************************************************)
EXTENDS Integers, Sequences, SequencesExt, FiniteSets, FiniteSetsExt

CONSTANTS
    Kinds,         \* the backends: "poll", "select", "kqueue"
    Events,        \* slots for events
    Fd,            \* [Events -> Nat]: the descriptor of each
    Writes,        \* events that are added with "w"
    OneShots,      \* those with EVENT_ONESHOT
    Kept,          \* events that are added first and never deleted
    Mods,          \* sockets whose direction is changed
    Closed,        \* events deleted without reuse_fd, whose descriptor is then closed
    Reopens,       \* those of them whose descriptor the program then opens for other use
    SigFd,         \* sig_fd[0]
    NEVENT,        \* first size of poll's arrays, size of kqueue's list of changes
    FD_SETSIZE,    \* size of select's sets and of its array of events
    NONE

ASSUME BackendsAssumption ==
    /\ Kinds \subseteq {"poll", "select", "kqueue"}
    /\ \A e \in Events : Fd[e] \in Nat \ {SigFd}
    /\ Writes \cup OneShots \cup Kept \cup Mods \cup Closed \subseteq Events /\ Reopens \subseteq Closed
    /\ SigFd \in Nat /\ NEVENT \in Nat \ {0} /\ FD_SETSIZE \in Nat \ {0} /\ NONE \notin Events

VARIABLES
    kind,          \* which backend was compiled
    ev,            \* struct event: on (ev->evq # NULL), dir, active, index
    tab,           \* the backend's table
    at,            \* the thread is in the program ("run") or in the kernel ("wait"), or
                   \* has used an event that was freed ("wild")
    watch,         \* what the kernel watches meanwhile
    ready,         \* ev_ready
    sig,           \* sig_fd is readable
    call,          \* the call that waits for the thread, or NONE
    due            \* history: events the kernel reported, not handled since

vars == <<kind, ev, tab, at, watch, ready, sig, call, due>>

\* levq_add_socket, add_timer, add_pid, add_dirwatch, add_signal set an event's flags;
\* here those a table holds: accept reads, connect is a write that fires once.
FlagsOf(e) == [on |-> FALSE, dir |-> IF e \in Writes THEN "w" ELSE "r",
               active |-> FALSE, index |-> 0]

Cap == Cardinality(Events) + NEVENT   \* bound: memory
NoEntry == [fd |-> SigFd, dir |-> "r", rev |-> FALSE]
NoChange == [act |-> "none", fd |-> SigFd, dir |-> "r", ev |-> NONE]

\* evq_init.  events[0] is unused: entry 0 of fdset is sig_fd.
Table ==
    [events |-> [i \in 0..Cap |-> NONE],
     npolls |-> 1,
     fdset |-> [i \in 0..Cap |-> NoEntry],      \* poll
     max_polls |-> NEVENT,
     oob |-> FALSE,                             \* was memory touched that is not the table's?
     set |-> {<<SigFd, "r">>},                  \* select: readset and writeset
     max_fd |-> SigFd,
     kev_list |-> [i \in 0..Cap |-> NoChange],  \* kqueue
     nchanges |-> 0,
     filters |-> {},                            \* kqueue: what the kernel knows,
     shut |-> {},                               \* and descriptors that are closed
     lost |-> {}]                               \* history: what a dropped change was for

Wanted(x, e) == <<Fd[e], x[e].dir>>
On(x) == {e \in Events : x[e].on}

\* An access to entry i of an array of the given size.
Touch(t, i, size) == [t EXCEPT !.oob = @ \/ i >= size]

\* evq_add, evq_del and evq_modify return an error or not.
Ok(t) == [tab |-> t, ok |-> TRUE]

-----------------------------------------------------------------------------
(***************************************************************************)
(* poll                                                                    *)
(***************************************************************************)
\* Mutant: the arrays grow one event too late.
poll_growLate(t) == IF t.npolls > t.max_polls THEN [t EXCEPT !.max_polls = 2 * @] ELSE t

poll_grow(t) == IF t.npolls >= t.max_polls THEN [t EXCEPT !.max_polls = 2 * @] ELSE t

poll_add(t, e, dir) ==
    LET g == poll_grow(t) IN
    Ok([Touch(g, t.npolls, g.max_polls) EXCEPT
          !.fdset[t.npolls] = [fd |-> Fd[e], dir |-> dir, rev |-> FALSE],
          !.events[t.npolls] = e, !.npolls = @ + 1])

\* The last entry takes the place of the deleted one.
Swapped(t, i) ==
    LET last == t.npolls - 1 IN
    IF i < last THEN [t EXCEPT !.events[i] = t.events[last], !.npolls = last]
                ELSE [t EXCEPT !.npolls = last]

poll_del(t, i) ==
    LET last == t.npolls - 1
        s == IF i < last THEN [Swapped(t, i) EXCEPT !.fdset[i] = t.fdset[last]]
                         ELSE Swapped(t, i)
    IN Ok(IF last > NEVENT \div 2 /\ last <= t.max_polls \div 4
          THEN [s EXCEPT !.max_polls = @ \div 2] ELSE s)

-----------------------------------------------------------------------------
(***************************************************************************)
(* select: -1 in max_fd asks evq_wait to find it again.  What is compared  *)
(* with FD_SETSIZE is the number of events, not the descriptor.            *)
(***************************************************************************)
select_add(t, e, dir) ==
    IF t.npolls >= FD_SETSIZE THEN [tab |-> t, ok |-> FALSE]
    ELSE Ok([Touch(t, Fd[e], FD_SETSIZE) EXCEPT
               !.set = @ \cup {<<Fd[e], dir>>},
               !.max_fd = IF @ # -1 /\ @ < Fd[e] THEN Fd[e] ELSE @,
               !.events[t.npolls] = e, !.npolls = @ + 1])

select_del(t, e, dir, i) ==
    Ok([Swapped(t, i) EXCEPT !.set = @ \ {<<Fd[e], dir>>},
                             !.max_fd = IF @ = Fd[e] THEN -1 ELSE @])

\* The largest descriptor of the events.
select_max_fd(t) ==
    IF t.max_fd # -1 THEN t.max_fd
    ELSE Max({-1} \cup {Fd[t.events[i]] : i \in 1..(t.npolls - 1)})

-----------------------------------------------------------------------------
(***************************************************************************)
(* kqueue: changes are gathered in kev_list, where evq_wait then finds the *)
(* results too.                                                            *)
(***************************************************************************)
\* A change fails: the descriptor is closed, or the filter to delete is not there.
Fails(t, c) ==
    \/ c.fd \in t.shut
    \/ c.act = "del" /\ \A f \in t.filters : f.fd # c.fd \/ f.dir # c.dir

\* The kernel makes a change; one descriptor and direction has one filter.
Changed(t, c) ==
    LET others == {f \in t.filters : f.fd # c.fd \/ f.dir # c.dir}
        new == IF c.act = "add" THEN {[fd |-> c.fd, dir |-> c.dir, ev |-> c.ev]} ELSE {}
    IN IF Fails(t, c) THEN t ELSE [t EXCEPT !.filters = others \cup new]

Changes(t) == [i \in 1..t.nchanges |-> t.kev_list[i - 1]]

\* kevent() with the list of changes and room for results, where it puts those that fail.
Flushed(t) == [FoldLeft(Changed, t, Changes(t)) EXCEPT !.nchanges = 0]

\* Without that room it stops at the first one that fails, and returns -1.
Stopping(r, c) ==
    IF r.ok /\ ~Fails(r.tab, c) THEN Ok(Changed(r.tab, c)) ELSE [r EXCEPT !.ok = FALSE]
Flush(t) == FoldLeft(Stopping, Ok(t), Changes(t))

\* Mutant: the list is taken to be empty although its flush failed.
kqueue_setAnyway(t, act, e, dir) ==
    LET s == IF t.nchanges >= NEVENT THEN [Flush(t).tab EXCEPT !.nchanges = 0] ELSE t IN
    Ok([s EXCEPT !.kev_list[s.nchanges] = [act |-> act, fd |-> Fd[e], dir |-> dir, ev |-> e],
                 !.nchanges = @ + 1, !.lost = @ \ {<<Fd[e], dir>>}])

\* The change is added to the list, which is flushed first when it is full.  When that
\* fails the list stays, and the change is dropped.
kqueue_set(t, act, e, dir) ==
    LET f == Flush(t)
        full == t.nchanges >= NEVENT
        s == IF full THEN [f.tab EXCEPT !.nchanges = 0] ELSE t
    IN IF full /\ ~f.ok THEN f
       ELSE Ok([s EXCEPT
                  !.kev_list[s.nchanges] = [act |-> act, fd |-> Fd[e], dir |-> dir, ev |-> e],
                  !.nchanges = @ + 1, !.lost = @ \ {<<Fd[e], dir>>}])

\* The direction is changed by two changes; the second one may be dropped.
kqueue_modify(t, e, old, dir) ==
    LET d == kqueue_set(t, "del", e, old) IN
    IF d.ok THEN kqueue_set(d.tab, "add", e, dir) ELSE d

\* What the kernel watches is no longer what is wanted.
Dropped(r, p) == IF r.ok THEN r.tab ELSE [r.tab EXCEPT !.lost = @ \cup {p}]

-----------------------------------------------------------------------------
(***************************************************************************)
(* The operations of a backend.  `st' is [ev, tab, ready].                 *)
(***************************************************************************)
\* evq_add; levq_add frees the event again when it fails.
evq_add(st, e) ==
    LET dir == FlagsOf(e).dir
        t == [st.tab EXCEPT !.shut = @ \ {Fd[e]}]
        r == CASE kind = "poll" -> poll_add(t, e, dir)
               [] kind = "select" -> select_add(t, e, dir)
               [] kind = "kqueue" -> kqueue_set(t, "add", e, dir)
    IN [st EXCEPT
          !.tab = Dropped(r, <<Fd[e], dir>>),
          !.ev[e] = IF r.ok THEN [FlagsOf(e) EXCEPT !.on = TRUE, !.index = st.tab.npolls]
                    ELSE FlagsOf(e)]

\* A queue with the events that are kept.
Init ==
    /\ kind \in Kinds
    /\ LET st == FoldLeft(evq_add, [ev |-> [e \in Events |-> FlagsOf(e)], tab |-> Table],
                          SetToSeq(Kept))
       IN ev = st.ev /\ tab = st.tab
    /\ at = "run" /\ watch = {} /\ ready = <<>> /\ sig = FALSE /\ call = NONE
    /\ due = {}

\* The event that the last entry belonged to is told its new index.
Moved(st, e, i) ==
    LET last == st.tab.npolls - 1 IN
    IF kind # "kqueue" /\ i < last
    THEN [st.ev EXCEPT ![e].on = FALSE, ![st.tab.events[last]].index = i]
    ELSE [st.ev EXCEPT ![e].on = FALSE]

\* The backend's part of it.
Unwatched(t, e, dir, i, reuse) ==
    CASE kind = "poll" -> poll_del(t, i)
      [] kind = "select" -> select_del(t, e, dir, i)
      [] kind = "kqueue" -> IF reuse THEN kqueue_set(t, "del", e, dir) ELSE Ok(t)

\* It may fail, but the event is gone.
evq_del(st, e, reuse) ==
    LET x == st.ev[e] IN
    [st EXCEPT !.tab = Dropped(Unwatched(@, e, x.dir, x.index, reuse), <<Fd[e], x.dir>>),
               !.ev = Moved(st, e, x.index)]

\* evq_modify, and the flags that levq_mod_socket changes unless it failed.
evq_modify(st, e, dir) ==
    LET old == st.ev[e].dir
        t == st.tab
        r == CASE kind = "poll" -> Ok([t EXCEPT !.fdset[st.ev[e].index].dir = dir])
               [] kind = "select" ->
                    Ok([t EXCEPT !.set = (@ \ {<<Fd[e], old>>}) \cup {<<Fd[e], dir>>}])
               [] kind = "kqueue" -> kqueue_modify(t, e, old, dir)
    IN [st EXCEPT !.tab = Dropped(r, <<Fd[e], old>>), !.ev[e].dir = IF r.ok THEN dir ELSE old]

\* An event is found to be ready.
Activate(st, e) ==
    IF st.ev[e].active THEN st
    ELSE LET a == [st EXCEPT !.ev[e].active = TRUE]
             d == IF e \in OneShots THEN evq_del(a, e, TRUE) ELSE a
         IN [d EXCEPT !.ready = <<e>> \o @]

-----------------------------------------------------------------------------
(***************************************************************************)
(* The walk of evq_wait over the table, for the pairs R of descriptor and  *)
(* direction that the kernel found ready.  `n' is npolls as it was before  *)
(* the wait, `left' how many are still to be found.                        *)
(***************************************************************************)
\* Mutant: the walk ends at the entries that are left.
InWalkShort(st, i) == st.left > 0 /\ i < st.tab.npolls

InWalk(st, i) == st.left > 0 /\ i < st.n

\* The walk keeps the pointers it had before the wait: once evq_del has reallocated the
\* arrays they may point to memory that is free.
PollStep(st, i) ==
    LET t == [Touch(st.tab, i, st.tab.max_polls) EXCEPT
                !.oob = @ \/ st.tab.max_polls # st.max_polls]
    IN
    CASE ~InWalk(st, i) -> st
      [] InWalk(st, i) /\ ~t.fdset[i].rev -> [st EXCEPT !.tab = t]
      [] InWalk(st, i) /\ t.fdset[i].rev ->
           Activate([st EXCEPT !.tab = [t EXCEPT !.fdset[i].rev = FALSE], !.left = @ - 1],
                    t.events[i])

\* select reads its own copies of the sets, which evq_del does not change.
SelectStep(st, i, R) ==
    LET e == st.tab.events[i] IN
    IF ~InWalk(st, i) \/ Wanted(st.ev, e) \notin R THEN st
    ELSE Activate([st EXCEPT !.left = @ - 1], e)

\* The i-th result of kqueue is what kev_list holds when the walk comes to it.  It may
\* name an event that was deleted, and whose slot is free or another's by now: what the
\* code does with it is not followed.
KqueueStep(st, i) ==
    LET k == st.tab.kev_list[i] IN
    CASE k.ev = NONE -> st
      [] k.ev # NONE /\ (st.ev[k.ev].on \/ st.ev[k.ev].active) -> Activate(st, k.ev)
      [] OTHER -> [st EXCEPT !.at = "wild", !.tab.oob = @ \/ <<k.fd, k.dir>> \notin st.tab.lost]

SigPair == <<SigFd, "r">>

\* What poll() stores in fdset, and kevent() in kev_list in the order q.
Revents(t, R) == [i \in 0..Cap |-> [t.fdset[i] EXCEPT
                    !.rev = i < t.npolls /\ <<t.fdset[i].fd, t.fdset[i].dir>> \in R]]
UdataOf(t, p) ==
    IF p = SigPair THEN NONE ELSE (CHOOSE f \in t.filters : <<f.fd, f.dir>> = p).ev
Results(t, q) == [i \in 0..Cap |->
    IF i < Len(q) THEN [act |-> "result", fd |-> q[i + 1][1], dir |-> q[i + 1][2],
                        ev |-> UdataOf(t, q[i + 1])]
    ELSE t.kev_list[i]]

\* A filter that is added with EV_ONESHOT is deleted by the kernel as it is reported.
Left(t, R) == {f \in t.filters : f.ev \in OneShots => <<f.fd, f.dir>> \notin R}

Steps(a, b) == [i \in 1..(b - a + 1) |-> a + i - 1]

evq_wait(R, q) ==
    LET st == [ev |-> ev, tab |-> tab, ready |-> ready, at |-> "run", n |-> tab.npolls,
               max_polls |-> tab.max_polls, left |-> Cardinality(R \ {SigPair})]
    IN CASE kind = "poll" ->
              FoldLeft(PollStep, [st EXCEPT !.tab.fdset = Revents(tab, R)],
                       Steps(1, tab.npolls - 1))
         [] kind = "select" ->
              FoldLeft(LAMBDA s, i : SelectStep(s, i, R), st, Steps(1, tab.npolls - 1))
         [] kind = "kqueue" ->
              FoldLeft(KqueueStep, [st EXCEPT !.tab.kev_list = Results(tab, q),
                                              !.tab.filters = Left(tab, R)],
                       Steps(0, Len(q) - 1))

-----------------------------------------------------------------------------
(***************************************************************************)
(* The loop and the calls.                                                 *)
(***************************************************************************)
\* What the backend asks the kernel to watch.
Watches(t) ==
    CASE kind = "poll" -> {<<t.fdset[i].fd, t.fdset[i].dir>> : i \in 0..(t.npolls - 1)}
      [] kind = "select" -> {p \in t.set : p[1] <= t.max_fd}
      [] kind = "kqueue" -> {SigPair} \cup {<<f.fd, f.dir>> : f \in t.filters}

\* The loop comes to evq_wait.  A call keeps it out (nactives).
MayWait == at = "run" /\ ready = <<>> /\ call = NONE

\* evq_wait until it enters the kernel.
WaitEnter ==
    /\ MayWait /\ (kind = "kqueue" => Flush(tab).ok)
    /\ at' = "wait"
    /\ tab' = CASE kind = "poll" -> tab
                [] kind = "select" -> [tab EXCEPT !.max_fd = select_max_fd(tab)]
                [] kind = "kqueue" -> Flushed(tab)
    /\ watch' = Watches(tab')
    /\ UNCHANGED <<kind, ev, ready, sig, call, due>>

\* kevent() makes the changes it can and returns the others, marked EV_ERROR, at once; the
\* walk passes them over.
WaitFails ==
    /\ MayWait /\ kind = "kqueue" /\ ~Flush(tab).ok
    /\ tab' = Flushed(tab)
    /\ UNCHANGED <<kind, ev, at, watch, ready, sig, call, due>>

\* The kernel returns some of what is ready.
WaitReturns(R, q) ==
    /\ at = "wait" /\ R # {}
    /\ SigPair \in R => sig
    /\ kind # "kqueue" => ((sig /\ SigPair \in watch) => SigPair \in R)
    /\ LET st == evq_wait(R, q) IN
         /\ ev' = st.ev /\ tab' = st.tab /\ ready' = st.ready /\ at' = st.at
    /\ due' = {e \in Events : ev[e].on /\ Wanted(ev, e) \in R}
    /\ sig' = (sig /\ SigPair \notin R)
    /\ watch' = {}
    /\ UNCHANGED <<kind, call>>

\* EINTR, or a timeout.
WaitEnds ==
    /\ at = "wait"
    /\ at' = "run" /\ watch' = {}
    /\ UNCHANGED <<kind, ev, tab, ready, sig, call, due>>

\* sys_evq_loop handles the next event.
HandleReady ==
    /\ at = "run" /\ ready # <<>>
    /\ ready' = Tail(ready) /\ due' = due \ {Head(ready)}
    /\ ev' = [ev EXCEPT ![Head(ready)].active = FALSE]
    /\ UNCHANGED <<kind, tab, at, watch, sig, call>>

\* When a call makes sense.
MayCall(op, e) ==
    CASE op = "add" -> ~ev[e].on /\ ~ev[e].active
      [] op = "del" -> ev[e].on /\ e \notin Kept
      [] op = "mod" -> ev[e].on /\ e \in Mods

\* levq_control_wait: a call ends the wait through sig_fd.
levq_control_wait(op, e) ==
    /\ call = NONE /\ MayCall(op, e) /\ at # "wild"
    /\ call' = [op |-> op, ev |-> e]
    /\ sig' = (sig \/ at = "wait")
    /\ UNCHANGED <<kind, ev, tab, at, watch, ready, due>>

\* levq_add, levq_del and levq_mod_socket go on; the event may be gone meanwhile.
CallGo ==
    /\ call # NONE /\ at = "run"
    /\ LET e == call.ev
           st == [ev |-> ev, tab |-> tab, ready |-> ready]
           go == CASE call.op = "add" -> evq_add(st, e)
                   [] call.op = "del" /\ ev[e].on -> evq_del(st, e, e \notin Closed)
                   [] call.op = "mod" /\ ev[e].on ->
                        evq_modify(st, e, IF ev[e].dir = "r" THEN "w" ELSE "r")
                   [] OTHER -> st
       IN /\ ev' = go.ev
          /\ tab' = IF call.op = "del" /\ e \in Closed
                    THEN [go.tab EXCEPT !.filters = {f \in @ : f.fd # Fd[e]},
                                        !.shut = IF e \in Reopens THEN @ ELSE @ \cup {Fd[e]}]
                    ELSE go.tab
          /\ due' = IF call.op = "del" THEN due \ {e} ELSE due
    /\ call' = NONE
    /\ UNCHANGED <<kind, at, watch, ready, sig>>

\* kevent() returns at most NEVENT results, in any order.
Orders(R) ==
    CASE kind # "kqueue" -> {<<>>}
      [] kind = "kqueue" /\ Cardinality(R) <= NEVENT -> SetToSeqs(R)
      [] OTHER -> {}

\* A freed event that is used is the end of what the model follows.
Wild == at = "wild" /\ UNCHANGED vars

Next ==
    \/ Wild \/ WaitEnter \/ WaitFails \/ WaitEnds \/ HandleReady \/ CallGo
    \/ \E R \in SUBSET watch : \E q \in Orders(R) : WaitReturns(R, q)
    \/ \E op \in {"add", "del", "mod"}, e \in Events : levq_control_wait(op, e)

Spec == Init /\ [][Next]_vars

-----------------------------------------------------------------------------
(***************************************************************************)
(* Properties.                                                             *)
(***************************************************************************)
\* While the thread waits, the kernel watches sig_fd and the events that are added, in
\* their direction, and nothing else, whatever was swapped, gathered or cached; but for
\* what evq_add or evq_del was for when it failed, since kqueue_set could not flush.
Watched ==
    at = "wait" =>
        watch \ tab.lost = ({SigPair} \cup {Wanted(ev, e) : e \in On(ev)}) \ tab.lost

\* Every event of poll and select knows its place in the table, also when one-shot
\* events are deleted during the walk over it.
IndexSound ==
    kind # "kqueue" =>
        /\ tab.npolls = 1 + Cardinality(On(ev))
        /\ \A e \in On(ev) : ev[e].index \in 1..(tab.npolls - 1)
                             /\ tab.events[ev[e].index] = e

\* The table and the kernel hold the events that are added.
TableSound == Watched /\ IndexSound

\* The walk finds every event that the kernel reported, and each one once, although
\* entries change places under it and kqueue's results share memory with its changes.
Reported ==
    /\ IsInjective(ready)
    /\ at = "run" => due \subseteq Range(ready)
    /\ \A e \in Range(ready) : ev[e].active

\* poll's arrays are large enough for every access, as they grow and shrink, select's
\* hold what is added, and a result of kqueue names an event that is there, unless the
\* change that deleted it was dropped.
InBounds == ~tab.oob

\* sig_fd is, in the words of select.h:14, the "pipe to interrupt the loop": while a call
\* waits for the thread to leave the kernel, the kernel watches it.
Interrupted == (call # NONE /\ at = "wait") => SigPair \in watch
=============================================================================
