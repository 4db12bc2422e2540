------------------------------- MODULE DataPool -------------------------------
(***************************************************************************)
(* The data pool of thread_dpool.c: threads of one Lua VM exchange data    *)
(* through a storage with a high watermark, or hand it over directly from  *)
(* a writer to a blocked reader.                                           *)
(*                                                                         *)
(* All threads of a VM run under its lock, which a thread gives up only in *)
(* thread_event_wait, in sys_thread_switch and in Lua callbacks.  What a   *)
(* thread does between two such points is one atomic action here, and pc   *)
(* is the point where the thread stands:                                   *)
(*   idle     outside the pool                                             *)
(*   onfull   in the put_on_full callback       (thread_dpool.c:81)        *)
(*   onempty  in the get_on_empty callback      (thread_dpool.c:145)       *)
(*   direct   in sys_thread_switch, data offered (thread_dpool.c:100)      *)
(*   check    left the VM, before the event's lock (thread_sync.c:163,170) *)
(*   sleep    in pthread_cond_(timed)wait        (thread_sync.c:165,172)   *)
(*   woken    left the event, before the VM's lock (thread_sync.c:297)     *)
(*                                                                         *)
(* A message is the number of the put that brought it.                     *)
(***************************************************************************)
EXTENDS Integers, Sequences, FiniteSets

CONSTANTS
    Writers,       \* threads that call dpool:put
    Readers,       \* threads that call dpool:get
    NoThread,      \* dp->L == NULL
    MaxPuts,       \* bound: calls of dpool:put
    Unlimited,     \* the watermark (unsigned int) -1 of a new pool
    InitialMax,    \* the watermark when the threads begin to share the pool
    Maxes,         \* watermarks that dpool:max sets later
    Callbacks,     \* the sets of callbacks that dpool:callbacks installs
    Interruptible  \* threads that thread:interrupt is called for

Threads == Writers \cup Readers

\* DPOOL_PUTONFULL and DPOOL_GETONEMPTY: a function is installed.
CallbackFlags == {"putonfull", "getonempty"}

ASSUME ThreadsAssumption ==
    /\ IsFiniteSet(Threads)
    /\ NoThread \notin Threads
    /\ Interruptible \subseteq Threads

\* Unlimited stands for 2^32 - 1: more data than a run ever stores.
ASSUME BoundsAssumption ==
    /\ MaxPuts \in Nat
    /\ Unlimited \in Nat /\ Unlimited > MaxPuts
    /\ InitialMax \in Nat
    /\ Maxes \subseteq Nat
    /\ Callbacks \subseteq SUBSET CallbackFlags

VARIABLES
    store,      \* the data in the storage, oldest first; dp->n is its length
    nwaits,     \* dp->nwaits: number of blocked readers
    nput,       \* dp->nput: 1 while data is offered for direct hand-over
    L,          \* dp->L: the writer that offers it
    max,        \* dp->max
    flags,      \* dp->flags: the callbacks installed
    signalled,  \* dp->tev.signalled
    pc,         \* where each thread stands
    data,       \* the message on a writer's Lua stack, 0 when there is none
    timed,      \* 1 when the reader's wait has a finite timeout
    res,        \* what thread_event_wait returned: 0, or 1 when timed out
    intr,       \* 1 while td->flags is SYS_THREAD_INTERRUPT
    nputs,      \* history: number of puts so far
    got,        \* history: messages returned by dpool:get
    refused     \* history: messages dropped by the callback or by an interrupt

poolVars == <<store, nwaits, nput, L, max, flags, signalled>>
threadVars == <<pc, data, timed, res, intr>>
history == <<nputs, got, refused>>
vars == <<store, nwaits, nput, L, max, flags, signalled,
          pc, data, timed, res, intr, nputs, got, refused>>

Messages == 1..MaxPuts

Waiting(t) == pc[t] \in {"check", "sleep", "woken"}

\* A writer keeps its data on its stack while it waits; a reader has none.
BlockedReaders == {t \in Threads : Waiting(t) /\ data[t] = 0}

\* The messages in a storage s, and those on the writers' stacks d.
StoredIn(s) == {s[i] : i \in 1..Len(s)}
HeldOn(d) == {d[t] : t \in Threads} \ {0}

Full == Len(store) >= max

-----------------------------------------------------------------------------

Init ==
    /\ store = <<>>
    /\ nwaits = 0
    /\ nput = 0
    /\ L = NoThread
    /\ max = InitialMax
    /\ flags = {}
    /\ signalled = 0
    /\ pc = [t \in Threads |-> "idle"]
    /\ data = [t \in Threads |-> 0]
    /\ timed = [t \in Threads |-> 0]
    /\ res = [t \in Threads |-> 0]
    /\ intr = [t \in Threads |-> 0]
    /\ nputs = 0
    /\ got = {}
    /\ refused = {}

Goto(t, label) == pc' = [pc EXCEPT ![t] = label]

-----------------------------------------------------------------------------
(* thread_event_wait and thread_event_signal: an auto-reset event.         *)

\* The value is tested under the event's lock before and after sleeping; the
\* waiter that finds it set resets it.
Consume(t) ==
    /\ signalled = 1
    /\ signalled' = 0
    /\ res' = [res EXCEPT ![t] = 0]
    /\ Goto(t, "woken")

EventCheck(t) ==
    /\ pc[t] = "check"
    /\ \/ Consume(t)
       \/ signalled = 0 /\ Goto(t, "sleep") /\ UNCHANGED <<signalled, res>>
    /\ UNCHANGED <<store, nwaits, nput, L, max, flags, data, timed, intr, history>>

EventWake(t) ==
    /\ pc[t] = "sleep"
    /\ Consume(t)
    /\ UNCHANGED <<store, nwaits, nput, L, max, flags, data, timed, intr, history>>

\* The deadline may pass while a signal is on its way: it is then left set.
EventTimeout(t) ==
    /\ pc[t] = "sleep"
    /\ timed[t] = 1
    /\ res' = [res EXCEPT ![t] = 1]
    /\ Goto(t, "woken")
    /\ UNCHANGED <<poolVars, data, timed, intr, history>>

-----------------------------------------------------------------------------
(* dpool:put                                                               *)

\* Offer the data to a blocked reader and yield, or keep it in the storage.
CanOffer == nwaits # 0 /\ L = NoThread

Offer(t, m) ==
    /\ L' = t
    /\ nput' = 1
    /\ signalled' = 1
    /\ data' = [data EXCEPT ![t] = m]
    /\ Goto(t, "direct")
    /\ UNCHANGED store

\* Mutant: the data is stored without a signal.
KeepSilently(t, m) ==
    /\ store' = Append(store, m)
    /\ data' = [data EXCEPT ![t] = 0]
    /\ Goto(t, "idle")
    /\ UNCHANGED signalled

Keep(t, m) ==
    /\ store' = Append(store, m)
    /\ signalled' = IF store = <<>> THEN 1 ELSE signalled
    /\ data' = [data EXCEPT ![t] = 0]
    /\ Goto(t, "idle")

PutData(t, m) ==
    /\ \/ CanOffer /\ Offer(t, m)
       \/ ~CanOffer /\ Keep(t, m) /\ UNCHANGED <<L, nput>>
    /\ UNCHANGED timed

WaitRoom(t, m) ==
    /\ Goto(t, "check")
    /\ data' = [data EXCEPT ![t] = m]
    /\ timed' = [timed EXCEPT ![t] = 0]
    /\ UNCHANGED <<store, nput, L, signalled>>

dpool_put(t) ==
    /\ pc[t] = "idle"
    /\ nputs < MaxPuts
    /\ nputs' = nputs + 1
    /\ \/ /\ Full /\ "putonfull" \in flags
          /\ Goto(t, "onfull")
          /\ data' = [data EXCEPT ![t] = nputs + 1]
          /\ UNCHANGED <<store, nput, L, signalled, timed>>
       \/ Full /\ "putonfull" \notin flags /\ WaitRoom(t, nputs + 1)
       \/ ~Full /\ PutData(t, nputs + 1)
    /\ UNCHANGED <<nwaits, max, flags, res, intr, got, refused>>

Refuse(t) ==
    /\ refused' = refused \cup {data[t]}
    /\ data' = [data EXCEPT ![t] = 0]
    /\ Goto(t, "idle")
    /\ UNCHANGED <<store, nput, L, signalled, timed>>

\* The callback returns nothing, or the data to be put whatever the watermark.
PutOnFull(t) ==
    /\ pc[t] = "onfull"
    /\ \/ Refuse(t)
       \/ PutData(t, data[t]) /\ UNCHANGED refused
    /\ UNCHANGED <<nwaits, max, flags, res, intr, nputs, got>>

\* Back from thread_event_wait: sys_thread_check raises an error in an
\* interrupted thread, whose data is then lost.
PutWoken(t) ==
    /\ pc[t] = "woken"
    /\ data[t] # 0
    /\ \/ intr[t] = 1 /\ Refuse(t)
       \/ intr[t] = 0 /\ Full /\ WaitRoom(t, data[t]) /\ UNCHANGED refused
       \/ intr[t] = 0 /\ ~Full /\ PutData(t, data[t]) /\ UNCHANGED refused
    /\ UNCHANGED <<nwaits, max, flags, res, intr, nputs, got>>

\* Mutant: the writer goes on with its offer still standing.
PutSwitchedOfferLeft(t) ==
    /\ pc[t] = "direct"
    /\ \/ nput = 0 /\ Goto(t, "idle") /\ UNCHANGED <<store, signalled, data>>
       \/ nput # 0 /\ Keep(t, data[t])
    /\ UNCHANGED <<nwaits, nput, L, max, flags, timed, res, intr, history>>

\* Back from sys_thread_switch: nput tells whether a reader took the data.
PutSwitched(t) ==
    /\ pc[t] = "direct"
    /\ L' = NoThread
    /\ nput' = 0
    /\ \/ nput = 0 /\ Goto(t, "idle") /\ UNCHANGED <<store, signalled, data>>
       \/ nput # 0 /\ Keep(t, data[t])
    /\ UNCHANGED <<nwaits, max, flags, timed, res, intr, history>>

-----------------------------------------------------------------------------
(* dpool:get                                                               *)

\* Take the oldest data of the storage, and tell a writer when that makes
\* room; wait when the storage is empty.  nw is nwaits without this reader.
Fetch(t, nw) ==
    /\ \/ /\ store # <<>>
          /\ got' = got \cup {Head(store)}
          /\ store' = Tail(store)
          /\ signalled' = IF Len(store) = max THEN 1 ELSE signalled
          /\ nwaits' = nw
          /\ Goto(t, "idle")
       \/ /\ store = <<>>
          /\ nwaits' = nw + 1
          /\ Goto(t, "check")
          /\ UNCHANGED <<store, got, signalled>>
    /\ UNCHANGED <<nput, data>>

dpool_get(t, timeout) ==
    /\ pc[t] = "idle"
    /\ timed' = [timed EXCEPT ![t] = timeout]
    /\ \/ /\ "getonempty" \in flags /\ store = <<>>
          /\ Goto(t, "onempty")
          /\ UNCHANGED <<store, nwaits, nput, signalled, data, got>>
       \/ ~("getonempty" \in flags /\ store = <<>>) /\ Fetch(t, nwaits)
    /\ UNCHANGED <<L, max, flags, res, intr, nputs, refused>>

\* The callback returns data of its own, or nothing: then wait as usual.
GetOnEmpty(t) ==
    /\ pc[t] = "onempty"
    /\ \/ Goto(t, "idle") /\ UNCHANGED <<store, nwaits, nput, signalled, data, got>>
       \/ Fetch(t, nwaits)
    /\ UNCHANGED <<L, max, flags, timed, res, intr, nputs, refused>>

\* Mutant: a reader that gives up is still counted.
GiveUpUncounted(t) ==
    /\ Goto(t, "idle")
    /\ UNCHANGED <<store, nwaits, nput, signalled, data, got>>

GiveUp(t) ==
    /\ nwaits' = nwaits - 1
    /\ Goto(t, "idle")
    /\ UNCHANGED <<store, nput, signalled, data, got>>

\* Mutant: the reader takes a copy and does not tell the writer.
TakeOfferCopied(t) ==
    /\ got' = got \cup {data[L]}
    /\ nwaits' = nwaits - 1
    /\ Goto(t, "idle")
    /\ UNCHANGED <<store, nput, signalled, data>>

TakeOffer(t) ==
    /\ got' = got \cup {data[L]}
    /\ data' = [data EXCEPT ![L] = 0]
    /\ nput' = 0
    /\ nwaits' = nwaits - 1
    /\ Goto(t, "idle")
    /\ UNCHANGED <<store, signalled>>

\* Back from thread_event_wait.
GetWoken(t) ==
    /\ pc[t] = "woken"
    /\ data[t] = 0
    /\ \/ (intr[t] = 1 \/ res[t] = 1) /\ GiveUp(t)
       \/ intr[t] = 0 /\ res[t] = 0 /\ nput # 0 /\ TakeOffer(t)
       \/ intr[t] = 0 /\ res[t] = 0 /\ nput = 0 /\ Fetch(t, nwaits - 1)
    /\ UNCHANGED <<L, max, flags, timed, res, intr, nputs, refused>>

-----------------------------------------------------------------------------
(* The other methods, and the interrupts of other threads                  *)

dpool_max(m) ==
    /\ max' = m
    /\ UNCHANGED <<store, nwaits, nput, L, flags, signalled, threadVars, history>>

dpool_callbacks(cb) ==
    /\ flags' = cb
    /\ UNCHANGED <<store, nwaits, nput, L, max, signalled, threadVars, history>>

\* Sets or recovers the flag; a thread asleep on the event is not woken.
thread_set_interrupt(t) ==
    /\ intr' = [intr EXCEPT ![t] = 1 - intr[t]]
    /\ UNCHANGED <<poolVars, pc, data, timed, res, history>>

-----------------------------------------------------------------------------

\* What a thread inside the pool does on its own.
Step(t) ==
    \/ EventCheck(t) \/ EventWake(t)
    \/ PutOnFull(t) \/ PutWoken(t) \/ PutSwitched(t)
    \/ GetOnEmpty(t) \/ GetWoken(t)

Next ==
    \/ \E t \in Threads : Step(t) \/ EventTimeout(t)
    \/ \E t \in Writers : dpool_put(t)
    \/ \E t \in Readers, timeout \in 0..1 : dpool_get(t, timeout)
    \/ \E m \in Maxes : dpool_max(m)
    \/ \E cb \in Callbacks : dpool_callbacks(cb)
    \/ \E t \in Interruptible : thread_set_interrupt(t)

Spec == Init /\ [][Next]_vars

\* A runnable thread is eventually scheduled, gets the VM's lock, and returns
\* from a callback.  Calls, timeouts and interrupts need not happen.
FairSpec == Spec /\ \A t \in Threads : WF_vars(Step(t))

-----------------------------------------------------------------------------

\* Every field of the pool and of its threads has its type.
TypeOK ==
    /\ store \in Seq(Messages)
    /\ nwaits \in Int
    /\ nput \in 0..1
    /\ L \in Threads \cup {NoThread}
    /\ max \in Nat
    /\ flags \subseteq CallbackFlags
    /\ signalled \in 0..1
    /\ pc \in [Threads -> {"idle", "onfull", "onempty", "direct",
                           "check", "sleep", "woken"}]
    /\ data \in [Threads -> 0..MaxPuts]
    /\ timed \in [Threads -> 0..1]
    /\ res \in [Threads -> 0..1]
    /\ intr \in [Threads -> 0..1]
    /\ nputs \in 0..MaxPuts
    /\ got \subseteq Messages
    /\ refused \subseteq Messages

\* dp->L and dp->nput agree with the writer's position: dp->L is the one writer
\* inside sys_thread_switch (so a reader that sees dp->nput never moves data from
\* the stack of a thread that has gone on), and the data is still on its stack
\* exactly while dp->nput is set.  No thread leaves the pool with data.
HandoffConsistent ==
    /\ \A t \in Threads : pc[t] = "direct" <=> L = t
    /\ nput = 1 => L # NoThread
    /\ L # NoThread => (nput = 1 <=> data[L] # 0)
    /\ \A t \in Threads : pc[t] \in {"idle", "onempty"} => data[t] = 0
    /\ \A t \in Threads : pc[t] = "onfull" => data[t] # 0

\* dp->nwaits counts the blocked readers on every path out of the wait: taken,
\* timed out, interrupted, or woken in vain (thread_dpool.c:178-189).
NwaitsExact == nwaits = Cardinality(BlockedReaders)

\* Every message put is in exactly one place: on one writer's stack, in one slot
\* of the storage, returned by one dpool:get, or refused.  Nothing is lost or
\* duplicated by the race between the direct hand-over and its fallback.
Conservation ==
    LET Held == HeldOn(data)
        Stored == StoredIn(store)
    IN  /\ 1..nputs = Held \cup Stored \cup got \cup refused
        /\ Held \cap Stored = {} /\ got \cap refused = {}
        /\ (Held \cup Stored) \cap (got \cup refused) = {}
        /\ \A i, j \in 1..Len(store) : store[i] = store[j] => i = j
        /\ \A t, u \in Threads : data[t] = data[u] /\ data[t] # 0 => t = u

\* The pool implements MessagePool: the data in the storage and on the writers'
\* stacks is pending; every step of the code puts, delivers or drops at most one
\* message, and a message leaves the pool once.
Pool == INSTANCE MessagePool WITH
    sent <- nputs,
    pending <- HeldOn(data) \cup StoredIn(store),
    delivered <- got,
    dropped <- refused

ImplementsPool == Pool!Spec

\* With one reader and no watermark, a waiting reader has a signal waiting for it
\* whenever there is data in the storage: none is lost between the test of dp->n
\* under the VM's lock and the sleep under the event's lock, nor between the
\* signals of the direct hand-over and of the storage, which share one event.
SoleReader == Cardinality(Readers) = 1 /\ InitialMax = Unlimited /\ Maxes = {}

NoLostWakeup ==
    SoleReader =>
    \A t \in BlockedReaders :
        pc[t] \in {"check", "sleep"} /\ store # <<>> => signalled = 1

\* "Returns: data_items" (thread_dpool.c:125): a reader that waits while there is
\* data in the storage is served, or gives up.
ReaderServed ==
    \A t \in Readers :
        (t \in BlockedReaders /\ store # <<>>) ~> (t \notin BlockedReaders)
=============================================================================
