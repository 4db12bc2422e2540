------------------------------- MODULE PipeSync -------------------------------
(***************************************************************************)
(* How the threads that share a pipe (thread_pipe.c) wait for each other.  *)
(* The pipe's lock cs guards its state; readers sleep on put_cond, writers *)
(* on get_cond, and signal_on_put and signal_on_get count them.  A thread  *)
(* also holds the lock of its Lua VM, except while it sleeps.              *)
(*                                                                         *)
(* The pipe's lock is held from one action to the next only by a thread    *)
(* that came back from pthread_cond_wait and waits for its VM's lock; all  *)
(* that a thread does under both locks is one action.  pc is where a       *)
(* thread stands:                                                          *)
(*   out    outside the pipe, without the VM's lock                        *)
(*   enter  holds the VM's lock, waits for cs     (thread_pipe.c:327,415)  *)
(*   wait   asleep in pthread_cond_(timed)wait    (thread_sync.c:130,135)  *)
(*   woken  awake, waits for cs inside of it                               *)
(*   vm     holds cs, waits for the VM's lock     (thread_pipe.c:305)      *)
(*                                                                         *)
(* The messages are counted, the storage is module PipeBuffer's: an empty  *)
(* one has room (RingReady), else room depends on sizes and offsets.       *)
(***************************************************************************)
EXTENDS Integers, FiniteSets

CONSTANTS
    Writers,   \* threads that call pipe:put
    Readers,   \* threads that call pipe:get
    Vm,        \* the VM of each thread
    Sure,      \* so many messages fit whatever their sizes
    Cap        \* no more messages than this fit

Threads == Writers \cup Readers

ASSUME PipeAssumption ==
    /\ IsFiniteSet(Threads)
    /\ Writers \cap Readers = {}
    /\ DOMAIN Vm = Threads
    /\ Sure \in Nat \ {0} /\ Cap \in Nat /\ Sure <= Cap

VARIABLES
    nmsg,           \* pp->nmsg
    signal_on_put,  \* pp->signal_on_put
    signal_on_get,  \* pp->signal_on_get
    pc,             \* where each thread stands
    timed,          \* 1 when the call has a finite timeout
    res             \* result of thread_cond_wait_nolock: 0, or 1 when timed out

vars == <<nmsg, signal_on_put, signal_on_get, pc, timed, res>>

VmIsFree(t) == \A u \in Threads : Vm[u] = Vm[t] => pc[u] # "enter"
CsIsFree == \A u \in Threads : pc[u] # "vm"

InWait(t) == pc[t] \in {"wait", "woken", "vm"}

Init ==
    /\ nmsg = 0
    /\ signal_on_put = 0
    /\ signal_on_get = 0
    /\ pc = [t \in Threads |-> "out"]
    /\ timed = [t \in Threads |-> 0]
    /\ res = [t \in Threads |-> 0]

-----------------------------------------------------------------------------
(* thread_cond_signal and pthread_cond_wait                                *)

Asleep(S, p) == {u \in S : p[u] = "wait"}

\* The threads' places after a signal to the waiters S, which is sent only if their
\* number n is not 0: one of those asleep wakes up, if there is one.
Signalled(n, S, p) ==
    IF n # 0 /\ Asleep(S, p) # {}
    THEN {[p EXCEPT ![u] = "woken"] : u \in Asleep(S, p)}
    ELSE {p}

Moved(p, t, label) == [p EXCEPT ![t] = label]

Timeout(t) ==
    /\ pc[t] = "wait"
    /\ timed[t] = 1
    /\ pc' = Moved(pc, t, "woken")
    /\ res' = [res EXCEPT ![t] = 1]
    /\ UNCHANGED <<nmsg, signal_on_put, signal_on_get, timed>>

\* POSIX lets a wait return without a signal.
SpuriousWakeup(t) ==
    /\ pc[t] = "wait"
    /\ pc' = Moved(pc, t, "woken")
    /\ UNCHANGED <<nmsg, signal_on_put, signal_on_get, timed, res>>

\* pthread_cond_wait returns with cs locked, then sys_vm2_enter locks the VM.
Relock(t) ==
    /\ pc[t] = "woken"
    /\ CsIsFree
    /\ pc' = Moved(pc, t, "vm")
    /\ UNCHANGED <<nmsg, signal_on_put, signal_on_get, timed, res>>

-----------------------------------------------------------------------------
(* pipe:put                                                                *)

pipe_put(t, timeout) ==
    /\ pc[t] = "out"
    /\ VmIsFree(t)
    /\ pc' = Moved(pc, t, "enter")
    /\ timed' = [timed EXCEPT ![t] = timeout]
    /\ UNCHANGED <<nmsg, signal_on_put, signal_on_get, res>>

\* One turn of the loop, entered with n writers waiting and the threads at p.
PutTurn(t, n, p) ==
    \/ /\ nmsg < Cap
       /\ nmsg' = nmsg + 1
       /\ signal_on_get' = n
       /\ pc' \in Signalled(signal_on_put, Readers, Moved(p, t, "out"))
       /\ UNCHANGED res
    \/ /\ nmsg >= Sure
       /\ signal_on_get' = n + 1
       /\ pc' = Moved(p, t, "wait")
       /\ res' = [res EXCEPT ![t] = 0]
       /\ UNCHANGED nmsg

PutEnter(t) ==
    /\ pc[t] = "enter"
    /\ CsIsFree
    /\ PutTurn(t, signal_on_get, pc)
    /\ UNCHANGED <<signal_on_put, timed>>

\* Mutant: a writer that timed out is still counted.
PutWokenUncounted(t) ==
    /\ pc[t] = "vm"
    /\ VmIsFree(t)
    /\ LET n == signal_on_get - 1
       IN  \E p \in Signalled(n, Writers, pc) :
              \/ res[t] = 0 /\ PutTurn(t, n, p)
              \/ /\ res[t] = 1
                 /\ pc' = Moved(p, t, "out")
                 /\ UNCHANGED <<nmsg, signal_on_get, res>>
    /\ UNCHANGED <<signal_on_put, timed>>

\* A writer that wakes up, for whatever reason, passes the signal on.
PutWoken(t) ==
    /\ pc[t] = "vm"
    /\ VmIsFree(t)
    /\ LET n == signal_on_get - 1
       IN  \E p \in Signalled(n, Writers, pc) :
              \/ res[t] = 0 /\ PutTurn(t, n, p)
              \/ /\ res[t] = 1
                 /\ signal_on_get' = n
                 /\ pc' = Moved(p, t, "out")
                 /\ UNCHANGED <<nmsg, res>>
    /\ UNCHANGED <<signal_on_put, timed>>

-----------------------------------------------------------------------------
(* pipe:get                                                                *)

pipe_get(t, timeout) ==
    /\ pc[t] = "out"
    /\ VmIsFree(t)
    /\ pc' = Moved(pc, t, "enter")
    /\ timed' = [timed EXCEPT ![t] = timeout]
    /\ UNCHANGED <<nmsg, signal_on_put, signal_on_get, res>>

\* Mutant: a message is got without a signal to the writers.
GetTurnSilent(t, n) ==
    \/ /\ nmsg > 0
       /\ nmsg' = nmsg - 1
       /\ signal_on_put' = n
       /\ pc' \in Signalled(IF nmsg > 1 THEN n ELSE 0, Readers, Moved(pc, t, "out"))
       /\ UNCHANGED res
    \/ /\ nmsg = 0
       /\ signal_on_put' = n + 1
       /\ pc' = Moved(pc, t, "wait")
       /\ res' = [res EXCEPT ![t] = 0]
       /\ UNCHANGED nmsg

\* One turn of the loop, entered with n readers waiting.  A reader that leaves
\* messages behind wakes another one, and tells the writers of the room it made.
GetTurn(t, n) ==
    \/ /\ nmsg > 0
       /\ nmsg' = nmsg - 1
       /\ signal_on_put' = n
       /\ \E p \in Signalled(IF nmsg > 1 THEN n ELSE 0, Readers,
                            Moved(pc, t, "out")) :
             pc' \in Signalled(signal_on_get, Writers, p)
       /\ UNCHANGED res
    \/ /\ nmsg = 0
       /\ signal_on_put' = n + 1
       /\ pc' = Moved(pc, t, "wait")
       /\ res' = [res EXCEPT ![t] = 0]
       /\ UNCHANGED nmsg

GetEnter(t) ==
    /\ pc[t] = "enter"
    /\ CsIsFree
    /\ GetTurn(t, signal_on_put)
    /\ UNCHANGED <<signal_on_get, timed>>

\* Mutant: a reader that timed out tries again.
GetWokenRetry(t) ==
    /\ pc[t] = "vm"
    /\ VmIsFree(t)
    /\ GetTurn(t, signal_on_put - 1)
    /\ UNCHANGED <<signal_on_get, timed>>

GetWoken(t) ==
    /\ pc[t] = "vm"
    /\ VmIsFree(t)
    /\ \/ res[t] = 0 /\ GetTurn(t, signal_on_put - 1)
       \/ /\ res[t] = 1
          /\ signal_on_put' = signal_on_put - 1
          /\ pc' = Moved(pc, t, "out")
          /\ UNCHANGED <<nmsg, res>>
    /\ UNCHANGED <<signal_on_get, timed>>

-----------------------------------------------------------------------------

\* What a thread inside the pipe does on its own.
Step(t) ==
    \/ Relock(t)
    \/ t \in Writers /\ (PutEnter(t) \/ PutWoken(t))
    \/ t \in Readers /\ (GetEnter(t) \/ GetWoken(t))

Next ==
    \/ \E t \in Threads : Step(t) \/ Timeout(t) \/ SpuriousWakeup(t)
    \/ \E t \in Writers, timeout \in 0..1 : pipe_put(t, timeout)
    \/ \E t \in Readers, timeout \in 0..1 : pipe_get(t, timeout)

Spec == Init /\ [][Next]_vars

\* A thread that can go on again and again, between others that hold the lock,
\* does; a timeout passes, unless the thread is woken first; waits do not return
\* without a signal for ever.  Nobody has to call.
FairSpec ==
    /\ Spec
    /\ \A t \in Threads : SF_vars(Step(t)) /\ WF_vars(Timeout(t))
    /\ <>[][\A t \in Threads : ~SpuriousWakeup(t)]_vars

-----------------------------------------------------------------------------

\* The counters, the places of the threads and their results have their types.
TypeOK ==
    /\ nmsg \in 0..Cap
    /\ signal_on_put \in Int /\ signal_on_get \in Int
    /\ pc \in [Threads -> {"out", "enter", "wait", "woken", "vm"}]
    /\ timed \in [Threads -> 0..1]
    /\ res \in [Threads -> 0..1]

\* The counters are exact on every way out of a wait, with threads that time out
\* or wake up in vain: a signal is left out (thread_pipe.c:389,436,460) only when
\* nobody is there to get it.
CountsExact ==
    /\ signal_on_put = Cardinality({t \in Readers : InWait(t)})
    /\ signal_on_get = Cardinality({t \in Writers : InWait(t)})

\* No wake-up is lost: while there are messages and a reader sleeps, another one
\* is on its way to them, and has not timed out (it would not pass the signal on);
\* while the pipe is empty and a writer sleeps, another writer is on its way.
NoLostWakeup ==
    /\ nmsg > 0 /\ Asleep(Readers, pc) # {}
          => \E t \in Readers : pc[t] \in {"woken", "vm"} /\ res[t] = 0
    /\ nmsg = 0 /\ Asleep(Writers, pc) # {}
          => \E t \in Writers : pc[t] \in {"woken", "vm"}

\* Messages do not stay in the pipe while readers wait for one (every message is
\* got in the end, or no reader waits), when every thread runs in a VM of its own.
MessagesGot ==
    (nmsg > 0 /\ \E t \in Readers : InWait(t))
        ~> (nmsg = 0 \/ \A t \in Readers : ~InWait(t))

\* "timedout (false)" (thread_pipe.c:400): a pipe:get with a timeout returns.
TimedGetReturns ==
    \A t \in Readers : (InWait(t) /\ timed[t] = 1) ~> ~InWait(t)

PutsEnd == <>[][nmsg' <= nmsg]_nmsg

\* A reader that waits ends with a message or, if it has a timeout, because its time is
\* up, once no more messages come.  While they do, another reader may take each of them,
\* and the one that was woken in vain waits for its whole timeout again (thread_pipe.c:440).
GetsReturn == MessagesGot /\ (PutsEnd => TimedGetReturns)

\* "timedout (false)" (thread_pipe.c:311): a pipe:put with a timeout returns.
TimedPutReturns ==
    \A t \in Writers : (InWait(t) /\ timed[t] = 1) ~> ~InWait(t)
=============================================================================
