------------------------------- MODULE Threads -------------------------------
(***************************************************************************)
(* Threads and virtual machines of sys_thread.c.  A VM is known by its     *)
(* main thread.  thread.run starts a thread in the caller's VM and         *)
(* thread.runvm one with a VM of its own; the latter's handle in the       *)
(* calling VM is a "fake" thread (the pair <<"fake", t>> below).           *)
(*                                                                         *)
(* The thread at "run" holds its VM's lock.  A blocking call gives it up   *)
(* ("out"), may be in the system for long ("sys") and is cut short by a    *)
(* signal ("eintr").  A thread that waits on a condition variable is at    *)
(* "suspend", "wait", "waitvm" (in thread:wait) or "exvm" (in thread_exit) *)
(* and in `woken' once it was signalled.  A thread that ends has left the  *)
(* lock ("left") or closed its VM ("closed") before it is "dead".  Once    *)
(* the collector has freed the record of a VM's main thread the VM has no  *)
(* lock any more.                                                          *)
(***************************************************************************)
EXTENDS Integers, FiniteSets

CONSTANTS
    Main,         \* the main thread of the program
    Slots,        \* threads that can be made
    RunvmFrom,    \* the threads that call thread.runvm
    Suspends,     \* the threads that are suspended
    Terminates,   \* the threads that are terminated
    Interrupts,   \* the threads that are interrupted
    StartFails,   \* which of "run", "runvm" may fail to start a thread
    Kept,         \* the threads that a variable of the program refers to
    WaitsOnVm,    \* does a program wait on a thread that runvm made?
    LateCalls,    \* are threads that ended interrupted or terminated?
    EarlyWakes    \* the threads for which thread:wait may wake before they end

Threads == Slots \cup {Main}
NoThread == <<"none">>
Fake(t) == <<"fake", t>>

ASSUME ThreadsAssumption ==
    /\ IsFiniteSet(Slots) /\ Main \notin Slots
    /\ NoThread \notin Threads /\ \A t \in Threads : Fake(t) \notin Threads
    /\ RunvmFrom \subseteq Threads /\ Suspends \subseteq Threads
    /\ Terminates \subseteq Slots /\ Interrupts \subseteq Threads
    /\ StartFails \subseteq {"run", "runvm"} /\ Kept \subseteq Threads
    /\ WaitsOnVm \in BOOLEAN /\ LateCalls \in BOOLEAN /\ Suspends \subseteq EarlyWakes

VARIABLES
    vm,           \* td->vmtd: the main thread of each thread's VM
    reftd,        \* td->reftd
    flags,        \* td->flags: "none", "killed", "terminate", "interrupt"
    suspended,    \* td->suspended
    nref,         \* vmtd->nref of each VM
    listed,       \* the threads in the table of their VM
    collected,    \* the threads that thread_done was called for
    pc,           \* where each thread stands
    on,           \* what it waits for
    woken         \* the threads whose condition variable was signalled

vars == <<vm, reftd, flags, suspended, nref, listed, collected, pc, on, woken>>

Init ==
    /\ vm = [t \in Threads |-> t]
    /\ reftd = [t \in Threads |-> NoThread]
    /\ flags = [t \in Threads |-> "none"]
    /\ suspended = {}
    /\ nref = [t \in Threads |-> 0]
    /\ listed = {Main}
    /\ collected = {}
    /\ pc = [t \in Threads |-> IF t = Main THEN "run" ELSE "none"]
    /\ on = [t \in Threads |-> NoThread]
    /\ woken = {}

thread_isvm(t) == vm[t] = t
LockFree(v) == v \in collected \/ \A t \in Threads : pc[t] = "run" => vm[t] # v
Go(t, l) == pc' = [pc EXCEPT ![t] = l]

\* The threads that wait on td->cond of t.
WaitOn(t) ==
    {u \in Threads : \/ u = t /\ pc[u] \in {"suspend", "exvm"}
                     \/ pc[u] = "waitvm" /\ vm[u] = t
                     \/ pc[u] = "wait" /\ on[u] = t}

\* The lock of its VM is taken again after a wait on a condition variable.
thread_cond_wait_vm(t, l) ==
    /\ pc[t] = l /\ t \in woken /\ LockFree(vm[t])

\* The reference that a new thread takes, and the end of its place in the table.
sys_thread_new(v) == nref' = [nref EXCEPT ![v] = @ + 1]
sys_thread_del(t) == listed' = listed \ {t}

-----------------------------------------------------------------------------
(***************************************************************************)
(* The end of a thread.                                                    *)
(***************************************************************************)
\* thread_exit of a thread t of a VM, executed by thread x (t itself, but see
\* thread_wait), up to the point where the lock is left.
ExitThread(x, t) ==
    /\ flags' = [flags EXCEPT ![t] = "killed"]
    /\ woken' = woken \cup WaitOn(t)
    /\ sys_thread_del(t)
    /\ Go(x, "left")
    /\ UNCHANGED collected

\* lua_close collects what the VM has, its threads and its lock included.
lua_close(t) ==
    /\ collected' = collected \cup {u \in Threads : vm[u] = t}
    /\ Go(t, "closed")

\* The turn of thread_waitvm in thread_exit: the VM is closed after its last thread.
CloseOrWait(t) ==
    IF nref[t] = 0 THEN lua_close(t) ELSE Go(t, "exvm") /\ UNCHANGED collected

\* Mutant: the VM is closed without a look at its threads.
ExitVmNow(t) ==
    /\ flags' = [flags EXCEPT ![t] = "killed"]
    /\ lua_close(t)
    /\ UNCHANGED <<woken, listed>>

\* thread_exit of the main thread of a VM: its threads are waited for.
ExitVm(t) ==
    /\ flags' = [flags EXCEPT ![t] = "killed"]
    /\ CloseOrWait(t)
    /\ UNCHANGED <<woken, listed>>

thread_exit(t) == IF thread_isvm(t) THEN ExitVm(t) ELSE ExitThread(t, t)

\* The function of a thread has returned.
Returns(t) ==
    /\ pc[t] = "run" /\ t # Main
    /\ thread_exit(t)
    /\ UNCHANGED <<vm, reftd, suspended, nref, on>>

\* thread_waitvm at the end of a VM.
CloseVm(t) ==
    /\ thread_cond_wait_vm(t, "exvm")
    /\ woken' = woken \ {t}
    /\ CloseOrWait(t)
    /\ UNCHANGED <<vm, reftd, flags, suspended, nref, listed, on>>

\* Mutant: the thread that waits for the last one is not told.
UnrefSilent(v) == nref' = [nref EXCEPT ![v] = @ - 1] /\ UNCHANGED woken

\* Mutant: the reference is not given back.
UnrefKept(v) == UNCHANGED <<nref, woken>>

\* The reference to a VM is given up; the last one wakes the waiting thread.
Unref(v) ==
    /\ nref' = [nref EXCEPT ![v] = @ - 1]
    /\ woken' = IF nref[v] = 1 THEN woken \cup WaitOn(v) ELSE woken

\* A thread that left the lock takes it once more.
LeaveThread(t) ==
    /\ pc[t] = "left" /\ LockFree(vm[t])
    /\ Unref(vm[t])
    /\ Go(t, "dead")
    /\ UNCHANGED <<collected, vm, reftd, flags, suspended, listed, on>>

\* A closed VM: td->reftd, the thread that called thread.runvm, is marked as
\* killed and taken out of its table, although it goes on.
LeaveVm(t) ==
    LET p == reftd[t]
        v == vm[p]
    IN
    /\ pc[t] = "closed" /\ LockFree(v)
    /\ flags' = [flags EXCEPT ![p] = "killed"]
    /\ sys_thread_del(p)
    /\ nref' = [nref EXCEPT ![v] = @ - 1]
    /\ woken' = woken \cup WaitOn(p) \cup (IF nref[v] = 1 THEN WaitOn(v) ELSE {})
    /\ Go(t, "dead")
    /\ UNCHANGED <<collected, vm, reftd, suspended, on>>

-----------------------------------------------------------------------------
(***************************************************************************)
(* Making threads.                                                         *)
(***************************************************************************)
\* Mutant: the new thread is not put in the table.
RunUnsaved(t, u) ==
    /\ pc[t] = "run" /\ pc[u] = "none"
    /\ sys_thread_new(vm[t])
    /\ vm' = [vm EXCEPT ![u] = vm[t]]
    /\ reftd' = [reftd EXCEPT ![u] = vm[t]]
    /\ Go(u, "start")
    /\ UNCHANGED <<collected, flags, suspended, listed, on, woken>>

\* When the thread cannot be started the table forgets it and the reference stays.
thread_run(t, u) ==
    /\ pc[t] = "run" /\ pc[u] = "none"
    /\ sys_thread_new(vm[t])
    /\ \E fails \in {FALSE} \cup {f \in {TRUE} : "run" \in StartFails} :
         IF fails THEN UNCHANGED <<vm, reftd, listed, pc>>
         ELSE /\ vm' = [vm EXCEPT ![u] = vm[t]]
              /\ reftd' = [reftd EXCEPT ![u] = vm[t]]
              /\ listed' = listed \cup {u}
              /\ Go(u, "start")
    /\ UNCHANGED <<collected, flags, suspended, on, woken>>

\* thread.runvm: the reference is that of the fake thread.  A script that
\* cannot be loaded raises an error and leaves it.
thread_runvm(t, u) ==
    /\ pc[t] = "run" /\ t \in RunvmFrom /\ pc[u] = "none"
    /\ sys_thread_new(vm[t])
    /\ \E fails \in {FALSE} \cup {f \in {TRUE} : "runvm" \in StartFails} :
         IF fails THEN UNCHANGED <<reftd, listed, pc>>
         ELSE /\ reftd' = [reftd EXCEPT ![u] = t]
              /\ listed' = listed \cup {u}
              /\ Go(u, "start")
    /\ UNCHANGED <<collected, vm, flags, suspended, on, woken>>

thread_start(t) ==
    /\ pc[t] = "start" /\ LockFree(vm[t])
    /\ Go(t, "run")
    /\ UNCHANGED <<collected, vm, reftd, flags, suspended, nref, listed, on, woken>>

-----------------------------------------------------------------------------
(***************************************************************************)
(* Blocking calls: thread.sleep, yield, switch and all input and output.   *)
(***************************************************************************)
sys_vm_leave(t) ==
    /\ pc[t] = "run"
    /\ Go(t, "out")
    /\ UNCHANGED <<collected, vm, reftd, flags, suspended, nref, listed, on, woken>>

EntersSystem(t) ==
    /\ pc[t] = "out"
    /\ Go(t, "sys")
    /\ UNCHANGED <<collected, vm, reftd, flags, suspended, nref, listed, on, woken>>

\* sys_vm_enter with sys_thread_check: a terminated thread ends; in an
\* interrupted one an error is thrown, which its program handles.
sys_vm_enter(t) ==
    /\ pc[t] \in {"out", "sys", "eintr"} /\ LockFree(vm[t])
    /\ IF flags[t] = "terminate" THEN thread_exit(t)
       ELSE Go(t, "run") /\ UNCHANGED <<collected, flags, woken, listed>>
    /\ UNCHANGED <<vm, reftd, suspended, nref, on>>

\* The threads that t has a handle of.
HandleOf(t, u) ==
    /\ pc[u] # "none"
    /\ \/ vm[u] = vm[t] /\ u \notin collected
       \/ thread_isvm(u) /\ u # Main /\ vm[reftd[u]] = vm[t]
Ended(u) == pc[u] \in {"left", "exvm", "closed", "dead"}

\* pthread_kill cuts a blocking call short, if it has got into the system.
thread_cancel_syncio(u) == pc' = IF pc[u] = "sys" THEN [pc EXCEPT ![u] = "eintr"] ELSE pc

thread_set_interrupt(t, u) ==
    /\ pc[t] = "run" /\ HandleOf(t, u) /\ u \in Interrupts /\ (Ended(u) => LateCalls)
    /\ flags' = [flags EXCEPT ![u] = "interrupt"]
    /\ thread_cancel_syncio(u)
    /\ UNCHANGED <<collected, vm, reftd, suspended, nref, listed, on, woken>>

\* thread:interrupt(true)
Recover(t, u) ==
    /\ pc[t] = "run" /\ HandleOf(t, u) /\ flags[u] = "interrupt"
    /\ flags' = [flags EXCEPT ![u] = "none"]
    /\ UNCHANGED <<collected, vm, reftd, suspended, nref, listed, pc, on, woken>>

thread_set_terminate(t, u) ==
    /\ pc[t] = "run" /\ HandleOf(t, u) /\ u \in Terminates /\ (Ended(u) => LateCalls)
    /\ IF u = t
       THEN thread_exit(t)
       ELSE /\ flags' = [flags EXCEPT ![u] = "terminate"]
            /\ thread_cancel_syncio(u)
            /\ UNCHANGED <<collected, listed, woken>>
    /\ UNCHANGED <<vm, reftd, suspended, nref, on>>

-----------------------------------------------------------------------------
(***************************************************************************)
(* Suspension.                                                             *)
(***************************************************************************)
sys_thread_suspend(t) ==
    /\ pc[t] = "run" /\ t \in Suspends
    /\ suspended' = suspended \cup {t}
    /\ Go(t, "suspend")
    /\ UNCHANGED <<collected, vm, reftd, flags, nref, listed, on, woken>>

SuspendWoken(t) ==
    /\ thread_cond_wait_vm(t, "suspend")
    /\ woken' = woken \ {t}
    /\ Go(t, IF t \in suspended THEN "suspend" ELSE "run")
    /\ UNCHANGED <<collected, vm, reftd, flags, suspended, nref, listed, on>>

sys_thread_resume(t, u) ==
    /\ pc[t] = "run" /\ HandleOf(t, u) /\ vm[u] = vm[t] /\ u # t /\ u \in Suspends
    /\ suspended' = suspended \ {u}
    /\ woken' = woken \cup WaitOn(u)
    /\ UNCHANGED <<collected, vm, reftd, flags, nref, listed, pc, on>>

-----------------------------------------------------------------------------
(***************************************************************************)
(* thread:wait                                                             *)
(***************************************************************************)
\* A thread of the same VM is waited for unless it is killed already, but see
\* thread_waitvm for its main thread; for the main thread of another VM the
\* fake thread is, which is never marked as killed, nor its condition variable
\* signalled.
thread_wait(t, u) ==
    /\ pc[t] = "run" /\ u # t /\ HandleOf(t, u) /\ u # vm[t]
    /\ IF thread_isvm(u) THEN WaitsOnVm ELSE flags[u] # "killed"
    /\ on' = [on EXCEPT ![t] = IF thread_isvm(u) THEN Fake(u) ELSE u]
    /\ Go(t, "wait")
    /\ UNCHANGED <<collected, vm, reftd, flags, suspended, nref, listed, woken>>

\* After a wake-up or a time-out: sys_thread_check looks at the flags of the
\* thread that is waited for.  If that is to terminate, it is the waiting
\* thread that executes thread_exit for it; if it is interrupted, the waiting
\* thread's call fails.
WaitWakes(t, out) ==
    LET u == on[t] IN
    /\ pc[t] = "wait" /\ LockFree(vm[t])
    /\ (out /\ u \in EarlyWakes) \/ t \in woken
    /\ IF u \in Threads /\ flags[u] = "terminate"
       THEN /\ flags' = [flags EXCEPT ![u] = "killed"]
            /\ woken' = (woken \cup WaitOn(u)) \ {t}
            /\ listed' = listed \ {u}
            /\ Go(t, "left")
       ELSE /\ Go(t, IF out \/ (u \in Threads /\ flags[u] \in {"killed", "interrupt"})
                     THEN "run" ELSE "wait")
            /\ woken' = woken \ {t}
            /\ UNCHANGED <<flags, listed>>
    /\ on' = [on EXCEPT ![t] = IF pc'[t] = "wait" THEN @ ELSE NoThread]
    /\ UNCHANGED <<collected, vm, reftd, suspended, nref>>

\* thread_waitvm: the main thread of a VM is waited for, by itself or by a
\* thread of the VM (which counts as well).
thread_waitvm(t) ==
    /\ pc[t] = "run" /\ nref[vm[t]] # 0 /\ HandleOf(t, vm[t])
    /\ Go(t, "waitvm")
    /\ UNCHANGED <<collected, vm, reftd, flags, suspended, nref, listed, on, woken>>

WaitvmWoken(t) ==
    /\ thread_cond_wait_vm(t, "waitvm")
    /\ woken' = woken \ {t}
    /\ Go(t, IF nref[vm[t]] = 0 THEN "run" ELSE "waitvm")
    /\ UNCHANGED <<collected, vm, reftd, flags, suspended, nref, listed, on>>

WaitvmTimesOut(t) ==
    /\ pc[t] = "waitvm" /\ LockFree(vm[t])
    /\ woken' = woken \ {t}
    /\ Go(t, "run")
    /\ UNCHANGED <<collected, vm, reftd, flags, suspended, nref, listed, on>>

\* thread_done: the collector finds a thread that neither a table nor the
\* program refers to.  The lock of a VM goes with its main thread; for another
\* thread the lock is left while it is joined.
thread_done(t, u) ==
    /\ pc[t] = "run" /\ vm[u] = vm[t] /\ pc[u] # "none"
    /\ u \notin listed \cup Kept \cup collected /\ \A x \in Threads : on[x] # u
    /\ collected' = collected \cup {u}
    /\ IF thread_isvm(u) THEN UNCHANGED <<pc, on>>
       ELSE Go(t, "join") /\ on' = [on EXCEPT ![t] = u]
    /\ UNCHANGED <<vm, reftd, flags, suspended, nref, listed, woken>>

\* pthread_join of the thread itself fails at once.
Joined(t) ==
    /\ pc[t] = "join" /\ (on[t] # t => pc[on[t]] = "dead") /\ LockFree(vm[t])
    /\ on' = [on EXCEPT ![t] = NoThread]
    /\ Go(t, "run")
    /\ UNCHANGED <<collected, vm, reftd, flags, suspended, nref, listed, woken>>

SpuriousWakeup(t) ==
    /\ pc[t] \in {"suspend", "waitvm", "exvm"} \/ (pc[t] = "wait" /\ on[t] \in EarlyWakes)
    /\ woken' = woken \cup {t}
    /\ UNCHANGED <<collected, vm, reftd, flags, suspended, nref, listed, pc, on>>

-----------------------------------------------------------------------------
Next ==
    \E t \in Threads :
      \/ Returns(t) \/ CloseVm(t) \/ LeaveThread(t) \/ LeaveVm(t)
      \/ thread_start(t) \/ sys_vm_leave(t) \/ EntersSystem(t) \/ sys_vm_enter(t)
      \/ sys_thread_suspend(t) \/ SuspendWoken(t)
      \/ \E out \in BOOLEAN : WaitWakes(t, out)
      \/ thread_waitvm(t) \/ WaitvmWoken(t) \/ WaitvmTimesOut(t) \/ Joined(t) \/ SpuriousWakeup(t)
      \/ \E u \in Slots : thread_run(t, u) \/ thread_runvm(t, u)
      \/ \E u \in Threads :
           \/ thread_done(t, u)
           \/ thread_set_interrupt(t, u) \/ Recover(t, u) \/ thread_set_terminate(t, u)
           \/ sys_thread_resume(t, u) \/ thread_wait(t, u)

Spec == Init /\ [][Next]_vars

(***************************************************************************)
(* A thread that wants a lock gets it in the end, and gives it up again:   *)
(* it blocks, waits or ends.  Blocking calls may last for ever unless a    *)
(* signal cuts them short, and nobody has to be resumed.                   *)
(***************************************************************************)
Wakes(t) ==
    \/ SuspendWoken(t) \/ WaitvmWoken(t) \/ WaitWakes(t, FALSE) \/ CloseVm(t)
    \/ LeaveThread(t) \/ LeaveVm(t) \/ thread_start(t) \/ Joined(t)
    \/ (pc[t] = "eintr" /\ sys_vm_enter(t))

Fairness ==
    \A t \in Threads : SF_vars(Wakes(t)) /\ WF_vars(sys_vm_leave(t))

FairSpec == Spec /\ Fairness

-----------------------------------------------------------------------------
(***************************************************************************)
(* Properties                                                              *)
(***************************************************************************)
\* vmtd->nref counts the threads and the VMs that still need the VM: those
\* made from it that have not passed the end of thread_exit.
NrefExact ==
    \A v \in Threads : thread_isvm(v) =>
      nref[v] = Cardinality({t \in Slots :
                  /\ pc[t] \notin {"none", "dead"}
                  /\ reftd[t] # NoThread /\ t # v
                  /\ IF thread_isvm(t) THEN vm[reftd[t]] = v ELSE vm[t] = v})

\* lua_close frees all that the threads of a VM use: it happens after the
\* last of them has given up the VM's lock for good.
ClosedLast ==
    \A v \in Slots : (thread_isvm(v) /\ pc[v] \in {"closed", "dead"}) =>
      \A t \in Slots \ {v} : vm[t] = v => pc[t] = "dead"

\* A thread marked as killed, whose status thread:wait returns at once, has
\* executed its last instruction of Lua (sys_thread.c:190), or has started a
\* VM that ended since: sys_thread.c:222 marks that thread, while it runs.
KilledHasEnded ==
    \A t \in Threads : flags[t] = "killed" =>
      Ended(t) \/ \E u \in Slots : thread_isvm(u) /\ reftd[u] = t /\ pc[u] = "dead"

\* A thread that is said to have ended has, or started a VM that did, and a
\* VM outlives its threads.
EndsInOrder == ClosedLast /\ KilledHasEnded

\* A thread that waits for one that ended goes on, and so does a thread that
\* was resumed: they wait on the same condition variable (sys_thread.c:64).
WaitEnds ==
    \A t \in Threads : \A u \in Slots :
      /\ (pc[t] = "wait" /\ on[t] = u /\ flags[u] = "killed") ~> (pc[t] # "wait")
      /\ (pc[t] = "suspend" /\ t \notin suspended) ~> (pc[t] # "suspend")

\* thread.self():wait() in a main thread, and the end of a VM, outlast the
\* other threads but not for ever.  (A worker that waits for its VM without a
\* time-out waits for its own end.)
WorkersDone ==
    \A v \in Threads :
      (thread_isvm(v) /\ pc[v] \in {"waitvm", "exvm"} /\ \A t \in Slots \ {v} : pc[t] \in {"none", "dead"})
        ~> (pc[v] \notin {"waitvm", "exvm"})

\* A thread whose blocking call is cut short to terminate it ends.
TerminateEnds ==
    \A t \in Slots : (flags[t] = "terminate" /\ pc[t] = "eintr") ~> Ended(t)

\* What waits for the end of another thread, or was told to end, comes to an end.
CallsEnd == WaitEnds /\ WorkersDone /\ TerminateEnds

\* A thread is in the table of its VM, "save thread to avoid GC"
\* (sys_thread.c:501, 543): the collector does not free a thread that runs.
SavedFromGC == \A t \in Threads : t \in collected => Ended(t)

\* thread:wait returns for a thread of thread.runvm too (sys_thread.c:1074,
\* "Returns: [status (number) | timeout (false) | no_workers (true)]").
VmWaitEnds ==
    \A t \in Threads : \A u \in Slots :
      (pc[t] = "wait" /\ on[t] = Fake(u) /\ pc[u] = "dead") ~> (pc[t] # "wait")
=============================================================================
