---------------------------- MODULE Threads_proofs ----------------------------
(***************************************************************************)
(* Proofs about Threads, for any number of threads.                        *)
(*                                                                         *)
(* The references of a VM are counted in steps that are far apart: one is  *)
(* added where a thread is made and taken back after that thread left the  *)
(* VM's lock for the second time.  The inductive invariant ties both ends  *)
(* to the place where every thread stands.                                 *)
(***************************************************************************)
EXTENDS Threads, TLAPS, FiniteSetTheorems

(***************************************************************************)
(* The programs for which the count and the order of the ends are right:   *)
(*   - only the main thread of the program calls thread.runvm, and the     *)
(*     program keeps its handle, since the end of a VM takes the thread    *)
(*     that started it out of the table that keeps it from the collector;  *)
(*   - every thread that is made can be started;                           *)
(*   - threads that ended are neither interrupted nor terminated;          *)
(*   - a thread:wait for a thread that is terminated has no time-out, and  *)
(*     its condition variable is signalled by thread_exit only.  This is   *)
(*     more than POSIX promises, which permits spurious wake-ups: there    *)
(*     the waiting thread would look at the other's flags, and end.        *)
(***************************************************************************)
Orderly ==
    /\ RunvmFrom \subseteq {Main} /\ Main \in Kept /\ StartFails = {}
    /\ ~LateCalls /\ Terminates \cap EarlyWakes = {}

Waiting == {"suspend", "wait", "waitvm", "exvm"}
Places == {"none", "start", "run", "out", "sys", "eintr", "join", "left", "closed", "dead"}
            \cup Waiting

TypeOK ==
    /\ vm \in [Threads -> Threads]
    /\ reftd \in [Threads -> Threads \cup {NoThread}]
    /\ flags \in [Threads -> {"none", "killed", "terminate", "interrupt"}]
    /\ nref \in [Threads -> Int]
    /\ pc \in [Threads -> Places]
    /\ DOMAIN on = Threads
    /\ woken \subseteq Threads

\* Who belongs to which VM: only threads that were made belong to another
\* thread's, and which VM is referred to is settled when a thread is made.
Shape ==
    /\ vm[Main] = Main /\ pc[Main] \notin {"none", "left", "exvm", "closed", "dead"}
    /\ \A t \in Threads :
         /\ vm[vm[t]] = vm[t]
         /\ vm[t] # t => pc[vm[t]] # "none" /\ pc[t] # "none"
    /\ \A t \in Slots : pc[t] # "none" =>
         reftd[t] = IF vm[t] = t THEN Main ELSE vm[t]
    /\ \A t \in Threads : pc[t] \in {"exvm", "closed"} => vm[t] = t
    /\ \A t \in Threads : pc[t] = "left" => vm[t] # t

\* The VM that a thread was made from, and the threads that still need a VM.
Of(t) == IF vm[t] = t THEN Main ELSE vm[t]
Refs(v) == {t \in Slots : pc[t] \notin {"none", "dead"} /\ Of(t) = v}
Counted == \A v \in Threads : vm[v] = v => nref[v] = Cardinality(Refs(v))

\* Who is marked as killed, and who may be told to terminate.  The main thread
\* of the program is marked when a VM that it started has ended.
SlotKilled == \A t \in Slots : flags[t] = "killed" => Ended(t)
MainKilled == flags[Main] = "killed" => \E u \in Slots : vm[u] = u /\ pc[u] = "dead"
Flagged ==
    /\ SlotKilled /\ MainKilled
    /\ \A t \in Threads : flags[t] = "terminate" => t \in Terminates

\* What thread:wait waits for, and why it was woken.
Target(t) == on[t] \in Slots /\ vm[on[t]] # on[t]
Awake ==
    /\ \A t \in Threads : (pc[t] = "wait" /\ on[t] \in Threads) => Target(t)
    /\ \A t \in woken :
         /\ pc[t] \in Waiting
         /\ (pc[t] = "wait" /\ on[t] \in Threads \ EarlyWakes) => flags[on[t]] = "killed"

Inv == TypeOK /\ Shape /\ Counted /\ ClosedLast /\ Flagged /\ Awake

-----------------------------------------------------------------------------
(***************************************************************************)
(* Counting.                                                               *)
(***************************************************************************)
LEMMA RefsFinite ==
  ASSUME NEW v
  PROVE  IsFiniteSet(Refs(v)) /\ Cardinality(Refs(v)) \in Nat
  <1>1. Refs(v) \subseteq Slots
    BY DEF Refs
  <1>2. IsFiniteSet(Refs(v))
    BY <1>1, FS_Subset, ThreadsAssumption
  <1>. QED BY <1>2, FS_CardinalityType

LEMMA CountedIsExact == ASSUME TypeOK, Shape PROVE Counted <=> NrefExact
  <1>. DEFINE Set(v) == {t \in Slots :
                  /\ pc[t] \notin {"none", "dead"}
                  /\ reftd[t] # NoThread /\ t # v
                  /\ IF thread_isvm(t) THEN vm[reftd[t]] = v ELSE vm[t] = v}
  <1>1. ASSUME NEW v \in Threads, vm[v] = v, NEW t \in Slots, pc[t] # "none"
        PROVE  Of(t) = v <=> /\ reftd[t] # NoThread /\ t # v
                             /\ IF thread_isvm(t) THEN vm[reftd[t]] = v ELSE vm[t] = v
    BY <1>1, ThreadsAssumption DEF TypeOK, Shape, Of, thread_isvm, Threads
  <1>2. \A v \in Threads : vm[v] = v => Refs(v) = Set(v)
    BY <1>1 DEF Refs
  <1>. QED BY <1>2 DEF Counted, NrefExact, thread_isvm

\* One thread begins or ends to need the VM it was made from.
LEMMA RefsChange ==
  ASSUME NEW x \in Slots, NEW v,
         \A t \in Slots \ {x} :
           (pc'[t] \in {"none", "dead"} <=> pc[t] \in {"none", "dead"}) /\ Of(t)' = Of(t)
  PROVE  /\ x \notin Refs(v)  /\ x \notin Refs(v)' => Refs(v)' = Refs(v)
         /\ x \notin Refs(v)  /\ x \in Refs(v)' =>
              Cardinality(Refs(v)') = Cardinality(Refs(v)) + 1
         /\ x \in Refs(v)  /\ x \notin Refs(v)' =>
              Cardinality(Refs(v)') = Cardinality(Refs(v)) - 1
  <1>1. \A t \in Slots \ {x} : t \in Refs(v)' <=> t \in Refs(v)
    BY DEF Refs
  <1>2. Refs(v) \subseteq Slots /\ Refs(v)' \subseteq Slots
    BY DEF Refs
  <1>3. x \notin Refs(v)  /\ x \notin Refs(v)' => Refs(v)' = Refs(v)
    BY <1>1, <1>2
  <1>4. x \notin Refs(v)  /\ x \in Refs(v)' => Refs(v)' = Refs(v) \cup {x}
    BY <1>1, <1>2
  <1>5. x \in Refs(v)  /\ x \notin Refs(v)' => Refs(v)' = Refs(v) \ {x}
    BY <1>1, <1>2
  <1>. QED BY <1>3, <1>4, <1>5, RefsFinite, FS_AddElement, FS_RemoveElement

\* A VM whose count is zero has no other threads.
LEMMA NoneLeft ==
  ASSUME Inv, NEW v \in Slots, vm[v] = v, nref[v] = 0,
         NEW t \in Slots, t # v, vm[t] = v
  PROVE  pc[t] = "dead"
  <1>1. Refs(v) = {}
    BY RefsFinite, FS_EmptySet DEF Inv, Counted, Threads
  <1>2. Of(t) = v /\ pc[t] # "none"
    BY DEF Of, Inv, Shape, Threads
  <1>. QED BY <1>1, <1>2 DEF Refs

-----------------------------------------------------------------------------
(***************************************************************************)
(* The steps that neither make a thread nor let go of a VM: one thread     *)
(* moves, and some are marked or woken.                                    *)
(***************************************************************************)
EndLabels == {"left", "exvm", "closed", "dead"}

LEMMA StepInv ==
  ASSUME Inv, NEW x \in Threads, NEW l \in Places \ {"none", "dead"},
         pc' = [pc EXCEPT ![x] = l], pc[x] \notin {"none", "left", "closed", "dead"},
         vm' = vm, reftd' = reftd, nref' = nref,
         pc[x] = "exvm" => l \in EndLabels,
         l \in {"exvm", "closed"} => vm[x] = x /\ x # Main,
         l = "left" => vm[x] # x,
         l = "closed" => nref[x] = 0,
         flags' \in [Threads -> {"none", "killed", "terminate", "interrupt"}],
         \A t \in Slots : flags[t] = "killed" => flags'[t] = "killed",
         \A t \in Threads : flags'[t] = "killed" => flags[t] = "killed" \/ (t = x /\ l \in EndLabels),
         \A t \in Threads : flags'[t] = "terminate" => t \in Terminates,
         DOMAIN on' = Threads, \A t \in Threads \ {x} : on'[t] = on[t],
         (l = "wait" /\ on'[x] \in Threads) => on'[x] \in Slots /\ vm[on'[x]] # on'[x],
         woken' \subseteq Threads,
         \A t \in woken' :
           \/ t \in woken /\ t # x
           \/ /\ pc'[t] \in Waiting
              /\ (pc'[t] = "wait" /\ on'[t] \in Threads \ EarlyWakes) => flags'[on'[t]] = "killed"
  PROVE  Inv'
  <1>1. TypeOK'
    BY DEF Inv, TypeOK
  <1>2. pc'[x] = l /\ \A t \in Threads \ {x} : pc'[t] = pc[t]
    BY DEF Inv, TypeOK
  <1>3. Shape'
    BY <1>2, ThreadsAssumption DEF Inv, TypeOK, Shape, EndLabels, Threads
  <1>4. Counted'
    <2>1. \A v : Refs(v)' = Refs(v)
      BY <1>2 DEF Refs, Of, Threads
    <2>. QED BY <2>1 DEF Inv, Counted
  <1>5. ClosedLast'
    <2>. SUFFICES ASSUME NEW v \in Slots, vm[v] = v, pc'[v] \in {"closed", "dead"},
                         NEW t \in Slots \ {v}, vm[t] = v
                  PROVE  pc'[t] = "dead"
      BY DEF ClosedLast, thread_isvm
    <2>1. CASE pc[v] \in {"closed", "dead"}
      BY <1>2, <2>1 DEF Inv, ClosedLast, thread_isvm, Threads
    <2>2. CASE v = x /\ l = "closed"
      BY <1>2, <2>2, NoneLeft DEF Threads
    <2>. QED BY <1>2, <2>1, <2>2 DEF Threads
  <1>6. Flagged'
    <2>1. SlotKilled'
      BY <1>2 DEF Inv, Flagged, SlotKilled, Ended, EndLabels, Threads
    <2>2. MainKilled'
      <3>1. flags'[Main] = "killed" => flags[Main] = "killed"
        BY DEF Inv, Shape, EndLabels, Threads
      <3>2. \A u \in Slots : vm[u] = u /\ pc[u] = "dead" => vm'[u] = u /\ pc'[u] = "dead"
        BY <1>2 DEF Threads
      <3>. QED BY <3>1, <3>2 DEF Inv, Flagged, MainKilled
    <2>. QED BY <2>1, <2>2 DEF Flagged
  <1>7. Awake'
    <2>1. ASSUME NEW t \in Threads, pc'[t] = "wait", on'[t] \in Threads
          PROVE  on'[t] \in Slots /\ vm[on'[t]] # on'[t]
      BY <1>2, <2>1 DEF Inv, Awake, Target
    <2>2. ASSUME NEW t \in woken', t \in woken, t # x
          PROVE  /\ pc'[t] \in Waiting
                 /\ (pc'[t] = "wait" /\ on'[t] \in Threads \ EarlyWakes) =>
                      flags'[on'[t]] = "killed"
      BY <1>2, <2>1, <2>2 DEF Inv, TypeOK, Awake, Target
    <2>3. \A t \in woken' :
            /\ pc'[t] \in Waiting
            /\ (pc'[t] = "wait" /\ on'[t] \in Threads \ EarlyWakes) => flags'[on'[t]] = "killed"
      BY <2>2
    <2>. QED BY <2>1, <2>3 DEF Awake, Target
  <1>. QED BY <1>1, <1>3, <1>4, <1>5, <1>6, <1>7 DEF Inv

\* A thread that moves and changes nothing else.
LEMMA PlainStep ==
  ASSUME Inv, NEW x \in Threads, NEW l \in Places \ {"none", "dead", "left", "exvm", "closed", "wait"},
         pc' = [pc EXCEPT ![x] = l],
         pc[x] \in Places \ {"none", "left", "closed", "dead", "exvm"},
         DOMAIN on' = Threads, \A t \in Threads \ {x} : on'[t] = on[t],
         woken' \subseteq woken, x \in woken' => l \in Waiting,
         UNCHANGED <<vm, reftd, nref, flags>>
  PROVE  Inv'
  <1>1. \A t \in woken' : t = x => pc'[t] \in Waiting /\ pc'[t] # "wait"
    BY DEF Inv, TypeOK
  <1>2. flags' \in [Threads -> {"none", "killed", "terminate", "interrupt"}]
        /\ woken' \subseteq Threads
    BY DEF Inv, TypeOK
  <1>3. \A t \in Threads : flags'[t] = "terminate" => t \in Terminates
    BY DEF Inv, Flagged
  <1>. QED BY <1>1, <1>2, <1>3, StepInv DEF EndLabels

-----------------------------------------------------------------------------
(***************************************************************************)
(* One lemma per group of actions.                                         *)
(***************************************************************************)
\* A thread that is running, or is to run, is in none of the waiting places.
LEMMA RunnerAwake ==
  ASSUME Inv, NEW t \in Threads, pc[t] \notin Waiting
  PROVE  t \notin woken
  BY DEF Inv, Awake

LEMMA LockSteps ==
  ASSUME Inv, NEW t \in Threads,
         \/ thread_start(t) \/ sys_vm_leave(t) \/ EntersSystem(t) \/ Joined(t)
         \/ sys_thread_suspend(t) \/ SuspendWoken(t) \/ thread_waitvm(t) \/ WaitvmWoken(t)
         \/ WaitvmTimesOut(t)
  PROVE  Inv'
  <1>0. DOMAIN on = Threads /\ pc \in [Threads -> Places]
    BY DEF Inv, TypeOK
  <1>1. CASE thread_start(t)
    BY <1>0, <1>1, RunnerAwake, PlainStep DEF thread_start, Go, Places, Waiting
  <1>2. CASE sys_vm_leave(t)
    BY <1>0, <1>2, RunnerAwake, PlainStep DEF sys_vm_leave, Go, Places, Waiting
  <1>3. CASE EntersSystem(t)
    BY <1>0, <1>3, RunnerAwake, PlainStep DEF EntersSystem, Go, Places, Waiting
  <1>4. CASE Joined(t)
    BY <1>0, <1>4, RunnerAwake, PlainStep DEF Joined, Go, Places, Waiting
  <1>5. CASE sys_thread_suspend(t)
    BY <1>0, <1>5, RunnerAwake, PlainStep DEF sys_thread_suspend, Go, Places, Waiting
  <1>6. CASE SuspendWoken(t)
    <2>. DEFINE l == IF t \in suspended THEN "suspend" ELSE "run"
    <2>1. /\ l \in {"suspend", "run"} /\ pc' = [pc EXCEPT ![t] = l] /\ pc[t] = "suspend"
          /\ UNCHANGED <<vm, reftd, nref, flags>> /\ on' = on /\ woken' = woken \ {t}
      BY <1>6 DEF SuspendWoken, thread_cond_wait_vm, Go
    <2>. HIDE DEF l
    <2>. QED BY <1>0, <2>1, PlainStep DEF Places, Waiting
  <1>7. CASE thread_waitvm(t)
    BY <1>0, <1>7, RunnerAwake, PlainStep DEF thread_waitvm, Go, Places, Waiting
  <1>8. CASE WaitvmWoken(t)
    <2>. DEFINE l == IF nref[vm[t]] = 0 THEN "run" ELSE "waitvm"
    <2>1. /\ l \in {"waitvm", "run"} /\ pc' = [pc EXCEPT ![t] = l] /\ pc[t] = "waitvm"
          /\ UNCHANGED <<vm, reftd, nref, flags>> /\ on' = on /\ woken' = woken \ {t}
      BY <1>8 DEF WaitvmWoken, thread_cond_wait_vm, Go
    <2>. HIDE DEF l
    <2>. QED BY <1>0, <2>1, PlainStep DEF Places, Waiting
  <1>9. CASE WaitvmTimesOut(t)
    BY <1>0, <1>9, PlainStep DEF WaitvmTimesOut, Go, Places, Waiting
  <1>. QED BY <1>1, <1>2, <1>3, <1>4, <1>5, <1>6, <1>7, <1>8, <1>9

LEMMA ThreadDone ==
  ASSUME Inv, NEW t \in Threads, NEW u \in Threads, thread_done(t, u)
  PROVE  Inv'
  <1>1. CASE thread_isvm(u)
    BY <1>1 DEF thread_done, Inv, TypeOK, Shape, Counted, Refs, Of, ClosedLast, Flagged, SlotKilled,
       MainKilled, Awake, Target, Ended, thread_isvm
  <1>2. CASE ~thread_isvm(u)
    BY <1>2, RunnerAwake, PlainStep DEF thread_done, Go, Places, Waiting, Inv, TypeOK
  <1>. QED BY <1>1, <1>2

\* What is known of the flags.
LEMMA FlagsKnown ==
  ASSUME Inv
  PROVE  /\ flags \in [Threads -> {"none", "killed", "terminate", "interrupt"}]
         /\ \A t \in Slots : flags[t] = "killed" => pc[t] \in EndLabels
         /\ \A t \in Threads : flags[t] = "terminate" => t \in Terminates
         /\ pc \in [Threads -> Places] /\ DOMAIN on = Threads /\ woken \subseteq Threads
  BY DEF Inv, TypeOK, Flagged, SlotKilled, Ended, EndLabels

\* The threads that are woken with td->cond of t wait for t itself, or are t.
LEMMA WaitOnKnown ==
  ASSUME Inv, NEW t \in Threads, NEW u \in WaitOn(t)
  PROVE  /\ u \in Threads /\ pc[u] \in Waiting
         /\ pc[u] = "wait" => on[u] = t /\ t \in Slots /\ vm[t] # t
  BY DEF WaitOn, Waiting, Inv, Awake, Target

\* thread_exit by a thread that holds the lock.
LEMMA ExitKeeps ==
  ASSUME Inv, NEW t \in Threads, t # Main, pc[t] \in {"run", "out", "sys", "eintr"},
         thread_exit(t), UNCHANGED <<vm, reftd, nref, on>>
  PROVE  Inv'
  <1>. USE FlagsKnown
  <1>0. t \in Slots /\ t \notin woken
    BY RunnerAwake DEF Threads, Waiting
  <1>1. /\ flags' = [flags EXCEPT ![t] = "killed"]
        /\ \A u \in Slots : flags[u] = "killed" => flags'[u] = "killed"
        /\ \A u \in Threads : flags'[u] = "killed" => flags[u] = "killed" \/ u = t
        /\ \A u \in Threads : flags'[u] = "terminate" => u \in Terminates
        /\ flags' \in [Threads -> {"none", "killed", "terminate", "interrupt"}]
        /\ flags'[t] = "killed"
    BY DEF thread_exit, ExitVm, ExitThread, Threads
  <1>2. CASE vm[t] = t
    <2>. DEFINE l == IF nref[t] = 0 THEN "closed" ELSE "exvm"
    <2>1. /\ l \in {"closed", "exvm"} /\ (l = "closed" => nref[t] = 0)
          /\ pc' = [pc EXCEPT ![t] = l] /\ woken' = woken
      BY <1>2 DEF thread_exit, thread_isvm, ExitVm, CloseOrWait, lua_close, Go
    <2>. HIDE DEF l
    <2>2. /\ l \in Places \ {"none", "dead"} /\ l \in EndLabels /\ l \notin {"left", "wait"}
          /\ pc[t] \notin {"none", "left", "closed", "dead", "exvm"}
      BY <2>1 DEF Places, Waiting, EndLabels
    <2>3. \A u \in Threads : flags'[u] = "killed" => flags[u] = "killed" \/ (u = t /\ l \in EndLabels)
      BY <1>1, <2>2
    <2>4. \A u \in woken' : u \in woken /\ u # t
      BY <1>0, <2>1
    <2>. QED BY <1>1, <1>2, <2>1, <2>2, <2>3, <2>4, StepInv
  <1>3. CASE vm[t] # t
    <2>1. pc' = [pc EXCEPT ![t] = "left"] /\ woken' = woken \cup WaitOn(t)
      BY <1>3 DEF thread_exit, thread_isvm, ExitThread, Go
    <2>2. \A u \in WaitOn(t) : u # t
      BY <1>3, WaitOnKnown DEF Waiting
    <2>3. \A u \in WaitOn(t) :
            /\ u \in Threads /\ pc'[u] \in Waiting
            /\ (pc'[u] = "wait" /\ on'[u] \in Threads \ EarlyWakes) => flags'[on'[u]] = "killed"
      BY <1>1, <2>1, <2>2, WaitOnKnown
    <2>4. \A u \in woken : u # t
      BY <1>0
    <2>5. woken' \subseteq Threads
      BY <2>1, <2>3
    <2>6. "left" \in Places \ {"none", "dead"} /\ "left" \in EndLabels
          /\ pc[t] \notin {"none", "left", "closed", "dead", "exvm"}
      BY DEF Places, EndLabels
    <2>7. \A u \in Threads : flags'[u] = "killed" =>
            flags[u] = "killed" \/ (u = t /\ "left" \in EndLabels)
      BY <1>1, <2>6
    <2>8. \A u \in woken' :
            \/ u \in woken /\ u # t
            \/ /\ pc'[u] \in Waiting
               /\ (pc'[u] = "wait" /\ on'[u] \in Threads \ EarlyWakes) => flags'[on'[u]] = "killed"
      BY <2>1, <2>3, <2>4
    <2>. QED BY <1>1, <1>3, <2>1, <2>5, <2>6, <2>7, <2>8, StepInv, ZenonT(30)
  <1>. QED BY <1>2, <1>3

LEMMA Ends ==
  ASSUME Inv, NEW t \in Threads, Returns(t) \/ CloseVm(t) \/ sys_vm_enter(t)
  PROVE  Inv'
  <1>. USE FlagsKnown
  <1>1. CASE Returns(t)
    BY <1>1, ExitKeeps DEF Returns
  <1>2. CASE sys_vm_enter(t)
    <2>1. CASE flags[t] = "terminate"
      <3>1. t # Main
        BY <2>1, ThreadsAssumption
      <3>. QED BY <1>2, <2>1, <3>1, ExitKeeps DEF sys_vm_enter
    <2>2. CASE flags[t] # "terminate"
      BY <1>2, <2>2, RunnerAwake, PlainStep DEF sys_vm_enter, Go, Places, Waiting
    <2>. QED BY <2>1, <2>2
  <1>3. CASE CloseVm(t)
    <2>. DEFINE l == IF nref[t] = 0 THEN "closed" ELSE "exvm"
    <2>1. /\ l \in {"closed", "exvm"} /\ (l = "closed" => nref[t] = 0)
          /\ pc' = [pc EXCEPT ![t] = l] /\ woken' = woken \ {t} /\ pc[t] = "exvm"
          /\ UNCHANGED <<vm, reftd, nref, on, flags>>
      BY <1>3 DEF CloseVm, CloseOrWait, lua_close, thread_cond_wait_vm, Go
    <2>2. t # Main /\ vm[t] = t
      BY <2>1 DEF Inv, Shape
    <2>. HIDE DEF l
    <2>. QED BY <2>1, <2>2, StepInv DEF Places, Waiting, EndLabels
  <1>. QED BY <1>1, <1>2, <1>3

\* A thread at "run" marks others, or wakes some: nobody but one thread in the
\* system moves.
LEMMA MarkStep ==
  ASSUME Inv, NEW x \in Threads, NEW l \in {pc[x], "eintr"},
         pc[x] \in Places \ {"none", "left", "closed", "dead"},
         l = "eintr" => pc[x] = "sys",
         pc' = [pc EXCEPT ![x] = l], UNCHANGED <<vm, reftd, nref, on>>,
         flags' \in [Threads -> {"none", "killed", "terminate", "interrupt"}],
         \A t \in Slots : flags'[t] = "killed" <=> flags[t] = "killed",
         \A t \in Threads : flags'[t] = "killed" => flags[t] = "killed",
         \A t \in Threads : flags'[t] = "terminate" => t \in Terminates,
         woken' \subseteq Threads,
         \A t \in woken' :
           \/ t \in woken
           \/ pc[t] \in Waiting /\ (pc[t] = "wait" => on[t] \in EarlyWakes)
  PROVE  Inv'
  <1>. USE FlagsKnown
  <1>1. /\ l \in Places \ {"none", "dead"} /\ l \notin {"left", "closed"}
        /\ l = "exvm" => pc[x] = "exvm"
    BY DEF Places
  <1>2. l = "exvm" => vm[x] = x /\ x # Main
    BY <1>1 DEF Inv, Shape
  <1>3. l = "wait" => pc[x] = "wait"
    OBVIOUS
  <1>4. (l = "wait" /\ on'[x] \in Threads) => on'[x] \in Slots /\ vm[on'[x]] # on'[x]
    BY <1>3 DEF Inv, Awake, Target
  <1>5. ASSUME NEW t \in woken', t \notin woken \/ t = x
        PROVE  /\ pc'[t] \in Waiting
               /\ (pc'[t] = "wait" /\ on'[t] \in Threads \ EarlyWakes) => flags'[on'[t]] = "killed"
    <2>1. pc[t] \in Waiting /\ pc'[t] = pc[t]
      BY <1>5 DEF Inv, Awake, Waiting
    <2>2. ASSUME pc[t] = "wait", on[t] \in Threads \ EarlyWakes
          PROVE  flags'[on[t]] = "killed"
      <3>1. t \in woken /\ on[t] \in Slots
        BY <1>5, <2>2 DEF Inv, Awake, Target
      <3>. QED BY <2>2, <3>1 DEF Inv, Awake
    <2>. QED BY <2>1, <2>2
  <1>6. pc[x] = "exvm" => l \in EndLabels
    BY DEF EndLabels
  <1>7. \A t \in Threads : flags'[t] = "killed" => flags[t] = "killed" \/ (t = x /\ l \in EndLabels)
    OBVIOUS
  <1>8. \A t \in woken' :
           \/ t \in woken /\ t # x
           \/ /\ pc'[t] \in Waiting
              /\ (pc'[t] = "wait" /\ on'[t] \in Threads \ EarlyWakes) => flags'[on'[t]] = "killed"
    BY <1>5
  <1>. QED BY <1>1, <1>2, <1>4, <1>6, <1>7, <1>8, StepInv

LEMMA Marks ==
  ASSUME Inv, Orderly, NEW t \in Threads, NEW u \in Threads,
         thread_set_interrupt(t, u) \/ Recover(t, u) \/ thread_set_terminate(t, u)
  PROVE  Inv'
  <1>. USE FlagsKnown
  <1>1. ASSUME NEW f \in {"none", "terminate", "interrupt"}, f = "terminate" => u \in Terminates,
               u \in Slots => flags[u] # "killed", flags' = [flags EXCEPT ![u] = f]
        PROVE  /\ flags' \in [Threads -> {"none", "killed", "terminate", "interrupt"}]
               /\ \A x \in Slots : flags'[x] = "killed" <=> flags[x] = "killed"
               /\ \A x \in Threads : flags'[x] = "killed" => flags[x] = "killed"
               /\ \A x \in Threads : flags'[x] = "terminate" => x \in Terminates
    BY <1>1 DEF Threads
  <1>2. u \in Slots /\ ~Ended(u) => flags[u] # "killed"
    BY DEF Ended, EndLabels
  <1>3. ASSUME pc[t] = "run" PROVE pc[t] \in Places \ {"none", "left", "closed", "dead"}
    BY <1>3 DEF Places
  <1>4. ASSUME pc[u] = "sys" PROVE pc[u] \in Places \ {"none", "left", "closed", "dead"}
    BY <1>4 DEF Places
  <1>5. pc = [pc EXCEPT ![t] = pc[t]]
    OBVIOUS
  <1>6. ASSUME NEW f \in {"terminate", "interrupt"}, f = "terminate" => u \in Terminates,
               pc[t] = "run", ~Ended(u), flags' = [flags EXCEPT ![u] = f],
               thread_cancel_syncio(u), UNCHANGED <<vm, reftd, nref, on, woken>>
        PROVE  Inv'
    <2>1. CASE pc[u] = "sys"
      <3>1. pc' = [pc EXCEPT ![u] = "eintr"]
        BY <1>6, <2>1 DEF thread_cancel_syncio
      <3>. QED BY <1>1, <1>2, <1>4, <1>6, <2>1, <3>1, MarkStep
    <2>2. CASE pc[u] # "sys"
      <3>1. pc' = [pc EXCEPT ![t] = pc[t]]
        BY <1>5, <1>6, <2>2 DEF thread_cancel_syncio
      <3>. QED BY <1>1, <1>2, <1>3, <1>6, <2>2, <3>1, MarkStep
    <2>. QED BY <2>1, <2>2
  <1>7. CASE thread_set_interrupt(t, u)
    BY <1>6, <1>7 DEF thread_set_interrupt, Orderly
  <1>8. CASE Recover(t, u)
    BY <1>1, <1>3, <1>5, <1>8, MarkStep DEF Recover
  <1>9. CASE thread_set_terminate(t, u)
    <2>1. CASE u = t
      <3>1. t # Main
        BY <1>9, <2>1, ThreadsAssumption DEF thread_set_terminate
      <3>. QED BY <1>9, <2>1, <3>1, ExitKeeps DEF thread_set_terminate
    <2>2. CASE u # t
      BY <1>6, <1>9, <2>2 DEF thread_set_terminate, Orderly
    <2>. QED BY <2>1, <2>2
  <1>. QED BY <1>7, <1>8, <1>9

LEMMA Wakeups ==
  ASSUME Inv, NEW t \in Threads,
         SpuriousWakeup(t) \/ \E u \in Threads : sys_thread_resume(t, u)
  PROVE  Inv'
  <1>. USE FlagsKnown
  <1>0. pc = [pc EXCEPT ![t] = pc[t]]
    OBVIOUS
  <1>1. CASE SpuriousWakeup(t)
    <2>1. pc[t] \in Waiting /\ (pc[t] = "wait" => on[t] \in EarlyWakes)
      BY <1>1 DEF SpuriousWakeup, Waiting
    <2>2. /\ pc' = pc /\ woken' = woken \cup {t} /\ UNCHANGED <<vm, reftd, nref, on, flags>>
          /\ pc[t] \in Places \ {"none", "left", "closed", "dead"}
      BY <1>1, <2>1 DEF SpuriousWakeup, Places, Waiting
    <2>3. /\ pc' = [pc EXCEPT ![t] = pc[t]] /\ woken' \subseteq Threads
          /\ \A x \in woken' : \/ x \in woken
                               \/ pc[x] \in Waiting /\ (pc[x] = "wait" => on[x] \in EarlyWakes)
      BY <1>0, <2>1, <2>2
    <2>4. pc[t] = "eintr" => pc[t] = "sys"
      BY <2>1 DEF Waiting
    <2>. QED BY <2>2, <2>3, <2>4, MarkStep
  <1>2. ASSUME NEW u \in Threads, sys_thread_resume(t, u) PROVE Inv'
    <2>1. /\ pc' = pc /\ woken' = woken \cup WaitOn(u) /\ UNCHANGED <<vm, reftd, nref, on, flags>>
          /\ pc[t] \in Places \ {"none", "left", "closed", "dead"} /\ u \in EarlyWakes
          /\ pc[t] = "run"
      BY <1>2, ThreadsAssumption DEF sys_thread_resume, Places
    <2>2. \A x \in WaitOn(u) :
            x \in Threads /\ pc[x] \in Waiting /\ (pc[x] = "wait" => on[x] \in EarlyWakes)
      BY <2>1, WaitOnKnown
    <2>3. /\ pc' = [pc EXCEPT ![t] = pc[t]] /\ woken' \subseteq Threads
          /\ \A x \in woken' : \/ x \in woken
                               \/ pc[x] \in Waiting /\ (pc[x] = "wait" => on[x] \in EarlyWakes)
      BY <1>0, <2>1, <2>2
    <2>. QED BY <2>1, <2>3, MarkStep
  <1>. QED BY <1>1, <1>2

\* thread:wait.  A thread that it waits for is looked at only after it was
\* marked as killed, or when it is one that nobody terminates.
LEMMA Waits ==
  ASSUME Inv, Orderly, NEW t \in Threads,
         (\E out \in BOOLEAN : WaitWakes(t, out)) \/ \E u \in Threads : thread_wait(t, u)
  PROVE  Inv'
  <1>. USE FlagsKnown
  <1>1. ASSUME NEW u \in Threads, thread_wait(t, u) PROVE Inv'
    <2>. DEFINE w == IF thread_isvm(u) THEN Fake(u) ELSE u
    <2>1. w \in Threads => w \in Slots /\ vm[w] # w
      BY ThreadsAssumption DEF thread_isvm, Inv, Shape, Threads
    <2>2. /\ pc[t] = "run" /\ pc' = [pc EXCEPT ![t] = "wait"] /\ on' = [on EXCEPT ![t] = w]
          /\ UNCHANGED <<vm, reftd, nref, flags, woken>>
      BY <1>1 DEF thread_wait, Go
    <2>3. t \notin woken
      BY <2>2, RunnerAwake DEF Waiting
    <2>. HIDE DEF w
    <2>4. on'[t] = w /\ DOMAIN on' = Threads /\ \A x \in Threads \ {t} : on'[x] = on[x]
      BY <2>2
    <2>5. \A x \in woken' : x \in woken /\ x # t
      BY <2>2, <2>3
    <2>6. /\ "wait" \in Places \ {"none", "dead"} /\ "wait" \notin {"left", "closed", "exvm"}
          /\ pc[t] \notin {"none", "left", "closed", "dead", "exvm"}
          /\ on'[t] \in Threads => on'[t] \in Slots /\ vm[on'[t]] # on'[t]
          /\ woken' \subseteq Threads /\ flags' \in [Threads -> {"none", "killed", "terminate", "interrupt"}]
      BY <2>1, <2>2, <2>4 DEF Places, Waiting
    <2>7. /\ DOMAIN on' = Threads /\ \A x \in Threads \ {t} : on'[x] = on[x]
          /\ pc' = [pc EXCEPT ![t] = "wait"] /\ UNCHANGED <<vm, reftd, nref, flags>>
      BY <2>2, <2>4
    <2>. QED BY <2>5, <2>6, <2>7, StepInv
  <1>2. ASSUME NEW out \in BOOLEAN, WaitWakes(t, out) PROVE Inv'
    <2>1. /\ pc[t] = "wait" /\ ((out /\ on[t] \in EarlyWakes) \/ t \in woken)
          /\ UNCHANGED <<vm, reftd, nref>>
      BY <1>2 DEF WaitWakes
    <2>2. ~(on[t] \in Threads /\ flags[on[t]] = "terminate")
      <3>1. SUFFICES ASSUME on[t] \in Threads, flags[on[t]] = "terminate" PROVE FALSE
        OBVIOUS
      <3>2. on[t] \notin EarlyWakes
        BY <3>1 DEF Orderly
      <3>. QED BY <2>1, <3>1, <3>2 DEF Inv, Awake
    <2>. DEFINE l == IF out \/ (on[t] \in Threads /\ flags[on[t]] \in {"killed", "interrupt"})
                     THEN "run" ELSE "wait"
    <2>3. pc' = [pc EXCEPT ![t] = l] /\ woken' = woken \ {t} /\ flags' = flags
      BY <1>2, <2>2 DEF WaitWakes, Go
    <2>4. l \in {"run", "wait"}
      OBVIOUS
    <2>. HIDE DEF l
    <2>5. pc'[t] = l
      BY <2>3
    <2>6. /\ DOMAIN on' = Threads /\ \A x \in Threads \ {t} : on'[x] = on[x]
          /\ l = "wait" => on'[t] = on[t]
      <3>1. on' = [on EXCEPT ![t] = IF pc'[t] = "wait" THEN on[t] ELSE NoThread]
        BY <1>2 DEF WaitWakes
      <3>. QED BY <2>5, <3>1
    <2>7. (l = "wait" /\ on'[t] \in Threads) => on'[t] \in Slots /\ vm[on'[t]] # on'[t]
      BY <2>1, <2>6 DEF Inv, Awake, Target
    <2>8. \A x \in woken' : x \in woken /\ x # t
      BY <2>3
    <2>9. /\ l \in Places \ {"none", "dead"} /\ l \notin {"left", "closed", "exvm"}
          /\ pc[t] \notin {"none", "left", "closed", "dead", "exvm"}
          /\ woken' \subseteq Threads /\ flags' \in [Threads -> {"none", "killed", "terminate", "interrupt"}]
      BY <2>1, <2>3, <2>4 DEF Places, Waiting
    <2>. QED BY <2>1, <2>3, <2>6, <2>7, <2>8, <2>9, StepInv
  <1>. QED BY <1>1, <1>2

-----------------------------------------------------------------------------
(***************************************************************************)
(* The steps that count: a thread is made, or lets go of the VM.           *)
(***************************************************************************)
\* A thread that ended gives back its reference to VM v.
LEMMA LetGo ==
  ASSUME Inv, NEW x \in Slots, NEW v \in Threads, Of(x) = v, vm[v] = v,
         pc[x] \in {"left", "closed"}, pc' = [pc EXCEPT ![x] = "dead"],
         nref' = [nref EXCEPT ![v] = @ - 1], UNCHANGED <<vm, reftd, on>>,
         flags' \in [Threads -> {"none", "killed", "terminate", "interrupt"}],
         \A t \in Slots : flags'[t] = flags[t],
         flags'[Main] = "killed" => flags[Main] = "killed" \/ vm[x] = x,
         \A t \in Threads : flags'[t] = "terminate" => t \in Terminates,
         woken' \subseteq Threads,
         \A t \in woken' : t \in woken \/ (pc[t] \in Waiting /\ pc[t] # "wait")
  PROVE  Inv'
  <1>. USE FlagsKnown
  <1>0. x \in Threads /\ x # Main
    BY ThreadsAssumption DEF Threads
  <1>1. TypeOK'
    <2>1. pc' \in [Threads -> Places]
      BY DEF Inv, TypeOK, Places
    <2>2. nref' \in [Threads -> Int]
      BY DEF Inv, TypeOK
    <2>. QED BY <2>1, <2>2 DEF Inv, TypeOK
  <1>2. pc'[x] = "dead" /\ \A t \in Threads \ {x} : pc'[t] = pc[t]
    BY <1>0
  <1>3. Shape'
    BY <1>0, <1>2 DEF Inv, TypeOK, Shape, Threads
  <1>4. Counted'
    <2>1. \A t \in Slots \ {x} :
            (pc'[t] \in {"none", "dead"} <=> pc[t] \in {"none", "dead"}) /\ Of(t)' = Of(t)
      BY <1>2 DEF Of, Threads
    <2>2. \A w : /\ x \notin Refs(w)'
                 /\ x \in Refs(w) <=> w = v
      BY <1>2 DEF Refs
    <2>3. \A w \in Threads : nref'[w] = IF w = v THEN nref[w] - 1 ELSE nref[w]
      BY DEF Inv, TypeOK
    <2>. SUFFICES ASSUME NEW w \in Threads, vm[w] = w PROVE nref'[w] = Cardinality(Refs(w)')
      BY DEF Counted
    <2>4. nref[w] = Cardinality(Refs(w))
      BY DEF Inv, Counted
    <2>5. CASE w = v
      BY <2>1, <2>2, <2>3, <2>4, <2>5, RefsChange
    <2>6. CASE w # v
      BY <2>1, <2>2, <2>3, <2>4, <2>6, RefsChange
    <2>. QED BY <2>5, <2>6
  <1>5. ClosedLast'
    BY <1>0, <1>2 DEF Inv, ClosedLast, Shape, thread_isvm, Threads
  <1>6. Flagged'
    <2>1. SlotKilled'
      BY <1>2 DEF Inv, Flagged, SlotKilled, Ended, EndLabels, Threads
    <2>2. \A u \in Slots : vm[u] = u /\ (pc[u] = "dead" \/ u = x) => vm'[u] = u /\ pc'[u] = "dead"
      BY <1>2 DEF Threads
    <2>3. MainKilled'
      BY <2>2 DEF Inv, Flagged, MainKilled
    <2>. QED BY <2>1, <2>3 DEF Flagged
  <1>7. Awake'
    <2>1. \A t \in woken' : t # x
      BY DEF Inv, Awake, Waiting
    <2>2. \A t \in woken' : pc'[t] = pc[t] /\ pc[t] \in Waiting
      BY <1>2, <2>1 DEF Inv, Awake
    <2>3. ASSUME NEW t \in woken', pc[t] = "wait", on[t] \in Threads \ EarlyWakes
          PROVE  flags'[on[t]] = "killed"
      BY <2>3 DEF Inv, Awake, Target
    <2>4. \A t \in Threads : pc'[t] = "wait" => pc[t] = "wait"
      BY <1>2
    <2>. QED BY <2>2, <2>3, <2>4 DEF Inv, Awake, Target
  <1>. QED BY <1>1, <1>3, <1>4, <1>5, <1>6, <1>7 DEF Inv

LEMMA Leaves ==
  ASSUME Inv, NEW t \in Threads, LeaveThread(t) \/ LeaveVm(t)
  PROVE  Inv'
  <1>. USE FlagsKnown
  <1>0. t \in Slots
    BY DEF LeaveThread, LeaveVm, Inv, Shape, Threads
  <1>1. \A v \in Threads : vm[v] = v => \A x \in WaitOn(v) :
          x \in Threads /\ pc[x] \in Waiting /\ pc[x] # "wait"
    BY WaitOnKnown
  <1>2. vm \in [Threads -> Threads] /\ Main \in Threads /\ vm[Main] = Main
        /\ \A x \in Threads : vm[vm[x]] = vm[x]
    BY DEF Inv, TypeOK, Shape, Threads
  <1>3. CASE LeaveThread(t)
    <2>. DEFINE v == vm[t]
    <2>1. v \in Threads /\ vm[v] = v /\ Of(t) = v
      BY <1>2, <1>3 DEF LeaveThread, Of, Inv, Shape
    <2>2. /\ pc[t] = "left" /\ pc' = [pc EXCEPT ![t] = "dead"]
          /\ nref' = [nref EXCEPT ![v] = @ - 1] /\ UNCHANGED <<vm, reftd, on, flags>>
          /\ woken' \subseteq woken \cup WaitOn(v)
      BY <1>3 DEF LeaveThread, Unref, Go
    <2>. HIDE DEF v
    <2>3. woken' \subseteq Threads
          /\ \A x \in woken' : x \in woken \/ (pc[x] \in Waiting /\ pc[x] # "wait")
      BY <1>1, <2>1, <2>2
    <2>. QED BY <1>0, <2>1, <2>2, <2>3, LetGo
  <1>4. CASE LeaveVm(t)
    <2>1. pc[t] = "closed" /\ vm[t] = t /\ reftd[t] = Main /\ Of(t) = Main
      BY <1>0, <1>4 DEF LeaveVm, Of, Inv, Shape, Threads
    <2>2. /\ pc' = [pc EXCEPT ![t] = "dead"]
          /\ nref' = [nref EXCEPT ![Main] = @ - 1] /\ UNCHANGED <<vm, reftd, on>>
          /\ flags' = [flags EXCEPT ![Main] = "killed"]
          /\ woken' \subseteq woken \cup WaitOn(Main)
      BY <1>2, <1>4, <2>1 DEF LeaveVm, Go
    <2>3. woken' \subseteq Threads
          /\ \A x \in woken' : x \in woken \/ (pc[x] \in Waiting /\ pc[x] # "wait")
      BY <1>1, <1>2, <2>2
    <2>4. /\ flags' \in [Threads -> {"none", "killed", "terminate", "interrupt"}]
          /\ \A x \in Slots : flags'[x] = flags[x]
          /\ \A x \in Threads : flags'[x] = "terminate" => x \in Terminates
      BY <1>2, <2>2, ThreadsAssumption DEF Threads
    <2>. QED BY <1>0, <1>2, <2>1, <2>2, <2>3, <2>4, LetGo
  <1>. QED BY <1>3, <1>4

\* A thread u is made that refers to VM v.
LEMMA Made ==
  ASSUME Inv, NEW u \in Slots, NEW v \in Threads, vm[v] = v, pc[v] \notin {"none", "closed", "dead"},
         pc[u] = "none", pc' = [pc EXCEPT ![u] = "start"],
         nref' = [nref EXCEPT ![v] = @ + 1], UNCHANGED <<flags, on, woken>>,
         reftd' = [reftd EXCEPT ![u] = v],
         vm' = [vm EXCEPT ![u] = v] \/ (vm' = vm /\ v = Main)
  PROVE  Inv'
  <1>. USE FlagsKnown
  <1>0. u \in Threads /\ u # Main /\ u # v /\ vm[u] = u
    BY ThreadsAssumption DEF Threads, Inv, Shape
  <1>1. TypeOK'
    <2>1. pc' \in [Threads -> Places]
      BY DEF Inv, TypeOK, Places
    <2>2. nref' \in [Threads -> Int]
      BY DEF Inv, TypeOK
    <2>3. vm' \in [Threads -> Threads] /\ reftd' \in [Threads -> Threads \cup {NoThread}]
      BY ZenonT(30) DEF Inv, TypeOK
    <2>. QED BY <2>1, <2>2, <2>3 DEF Inv, TypeOK
  <1>2. /\ pc'[u] = "start" /\ \A t \in Threads \ {u} : pc'[t] = pc[t]
        /\ \A t \in Threads \ {u} : vm'[t] = vm[t] /\ reftd'[t] = reftd[t]
        /\ reftd'[u] = v /\ (vm'[u] = v \/ (vm'[u] = u /\ v = Main))
    BY <1>0 DEF Inv, TypeOK
  <1>3. \A t \in Threads \ {u} : vm[t] \in Threads \ {u}
    BY DEF Inv, TypeOK, Shape
  <1>4. Shape'
    BY <1>0, <1>2, <1>3 DEF Inv, TypeOK, Shape, Threads
  <1>5. Counted'
    <2>1. \A t \in Slots \ {u} :
            (pc'[t] \in {"none", "dead"} <=> pc[t] \in {"none", "dead"}) /\ Of(t)' = Of(t)
      BY <1>2 DEF Of, Threads
    <2>2. \A w : /\ u \notin Refs(w)
                 /\ u \in Refs(w)' <=> w = v
      BY <1>0, <1>2 DEF Refs, Of
    <2>3. \A w \in Threads : nref'[w] = IF w = v THEN nref[w] + 1 ELSE nref[w]
      BY DEF Inv, TypeOK
    <2>. SUFFICES ASSUME NEW w \in Threads, vm'[w] = w PROVE nref'[w] = Cardinality(Refs(w)')
      BY DEF Counted
    <2>4. nref[w] = Cardinality(Refs(w))
      BY <1>0, <1>2 DEF Inv, Counted
    <2>5. CASE w = v
      BY <2>1, <2>2, <2>3, <2>4, <2>5, RefsChange, RefsFinite
    <2>6. CASE w # v
      BY <2>1, <2>2, <2>3, <2>4, <2>6, RefsChange
    <2>. QED BY <2>5, <2>6
  <1>6. ClosedLast'
    BY <1>0, <1>2, <1>3 DEF Inv, ClosedLast, Shape, thread_isvm, Threads
  <1>7. Flagged'
    <2>1. SlotKilled'
      BY <1>2 DEF Inv, Flagged, SlotKilled, Ended, EndLabels, Threads
    <2>2. \A w \in Slots : vm[w] = w /\ pc[w] = "dead" => vm'[w] = w /\ pc'[w] = "dead"
      BY <1>2 DEF Threads
    <2>3. MainKilled'
      BY <2>2 DEF Inv, Flagged, MainKilled
    <2>. QED BY <2>1, <2>3 DEF Flagged
  <1>8. Awake'
    <2>1. ASSUME NEW t \in Threads, pc'[t] = "wait"
          PROVE  t # u /\ pc[t] = "wait"
      BY <1>2, <2>1
    <2>2. ASSUME NEW t \in Threads, pc'[t] = "wait", on[t] \in Threads
          PROVE  on[t] \in Slots /\ vm[on[t]] # on[t]
      BY <2>1, <2>2 DEF Inv, Awake, Target
    <2>3. ASSUME NEW t \in Threads, pc'[t] = "wait", on[t] \in Threads
          PROVE  on[t] \in Slots /\ vm'[on[t]] # on[t]
      BY <1>0, <1>2, <2>2, <2>3 DEF Threads
    <2>4. \A t \in woken : t # u /\ pc'[t] = pc[t]
      BY <1>2 DEF Inv, Awake, Waiting
    <2>. QED BY <2>3, <2>4 DEF Inv, Awake, Target
  <1>. QED BY <1>1, <1>4, <1>5, <1>6, <1>7, <1>8 DEF Inv

LEMMA Makes ==
  ASSUME Inv, Orderly, NEW t \in Threads, NEW u \in Slots, thread_run(t, u) \/ thread_runvm(t, u)
  PROVE  Inv'
  <1>1. Main \in Threads /\ vm \in [Threads -> Threads] /\ vm[Main] = Main
        /\ vm[vm[t]] = vm[t]
    BY DEF Threads, Inv, TypeOK, Shape
  <1>2. pc[t] = "run"
    BY DEF thread_run, thread_runvm
  <1>3. pc[vm[t]] \notin {"none", "closed", "dead"}
    <2>1. CASE vm[t] = t
      BY <1>2, <2>1
    <2>2. CASE vm[t] # t
      BY <1>1, <1>2, <2>2 DEF Inv, Shape, ClosedLast, thread_isvm, Threads
    <2>. QED BY <2>1, <2>2
  <1>4. CASE thread_run(t, u)
    BY <1>1, <1>3, <1>4, Made DEF thread_run, sys_thread_new, Go, Orderly
  <1>5. CASE thread_runvm(t, u)
    BY <1>1, <1>2, <1>5, Made DEF thread_runvm, sys_thread_new, Go, Orderly
  <1>. QED BY <1>4, <1>5

-----------------------------------------------------------------------------
(***************************************************************************)
(* The theorem.                                                            *)
(***************************************************************************)
LEMMA InitInv == Init => Inv
  <1>. SUFFICES ASSUME Init PROVE Inv
    OBVIOUS
  <1>1. TypeOK /\ Shape /\ ClosedLast /\ Flagged /\ Awake
    BY ThreadsAssumption DEF Init, TypeOK, Places, Shape, ClosedLast, Flagged, SlotKilled, MainKilled, Awake, Threads,
       thread_isvm
  <1>2. \A v : Refs(v) = {}
    BY ThreadsAssumption DEF Init, Refs, Threads
  <1>3. Counted
    BY <1>2, FS_EmptySet DEF Init, Counted
  <1>. QED BY <1>1, <1>3 DEF Inv

LEMMA NextInv == ASSUME Inv, Orderly, [Next]_vars PROVE Inv'
  <1>1. CASE UNCHANGED vars
    BY <1>1 DEF vars, Inv, TypeOK, Shape, Counted, Refs, Of, ClosedLast, Flagged, SlotKilled,
       MainKilled,        Awake, Target, Ended, thread_isvm
  <1>2. CASE Next
    BY <1>2, LockSteps, ThreadDone, Ends, Marks, Wakeups, Waits, Leaves, Makes DEF Next
  <1>. QED BY <1>1, <1>2

LEMMA Invariance == ASSUME Orderly PROVE Spec => []Inv
  BY InitInv, NextInv, PTL DEF Spec

\* vmtd->nref is exact in every program that keeps to Orderly (which leaves out the
\* spurious wake-ups of a thread:wait for a thread that is terminated), for any number of
\* threads and VMs: sys_thread_new's increment is matched by one decrement, after
\* thread_exit, whether a thread ends by itself or is terminated.
THEOREM NrefCorrect == Orderly => (Spec => []NrefExact)
  <1>. SUFFICES ASSUME Orderly PROVE Spec => []NrefExact
    OBVIOUS
  <1>1. Spec => []Inv
    BY Invariance
  <1>2. Inv => NrefExact
    BY CountedIsExact DEF Inv
  <1>. QED BY <1>1, <1>2, PTL

\* Threads end in order, under the same conditions: lua_close comes after the last of a
\* VM's threads has ended, and a thread that is marked as killed has ended, but for the
\* main thread of the program, which the end of a VM that it started marks
\* (sys_thread.c:190-240).
THEOREM EndsCorrect == Orderly => (Spec => []EndsInOrder)
  <1>. SUFFICES ASSUME Orderly PROVE Spec => []EndsInOrder
    OBVIOUS
  <1>1. Spec => []Inv
    BY Invariance
  <1>2. Inv => EndsInOrder
    <2>. SUFFICES ASSUME Inv PROVE EndsInOrder
      OBVIOUS
    <2>1. \A u \in Slots : vm[u] = u /\ pc[u] = "dead" => reftd[u] = Main
      BY DEF Inv, Shape
    <2>2. KilledHasEnded
      BY <2>1 DEF Inv, Flagged, SlotKilled, MainKilled, KilledHasEnded, thread_isvm, Threads
    <2>. QED BY <2>2 DEF Inv, EndsInOrder
  <1>. QED BY <1>1, <1>2, PTL

-----------------------------------------------------------------------------
(***************************************************************************)
(* The collector.  Who has left the table has ended, but for the main      *)
(* thread of the program, which is kept.                                   *)
(***************************************************************************)
Saved ==
    \A t \in Threads :
      t \in collected \/ (t \notin listed \cup {Main} /\ pc[t] # "none") => Ended(t)

\* One thread moves, and does not come back from its end; who leaves the table
\* or is collected has ended.
LEMMA SavedStep ==
  ASSUME Inv, Saved, NEW x \in Threads, NEW l, pc' = [pc EXCEPT ![x] = l],
         Ended(x) => l \in EndLabels, pc[x] = "none" => l = "none" \/ x \in listed',
         \A t \in collected' \ collected : t \in Threads => Ended(t)',
         \A t \in listed \ listed' : t \in Threads => t = Main \/ Ended(t)'
  PROVE  Saved'
  <1>1. pc'[x] = l /\ \A t \in Threads \ {x} : pc'[t] = pc[t]
    BY DEF Inv, TypeOK
  <1>2. \A t \in Threads : Ended(t) => Ended(t)'
    BY <1>1 DEF Ended, EndLabels
  <1>3. ASSUME NEW t \in Threads, t \in collected' PROVE Ended(t)'
    BY <1>2, <1>3 DEF Saved
  <1>4. ASSUME NEW t \in Threads, t \notin listed', t # Main, pc'[t] # "none" PROVE Ended(t)'
    BY <1>1, <1>2, <1>4 DEF Saved
  <1>. QED BY <1>3, <1>4 DEF Saved

\* lua_close finds only threads that have ended.
LEMMA CloseSaved ==
  ASSUME Inv, NEW t \in Slots, vm[t] = t, nref[t] = 0, pc' = [pc EXCEPT ![t] = "closed"],
         NEW u \in Threads, vm[u] = t
  PROVE  Ended(u)'
  <1>1. u \in Slots
    BY ThreadsAssumption DEF Inv, Shape, Threads
  <1>2. CASE u = t
    BY <1>2 DEF Ended, Inv, TypeOK, Threads
  <1>3. CASE u # t
    BY <1>1, <1>3, NoneLeft DEF Ended, Inv, TypeOK, Threads
  <1>. QED BY <1>2, <1>3

LEMMA ExitSaved ==
  ASSUME Inv, Saved, NEW t \in Slots, pc[t] \in {"run", "out", "sys", "eintr", "exvm"},
         \/ thread_exit(t)
         \/ CloseOrWait(t) /\ vm[t] = t /\ UNCHANGED listed
  PROVE  Saved'
  <1>1. t \in Threads
    BY DEF Threads
  <1>2. CASE CloseOrWait(t) /\ vm[t] = t /\ UNCHANGED listed
    <2>1. CASE nref[t] = 0
      <3>1. pc' = [pc EXCEPT ![t] = "closed"] /\ collected' = collected \cup {u \in Threads : vm[u] = t}
        BY <1>2, <2>1 DEF CloseOrWait, lua_close, Go
      <3>2. \A u \in collected' \ collected : u \in Threads => Ended(u)'
        BY <1>2, <2>1, <3>1, CloseSaved
      <3>. QED BY <1>1, <1>2, <3>1, <3>2, SavedStep DEF EndLabels
    <2>2. CASE nref[t] # 0
      BY <1>1, <1>2, <2>2, SavedStep DEF CloseOrWait, Go, EndLabels
    <2>. QED BY <2>1, <2>2
  <1>3. CASE thread_exit(t) /\ vm[t] = t
    BY <1>2, <1>3 DEF thread_exit, thread_isvm, ExitVm
  <1>4. CASE thread_exit(t) /\ vm[t] # t
    <2>1. pc' = [pc EXCEPT ![t] = "left"] /\ listed' = listed \ {t} /\ collected' = collected
      BY <1>4 DEF thread_exit, thread_isvm, ExitThread, sys_thread_del, Go
    <2>2. Ended(t)'
      BY <1>1, <2>1 DEF Ended, Inv, TypeOK
    <2>. QED BY <1>1, <2>1, <2>2, SavedStep DEF EndLabels
  <1>. QED BY <1>2, <1>3, <1>4

\* A thread that has not ended moves, and nothing is collected.
LEMMA SavedMove ==
  ASSUME Inv, Saved, NEW x \in Threads, NEW l, pc' = [pc EXCEPT ![x] = l], pc[x] # "none",
         ~Ended(x), UNCHANGED <<collected, listed>>
  PROVE  Saved'
  BY SavedStep

LEMMA SavedPlain ==
  ASSUME Inv, Saved, NEW t \in Threads,
         \/ thread_start(t) \/ sys_vm_leave(t) \/ EntersSystem(t) \/ Joined(t)
         \/ sys_thread_suspend(t) \/ SuspendWoken(t) \/ thread_waitvm(t) \/ WaitvmWoken(t)
         \/ WaitvmTimesOut(t) \/ \E u \in Threads : thread_wait(t, u)
  PROVE  Saved'
  <1>1. /\ pc[t] # "none" /\ ~Ended(t) /\ UNCHANGED <<collected, listed>>
    BY DEF thread_start, sys_vm_leave, EntersSystem, Joined, sys_thread_suspend, SuspendWoken,
       thread_waitvm, WaitvmWoken, WaitvmTimesOut, thread_wait, thread_cond_wait_vm, Ended
  <1>2. \E l : pc' = [pc EXCEPT ![t] = l]
    BY DEF thread_start, sys_vm_leave, EntersSystem, Joined, sys_thread_suspend, SuspendWoken,
       thread_waitvm, WaitvmWoken, WaitvmTimesOut, thread_wait, Go
  <1>. QED BY <1>1, <1>2, SavedMove

LEMMA SavedSame ==
  ASSUME Saved, UNCHANGED <<pc, collected, listed>>
  PROVE  Saved'
  BY DEF Saved, Ended

LEMMA SavedEnds ==
  ASSUME Inv, Saved, NEW t \in Threads,
         \/ Returns(t) \/ CloseVm(t) \/ sys_vm_enter(t) \/ LeaveThread(t) \/ LeaveVm(t)
  PROVE  Saved'
  <1>1. CASE Returns(t)
    BY <1>1, ExitSaved DEF Returns, Threads
  <1>2. CASE CloseVm(t)
    <2>1. vm[t] = t /\ t \in Slots /\ pc[t] = "exvm"
      BY <1>2 DEF CloseVm, thread_cond_wait_vm, Inv, Shape, Threads
    <2>. QED BY <1>2, <2>1, ExitSaved DEF CloseVm
  <1>3. CASE sys_vm_enter(t)
    <2>1. CASE flags[t] = "terminate"
      <3>1. t \in Slots
        BY <2>1, FlagsKnown, ThreadsAssumption
      <3>. QED BY <1>3, <2>1, <3>1, ExitSaved DEF sys_vm_enter
    <2>2. CASE flags[t] # "terminate"
      BY <1>3, <2>2, SavedMove DEF sys_vm_enter, Go, Ended
    <2>. QED BY <2>1, <2>2
  <1>4. CASE LeaveThread(t)
    BY <1>4, SavedStep DEF LeaveThread, Go, EndLabels
  <1>5. CASE LeaveVm(t)
    <2>1. t \in Slots /\ reftd[t] = Main
      BY <1>5 DEF LeaveVm, Inv, Shape, Threads
    <2>. QED BY <1>5, <2>1, SavedStep DEF LeaveVm, sys_thread_del, Go, EndLabels
  <1>. QED BY <1>1, <1>2, <1>3, <1>4, <1>5

LEMMA SavedMarks ==
  ASSUME Inv, Saved, NEW t \in Threads, NEW u \in Threads,
         \/ thread_set_interrupt(t, u) \/ Recover(t, u) \/ thread_set_terminate(t, u)
         \/ sys_thread_resume(t, u) \/ SpuriousWakeup(t)
  PROVE  Saved'
  <1>1. ASSUME thread_cancel_syncio(u), UNCHANGED <<collected, listed>> PROVE Saved'
    <2>1. CASE pc[u] = "sys"
      BY <1>1, <2>1, SavedMove DEF thread_cancel_syncio, Ended
    <2>2. CASE pc[u] # "sys"
      BY <1>1, <2>2, SavedSame DEF thread_cancel_syncio
    <2>. QED BY <2>1, <2>2
  <1>2. CASE thread_set_interrupt(t, u)
    BY <1>1, <1>2 DEF thread_set_interrupt
  <1>3. CASE thread_set_terminate(t, u)
    <2>1. CASE u = t
      <3>1. t \in Slots
        BY <1>3, <2>1, ThreadsAssumption DEF thread_set_terminate
      <3>. QED BY <1>3, <2>1, <3>1, ExitSaved DEF thread_set_terminate
    <2>2. CASE u # t
      BY <1>1, <1>3, <2>2 DEF thread_set_terminate
    <2>. QED BY <2>1, <2>2
  <1>4. CASE Recover(t, u) \/ sys_thread_resume(t, u) \/ SpuriousWakeup(t)
    BY <1>4, SavedSame DEF Recover, sys_thread_resume, SpuriousWakeup
  <1>. QED BY <1>2, <1>3, <1>4

LEMMA SavedWaits ==
  ASSUME Inv, Saved, Orderly, NEW t \in Threads, NEW out \in BOOLEAN, WaitWakes(t, out)
  PROVE  Saved'
  <1>1. pc[t] = "wait" /\ ((out /\ on[t] \in EarlyWakes) \/ t \in woken)
    BY DEF WaitWakes
  <1>2. ~(on[t] \in Threads /\ flags[on[t]] = "terminate")
    <2>1. SUFFICES ASSUME on[t] \in Threads, flags[on[t]] = "terminate" PROVE FALSE
      OBVIOUS
    <2>2. on[t] \notin EarlyWakes
      BY <2>1, FlagsKnown DEF Orderly
    <2>. QED BY <1>1, <2>1, <2>2 DEF Inv, Awake
  <1>. DEFINE l == IF out \/ (on[t] \in Threads /\ flags[on[t]] \in {"killed", "interrupt"})
                   THEN "run" ELSE "wait"
  <1>3. pc' = [pc EXCEPT ![t] = l] /\ UNCHANGED <<collected, listed>>
    BY <1>2 DEF WaitWakes, Go
  <1>. HIDE DEF l
  <1>. QED BY <1>1, <1>3, SavedMove DEF Ended

LEMMA SavedMakes ==
  ASSUME Inv, Saved, Orderly, NEW t \in Threads, NEW u \in Slots,
         thread_run(t, u) \/ thread_runvm(t, u)
  PROVE  Saved'
  <1>1. /\ u \in Threads /\ pc[u] = "none" /\ pc' = [pc EXCEPT ![u] = "start"]
        /\ listed' = listed \cup {u} /\ UNCHANGED collected
    BY DEF thread_run, thread_runvm, Go, Orderly, Threads
  <1>2. ~Ended(u)
    BY <1>1 DEF Ended
  <1>. QED BY <1>1, <1>2, SavedStep

LEMMA SavedDone ==
  ASSUME Inv, Saved, Orderly, NEW t \in Threads, NEW u \in Threads, thread_done(t, u)
  PROVE  Saved'
  <1>1. /\ pc[t] = "run" /\ pc[u] # "none" /\ u \notin listed \cup {Main}
        /\ collected' = collected \cup {u} /\ listed' = listed
        /\ pc' = pc \/ pc' = [pc EXCEPT ![t] = "join"]
    BY DEF thread_done, Go, Orderly
  <1>2. Ended(u)
    BY <1>1 DEF Saved
  <1>3. u # t /\ ~Ended(t)
    BY <1>1, <1>2 DEF Ended
  <1>4. pc' = [pc EXCEPT ![t] = pc[t]] \/ pc' = [pc EXCEPT ![t] = "join"]
    BY <1>1 DEF Inv, TypeOK
  <1>5. Ended(u)'
    BY <1>2, <1>3, <1>4 DEF Ended, Inv, TypeOK
  <1>. QED BY <1>1, <1>3, <1>4, <1>5, SavedStep

LEMMA SavedNext == ASSUME Inv, Saved, Orderly, [Next]_vars PROVE Saved'
  <1>1. CASE UNCHANGED vars
    BY <1>1, SavedSame DEF vars
  <1>2. CASE Next
    BY <1>2, SavedPlain, SavedEnds, SavedMarks, SavedWaits, SavedMakes, SavedDone DEF Next
  <1>. QED BY <1>1, <1>2

\* The record of a thread that runs is not freed under it: whom thread_done finds in no
\* table has ended (sys_thread.c:501, 543), for every program that keeps to Orderly, in
\* particular one that keeps a handle of its main thread.
THEOREM SavedCorrect == Orderly => (Spec => []SavedFromGC)
  <1>. SUFFICES ASSUME Orderly PROVE Spec => []SavedFromGC
    OBVIOUS
  <1>1. Init => Saved
    BY DEF Init, Saved
  <1>2. Saved => SavedFromGC
    BY DEF Saved, SavedFromGC
  <1>. QED BY <1>1, <1>2, Invariance, SavedNext, PTL DEF Spec
=============================================================================
