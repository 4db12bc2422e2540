# luasys in TLA+

TLA+ models of the concurrent core of luasys (the C library under `src/src/`),
TLC runs that check them on small instances, and TLAPS proofs of their main
safety properties for every value of the constants. Paths below are relative to
`src/src/`; the modelled build is the Linux one (`USE_EPOLL`, `USE_EVENTFD`,
POSIX threads, assertions compiled out).

## 1. The system

luasys gives Lua programs threads, sockets, files, an event queue and memory
buffers. What makes it hard is what its threads share. All threads of a Lua VM
run under the VM's lock, which a thread gives up only in blocking calls
(`sys_vm2_leave`/`sys_vm2_enter`), in `sys_thread_switch` and in Lua callbacks
that do so; data structures of one VM rely on that lock, pipes between VMs have
a lock of their own.

| Component | State | Operations | Interacts through | Hard because | Correct when |
|---|---|---|---|---|---|
| **Data pool** `thread/thread_dpool.c` | storage with a high watermark, an auto-reset event, count of blocked readers, an offer of direct hand-over (`L`, `nput`) | `put`, `get`, `max`, `callbacks`, `count` | VM lock; the event `tev`; the writer's Lua stack | the hand-over yields in the middle; readers and writers share one event; four ways out of a wait | each message leaves once; counters exact; waiting readers are served |
| **Thread events** `thread/thread_sync.c` | `signalled`, a condition variable | wait, signal | used by the pool, the event queue, the scheduler | the value is tested under another lock than the caller's state | a signal is taken once and not lost |
| **Pipe storage** `thread/thread_pipe.c` | ring of ring buffers (`begin`, `end`, `len`, links), `nmsg` | `put`, `get`, `close` | the pipe's lock | wrap-around, sentinels, growth of the ring in the middle | messages come out whole and in order; copies stay in bounds |
| **Pipe synchronisation** `thread/thread_pipe.c` | two condition variables, `signal_on_put`, `signal_on_get` | the waits of `put` and `get` | the pipe's lock and each thread's VM lock | timeouts, spurious wake-ups, two locks | no lost wake-up; timed calls return |
| **Pipe messages** `thread/thread_pipe.c` | bytes of a message, references of pipes | `msg_build`, `msg_parse`, `pipe_xdup` | values of two VMs | sizes and alignment; references counted across VMs | parse undoes build; a pipe lives as long as it is referred to |
| **Threads and VMs** `thread/sys_thread.c` | thread records, reference counts, flags, VM lock | `run`, `runvm`, `wait`, `exit`, `interrupt`, `terminate`, `suspend`, `resume`, `sleep` | VM lock, condition per thread | exit of a VM's main thread while others run; a resume before its suspend | a VM outlives its threads; `wait` returns the result |
| **Event queue** `sys_evq.c`, `event/evq.c` | event slots, free and ready lists, flags, `nactives`, `nidles`, `wait_tev`, pending `sync` calls | `add*`, `del`, `mod`, `callback`, `timeout`, `sync`, `loop`, `stop`, `notify` | VM lock; eventfd; callbacks | several threads in one loop; changes while another thread is in `epoll_wait`; deletion of active events | one waiter; each slot in one list; `stop` and `sync` reach the loop |
| **Timeout queues** `event/timeout.c` | one list per timeout value, `timeout_at` | `add`, `del`, `reset`, `get`, `process` | called by the event queue | lists are ordered only by the order of calls; wrap-around of time | the head expires first; no event is lost or queued twice |
| **Backends** `event/epoll.c`, `poll.c`, `select.c`, `kqueue.c`, `win32*.c` | kernel registrations | `evq_add`, `evq_del`, `evq_modify`, `evq_wait` | event queue | stale pointers in returned events | as the event queue |
| **Signals** `event/signal.c` | global table of signal events, `sig_ready`, eventfd | handler, `signal_add`, `signal_del`, `process_interrupt` | signal context, all queues | asynchronous handler that locks; merged signals | every queue with the signal sees it |
| **Scheduler** `thread/thread_sched.c` | task lists, workers, events of tasks | `put`, `loop`, `stop`, `suspend`, `resume`, `terminate`, `wait_*`, preemption | event queue (`sys_evq_sched_add/del`), VM lock | a task's event fires while the task is terminated; workers asleep in the event queue | a runnable task is run; a task is in one list |
| **Memory buffers and streams** `mem/sys_mem.c`, `mem/membuf.c` | buffer, offset, length, stream flags | read, write, flush, close; typed access | files and sockets as streams (`sys_file.c`, `sock/sys_sock.c`) | growth, partial transfers of the stream below, a stream that gives up the VM's lock | no byte lost or repeated |
| Other calls of sockets and files, serial ports, processes, environment, log, random, dates, thread affinity, Windows services and registry, FastCGI/ISAPI adapters | descriptors | wrappers of system calls | the operating system | – | not modelled: no state of their own beyond a descriptor |

`PROJECT.json` lists every component with its status, and every hazard with its
line.

## 2. Modules

| Module | Models | |
|---|---|---|
| `MessagePool` | what a data pool promises: a message put is delivered or dropped, once | abstract specification |
| `DataPool` | `thread_dpool.c` with the event of `thread_sync.c` | implements `MessagePool` |
| `PipeBuffer` | the storage of `thread_pipe.c` | |
| `PipeSync` | the waits of `thread_pipe.c` | relies on `PipeBuffer!RingReady` |
| `EventLoop` | threads sharing an event queue: `sys_evq.c` over `event/epoll.c` | |
| `TimeoutQueue` | `event/timeout.c` with the calls, the loop and the clock that drive it | details what `EventLoop` leaves out of a slot |
| `Scheduler` | `thread_sched.c` over the event queue | composes workers, tasks and the events of `sys_evq.c` |
| `Threads` | `sys_thread.c`: threads and VMs from start to end | |
| `Streams` | `membuf.c`, `sys_mem.c` over `sys_read`, `sys_write` and the socket calls | |
| `Signals` | `event/signal.c`: handler, table and queues | composes the handler, two queues, the kernel |
| `Backends` | `event/poll.c`, `select.c`, `kqueue.c` | the parts `EventLoop` models for epoll |
| `DataPool_proofs`, `PipeBuffer_proofs`, `PipeSync_proofs`, `EventLoop_proofs`, `Scheduler_proofs`, `Threads_proofs`, `Signals_proofs`, `Streams_proofs` | theorems about the module they are named after | TLAPS |
| `MC*` | thread names and values of constants for TLC | |

An operator whose comment begins with "Mutant:" is a wrong version of the
definition that follows it; with it in place, TLC finds the property it is
listed for in `PROJECT.json` violated.

### DataPool

`store` is the Lua table of the pool (its length is `dp->n`), `nwaits`, `nput`,
`L`, `max`, `flags` and `signalled` are the fields of the same names. A message
is the number of the put that brought it. One action is what a thread does
between two points where it gives up the VM's lock; `pc` is that point. So
`dpool_put` ends with the data stored, offered (`direct`), in the put-on-full
callback, or in a wait for room; `PutOnFull`, `PutWoken`, `PutSwitched` go on
from there, and `dpool_get`, `GetOnEmpty`, `GetWoken` are the reader's side.
`EventCheck`, `EventWake`, `EventTimeout` are the steps inside
`thread_cond_wait_value`, outside the VM's lock: the flag is tested, taken, or
the wait times out. `thread:interrupt` (`thread_set_interrupt`) makes the next
check fail. A call a callback makes on the same pool is approximated by a call of
another thread; the error return −1 of a condition wait is left out.
`Unlimited` stands for the watermark 2^32−1 of a new pool: it exceeds all that a
run can store. A direct hand-over may overtake stored messages, so no order of
delivery is promised.

### PipeBuffer

Memory is kept cell by cell: a cell holds a unit of a message, a sentinel, or
what was there before, and `pipe_get` returns what the cells hold. `PutInPlace`,
`PutWrapped`, `PutInNext`, `PutInNew` are the four ways of `pipe_put` to find
room; the history variable `overrun` records that a put wrote over an unread
message. Sizes are `unsigned int`: `UintMod` stands for 2^32, and with the largest
maximum `buf_size` wraps around to 0. A copy that its memory does not hold sets
`wild`, where the model stops: `PutStray` into the `malloc(0)` that follows the wrap,
`GetStray` when `pipe_get` takes overwritten payload for a message's size.
`pipe_close` frees buffers the way the loop in the code does.

### PipeSync

`pipe_put`/`pipe_get` enter with the VM's lock (`enter`), take the pipe's lock
and act or sleep (`wait`); `Relock` takes the pipe's lock again (`vm`), and
`PutWoken`/`GetWoken` go on once the VM's lock is there too. `Timeout` and
`SpuriousWakeup` are the other ends of a sleep. Room is abstracted: at least
`Sure` and at most `Cap` messages fit, in between it depends on sizes; that an
empty pipe always has room is `PipeBuffer!RingReady`. The number of puts and gets has
no bound.

### EventLoop

`stop` and `waiting` are the two flags of the queue; `nactives`, `nidles`,
`wait_tev`, `sync_op` are its fields, `sig` its eventfd. Event slots are numbers;
`free` and `ready` are the lists through `next_ready`, `alive` the slots with
`ev->evq` set, `active`, `deleted`, `oneshot` their flags. `vm` names the thread
in the middle of a stretch of code that holds the VM's lock; the labels `top`,
`gate`, `ready`, `next` are points inside such a stretch, the others are points
where the lock is given up. `fetched` is what `epoll_wait` returned to a thread
that has not got the VM's lock back yet: the reason for `levq_control_wait`.
`held` restricts the program to events it may still name. A callback may make
any call before it returns or fails. Sequences stand for the linked lists as long
as `SlotsSound` holds; the first state that breaks it ends a run. Left out:
`evq:callback`, coroutine callbacks, `stop(false)`, and interrupts of threads in
the loop; timeouts, `notify`, signals and the scheduler's calls are in modules of
their own.

### TimeoutQueue

`q` is the memory of the queue: `ev` the events with their links `prev`, `next`
and deadline `at`, `tq` the lists of equal timeouts with `ev_head`, `ev_tail` and
their own chain, `map` the Lua table that finds a list by its timeout, `free` and
`ready` the lists of slots. A list takes a slot of the same array, as in the code,
so the free slots and the reserve of `levq_add` are shared between the two.
`timeout_add`, `timeout_del`, `timeout_reset`, `timeout_get`, `timeout_process`
are functions from memory to memory, link by link; `clock` is the time, `now` the
cached `evq->now`, `entered` when the loop fell asleep. `asked` is a history
variable, the timeout each event was given last. Callers use the public calls
(`add`, `add_timer`, `del`, `timeout`, `timeout_manual`, `notify`, `now`), which
wait in `levq_control_wait` as in the code. `notify` does not wait: when it comes
between the time-out of `epoll_wait` and the VM's lock, `timeout_process` queues the
event a second time, and the model stops at the ring that the ready list has become
(`circular`). `late` is a history variable, for a call that moves a
deadline after the time-out.

### Scheduler

`s` is what the scheduler's functions share: tasks, free and active lists, the
slots of the event queue that belong to tasks, and the calls pending there. A
worker's place in `sched:loop` is `pc`. A task is a number; what it does is chosen
by the environment when a worker runs it: yield, finish, fail, suspend, wait for
an event, make a blocking call (`sched_vm_switch` hands the VM to another worker),
or call the scheduler. `Leave`, `StopLeave`, `TimeoutLeave`, `Fail`, `EvqFails` are the
ways out of the loop with their hand-over of the event queue. The other way out is
`sys_thread_check` behind a wait (`thread_sched.c:370`, `sys_evq.c:808`) or in a blocking
call: a worker in `Interrupts` is then gone without it (`CheckFails`, `EndsBlocked`; labels
`lost`, `lost_evq`, `lost_task`), and what the counters say of it is part of `CountsExact`.
`sys_evq_loop` is followed turn by turn: pending calls at its entry (`EvqTurn`), then ready
events, then the wait. Preemption is `sched_preempt_tasks` with the hook that makes a task
yield.

### Threads

`vm` is the VM a thread runs in, `reftd` the thread that holds its reference,
`nref` the counts, `flags` the state that `interrupt`, `terminate` and the end of a
thread share, `on` the condition variable a thread sleeps on, `listed` the table
of a VM that keeps its threads from being collected, `collected` the threads that
`thread_done` was called for: any thread of the VM that is neither listed nor in `Kept`,
ended or not. A `runvm` thread has
a second record in the VM that started it, its *fake* thread. `thread_exit` is
split where it gives up a lock: `thread_exit`, `LeaveThread`/`LeaveVm`, `CloseVm`.
A worker may wait for the main thread of its VM as well (`thread_wait`, `thread_waitvm`);
without a time-out it waits for its own end. Main threads are not terminated.
`thread_cancel_syncio` is the signal that cuts a blocking call short.

### Streams

Bytes are numbers in the order of the puts, so that loss, repetition and
reordering show. `mb` is the buffer with its `mem`, `offset` and `len`; `streams` says
which of an input and an output stream it has, changed at any time by
`membuf_assosiate`. The stream below takes
or gives any part of what is asked, fails, or ends. `sys_read`, `sock_read` and
`sock_recv`, and their writing counterparts, differ in how they ask and when they
stop. `op` is the call that is inside the stream with the VM's lock given up;
another thread may add meanwhile (`OtherAdds`) and, when its bytes do not fit, be in the
output stream as well (`other`). From the step at which the two calls get in each other's
way `clash` is TRUE: an add flushes or moves the buffer under another thread's write, or
comes back from the stream to an offset that is stale. The calls at work then end the way
the code does (bytes sent twice, a negative offset), but the `memmove` of a negative length
and the use of a freed block are not told apart, and no new call is followed.
Whether output streams take buffers (`Bufio`) is a constant; with both streams, the
beginning of a long line goes to the output stream, as in the code. `Newlines` says which
bytes end a line.

### Signals

`disp` is what the kernel does with a signal, `list` the table of events per
signal that all queues share, `queue` each queue's `sig_ready`, eventfd and ready
list. The handler takes `g_Signal.cs` and then each queue's `sig_cs`. `handler` is, for each
thread, the stack of handlers it is in, the innermost first: `sa_mask` is empty, so a
handler is interrupted by another signal, and handlers run on several threads at once.
With `Anywhere = FALSE` a signal only spares a thread or a handler that holds one of the
library's locks. `owed` is a
history variable: events whose signal was delivered and that were not called yet.
A SIGCHLD event for a child asks `waitpid` when it is processed.

### Backends

`tab` holds the tables of all three backends, of which `kind` uses its own. The
walk of `evq_wait` over what the kernel returned is a fold over table entries in
which `evq_del` of one-shot events changes the table, as in the code; kqueue's
results overwrite its list of changes. The walk of poll keeps the pointers it had: any use
of them after a `realloc` counts as out of bounds (`oob`), and so does a descriptor that
select's sets do not hold. `kevent()` is modelled with its two ways to fail:
in `kqueue_set`, without room for results, it stops at the first change that fails
(`Flush`; the list stays and the new change is dropped), in `evq_wait` it passes such changes
over (`Flushed`, `WaitFails`). A filter with `EV_ONESHOT` is removed by the kernel as it is
reported (`Left`), so that its later deletion is such a failure. `lost` is a history
variable, the descriptors whose change was dropped, until the next change for them; a
result for an event whose deletion was dropped uses a freed event, where the model stops
(`Wild`). `levq_control_wait` is the one step of a call that matters here: it must be able
to end the wait through `sig_fd`. Memory that runs out in poll's `realloc` is left out.

## 3. Runs

Runs that pass (the named parts of a property in brackets):

| Run | Instance | Shows |
|---|---|---|
| `DataPool_safety` | 2 writers, 2 readers, 3 puts, callbacks of every kind, watermark lowered to 1, one thread interrupted; readers symmetric | `HandoffConsistent`: `L`/`nput` say exactly which writer offers data. `NwaitsExact`: `nwaits` counts blocked readers. `Conservation`: each message is in one place. `ImplementsPool`: refinement of `MessagePool` |
| `DataPool_wakeup` | 2 writers, 1 reader, no watermark, fair | `NoLostWakeup`, `ReaderServed`: a sole reader that sleeps has no data or a signal, and is served |
| `PipeBuffer_fifo` | messages of 1 and 2 units, buffers of 4, 4 and 8 units, `UintMod` 16, 9 puts | `InBounds`: every copy stays in its buffer until a put meets a full buffer or `buf_size` wraps to 0 (both happen). `FifoUnlessOverrun`: unless a put overran the reader, messages come out whole and in order. `RingReady`: a pipe with messages can be read, an empty one starts over |
| `PipeSync_wakeup` | 2 writers, 2 readers, a VM each, room for 1–2 messages, any number of puts, fair | `CountsExact`, `NoLostWakeup`: counters exact, nobody sleeps on a message or on room unless another is awake. `GetsReturn` (`MessagesGot`, `TimedGetReturns`): messages do not stay while readers wait, a timed `get` returns once no more messages come |
| `EventLoop` | 2 threads in `loop` (one lingers, one runs single cycles with a timeout), 1 that adds, deletes and stops, 1 that calls `sync`, 3 slots, fair | `LoopSound` (`OneWaiter`, `CountsExact`, `NeverAbandoned`): one thread in `evq_wait`, exact counters, no idle thread without another that waits or works. `SlotsSound`: each slot in one place. `StopEnds`, `CallsReturn`, `ReadyHandled` |
| `TimeoutQueue` | the loop with a timeout of 2, 1 caller with 5 calls, timeouts of 2 and 3, a repeating timer and a one-shot descriptor, 5 slots, clock up to 2 | `ListsSound` (`TimeoutListsSound`, `ReadyOnce`): links, map and slots agree, an event is ready once, up to a notification after the time-out. `DeadlinesOrdered`: the head of a list expires first. `NoOversleep`: the loop wakes for the earliest deadline. `EndsInTime`: the loop times out only after its own timeout |
| `Scheduler` | 2 workers, one of them interrupted or terminated, 2 tasks, an event queue with an event of its own, whose callback may fail, fair | `Consistent` (`CountsExact`, `OnePlace`), `EventsMatch`: a task is in one list and agrees with its event. `EvqAttended`: workers never all sleep while the queue's events are left to nobody, until a worker is lost to an interrupt. `TaskTaken`: an active task is run, though others compute for ever |
| `Threads` | a main thread that a variable refers to, 2 more threads or VMs, fair | `NrefExact`: references counted exactly. `EndsInOrder` (`ClosedLast`, `KilledHasEnded`): a VM closes last, "killed" means that the thread, or a VM it started, has ended. `SavedFromGC`: no running thread is collected. `CallsEnd` (`WaitEnds`, `WorkersDone`, `TerminateEnds`) |
| `Streams` | buffers of 2 bytes that grow, any streams, puts of up to 3 bytes, 6 bytes in all, partial flushes, a second thread that adds during flushes and adds | `Conserved`: every byte once and in order. `WithinLen`: no write past the buffer; both until a clash, which happens. `WholeLines`: a line is not cut where a piece ends |
| `Signals` | 2 queues, 3 events (one signal twice, once one-shot; one child), `ignore_signal`, one queue closed, handlers nested and on several threads, fair | `NoLostSignal`: a queue with ready signals is woken. `TableSound` (`Installed`, `ListSound`, `OwnEvents`): handlers, shared list and ready lists agree. `Answered`: a delivered signal reaches every event that listens |
| `Backends` | 4 events on 3 descriptors, one fires once, one is changed, one is closed, arrays of 2, sets of 4 | `TableSound` (`Watched`, `IndexSound`): the kernel watches what the events ask for, but for dropped changes. `Reported`: the walk finds what the kernel reported. `InBounds`: no access past the arrays, and no result for an event that was deleted, unless the deletion was dropped |

One run states what a test of the repository says and finds it violated (quoted in
`PROJECT.json`): `PipeBuffer_overrun` (`Fifo`), a wrapped buffer that is exactly full looks
empty to the next put, which overwrites unread messages.

`Scheduler_stop` is a configuration beside the runs, and passes: 3 workers with timeouts,
one of them interrupted or terminated, 1 task, fair. `StopEnds`: `sched:stop` signals one
of the workers that wait for tasks, two at a time, and each tells the next.

### Conditions the properties depend on

The passing runs leave out cases in which the code does not do what the property
says; each case is a value of a constant, and TLC shows the counterexample in
seconds to minutes. Those with a configuration file can be run as they are
(`tlc -config <file>.cfg MC<module>`); the others change one line of the run's
configuration.

| Configuration, or change | Violated | What happens |
|---|---|---|
| `DataPool_bounded` | `ReaderServed` | with a watermark, a blocked writer takes the signal meant for the reader, and both sleep |
| `DataPool_two_readers` | `ReaderServed` | two puts, one signal: the second reader sleeps on data |
| `PipeSync_one_vm` | `TimedGetReturns` | two threads of one VM take the VM's lock and the pipe's in opposite orders |
| `PipeSync_retry` | `TimedGetReturns` | while messages come, another reader takes each of them, and a reader that was woken in vain waits for its whole timeout again (`thread_pipe.c:440`) |
| `PipeSync_writers` | `TimedPutReturns` | two blocked writers wake each other for ever and neither times out |
| `EventLoop_sync` | `SyncServed` | `evq:sync` called while the looping thread is idle: that thread is woken by the end of another call and waits for events without looking at the pending call |
| `EventLoop_oneshot` | `SlotsSound` | `evq:del` of a one-shot event that fires while the call waits frees its slot twice |
| `EventLoop`, two `Controllers` | `SlotsSound` | only the first of two calls waits until the waiting thread has stopped (`sys_evq.c:77`) |
| `Threads_vm_wait` | `VmWaitEnds` | `thread:wait` for a thread of `thread.runvm` sleeps on a condition variable that nobody signals |
| `Threads_collected` | `SavedFromGC` | the end of a VM takes the thread that started it out of the table that is to "save thread to avoid GC" (`sys_thread.c:501`) while it runs (`:222`); with no other reference to the main thread, the collector deletes the VM's lock |
| `Threads`, `RunvmFrom = {a}` | `SavedFromGC` | the end of a VM unlists the thread that started it, whoever that is (`sys_thread.c:222`) |
| `Threads`, `StartFails = {"run"}` or `{"runvm"}` | `NrefExact` | the reference stays when the thread cannot be started (`sys_thread.c:533`) |
| `Threads`, `EarlyWakes` with `a` | `NrefExact`, `EndsInOrder` | `thread:wait` that returns early checks the flags of the other thread, and ends in its place (`sys_thread.c:1097`) |
| `Threads`, `LateCalls = TRUE` | `NrefExact` | `terminate` of a thread that has ended overwrites "killed", and who waits for it ends in its place (`sys_thread.c:1097`) |
| `Threads`, `Interrupts = {a}` | `CallsEnd` | `interrupt` overwrites a pending `terminate` (`sys_thread.c:1040`) |
| `Scheduler`, `Terminates` with `"running"` | `Consistent`, `EventsMatch` | a running task that is terminated and then suspends itself is freed while it is suspended; one that then waits leaves an event without task |
| `Scheduler`, `Terminates` with `"event ready"` | `EventsMatch` | the task is dropped, and its event, already in the ready list, still names it |
| `Scheduler_stop`, without `Lost` in the properties | `TaskTaken`, `StopEnds` (`EvqAttended` compares with `nworkers`, which then counts a worker that is gone, and says nothing) | a worker that is interrupted or terminated in its wait skips `nworkers--` and the hand-over (`thread_sched.c:370`, 443-447), and takes the signal of a stop or a put with it |
| `Scheduler`, `LateTimeout = TRUE`; `Options` with `"once"`; `StopArgs` with `FALSE`; `MaxWorkers = 1`; `OutsideCalls = {"resume"}` | `TaskTaken` | a signal goes to a worker that leaves, or none is sent (`thread_sched.c:371,433,563,658`) |
| `Scheduler`, `LateFail = TRUE` | `TaskTaken` | a wait whose registration fails in the loop is not reported to its task |
| `TimeoutQueue_slots` | `TimeoutKept` | the slot one call reserved is taken by another (`sys_evq.c:312`) |
| `TimeoutQueue_slots`, unlimited `LoopTimeout`, 5 calls, clock up to 2 | `DeadlinesOrdered` | `evq->now` is as old as a wait that calls keep cutting short |
| `TimeoutQueue`, this invariant | `NotQueuedTwice` | an event notified after the wait has timed out is queued twice (`timeout.c:168`) |
| `TimeoutQueue`, `HalfRange = 4` | `DeadlinesOrdered` | the clock wraps around |
| `Streams`, `Partial` with `"add"` or `"close"` | `Conserved` | bytes the stream did not take are dropped (`membuf.c:45-60`, `:326`) |
| `Streams`, `LateError = TRUE` | `Conserved` | a read that fails after a first piece counts −1 bytes (`sys_file.c:686`) |
| `Streams`, `Growable = FALSE` | `Conserved`, `WithinLen` | the last piece is added to the count of a buffer that is full and cannot grow, which passes its end (`sys_mem.c:165`) |
| `Streams`, `AddDuring` with `"read"` or `"close"`, or `Bufio = FALSE` | `Conserved` | what another thread adds meanwhile is overwritten or dropped |
| `Streams`, `AddDuring` with `"line"` | `WholeLines` | a newline that another thread adds is not looked for |
| `Streams`, this invariant | `Intact` | an add that does not fit flushes or moves the buffer under another thread's write, or goes on with a stale offset (`membuf.c:37-60`) |
| `Streams_nil` | `NilAtEnd` | an empty line from the stream is returned as nil (`membuf.c:271`) |
| `Signals_early_exit` | `ChildNoticed` | a child that ends before `add_pid`, or after a one-shot event restored the default action, is never noticed |
| `Signals`, `Anywhere = TRUE` | `Answered` | the handler waits for a lock held by the thread it interrupted (`signal.c:41`) |
| `Signals_nested` | `Answered` | a handler interrupts another one that holds the lock (`signal.c:105`) |
| `Backends_select` | `Interrupted` | `max_fd` is found again without `sig_fd`, so the "pipe to interrupt the loop" (`select.h:14`) is not watched (`select.c:103`) |
| `Backends_shrink` | `InBounds` | poll's arrays are reallocated under the walk (`poll.c:139-146`, pointers of 164-165) |
| `Backends_reopen` | `TableSound` | a pending addition of a closed descriptor takes effect when the number is used again (`kqueue.c:153`) |
| `Backends`, `FD_SETSIZE = 3` | `InBounds` | the descriptor is not compared with `FD_SETSIZE`, only the number of events (`select.c:48`) |
| `Backends`, `Mods = {e4}` | `TableSound` | kqueue keeps the old filter of a socket whose direction was changed (`kqueue.c:153`) |
| `Backends`, `Writes = {}` | `TableSound` | select: two events for one descriptor and direction share a bit (`select.c:98`) |

Cases that no module reaches: `evq:stop(false)` sets every flag but one
(`sys_evq.c:978`); a coroutine callback's event is deleted after its slot may have
been given away (`sys_evq.c:897`); an interrupted thread that was woken passes the
signal to nobody (`sys_evq.c:808`); the status of a `sync` call is a one-bit signed
field (`sys_evq.c:8`); `membuf.c:51` never ends for a buffer of length 0; a pipe's
`close` leaves buffers behind `wbuf` (`thread_pipe.c:176`).

**Bounds.** Two threads per role are enough for every pair of roles to race and,
in the pool and the pipe, for two of a kind to compete for one signal. Three
messages let one be stored, one offered and one on its way. Pipe buffers of three
sizes are the smallest ring that grows in its middle and takes a freed buffer
again; nine puts fill the ring and wrap it, and `UintMod` is twice `MaxSize`, the smallest
value that `pipe_new` allows, so that `buf_size` wraps. `PipeSync` has no bound. Three event slots give two events and
the reserve of `levq_add`, and slots are reused without bound, so event histories
are unbounded. In `TimeoutQueue` five slots hold three events and both lists, five
calls can fill, reset and empty a list, and the clock passes a deadline once and a
second one after recycling. `Scheduler` reuses task ids without bound; two tasks
let one compute while the other waits; `Scheduler_stop` has three workers, which leaves two waiting for tasks beside
the one in the event queue. `Threads` has a VM within a VM's thread at
most, which covers each pair of ends. `Streams` grows a buffer twice and cuts
lines at, before and after the end of a piece. `Signals` delivers one of each
signal and adds an event twice, so the shared list is emptied and refilled.
`Backends` grows poll's arrays and flushes kqueue's list in the middle of a call.
The proofs remove the bounds for the properties they cover.

**Fairness.** `DataPool`: weak fairness of every step of a thread inside the
pool; a thread that can run is scheduled, and callbacks return. `PipeSync`,
`EventLoop`, `Scheduler`, `Threads`, `Signals`: strong fairness of the steps that
need a lock, since a lock that others take and release is not available
continuously, and a mutex does not pass over a waiter for ever; weak fairness of
code that needs none. `PipeSync` also has weak fairness of timeouts and assumes
that spurious wake-ups do not go on for ever. In `EventLoop` one of the idle
threads takes a signal of `wait_tev`, and `epoll_wait` returns once the eventfd is
readable. In `Scheduler` the preempting thread looks again and again, its hook
makes a task yield, and blocking calls return. In `Signals` the kernel delivers
what is pending to some thread. No fairness is assumed of calls, of events, of
`EpollTimesOut`, or of a task that computes.

**Deadlock** is not checked where a program may simply make no more calls
(bounded numbers of puts, calls, bytes or signals; threads that have all ended);
`EventLoop`, `Scheduler` and `Backends` have no bound on calls and are checked.

## 4. Proofs

Everything is proved for arbitrary constants that satisfy the named assumptions
(finite, disjoint sets of threads; sizes that fit an empty buffer; an `Unlimited`
above the number of puts). One assumption is a fact of arithmetic rather than a
condition on the code: `PowersAssumption` of `Streams` (i < 2^i), because the provers
know nothing of powers. A theorem with a condition (`OneController`, `Orderly`) has
the cases of the table above for counterexamples: without the condition the property
is false.

- `DataPool_proofs`. `Base` = `TypeOK` and `HandoffConsistent` is inductive:
  types alone are not, since only the hand-over's consistency says that a writer
  that comes back from `sys_thread_switch` has a message. From it:
  `TypeCorrect`, `HandoffCorrect`. Each step is then classified by how messages
  move (`Flow`), which gives `ConservationCorrect` (a partition of the messages is
  kept) and `PoolRefinement` (each kind of flow is a step of `MessagePool` or a
  stutter). `NwaitsCorrect` counts with the cardinality of the blocked readers.
  `WakeupCorrect` needs the sole reader and no watermark, the conditions of the
  property itself.
- `PipeBuffer_proofs`. `Safe` = `TypeOK` and `CopiesFit` is inductive, once it is
  restated buffer by buffer (`SafeByBuffer`): a size found in memory belongs to a
  message that fits where it stands. This much holds with overruns too (`TypeCorrect`), but
  that `pipe_get` finds a size where it looks does not: `BoundsCorrect` takes from `Tracked`
  below that it does until a put overran the reader, and from the doubling of `buf_size` that
  `malloc` gives enough until it wraps. `SmallerPipes`: it does not wrap when the maximum is
  below 2^31. `RingCorrect` and `FifoCorrect`, with no condition on the constants,
  need to know where every message is, not only the next one: `Numbered` says that the
  messages in the pipe are `Oldest` to `Newest`, in order, and `Tracked` that, while there
  was no overrun, some `f` and `o` place message m whole in buffer `f[m]` at offset `o[m]`
  (`Layout`). Each message lies in the used part of its buffer (`Inside`), older ones before
  newer ones in the order in which a ring is read (`Older`), and each is followed by the
  next: behind it, at the front to which a sentinel points, or at the front of the next
  buffer (`Followed`). The first of them is where `pipe_get` looks, the last ends at
  `end[wbuf]`, and only `rbuf` starts elsewhere than at its front (`Fronts`), which
  is what makes a buffer with begin = end = 0 a free one. One lemma per way to put
  (`PutInPlaceLayout`, `PutWrappedLayout`, `PutInNextLayout`, `PutInNewLayout`) shows that
  the copy touches no message, and extends `f` and `o` by one; `GetLayout` leaves them.
- `PipeSync_proofs`. `Inv` = `TypeOK`, `SleepersFresh` (who sleeps has not timed
  out), `CountsExact`, `NoLostWakeup`. The wake-up argument needs exact counters,
  since a signal is sent only when a counter says so, and `SleepersFresh`, since
  the thread that is woken must look again: `TypeCorrect`, `CountsCorrect`,
  `WakeupCorrect`.

- `EventLoop_proofs`. `LoopCorrect`: `Inv` = `TypeOK`, `Located` (where threads of each
  kind can be, and who holds the VM's lock), `Counted` and `NeverAbandoned`. The counters are restated as cardinalities of sets of threads
  by label, which every step changes by one element; `NeverAbandoned` alone is not
  inductive, since a thread that goes idle must know from `waiting` and `nactives`
  that another will look. No condition on the constants. `SlotsCorrect` under
  `OneController` (one thread that changes the queue from outside, no deletion of
  one-shot events): `SlotInv` adds `Parts` (how the free list, the ready list, the
  slots alive, and those being added or deleted share out the slots) and `Quiet`: while
  a thread waits in `epoll_wait` nothing is ready and no callback runs, and the events
  that it was returned stay alive, which is what `levq_control_wait` is for.
- `Scheduler_proofs`. `CountsCorrect` and `AttendedCorrect` have no condition on the constants (a
  worker that `sys_thread_check` takes away is counted as lost in the first, and excepted in
  the second): `Manned` =
  exact counters, as cardinalities of sets of workers by label (`Counted`), and `Attended`, by
  which a worker that waits leaves another one awake or in the event queue, and once the
  workers are to stop, one that will see it and pass it on.
  `ConsistentCorrect` and `EventsCorrect` hold under `Orderly`, no task is terminated that
  is running or whose event is ready (the rows of the table above): `Tidy` says of
  each task in which of its places it is (`Placed`), that tasks and slots name each other
  (`Linked`), what the pending calls and ready lists of the event queue hold (`Queued`),
  and that a worker's task is its own and not terminated (`Held`). The two properties
  are proved together, for a slot's callback activates the task it names, which is
  in one place afterwards only if it was suspended. The loops over pending calls and ready
  events are recursive functions over the length done (`SyncUpTo`, `HandleUpTo`), and what
  holds after each of their steps is proved with the least step at which it would fail.
- `Threads_proofs`. `NrefCorrect`, `EndsCorrect`, `SavedCorrect` under `Orderly`: VMs are
  started from the main thread, to which a variable of the program refers, starts succeed,
  threads that ended are neither interrupted nor terminated, and no wait for a thread that
  may be terminated wakes before it ends. The last of these excludes time-outs and the
  spurious wake-ups that POSIX permits: with either, `thread:wait` ends the caller in the
  other thread's place (`sys_thread.c:1097`). `Inv` = `TypeOK`,
  `Shape` (which VM a thread belongs to, and which one it refers to, at each label),
  `Counted`, `ClosedLast`, `Flagged`, `Awake`. `Counted` restates
  `nref` as the cardinality of the threads that still need the VM; `Flagged` says
  whose flag can be "terminate", and `Awake` that a waiter is woken by a thread that
  is "killed": together they keep it from ending in that thread's place.
  `SavedCorrect` adds `Saved`: who has left the table of threads has ended, but for the main one.
- `Signals_proofs`. `SignalsNotLost`, `TableCorrect`, with no condition: handlers may be nested,
  on several threads, and inside the library's locks. `NoLostSignal`
  is nearly inductive; the table is not: whether an event is in the shared list depends
  on what its queue's thread is about to do, so `Inv` says so per signal (`ListOK`), per
  event (`EventOK`), per queue (`ThreadOK`, `ReadyOK`). One lemma per helper on lists
  (pushing, popping, removing, joining lists without repetition).
- `Streams_proofs`. `BytesConserved`, `BufferBounded`, `LinesCorrect` under `Orderly`,
  the complement of the rows of the table above: the buffer can grow, no partial
  write in `add` and `close`, no late read error, nobody adds to a buffer that is read
  into or closed, and either the stream takes buffers or it takes everything and nobody adds.
  The first two say nothing of what happens after a clash. `Inv`
  cuts the bytes that came, 1 to `put`, into those that left (`out`), those in the buffer
  and those in flight, each known by its first number (`Counts`, `Holds`), and says for
  each call outside the lock what it still knows of the buffer (`OpOK`): an `add` has
  the right offset, a `flush` asks for no more than is there, a `read` goes on where
  the buffer ends. While a line is read the buffer holds no newline. That doubling
  ends with enough room is `GrownIs`.

Only model-checked, and why:

- all liveness properties: the prover has no fairness and no ENABLED;
- `TimeoutQueue`: its properties follow links, and what a chain of links holds after a
  link was changed is an induction over the chain. The provers cannot use the library's
  induction theorems; the arguments by a least counterexample of `Scheduler_proofs`
  would have to be repeated for each of the five operations on a list;
- `Backends`: its walks over tables of any length are folds that would have to be
  rewritten as recursive functions first.

Worth proving next, in this order: `DeadlinesOrdered` and `ListsSound` of `TimeoutQueue`,
with a ghost sequence per list in place of its chain; `IndexSound` of `Backends`.

## 5. Not modelled

- The encoding of messages in a pipe (`msg_build`, `msg_parse`) and the references
  of pipes: sequential conversions of Lua values; a message is opaque in the
  models.
- `evq:callback`, coroutine callbacks of events and `evq:stop(false)`; directory
  watches (inotify, kqueue's vnodes), which share the path of other descriptors
  once they are registered.
- Typed access to memory buffers, mapped files, and the other calls of files and
  sockets, serial ports, processes, environment, log, random numbers, dates and
  affinity: each wraps one system call and keeps no state beyond a descriptor.
- The Windows backend and services, and the adapters to web servers: another
  system interface, or vendored code.

The layout of Lua tables and stacks, wording of errors and logging are abstracted
everywhere.
