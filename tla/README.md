# A TLA+ verification of XPUShare (nvshare)

XPUShare lets several applications share a GPU. An application runs with
`libnvshare.so` preloaded; the library asks a daemon, `nvshare-scheduler`, for the
GPU lock before it lets GPU work through. The daemon decides who runs: one client
at a time, or several whose memory fits together, each within its compute quota.
`nvsharectl` switches scheduling on and off, and a Kubernetes device plugin hands
out virtual GPUs.

The modules here model the scheduler, the client library and the connections
between them, the compute quota in milliseconds, the kernel window and the memory
limit of the library, the limits that come from pod annotations, the metrics and
the device plugin. TLC checks them on small instances. TLAPS proves the most
important invariants for every instance.

## 1. The system

| Part | Source | State | Operations |
|---|---|---|---|
| Connections | `comm.c`, `comm.h`, `common.c` | one UNIX stream per client, two FIFO directions; scheduler end non-blocking, client end blocking | connect, accept, send, receive, close |
| Scheduler | `scheduler.c` | client list; per GPU `requests`, `running_list`, `wait_queue`, `lock_held`, `running_memory_usage`, `memory_overloaded`, the compute window | one handler per message type, `try_schedule`, `check_wait_queue`, `remove_req`, `delete_client`, the timer thread, SCHED_ON / SCHED_OFF / SET_TQ |
| Client library | `client.c` | `own_lock`, `need_lock`, `did_work`, `scheduler_on`, the waiting threads | `continue_with_lock`, one handler per message type, early release, memory reports |
| CUDA hooks | `hook.c` | allocation list, `sum_allocated`, memory limit, kernel window | gated launches and copies, allocation, `cuMemGetInfo`, adaptive window |
| Annotation watcher | `scheduler.c`, `k8s_api.c` | limits of every client | snapshot, unlocked queries, apply by client id |
| Metrics | `metrics_exporter.c`, `nvml_sampler.c` | a snapshot, a table of samples | HTTP output, periodic sampling |
| Command line | `cli.c` | none | one message per command |
| Device plugin | `kubernetes/device-plugin/*.go` | virtual device ids | register, list, allocate, restart |

How they interact. A client connects, sends REGISTER and receives the scheduling
status. An application thread that wants the GPU and has no lock sends REQ_LOCK
once for the whole process and waits. The scheduler answers LOCK_OK when it admits
the client. The lock comes back with LOCK_RELEASED, either because the
early-release thread finds the client idle, or because DROP_LOCK arrived: the time
quantum ended, the compute quota is used up, or the memory of the running clients
no longer fits. All these messages cross freely.

What makes it hard:

* `try_schedule`, `remove_req` and `delete_client` call each other recursively, and
  deletion schedules *before* it has taken the dead client's requests out.
* A client may die at any point, also between `epoll_wait` and the handling of its
  event. A write to it then fails in the middle of a loop.
* DROP_LOCK, early release and the next LOCK_OK cross on the wire.
* SCHED_OFF clears part of the scheduler's state (`requests`, `lock_held`) and keeps
  the rest (`running_list`, `wait_queue`).
* Admission trusts cached values: the last memory report, `lock_held`, the throttle
  flag of the last window.
* The client tests the lock under its mutex and calls the driver after it.
* The client thread resets the kernel window without the mutex under which
  `cuLaunchKernel` adapts it.
* The annotation watcher queries the API server without the mutex and applies the
  answers later, to clients that may be gone.
* A page of metrics is put together from a snapshot of the scheduler and from
  samples that another thread replaces meanwhile.
* The device plugin restarts whenever the kubelet does, and the kubelet removes the
  plugin's socket when it restarts.

`PROJECT.json` lists these hazards at the line where each bites.

## 2. The modules

| Module | Models | Extends |
|---|---|---|
| `Comm` | the connections | |
| `Scheduler` | `nvshare-scheduler` | `Comm` |
| `Client` | `libnvshare`, one copy per client | `Comm` |
| `System` | both together, fairness, the system-wide properties, the refinement | `Scheduler`, `Client` |
| `LockService` | an exclusive lock per GPU: what SERIAL mode promises | |
| `MCSystem` | instantiation for TLC | `System` |
| `Quota` | the compute quota and the timer thread in milliseconds, one GPU | |
| `MCMillis` | instantiation for TLC | `Quota` |
| `KernelWindow` | `cuLaunchKernel` in several threads, and the handlers of the client that interfere | |
| `HookMemory` | `cuMemAlloc`, `cuMemFree`, `cuMemGetInfo` and the memory limit, per process | |
| `Watcher` | limits from annotations: Kubernetes, registration, the watcher, the clients, their allocations | `HookMemory` |
| `MCWatcher` | instantiation for TLC | `Watcher` |
| `Telemetry` | NVML sampler, metrics exporter, HTTP peers, and the main thread as far as they share its mutex | |
| `MCTelemetry` | instantiation for TLC | `Telemetry` |
| `DevicePlugin` | the device plugin, the kubelet, allocation of virtual GPUs | |
| `SchedulerProofs` | the inductive invariant of the scheduler | `Scheduler` |
| `SystemProofs` | the theorems about the whole system | `System`, `SchedulerProofs` |
| `QuotaProofs` | the inductive invariant and the theorems of `Quota` | `Quota` |
| `KernelProofs` | the inductive invariant and the theorems of `KernelWindow` | `KernelWindow` |
| `WatcherProofs` | the inductive invariant of `Watcher` and the theorem about pods | `Watcher` |
| `TelemetryProofs` | the two locks and the names of devices | `Telemetry` |
| `DevicePluginProofs` | registration, exposure of GPUs, preference | `DevicePlugin` |

**Comm.** `toSched[c]` and `toClient[c]` are the two streams of client `c`; a
message is atomic because both sides read and write whole `struct message`s. A send
by the scheduler is lost when the peer is gone or the buffer is full (`SOCK_BUF`). A
send by a client waits for room (`MAX_UNREAD`).

**Scheduler.** Every handler runs under `global_mutex`, so handlers do not
interleave with each other, but they nest. The variable `stack` is the call stack
of the thread that holds the mutex, innermost call first. A frame stands for a
function at the point where it continues:

| Frame | Continues at |
|---|---|
| `try_schedule` | the label `try_again` |
| `check_wait_queue` | its loop |
| `purge` | the last part of `remove_req`, which deletes the client's requests |
| `free` | the last part of `delete_client` |
| `retry`, `retry_if_on` | `if (!ctx->lock_held) try_schedule(ctx)` in the callers |
| `bcast_status` | the next iteration of the broadcast, with the saved next client |
| `clear_requests` | the rest of SCHED_OFF |

An iteration of a loop is one step. Other threads of the scheduler need the mutex,
so nothing of the scheduler happens between two steps of a handler; clients do go
on. `batch` and `locked` are the events that `epoll_wait` has returned and that
`main` has still to handle.

Time is abstract here. A compute window is expired or not, and a quota-limited
client has exhausted its share or not. Where the code adds up milliseconds, the
model chooses: the clients whose usage is settled may or may not turn out to have
used up their quota. `TQ_FIRES` says whether the time quantum fits in the compute
window, since the timer thread never sleeps longer than that and preempts only
after a sleep of a full quantum. With the default configuration it does not fit (2 s
against at least 10 s); `NVSHARE_COMPUTE_WINDOW_MS` may raise the window to 20 s, and
then it can.

`Accept` gives a new record arbitrary values in the fields that `malloc` leaves
unassigned (`GarbageMem`, `GarbageRunning`). A write to a closed socket raises
SIGPIPE, which nothing handles; `SIGPIPE_FATAL` says whether the process dies of it
(the default disposition) or sees EPIPE.

**Client.** `threads[c][t]` says where an application thread is: at the gate (outside,
or at the test in `continue_with_lock`), waiting, or past the test and not yet in
the driver. `lib[c]` holds the globals. DROP_LOCK is two steps, since the client
thread synchronises with the GPU before it answers, mutex held. The early-release
thread is `ReleaseEarly`. Its flag `did_work` restarts its interval; since the model
does not say how long an interval is, that is a delay and needs no state.

**System.** A step is a step of the scheduler or of one client. When the scheduler
process has ended, its clients end too (`true_or_exit` on the end of the stream).

**LockService** is what a user of SERIAL mode may rely on: clients join a GPU and
leave it, ask for its lock, and get it only when nobody else has it. `System`
instantiates it (`Service`) and states `ImplementsService`: every step of scheduler,
connections and clients is a step of the service or invisible to it.

**Quota.** What `Scheduler` leaves to choice is added up here: `account[c]` has the
quota fields of `struct nvshare_client`, and every timestamp of the code is kept as
its distance to now, so `Tick` is the only action that moves time. `Request` and
`Release` are REQ_LOCK and LOCK_RELEASED, with the settlement of everybody's usage
and the window reset that they cause. `timer_thr_fn` is one round of the timer loop,
from a wake-up to the next sleep: throttling, preemption, window reset, and the sleep
computed with the window, the sample interval, the quotas and the switch time. A
broadcast ends a sleep unless it had timed out already. Memory refuses nobody here
and limits do not change, so the queues are one set of waiting clients. The code also
bills clients without a limit when they release; nothing reads that bill while limits
are fixed, so their accounts stay 0 here. A fixed switch time is the case
`MIN_SWITCH_MS = MAX_SWITCH_MS`.

**KernelWindow.** One process. `pc[t]` says where a thread is in `cuLaunchKernel`:
outside, past `continue_with_lock`, submitted and not yet counted, in the
synchronisation that ends a window, or about to store the adapted window; the last two
with `kcount_mutex`. The adapted window is computed in one step (`Synchronized`) and
stored in another (`Store`), since the client thread and the early-release thread
write `pending_kernel_window` without that mutex. How long a synchronisation takes is
a choice of three (`short`, `mild`, `critical`); the duration matters only through the
thresholds. The floor is any number, as `atoi` returns it. The GPU is the number of
pending kernels, and `awaited` how many of them each of the two possible
synchronisations still waits for. The synchronisations of the client hold its
`global_mutex`, so no thread passes `continue_with_lock` meanwhile.

**HookMemory.** In each process one application thread allocates and frees while the
client thread changes the limit. `cuMemAlloc` is three steps (the query at the first
call, the two checks, the driver call with the bookkeeping), since the limit may
change between them. The allocation list is a sequence of sizes; a pointer is a place
in it. Sizes are a number and a suffix, which the library and the
scheduler read differently (`parse_memory_size`, `k8s_parse_memory_size`).

**Watcher.** `annotations` are what users write, `applied` the copy that `kubectl`
keeps inside the pod object with escaped quotes, which `extract_json_string` has to
skip. `register_client` queries twice with the mutex held (`RegisterCore`,
`RegisterMemory`; `registering` is the mutex). The watcher's round is `Snapshot`, then
`QueryMemory`, `QueryCore` and `Update` for each entry. `rec[c].told` and
`rec[c].lost` are history: whether a memory limit was sent, and whether a send failed.
A new record has arbitrary values in `pod_name` and in both limits (`GarbagePods`,
`GarbageLimits`, `GarbageCores`). `Receive` is the initial status and, once it has
arrived, the two updates of the client's loop. A query may fail (`MAX_FAILURES`),
which looks like a missing annotation.

**Telemetry.** The handlers of the main thread are reduced to a state that changes
while `global_mutex` is held. The sampler works on `local_snaps` and copies it device
by device under the write lock. The exporter accepts one connection at a time, reads,
copies the snapshot in two steps under the mutex, formats the devices under the read
lock, the rest after it, and writes. A line is what it is about (`kind`, `of`) and
which state or sample its value comes from (`from`), which is all that the properties
need; lines of different kinds have different lengths (`LINE`). `full` is the page
without the bound of the buffer.

**DevicePlugin.** `pc` is where `main` is in its restart loop; `goroutine` is the one
`Serve` starts, and `doomed` says that an earlier one is about to use `m.server` after
`cleanup` has set it to nil. `orphan` says that one was left serving by a failing
self-dial: it may fail later, take the socket of the next server with it and panic.
`sock` and `endpoint` tell the current server from one
that a failed start left behind. `Loads` and `Preferred` allow every order that the
iteration over Go maps can give. The DaemonSet boots the process again when it ends.

## 3. What the runs check

| Run | Configuration | Properties |
|---|---|---|
| `serial` | SERIAL mode, time quanta, one crash | `GrantConserved`, `WorkConserving`, `SerialOneRunner`, `ImplementsService` |
| `control` | two commands of `nvsharectl`, one crash | `StatusAgrees`, `LockHeldMeansRunning` |
| `auto` | AUTO mode, memory reports of 1 and 3 units on a GPU of 2 | `TypeOK`, `MemoryAccounted`, `SharedWithinLimit`, `OverloadIsSerial` |
| `quota` | AUTO mode, two limited clients, carry-over, one crash, fatal SIGPIPE | `RequestConserved`, `WorkConserving`, `DropOutstanding`, `QueuedOnce`, `BacklogBounded` |
| `live` | fair; an unlimited and a limited client, time quanta | `LockEventuallyGranted` |
| `millis` | fair; limits of 50%, 75% and none, carry-over, late timer | `TypeOK`, `SleepWithinWindow`, `OvershootBounded`, `BilledOnce`, `EventuallyRuns` |
| `kernel` | fair; two threads, limits of 4, 8 and 100 | `TypeOK`, `PendingBounded`, `LaunchReturns`, `CapReached` |
| `watcher` | fair; two pods, one client each, one edit, one failing query | `LimitsAgree`, `OwnPod`, `CoreFollows`, `MemoryEnforced` |
| `plugin` | fair; kubelet restarts, signals, failing calls, two GPUs | `IdleServed`, `SharersBounded`, `LeastLoadedFirst`, `EventuallyServed`, `TermEnds` |
| `telemetry` | fair; two devices, two connections, a buffer that is too small | `OneState`, `WholeSample`, `PageIsPrefix`, `NameKept`, `MainProceeds`, `EventuallyAnswered` |

These properties hold. Two more runs show where the code does something else
than its comments or documents say:

* `dead_client`: a client dies between its REGISTER and the answer. The write of the
  initial status raises SIGPIPE, which has its default disposition, and the scheduler
  ends; `send_message` means to drop the one client ("consider the client dead",
  EPIPE among the "Recoverable errors").
* `off_on`: after SCHED_OFF and SCHED_ON a client that ran before is still in
  `running_list`, so `lock_held` stays set when the last real holder has released.

**Bounds.** Two clients and one GPU: GPUs do not interact except through the
broadcast and the event batch, and every crossing of messages involves one client
and the scheduler, or two clients that compete. `STACK_LIMIT` is a call depth that
no terminating handler reaches with two clients. `MAX_UNREAD` is 2 in `serial`, so
that LOCK_RELEASED and the next REQ_LOCK are both unread, and 1 elsewhere: a client
writes to one FIFO stream, so a shorter queue only delays its next step.
`MAX_EXITS`, `MAX_CTL` and `MAX_REPORTS` bound crashes, commands and memory reports.
`BacklogBounded` is checked where windows, throttling and queue notices make the
scheduler talk most (`quota`), and its bound of five messages is far below a socket
buffer. `LockEventuallyGranted` is checked for clients that do not crash and before any
SCHED_OFF: afterwards it is false (section 6).
Memory sizes 1 and 3 with a limit of 2 give clients that fit alone, fit never, and
fit together or not. Clients are symmetric in the runs that use symmetry; the live
run uses none. AUTO and CONCURRENT have the same reachable states: they differ only
when nobody holds the lock and the memory in use is not zero. `NVML_OK` is `FALSE` in
every run: early release then decides by how long the last synchronisation took.

In `millis` a window lasts 6 ms, so a share of 50% or 75%, scaled down by 125%, is 2
or 3 ms. The other times keep the order they have in the code where it matters: a
sample is shorter than a window, and a sleep that is rounded up is shorter than a
sample. The switch time fits in the window for small memory and not for large, so
that both happen. `LATENCY` bounds how late the timer thread wakes up, `MAX_TAIL` how
long a client takes from DROP_LOCK to LOCK_RELEASED. Shares and runs do not divide
evenly, so the integer divisions of the code truncate.

In `kernel` the largest window is 6, a limited client's 2 or 4, the floor 3 and the
start 5, in the order of 2048, 16 to 32, 4 and 64 as far as it matters, except that
the floor lies between the two caps, so that a limited client ends at its cap or at
the floor. A backoff ends above the cap, at it and below it, and the reset to 1 lies
below the floor. One forgiven timeout (3 in the code) is enough for both branches of a
critical timeout. Two threads give one that synchronises and one that queues; theorem
`PendingCorrect` has any number, and any floor.

In `watcher` one pod has a memory limit and the other a compute limit, so a limit tells
where it came from. One annotation may be edited and one query may fail. The library
starts with a limit from its environment that both parsers read differently; two
allocations together fit in it and not in the annotated limit, so the sum is what
decides. The record of one client starts with garbage: the name of the other pod, and
a memory limit that is also the annotated one, which hides a change from the watcher.
`SOCK_BUF` of 3 holds the status and both updates, so sends fail only when more piles
up.

In `plugin` two GPUs have two virtual devices each and containers take one or two,
enough for loads to differ and for an allocation to spread over both. One restart of
the kubelet, one signal and one failing call come at any point; after one failure
the goroutine of `Serve` runs through all its restarts by itself. GPUs are exposed as
mounts; the other way is the same up to `Exposed`.

In `telemetry` a page has up to eight lines of lengths 1 to 3 and the buffer is
shorter than the longest page, so pages are cut in different sections, in the middle
of a line or between two. One handler may change the scheduler, two samples are taken,
and one thing fails: NVML, its function for names, a handle, a name, the listening
socket, or a peer that stalls or closes. One connection asks for the metrics or for an
unknown path, the other for the health check. The client has a process id; the proofs
allow clients without (`Pidless`).

**Deadlock** is checked except in two cases. Where a client may exit, the system
really stops when nobody is left. In `telemetry` the scheduler may be ended by
SIGPIPE, and the bounded handlers, samples and requests are used up.

**Fairness** (`FairSpec`) assumes only what the threads guarantee. The thread that
holds the mutex goes on, and a window does not keep expiring under one handler
(windows are at least 500 ms). `main` gets the mutex some time after it asks for it,
and `epoll` is level-triggered, so an unread message is reported again. The timer
thread gets the mutex some time after a window or a quantum ends. Client threads read
their sockets and submitted GPU work ends. Nothing is assumed of the applications:
they may never submit, never go idle and never exit. In `Quota` time passes, the timer
thread runs, and limited clients that were told to drop the lock do. In `KernelWindow`
a thread inside `cuLaunchKernel` goes on, gets `kcount_mutex` some time after it asks
for it, and kernels finish; the client's threads need not do anything. In `Watcher` a
registration ends, the watcher runs and the clients read; users, applications and the
API server owe nothing. In `DevicePlugin` the goroutines run, but no accept has to
fail, the kubelet comes back and the DaemonSet restarts the container; Go's `select`
chooses at random among the cases that are ready, so a pending signal is taken in the
end, which is strong fairness because main leaves the select in between. In
`Telemetry` the threads run; that peers send and read is a premise of
`EventuallyAnswered` and of nothing else.

## 4. What is proved

`SystemProofs` proves, for any number of clients, GPUs and threads, any mode, any
memory sizes, any socket buffer, any stack depth and any number of crashes,
commands and reports:

| Theorem | Statement |
|---|---|
| `TypeCorrect` | `Spec => []TypeOK` |
| `LockHeldCorrect` | `Spec => []LockHeldMeansRunning` |
| `SerialCorrect` | `Spec => []SerialOneRunner` |
| `Invariance` | `Spec => []SystemInv`, from which the others follow |

The assumptions are `CommAssumption`, `SchedulerAssumption` and `ClientAssumption`:
the types of the constants, and that the null pointer is no GPU and no client.

`SerialOneRunner` alone is not inductive. A grant happens when `lock_held` is clear,
so one needs that `lock_held` is set whenever somebody runs. That is false after
SCHED_OFF, so the invariant is conditional on `ctl = 0`, and then needs that no
`clear_requests` frame is on the stack before the first command. A message handler
dereferences the context of a registered client, so one also needs that a registered
client has one. `SchedInv` collects these:

* the types (`CommTypeOK`, `SchedTypeOK`);
* `GoodRecords`: a registered client has a context;
* `ContextOK`: `lock_held` implies a nonempty `running_list`; before the first
  command the converse too, and in SERIAL mode at most one entry;
* `HandlerFrames`: no `clear_requests` before the first command.

`SchedulerProofs` has one lemma per action of the scheduler; `remove_req`, the only
operator that shortens `running_list`, has a lemma of its own. `SystemProofs` adds
the client's actions, which leave the scheduler's variables alone, and concludes
with the temporal step.

`QuotaProofs` proves, for any finite set of clients and any limits and times:

| Theorem | Statement |
|---|---|
| `QuotaTypes` | `Spec => []TypeOK`: no billed time and no debt gets negative |
| `SleepCorrect` | `Spec => []SleepWithinWindow` |
| `NoQuantum` | if the window is shorter than the shortest switch time, nobody is ever preempted for a time quantum |
| `QuotaInvariance` | `Spec => []QuotaInv`, from which the others follow |

The assumptions are `QuotaAssumption` (limits of 1 to 100, the ranges that
`init_config` enforces, and that the constants are natural numbers) and
`TotalAssumption`: the sum of the limits is positive. That is evident, but a sum over
a set is defined by recursion, so it is assumed; TLC evaluates it in every run. The
invariant joins the types, `SleepWithinWindow` and `QuantumFits` (a sleep of a full
quantum fits in the window). The first needs that quotas and divisors are positive
numbers, the second that a sleep is a minimum that includes the rest of the window,
also after rounding.

`KernelProofs` proves, for any finite set of threads, any limits and any window
constants:

| Theorem | Statement |
|---|---|
| `KernelTypes` | `Spec => []TypeOK`: the window stays in `Windows`, from 1 (0 when the floor is below 1) to `WindowMax`, the larger of `KERN_SYNC_WINDOW_MAX` and the floor |
| `PendingCorrect` | `Spec => []PendingBounded`: at most `WindowMax` kernels and one per other thread are pending |
| `KernelInvariance` | `Spec => []KernInv`, from which the others follow |

The assumption is `KernelWindowAssumption`: limits of 1 to 100, a start and caps between
1 and the largest window, and a floor whose double is an `int`; `hook.c` checks nothing
of the floor. `PendingBounded` says nothing of who
counted a kernel, so it is not inductive. `PendingInv` says where each pending kernel
is: between synchronisations it is counted in `kern_since_sync` or belongs to a thread
that waits for `kcount_mutex`; during one it is awaited or belongs to such a thread;
after one only the latter are left. It also needs that one thread at most
synchronises, and that the count is below the largest window when none does.

`WatcherProofs` proves, for any number of clients and pods, any annotations, any
contents of new records, any socket buffer and any number of edits and failures:

| Theorem | Statement |
|---|---|
| `OwnPodCorrect` | `Spec => []OwnPod`: a running client has limits of its own pod only |

The assumption is `WatcherAssumption`: every client has a pod, manifests ask for
limits of their own pod, and neither NULL nor the id of an unregistered client is a
client. `OwnPod` is about limits that have been adopted, so `WatcherInv` follows them
back to the annotation: through the messages under way (`ClientInv`), the strings that
the watcher holds between its queries and its update (`WatchInv`), the records
(`ListInv`) and the pods (`PodsInv`). Two cases need more than that. A record that is
not registered yet may hold a pod name that is not its own, and what the watcher then
sends is not the client's; the invariant says that such a message is the first that
the client reads, and ends it (`Fatal`). An id that is in the snapshot may be gone
from the list or stand at another place when the update comes; the update looks it up
by id, and an id belongs to one pod.

`DevicePluginProofs` proves, for any finite set of GPUs, any number of virtual devices
and containers, and any number of restarts, signals and failures:

| Theorem | Statement |
|---|---|
| `IdleCorrect` | `Spec => []IdleServed` |
| `SharersCorrect` | `Spec => []SharersBounded`, for both ways of exposing GPUs |
| `LeastLoadedCorrect` | `Spec => LeastLoadedFirst` |

The assumption is `PluginAssumption`: finitely many GPUs, a number of virtual devices,
and a name of the mount directory that is no list of GPUs. `ServedInv` adds to
`IdleServed` that from the self-dial on the goroutine serves or will restart. Both
except the moment before a panic, when the process is about to end.
`AllocInv` says that no virtual device is in two containers and that a container sees
the GPUs of its devices; `SharersCorrect` then counts, since every container that sees
a GPU has a virtual device of its own on it. `LeastLoadedFirst` is an action property
of the answer of `GetPreferredAllocation`, proved from the way the answer is sorted.

`TelemetryProofs` proves, for any number of devices, clients, contexts and
connections:

| Theorem | Statement |
|---|---|
| `NameCorrect` | `Spec => NameKept` |
| `SnapshotWhole` | clients and contexts of a page are copied from one state |
| `DevicesStable` | no sample is replaced while the exporter goes through the devices |

The assumption is `TelemetryAssumption`: there is a device, and NULL is no holder of a
lock. `MetricsInv` says at which steps each of the two locks is held, and that a
replacement under way keeps the names that are known. The last two theorems are what
`OneState` and `WholeSample` rest on.

## 5. What is only model-checked

Liveness (`LockEventuallyGranted`, `EventuallyRuns`, `LaunchReturns`, `CapReached`,
`CoreFollows`, `MemoryEnforced`, `EventuallyServed`, `TermEnds`, `MainProceeds`,
`EventuallyAnswered`) needs fairness, which the proof system does not handle. The
properties that count messages and entries (`GrantConserved`, `RequestConserved`,
`MemoryAccounted`, `BacklogBounded`, `DropOutstanding`, `QueuedOnce`), the refinement
`ImplementsService`, and `WorkConserving`, `SharedWithinLimit`, `OverloadIsSerial`,
`StatusAgrees` and `LimitsAgree` are checked by TLC. `OvershootBounded` and
`BilledOnce` depend on how the sample interval, the latency and the tail compare.
`PageIsPrefix`, `OneState` and `WholeSample` are about a page that is built by a fold
over its lines, and what a fold computes takes induction, which the provers cannot do;
`TelemetryProofs` has the locking that they depend on.

## 6. Behaviour seen while modelling, without a run of its own

Scheduler and clients:

* SIGPIPE keeps its default disposition, so the first write to a client that has
  just died ends the scheduler (`scheduler.c:794`, run `dead_client`); `quota` runs in
  that setting, `serial` and `control` assume that SIGPIPE is ignored.
* With SIGPIPE ignored, a client that dies while its request is the head of the queue
  of an idle GPU brings the scheduler down too: LOCK_OK to it fails
  (`scheduler.c:1041`), `delete_client` calls `remove_req`, which calls `try_schedule`
  before it removes the request, and the recursion ends with the C stack (status
  `stack_overflow`). An event of a client that the same batch freed is handled as if
  the client were there (`scheduler.c:1819`, status `freed_client`).
* With SIGPIPE ignored, a client that dies while it registers raises the scaled quotas
  of the others when its record goes, and nobody looks at the queues before the next
  event: for that time `WorkConserving` fails. The other properties of `quota` hold in
  that setting as well.
* Between the test in `continue_with_lock` (`client.c:128`) and the driver call the
  lock can be released, so a copy can reach the GPU without it, against "we must
  block them as well when the client doesn't have the GPU lock" (`hook.c:1090`).
* With the default window and switch time the preemption branch is dead
  (`scheduler.c:1268`, theorem `NoQuantum`), and a client that never idles keeps the
  GPU. `README.md:7` of the repository promises a time quantum.
* A process stores at its first allocation how much it may allocate, and with a
  memory limit that is the limit of that moment (`hook.c:846`). When the limit is
  raised later, allocations within the new limit are refused;
  `docs/verify/verify_dynamic_memory_limit.md:130` says a raised limit "immediately
  allows larger allocations".
* After SCHED_OFF and SCHED_ON, SERIAL mode can run two clients. Also, SCHED_OFF
  keeps `wait_queue`, so a client that asks again is in `requests` and in `wait_queue`;
  `move_to_wait_queue` then returns without moving it (`scheduler.c:613-615`), and
  `try_schedule` meets the same head for ever, mutex held. So not every handler ends,
  and `QueuedOnce` is stated for the time before the first SCHED_OFF.
* The timer thread throttles quota-limited clients while scheduling is off, and the
  clients then give up a lock that the status has given to everybody.
* A client that has allocated but not yet reported counts as 0 in admission.
* With many limited clients a scaled quota can round to 0 ms; such a client never
  runs (`scheduler.c:917`). `millis` uses shares of at least 1 ms.
* Each settlement truncates a division, so frequent settlements bill less than the
  time used.
* When the watcher limits a client that runs without a limit, the time since its
  grant counts against the current window at once.
* From DROP_LOCK to LOCK_RELEASED a throttled client is still in `running_list`, over
  its quota, so every sleep of the timer thread is 0 and it loops
  (`scheduler.c:1179`, against "Avoid busy loop" at 1207).
* With a memory limit larger than the GPU, what may be allocated is the limit, and
  the check against the physical memory never refuses (`hook.c:846`, `hook.c:862`).
* A timeout at a window of 1 "backs off" up to the floor, and the count of
  consecutive timeouts survives a warm-up (`hook.c:1032-1058`).
* `NVSHARE_KERN_WINDOW_MIN_FLOOR` is taken as it is (`hook.c:525`). With a floor of 0 a
  window of 1 backs off to 0 and every launch synchronises until the next reset; a floor
  above the largest window becomes the window.
* A MEM_UPDATE that could not be sent is not repeated; the scheduler keeps the old
  value until the next allocation or release.

Limits from annotations:

* Removing the memory annotation leaves the limit as it is (`scheduler.c:1399`).
* A failing query resets the compute limit to 100 until the next round.
* An update that could not be sent is not repeated, and the scheduler goes on with a
  limit that the client does not have (`scheduler.c:1406`, `scheduler.c:1422`).
* The initial status goes out before the memory annotation is read, so an
  application may allocate before its limit arrives, in spite of "to prevent race
  condition" (`scheduler.c:751`).
* A garbage `memory_limit` that equals the annotated one hides the annotation when the
  query at registration failed: the watcher sees no change and the client is never
  told its limit (`scheduler.c:1401`). `MemoryEnforced` is stated for clients that have
  been told a limit, and excepts those that a message was lost to.
* A record with garbage in `pod_name` can make the watcher send an update before the
  status, and the client ends on it (`client.c:352`). `OwnPod` and `LimitsAgree` hold
  all the same.
* `register_client` waits for the API server with `global_mutex` held.
* The two parsers of sizes disagree: "1K" is a limit for the library and none for the
  scheduler.

Metrics:

* Writing to a peer that has closed raises SIGPIPE in the scheduler
  (`metrics_exporter.c:654`).
* One silent connection keeps every scrape waiting (`metrics_exporter.c:686`).
* A name that could not be read is kept as "Unknown" for ever, although
  `nvml_sampler.c:188` says "cached after first successful read". `NameKept` is about
  names that were read.
* A page may show devices of one sample and client memory of the next.

Device plugin:

* The signal channel holds one signal, so a SIGTERM that arrives after an unread
  SIGHUP is dropped (`watchers.go:45`).
* `cleanup` after a failing self-dial leaves the server running, and can make the
  goroutine of `Serve` use a nil server (`server.go:85`, `server.go:131`). A goroutine
  that was serving goes on; when its accept fails later, closing its listener unlinks
  the socket of the server that runs by then, and it panics. The restarted container
  registers anew (`EventuallyServed`).

## 7. Not modelled

* Concurrent memory calls of several application threads, which race on
  `sum_allocated` and on the allocation list (`hook.c:352`, `hook.c:370`), and the walk
  of the client thread over that list (`hook.c:456`). These are data races; the code
  promises nothing that could be checked.
* Changes of a compute limit in the middle of a window: `Watcher` changes limits and
  has no clock, `Quota` has the clock and fixed limits.
* Bills of clients without a compute limit (`scheduler.c:447`), which matter only when
  a limit comes in the middle of a window.
* SET_TQ, which writes a variable that nothing but a log line reads.
* The HTTP request and the token file of `k8s_api.c`, the characters of JSON and of
  the metrics page, the event counters, memory advice around lock changes.
* In the device plugin, a socket file that cannot be removed, and concurrent calls of
  `GetPreferredAllocation`.
* Symbol lookup (`hook.c`, `cuda_defs.h`), option parsing (`cli.c`, `xopt.c`) and
  vendored code (`snprintf.c`, `utlist.h`) hold no state that the properties depend on.
