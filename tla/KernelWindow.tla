---------------------------- MODULE KernelWindow ----------------------------
(***************************************************************************)
(* The rate control of kernel launches in libnvshare (cuLaunchKernel in    *)
(* src/hook.c): after a window of launches the calling thread synchronises *)
(* with the GPU and adapts the window to the time that took.               *)
(*                                                                         *)
(* kcount_mutex guards the counters against other launches.  The client    *)
(* thread and the early-release thread (src/client.c) write                *)
(* pending_kernel_window and client_core_limit without it.                 *)
(***************************************************************************)
EXTENDS Integers, FiniteSets, FiniteSetsExt

CONSTANTS
  Threads,               \* the application's threads
  CoreLimits,            \* the compute limits the scheduler can send
  KERN_SYNC_WINDOW_MAX,  \* 2048
  KERN_WINDOW_MIN_FLOOR, \* kern_window_min_floor, 4 or what the environment says
  WINDOW_START,          \* the window of a new process, 64
  INT_MAX,               \* 2147483647
  LIMITED_MIN,           \* the clamp of a limited client's window: 16 ...
  LIMITED_MAX,           \* ... to 32
  ABUSE                  \* critical timeouts in a row that are forgiven, 3

(* The floor is whatever atoi makes of the environment variable, up to where *)
(* doubling the window would overflow an int.                               *)
ASSUME KernelWindowAssumption ==
  /\ IsFiniteSet(Threads)
  /\ CoreLimits \subseteq 1..100 /\ 100 \in CoreLimits
  /\ KERN_SYNC_WINDOW_MAX \in Nat
  /\ INT_MAX \in Nat
  /\ KERN_WINDOW_MIN_FLOOR \in Int /\ 2 * KERN_WINDOW_MIN_FLOOR <= INT_MAX
  /\ WINDOW_START \in 1..KERN_SYNC_WINDOW_MAX
  /\ LIMITED_MIN \in 1..KERN_SYNC_WINDOW_MAX
  /\ LIMITED_MAX \in LIMITED_MIN..KERN_SYNC_WINDOW_MAX
  /\ ABUSE \in Nat

VARIABLES
  own_lock, scheduler_on, client_core_limit,  \* the globals of client.c
  syncing,   \* why the holder of the client's global_mutex synchronises
  warmup,    \* the 30 s that start with the first LOCK_OK
  pc,        \* where each thread is in cuLaunchKernel
  kern_since_sync, pending_kernel_window,
  consecutive_timeout_count,  \* not counted further than ABUSE + 1
  adapted,   \* the window that cuLaunchKernel is about to store
  gpu,       \* kernels submitted and not finished
  awaited    \* kernels of these that each synchronisation waits for

clientVars == <<own_lock, scheduler_on, client_core_limit, syncing, warmup>>
countVars == <<kern_since_sync, consecutive_timeout_count, adapted>>
gpuVars == <<gpu, awaited>>
kernVars == <<clientVars, pc, pending_kernel_window, countVars, gpuVars>>

(* "past": continue_with_lock has returned; "submitted": about to lock      *)
(* kcount_mutex; in "sync" and "store" the thread has it.                   *)
PcStates == {"out", "past", "submitted", "sync", "store"}

At(label) == {t \in Threads : pc[t] = label}

-----------------------------------------------------------------------------
(* The window.                                                              *)

get_kernel_window_max ==
  IF client_core_limit >= 100 THEN KERN_SYNC_WINDOW_MAX
  ELSE Min({LIMITED_MAX, Max({LIMITED_MIN, client_core_limit \div 2})})

Durations == {"short", "mild", "critical"}

(* Mutants: growth is not capped; no backoff.                               *)
GrownUncapped == pending_kernel_window * 2
NoBackoff(numerator, denominator) ==
  Max({KERN_WINDOW_MIN_FLOOR, pending_kernel_window})

Grown == Min({pending_kernel_window * 2, get_kernel_window_max})

BackedOff(numerator, denominator) ==
  Max({KERN_WINDOW_MIN_FLOOR,
       (pending_kernel_window * numerator) \div denominator})

Timeouts(duration) ==
  IF duration # "critical" THEN 0
  ELSE IF warmup = "on" THEN consecutive_timeout_count
  ELSE Min({ABUSE + 1, consecutive_timeout_count + 1})

(* What the window becomes after a synchronisation of that duration.        *)
Adapted(duration) ==
  IF duration = "short" \/ warmup = "on" THEN Grown
  ELSE IF duration = "mild" THEN BackedOff(4, 5)
  ELSE IF consecutive_timeout_count + 1 > ABUSE THEN 1
  ELSE BackedOff(1, 2)

-----------------------------------------------------------------------------
(* cuLaunchKernel, in thread t.                                             *)

Goto(t, label) == pc' = [pc EXCEPT ![t] = label]

(* The test in continue_with_lock passes.                                   *)
Enter(t) ==
  /\ pc[t] = "out" /\ own_lock /\ syncing = "no"
  /\ Goto(t, "past")
  /\ UNCHANGED <<clientVars, pending_kernel_window, countVars, gpuVars>>

(* real_cuLaunchKernel; its failure is reported and the launch is counted   *)
(* all the same.                                                            *)
Submit(t) ==
  /\ pc[t] = "past"
  /\ gpu' \in {gpu, gpu + 1}
  /\ Goto(t, "submitted")
  /\ UNCHANGED <<clientVars, pending_kernel_window, countVars, awaited>>

(* Mutant: the window is exceeded by one.                                   *)
CountLate(t) ==
  /\ pc[t] = "submitted" /\ At("sync") \cup At("store") = {}
  /\ kern_since_sync' = kern_since_sync + 1
  /\ IF kern_since_sync >= pending_kernel_window
     THEN Goto(t, "sync") /\ awaited' = [awaited EXCEPT !.launch = gpu]
     ELSE Goto(t, "out") /\ UNCHANGED awaited
  /\ UNCHANGED <<clientVars, pending_kernel_window, consecutive_timeout_count,
                 adapted, gpu>>

(* With kcount_mutex: the launch is counted, and when the window is full    *)
(* the thread calls real_cuCtxSynchronize.                                  *)
Count(t) ==
  /\ pc[t] = "submitted" /\ At("sync") \cup At("store") = {}
  /\ kern_since_sync' = kern_since_sync + 1
  /\ IF kern_since_sync + 1 >= pending_kernel_window
     THEN Goto(t, "sync") /\ awaited' = [awaited EXCEPT !.launch = gpu]
     ELSE Goto(t, "out") /\ UNCHANGED awaited
  /\ UNCHANGED <<clientVars, pending_kernel_window, consecutive_timeout_count,
                 adapted, gpu>>

(* The GPU has done what was submitted before; the new window is computed.  *)
Synchronized(t) ==
  /\ pc[t] = "sync" /\ awaited.launch = 0
  /\ \E duration \in Durations :
       /\ consecutive_timeout_count' = Timeouts(duration)
       /\ adapted' = Adapted(duration)
  /\ Goto(t, "store")
  /\ UNCHANGED <<clientVars, pending_kernel_window, kern_since_sync, gpuVars>>

(* Mutant: a window of 1 returns without unlocking kcount_mutex.            *)
StoreLocked(t) ==
  /\ pc[t] = "store"
  /\ pending_kernel_window' = adapted
  /\ kern_since_sync' = 0
  /\ Goto(t, IF adapted = 1 THEN "store" ELSE "out")
  /\ UNCHANGED <<clientVars, consecutive_timeout_count, adapted, gpuVars>>

(* It is stored, over whatever another thread wrote meanwhile, and the      *)
(* mutex unlocked.                                                          *)
Store(t) ==
  /\ pc[t] = "store"
  /\ pending_kernel_window' = adapted
  /\ kern_since_sync' = 0 /\ adapted' = 1
  /\ Goto(t, "out")
  /\ UNCHANGED <<clientVars, consecutive_timeout_count, gpuVars>>

-----------------------------------------------------------------------------
(* The client thread and the early-release thread, which share              *)
(* global_mutex.                                                            *)

Handler == syncing = "no" /\ UNCHANGED <<pc, countVars, gpu>>

Keeps == UNCHANGED <<pending_kernel_window, awaited, syncing>>

LockOk ==
  /\ Handler /\ Keeps /\ scheduler_on /\ ~own_lock
  /\ own_lock' = TRUE
  /\ warmup' = IF warmup = "not yet" THEN "on" ELSE warmup
  /\ UNCHANGED <<scheduler_on, client_core_limit>>

SchedOff ==
  /\ Handler /\ Keeps /\ scheduler_on
  /\ scheduler_on' = FALSE /\ own_lock' = TRUE
  /\ UNCHANGED <<client_core_limit, warmup>>

SchedOn ==
  /\ Handler /\ Keeps /\ ~scheduler_on
  /\ scheduler_on' = TRUE /\ own_lock' = FALSE
  /\ UNCHANGED <<client_core_limit, warmup>>

UpdateCoreLimit ==
  /\ Handler /\ Keeps
  /\ client_core_limit' \in CoreLimits
  /\ UNCHANGED <<own_lock, scheduler_on, warmup>>

(* The window is reset, and the caller waits for the GPU.                   *)
cuda_sync_context(why) ==
  /\ pending_kernel_window' = 1
  /\ awaited' = [awaited EXCEPT !.client = gpu]
  /\ syncing' = why

DropLock ==
  /\ Handler /\ own_lock
  /\ own_lock' = FALSE
  /\ cuda_sync_context("drop")
  /\ UNCHANGED <<scheduler_on, client_core_limit, warmup>>

(* release_early_fn without NVML, to find out whether the GPU is idle.      *)
CheckIdle ==
  /\ Handler /\ own_lock /\ scheduler_on
  /\ cuda_sync_context("check")
  /\ UNCHANGED <<own_lock, scheduler_on, client_core_limit, warmup>>

(* release_early_fn with NVML.  A utilisation of 0 is that of the sample    *)
(* before, so kernels may be pending.                                       *)
ReleaseEarly ==
  /\ Handler /\ Keeps /\ own_lock /\ scheduler_on
  /\ own_lock' = FALSE
  /\ UNCHANGED <<scheduler_on, client_core_limit, warmup>>

(* The synchronisation ends.  A check that took 100 ms keeps the lock.      *)
ClientSynchronized ==
  /\ syncing # "no" /\ awaited.client = 0
  /\ own_lock' \in IF syncing = "check" THEN BOOLEAN ELSE {FALSE}
  /\ syncing' = "no"
  /\ UNCHANGED <<scheduler_on, client_core_limit, warmup, pc,
                 pending_kernel_window, countVars, gpuVars>>

-----------------------------------------------------------------------------
(* The GPU finishes a kernel: of any stream, so before or after the ones    *)
(* that a synchronisation waits for.                                        *)
KernelDone ==
  /\ gpu > 0 /\ gpu' = gpu - 1
  /\ \E l, c \in {0, 1} :
       /\ awaited.launch - l \in 0..gpu' /\ awaited.client - c \in 0..gpu'
       /\ awaited' = [launch |-> awaited.launch - l, client |-> awaited.client - c]
  /\ UNCHANGED <<clientVars, pc, pending_kernel_window, countVars>>

WarmupEnds ==
  /\ warmup = "on" /\ warmup' = "over"
  /\ UNCHANGED <<own_lock, scheduler_on, client_core_limit, syncing, pc,
                 pending_kernel_window, countVars, gpuVars>>

(* initialize_client has returned: the initial status is known.             *)
Init ==
  /\ scheduler_on \in BOOLEAN /\ own_lock = ~scheduler_on
  /\ client_core_limit \in CoreLimits
  /\ syncing = "no" /\ warmup = "not yet"
  /\ pc = [t \in Threads |-> "out"]
  /\ kern_since_sync = 0 /\ pending_kernel_window = WINDOW_START
  /\ consecutive_timeout_count = 0 /\ adapted = 1
  /\ gpu = 0 /\ awaited = [launch |-> 0, client |-> 0]

cuLaunchKernel(t) ==
  Enter(t) \/ Submit(t) \/ Count(t) \/ Synchronized(t) \/ Store(t)

ClientHandler ==
  \/ LockOk \/ SchedOff \/ SchedOn \/ UpdateCoreLimit
  \/ DropLock \/ CheckIdle \/ ReleaseEarly \/ ClientSynchronized

Next ==
  \/ \E t \in Threads : cuLaunchKernel(t)
  \/ ClientHandler \/ KernelDone \/ WarmupEnds

Spec == Init /\ [][Next]_kernVars

(* A thread in cuLaunchKernel goes on and gets kcount_mutex some time after *)
(* it asks for it; kernels finish.  Nothing is assumed of the client.       *)
FairSpec ==
  /\ Spec
  /\ \A t \in Threads :
       /\ WF_kernVars(Submit(t)) /\ SF_kernVars(Count(t))
       /\ WF_kernVars(Synchronized(t)) /\ WF_kernVars(Store(t))
  /\ WF_kernVars(KernelDone)

-----------------------------------------------------------------------------
(* The windows there can be: a floor below 1 allows 0, at which every       *)
(* launch synchronises, and one above KERN_SYNC_WINDOW_MAX is reached.      *)
WindowMax == Max({KERN_SYNC_WINDOW_MAX, KERN_WINDOW_MIN_FLOOR})

Windows == (IF KERN_WINDOW_MIN_FLOOR >= 1 THEN 1 ELSE 0)..WindowMax

(* The variables have their types; the window stays within its bounds.      *)
TypeOK ==
  /\ own_lock \in BOOLEAN /\ scheduler_on \in BOOLEAN
  /\ client_core_limit \in CoreLimits
  /\ syncing \in {"no", "drop", "check"} /\ warmup \in {"not yet", "on", "over"}
  /\ pc \in [Threads -> PcStates]
  /\ kern_since_sync \in Nat
  /\ pending_kernel_window \in Windows
  /\ consecutive_timeout_count \in 0..(ABUSE + 1)
  /\ adapted \in Windows
  /\ gpu \in Nat /\ awaited \in [launch : Nat, client : Nat]

(* What a DROP_LOCK can have to wait for is bounded: no more kernels are    *)
(* pending than the largest window and one for each other thread, though    *)
(* threads submit before they lock kcount_mutex, also during another        *)
(* thread's synchronisation, and the client resets the window at any time.  *)
PendingBounded == gpu <= WindowMax + Cardinality(Threads) - 1

(* A limited client comes under the tighter cap of get_kernel_window_max,   *)
(* or to the floor where that is higher, and stays there, once its limit no *)
(* longer changes and it goes on synchronising, however long that takes.    *)
Adapts == \E t \in Threads : Store(t)

CapReached ==
  \A m \in CoreLimits :
    <>[](client_core_limit = m) /\ []<><<Adapts>>_kernVars
      => <>[](pending_kernel_window <=
                Max({get_kernel_window_max, KERN_WINDOW_MIN_FLOOR}))

(* Every launch returns, whoever synchronises meanwhile.                    *)
LaunchReturns == \A t \in Threads : pc[t] = "submitted" ~> pc[t] = "out"

=============================================================================
