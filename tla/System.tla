------------------------------- MODULE System -------------------------------
(***************************************************************************)
(* The scheduler and its clients together.                                 *)
(***************************************************************************)
EXTENDS Scheduler, Client, FiniteSetsExt

vars == <<commVars, schedVars, clientVars>>

Init == CommInit /\ SchedInit /\ ClientInit

(* The scheduler process has ended and its sockets are closed with it.      *)
SchedulerGone(c) ==
  status # "up" /\ Die(c) /\ UNCHANGED <<schedVars, exits>>

ClientStep(c) ==
  status = "up" /\ ClientNext(c) /\ UNCHANGED schedVars

Next ==
  \/ SchedNext /\ UNCHANGED clientVars
  \/ \E c \in Clients : ClientStep(c) \/ SchedulerGone(c)

Spec == Init /\ [][Next]_vars

-----------------------------------------------------------------------------
(* Fairness.  Nothing is assumed about when applications submit work,       *)
(* report memory, release early or exit.                                    *)

S(A) == A /\ UNCHANGED clientVars
C(A) == A /\ UNCHANGED schedVars

(* A handler that has the mutex goes on: a compute window is far longer     *)
(* than a handler, so it does not keep expiring under it.  main gets the    *)
(* mutex some time after it asks for it, and epoll is level-triggered.      *)
MainFairness ==
  /\ SF_vars(S(StackStep))
  /\ WF_vars(S(\E g \in GPUs : ResetInCanRun(g)))
  /\ SF_vars(S(EpollWait \/ \E c \in Clients : EventStep(c)))

(* The timer thread gets the mutex after the time quantum has elapsed.      *)
QuantumFairness == \A g \in GPUs : SF_vars(S(timer_thr_fn(g, TRUE)))

(* Windows end, and the timer thread gets the mutex after that.             *)
WindowFairness ==
  \A g \in GPUs :
    WF_vars(S(WindowElapses(g))) /\ SF_vars(S(timer_thr_fn(g, FALSE)))

(* The client thread reads its socket, and GPU work ends.                   *)
ClientFairness ==
  \A c \in Clients :
    WF_vars(C(ReceiveStep(c) \/ FinishDrop(c))) /\ WF_vars(C(GpuDone(c)))

FairSpec ==
  Spec /\ MainFairness /\ QuantumFairness /\ WindowFairness /\ ClientFairness

(* Every variable has its type.                                             *)
TypeOK == CommTypeOK /\ SchedTypeOK /\ ClientTypeOK

-----------------------------------------------------------------------------
(* Observations on a connection that both sides still use.                  *)

Connected(c) == status = "up" /\ alive[c] /\ sock[c] = "accepted"

Count(s, x) == Cardinality({i \in DOMAIN s : s[i] = x})
CountType(s, type) == Cardinality({i \in DOMAIN s : s[i].type = type})
One(b) == IF b THEN 1 ELSE 0

RunningEntries(c) ==
  IF clients[c].context = NULL THEN 0
  ELSE Count(gpu_contexts[clients[c].context].running_list, c)

QueuedEntries(c) ==
  IF clients[c].context = NULL THEN 0
  ELSE LET ctx == gpu_contexts[clients[c].context]
       IN  Count(ctx.requests \o ctx.wait_queue, c)

-----------------------------------------------------------------------------
(* Safety.                                                                  *)

(* The GPU lock of a client is in exactly one place: on its way to it, held *)
(* by it, being dropped, or on its way back, as long as the client has an   *)
(* entry in running_list, and nowhere otherwise.  So LOCK_OK, DROP_LOCK,    *)
(* early release and LOCK_RELEASED may cross in any way without a lock      *)
(* getting lost or doubled.                                                 *)
GrantConserved ==
  \A c \in Clients : Connected(c) =>
    RunningEntries(c) =
      Count(toClient[c], "LOCK_OK") + One(lib[c].own_lock)
        + One(lib[c].dropping) + CountType(toSched[c], "LOCK_RELEASED")

(* A client that needs the lock has exactly one request, wherever it is:    *)
(* unread, in requests, in wait_queue or answered; one that does not has    *)
(* none.                                                                    *)
RequestConserved ==
  \A c \in Clients : Connected(c) =>
    One(lib[c].need_lock) =
      CountType(toSched[c], "REQ_LOCK") + QueuedEntries(c)
        + Count(toClient[c], "LOCK_OK")

(* Nobody is twice in the queues of a GPU, the dying included, before the   *)
(* first SCHED_OFF.  move_to_wait_queue drops out without moving a client   *)
(* that waits already ("paranoid"), so a second entry would keep            *)
(* try_schedule at the same head of requests for ever, mutex held.          *)
QueuedOnce ==
  ctl = 0 => \A g \in GPUs, c \in Clients :
    Count(gpu_contexts[g].requests \o gpu_contexts[g].wait_queue, c) <= 1

(* A client has the lock, or is still finishing the work it submitted under *)
(* it.                                                                      *)
Holds(c) == lib[c].scheduler_on /\ (lib[c].own_lock \/ lib[c].dropping)

(* Between two handlers no GPU is idle while a client that could run queues *)
(* for it: whoever is queued then has used up its compute quota.            *)
WorkConserving ==
  \A g \in GPUs :
    LET ctx == gpu_contexts[g]
    IN  status = "up" /\ stack = <<>> /\ scheduler_on /\ ctx.running_list = <<>>
        => \A c \in Range(ctx.requests \o ctx.wait_queue) :
             c \in Limited /\ (clients[c].is_throttled \/ clients[c].exhausted)

(* running_memory_usage is what the running clients have reported, across   *)
(* MEM_UPDATEs that cross grants and releases.                              *)
MemoryAccounted ==
  \A g \in GPUs : status = "up" =>
    gpu_contexts[g].running_memory_usage =
      MapThenSumSet(LAMBDA c : clients[c].memory_allocated,
                    Range(gpu_contexts[g].running_list))

(* Clients that use memory share a GPU only within the safe limit, until an *)
(* overload has been detected and preemption ordered.                       *)
SharedWithinLimit ==
  \A g \in GPUs :
    LET ctx == gpu_contexts[g]
    IN  ~ctx.memory_overloaded /\ ctx.running_memory_usage > SafeLimit
        => \A c, d \in Range(ctx.running_list) :
             clients[c].memory_allocated > 0 /\ clients[d].memory_allocated > 0
             => c = d

(* After an overload a GPU takes a new client only when nobody runs on it   *)
(* (before the first SCHED_OFF).                                            *)
OverloadIsSerial ==
  [][\A g \in GPUs :
       /\ ctl = 0 /\ gpu_contexts[g].memory_overloaded
       /\ Len(gpu_contexts'[g].running_list) > Len(gpu_contexts[g].running_list)
       => gpu_contexts[g].running_list = <<>>]_vars

(* The scheduler outlives its clients: "consider the client dead if we      *)
(* encounter any" error (send_message), of which EPIPE is to be one.        *)
SchedulerSurvives == status = "up"

(* A client that was told to give the lock back is doing so: DROP_LOCK is   *)
(* on its way, or being executed, or answered.                              *)
DropOutstanding ==
  \A c \in Clients : Connected(c) /\ clients[c].drop_sent =>
    Count(toClient[c], "DROP_LOCK") + One(lib[c].dropping)
      + CountType(toSched[c], "LOCK_RELEASED") > 0

(* A client that has read all that the scheduler sent to it agrees with it  *)
(* on whether scheduling is on, whichever way SCHED_ON, SCHED_OFF, the      *)
(* initial status and the broadcasts of several commands overlap.           *)
StatusAgrees ==
  \A c \in Clients :
    Connected(c) /\ stack = <<>> /\ toClient[c] = <<>> /\ lib[c].phase = "up"
      => lib[c].scheduler_on = scheduler_on

(* When nothing is in transit, a GPU whose lock is held has a client that   *)
(* holds it (and will release it).                                          *)
Quiet ==
  /\ status = "up" /\ stack = <<>>
  /\ \A c \in Clients : Connected(c) => toClient[c] = <<>> /\ toSched[c] = <<>>

HeldBySomebody ==
  Quiet /\ scheduler_on =>
    \A g \in GPUs : gpu_contexts[g].lock_held =>
      \E c \in Clients : clients[c].context = g /\ Holds(c)

(* A client never has more than BACKLOG messages to read, so a send to a    *)
(* living client does not fail with EAGAIN: status, queue notices, grants   *)
(* and drops of several windows do not pile up while it does not read.      *)
BACKLOG == 5
BacklogBounded == \A c \in Clients : Len(toClient[c]) <= BACKLOG

-----------------------------------------------------------------------------
(* The lock as applications see it.  An application has a GPU from its      *)
(* registration until it ends; it asks when it has set need_lock, and uses  *)
(* the GPU until the synchronisation before LOCK_RELEASED has returned.     *)
Service == INSTANCE LockService WITH
  gpu <- [c \in Clients |-> IF alive[c] THEN clients[c].context ELSE NULL],
  use <- [c \in Clients |->
            CASE lib[c].own_lock \/ lib[c].dropping -> "using"
              [] lib[c].need_lock -> "asking"
              [] OTHER -> "out"]

(* Scheduler, sockets, client threads and early release implement the lock  *)
(* service: whatever crosses on the way, a client uses the GPU only after   *)
(* it asked, only when no other client of that GPU still does, and stops    *)
(* only by giving the lock back or by ending.                               *)
ImplementsService == Service!LockSpec

-----------------------------------------------------------------------------
(* Liveness.                                                                *)

(* A client that needs the lock gets it.                                    *)
LockEventuallyGranted ==
  \A c \in Clients : lib[c].need_lock ~> lib[c].own_lock

=============================================================================
