------------------------------- MODULE Client -------------------------------
(***************************************************************************)
(* libnvshare inside an application (src/client.c, and the calls of        *)
(* src/hook.c that are gated by the GPU lock): the application's threads,  *)
(* the client thread that talks to the scheduler, and the early-release    *)
(* thread.  The three share own_lock and need_lock under the library's own *)
(* global_mutex.                                                           *)
(*                                                                         *)
(* Handling a message is one step, except DROP_LOCK: the client thread     *)
(* clears own_lock and then waits, mutex held, until the GPU has finished. *)
(* The mutex is free exactly when the client is not `dropping`.            *)
(***************************************************************************)
EXTENDS Comm

CONSTANTS
  Threads,     \* application threads that submit GPU work, in each client
  NVML_OK,     \* the early-release thread can ask NVML for the utilisation
  MAX_EXITS,   \* bound: application processes that exit or crash
  MAX_REPORTS  \* bound: memory reports in a behaviour

ASSUME ClientAssumption ==
  NVML_OK \in BOOLEAN /\ MAX_EXITS \in Nat /\ MAX_REPORTS \in Nat

VARIABLES
  lib,      \* lib[c]: the globals of client.c
  threads,  \* threads[c][t]: where application thread t is
  gpu_work, \* gpu_work[c]: work of c has been submitted and is not done
  exits,    \* processes that ended so far
  reports   \* memory reports so far

clientVars == <<lib, threads, gpu_work, exits, reports>>

(* "gate": outside, or in continue_with_lock about to test own_lock;        *)
(* "wait": in pthread_cond_wait; "launch": continue_with_lock has returned  *)
(* and the driver call has not been made yet.                               *)
ThreadStates == {"gate", "wait", "launch"}

LibStates ==
  [phase : {"down", "starting", "up"}, scheduler_on : BOOLEAN,
   own_lock : BOOLEAN, need_lock : BOOLEAN,
   dropping : BOOLEAN]

(* The variables of the client library have their C types.                  *)
ClientTypeOK ==
  /\ lib \in [Clients -> LibStates]
  /\ threads \in [Clients -> [Threads -> ThreadStates]]
  /\ gpu_work \in [Clients -> BOOLEAN]
  /\ exits \in Nat /\ reports \in Nat

(* initialize_client, as far as the variables go.                           *)
NewLib(phase) ==
  [phase |-> phase, scheduler_on |-> FALSE, own_lock |-> FALSE,
   need_lock |-> FALSE, dropping |-> FALSE]

AtGate == [t \in Threads |-> "gate"]

ClientInit ==
  /\ lib = [c \in Clients |-> NewLib("down")]
  /\ threads = [c \in Clients |-> AtGate]
  /\ gpu_work = [c \in Clients |-> FALSE]
  /\ exits = 0 /\ reports = 0

(* The library is initialised and nobody holds its mutex.                   *)
Unlocked(c) == lib[c].phase = "up" /\ ~lib[c].dropping

-----------------------------------------------------------------------------
(* Start and end of the process.                                            *)

(* client_fn connects and registers with the GPU it was given.              *)
Start(c) ==
  /\ ~alive[c] /\ sock[c] \in {"none", "closed"}
  /\ alive' = [alive EXCEPT ![c] = TRUE]
  /\ sock' = [sock EXCEPT ![c] = "pending"]
  /\ \E g \in GPUs :
       toSched' = [toSched EXCEPT ![c] = <<[type |-> "REGISTER", gpu |-> g]>>]
  /\ toClient' = [toClient EXCEPT ![c] = <<>>]
  /\ lib' = [lib EXCEPT ![c] = NewLib("starting")]
  /\ UNCHANGED <<threads, gpu_work, exits, reports>>

(* The process is gone, and what it had not read with it.                   *)
Die(c) ==
  /\ alive[c]
  /\ alive' = [alive EXCEPT ![c] = FALSE]
  /\ toClient' = [toClient EXCEPT ![c] = <<>>]
  /\ lib' = [lib EXCEPT ![c] = NewLib("down")]
  /\ threads' = [threads EXCEPT ![c] = AtGate]
  /\ gpu_work' = [gpu_work EXCEPT ![c] = FALSE]
  /\ UNCHANGED <<sock, toSched, reports>>

Exit(c) == exits < MAX_EXITS /\ exits' = exits + 1 /\ Die(c)

(* nvshare_receive_block meets the end of the stream: true_or_exit.         *)
Eof(c) == sock[c] = "closed" /\ toClient[c] = <<>> /\ Die(c) /\ UNCHANGED exits

-----------------------------------------------------------------------------
(* The client thread.                                                       *)

Receive(c, msgs) ==
  /\ toClient[c] # <<>> /\ Head(toClient[c]) \in msgs
  /\ toClient' = [toClient EXCEPT ![c] = Tail(@)]
  /\ UNCHANGED <<alive, sock, gpu_work, exits, reports>>

(* pthread_cond_broadcast(&own_lock_cv).                                    *)
WakeAll(c) ==
  threads' = [threads EXCEPT ![c] =
    [t \in Threads |-> IF @[t] = "wait" THEN "gate" ELSE @[t]]]

(* Mutant: an initial SCHED_OFF is taken for SCHED_ON.                      *)
ReceiveStatusOn(c) ==
  /\ lib[c].phase = "starting"
  /\ Receive(c, {"SCHED_ON", "SCHED_OFF"})
  /\ lib' = [lib EXCEPT ![c].phase = "up", ![c].scheduler_on = TRUE]
  /\ UNCHANGED <<toSched, threads>>

(* The initial status ends initialize_client.                               *)
ReceiveStatus(c) ==
  /\ lib[c].phase = "starting"
  /\ Receive(c, {"SCHED_ON", "SCHED_OFF"})
  /\ LET on == Head(toClient[c]) = "SCHED_ON"
     IN  lib' = [lib EXCEPT ![c].phase = "up", ![c].scheduler_on = on,
                            ![c].own_lock = ~on, ![c].need_lock = FALSE]
  /\ UNCHANGED <<toSched, threads>>

ReceiveLockOk(c) ==
  /\ Unlocked(c)
  /\ Receive(c, {"LOCK_OK"})
  /\ lib' = [lib EXCEPT ![c].need_lock = FALSE, ![c].own_lock = TRUE]
  /\ WakeAll(c)
  /\ UNCHANGED toSched

(* Mutant: without the sanity check.                                        *)
ReceiveDropLockAlways(c) ==
  /\ Unlocked(c)
  /\ Receive(c, {"DROP_LOCK"})
  /\ lib' = [lib EXCEPT ![c].own_lock = FALSE, ![c].dropping = TRUE]
  /\ UNCHANGED <<toSched, threads>>

(* DROP_LOCK, up to the synchronisation; without the lock it is ignored.    *)
ReceiveDropLock(c) ==
  /\ Unlocked(c)
  /\ Receive(c, {"DROP_LOCK"})
  /\ lib' = [lib EXCEPT ![c].own_lock = FALSE, ![c].dropping = lib[c].own_lock]
  /\ UNCHANGED <<toSched, threads>>

(* cuCtxSynchronize has returned: LOCK_RELEASED, and the mutex is free.     *)
FinishDrop(c) ==
  /\ lib[c].dropping
  /\ ~gpu_work[c]
  /\ HasRoom(c)
  /\ toSched' = [toSched EXCEPT ![c] = Append(@, [type |-> "LOCK_RELEASED"])]
  /\ lib' = [lib EXCEPT ![c].dropping = FALSE]
  /\ UNCHANGED <<alive, sock, toClient, threads, gpu_work, exits, reports>>

(* SCHED_ON does not wake the threads that wait for the lock.               *)
ReceiveSchedOn(c) ==
  /\ Unlocked(c)
  /\ Receive(c, {"SCHED_ON"})
  /\ lib' = IF lib[c].scheduler_on THEN lib
            ELSE [lib EXCEPT ![c].scheduler_on = TRUE, ![c].own_lock = FALSE,
                             ![c].need_lock = FALSE]
  /\ UNCHANGED <<toSched, threads>>

ReceiveSchedOff(c) ==
  /\ Unlocked(c)
  /\ Receive(c, {"SCHED_OFF"})
  /\ IF lib[c].scheduler_on
     THEN /\ lib' = [lib EXCEPT ![c].scheduler_on = FALSE,
                       ![c].own_lock = TRUE, ![c].need_lock = FALSE]
          /\ WakeAll(c)
     ELSE UNCHANGED <<lib, threads>>
  /\ UNCHANGED toSched

(* WAIT_FOR_MEM and MEM_AVAILABLE change nothing.                           *)
ReceiveMemNote(c) ==
  /\ Unlocked(c)
  /\ Receive(c, {"WAIT_FOR_MEM", "MEM_AVAILABLE"})
  /\ UNCHANGED <<toSched, lib, threads>>

-----------------------------------------------------------------------------
(* Application threads.                                                     *)

(* continue_with_lock: return with the lock, or wait for it, after a        *)
(* request on behalf of the whole application.                              *)
continue_with_lock(c, t) ==
  /\ Unlocked(c)
  /\ threads[c][t] = "gate"
  /\ IF lib[c].own_lock
     THEN /\ threads' = [threads EXCEPT ![c][t] = "launch"]
          /\ UNCHANGED <<toSched, lib>>
     ELSE /\ threads' = [threads EXCEPT ![c][t] = "wait"]
          /\ lib' = [lib EXCEPT ![c].need_lock = TRUE]
          /\ IF lib[c].need_lock
             THEN UNCHANGED toSched
             ELSE /\ HasRoom(c)
                  /\ toSched' = [toSched EXCEPT ![c] =
                                   Append(@, [type |-> "REQ_LOCK"])]
  /\ UNCHANGED <<alive, sock, toClient, gpu_work, exits, reports>>

(* The driver call that continue_with_lock was to guard.                    *)
Launch(c, t) ==
  /\ threads[c][t] = "launch"
  /\ threads' = [threads EXCEPT ![c][t] = "gate"]
  /\ gpu_work' = [gpu_work EXCEPT ![c] = TRUE]
  /\ UNCHANGED <<commVars, lib, exits, reports>>

(* The GPU finishes what c has submitted.                                   *)
GpuDone(c) ==
  /\ gpu_work[c]
  /\ gpu_work' = [gpu_work EXCEPT ![c] = FALSE]
  /\ UNCHANGED <<commVars, lib, threads, exits, reports>>

(* report_memory_usage_to_scheduler, after cuMemAlloc and cuMemFree, with   *)
(* or without the lock.                                                     *)
ReportMemory(c) ==
  /\ lib[c].phase = "up"
  /\ reports < MAX_REPORTS /\ reports' = reports + 1
  /\ HasRoom(c)
  /\ \E m \in MemSizes :
       toSched' = [toSched EXCEPT ![c] =
         Append(@, [type |-> "MEM_UPDATE", memory_usage |-> m])]
  /\ UNCHANGED <<alive, sock, toClient, lib, threads, gpu_work, exits>>

-----------------------------------------------------------------------------
(* The early-release thread.                                                *)

(* What the thread takes for an idle client: a GPU utilisation of 0, of     *)
(* whoever uses the GPU, or a cuCtxSynchronize that returns at once.        *)
LooksIdle(c) == IF NVML_OK THEN \A d \in Clients : ~gpu_work[d] ELSE ~gpu_work[c]

(* The interval ended without new work.  did_work, which starts it anew,    *)
(* only delays this step, by a time that the model leaves open.             *)
ReleaseEarly(c) ==
  /\ Unlocked(c)
  /\ lib[c].scheduler_on /\ lib[c].own_lock
  /\ LooksIdle(c)
  /\ HasRoom(c)
  /\ toSched' = [toSched EXCEPT ![c] = Append(@, [type |-> "LOCK_RELEASED"])]
  /\ lib' = [lib EXCEPT ![c].own_lock = FALSE]
  /\ UNCHANGED <<alive, sock, toClient, threads, gpu_work, exits, reports>>

-----------------------------------------------------------------------------
(* What the client thread does with the next message.                       *)
ReceiveStep(c) ==
  \/ ReceiveStatus(c) \/ ReceiveLockOk(c) \/ ReceiveDropLock(c)
  \/ ReceiveSchedOn(c) \/ ReceiveSchedOff(c) \/ ReceiveMemNote(c)

ThreadStep(c, t) == continue_with_lock(c, t) \/ Launch(c, t)

ClientNext(c) ==
  \/ Start(c) \/ Exit(c) \/ Eof(c)
  \/ ReceiveStep(c) \/ FinishDrop(c)
  \/ \E t \in Threads : ThreadStep(c, t)
  \/ GpuDone(c) \/ ReportMemory(c)
  \/ ReleaseEarly(c)

=============================================================================
