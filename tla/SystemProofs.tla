---------------------------- MODULE SystemProofs ----------------------------
(***************************************************************************)
(* What holds of scheduler and clients together, for any number of         *)
(* clients, threads and GPUs, any memory sizes and any setting of the      *)
(* scheduler.  The steps of the scheduler are treated in SchedulerProofs;  *)
(* a client changes only its own variables and the connections.            *)
(***************************************************************************)
EXTENDS System, SchedulerProofs

(* The inductive invariant of the whole system.                             *)
SystemInv == SchedInv /\ ClientTypeOK

-----------------------------------------------------------------------------
(* The clients.                                                             *)

(* The messages that clients write.                                         *)
LEMMA ClientMessages ==
  /\ [type |-> "LOCK_RELEASED"] \in ToSchedMsgs
  /\ [type |-> "REQ_LOCK"] \in ToSchedMsgs
  /\ \A g \in GPUs : [type |-> "REGISTER", gpu |-> g] \in ToSchedMsgs
  /\ \A m \in MemSizes : [type |-> "MEM_UPDATE", memory_usage |-> m] \in ToSchedMsgs
BY DEF ToSchedMsgs

(* A message appended to a stream.                                          *)
LEMMA SentType ==
  ASSUME CommTypeOK, NEW c \in Clients, NEW m \in ToSchedMsgs
  PROVE  [toSched EXCEPT ![c] = Append(@, m)] \in [Clients -> Seq(ToSchedMsgs)]
BY AppendProperties DEF CommTypeOK

(* A changed library state.                                                 *)
LEMMA LibType ==
  ASSUME ClientTypeOK, NEW c \in Clients, NEW l \in LibStates
  PROVE  [lib EXCEPT ![c] = l] \in [Clients -> LibStates]
BY DEF ClientTypeOK

(* Start, exit and end of stream.                                           *)
LEMMA LifeType ==
  ASSUME CommTypeOK, ClientTypeOK, NEW c \in Clients,
         Start(c) \/ Exit(c) \/ Eof(c) \/ (Die(c) /\ UNCHANGED exits)
  PROVE  CommTypeOK' /\ ClientTypeOK'
<1>1. \A p \in {"down", "starting", "up"} : NewLib(p) \in LibStates
  BY DEF NewLib, LibStates
<1>2. AtGate \in [Threads -> ThreadStates]
  BY DEF AtGate, ThreadStates
<1>3. <<>> \in Seq(ToClientMsgs) /\ <<>> \in Seq(ToSchedMsgs)
  OBVIOUS
<1>4. CASE Start(c)
  <2>1. PICK g \in GPUs :
          toSched' = [toSched EXCEPT ![c] = <<[type |-> "REGISTER", gpu |-> g]>>]
    BY Zenon, <1>4 DEF Start
  <2>2. <<[type |-> "REGISTER", gpu |-> g]>> \in Seq(ToSchedMsgs)
    BY ClientMessages
  <2>3. toSched' \in [Clients -> Seq(ToSchedMsgs)]
    BY <2>1, <2>2 DEF CommTypeOK
  <2>4. CommTypeOK'
    BY <1>3, <1>4, <2>3 DEF Start, CommTypeOK, SockStates
  <2>5. QED
    BY <1>1, <1>4, <2>4 DEF Start, ClientTypeOK
<1>5. CASE Die(c) /\ (exits' = exits \/ exits' = exits + 1)
  <2>1. CommTypeOK'
    BY <1>3, <1>5 DEF Die, CommTypeOK
  <2>2. ClientTypeOK'
    BY <1>1, <1>2, <1>5 DEF Die, ClientTypeOK
  <2>3. QED
    BY <2>1, <2>2
<1>6. QED
  BY <1>4, <1>5 DEF Exit, Eof

(* The client thread.                                                       *)
LEMMA ReceiveType ==
  ASSUME CommTypeOK, ClientTypeOK, NEW c \in Clients,
         ReceiveStep(c) \/ FinishDrop(c)
  PROVE  CommTypeOK' /\ ClientTypeOK'
<1>1. UNCHANGED <<alive, sock, gpu_work, exits, reports>>
  BY DEF ReceiveStep, FinishDrop, ReceiveStatus, ReceiveLockOk, ReceiveDropLock,
         ReceiveSchedOn, ReceiveSchedOff, ReceiveMemNote, Receive
<1>2. toClient' \in [Clients -> Seq(ToClientMsgs)]
  <2>1. \/ toClient' = toClient
        \/ toClient[c] # <<>> /\ toClient' = [toClient EXCEPT ![c] = Tail(@)]
    BY DEF ReceiveStep, FinishDrop, ReceiveStatus, ReceiveLockOk, ReceiveDropLock,
           ReceiveSchedOn, ReceiveSchedOff, ReceiveMemNote, Receive
  <2>2. toClient \in [Clients -> Seq(ToClientMsgs)]
    BY DEF CommTypeOK
  <2>3. toClient[c] # <<>> => Tail(toClient[c]) \in Seq(ToClientMsgs)
    BY <2>2, HeadTailProperties
  <2>4. QED
    BY Zenon, <2>1, <2>2, <2>3
<1>3. toSched' \in [Clients -> Seq(ToSchedMsgs)]
  <2>1. \/ toSched' = toSched
        \/ toSched' = [toSched EXCEPT ![c] = Append(@, [type |-> "LOCK_RELEASED"])]
    BY DEF ReceiveStep, FinishDrop, ReceiveStatus, ReceiveLockOk, ReceiveDropLock,
           ReceiveSchedOn, ReceiveSchedOff, ReceiveMemNote
  <2>2. PICK m \in ToSchedMsgs :
          toSched' = toSched \/ toSched' = [toSched EXCEPT ![c] = Append(@, m)]
    BY <2>1, ClientMessages, Zenon
  <2>3. [toSched EXCEPT ![c] = Append(@, m)] \in [Clients -> Seq(ToSchedMsgs)]
    BY SentType
  <2>4. QED
    BY Zenon, <2>2, <2>3 DEF CommTypeOK
<1>4. threads' \in [Clients -> [Threads -> ThreadStates]]
  <2>1. threads' = threads \/ WakeAll(c)
    BY DEF ReceiveStep, FinishDrop, ReceiveStatus, ReceiveLockOk, ReceiveDropLock,
           ReceiveSchedOn, ReceiveSchedOff, ReceiveMemNote
  <2>2. QED
    BY <2>1 DEF WakeAll, ThreadStates, ClientTypeOK
<1>5. lib' \in [Clients -> LibStates]
  <2>1. lib[c] \in LibStates
    BY DEF ClientTypeOK
  <2>2. CASE ReceiveStatus(c)
    <3>1. PICK on \in BOOLEAN, off \in BOOLEAN :
            lib' = [lib EXCEPT ![c].phase = "up", ![c].scheduler_on = on,
                               ![c].own_lock = off, ![c].need_lock = FALSE]
      BY <2>2, Zenon DEF ReceiveStatus
    <3>2. [lib[c] EXCEPT !.phase = "up", !.scheduler_on = on,
                         !.own_lock = off, !.need_lock = FALSE] \in LibStates
      BY Zenon, <2>1 DEF LibStates
    <3>3. QED
      BY <3>1, <3>2 DEF ClientTypeOK
  <2>3. CASE ReceiveLockOk(c) \/ FinishDrop(c)
    <3>1. /\ [lib[c] EXCEPT !.need_lock = FALSE, !.own_lock = TRUE] \in LibStates
          /\ [lib[c] EXCEPT !.dropping = FALSE] \in LibStates
      BY Zenon, <2>1 DEF LibStates
    <3>2. QED
      BY Zenon, <2>3, <3>1 DEF ReceiveLockOk, FinishDrop, ClientTypeOK
  <2>4. CASE ReceiveDropLock(c)
    <3>1. PICK own \in BOOLEAN :
            lib' = [lib EXCEPT ![c].own_lock = FALSE, ![c].dropping = own]
      BY Zenon, <2>1, <2>4 DEF ReceiveDropLock, LibStates
    <3>2. [lib[c] EXCEPT !.own_lock = FALSE, !.dropping = own] \in LibStates
      BY Zenon, <2>1 DEF LibStates
    <3>3. QED
      BY <3>1, <3>2 DEF ClientTypeOK
  <2>5. CASE ReceiveSchedOn(c) \/ ReceiveSchedOff(c)
    <3>1. \A on, own \in BOOLEAN :
            [lib[c] EXCEPT !.scheduler_on = on, !.own_lock = own,
                           !.need_lock = FALSE] \in LibStates
      BY Zenon, <2>1 DEF LibStates
    <3>2. QED
      BY Zenon, <2>5, <3>1 DEF ReceiveSchedOn, ReceiveSchedOff, ClientTypeOK
  <2>6. CASE ReceiveMemNote(c)
    BY <2>6 DEF ReceiveMemNote, ClientTypeOK
  <2>7. QED
    BY <2>2, <2>3, <2>4, <2>5, <2>6 DEF ReceiveStep
<1>6. QED
  BY <1>1, <1>2, <1>3, <1>4, <1>5 DEF CommTypeOK, ClientTypeOK

(* Application threads, the GPU and the early-release thread.               *)
LEMMA WorkType ==
  ASSUME CommTypeOK, ClientTypeOK, NEW c \in Clients,
         \/ \E t \in Threads : ThreadStep(c, t)
         \/ GpuDone(c) \/ ReportMemory(c) \/ ReleaseEarly(c)
  PROVE  CommTypeOK' /\ ClientTypeOK'
<1>1. lib[c] \in LibStates /\ threads[c] \in [Threads -> ThreadStates]
  BY DEF ClientTypeOK
<1>2. /\ UNCHANGED <<alive, sock, toClient, exits>>
      /\ gpu_work' = gpu_work \/ \E b \in BOOLEAN : gpu_work' = [gpu_work EXCEPT ![c] = b]
      /\ reports' = reports \/ reports' = reports + 1
  BY Zenon DEF ThreadStep, continue_with_lock, Launch, GpuDone, ReportMemory,
         ReleaseEarly, commVars
<1>3. toSched' \in [Clients -> Seq(ToSchedMsgs)]
  <2>1. \/ toSched' = toSched
        \/ toSched' = [toSched EXCEPT ![c] = Append(@, [type |-> "LOCK_RELEASED"])]
        \/ toSched' = [toSched EXCEPT ![c] = Append(@, [type |-> "REQ_LOCK"])]
        \/ \E m \in MemSizes :
             toSched' = [toSched EXCEPT ![c] =
                           Append(@, [type |-> "MEM_UPDATE", memory_usage |-> m])]
    BY Zenon DEF ThreadStep, continue_with_lock, Launch, GpuDone, ReportMemory,
           ReleaseEarly, commVars
  <2>2. PICK m \in ToSchedMsgs :
          toSched' = toSched \/ toSched' = [toSched EXCEPT ![c] = Append(@, m)]
    BY <2>1, ClientMessages, Zenon
  <2>3. [toSched EXCEPT ![c] = Append(@, m)] \in [Clients -> Seq(ToSchedMsgs)]
    BY SentType
  <2>4. QED
    BY Zenon, <2>2, <2>3 DEF CommTypeOK
<1>4. threads' \in [Clients -> [Threads -> ThreadStates]]
  <2>1. \/ threads' = threads
        \/ \E t \in Threads, st \in ThreadStates : threads' = [threads EXCEPT ![c][t] = st]
    BY DEF ThreadStep, continue_with_lock, Launch, GpuDone, ReportMemory,
           ReleaseEarly, ThreadStates
  <2>2. QED
    BY <1>1, <2>1 DEF ClientTypeOK
<1>5. lib' \in [Clients -> LibStates]
  <2>1. \/ lib' = lib
        \/ lib' = [lib EXCEPT ![c].need_lock = TRUE]
        \/ lib' = [lib EXCEPT ![c].own_lock = FALSE]
    BY DEF ThreadStep, continue_with_lock, Launch, GpuDone, ReportMemory,
           ReleaseEarly
  <2>2. \A b \in BOOLEAN : /\ [lib[c] EXCEPT !.need_lock = b] \in LibStates
                           /\ [lib[c] EXCEPT !.own_lock = b] \in LibStates
    BY <1>1 DEF LibStates
  <2>3. QED
    BY Zenon, <2>1, <2>2 DEF ClientTypeOK
<1>6. gpu_work' \in [Clients -> BOOLEAN] /\ reports' \in Nat
  BY <1>2 DEF ClientTypeOK
<1>7. CommTypeOK'
  BY <1>2, <1>3 DEF CommTypeOK
<1>8. ClientTypeOK'
  BY <1>2, <1>4, <1>5, <1>6 DEF ClientTypeOK
<1>9. QED
  BY <1>7, <1>8

-----------------------------------------------------------------------------
(* The system.                                                              *)

LEMMA InitInv == Init => SystemInv
<1>1. ClientInit => ClientTypeOK
  <2>1. NewLib("down") \in LibStates /\ AtGate \in [Threads -> ThreadStates]
    BY DEF NewLib, LibStates, AtGate, ThreadStates
  <2>2. QED
    BY <2>1 DEF ClientInit, ClientTypeOK
<1>2. QED
  BY <1>1, SchedInitInv DEF Init, SystemInv

LEMMA NextInv == SystemInv /\ [Next]_vars => SystemInv'
<1> SUFFICES ASSUME SystemInv, [Next]_vars PROVE SystemInv'
  OBVIOUS
<1>1. CommTypeOK /\ SchedTypeOK /\ ClientTypeOK /\ SchedInv
  BY DEF SystemInv, SchedInv
<1>2. CASE SchedNext /\ UNCHANGED clientVars
  <2>1. SchedInv'
    BY <1>1, <1>2, SchedNextInv
  <2>2. ClientTypeOK'
    BY <1>1, <1>2 DEF ClientTypeOK, clientVars
  <2>3. QED
    BY <2>1, <2>2 DEF SystemInv
<1>3. ASSUME UNCHANGED schedVars, CommTypeOK', ClientTypeOK' PROVE SystemInv'
  <2>1. SchedTypeOK'
    BY <1>1, <1>3 DEF schedVars, SchedTypeOK
  <2>2. Good(clients', gpu_contexts', stack', ctl' = 0)
    BY <1>1, <1>3, Zenon DEF schedVars, SchedInv
  <2>3. QED
    BY <1>3, <2>1, <2>2, Zenon DEF SystemInv, SchedInv
<1>4. ASSUME NEW c \in Clients, ClientStep(c) PROVE SystemInv'
  <2>1. CommTypeOK' /\ ClientTypeOK'
    BY <1>1, <1>4, LifeType, ReceiveType, WorkType, Zenon DEF ClientStep, ClientNext
  <2>2. QED
    BY <1>3, <1>4, <2>1 DEF ClientStep
<1>5. ASSUME NEW c \in Clients, SchedulerGone(c) PROVE SystemInv'
  <2>1. CommTypeOK' /\ ClientTypeOK'
    BY <1>1, <1>5, LifeType DEF SchedulerGone
  <2>2. QED
    BY <1>3, <1>5, <2>1 DEF SchedulerGone
<1>6. CASE UNCHANGED vars
  <2>1. UNCHANGED <<commVars, schedVars, clientVars>>
    BY <1>6 DEF vars
  <2>2. CommTypeOK' /\ ClientTypeOK'
    BY <1>1, <2>1 DEF commVars, clientVars, CommTypeOK, ClientTypeOK
  <2>3. QED
    BY <1>3, <2>1, <2>2
<1>7. QED
  BY <1>2, <1>4, <1>5, <1>6 DEF Next

THEOREM Invariance == Spec => []SystemInv
BY InitInv, NextInv, PTL DEF Spec

(* Every variable keeps its type: running_memory_usage never becomes        *)
(* negative (it is a size_t), and every call on the stack of the mutex      *)
(* holder is about an existing GPU.                                         *)
THEOREM TypeCorrect == Spec => []TypeOK
<1>1. SystemInv => TypeOK
  BY DEF SystemInv, SchedInv, TypeOK
<1>2. QED
  BY <1>1, Invariance, PTL

(* lock_held tells whether somebody runs on the GPU: the flag that          *)
(* can_run_with_memory and the REQ_LOCK handler trust is never stale, until *)
(* SCHED_OFF clears it.                                                     *)
THEOREM LockHeldCorrect == Spec => []LockHeldMeansRunning
<1>1. SystemInv => LockHeldMeansRunning
  BY DEF SystemInv, SchedInv, Good, ContextOK, LockHeldMeansRunning
<1>2. QED
  BY <1>1, Invariance, PTL

(* In SERIAL mode a GPU never runs two clients, for any number of clients   *)
(* and whatever crashes, deferrals and nested deletions happen.             *)
THEOREM SerialCorrect == Spec => []SerialOneRunner
<1>1. SystemInv => SerialOneRunner
  BY DEF SystemInv, SchedInv, Good, ContextOK, SerialOneRunner
<1>2. QED
  BY <1>1, Invariance, PTL

=============================================================================
