----------------------------- MODULE Scheduler -----------------------------
(***************************************************************************)
(* nvshare-scheduler (src/scheduler.c): who may use which GPU when.        *)
(*                                                                         *)
(* Every handler runs under global_mutex.  try_schedule, remove_req and    *)
(* delete_client call each other recursively, so the thread that holds     *)
(* the mutex is modelled with its call stack: `stack` is the work the      *)
(* current handler has left, innermost call first, and every iteration of  *)
(* a loop is one step.  The mutex is free when the stack is empty and the  *)
(* main thread is not between two events of a batch.                       *)
(*                                                                         *)
(* Milliseconds are left to the module Quota: here a compute window is     *)
(* either expired or not, and a quota-limited client has either exhausted  *)
(* its share of the window or not.                                         *)
(***************************************************************************)
EXTENDS Comm, Functions

CONSTANTS
  NULL,                   \* a null pointer
  MODE,                   \* config.scheduling_mode
  TOTAL_MEMORY,           \* ctx->total_memory
  MEMORY_RESERVE_PERCENT, \* config.memory_reserve_percent
  CARRYOVER,              \* config.quota_carryover_percent # 0
  Limited,                \* the clients with core_limit < 100
  TQ_FIRES,               \* the switch time fits in the compute window (Quota)
  EPOLL_MAX_EVENTS,       \* events one epoll_wait returns
  GarbageMem,             \* values malloc can leave in memory_allocated
  GarbageRunning,         \* values malloc can leave in is_running
  SIGPIPE_FATAL,          \* write to a closed socket kills the process
  STACK_LIMIT,            \* call depth at which the C stack overflows
  MAX_CTL                 \* bound: nvsharectl commands in a behaviour

ASSUME SchedulerAssumption ==
  /\ NULL \notin GPUs \cup Clients
  /\ MODE \in {"AUTO", "SERIAL", "CONCURRENT"}
  /\ TOTAL_MEMORY \in Nat
  /\ MEMORY_RESERVE_PERCENT \in 0..100
  /\ CARRYOVER \in BOOLEAN
  /\ Limited \subseteq Clients
  /\ TQ_FIRES \in BOOLEAN
  /\ EPOLL_MAX_EVENTS \in Nat \ {0}
  /\ GarbageMem \subseteq Nat
  /\ GarbageRunning \subseteq BOOLEAN
  /\ SIGPIPE_FATAL \in BOOLEAN
  /\ STACK_LIMIT \in Nat
  /\ MAX_CTL \in Nat

VARIABLES
  scheduler_on,
  gpu_contexts,  \* struct gpu_context, by GPU
  clients,       \* struct nvshare_client, by client
  stack,         \* what the holder of global_mutex has left to do
  batch,         \* events[i..]: clients whose events main has still to handle
  locked,        \* main holds global_mutex between two events of a batch
  status,        \* "up", or how the scheduler process ended
  ctl            \* nvsharectl commands so far

schedVars == <<scheduler_on, gpu_contexts, clients, stack, batch, locked,
               status, ctl>>

SafeLimit == (TOTAL_MEMORY * (100 - MEMORY_RESERVE_PERCENT)) \div 100

(* The functions of the scheduler that are on its call stack, each at the   *)
(* point where it continues.                                                *)
Frames ==
  [op : {"check_wait_queue", "try_schedule", "retry", "retry_if_on"},
   gpu : GPUs]
    \cup [op : {"purge", "free"}, client : Clients]
    \cup [op : {"bcast_status"}, next : Clients \cup {NULL},
          rest : SUBSET Clients]
    \cup [op : {"clear_requests"}]

Contexts ==
  [requests : Seq(Clients), running_list : Seq(Clients),
   wait_queue : Seq(Clients), lock_held : BOOLEAN,
   running_memory_usage : Nat, memory_overloaded : BOOLEAN,
   window_expired : BOOLEAN]

ClientRecords ==
  [registered : BOOLEAN, context : GPUs \cup {NULL},
   memory_allocated : Nat, is_running : BOOLEAN, is_throttled : BOOLEAN,
   exhausted : BOOLEAN, pending_drop : BOOLEAN, drop_sent : BOOLEAN]

(* The variables of the scheduler have the types of the C structures.       *)
SchedTypeOK ==
  /\ scheduler_on \in BOOLEAN
  /\ gpu_contexts \in [GPUs -> Contexts]
  /\ clients \in [Clients -> ClientRecords]
  /\ stack \in Seq(Frames)
  /\ batch \in Seq(Clients)
  /\ locked \in BOOLEAN
  /\ status \in {"up", "sigpipe", "stack_overflow", "freed_client", "exit"}
  /\ ctl \in Nat

(* A gpu_context as get_or_create_gpu_context makes it.                     *)
NewContext ==
  [requests |-> <<>>, running_list |-> <<>>, wait_queue |-> <<>>,
   lock_held |-> FALSE, running_memory_usage |-> 0,
   memory_overloaded |-> FALSE, window_expired |-> FALSE]

NoClient ==
  [registered |-> FALSE, context |-> NULL, memory_allocated |-> 0,
   is_running |-> FALSE, is_throttled |-> FALSE, exhausted |-> FALSE,
   pending_drop |-> FALSE, drop_sent |-> FALSE]

SchedInit ==
  /\ scheduler_on = TRUE
  /\ gpu_contexts = [g \in GPUs |-> NewContext]
  /\ clients = [c \in Clients |-> NoClient]
  /\ stack = <<>> /\ batch = <<>> /\ locked = FALSE
  /\ status = "up" /\ ctl = 0

-----------------------------------------------------------------------------
(* Sending.  send_message fails where the peer is gone or the buffer full;  *)
(* what the callers do about a failure is theirs.  write() to a socket      *)
(* whose peer is gone also raises SIGPIPE, which nothing handles.           *)
send_message(S, m) ==
  /\ toClient' = Written(S, m)
  /\ status' = IF SIGPIPE_FATAL /\ \E c \in S : ~alive[c]
               THEN "sigpipe" ELSE status

-----------------------------------------------------------------------------
(* Admission.                                                               *)

(* Mutants: SERIAL mode, or the overload, is not looked at.                 *)
SerializedByOverload(ctx) == ctx.memory_overloaded
SerializedByMode(ctx) == MODE = "SERIAL"

(* One client at a time: by configuration, or since an overload.            *)
Serialized(ctx) == ctx.memory_overloaded \/ MODE = "SERIAL"

(* Mutant: the client's own memory is not added.                            *)
FitsUnadded(ctx, mem) == ctx.running_memory_usage <= SafeLimit

(* The first process always fits.                                           *)
FitsMemory(ctx, mem) ==
  \/ ctx.running_memory_usage = 0
  \/ ctx.running_memory_usage + mem <= SafeLimit

can_run_with_memory(g, c) ==
  LET ctx == gpu_contexts[g]
  IN  IF Serialized(ctx)
      THEN ~ctx.lock_held
      ELSE \/ FitsMemory(ctx, clients[c].memory_allocated)
           \/ MODE = "AUTO" /\ ~ctx.lock_held

can_run(g, c) ==
  /\ ~(c \in Limited /\ (clients[c].is_throttled \/ clients[c].exhausted))
  /\ can_run_with_memory(g, c)

(* Running quota-limited clients on g whose usage is settled when the       *)
(* running set changes (accrue_running_usage).                              *)
Accrued(g) ==
  {c \in Limited : /\ c \in Range(gpu_contexts[g].running_list)
                   /\ ~clients[c].pending_drop}

(* cs with the quota of the clients of E used up (v) or not.                *)
SetExhausted(cs, E, v) ==
  [c \in Clients |-> IF c \in E THEN [cs[c] EXCEPT !.exhausted = v] ELSE cs[c]]

(* The limited clients of g that share its window with c.  Their effective  *)
(* quotas shrink when c registers and grow when it leaves                   *)
(* (calculate_total_quota).                                                 *)
Sharers(cs, g, c) ==
  IF c \in Limited THEN {d \in Limited \ {c} : cs[d].context = g} ELSE {}

(* check_and_reset_window, once the window of g has expired.  Carry-over    *)
(* can leave a limited client over its quota from the start (the set R).    *)
ResetWindow(g, cs, R) ==
  [c \in Clients |->
     IF cs[c].context = g
     THEN [cs[c] EXCEPT !.is_throttled = FALSE, !.exhausted = c \in R]
     ELSE cs[c]]

CarriedOver(g, cs) ==
  IF CARRYOVER
  THEN SUBSET {c \in Limited : /\ cs[c].context = g
                               /\ \/ cs[c].exhausted
                                  \/ c \in Range(gpu_contexts[g].running_list)}
  ELSE {{}}

-----------------------------------------------------------------------------
(* The call stack.                                                          *)

Call(op, g) == [op |-> op, gpu |-> g]
Finish(op, c) == [op |-> op, client |-> c]

(* The innermost call is f.                                                 *)
At(f) == status = "up" /\ stack # <<>> /\ Head(stack) = f

(* A client record that has not been freed.                                 *)
Exists(c) == sock[c] = "accepted"

(* s without its i-th entry (LL_DELETE).                                    *)
RemoveAt(s, i) == SubSeq(s, 1, i - 1) \o SubSeq(s, i + 1, Len(s))

(* s without its first entry for c: the one LL_FOREACH meets first.         *)
Unlinked(s, c) ==
  IF c \in Range(s)
  THEN {RemoveAt(s, i) : i \in {j \in DOMAIN s :
                                  s[j] = c /\ \A k \in 1..(j-1) : s[k] # c}}
  ELSE {s}

(* Mutant: last_drop_sent_ms is not reset.                                  *)
ReleasedKeepsDrop(rec) ==
  [rec EXCEPT !.is_running = FALSE, !.pending_drop = FALSE]

(* What remove_req resets in a client that leaves running_list.             *)
Released(rec) ==
  [rec EXCEPT !.is_running = FALSE, !.pending_drop = FALSE, !.drop_sent = FALSE]

(* Mutants: lock_held is always, or never, cleared.                         *)
HeldNever(run, held) == FALSE
HeldStill(run, held) == held

(* lock_held when running_list has become run.                              *)
HeldAfter(run, held) == run # <<>> /\ held

(* running_memory_usage without mem, which it may not contain.              *)
Discharged(usage, mem) == IF usage >= mem THEN usage - mem ELSE 0

(* ctx when its running_list has become run: c, with record rec, has left.  *)
Unrun(ctx, rec, c, run) ==
  [ctx EXCEPT
     !.running_list = run,
     !.lock_held = HeldAfter(run, @),
     !.running_memory_usage = IF c \in Range(ctx.running_list)
                              THEN Discharged(@, rec.memory_allocated) ELSE @]

(* remove_req(c) on client records cs, then the work in rest.  Scheduling   *)
(* comes before the client's own pending requests are deleted ("purge").    *)
remove_req(cs, c, rest) ==
  LET g   == cs[c].context
      ctx == gpu_contexts[g]
      was == c \in Range(ctx.running_list)
  IN  IF g = NULL
      THEN /\ stack' = rest
           /\ clients' = cs
           /\ UNCHANGED gpu_contexts
      ELSE \E run \in Unlinked(ctx.running_list, c),
              E \in SUBSET IF was THEN Accrued(g) \cup ({c} \cap Limited)
                                  ELSE {} :
           /\ clients' = SetExhausted(IF was
                                     THEN [cs EXCEPT ![c] = Released(@)]
                                     ELSE cs, E, TRUE)
           /\ gpu_contexts' = [gpu_contexts EXCEPT ![g] =
                                 Unrun(ctx, cs[c], c, run)]
           /\ stack' = (IF run = <<>>
                        THEN <<Call("check_wait_queue", g),
                               Call("try_schedule", g)>>
                        ELSE <<>>) \o (<<Finish("purge", c)>> \o rest)

delete_client(cs, c, rest) == remove_req(cs, c, <<Finish("free", c)>> \o rest)

(* Mutant: wait_queue is forgotten.                                         *)
PurgedRequests(ctx, c) ==
  IF c \in Range(ctx.requests)
  THEN {[ctx EXCEPT !.requests = s] : s \in Unlinked(ctx.requests, c)}
  ELSE {}

(* ctx with one entry of c fewer in requests or, after that, in wait_queue. *)
Purged(ctx, c) ==
  IF c \in Range(ctx.requests)
  THEN {[ctx EXCEPT !.requests = s] : s \in Unlinked(ctx.requests, c)}
  ELSE IF c \in Range(ctx.wait_queue)
  THEN {[ctx EXCEPT !.wait_queue = s] : s \in Unlinked(ctx.wait_queue, c)}
  ELSE {}

(* The rest of remove_req, an entry of c per step.  client->fd is read, so  *)
(* c must not have been freed meanwhile.                                    *)
Purge(c) ==
  LET g   == clients[c].context
      ctx == gpu_contexts[g]
  IN  /\ At(Finish("purge", c))
      /\ IF ~Exists(c)
         THEN status' = "freed_client" /\ UNCHANGED <<gpu_contexts, stack>>
         ELSE /\ UNCHANGED status
              /\ \/ /\ \E p \in Purged(ctx, c) :
                         gpu_contexts' = [gpu_contexts EXCEPT ![g] = p]
                    /\ UNCHANGED stack
                 \/ /\ Purged(ctx, c) = {}
                    /\ stack' = Tail(stack)
                    /\ UNCHANGED gpu_contexts
      /\ UNCHANGED <<scheduler_on, clients, batch, locked, ctl, commVars>>

(* The rest of delete_client: unlink, free, EPOLL_CTL_DEL (which must       *)
(* succeed) and close.                                                      *)
Free(c) ==
  /\ At(Finish("free", c))
  /\ stack' = Tail(stack)
  /\ IF Exists(c)
     THEN /\ sock' = [sock EXCEPT ![c] = "closed"]
          /\ toSched' = [toSched EXCEPT ![c] = <<>>]
          /\ \E U \in SUBSET Sharers(clients, clients[c].context, c) :
               clients' = [SetExhausted(clients, U, FALSE) EXCEPT ![c] = NoClient]
          /\ UNCHANGED status
     ELSE status' = "exit" /\ UNCHANGED <<sock, toSched, clients>>
  /\ UNCHANGED <<scheduler_on, gpu_contexts, batch, locked, ctl, alive,
                 toClient>>

-----------------------------------------------------------------------------
(* try_schedule and check_wait_queue.                                       *)

(* can_run resets an expired window before it looks at the client.          *)
ResetInCanRun(g) ==
  /\ \/ At(Call("check_wait_queue", g)) /\ gpu_contexts[g].wait_queue # <<>>
     \/ /\ At(Call("try_schedule", g))
        /\ gpu_contexts[g].requests \o gpu_contexts[g].wait_queue # <<>>
  /\ gpu_contexts[g].window_expired
  /\ gpu_contexts' = [gpu_contexts EXCEPT ![g].window_expired = FALSE]
  /\ \E R \in CarriedOver(g, clients) : clients' = ResetWindow(g, clients, R)
  /\ UNCHANGED <<scheduler_on, stack, batch, locked, status, ctl, commVars>>

(* Mutant: only the head of wait_queue is considered.                       *)
EligibleHead(g) ==
  {i \in {1} \cap DOMAIN gpu_contexts[g].wait_queue :
     can_run(g, gpu_contexts[g].wait_queue[i])}

(* The place in wait_queue of the first client that can run, if any can.    *)
Eligible(g) ==
  LET wq == gpu_contexts[g].wait_queue
  IN  {i \in DOMAIN wq : /\ can_run(g, wq[i])
                         /\ \A j \in 1..(i-1) : ~can_run(g, wq[j])}

(* It moves to the front of requests.                                       *)
Promote(g) ==
  LET ctx == gpu_contexts[g]
      wq  == ctx.wait_queue
  IN  \E i \in Eligible(g) :
        /\ gpu_contexts' = [gpu_contexts EXCEPT ![g] =
             [ctx EXCEPT !.wait_queue = RemoveAt(wq, i),
                         !.requests = <<wq[i]>> \o @]]
        /\ send_message({wq[i]}, "MEM_AVAILABLE")

(* The window is fresh, or can_run is not going to be called.               *)
WindowFresh(g, s) == s = <<>> \/ ~gpu_contexts[g].window_expired

CheckWaitQueue(g) ==
  /\ At(Call("check_wait_queue", g))
  /\ WindowFresh(g, gpu_contexts[g].wait_queue)
  /\ \/ Promote(g)
     \/ Eligible(g) = {} /\ UNCHANGED <<gpu_contexts, toClient, status>>
  /\ stack' = Tail(stack)
  /\ UNCHANGED <<scheduler_on, clients, batch, locked, ctl, alive, sock,
                 toSched>>

(* try_again with no requests: promote a waiter and go on, or return.       *)
TryEmpty(g) ==
  /\ At(Call("try_schedule", g))
  /\ gpu_contexts[g].requests = <<>>
  /\ WindowFresh(g, gpu_contexts[g].wait_queue)
  /\ \/ Promote(g) /\ UNCHANGED stack
     \/ /\ Eligible(g) = {}
        /\ stack' = Tail(stack)
        /\ UNCHANGED <<gpu_contexts, toClient, status>>
  /\ UNCHANGED <<scheduler_on, clients, batch, locked, ctl, alive, sock,
                 toSched>>

(* The head of requests, at the point where can_run has been evaluated.     *)
TryHead(g, c) ==
  /\ At(Call("try_schedule", g))
  /\ gpu_contexts[g].requests # <<>>
  /\ Head(gpu_contexts[g].requests) = c
  /\ ~gpu_contexts[g].window_expired

(* Mutant: the request stays in requests as well.                           *)
copy_to_wait_queue(ctx, c) ==
  IF c \in Range(ctx.wait_queue) THEN ctx
  ELSE [ctx EXCEPT !.wait_queue = Append(@, c)]

(* c, the head of requests, waits; one that waits already keeps its request. *)
move_to_wait_queue(ctx, c) ==
  IF c \in Range(ctx.wait_queue) THEN ctx
  ELSE [ctx EXCEPT !.requests = Tail(@), !.wait_queue = Append(@, c)]

(* The head of requests cannot run: WAIT_FOR_MEM, unless it is throttled.   *)
TryDefer(g, c) ==
  /\ TryHead(g, c)
  /\ ~can_run(g, c)
  /\ gpu_contexts' = [gpu_contexts EXCEPT ![g] = move_to_wait_queue(@, c)]
  /\ IF \/ c \in Range(gpu_contexts[g].wait_queue)
        \/ c \in Limited /\ clients[c].is_throttled
     THEN UNCHANGED <<toClient, status>>
     ELSE send_message({c}, "WAIT_FOR_MEM")
  /\ UNCHANGED <<scheduler_on, clients, stack, batch, locked, ctl, alive,
                 sock, toSched>>

(* LOCK_OK cannot be sent: delete the client and try again.                 *)
TryDead(g, c) ==
  /\ TryHead(g, c)
  /\ can_run(g, c)
  /\ ~Writable(c)
  /\ IF ~alive[c] /\ SIGPIPE_FATAL
     THEN status' = "sigpipe" /\ UNCHANGED <<gpu_contexts, clients, stack>>
     ELSE IF Len(stack) >= STACK_LIMIT
     THEN status' = "stack_overflow"
          /\ UNCHANGED <<gpu_contexts, clients, stack>>
     ELSE delete_client(clients, c, stack) /\ UNCHANGED status
  /\ UNCHANGED <<scheduler_on, batch, locked, ctl, commVars>>

(* LOCK_OK is sent: the head of requests runs.                              *)
TryGrant(g, c) ==
  /\ TryHead(g, c)
  /\ can_run(g, c)
  /\ Writable(c)
  /\ toClient' = Written({c}, "LOCK_OK")
  /\ gpu_contexts' = [gpu_contexts EXCEPT
       ![g].requests = Tail(@),
       ![g].running_list = Append(@, c),
       ![g].lock_held = TRUE,
       ![g].running_memory_usage = @ + clients[c].memory_allocated]
  /\ \E E \in SUBSET Accrued(g) :
       clients' = [SetExhausted(clients, E, TRUE) EXCEPT
                    ![c].is_running = TRUE, ![c].pending_drop = FALSE]
  /\ stack' = IF MODE = "SERIAL" THEN Tail(stack) ELSE stack
  /\ UNCHANGED <<scheduler_on, batch, locked, status, ctl, alive, sock,
                 toSched>>

(* "if (!ctx->lock_held) try_schedule(ctx)" after a release, with           *)
(* "&& scheduler_on" after a disconnect.                                    *)
Retry(g) ==
  /\ At(Call("retry", g)) \/ At(Call("retry_if_on", g))
  /\ stack' = IF /\ ~gpu_contexts[g].lock_held
                 /\ Head(stack).op = "retry_if_on" => scheduler_on
              THEN <<Call("try_schedule", g)>> \o Tail(stack)
              ELSE Tail(stack)
  /\ UNCHANGED <<scheduler_on, gpu_contexts, clients, batch, locked, status,
                 ctl, commVars>>

(* One iteration of bcast_status' loop.  LL_FOREACH_SAFE has saved the next *)
(* client, which a delete_client of this iteration may free.                *)
After(S) == IF S = {} THEN {NULL} ELSE S

BcastFrame(n, S) == [op |-> "bcast_status", next |-> n, rest |-> S \ {n}]

Bcast ==
  LET c    == Head(stack).next
      msg  == IF scheduler_on THEN "SCHED_ON" ELSE "SCHED_OFF"
      S    == {d \in Head(stack).rest : Exists(d)}
      rest == {<<BcastFrame(n, S)>> \o Tail(stack) : n \in After(S)}
      Stop(how) == /\ status' = how
                   /\ UNCHANGED <<gpu_contexts, clients, stack, toClient>>
  IN
  /\ status = "up" /\ stack # <<>> /\ Head(stack).op = "bcast_status"
  /\ IF c = NULL
     THEN stack' = Tail(stack)
          /\ UNCHANGED <<gpu_contexts, clients, status, toClient>>
     ELSE IF ~Exists(c) THEN Stop("freed_client")
     ELSE IF ~clients[c].registered
     THEN stack' \in rest
          /\ UNCHANGED <<gpu_contexts, clients, status, toClient>>
     ELSE IF Writable(c)
     THEN stack' \in rest /\ toClient' = Written({c}, msg)
          /\ UNCHANGED <<gpu_contexts, clients, status>>
     ELSE IF ~alive[c] /\ SIGPIPE_FATAL THEN Stop("sigpipe")
     ELSE \E r \in rest :
            delete_client(clients, c, r) /\ UNCHANGED <<status, toClient>>
  /\ UNCHANGED <<scheduler_on, batch, locked, ctl, alive, sock, toSched>>

(* Mutant: running_list is cleared in the place of lock_held.               *)
ClearRunning ==
  /\ At([op |-> "clear_requests"])
  /\ gpu_contexts' = [g \in GPUs |->
       [gpu_contexts[g] EXCEPT !.requests = <<>>, !.running_list = <<>>]]
  /\ stack' = Tail(stack)
  /\ UNCHANGED <<scheduler_on, clients, batch, locked, status, ctl, commVars>>

(* SCHED_OFF after the broadcast: requests and lock_held are cleared;       *)
(* running_list and wait_queue stay.                                        *)
ClearRequests ==
  /\ At([op |-> "clear_requests"])
  /\ gpu_contexts' = [g \in GPUs |->
       [gpu_contexts[g] EXCEPT !.requests = <<>>, !.lock_held = FALSE]]
  /\ stack' = Tail(stack)
  /\ UNCHANGED <<scheduler_on, clients, batch, locked, status, ctl, commVars>>

-----------------------------------------------------------------------------
(* The main loop.                                                           *)

(* Clients with something to read: a message, or the end of the stream.     *)
Ready == {c \in Clients : Exists(c) /\ (toSched[c] # <<>> \/ ~alive[c])}

(* epoll_wait, without the mutex: everybody who is ready, in some order, up *)
(* to EPOLL_MAX_EVENTS.                                                     *)
EpollWait ==
  /\ status = "up" /\ batch = <<>>
  /\ stack = <<>> \/ ~locked
  /\ \E n \in 1..EPOLL_MAX_EVENTS :
       /\ n \in {EPOLL_MAX_EVENTS, Cardinality(Ready)}
       /\ \E b \in [1..n -> Ready] : IsInjective(b) /\ batch' = b
  /\ locked' = FALSE
  /\ UNCHANGED <<scheduler_on, gpu_contexts, clients, stack, status, ctl,
                 commVars>>

(* A new connection.  malloc leaves garbage in the fields not assigned.     *)
Accept(c) ==
  /\ status = "up" /\ stack = <<>>
  /\ sock[c] = "pending"
  /\ sock' = [sock EXCEPT ![c] = "accepted"]
  /\ \E m \in GarbageMem, r \in GarbageRunning :
       clients' = [clients EXCEPT ![c] =
         [NoClient EXCEPT !.memory_allocated = m, !.is_running = r]]
  /\ locked' = TRUE
  /\ UNCHANGED <<scheduler_on, gpu_contexts, stack, batch, status, ctl, alive,
                 toSched, toClient>>

(* main takes the next event of its batch; it is about client c.            *)
Event(c) ==
  /\ status = "up" /\ stack = <<>>
  /\ batch # <<>> /\ Head(batch) = c
  /\ batch' = Tail(batch)
  /\ locked' = TRUE
  /\ UNCHANGED <<scheduler_on, ctl, alive, sock>>

(* The client of the event was freed after epoll_wait returned.             *)
StaleEvent(c) ==
  /\ Event(c)
  /\ ~Exists(c)
  /\ status' = "freed_client"
  /\ UNCHANGED <<gpu_contexts, clients, stack, toSched, toClient>>

Disconnect(c) ==
  /\ Event(c)
  /\ Exists(c) /\ toSched[c] = <<>>
  /\ delete_client(clients, c,
       IF clients[c].context = NULL THEN <<>>
       ELSE <<Call("retry_if_on", clients[c].context)>>)
  /\ UNCHANGED <<status, toSched, toClient>>

(* receive_message and the switch of process_msg.                           *)
Message(c, type) ==
  /\ Event(c)
  /\ Exists(c) /\ toSched[c] # <<>>
  /\ Head(toSched[c]).type = type
  /\ toSched' = [toSched EXCEPT ![c] = Tail(@)]

(* "Slam the door": the message needs a registered client.                  *)
Unregistered(c) ==
  /\ ~clients[c].registered
  /\ delete_client(clients, c, <<>>)
  /\ UNCHANGED <<status, toClient>>

Ignore == UNCHANGED <<gpu_contexts, clients, stack, status, toClient>>

(* register_client.  A registered client, or one that cannot be answered,   *)
(* is deleted.                                                              *)
Register(c) ==
  LET g   == Head(toSched[c]).gpu
      msg == IF scheduler_on THEN "SCHED_ON" ELSE "SCHED_OFF"
      rec == [clients[c] EXCEPT !.registered = TRUE, !.context = g,
                !.is_throttled = FALSE, !.exhausted = FALSE,
                !.pending_drop = FALSE, !.drop_sent = FALSE]
  IN  /\ Message(c, "REGISTER")
      /\ \/ /\ clients[c].registered
            /\ delete_client(clients, c, <<>>)
            /\ UNCHANGED <<status, toClient>>
         \/ /\ ~clients[c].registered
            /\ send_message({c}, msg)
            /\ \E E \in SUBSET Sharers(clients, g, c) :
                 LET cs == [SetExhausted(clients, E, TRUE) EXCEPT ![c] = rec]
                 IN  IF Writable(c) \/ status' # "up"
                     THEN clients' = cs /\ UNCHANGED <<gpu_contexts, stack>>
                     ELSE delete_client(cs, c, <<>>)

ReqLock(c) ==
  LET g == clients[c].context
      s == gpu_contexts[g].requests
  IN  /\ Message(c, "REQ_LOCK")
      /\ \/ Unregistered(c)
         \/ clients[c].registered /\ ~scheduler_on /\ Ignore
         \/ /\ clients[c].registered /\ scheduler_on
            /\ gpu_contexts' = [gpu_contexts EXCEPT ![g].requests =
                 IF c \in Range(s) THEN s ELSE Append(s, c)]
            /\ stack' = IF MODE = "SERIAL" THEN <<Call("retry", g)>>
                        ELSE <<Call("try_schedule", g)>>
            /\ UNCHANGED <<clients, status, toClient>>

LockReleased(c) ==
  /\ Message(c, "LOCK_RELEASED")
  /\ \/ Unregistered(c)
     \/ clients[c].registered /\ ~scheduler_on /\ Ignore
     \/ /\ clients[c].registered /\ scheduler_on
        /\ remove_req(clients, c, <<Call("retry", clients[c].context)>>)
        /\ UNCHANGED <<status, toClient>>

(* Mutants: the old report is not taken off; both tests are dropped.        *)
ChargedTwice(usage, rec, new) == IF rec.is_running THEN usage + new ELSE usage
ChargedAlways(usage, rec, new) == usage - rec.memory_allocated + new

(* running_memory_usage when the client with record rec reports new.        *)
Charged(usage, rec, new) ==
  LET old == rec.memory_allocated
  IN  IF rec.is_running THEN (IF usage >= old THEN usage - old ELSE usage) + new
      ELSE usage

(* MEM_UPDATE, with force_preemption when an overload is detected: a        *)
(* DROP_LOCK to every running client.                                       *)
MemUpdate(c) ==
  LET g   == clients[c].context
      ctx == gpu_contexts[g]
      new == Head(toSched[c]).memory_usage
      use == Charged(ctx.running_memory_usage, clients[c], new)
      overload == /\ clients[c].is_running
                  /\ ~ctx.memory_overloaded /\ use > SafeLimit
      R   == Range(ctx.running_list)
      rec == [clients EXCEPT ![c].memory_allocated = new]
  IN  /\ Message(c, "MEM_UPDATE")
      /\ UNCHANGED stack
      /\ IF ~clients[c].registered THEN Ignore
         ELSE /\ gpu_contexts' = [gpu_contexts EXCEPT
                   ![g].running_memory_usage = use,
                   ![g].memory_overloaded = @ \/ overload]
              /\ IF overload
                 THEN /\ send_message(R, "DROP_LOCK")
                      /\ clients' = [d \in Clients |->
                           IF d \in R /\ Writable(d)
                           THEN [rec[d] EXCEPT !.drop_sent = TRUE] ELSE rec[d]]
                 ELSE clients' = rec /\ UNCHANGED <<status, toClient>>

-----------------------------------------------------------------------------
(* nvsharectl: SCHED_ON and SCHED_OFF, sent on a connection of its own and  *)
(* handled like any other event.  One that changes nothing is left out.     *)

(* The broadcast to every client record, in any order.                      *)
bcast_status(rest) ==
  LET S == {c \in Clients : Exists(c)}
  IN  \E n \in After(S) : stack' = <<BcastFrame(n, S)>> \o rest

Command(on, rest) ==
  /\ status = "up" /\ stack = <<>>
  /\ ctl < MAX_CTL /\ ctl' = ctl + 1
  /\ scheduler_on = ~on
  /\ scheduler_on' = on
  /\ bcast_status(rest)
  /\ locked' = TRUE
  /\ UNCHANGED <<gpu_contexts, clients, batch, status, commVars>>

SchedOn == Command(TRUE, <<>>)
SchedOff == Command(FALSE, <<[op |-> "clear_requests"]>>)

-----------------------------------------------------------------------------
(* The timer thread of GPU g: one wake-up of timer_thr_fn, from the return  *)
(* of pthread_cond_timedwait to the next wait.                              *)

MutexFree == stack = <<>> /\ (~locked \/ batch = <<>>)

(* Mutant: a client that was told to drop the lock, and whose window was    *)
(* reset since, is told again.                                              *)
ThrottleableAgain(g) ==
  {c \in Limited : /\ c \in Range(gpu_contexts[g].running_list)
                   /\ ~clients[c].is_throttled}

(* Running limited clients that the quota check may throttle.               *)
Throttleable(g) ==
  {c \in Limited : /\ c \in Range(gpu_contexts[g].running_list)
                   /\ ~clients[c].is_throttled
                   /\ ~clients[c].pending_drop}

(* Running clients that a full time quantum preempts, T just throttled.     *)
Preempted(g, T) ==
  LET ctx == gpu_contexts[g]
  IN  IF TQ_FIRES /\ ctx.requests \o ctx.wait_queue # <<>>
      THEN {c \in Range(ctx.running_list) \ T :
              ~clients[c].is_throttled /\ ~clients[c].drop_sent}
      ELSE {}

(* Mutant: it does not.                                                     *)
NothingAfterReset(g, expired) == <<>>

(* After a window reset the timer thread tries to schedule.                 *)
AfterReset(g, expired) == IF expired THEN <<Call("try_schedule", g)>> ELSE <<>>

timer_thr_fn(g, tq_elapsed) ==
  LET expired == gpu_contexts[g].window_expired
  IN
  /\ status = "up" /\ MutexFree
  /\ \E T \in SUBSET Throttleable(g) :
       LET P  == IF tq_elapsed THEN Preempted(g, T) ELSE {}
           cs == [c \in Clients |->
                    IF c \in T
                    THEN [clients[c] EXCEPT !.is_throttled = TRUE,
                            !.exhausted = TRUE, !.pending_drop = TRUE,
                            !.drop_sent = TRUE]
                    ELSE IF c \in P
                    THEN [clients[c] EXCEPT !.pending_drop = TRUE,
                            !.drop_sent = TRUE]
                    ELSE clients[c]]
       IN  /\ \A c \in Throttleable(g) \ T : ~clients[c].exhausted
           /\ IF tq_elapsed THEN P # {} ELSE expired \/ T # {}
           /\ send_message(T \cup P, "DROP_LOCK")
           /\ IF expired
              THEN \E R \in CarriedOver(g, cs) : clients' = ResetWindow(g, cs, R)
              ELSE clients' = cs
  /\ gpu_contexts' = [gpu_contexts EXCEPT ![g].window_expired = FALSE]
  /\ stack' = AfterReset(g, expired)
  /\ locked' = FALSE
  /\ UNCHANGED <<scheduler_on, batch, ctl, alive, sock, toSched>>

(* Time passes: compute_window_ms since the last reset.                     *)
WindowElapses(g) ==
  /\ status = "up"
  /\ ~gpu_contexts[g].window_expired
  /\ gpu_contexts' = [gpu_contexts EXCEPT ![g].window_expired = TRUE]
  /\ UNCHANGED <<scheduler_on, clients, stack, batch, locked, status, ctl,
                 commVars>>

-----------------------------------------------------------------------------
(* The step of the innermost call, other than a window reset.               *)
StackStep ==
  \/ \E g \in GPUs : CheckWaitQueue(g) \/ TryEmpty(g) \/ Retry(g)
  \/ \E g \in GPUs, c \in Clients :
       TryDefer(g, c) \/ TryDead(g, c) \/ TryGrant(g, c)
  \/ \E c \in Clients : Purge(c) \/ Free(c)
  \/ Bcast
  \/ ClearRequests

(* The next event of the batch.                                             *)
EventStep(c) ==
  StaleEvent(c) \/ Disconnect(c) \/ Register(c) \/ ReqLock(c)
    \/ LockReleased(c) \/ MemUpdate(c)

MainStep == EpollWait \/ \E c \in Clients : Accept(c) \/ EventStep(c)

TimerStep(g) ==
  ResetInCanRun(g) \/ WindowElapses(g)
    \/ \E tq_elapsed \in BOOLEAN : timer_thr_fn(g, tq_elapsed)

SchedNext ==
  StackStep \/ MainStep \/ SchedOn \/ SchedOff \/ \E g \in GPUs : TimerStep(g)

-----------------------------------------------------------------------------
(* lock_held, which the admission checks read instead of running_list, is   *)
(* set only while somebody runs; before the first SCHED_OFF it is set       *)
(* exactly then.                                                            *)
LockHeldMeansRunning ==
  \A g \in GPUs :
    LET ctx == gpu_contexts[g]
    IN  /\ ctx.lock_held => ctx.running_list # <<>>
        /\ ctl = 0 /\ ctx.running_list # <<>> => ctx.lock_held

(* "In SERIAL mode: schedules at most one client" (try_schedule): no GPU    *)
(* ever runs two, whatever crashes, releases, deferrals and nested          *)
(* deletions happen in between, until the scheduler is first switched off.  *)
SerialOneRunner ==
  MODE = "SERIAL" /\ ctl = 0 =>
    \A g \in GPUs : Len(gpu_contexts[g].running_list) <= 1

=============================================================================
