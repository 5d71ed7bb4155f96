-------------------------- MODULE SchedulerProofs --------------------------
(***************************************************************************)
(* Proofs about the scheduler: every step of Scheduler!SchedNext keeps the *)
(* types, keeps lock_held in step with running_list and, in SERIAL mode,   *)
(* runs at most one client per GPU.                                        *)
(***************************************************************************)
EXTENDS Scheduler, SequenceTheorems, TLAPS

-----------------------------------------------------------------------------
(* Sequences.                                                               *)

(* Deleting one list element leaves a list that is shorter by one.          *)
LEMMA RemoveAtType ==
  ASSUME NEW S, NEW s \in Seq(S), NEW i \in 1..Len(s)
  PROVE  /\ RemoveAt(s, i) \in Seq(S)
         /\ Len(RemoveAt(s, i)) = Len(s) - 1
<1> DEFINE a == SubSeq(s, 1, i - 1)
           b == SubSeq(s, i + 1, Len(s))
<1>1. a \in Seq(S) /\ Len(a) = i - 1
  BY SubSeqProperties
<1>2. b \in Seq(S) /\ Len(b) = Len(s) - i
  BY SubSeqProperties
<1>3. a \o b \in Seq(S) /\ Len(a \o b) = Len(a) + Len(b)
  BY <1>1, <1>2, ConcatProperties
<1>4. RemoveAt(s, i) = a \o b
  BY DEF RemoveAt
<1>5. Len(s) \in Nat /\ i \in Nat
  OBVIOUS
<1>6. RemoveAt(s, i) \in Seq(S) /\ Len(RemoveAt(s, i)) = Len(a) + Len(b)
  BY <1>3, <1>4, Zenon
<1>7. (i - 1) + (Len(s) - i) = Len(s) - 1
  BY <1>5
<1>8. QED
  BY <1>1, <1>2, <1>6, <1>7, Zenon

(* LL_DELETE of the first entry of c.                                       *)
LEMMA UnlinkedType ==
  ASSUME NEW S, NEW s \in Seq(S), NEW c, NEW r \in Unlinked(s, c)
  PROVE  /\ r \in Seq(S)
         /\ Len(r) <= Len(s)
         /\ c \notin Range(s) => r = s
<1>1. CASE c \in Range(s)
  <2>1. PICK i \in DOMAIN s : r = RemoveAt(s, i)
    BY <1>1 DEF Unlinked
  <2>2. i \in 1..Len(s)
    OBVIOUS
  <2>3. QED
    BY <1>1, <2>1, <2>2, RemoveAtType
<1>2. CASE c \notin Range(s)
  BY <1>2 DEF Unlinked
<1>3. QED
  BY <1>1, <1>2

(* Entries come only from the sequence they are taken out of.               *)
LEMMA RangeType ==
  ASSUME NEW S, NEW s \in Seq(S)
  PROVE  Range(s) \subseteq S
BY DEF Range

-----------------------------------------------------------------------------
(* The helpers of the scheduler return values of the right type.            *)

(* Sending to any set of clients.                                           *)
LEMMA WrittenType ==
  ASSUME CommTypeOK, NEW D, NEW m \in ToClientMsgs
  PROVE  Written(D, m) \in [Clients -> Seq(ToClientMsgs)]
BY AppendProperties DEF Written, CommTypeOK

(* A registered client has a GPU.                                           *)
GoodRecords == {r \in ClientRecords : r.registered => r.context # NULL}

(* Settling and resetting quotas keeps client records.                      *)
LEMMA QuotaTypes ==
  ASSUME NEW cs \in [Clients -> GoodRecords], NEW E, NEW v \in BOOLEAN, NEW g
  PROVE  /\ SetExhausted(cs, E, v) \in [Clients -> GoodRecords]
         /\ ResetWindow(g, cs, E) \in [Clients -> GoodRecords]
<1>1. ASSUME NEW c \in Clients
      PROVE  /\ [cs[c] EXCEPT !.exhausted = v] \in GoodRecords
             /\ [cs[c] EXCEPT !.is_throttled = FALSE, !.exhausted = c \in E]
                  \in GoodRecords
  <2>1. cs[c] \in GoodRecords /\ (c \in E) \in BOOLEAN
    OBVIOUS
  <2>2. QED
    BY Zenon, <2>1 DEF ClientRecords, GoodRecords
<1>2. QED
  BY Zenon, <1>1 DEF SetExhausted, ResetWindow

(* The calls of the scheduler are frames.                                   *)
HandlerFrames == Frames \ {[op |-> "clear_requests"]}

LEMMA FrameTypes ==
  /\ \A g \in GPUs :
       \A op \in {"check_wait_queue", "try_schedule", "retry", "retry_if_on"} :
         Call(op, g) \in HandlerFrames
  /\ \A c \in Clients : \A op \in {"purge", "free"} :
       Finish(op, c) \in HandlerFrames
  /\ \A n \in Clients \cup {NULL} : \A S \in SUBSET Clients :
       BcastFrame(n, S) \in HandlerFrames
  /\ HandlerFrames \subseteq Frames
<1>1. ASSUME NEW g \in GPUs,
             NEW op \in {"check_wait_queue", "try_schedule", "retry",
                         "retry_if_on"}
      PROVE  Call(op, g) \in Frames /\ Call(op, g) # [op |-> "clear_requests"]
  BY DEF Call, Frames
<1>2. ASSUME NEW c \in Clients, NEW op \in {"purge", "free"}
      PROVE  Finish(op, c) \in Frames /\ Finish(op, c) # [op |-> "clear_requests"]
  BY DEF Finish, Frames
<1>3. ASSUME NEW n \in Clients \cup {NULL}, NEW S \in SUBSET Clients
      PROVE  /\ BcastFrame(n, S) \in Frames
             /\ BcastFrame(n, S) # [op |-> "clear_requests"]
  BY DEF BcastFrame, Frames
<1>4. QED
  BY <1>1, <1>2, <1>3, Zenon DEF HandlerFrames

-----------------------------------------------------------------------------
(* The inductive invariant.  Besides the types it says of every GPU how     *)
(* lock_held and running_list go together, and that a SCHED_OFF handler is  *)
(* on the stack only after a command of nvsharectl.                         *)

ContextOK(ctx, quiet) ==
  /\ ctx.lock_held => ctx.running_list # <<>>
  /\ quiet /\ ctx.running_list # <<>> => ctx.lock_held
  /\ quiet /\ MODE = "SERIAL" => Len(ctx.running_list) <= 1

Good(cs, gc, st, quiet) ==
  /\ cs \in [Clients -> GoodRecords]
  /\ gc \in [GPUs -> Contexts]
  /\ \A g \in GPUs : ContextOK(gc[g], quiet)
  /\ st \in Seq(Frames)
  /\ quiet => st \in Seq(HandlerFrames)

SchedInv ==
  CommTypeOK /\ SchedTypeOK /\ Good(clients, gpu_contexts, stack, ctl = 0)

(* A changed context that is right leaves the contexts right.               *)
LEMMA ContextUpdate ==
  ASSUME NEW gc \in [GPUs -> Contexts], NEW quiet \in BOOLEAN,
         \A h \in GPUs : ContextOK(gc[h], quiet),
         NEW g \in GPUs, NEW ctx \in Contexts, ContextOK(ctx, quiet)
  PROVE  /\ [gc EXCEPT ![g] = ctx] \in [GPUs -> Contexts]
         /\ \A h \in GPUs : ContextOK([gc EXCEPT ![g] = ctx][h], quiet)
OBVIOUS

(* Frames pushed on the stack.                                              *)
LEMMA Pushed ==
  ASSUME NEW quiet \in BOOLEAN, NEW top \in Seq(HandlerFrames), NEW rest \in Seq(Frames),
         quiet => rest \in Seq(HandlerFrames)
  PROVE  /\ top \o rest \in Seq(Frames)
         /\ quiet => top \o rest \in Seq(HandlerFrames)
<1>1. top \in Seq(Frames)
  BY FrameTypes
<1>2. top \o rest \in Seq(Frames)
  BY <1>1, ConcatProperties
<1>3. quiet => top \o rest \in Seq(HandlerFrames)
  BY ConcatProperties
<1>4. QED
  BY <1>2, <1>3

(* The innermost call returned.                                             *)
LEMMA Popped ==
  ASSUME NEW quiet \in BOOLEAN, NEW st \in Seq(Frames), quiet => st \in Seq(HandlerFrames),
         st # <<>>
  PROVE  /\ Tail(st) \in Seq(Frames)
         /\ quiet => Tail(st) \in Seq(HandlerFrames)
         /\ Head(st) \in Frames
         /\ quiet => Head(st) \in HandlerFrames
BY HeadTailProperties

(* A context that a client has left is right.                               *)
LEMMA UnrunGood ==
  ASSUME NEW quiet \in BOOLEAN, NEW ctx \in Contexts, ContextOK(ctx, quiet),
         NEW rec \in ClientRecords, NEW c,
         NEW run \in Unlinked(ctx.running_list, c)
  PROVE  Unrun(ctx, rec, c, run) \in Contexts /\ ContextOK(Unrun(ctx, rec, c, run), quiet)
<1> DEFINE new == Unrun(ctx, rec, c, run)
<1>1. ctx.running_list \in Seq(Clients) /\ ctx.lock_held \in BOOLEAN
  BY DEF Contexts
<1>2. run \in Seq(Clients) /\ Len(run) <= Len(ctx.running_list)
  BY <1>1, UnlinkedType
<1>3. new \in Contexts
  <2>1. rec.memory_allocated \in Nat /\ ctx.running_memory_usage \in Nat
    BY DEF ClientRecords, Contexts
  <2>2. Discharged(ctx.running_memory_usage, rec.memory_allocated) \in Nat
    BY <2>1 DEF Discharged
  <2>3. HeldAfter(run, ctx.lock_held) \in BOOLEAN
    BY <1>1 DEF HeldAfter
  <2>4. QED
    BY Zenon, <1>2, <2>2, <2>3 DEF Contexts, Unrun
<1>4. new.running_list = run /\ new.lock_held = HeldAfter(run, ctx.lock_held)
  BY DEF Contexts, Unrun
<1>5. run # <<>> => ctx.running_list # <<>>
  BY <1>1, <1>2
<1> HIDE DEF new
<1>6. new.lock_held => new.running_list # <<>>
  BY <1>4, Zenon DEF HeldAfter
<1>7. quiet /\ new.running_list # <<>> => new.lock_held
  BY <1>4, <1>5, Zenon DEF ContextOK, HeldAfter
<1>8. quiet /\ MODE = "SERIAL" => Len(new.running_list) <= 1
  <2>1. Len(ctx.running_list) \in Nat /\ Len(run) \in Nat
    BY <1>1, <1>2
  <2>2. QED
    BY <1>2, <1>4, <2>1 DEF ContextOK
<1>9. ContextOK(new, quiet)
  BY <1>6, <1>7, <1>8, Zenon DEF ContextOK
<1>10. QED
  BY <1>3, <1>9 DEF new

(* remove_req keeps the invariant, whatever there is to do afterwards.      *)
LEMMA RemoveReqGood ==
  ASSUME NEW quiet \in BOOLEAN, NEW cs, NEW c \in Clients, NEW rest,
         Good(cs, gpu_contexts, rest, quiet),
         remove_req(cs, c, rest)
  PROVE  Good(clients', gpu_contexts', stack', quiet)
<1>1. CASE cs[c].context = NULL
  BY <1>1 DEF remove_req, Good
<1>2. ASSUME NEW g, g = cs[c].context, g # NULL
      PROVE  Good(clients', gpu_contexts', stack', quiet)
  <2>1. /\ cs[c] \in GoodRecords /\ cs[c] \in ClientRecords
        /\ g \in GPUs /\ gpu_contexts[g] \in Contexts
        /\ ContextOK(gpu_contexts[g], quiet)
    BY <1>2 DEF ClientRecords, GoodRecords, Good
  <2>2. PICK run, E :
          /\ run \in Unlinked(gpu_contexts[g].running_list, c)
          /\ \/ clients' = SetExhausted([cs EXCEPT ![c] = Released(@)], E, TRUE)
             \/ clients' = SetExhausted(cs, E, TRUE)
          /\ gpu_contexts' = [gpu_contexts EXCEPT ![g] =
                                Unrun(gpu_contexts[g], cs[c], c, run)]
          /\ stack' = (IF run = <<>>
                       THEN <<Call("check_wait_queue", g),
                              Call("try_schedule", g)>>
                       ELSE <<>>) \o (<<Finish("purge", c)>> \o rest)
    <3>1. PICK run \in Unlinked(gpu_contexts[g].running_list, c),
               E \in SUBSET IF c \in Range(gpu_contexts[g].running_list)
                           THEN Accrued(g) \cup ({c} \cap Limited) ELSE {} :
            /\ clients' = SetExhausted(IF c \in Range(gpu_contexts[g].running_list)
                                       THEN [cs EXCEPT ![c] = Released(@)]
                                       ELSE cs, E, TRUE)
            /\ gpu_contexts' = [gpu_contexts EXCEPT ![g] =
                                  Unrun(gpu_contexts[g], cs[c], c, run)]
            /\ stack' = (IF run = <<>>
                         THEN <<Call("check_wait_queue", g),
                                Call("try_schedule", g)>>
                         ELSE <<>>) \o (<<Finish("purge", c)>> \o rest)
      BY <1>2, Zenon DEF remove_req
    <3>2. QED
      BY <3>1, Zenon
  <2>3. clients' \in [Clients -> GoodRecords]
    <3>1. Released(cs[c]) \in GoodRecords
      BY Zenon, <2>1 DEF Released, ClientRecords, GoodRecords
    <3>2. [cs EXCEPT ![c] = Released(@)] \in [Clients -> GoodRecords]
      BY <3>1 DEF Good
    <3>3. /\ SetExhausted([cs EXCEPT ![c] = Released(@)], E, TRUE)
               \in [Clients -> GoodRecords]
          /\ SetExhausted(cs, E, TRUE) \in [Clients -> GoodRecords]
      BY Zenon, <3>2, QuotaTypes DEF Good
    <3>4. QED
      BY Zenon, <2>2, <3>3
  <2>4. /\ gpu_contexts' \in [GPUs -> Contexts]
        /\ \A h \in GPUs : ContextOK(gpu_contexts'[h], quiet)
    <3>1. /\ Unrun(gpu_contexts[g], cs[c], c, run) \in Contexts
          /\ ContextOK(Unrun(gpu_contexts[g], cs[c], c, run), quiet)
      BY <2>1, <2>2, UnrunGood
    <3>2. QED
      BY <2>1, <2>2, <3>1, ContextUpdate DEF Good
  <2>5. /\ stack' \in Seq(Frames)
        /\ quiet => stack' \in Seq(HandlerFrames)
    <3>1. /\ <<Call("check_wait_queue", g), Call("try_schedule", g)>>
               \in Seq(HandlerFrames)
          /\ <<>> \in Seq(HandlerFrames)
          /\ <<Finish("purge", c)>> \in Seq(HandlerFrames)
      BY <2>1, FrameTypes
    <3>2. /\ <<Finish("purge", c)>> \o rest \in Seq(Frames)
          /\ quiet => <<Finish("purge", c)>> \o rest \in Seq(HandlerFrames)
      BY Zenon, <3>1, Pushed DEF Good
    <3>3. PICK top \in Seq(HandlerFrames) :
            stack' = top \o (<<Finish("purge", c)>> \o rest)
      BY Zenon, <2>2, <3>1
    <3>4. QED
      BY <3>2, <3>3, Pushed
  <2>6. QED
    BY <2>3, <2>4, <2>5 DEF Good
<1>3. QED
  BY <1>1, <1>2

(* So does delete_client.                                                   *)
LEMMA DeleteClientGood ==
  ASSUME NEW quiet \in BOOLEAN, NEW cs, NEW c \in Clients, NEW rest,
         Good(cs, gpu_contexts, rest, quiet),
         delete_client(cs, c, rest)
  PROVE  Good(clients', gpu_contexts', stack', quiet)
<1>1. <<Finish("free", c)>> \in Seq(HandlerFrames)
  BY FrameTypes
<1>2. Good(cs, gpu_contexts, <<Finish("free", c)>> \o rest, quiet)
  BY Zenon, <1>1, Pushed DEF Good
<1>3. QED
  BY <1>2, RemoveReqGood DEF delete_client

-----------------------------------------------------------------------------
(* The steps.  What a step leaves to show, once its simple variables are    *)
(* typed.                                                                   *)
LEMMA Assemble ==
  ASSUME CommTypeOK',
         scheduler_on' \in BOOLEAN, batch' \in Seq(Clients),
         locked' \in BOOLEAN, ctl' \in Nat,
         status' \in {"up", "sigpipe", "stack_overflow", "freed_client", "exit"},
         NEW quiet \in BOOLEAN, quiet = (ctl' = 0),
         Good(clients', gpu_contexts', stack', quiet)
  PROVE  SchedInv'
<1>1. clients' \in [Clients -> ClientRecords]
  BY DEF Good, GoodRecords
<1>2. SchedTypeOK'
  BY <1>1 DEF SchedTypeOK, Good
<1>3. Good(clients', gpu_contexts', stack', ctl' = 0)
  BY Zenon
<1>4. QED
  BY <1>2, <1>3 DEF SchedInv

(* Changes of a context other than of running_list and lock_held.           *)
LEMMA QueueUpdate ==
  ASSUME NEW gc \in [GPUs -> Contexts], NEW quiet \in BOOLEAN,
         \A h \in GPUs : ContextOK(gc[h], quiet),
         NEW g, NEW ctx,
         g \in GPUs => /\ ctx \in Contexts
                       /\ ctx.running_list = gc[g].running_list
                       /\ ctx.lock_held = gc[g].lock_held
  PROVE  /\ [gc EXCEPT ![g] = ctx] \in [GPUs -> Contexts]
         /\ \A h \in GPUs : ContextOK([gc EXCEPT ![g] = ctx][h], quiet)
<1>1. CASE g \in GPUs
  <2>1. ContextOK(ctx, quiet)
    BY <1>1, Zenon DEF ContextOK
  <2>2. QED
    BY <1>1, <2>1, ContextUpdate
<1>2. CASE g \notin GPUs
  BY Zenon, <1>2
<1>3. QED
  BY <1>1, <1>2

(* Deleting pending requests.                                               *)
LEMMA PurgeInv ==
  ASSUME SchedInv, NEW c \in Clients, Purge(c)
  PROVE  SchedInv'
<1> DEFINE g == clients[c].context
<1>1. PICK quiet \in BOOLEAN : quiet = (ctl = 0)
  BY Zenon
<1>2. Good(clients, gpu_contexts, stack, quiet)
  BY <1>1, Zenon DEF SchedInv
<1>3. ASSUME NEW p \in Purged(gpu_contexts[g], c), g \in GPUs
      PROVE  /\ p \in Contexts
             /\ p.running_list = gpu_contexts[g].running_list
             /\ p.lock_held = gpu_contexts[g].lock_held
  <2>1. gpu_contexts[g] \in Contexts
    BY <1>2, <1>3 DEF Good
  <2>2. /\ gpu_contexts[g].requests \in Seq(Clients)
        /\ gpu_contexts[g].wait_queue \in Seq(Clients)
    BY <2>1 DEF Contexts
  <2>3. PICK s \in Seq(Clients) :
          \/ p = [gpu_contexts[g] EXCEPT !.requests = s]
          \/ p = [gpu_contexts[g] EXCEPT !.wait_queue = s]
    BY <1>3, <2>2, UnlinkedType DEF Purged
  <2>4. QED
    BY Zenon, <2>1, <2>3 DEF Contexts
<1>4. /\ gpu_contexts' \in [GPUs -> Contexts]
      /\ \A h \in GPUs : ContextOK(gpu_contexts'[h], quiet)
  <2>1. \/ gpu_contexts' = gpu_contexts
        \/ \E p \in Purged(gpu_contexts[g], c) :
             gpu_contexts' = [gpu_contexts EXCEPT ![g] = p]
    BY DEF Purge
  <2>2. QED
    BY <1>2, <1>3, <2>1, QueueUpdate DEF Good
<1>5. /\ stack' \in Seq(Frames)
      /\ quiet => stack' \in Seq(HandlerFrames)
  <2>1. stack # <<>> /\ (stack' = stack \/ stack' = Tail(stack))
    BY DEF Purge, At
  <2>2. QED
    BY Zenon, <1>2, <2>1, Popped DEF Good
<1>6. Good(clients', gpu_contexts', stack', quiet)
  BY <1>2, <1>4, <1>5 DEF Purge, Good
<1>7. QED
  BY Zenon, <1>1, <1>6, Assemble DEF Purge, commVars, CommTypeOK, SchedTypeOK, SchedInv

(* The end of delete_client.                                                *)
LEMMA FreeInv ==
  ASSUME SchedInv, NEW c \in Clients, Free(c)
  PROVE  SchedInv'
<1>1. PICK quiet \in BOOLEAN : quiet = (ctl = 0)
  BY Zenon
<1>2. Good(clients, gpu_contexts, stack, quiet)
  BY <1>1, Zenon DEF SchedInv
<1>3. clients' \in [Clients -> GoodRecords]
  <2>1. NoClient \in GoodRecords
    BY DEF NoClient, GoodRecords, ClientRecords
  <2>2. \/ clients' = clients
        \/ \E U : clients' = [SetExhausted(clients, U, FALSE) EXCEPT ![c] = NoClient]
    BY Zenon DEF Free
  <2>3. \A U : SetExhausted(clients, U, FALSE) \in [Clients -> GoodRecords]
    BY Zenon, <1>2, QuotaTypes DEF Good
  <2>4. QED
    BY Zenon, <1>2, <2>1, <2>2, <2>3 DEF Good
<1>4. /\ stack' \in Seq(Frames)
      /\ quiet => stack' \in Seq(HandlerFrames)
  BY <1>2, Popped DEF Good, Free, At
<1>5. Good(clients', gpu_contexts', stack', quiet)
  BY <1>2, <1>3, <1>4 DEF Free, Good
<1>6. CommTypeOK'
  <2>1. /\ sock' = sock \/ sock' = [sock EXCEPT ![c] = "closed"]
        /\ toSched' = toSched \/ toSched' = [toSched EXCEPT ![c] = <<>>]
        /\ UNCHANGED <<alive, toClient>>
    BY Zenon DEF Free
  <2>2. sock' \in [Clients -> SockStates]
    BY Zenon, <2>1 DEF CommTypeOK, SockStates, SchedInv
  <2>3. toSched' \in [Clients -> Seq(ToSchedMsgs)]
    <3>1. <<>> \in Seq(ToSchedMsgs)
      OBVIOUS
    <3>2. QED
      BY Zenon, <2>1, <3>1 DEF CommTypeOK, SchedInv
  <2>4. QED
    BY <2>1, <2>2, <2>3 DEF CommTypeOK, SchedInv
<1>7. QED
  BY Zenon, <1>1, <1>5, <1>6, Assemble DEF Free, SchedTypeOK, SchedInv

-----------------------------------------------------------------------------
(* Time, and windows.                                                       *)

(* A window expires or starts anew: the contexts stay right.                *)
LEMMA WindowGood ==
  ASSUME NEW quiet \in BOOLEAN, NEW gc \in [GPUs -> Contexts],
         \A h \in GPUs : ContextOK(gc[h], quiet),
         NEW g \in GPUs, NEW v \in BOOLEAN
  PROVE  /\ [gc EXCEPT ![g].window_expired = v] \in [GPUs -> Contexts]
         /\ \A h \in GPUs : ContextOK([gc EXCEPT ![g].window_expired = v][h], quiet)
<1>1. /\ [gc[g] EXCEPT !.window_expired = v] \in Contexts
      /\ [gc[g] EXCEPT !.window_expired = v].running_list = gc[g].running_list
      /\ [gc[g] EXCEPT !.window_expired = v].lock_held = gc[g].lock_held
  <2>1. gc[g] \in Contexts
    OBVIOUS
  <2>2. QED
    BY Zenon, <2>1 DEF Contexts
<1>2. [gc EXCEPT ![g].window_expired = v]
        = [gc EXCEPT ![g] = [gc[g] EXCEPT !.window_expired = v]]
  OBVIOUS
<1>3. ASSUME NEW ctx \in Contexts,
             ctx.running_list = gc[g].running_list,
             ctx.lock_held = gc[g].lock_held
      PROVE  /\ [gc EXCEPT ![g] = ctx] \in [GPUs -> Contexts]
             /\ \A h \in GPUs : ContextOK([gc EXCEPT ![g] = ctx][h], quiet)
  BY <1>3, QueueUpdate
<1>4. QED
  BY Zenon, <1>1, <1>2, <1>3

LEMMA WindowInv ==
  ASSUME SchedInv, NEW g \in GPUs, ResetInCanRun(g) \/ WindowElapses(g)
  PROVE  SchedInv'
<1>1. PICK quiet \in BOOLEAN : quiet = (ctl = 0)
  BY Zenon
<1>2. Good(clients, gpu_contexts, stack, quiet)
  BY <1>1, Zenon DEF SchedInv
<1>3. clients' \in [Clients -> GoodRecords]
  <2>1. clients' = clients \/ \E R : clients' = ResetWindow(g, clients, R)
    BY DEF ResetInCanRun, WindowElapses
  <2>2. \A R : ResetWindow(g, clients, R) \in [Clients -> GoodRecords]
    BY Zenon, <1>2, QuotaTypes DEF Good
  <2>3. QED
    BY <1>2, <2>1, <2>2 DEF Good
<1>4. /\ gpu_contexts' \in [GPUs -> Contexts]
      /\ \A h \in GPUs : ContextOK(gpu_contexts'[h], quiet)
  <2>1. \E v \in BOOLEAN :
          gpu_contexts' = [gpu_contexts EXCEPT ![g].window_expired = v]
    BY Zenon DEF ResetInCanRun, WindowElapses
  <2>2. QED
    BY <1>2, <2>1, WindowGood DEF Good
<1>5. UNCHANGED <<scheduler_on, stack, batch, locked, status, ctl, commVars>>
  BY DEF ResetInCanRun, WindowElapses
<1>6. Good(clients', gpu_contexts', stack', quiet)
  BY <1>2, <1>3, <1>4, <1>5 DEF Good
<1>7. QED
  BY Zenon, <1>1, <1>5, <1>6, Assemble DEF commVars, CommTypeOK, SchedTypeOK, SchedInv

-----------------------------------------------------------------------------
(* try_schedule and check_wait_queue.                                       *)

(* Sending keeps the types.                                                 *)
LEMMA SendType ==
  ASSUME CommTypeOK, SchedTypeOK, NEW D, NEW m \in ToClientMsgs,
         send_message(D, m)
  PROVE  /\ toClient' \in [Clients -> Seq(ToClientMsgs)]
         /\ status' \in {"up", "sigpipe", "stack_overflow", "freed_client", "exit"}
BY WrittenType DEF send_message, SchedTypeOK

(* A waiter moves to requests.                                              *)
LEMMA PromoteGood ==
  ASSUME SchedInv, NEW g \in GPUs, Promote(g),
         NEW quiet \in BOOLEAN, Good(clients, gpu_contexts, stack, quiet)
  PROVE  /\ gpu_contexts' \in [GPUs -> Contexts]
         /\ \A h \in GPUs : ContextOK(gpu_contexts'[h], quiet)
         /\ toClient' \in [Clients -> Seq(ToClientMsgs)]
         /\ status' \in {"up", "sigpipe", "stack_overflow", "freed_client", "exit"}
<1>1. gpu_contexts[g] \in Contexts
  BY DEF Good
<1>2. PICK i \in DOMAIN gpu_contexts[g].wait_queue :
        /\ gpu_contexts' = [gpu_contexts EXCEPT ![g] =
             [gpu_contexts[g] EXCEPT
                !.wait_queue = RemoveAt(gpu_contexts[g].wait_queue, i),
                !.requests = <<gpu_contexts[g].wait_queue[i]>> \o @]]
        /\ send_message({gpu_contexts[g].wait_queue[i]}, "MEM_AVAILABLE")
  BY Zenon DEF Promote, Eligible
<1>3. RemoveAt(gpu_contexts[g].wait_queue, i) \in Seq(Clients)
  BY <1>1, RemoveAtType DEF Contexts
<1>4. <<gpu_contexts[g].wait_queue[i]>> \o gpu_contexts[g].requests \in Seq(Clients)
  <2>1. gpu_contexts[g].wait_queue \in Seq(Clients) /\ gpu_contexts[g].requests \in Seq(Clients)
    BY <1>1 DEF Contexts
  <2>2. <<gpu_contexts[g].wait_queue[i]>> \in Seq(Clients)
    BY <2>1
  <2>3. QED
    BY <2>1, <2>2, ConcatProperties
<1>5. PICK new :
        /\ new = [gpu_contexts[g] EXCEPT
                   !.wait_queue = RemoveAt(gpu_contexts[g].wait_queue, i),
                   !.requests = <<gpu_contexts[g].wait_queue[i]>> \o @]
        /\ gpu_contexts' = [gpu_contexts EXCEPT ![g] = new]
  BY Zenon, <1>2
<1>6. /\ new \in Contexts
      /\ new.running_list = gpu_contexts[g].running_list
      /\ new.lock_held = gpu_contexts[g].lock_held
  BY Zenon, <1>1, <1>3, <1>4, <1>5 DEF Contexts
<1>7. /\ gpu_contexts' \in [GPUs -> Contexts]
      /\ \A h \in GPUs : ContextOK(gpu_contexts'[h], quiet)
  <2>1. gpu_contexts' = [gpu_contexts EXCEPT ![g] = new]
    BY <1>5
  <2>2. /\ gpu_contexts \in [GPUs -> Contexts]
        /\ \A h \in GPUs : ContextOK(gpu_contexts[h], quiet)
    BY DEF Good
  <2>3. QED
    BY <1>6, <2>1, <2>2, QueueUpdate
<1>8. QED
  BY <1>2, <1>7, SendType DEF ToClientMsgs, SchedInv

LEMMA WaitQueueInv ==
  ASSUME SchedInv, NEW g \in GPUs, CheckWaitQueue(g) \/ TryEmpty(g)
  PROVE  SchedInv'
<1>1. PICK quiet \in BOOLEAN : quiet = (ctl = 0)
  BY Zenon
<1>2. Good(clients, gpu_contexts, stack, quiet)
  BY <1>1, Zenon DEF SchedInv
<1>3. /\ gpu_contexts' \in [GPUs -> Contexts]
      /\ \A h \in GPUs : ContextOK(gpu_contexts'[h], quiet)
      /\ toClient' \in [Clients -> Seq(ToClientMsgs)]
      /\ status' \in {"up", "sigpipe", "stack_overflow", "freed_client", "exit"}
  <2>1. Promote(g) \/ UNCHANGED <<gpu_contexts, toClient, status>>
    BY DEF CheckWaitQueue, TryEmpty
  <2>2. CASE Promote(g)
    BY <1>2, <2>2, PromoteGood
  <2>3. CASE UNCHANGED <<gpu_contexts, toClient, status>>
    BY <1>2, <2>3 DEF Good, SchedInv, SchedTypeOK, CommTypeOK
  <2>4. QED
    BY <2>1, <2>2, <2>3
<1>4. /\ stack' \in Seq(Frames)
      /\ quiet => stack' \in Seq(HandlerFrames)
  <2>1. stack # <<>> /\ (stack' = stack \/ stack' = Tail(stack))
    BY DEF CheckWaitQueue, TryEmpty, At
  <2>2. QED
    BY Zenon, <1>2, <2>1, Popped DEF Good
<1>5. UNCHANGED <<scheduler_on, clients, batch, locked, ctl, alive, sock, toSched>>
  BY DEF CheckWaitQueue, TryEmpty
<1>6. Good(clients', gpu_contexts', stack', quiet)
  BY <1>2, <1>3, <1>4, <1>5 DEF Good
<1>7. QED
  BY Zenon, <1>1, <1>3, <1>5, <1>6, Assemble DEF CommTypeOK, SchedTypeOK, SchedInv

LEMMA TryDeferInv ==
  ASSUME SchedInv, NEW g \in GPUs, NEW c \in Clients, TryDefer(g, c)
  PROVE  SchedInv'
<1> DEFINE new == move_to_wait_queue(gpu_contexts[g], c)
<1>1. PICK quiet \in BOOLEAN : quiet = (ctl = 0)
  BY Zenon
<1>2. Good(clients, gpu_contexts, stack, quiet)
  BY <1>1, Zenon DEF SchedInv
<1>3. /\ new \in Contexts
      /\ new.running_list = gpu_contexts[g].running_list
      /\ new.lock_held = gpu_contexts[g].lock_held
  <2>1. gpu_contexts[g] \in Contexts /\ gpu_contexts[g].requests # <<>>
    BY <1>2 DEF Good, TryDefer, TryHead
  <2>2. /\ Tail(gpu_contexts[g].requests) \in Seq(Clients)
        /\ Append(gpu_contexts[g].wait_queue, c) \in Seq(Clients)
    BY <2>1 DEF Contexts
  <2>3. QED
    BY Zenon, <2>1, <2>2 DEF move_to_wait_queue, Contexts
<1>4. /\ gpu_contexts' \in [GPUs -> Contexts]
      /\ \A h \in GPUs : ContextOK(gpu_contexts'[h], quiet)
  <2>1. gpu_contexts' = [gpu_contexts EXCEPT ![g] = new]
    BY DEF TryDefer
  <2>2. QED
    BY <1>2, <1>3, <2>1, QueueUpdate DEF Good
<1>5. /\ toClient' \in [Clients -> Seq(ToClientMsgs)]
      /\ status' \in {"up", "sigpipe", "stack_overflow", "freed_client", "exit"}
  <2>1. send_message({c}, "WAIT_FOR_MEM") \/ UNCHANGED <<toClient, status>>
    BY DEF TryDefer
  <2>2. QED
    BY <2>1, SendType DEF ToClientMsgs, SchedInv, SchedTypeOK, CommTypeOK
<1>6. UNCHANGED <<scheduler_on, clients, stack, batch, locked, ctl, alive, sock,
                  toSched>>
  BY DEF TryDefer
<1>7. Good(clients', gpu_contexts', stack', quiet)
  BY <1>2, <1>4, <1>6 DEF Good
<1>8. QED
  BY Zenon, <1>1, <1>5, <1>6, <1>7, Assemble DEF CommTypeOK, SchedTypeOK, SchedInv

LEMMA TryDeadInv ==
  ASSUME SchedInv, NEW g \in GPUs, NEW c \in Clients, TryDead(g, c)
  PROVE  SchedInv'
<1>1. PICK quiet \in BOOLEAN : quiet = (ctl = 0)
  BY Zenon
<1>2. Good(clients, gpu_contexts, stack, quiet)
  BY <1>1, Zenon DEF SchedInv
<1>3. Good(clients', gpu_contexts', stack', quiet)
  <2>1. UNCHANGED <<gpu_contexts, clients, stack>> \/ delete_client(clients, c, stack)
    BY DEF TryDead
  <2>2. CASE UNCHANGED <<gpu_contexts, clients, stack>>
    BY <1>2, <2>2
  <2>3. CASE delete_client(clients, c, stack)
    BY <1>2, <2>3, DeleteClientGood
  <2>4. QED
    BY <2>1, <2>2, <2>3
<1>4. status' \in {"up", "sigpipe", "stack_overflow", "freed_client", "exit"}
  BY DEF TryDead, SchedTypeOK, SchedInv
<1>5. UNCHANGED <<scheduler_on, batch, locked, ctl, commVars>>
  BY DEF TryDead
<1>6. QED
  BY Zenon, <1>1, <1>3, <1>4, <1>5, Assemble
  DEF commVars, CommTypeOK, SchedTypeOK, SchedInv

(* A grant: in SERIAL mode can_run has seen lock_held clear, so nobody runs. *)
LEMMA TryGrantInv ==
  ASSUME SchedInv, NEW g \in GPUs, NEW c \in Clients, TryGrant(g, c)
  PROVE  SchedInv'
<1> DEFINE ctx == gpu_contexts[g]
           new == [ctx EXCEPT
                     !.requests = Tail(@),
                     !.running_list = Append(@, c),
                     !.lock_held = TRUE,
                     !.running_memory_usage = @ + clients[c].memory_allocated]
<1>1. PICK quiet \in BOOLEAN : quiet = (ctl = 0)
  BY Zenon
<1>2. Good(clients, gpu_contexts, stack, quiet)
  BY <1>1, Zenon DEF SchedInv
<1>3. ctx \in Contexts /\ ContextOK(ctx, quiet) /\ clients[c] \in ClientRecords
  BY <1>2 DEF Good, GoodRecords
<1>4. new \in Contexts /\ new.running_list = Append(ctx.running_list, c) /\ new.lock_held
  <2>1. /\ Tail(ctx.requests) \in Seq(Clients)
        /\ Append(ctx.running_list, c) \in Seq(Clients)
    BY <1>3 DEF TryGrant, TryHead, Contexts
  <2>2. ctx.running_memory_usage + clients[c].memory_allocated \in Nat
    BY <1>3 DEF Contexts, ClientRecords
  <2>3. QED
    BY Zenon, <1>3, <2>1, <2>2 DEF Contexts
<1>5. ContextOK(new, quiet)
  <2>1. /\ ctx.running_list \in Seq(Clients)
        /\ Len(Append(ctx.running_list, c)) = Len(ctx.running_list) + 1
        /\ Append(ctx.running_list, c) # <<>>
    BY <1>3 DEF Contexts
  <2>2. quiet /\ MODE = "SERIAL" => ctx.running_list = <<>>
    BY <1>3, Zenon DEF ContextOK, TryGrant, can_run, can_run_with_memory, Serialized
  <2>3. quiet /\ MODE = "SERIAL" => Len(Append(ctx.running_list, c)) <= 1
    BY <2>1, <2>2
  <2> HIDE DEF new, ctx
  <2>4. QED
    BY <1>4, <2>1, <2>3, Zenon DEF ContextOK
<1>6. /\ gpu_contexts' \in [GPUs -> Contexts]
      /\ \A h \in GPUs : ContextOK(gpu_contexts'[h], quiet)
  <2>1. gpu_contexts' = [gpu_contexts EXCEPT ![g] = new]
    BY Zenon, <1>2 DEF TryGrant, Good
  <2>2. QED
    BY <1>2, <1>4, <1>5, <2>1, ContextUpdate DEF Good
<1>7. clients' \in [Clients -> GoodRecords]
  <2>1. PICK E : clients' = [SetExhausted(clients, E, TRUE) EXCEPT
                    ![c].is_running = TRUE, ![c].pending_drop = FALSE]
    BY Zenon DEF TryGrant
  <2>2. SetExhausted(clients, E, TRUE) \in [Clients -> GoodRecords]
    BY Zenon, <1>2, QuotaTypes DEF Good
  <2>3. \A r \in GoodRecords :
          [r EXCEPT !.is_running = TRUE, !.pending_drop = FALSE] \in GoodRecords
    BY Zenon DEF GoodRecords, ClientRecords
  <2>4. QED
    BY Zenon, <2>1, <2>2, <2>3
<1>8. /\ stack' \in Seq(Frames)
      /\ quiet => stack' \in Seq(HandlerFrames)
  <2>1. stack # <<>> /\ (stack' = stack \/ stack' = Tail(stack))
    BY DEF TryGrant, TryHead, At
  <2>2. QED
    BY Zenon, <1>2, <2>1, Popped DEF Good
<1>9. Good(clients', gpu_contexts', stack', quiet)
  BY <1>6, <1>7, <1>8 DEF Good
<1>10. CommTypeOK'
  <2>1. toClient' \in [Clients -> Seq(ToClientMsgs)]
    BY WrittenType DEF TryGrant, ToClientMsgs, SchedInv
  <2>2. QED
    BY Zenon, <2>1 DEF TryGrant, CommTypeOK, SchedInv
<1>11. QED
  BY Zenon, <1>1, <1>9, <1>10, Assemble DEF TryGrant, SchedTypeOK, SchedInv

LEMMA RetryInv ==
  ASSUME SchedInv, NEW g \in GPUs, Retry(g)
  PROVE  SchedInv'
<1>1. PICK quiet \in BOOLEAN : quiet = (ctl = 0)
  OBVIOUS
<1>2. Good(clients, gpu_contexts, stack, quiet)
  BY <1>1, Zenon DEF SchedInv
<1>3. /\ stack' \in Seq(Frames)
      /\ quiet => stack' \in Seq(HandlerFrames)
  <2>1. stack # <<>> /\ (\/ stack' = Tail(stack)
                         \/ stack' = <<Call("try_schedule", g)>> \o Tail(stack))
    BY DEF Retry, At
  <2>2. /\ Tail(stack) \in Seq(Frames)
        /\ quiet => Tail(stack) \in Seq(HandlerFrames)
    BY <1>2, <2>1, Popped DEF Good
  <2>3. <<Call("try_schedule", g)>> \in Seq(HandlerFrames)
    BY FrameTypes
  <2>4. QED
    BY Zenon, <2>1, <2>2, <2>3, Pushed
<1>4. Good(clients', gpu_contexts', stack', quiet)
  BY <1>2, <1>3 DEF Good, Retry
<1>5. QED
  BY Zenon, <1>1, <1>4, Assemble DEF Retry, commVars, CommTypeOK, SchedTypeOK, SchedInv

-----------------------------------------------------------------------------
(* SCHED_ON and SCHED_OFF.                                                  *)

(* The broadcast goes on with some client, or ends.                         *)
LEMMA AfterType ==
  ASSUME NEW S \in SUBSET Clients, NEW n \in After(S)
  PROVE  <<BcastFrame(n, S)>> \in Seq(HandlerFrames)
<1>1. n \in Clients \cup {NULL}
  BY DEF After
<1>2. QED
  BY <1>1, FrameTypes

LEMMA BcastInv ==
  ASSUME SchedInv, Bcast
  PROVE  SchedInv'
<1> DEFINE c == Head(stack).next
           D == {d \in Head(stack).rest : Exists(d)}
           R == {<<BcastFrame(n, D)>> \o Tail(stack) : n \in After(D)}
<1>1. PICK quiet \in BOOLEAN : quiet = (ctl = 0)
  BY Zenon
<1>2. Good(clients, gpu_contexts, stack, quiet)
  BY <1>1, Zenon DEF SchedInv
<1>3. /\ Tail(stack) \in Seq(Frames)
      /\ quiet => Tail(stack) \in Seq(HandlerFrames)
      /\ Head(stack) \in Frames
      /\ Head(stack).op = "bcast_status"
  BY <1>2, Popped DEF Good, Bcast
<1>4. c \in Clients \cup {NULL} /\ D \in SUBSET Clients
  <2>1. /\ Head(stack).next \in Clients \cup {NULL}
        /\ Head(stack).rest \in SUBSET Clients
    BY <1>3 DEF Frames
  <2>2. QED
    BY <2>1
<1>5. \A r \in R : r \in Seq(Frames) /\ (quiet => r \in Seq(HandlerFrames))
  BY Zenon, <1>3, <1>4, AfterType, Pushed
<1>6. /\ \/ /\ UNCHANGED <<gpu_contexts, clients>>
            /\ stack' = stack \/ stack' = Tail(stack) \/ stack' \in R
         \/ c # NULL /\ \E r \in R : delete_client(clients, c, r)
      /\ \/ UNCHANGED toClient
         \/ toClient' = Written({c}, "SCHED_ON")
         \/ toClient' = Written({c}, "SCHED_OFF")
      /\ status' = status \/ status' = "freed_client" \/ status' = "sigpipe"
      /\ UNCHANGED <<scheduler_on, batch, locked, ctl, alive, sock, toSched>>
  BY Zenon DEF Bcast
<1>7. Good(clients', gpu_contexts', stack', quiet)
  <2>1. CASE /\ UNCHANGED <<gpu_contexts, clients>>
             /\ stack' = stack \/ stack' = Tail(stack) \/ stack' \in R
    BY Zenon, <1>2, <1>3, <1>5, <2>1 DEF Good
  <2>2. ASSUME c # NULL, NEW r \in R, delete_client(clients, c, r)
        PROVE  Good(clients', gpu_contexts', stack', quiet)
    <3>1. Good(clients, gpu_contexts, r, quiet)
      BY Zenon, <1>2, <1>5 DEF Good
    <3>2. c \in Clients
      BY <1>4, <2>2
    <3> HIDE DEF c, R
    <3>3. QED
      BY <2>2, <3>1, <3>2, DeleteClientGood
  <2>3. QED
    BY Zenon, <1>6, <2>1, <2>2
<1>8. toClient' \in [Clients -> Seq(ToClientMsgs)]
  <2>1. /\ Written({c}, "SCHED_ON") \in [Clients -> Seq(ToClientMsgs)]
        /\ Written({c}, "SCHED_OFF") \in [Clients -> Seq(ToClientMsgs)]
    BY WrittenType DEF ToClientMsgs, SchedInv
  <2>2. QED
    BY Zenon, <1>6, <2>1 DEF CommTypeOK, SchedInv
<1>9. QED
  BY Zenon, <1>1, <1>6, <1>7, <1>8, Assemble DEF CommTypeOK, SchedTypeOK, SchedInv

(* SCHED_OFF clears lock_held and leaves running_list: this is why the      *)
(* converse holds only before the first command.                            *)
LEMMA ClearRequestsInv ==
  ASSUME SchedInv, ClearRequests
  PROVE  SchedInv'
<1>1. PICK quiet \in BOOLEAN : quiet = (ctl = 0)
  BY Zenon
<1>2. Good(clients, gpu_contexts, stack, quiet)
  BY <1>1, Zenon DEF SchedInv
<1>3. /\ Tail(stack) \in Seq(Frames) /\ ~quiet
  BY Zenon, <1>2, Popped DEF Good, ClearRequests, At, HandlerFrames
<1>4. ASSUME NEW g \in GPUs
      PROVE  gpu_contexts'[g] \in Contexts /\ ContextOK(gpu_contexts'[g], quiet)
  <2>1. gpu_contexts[g] \in Contexts
    BY <1>2 DEF Good
  <2>2. gpu_contexts'[g] =
          [gpu_contexts[g] EXCEPT !.requests = <<>>, !.lock_held = FALSE]
    BY Zenon DEF ClearRequests
  <2>3. \A ctx \in Contexts, q \in Seq(Clients) :
          /\ [ctx EXCEPT !.requests = q, !.lock_held = FALSE] \in Contexts
          /\ [ctx EXCEPT !.requests = q, !.lock_held = FALSE].lock_held = FALSE
    BY Zenon DEF Contexts
  <2>4. <<>> \in Seq(Clients)
    OBVIOUS
  <2>5. gpu_contexts'[g] \in Contexts /\ gpu_contexts'[g].lock_held = FALSE
    BY <2>1, <2>2, <2>3, <2>4, Zenon
  <2>6. QED
    BY <1>3, <2>5, Zenon DEF ContextOK
<1>5. gpu_contexts' \in [GPUs -> Contexts]
  BY Zenon, <1>4 DEF ClearRequests
<1>6. Good(clients', gpu_contexts', stack', quiet)
  BY Zenon, <1>2, <1>3, <1>4, <1>5 DEF Good, ClearRequests
<1>7. QED
  BY Zenon, <1>1, <1>6, Assemble
  DEF ClearRequests, commVars, CommTypeOK, SchedTypeOK, SchedInv

LEMMA CommandInv ==
  ASSUME SchedInv, SchedOn \/ SchedOff
  PROVE  SchedInv'
<1>1. PICK quiet \in BOOLEAN : quiet = (ctl = 0)
  BY Zenon
<1>2. Good(clients, gpu_contexts, stack, quiet)
  BY <1>1, Zenon DEF SchedInv
<1>3. PICK rest \in Seq(Frames), on \in BOOLEAN : Command(on, rest)
  <2>1. [op |-> "clear_requests"] \in Frames
    BY DEF Frames
  <2>2. <<>> \in Seq(Frames) /\ <<[op |-> "clear_requests"]>> \in Seq(Frames)
    BY <2>1
  <2>3. QED
    BY <2>2, Zenon DEF SchedOn, SchedOff
<1>4. ctl \in Nat /\ ctl' = ctl + 1
  BY <1>3 DEF Command, SchedTypeOK, SchedInv
<1>5. ctl' \in Nat /\ FALSE = (ctl' = 0)
  BY <1>4
<1>6. stack' \in Seq(Frames)
  <2>1. PICK D, n : /\ D \in SUBSET Clients /\ n \in After(D)
                    /\ stack' = <<BcastFrame(n, D)>> \o rest
    BY <1>3 DEF Command, bcast_status
  <2>2. QED
    BY Zenon, <2>1, AfterType, Pushed
<1>7. Good(clients', gpu_contexts', stack', FALSE)
  <2>1. \A g \in GPUs : ContextOK(gpu_contexts[g], FALSE)
    BY <1>2 DEF Good, ContextOK
  <2>2. QED
    BY Zenon, <1>2, <1>3, <1>6, <2>1 DEF Good, Command
<1>8. QED
  BY Zenon, <1>3, <1>5, <1>7, Assemble
  DEF Command, commVars, CommTypeOK, SchedTypeOK, SchedInv

-----------------------------------------------------------------------------
(* The main loop.                                                           *)

LEMMA EpollWaitInv ==
  ASSUME SchedInv, EpollWait
  PROVE  SchedInv'
<1>1. PICK quiet \in BOOLEAN : quiet = (ctl = 0)
  OBVIOUS
<1>2. Good(clients, gpu_contexts, stack, quiet)
  BY <1>1, Zenon DEF SchedInv
<1>3. batch' \in Seq(Clients)
  <2>1. PICK n \in Nat : batch' \in [1..n -> Ready]
    BY SchedulerAssumption DEF EpollWait
  <2>2. Ready \subseteq Clients
    BY DEF Ready
  <2>3. batch' \in [1..n -> Clients]
    BY <2>1, <2>2
  <2>4. QED
    BY <2>3
<1>4. Good(clients', gpu_contexts', stack', quiet)
  BY <1>2 DEF EpollWait
<1>5. QED
  BY Zenon, <1>1, <1>3, <1>4, Assemble
  DEF EpollWait, commVars, CommTypeOK, SchedTypeOK, SchedInv

LEMMA AcceptInv ==
  ASSUME SchedInv, NEW c \in Clients, Accept(c)
  PROVE  SchedInv'
<1>1. PICK quiet \in BOOLEAN : quiet = (ctl = 0)
  OBVIOUS
<1>2. Good(clients, gpu_contexts, stack, quiet)
  BY <1>1, Zenon DEF SchedInv
<1>3. clients' \in [Clients -> GoodRecords]
  <2>1. PICK m \in Nat, r \in BOOLEAN :
          clients' = [clients EXCEPT ![c] =
                       [NoClient EXCEPT !.memory_allocated = m, !.is_running = r]]
    BY Zenon, SchedulerAssumption DEF Accept
  <2>2. [NoClient EXCEPT !.memory_allocated = m, !.is_running = r] \in GoodRecords
    BY Zenon DEF NoClient, GoodRecords, ClientRecords
  <2>3. QED
    BY <1>2, <2>1, <2>2 DEF Good
<1>4. Good(clients', gpu_contexts', stack', quiet)
  BY <1>2, <1>3 DEF Accept, Good
<1>5. CommTypeOK'
  BY DEF Accept, CommTypeOK, SockStates, SchedInv
<1>6. QED
  BY Zenon, <1>1, <1>4, <1>5, Assemble DEF Accept, SchedTypeOK, SchedInv

(* What the handler of an event leaves to show.                             *)
LEMMA EventInv ==
  ASSUME SchedInv, NEW c \in Clients, Event(c),
         NEW quiet \in BOOLEAN, quiet = (ctl = 0),
         Good(clients', gpu_contexts', stack', quiet),
         toSched' \in [Clients -> Seq(ToSchedMsgs)],
         toClient' \in [Clients -> Seq(ToClientMsgs)],
         status' \in {"up", "sigpipe", "stack_overflow", "freed_client", "exit"}
  PROVE  SchedInv'
<1>1. batch' \in Seq(Clients)
  BY DEF Event, SchedTypeOK, SchedInv
<1>2. CommTypeOK'
  BY DEF Event, CommTypeOK, SchedInv
<1>3. QED
  BY Zenon, <1>1, <1>2, Assemble DEF Event, SchedTypeOK, SchedInv

(* A message is taken off the stream; it has the type of its kind.          *)
LEMMA MessageType ==
  ASSUME SchedInv, NEW c \in Clients, NEW type, Message(c, type)
  PROVE  /\ toSched' \in [Clients -> Seq(ToSchedMsgs)]
         /\ type = "REGISTER" => Head(toSched[c]).gpu \in GPUs
         /\ type = "MEM_UPDATE" => Head(toSched[c]).memory_usage \in Nat
<1>1. toSched[c] \in Seq(ToSchedMsgs) /\ toSched[c] # <<>>
  BY DEF Message, CommTypeOK, SchedInv
<1>2. Head(toSched[c]) \in ToSchedMsgs /\ Tail(toSched[c]) \in Seq(ToSchedMsgs)
  BY <1>1, HeadTailProperties
<1>3. Head(toSched[c]).type = type
  BY DEF Message
<1>4. type = "REGISTER" => Head(toSched[c]).gpu \in GPUs
  BY <1>2, <1>3 DEF ToSchedMsgs
<1>5. type = "MEM_UPDATE" => Head(toSched[c]).memory_usage \in Nat
  <2>1. type = "MEM_UPDATE" => Head(toSched[c]).memory_usage \in MemSizes
    BY <1>2, <1>3 DEF ToSchedMsgs
  <2>2. QED
    BY Zenon, <2>1, CommAssumption
<1>6. toSched' \in [Clients -> Seq(ToSchedMsgs)]
  BY <1>2 DEF Message, CommTypeOK, SchedInv
<1>7. QED
  BY <1>4, <1>5, <1>6

LEMMA DisconnectInv ==
  ASSUME SchedInv, NEW c \in Clients, StaleEvent(c) \/ Disconnect(c)
  PROVE  SchedInv'
<1>1. PICK quiet \in BOOLEAN : quiet = (ctl = 0)
  OBVIOUS
<1>2. Good(clients, gpu_contexts, stack, quiet)
  BY <1>1, Zenon DEF SchedInv
<1>3. CASE StaleEvent(c)
  <2>1. Good(clients', gpu_contexts', stack', quiet)
    BY <1>2, <1>3 DEF StaleEvent
  <2>2. QED
    BY Zenon, <1>1, <1>3, <2>1, EventInv DEF StaleEvent, CommTypeOK, SchedInv
<1>4. CASE Disconnect(c)
  <2>1. PICK rest \in Seq(HandlerFrames) : delete_client(clients, c, rest)
    <3>1. clients[c].context \in GPUs \cup {NULL}
      BY <1>2 DEF Good, GoodRecords, ClientRecords
    <3>2. \A g \in GPUs : <<Call("retry_if_on", g)>> \in Seq(HandlerFrames)
      BY FrameTypes
    <3>3. (IF clients[c].context = NULL THEN <<>>
           ELSE <<Call("retry_if_on", clients[c].context)>>) \in Seq(HandlerFrames)
      BY <3>1, <3>2
    <3>4. QED
      BY <1>4, <3>3, Zenon DEF Disconnect
  <2>2. Good(clients, gpu_contexts, rest, quiet)
    BY <1>2, FrameTypes DEF Good
  <2>3. Good(clients', gpu_contexts', stack', quiet)
    BY <2>1, <2>2, DeleteClientGood
  <2>4. QED
    BY Zenon, <1>1, <1>4, <2>3, EventInv DEF Disconnect, CommTypeOK, SchedTypeOK, SchedInv
<1>5. QED
  BY <1>3, <1>4

LEMMA RegisterInv ==
  ASSUME SchedInv, NEW c \in Clients, Register(c)
  PROVE  SchedInv'
<1> DEFINE g   == Head(toSched[c]).gpu
           rec == [clients[c] EXCEPT !.registered = TRUE, !.context = g,
                     !.is_throttled = FALSE, !.exhausted = FALSE,
                     !.pending_drop = FALSE, !.drop_sent = FALSE]
<1>1. PICK quiet \in BOOLEAN : quiet = (ctl = 0)
  OBVIOUS
<1>2. Good(clients, gpu_contexts, stack, quiet)
  BY <1>1, Zenon DEF SchedInv
<1>3. Good(clients, gpu_contexts, <<>>, quiet)
  BY <1>2 DEF Good
<1>4. Message(c, "REGISTER") /\ Event(c)
  BY DEF Register, Message
<1>5. toSched' \in [Clients -> Seq(ToSchedMsgs)] /\ g \in GPUs
  BY <1>4, MessageType
<1>6. CASE clients[c].registered
  <2>1. delete_client(clients, c, <<>>) /\ UNCHANGED <<status, toClient>>
    BY <1>6 DEF Register
  <2>2. Good(clients', gpu_contexts', stack', quiet)
    BY <1>3, <2>1, DeleteClientGood
  <2>3. QED
    BY Zenon, <1>1, <1>4, <1>5, <2>1, <2>2, EventInv DEF CommTypeOK, SchedTypeOK, SchedInv
<1>7. CASE ~clients[c].registered
  <2>1. /\ toClient' \in [Clients -> Seq(ToClientMsgs)]
        /\ status' \in {"up", "sigpipe", "stack_overflow", "freed_client", "exit"}
    <3>1. send_message({c}, "SCHED_ON") \/ send_message({c}, "SCHED_OFF")
      BY Zenon, <1>7 DEF Register
    <3>2. QED
      BY <3>1, SendType DEF ToClientMsgs, SchedInv
  <2>2. rec \in GoodRecords
    <3>1. clients[c] \in ClientRecords /\ g # NULL
      BY <1>2, <1>5, SchedulerAssumption DEF Good, GoodRecords
    <3>2. QED
      BY Zenon, <1>5, <3>1 DEF GoodRecords, ClientRecords
  <2>3. PICK cs : /\ cs \in [Clients -> GoodRecords]
                  /\ \/ clients' = cs /\ UNCHANGED <<gpu_contexts, stack>>
                     \/ delete_client(cs, c, <<>>)
    <3>1. \A E : [SetExhausted(clients, E, TRUE) EXCEPT ![c] = rec]
                   \in [Clients -> GoodRecords]
      BY Zenon, <1>2, <2>2, QuotaTypes DEF Good
    <3>2. \E E : \/ /\ clients' = [SetExhausted(clients, E, TRUE) EXCEPT ![c] = rec]
                    /\ UNCHANGED <<gpu_contexts, stack>>
                 \/ delete_client([SetExhausted(clients, E, TRUE) EXCEPT ![c] = rec],
                                  c, <<>>)
      BY Zenon, <1>7 DEF Register
    <3> HIDE DEF rec
    <3>3. QED
      BY <3>1, <3>2, Zenon
  <2>4. Good(clients', gpu_contexts', stack', quiet)
    <3>1. CASE clients' = cs /\ UNCHANGED <<gpu_contexts, stack>>
      BY <1>2, <2>3, <3>1 DEF Good
    <3>2. CASE delete_client(cs, c, <<>>)
      <4>1. Good(cs, gpu_contexts, <<>>, quiet)
        BY <1>3, <2>3 DEF Good
      <4>2. QED
        BY <3>2, <4>1, DeleteClientGood
    <3>3. QED
      BY <2>3, <3>1, <3>2
  <2>5. QED
    BY Zenon, <1>1, <1>4, <1>5, <2>1, <2>4, EventInv
<1>8. QED
  BY <1>6, <1>7

(* A registered client has a context, so REQ_LOCK and LOCK_RELEASED find a  *)
(* GPU to schedule on.                                                      *)
LEMMA LockMessageInv ==
  ASSUME SchedInv, NEW c \in Clients, ReqLock(c) \/ LockReleased(c)
  PROVE  SchedInv'
<1> DEFINE g == clients[c].context
           s == gpu_contexts[g].requests
<1>1. PICK quiet \in BOOLEAN : quiet = (ctl = 0)
  OBVIOUS
<1>2. Good(clients, gpu_contexts, stack, quiet)
  BY <1>1, Zenon DEF SchedInv
<1>3. Event(c) /\ \E type : Message(c, type)
  BY Zenon DEF ReqLock, LockReleased, Message
<1>4. toSched' \in [Clients -> Seq(ToSchedMsgs)]
  BY <1>3, MessageType
<1>5. UNCHANGED <<status, toClient>>
  BY DEF ReqLock, LockReleased, Unregistered, Ignore
<1>6. Good(clients', gpu_contexts', stack', quiet)
  <2>1. CASE Unregistered(c)
    <3>1. Good(clients, gpu_contexts, <<>>, quiet)
      BY <1>2 DEF Good
    <3>2. QED
      BY <2>1, <3>1, DeleteClientGood DEF Unregistered
  <2>2. CASE Ignore
    BY <1>2, <2>2 DEF Ignore
  <2>3. ASSUME clients[c].registered
        PROVE  /\ g \in GPUs
               /\ <<Call("retry", g)>> \in Seq(HandlerFrames)
               /\ <<Call("try_schedule", g)>> \in Seq(HandlerFrames)
    <3>1. g \in GPUs
      BY <1>2, <2>3 DEF Good, GoodRecords, ClientRecords
    <3>2. QED
      BY <3>1, FrameTypes
  <2>4. CASE /\ clients[c].registered
             /\ gpu_contexts' = [gpu_contexts EXCEPT ![g].requests =
                  IF c \in Range(s) THEN s ELSE Append(s, c)]
             /\ stack' = IF MODE = "SERIAL" THEN <<Call("retry", g)>>
                         ELSE <<Call("try_schedule", g)>>
             /\ UNCHANGED clients
    <3>1. gpu_contexts[g] \in Contexts
      BY <1>2, <2>3, <2>4 DEF Good
    <3>2. (IF c \in Range(s) THEN s ELSE Append(s, c)) \in Seq(Clients)
      <4>1. s \in Seq(Clients)
        BY <3>1 DEF Contexts
      <4>2. Append(s, c) \in Seq(Clients)
        BY <4>1, AppendProperties
      <4>3. QED
        BY <4>1, <4>2, Zenon
    <3>3. PICK q \in Seq(Clients) :
            gpu_contexts' = [gpu_contexts EXCEPT ![g] =
                               [gpu_contexts[g] EXCEPT !.requests = q]]
      BY Zenon, <1>2, <2>3, <2>4, <3>2 DEF Good
    <3>4. PICK new :
            /\ new \in Contexts
            /\ new.running_list = gpu_contexts[g].running_list
            /\ new.lock_held = gpu_contexts[g].lock_held
            /\ gpu_contexts' = [gpu_contexts EXCEPT ![g] = new]
      <4>1. /\ [gpu_contexts[g] EXCEPT !.requests = q] \in Contexts
            /\ [gpu_contexts[g] EXCEPT !.requests = q].running_list
                 = gpu_contexts[g].running_list
            /\ [gpu_contexts[g] EXCEPT !.requests = q].lock_held
                 = gpu_contexts[g].lock_held
        BY Zenon, <3>1 DEF Contexts
      <4>2. QED
        BY <3>3, <4>1, Zenon
    <3>5. /\ gpu_contexts' \in [GPUs -> Contexts]
          /\ \A h \in GPUs : ContextOK(gpu_contexts'[h], quiet)
      BY <1>2, <3>4, QueueUpdate DEF Good
    <3>6. stack' \in Seq(HandlerFrames) /\ stack' \in Seq(Frames)
      BY <2>3, <2>4, FrameTypes
    <3>7. QED
      BY Zenon, <1>2, <2>4, <3>5, <3>6 DEF Good
  <2>5. CASE clients[c].registered /\ remove_req(clients, c, <<Call("retry", g)>>)
    <3>1. Good(clients, gpu_contexts, <<Call("retry", g)>>, quiet)
      BY <1>2, <2>3, <2>5, FrameTypes DEF Good
    <3>2. QED
      BY <2>5, <3>1, RemoveReqGood
  <2>6. QED
    BY <2>1, <2>2, <2>4, <2>5 DEF ReqLock, LockReleased
<1>7. QED
  BY Zenon, <1>1, <1>3, <1>4, <1>5, <1>6, EventInv DEF CommTypeOK, SchedTypeOK, SchedInv

LEMMA MemUpdateInv ==
  ASSUME SchedInv, NEW c \in Clients, MemUpdate(c)
  PROVE  SchedInv'
<1> DEFINE g    == clients[c].context
           new  == Head(toSched[c]).memory_usage
           use  == Charged(gpu_contexts[g].running_memory_usage, clients[c], new)
           R    == Range(gpu_contexts[g].running_list)
           recs == [clients EXCEPT ![c].memory_allocated = new]
<1>1. PICK quiet \in BOOLEAN : quiet = (ctl = 0)
  OBVIOUS
<1>2. Good(clients, gpu_contexts, stack, quiet)
  BY <1>1, Zenon DEF SchedInv
<1>3. Message(c, "MEM_UPDATE") /\ Event(c)
  BY DEF MemUpdate, Message
<1>4. toSched' \in [Clients -> Seq(ToSchedMsgs)] /\ new \in Nat
  BY <1>3, MessageType
<1>5. /\ toClient' \in [Clients -> Seq(ToClientMsgs)]
      /\ status' \in {"up", "sigpipe", "stack_overflow", "freed_client", "exit"}
  <2>1. send_message(R, "DROP_LOCK") \/ UNCHANGED <<toClient, status>>
    BY DEF MemUpdate, Ignore
  <2>2. QED
    BY <2>1, SendType DEF ToClientMsgs, SchedInv, SchedTypeOK, CommTypeOK
<1>6. clients' \in [Clients -> GoodRecords]
  <2>1. \/ clients' = clients
        \/ clients' = recs
        \/ clients' = [d \in Clients |->
                         IF d \in R /\ Writable(d)
                         THEN [recs[d] EXCEPT !.drop_sent = TRUE] ELSE recs[d]]
    BY DEF MemUpdate, Ignore
  <2>2. recs \in [Clients -> GoodRecords]
    <3>1. \A r \in GoodRecords : [r EXCEPT !.memory_allocated = new] \in GoodRecords
      BY Zenon, <1>4 DEF GoodRecords, ClientRecords
    <3>2. QED
      BY <1>2, <3>1 DEF Good
  <2>3. \A r \in GoodRecords : [r EXCEPT !.drop_sent = TRUE] \in GoodRecords
    BY Zenon DEF GoodRecords, ClientRecords
  <2> HIDE DEF recs
  <2>4. QED
    BY <1>2, <2>1, <2>2, <2>3 DEF Good
<1>7. /\ gpu_contexts' \in [GPUs -> Contexts]
      /\ \A h \in GPUs : ContextOK(gpu_contexts'[h], quiet)
  <2>1. CASE ~clients[c].registered
    BY <1>2, <2>1 DEF MemUpdate, Ignore, Good
  <2>2. CASE clients[c].registered
    <3>1. g \in GPUs /\ clients[c] \in ClientRecords
      BY <1>2, <2>2 DEF Good, GoodRecords, ClientRecords
    <3>2. gpu_contexts[g] \in Contexts
      BY <1>2, <3>1 DEF Good
    <3>3. use \in Nat
      <4>1. /\ gpu_contexts[g].running_memory_usage \in Nat
            /\ clients[c].memory_allocated \in Nat
        BY <3>1, <3>2 DEF Contexts, ClientRecords
      <4>2. QED
        BY <1>4, <4>1, SMTT(20) DEF Charged
    <3>4. PICK b \in BOOLEAN :
            gpu_contexts' = [gpu_contexts EXCEPT ![g] =
              [gpu_contexts[g] EXCEPT !.running_memory_usage = use,
                                      !.memory_overloaded = b]]
      <4> DEFINE ov == /\ clients[c].is_running
                       /\ ~gpu_contexts[g].memory_overloaded /\ use > SafeLimit
      <4>1. gpu_contexts' = [gpu_contexts EXCEPT
                  ![g].running_memory_usage = use,
                  ![g].memory_overloaded = @ \/ ov]
        BY <2>2 DEF MemUpdate
      <4>2. (gpu_contexts[g].memory_overloaded \/ ov) \in BOOLEAN
        OBVIOUS
      <4> HIDE DEF use, ov
      <4>3. gpu_contexts' = [gpu_contexts EXCEPT ![g] =
              [gpu_contexts[g] EXCEPT
                 !.running_memory_usage = use,
                 !.memory_overloaded = gpu_contexts[g].memory_overloaded \/ ov]]
        BY Zenon, <1>2, <3>1, <4>1 DEF Good
      <4>4. QED
        BY Zenon, <4>2, <4>3
    <3> HIDE DEF use
    <3>5. PICK ctx :
            /\ ctx \in Contexts
            /\ ctx.running_list = gpu_contexts[g].running_list
            /\ ctx.lock_held = gpu_contexts[g].lock_held
            /\ gpu_contexts' = [gpu_contexts EXCEPT ![g] = ctx]
      <4> DEFINE ctx == [gpu_contexts[g] EXCEPT !.running_memory_usage = use,
                                                !.memory_overloaded = b]
      <4>1. /\ ctx \in Contexts
            /\ ctx.running_list = gpu_contexts[g].running_list
            /\ ctx.lock_held = gpu_contexts[g].lock_held
        BY Zenon, <3>2, <3>3 DEF Contexts
      <4>2. QED
        BY <3>4, <4>1, Zenon
    <3>6. QED
      BY <1>2, <3>5, QueueUpdate DEF Good
  <2>3. QED
    BY <2>1, <2>2
<1>8. Good(clients', gpu_contexts', stack', quiet)
  BY <1>2, <1>6, <1>7 DEF MemUpdate, Good
<1>9. QED
  BY Zenon, <1>1, <1>3, <1>4, <1>5, <1>8, EventInv

-----------------------------------------------------------------------------
(* The timer thread.                                                        *)

LEMMA TimerInv ==
  ASSUME SchedInv, NEW g \in GPUs, NEW tq_elapsed \in BOOLEAN,
         timer_thr_fn(g, tq_elapsed)
  PROVE  SchedInv'
<1> DEFINE expired == gpu_contexts[g].window_expired
           P(T)  == IF tq_elapsed THEN Preempted(g, T) ELSE {}
           cs(T) == [c \in Clients |->
                       IF c \in T
                       THEN [clients[c] EXCEPT !.is_throttled = TRUE,
                               !.exhausted = TRUE, !.pending_drop = TRUE,
                               !.drop_sent = TRUE]
                       ELSE IF c \in P(T)
                       THEN [clients[c] EXCEPT !.pending_drop = TRUE,
                               !.drop_sent = TRUE]
                       ELSE clients[c]]
<1>1. PICK quiet \in BOOLEAN : quiet = (ctl = 0)
  BY Zenon
<1>2. Good(clients, gpu_contexts, stack, quiet)
  BY <1>1, Zenon DEF SchedInv
<1>3. PICK T : /\ send_message(T \cup P(T), "DROP_LOCK")
               /\ IF expired
                  THEN \E R \in CarriedOver(g, cs(T)) :
                         clients' = ResetWindow(g, cs(T), R)
                  ELSE clients' = cs(T)
  BY Zenon DEF timer_thr_fn
<1>4. cs(T) \in [Clients -> GoodRecords]
  <2>1. \A r \in GoodRecords :
          /\ [r EXCEPT !.is_throttled = TRUE, !.exhausted = TRUE,
                       !.pending_drop = TRUE, !.drop_sent = TRUE] \in GoodRecords
          /\ [r EXCEPT !.pending_drop = TRUE, !.drop_sent = TRUE] \in GoodRecords
    BY Zenon DEF GoodRecords, ClientRecords
  <2>2. QED
    BY Zenon, <1>2, <2>1 DEF Good
<1>5. clients' \in [Clients -> GoodRecords]
  <2> HIDE DEF cs
  <2>1. \A R : ResetWindow(g, cs(T), R) \in [Clients -> GoodRecords]
    BY <1>4, QuotaTypes
  <2>2. clients' = cs(T) \/ \E R : clients' = ResetWindow(g, cs(T), R)
    BY <1>3, Zenon
  <2>3. QED
    BY <1>4, <2>1, <2>2
<1>6. /\ gpu_contexts' \in [GPUs -> Contexts]
      /\ \A h \in GPUs : ContextOK(gpu_contexts'[h], quiet)
  <2>1. gpu_contexts' = [gpu_contexts EXCEPT ![g].window_expired = FALSE]
    BY Zenon DEF timer_thr_fn
  <2>2. QED
    BY Zenon, <1>2, <2>1, WindowGood DEF Good
<1>7. stack' \in Seq(HandlerFrames) /\ stack' \in Seq(Frames)
  <2>1. stack' = <<>> \/ stack' = <<Call("try_schedule", g)>>
    BY Zenon DEF timer_thr_fn, AfterReset
  <2>2. <<>> \in Seq(HandlerFrames) /\ <<Call("try_schedule", g)>> \in Seq(HandlerFrames)
    BY FrameTypes
  <2>3. Seq(HandlerFrames) \subseteq Seq(Frames)
    BY FrameTypes
  <2>4. QED
    BY Zenon, <2>1, <2>2, <2>3
<1>8. Good(clients', gpu_contexts', stack', quiet)
  BY <1>5, <1>6, <1>7 DEF Good
<1>9. /\ toClient' \in [Clients -> Seq(ToClientMsgs)]
      /\ status' \in {"up", "sigpipe", "stack_overflow", "freed_client", "exit"}
  BY Zenon, <1>3, SendType DEF ToClientMsgs, SchedInv
<1>10. QED
  BY Zenon, <1>1, <1>8, <1>9, Assemble DEF timer_thr_fn, CommTypeOK, SchedTypeOK, SchedInv

-----------------------------------------------------------------------------
(* Every step of the scheduler keeps the invariant.                         *)
LEMMA SchedNextInv ==
  ASSUME SchedInv, SchedNext
  PROVE  SchedInv'
<1>1. CASE StackStep
  BY <1>1, WaitQueueInv, RetryInv, TryDeferInv, TryDeadInv, TryGrantInv,
     PurgeInv, FreeInv, BcastInv, ClearRequestsInv, Zenon DEF StackStep
<1>2. CASE MainStep
  BY <1>2, EpollWaitInv, AcceptInv, DisconnectInv, RegisterInv,
     LockMessageInv, MemUpdateInv, Zenon DEF MainStep, EventStep
<1>3. CASE SchedOn \/ SchedOff
  BY <1>3, CommandInv
<1>4. CASE \E g \in GPUs : TimerStep(g)
  BY <1>4, WindowInv, TimerInv, Zenon DEF TimerStep
<1>5. QED
  BY <1>1, <1>2, <1>3, <1>4 DEF SchedNext

(* The initial state satisfies it.                                          *)
LEMMA SchedInitInv ==
  ASSUME CommInit, SchedInit
  PROVE  SchedInv
<1>1. CommTypeOK
  BY DEF CommInit, CommTypeOK, SockStates
<1>2. NewContext \in Contexts /\ \A q \in BOOLEAN : ContextOK(NewContext, q)
  BY DEF NewContext, Contexts, ContextOK
<1>3. NoClient \in GoodRecords /\ NoClient \in ClientRecords
  BY DEF NoClient, GoodRecords, ClientRecords
<1>4. SchedTypeOK
  <2>1. /\ gpu_contexts \in [GPUs -> Contexts]
        /\ clients \in [Clients -> ClientRecords]
    BY <1>2, <1>3 DEF SchedInit
  <2>2. stack \in Seq(Frames) /\ batch \in Seq(Clients)
    BY DEF SchedInit
  <2>3. QED
    BY Zenon, <2>1, <2>2 DEF SchedInit, SchedTypeOK
<1>5. Good(clients, gpu_contexts, stack, ctl = 0)
  <2>1. PICK quiet \in BOOLEAN : quiet = (ctl = 0)
    BY Zenon
  <2>2. Good(clients, gpu_contexts, stack, quiet)
    BY <1>2, <1>3 DEF Good, SchedInit
  <2>3. QED
    BY <2>1, <2>2, Zenon
<1>6. QED
  BY <1>1, <1>4, <1>5 DEF SchedInv

=============================================================================
