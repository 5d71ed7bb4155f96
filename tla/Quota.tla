------------------------------- MODULE Quota -------------------------------
(***************************************************************************)
(* The compute quota of src/scheduler.c in milliseconds, for one GPU: the  *)
(* window, weighted billing, carry-over, throttling and the sleep of the   *)
(* timer thread.  Scheduler only says that a quota is used up or not;      *)
(* here it is added up.  Memory never refuses a client here, so whoever    *)
(* has quota left runs, and the order of the queues does not matter.       *)
(*                                                                         *)
(* Clocks are kept as distances to now: what grows by 1 in every           *)
(* millisecond is now minus the timestamp that the code stores.            *)
(***************************************************************************)
EXTENDS Integers, FiniteSets, FiniteSetsExt

CONSTANTS
  Clients,            \* the registered clients of the GPU
  CORE_LIMIT,         \* core_limit of each of them
  COMPUTE_WINDOW_MS,  \* config.compute_window_ms
  SAMPLE_INTERVAL_MS, \* config.quota_sample_interval_ms
  CARRYOVER_PERCENT,  \* config.quota_carryover_percent
  DROP_TAIL_PERCENT,  \* config.drop_tail_billing_percent
  MIN_SLEEP_MS,       \* the 10 ms below which a sleep is rounded up
  SWITCH_TIME_MS,     \* time_multiplier, in ms per GB
  MIN_SWITCH_MS,      \* the clamp of the switch time: 10 s ...
  MAX_SWITCH_MS,      \* ... to 300 s
  MemGB,              \* running_memory_usage in GB: the values it can have
  LATENCY,            \* bound: ms the timer thread is late for its wake-up
  MAX_TAIL            \* bound: ms from DROP_LOCK to LOCK_RELEASED

ASSUME QuotaAssumption ==
  /\ CORE_LIMIT \in [Clients -> 1..100]
  /\ IsFiniteSet(Clients)
  /\ COMPUTE_WINDOW_MS \in Nat \ {0} /\ SAMPLE_INTERVAL_MS \in Nat \ {0}
  /\ CARRYOVER_PERCENT \in 0..100 /\ DROP_TAIL_PERCENT \in 0..100
  /\ MIN_SLEEP_MS \in Nat /\ SWITCH_TIME_MS \in Nat
  /\ MIN_SWITCH_MS \in Nat \ {0} /\ MAX_SWITCH_MS \in Nat
  /\ MIN_SWITCH_MS <= MAX_SWITCH_MS
  /\ MemGB \subseteq Nat
  /\ LATENCY \in Nat /\ MAX_TAIL \in Nat

VARIABLES
  win,      \* now - ctx->window_start_ms
  account,  \* the quota fields of struct nvshare_client
  running,  \* clients in running_list
  waiting,  \* clients in requests or wait_queue
  sleep,    \* ms until the timer thread wakes up; negative: it is late
  full_tq   \* min_sleep_ms >= default_tq_ms, and no signal came so far

quotaVars == <<win, account, running, waiting, sleep, full_tq>>

Limited == {c \in Clients : CORE_LIMIT[c] < 100}

(* run_ms is now - current_run_start_ms while the client runs.              *)
Accounts ==
  [run_time_in_window_ms : Nat, run_ms : Nat, quota_debt_ms : Nat,
   is_throttled : BOOLEAN, pending_drop : BOOLEAN,
   drop_concurrency : Nat \ {0}, drop_sent : BOOLEAN]

NewAccount ==
  [run_time_in_window_ms |-> 0, run_ms |-> 0, quota_debt_ms |-> 0,
   is_throttled |-> FALSE, pending_drop |-> FALSE, drop_concurrency |-> 1,
   drop_sent |-> FALSE]

-----------------------------------------------------------------------------
(* Shares and billing.                                                      *)

calculate_total_quota ==
  IF Limited = {} THEN 100 ELSE MapThenSumSet(LAMBDA c : CORE_LIMIT[c], Limited)

(* "return total > 0 ? total : 100": a positive int.                        *)
ASSUME TotalAssumption == calculate_total_quota \in Nat \ {0}

(* The share of c in a window, scaled down when the GPU is oversubscribed.  *)
get_effective_quota_ms(c) ==
  LET base == (COMPUTE_WINDOW_MS * CORE_LIMIT[c]) \div 100
  IN  IF calculate_total_quota <= 100 THEN base
      ELSE (base * 100) \div calculate_total_quota

count_running_clients(run) ==
  IF run \cap Limited = {} THEN 1 ELSE Cardinality(run \cap Limited)

(* The run so far is billed, divided by the clients that shared it.         *)
Billed(a, n) ==
  [a EXCEPT !.run_time_in_window_ms = @ + (a.run_ms \div n), !.run_ms = 0]

(* The accounts acc when the clients in run have been billed up to now.     *)
accrue_running_usage(acc, run, exclude) ==
  [c \in Clients |->
     IF c \in (run \cap Limited) \ exclude /\ ~acc[c].pending_drop
     THEN Billed(acc[c], count_running_clients(run)) ELSE acc[c]]

(* What c has used when the run in progress is counted.                     *)
Usage(acc, run, c) ==
  acc[c].run_time_in_window_ms
    + (acc[c].run_ms \div count_running_clients(run))

-----------------------------------------------------------------------------
(* The window.                                                              *)

Expired == win >= COMPUTE_WINDOW_MS

(* Mutants: all that was used is carried over; what is left of a quota is.  *)
CarryAll(used, limit) == IF used > limit THEN used ELSE 0
CarryCredit(used, limit) == ((used - limit) * CARRYOVER_PERCENT) \div 100

(* The part of the overage that the next window starts with.                *)
Carry(used, limit) ==
  IF used > limit THEN ((used - limit) * CARRYOVER_PERCENT) \div 100 ELSE 0

(* check_and_reset_window, once the window has expired.                     *)
ResetWindow(acc, run) ==
  LET settled == accrue_running_usage(acc, run, {})
      carry(c) == IF c \in Limited
                  THEN Carry(settled[c].run_time_in_window_ms,
                             get_effective_quota_ms(c))
                  ELSE 0
  IN  [c \in Clients |->
         [settled[c] EXCEPT !.run_time_in_window_ms = carry(c),
                            !.quota_debt_ms = carry(c),
                            !.is_throttled = FALSE]]

-----------------------------------------------------------------------------
(* Admission.                                                               *)

(* can_run, for a window that is fresh.                                     *)
can_run(acc, c) ==
  c \in Limited =>
    /\ ~acc[c].is_throttled
    /\ acc[c].run_time_in_window_ms < get_effective_quota_ms(c)

(* The clients of G are granted the lock beside those of run.               *)
Granted(acc, run, G) ==
  LET settled == IF G = {} THEN acc ELSE accrue_running_usage(acc, run, {})
  IN  [c \in Clients |->
         IF c \in G
         THEN [settled[c] EXCEPT !.run_ms = 0, !.pending_drop = FALSE,
                                 !.drop_concurrency = 1]
         ELSE settled[c]]

(* try_schedule with the clients of wait queued: everybody who can run is   *)
(* granted the lock.  can_run resets an expired window first.               *)
try_schedule(acc, run, wait) ==
  LET fresh == IF Expired THEN ResetWindow(acc, run) ELSE acc
      G     == {c \in wait : can_run(fresh, c)}
  IN  /\ account' = Granted(fresh, run, G)
      /\ running' = run \cup G
      /\ waiting' = wait \ G
      /\ win' = IF Expired THEN 0 ELSE win

(* pthread_cond_broadcast(&ctx->timer_cv).  A wait that has timed out       *)
(* already still returns ETIMEDOUT.                                         *)
Broadcast ==
  /\ sleep' = IF sleep > 0 THEN 0 ELSE sleep
  /\ full_tq' = (full_tq /\ sleep <= 0)

(* REQ_LOCK.                                                                *)
Request(c) ==
  /\ c \notin running \cup waiting
  /\ try_schedule(account, running, waiting \cup {c})
  /\ IF running' = running THEN UNCHANGED <<sleep, full_tq>> ELSE Broadcast

(* The time from DROP_LOCK to LOCK_RELEASED is billed at a reduced rate.    *)
TailBilled(a) ==
  ((a.run_ms \div a.drop_concurrency) * DROP_TAIL_PERCENT) \div 100

(* Mutant: c is not excluded from the settlement, and billed again.         *)
remove_req_twice(acc, run, c) ==
  LET settled == accrue_running_usage(acc, run, {})
      billed  == IF c \notin Limited THEN 0
                 ELSE acc[c].run_ms \div count_running_clients(run)
  IN  [settled EXCEPT ![c] =
         [settled[c] EXCEPT !.run_time_in_window_ms = @ + billed, !.run_ms = 0,
                   !.pending_drop = FALSE, !.drop_concurrency = 1,
                   !.drop_sent = FALSE]]

(* remove_req: c leaves running_list.  Its own run is billed last.  The     *)
(* code bills a client without a limit too; nothing reads that bill while   *)
(* the limits are fixed, so here it and its clock stay 0.                   *)
remove_req(acc, run, c) ==
  LET settled == accrue_running_usage(acc, run, {c})
      a       == acc[c]
      billed  == IF c \notin Limited THEN 0
                 ELSE IF a.pending_drop THEN TailBilled(a)
                 ELSE a.run_ms \div count_running_clients(run)
  IN  [settled EXCEPT ![c] =
         [a EXCEPT !.run_time_in_window_ms = @ + billed, !.run_ms = 0,
                   !.pending_drop = FALSE, !.drop_concurrency = 1,
                   !.drop_sent = FALSE]]

(* LOCK_RELEASED.  When the last client has left, the others are tried.     *)
Release(c) ==
  LET acc == remove_req(account, running, c)
      run == running \ {c}
  IN  /\ c \in running
      /\ IF run = {} /\ waiting # {}
         THEN try_schedule(acc, run, waiting)
         ELSE /\ account' = acc /\ running' = run
              /\ UNCHANGED <<waiting, win>>
      /\ Broadcast

-----------------------------------------------------------------------------
(* The timer thread.                                                        *)

calculate_switch_time(mem_gb) ==
  Min({MAX_SWITCH_MS,
       Max({MIN_SWITCH_MS, SWITCH_TIME_MS * Max({mem_gb, 1})})})

(* The ms after which c, running with the clients of run, has used up its   *)
(* share.                                                                   *)
WallLeft(acc, run, c) ==
  LET left == get_effective_quota_ms(c) - Usage(acc, run, c)
  IN  IF left <= 0 THEN 0 ELSE left * count_running_clients(run)

WindowRemaining(w) == IF w < COMPUTE_WINDOW_MS THEN COMPUTE_WINDOW_MS - w ELSE 0

(* The earliest of the time quantum, the end of the window, the next sample *)
(* and the end of a running client's quota.                                 *)
NextDeadline(acc, run, w, tq) ==
  Min({tq, WindowRemaining(w), COMPUTE_WINDOW_MS}
        \cup {WallLeft(acc, run, c) : c \in run \cap Limited}
        \cup (IF run \cap Limited = {} THEN {} ELSE {SAMPLE_INTERVAL_MS}))

(* Mutant: a short sleep is always rounded up.                              *)
RoundedUp(ms, w) == IF ms > 0 /\ ms < MIN_SLEEP_MS THEN MIN_SLEEP_MS ELSE ms

(* "Avoid busy loop, but preserve sub-10ms sleeps near window boundary."    *)
Rounded(ms, w) ==
  IF ms > 0 /\ ms < MIN_SLEEP_MS /\ WindowRemaining(w) > MIN_SLEEP_MS
  THEN MIN_SLEEP_MS ELSE ms

(* Mutant: the run in progress is not counted.                              *)
ThrottledSettled(acc, run) ==
  {c \in run \cap Limited :
     /\ ~acc[c].is_throttled /\ ~acc[c].pending_drop
     /\ acc[c].run_time_in_window_ms >= get_effective_quota_ms(c)}

(* Running clients that have used up their quota and have no DROP_LOCK yet. *)
Throttled(acc, run) ==
  {c \in run \cap Limited :
     /\ ~acc[c].is_throttled /\ ~acc[c].pending_drop
     /\ Usage(acc, run, c) >= get_effective_quota_ms(c)}

(* Running clients that a full time quantum preempts, T just throttled.     *)
Preempted(acc, run, T) ==
  IF full_tq /\ waiting # {}
  THEN {c \in run \ T : ~acc[c].is_throttled /\ ~acc[c].drop_sent}
  ELSE {}

(* DROP_LOCK is sent to the clients of T (quota) and of P (time quantum).   *)
Dropped(acc, run, T, P) ==
  LET n == count_running_clients(run)
  IN  [c \in Clients |->
         IF c \in T
         THEN [Billed(acc[c], n) EXCEPT
                 !.is_throttled = TRUE, !.pending_drop = TRUE,
                 !.drop_concurrency = n, !.drop_sent = TRUE]
         ELSE IF c \in P
         THEN [acc[c] EXCEPT !.pending_drop = TRUE, !.drop_concurrency = n,
                             !.drop_sent = TRUE]
         ELSE acc[c]]

(* One round of the loop of timer_thr_fn, from wake-up to sleep.            *)
timer_thr_fn ==
  LET T   == Throttled(account, running)
      acc == Dropped(account, running, T, Preempted(account, running, T))
  IN  /\ sleep <= 0
      /\ IF Expired
         THEN try_schedule(acc, running, waiting)
         ELSE account' = acc /\ UNCHANGED <<running, waiting, win>>
      /\ \E mem_gb \in MemGB :
           LET tq == calculate_switch_time(mem_gb)
           IN  /\ sleep' = Rounded(NextDeadline(account', running', win', tq),
                                   win')
               /\ full_tq' = (sleep' >= tq)

-----------------------------------------------------------------------------
(* A millisecond passes.  An unlimited client is not billed, so its run is  *)
(* not measured.                                                            *)
Tick ==
  /\ sleep > -LATENCY
  /\ \A c \in running \cap Limited :
       account[c].pending_drop => account[c].run_ms < MAX_TAIL
  /\ win' = win + 1
  /\ account' = [c \in Clients |->
       IF c \in running \cap Limited THEN [account[c] EXCEPT !.run_ms = @ + 1]
       ELSE account[c]]
  /\ sleep' = sleep - 1
  /\ UNCHANGED <<running, waiting, full_tq>>

(* The first client has just registered; the timer thread is starting.      *)
Init ==
  /\ win = 0
  /\ account = [c \in Clients |-> NewAccount]
  /\ running = {} /\ waiting = {}
  /\ sleep = 0 /\ full_tq = FALSE

Next == Tick \/ timer_thr_fn \/ \E c \in Clients : Request(c) \/ Release(c)

Spec == Init /\ [][Next]_quotaVars

(* Time passes, the timer thread runs, and a limited client that was told   *)
(* to drop the lock does.                                                   *)
FairSpec ==
  /\ Spec
  /\ WF_quotaVars(Tick) /\ WF_quotaVars(timer_thr_fn)
  /\ WF_quotaVars(\E c \in Limited : account[c].pending_drop /\ Release(c))

-----------------------------------------------------------------------------
(* The variables have the types of the C fields.                            *)
TypeOK ==
  /\ win \in Nat
  /\ account \in [Clients -> Accounts]
  /\ running \subseteq Clients /\ waiting \subseteq Clients \ running
  /\ sleep \in Int /\ full_tq \in BOOLEAN

(* "Never sleep past current compute-window boundary" (timer_thr_fn), also  *)
(* when main resets the window, grants the lock or takes it back while the  *)
(* timer thread sleeps.                                                     *)
SleepWithinWindow == sleep > 0 => win + sleep <= COMPUTE_WINDOW_MS

(* A running client is told to drop the lock at the latest when it is over  *)
(* its share by a rounded-up sleep and the lateness of the timer thread,    *)
(* whatever clients come and go meanwhile and change the rate of billing.   *)
OvershootBounded ==
  \A c \in running \cap Limited : ~account[c].pending_drop =>
    Usage(account, running, c)
      <= get_effective_quota_ms(c) + MIN_SLEEP_MS + LATENCY

(* No millisecond is billed twice to a client: beyond what was carried over *)
(* it is not billed for more than the window has lasted, and the tail of a  *)
(* drop that began before the window.                                       *)
BilledOnce ==
  \A c \in Limited :
    account[c].run_time_in_window_ms
      <= account[c].quota_debt_ms + win + MAX_TAIL

(* Debt is worked off: a client that waits for its quota gets the lock      *)
(* again, however much it overran in the windows before.                    *)
EventuallyRuns == \A c \in Limited : c \in waiting ~> c \in running

(* The timer thread sleeps for a full time quantum, and may preempt after   *)
(* it, only where the shortest quantum fits in the compute window.          *)
QuantumFits == full_tq => MIN_SWITCH_MS <= COMPUTE_WINDOW_MS

=============================================================================
