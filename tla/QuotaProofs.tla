---------------------------- MODULE QuotaProofs ----------------------------
(***************************************************************************)
(* Theorems about Quota, for every number of clients and every             *)
(* configuration of the window, the shares and the timer.                  *)
(***************************************************************************)
EXTENDS Quota, TLAPS, FiniteSetTheorems, WellFoundedInduction, NaturalsInduction

-----------------------------------------------------------------------------
(* Arithmetic.                                                              *)

(* A set of naturals has a least element, and Min is it.                    *)
LEMMA MinNat ==
  ASSUME NEW S \in SUBSET Nat, S # {}
  PROVE  Min(S) \in S /\ \A y \in S : Min(S) <= y
<1> DEFINE R == {ss \in Nat \X Nat : ss[1] < ss[2]}
<1>1. IsWellFoundedOn(R, Nat)  BY NatLessThanWellFounded DEF OpToRel
<1>2. PICK x \in S : \A y \in S : ~(<<y, x>> \in R)
  <2> HIDE DEF R
  <2> QED BY Zenon, <1>1, WFMin
<1>3. \A y \in S : x <= y
  <2> TAKE y \in S
  <2>1. x \in Nat /\ y \in Nat  OBVIOUS
  <2>2. ~(y < x)  BY Zenon, <1>2, <2>1
  <2> QED BY <2>1, <2>2
<1> QED BY Zenon, <1>3 DEF Min

(* Max of two naturals is a natural not below either of them.               *)
LEMMA MaxPair ==
  ASSUME NEW a \in Nat, NEW b \in Nat
  PROVE  Max({a, b}) \in Nat /\ Max({a, b}) >= a /\ Max({a, b}) >= b
<1>1. \E x \in {a, b} : \A y \in {a, b} : x >= y
  <2>1. CASE a >= b  BY <2>1
  <2>2. CASE b >= a  BY <2>2
  <2> QED BY <2>1, <2>2
<1>2. Max({a, b}) \in {a, b} /\ \A y \in {a, b} : Max({a, b}) >= y
  BY <1>1 DEF Max
<1> QED BY <1>2

(* Billing divides naturals by positive naturals.                           *)
LEMMA DivNat ==
  ASSUME NEW a \in Nat, NEW b \in Nat \ {0}
  PROVE  a \div b \in Nat
OBVIOUS

(* A deadline within a window.                                              *)
LEMMA EarlierStart ==
  ASSUME NEW w \in Int, NEW v \in Int, NEW s \in Int, NEW W \in Int,
         v <= w, w + s <= W
  PROVE  v + s <= W
OBVIOUS

LEMMA WithinRest ==
  ASSUME NEW v \in Nat, NEW s \in Int, NEW W \in Int, s <= W - v
  PROVE  v + s <= W /\ s <= W
OBVIOUS

(* At least 1 in every divisor.                                             *)
LEMMA CountPositive ==
  ASSUME NEW run \in SUBSET Clients
  PROVE  count_running_clients(run) \in Nat \ {0}
<1>1. CASE run \cap Limited = {}  BY <1>1 DEF count_running_clients
<1>2. CASE run \cap Limited # {}
  <2>1. IsFiniteSet(run \cap Limited)
    BY QuotaAssumption, FS_Subset DEF Limited
  <2> QED
    BY <1>2, <2>1, FS_CardinalityType, FS_EmptySet DEF count_running_clients
<1> QED BY <1>1, <1>2

(* A share is a number of milliseconds.                                     *)
LEMMA QuotaNat ==
  ASSUME NEW c \in Clients
  PROVE  get_effective_quota_ms(c) \in Nat
<1> DEFINE base == (COMPUTE_WINDOW_MS * CORE_LIMIT[c]) \div 100
<1>1. COMPUTE_WINDOW_MS * CORE_LIMIT[c] \in Nat  BY QuotaAssumption
<1>2. base \in Nat  BY <1>1
<1> HIDE DEF base
<1>3. base * 100 \in Nat  BY <1>2
<1>4. (base * 100) \div calculate_total_quota \in Nat
  BY <1>3, TotalAssumption, DivNat
<1> QED BY <1>2, <1>4 DEF get_effective_quota_ms, base

-----------------------------------------------------------------------------
(* The operators on accounts return accounts.                               *)

(* Settling a run.                                                          *)
LEMMA BilledAccount ==
  ASSUME NEW a \in Accounts, NEW n \in Nat \ {0}
  PROVE  Billed(a, n) \in Accounts
<1>1. a.run_ms \div n \in Nat  BY DivNat DEF Accounts
<1>2. a.run_time_in_window_ms + (a.run_ms \div n) \in Nat  BY <1>1 DEF Accounts
<1> QED BY Zenon, <1>2 DEF Billed, Accounts

(* Settling the running clients.                                            *)
LEMMA AccruedAccounts ==
  ASSUME NEW acc \in [Clients -> Accounts], NEW run \in SUBSET Clients, NEW X
  PROVE  accrue_running_usage(acc, run, X) \in [Clients -> Accounts]
BY BilledAccount, CountPositive DEF accrue_running_usage

(* The carried-over debt.                                                   *)
LEMMA CarryNat ==
  ASSUME NEW used \in Nat, NEW limit \in Nat
  PROVE  Carry(used, limit) \in Nat
<1>1. CASE used > limit
  <2>1. used - limit \in Nat  BY <1>1
  <2>2. (used - limit) * CARRYOVER_PERCENT \in Nat  BY <2>1, QuotaAssumption
  <2> QED BY <1>1, <2>2, DivNat DEF Carry
<1>2. CASE ~(used > limit)  BY <1>2 DEF Carry
<1> QED BY <1>1, <1>2

(* Starting a window.                                                       *)
LEMMA ResetAccounts ==
  ASSUME NEW acc \in [Clients -> Accounts], NEW run \in SUBSET Clients
  PROVE  ResetWindow(acc, run) \in [Clients -> Accounts]
<1> DEFINE settled == accrue_running_usage(acc, run, {})
           carry(c) == IF c \in Limited
                       THEN Carry(settled[c].run_time_in_window_ms,
                                  get_effective_quota_ms(c))
                       ELSE 0
<1>1. settled \in [Clients -> Accounts]  BY AccruedAccounts
<1> HIDE DEF settled
<1>2. \A c \in Clients : settled[c].run_time_in_window_ms \in Nat
  BY <1>1 DEF Accounts
<1>3. \A c \in Clients : carry(c) \in Nat  BY <1>2, CarryNat, QuotaNat
<1> HIDE DEF carry
<1>4. \A c \in Clients :
        [settled[c] EXCEPT !.run_time_in_window_ms = carry(c),
                           !.quota_debt_ms = carry(c),
                           !.is_throttled = FALSE] \in Accounts
  BY Zenon, <1>1, <1>3 DEF Accounts
<1>5. ResetWindow(acc, run) =
        [c \in Clients |->
           [settled[c] EXCEPT !.run_time_in_window_ms = carry(c),
                              !.quota_debt_ms = carry(c),
                              !.is_throttled = FALSE]]
  BY DEF ResetWindow, settled, carry
<1> QED BY Zenon, <1>4, <1>5

(* The fields that a grant and a release assign.                            *)
LEMMA FreshRun ==
  ASSUME NEW a \in Accounts
  PROVE  [a EXCEPT !.run_ms = 0, !.pending_drop = FALSE,
                   !.drop_concurrency = 1] \in Accounts
<1>1. \A n \in Nat \ {0} :
        [a EXCEPT !.run_ms = 0, !.pending_drop = FALSE,
                  !.drop_concurrency = n] \in Accounts
  BY Zenon DEF Accounts
<1>2. 1 \in Nat \ {0}  OBVIOUS
<1> QED BY <1>1, <1>2, Zenon

LEMMA EndedRun ==
  ASSUME NEW a \in Accounts, NEW billed \in Nat
  PROVE  [a EXCEPT !.run_time_in_window_ms = @ + billed, !.run_ms = 0,
                   !.pending_drop = FALSE, !.drop_concurrency = 1,
                   !.drop_sent = FALSE] \in Accounts
<1>1. \A m, k \in Nat, n \in Nat \ {0} :
        [a EXCEPT !.run_time_in_window_ms = m, !.run_ms = k,
                  !.pending_drop = FALSE, !.drop_concurrency = n,
                  !.drop_sent = FALSE] \in Accounts
  BY Zenon DEF Accounts
<1>2. 1 \in Nat \ {0} /\ 0 \in Nat  OBVIOUS
<1>3. a.run_time_in_window_ms + billed \in Nat  BY DEF Accounts
<1> QED BY <1>1, <1>2, <1>3, Zenon

(* Granting the lock.                                                       *)
LEMMA GrantedAccounts ==
  ASSUME NEW acc \in [Clients -> Accounts], NEW run \in SUBSET Clients, NEW G
  PROVE  Granted(acc, run, G) \in [Clients -> Accounts]
<1> DEFINE settled == IF G = {} THEN acc ELSE accrue_running_usage(acc, run, {})
<1>1. settled \in [Clients -> Accounts]  BY AccruedAccounts
<1> HIDE DEF settled
<1>2. \A c \in Clients :
        [settled[c] EXCEPT !.run_ms = 0, !.pending_drop = FALSE,
                           !.drop_concurrency = 1] \in Accounts
  BY Zenon, <1>1, FreshRun
<1>3. Granted(acc, run, G) =
        [c \in Clients |->
           IF c \in G
           THEN [settled[c] EXCEPT !.run_ms = 0, !.pending_drop = FALSE,
                                   !.drop_concurrency = 1]
           ELSE settled[c]]
  BY DEF Granted, settled
<1> QED BY Zenon, <1>1, <1>2, <1>3

(* Taking the lock back.                                                    *)
LEMMA RemovedAccounts ==
  ASSUME NEW acc \in [Clients -> Accounts], NEW run \in SUBSET Clients,
         NEW c \in Clients
  PROVE  remove_req(acc, run, c) \in [Clients -> Accounts]
<1> DEFINE settled == accrue_running_usage(acc, run, {c})
           a == acc[c]
           billed == IF c \notin Limited THEN 0
                     ELSE IF a.pending_drop THEN TailBilled(a)
                     ELSE a.run_ms \div count_running_clients(run)
<1>1. settled \in [Clients -> Accounts]  BY AccruedAccounts
<1>2. a \in Accounts  OBVIOUS
<1>3. TailBilled(a) \in Nat
  <2>1. a.run_ms \div a.drop_concurrency \in Nat  BY <1>2, DivNat DEF Accounts
  <2>2. (a.run_ms \div a.drop_concurrency) * DROP_TAIL_PERCENT \in Nat
    BY <2>1, QuotaAssumption
  <2> QED BY <2>2, DivNat DEF TailBilled
<1>4. a.run_ms \div count_running_clients(run) \in Nat
  BY <1>2, DivNat, CountPositive DEF Accounts
<1>5. billed \in Nat  BY <1>3, <1>4
<1> HIDE DEF settled, a, billed
<1>6. [a EXCEPT !.run_time_in_window_ms = @ + billed, !.run_ms = 0,
                !.pending_drop = FALSE, !.drop_concurrency = 1,
                !.drop_sent = FALSE] \in Accounts
  BY Zenon, <1>2, <1>5, EndedRun
<1>7. remove_req(acc, run, c) =
        [settled EXCEPT ![c] =
           [a EXCEPT !.run_time_in_window_ms = @ + billed, !.run_ms = 0,
                     !.pending_drop = FALSE, !.drop_concurrency = 1,
                     !.drop_sent = FALSE]]
  BY DEF remove_req, settled, a, billed
<1> QED BY <1>1, <1>6, <1>7

(* Sending DROP_LOCK.                                                       *)
LEMMA DroppedAccounts ==
  ASSUME NEW acc \in [Clients -> Accounts], NEW run \in SUBSET Clients,
         NEW T, NEW P
  PROVE  Dropped(acc, run, T, P) \in [Clients -> Accounts]
<1> DEFINE n == count_running_clients(run)
<1>1. n \in Nat \ {0}  BY CountPositive
<1> HIDE DEF n
<1>2. \A c \in Clients : Billed(acc[c], n) \in Accounts  BY <1>1, BilledAccount
<1>3. \A c \in Clients :
        [Billed(acc[c], n) EXCEPT
           !.is_throttled = TRUE, !.pending_drop = TRUE,
           !.drop_concurrency = n, !.drop_sent = TRUE] \in Accounts
  BY Zenon, <1>1, <1>2 DEF Accounts
<1>4. \A c \in Clients :
        [acc[c] EXCEPT !.pending_drop = TRUE, !.drop_concurrency = n,
                       !.drop_sent = TRUE] \in Accounts
  BY Zenon, <1>1 DEF Accounts
<1> QED BY Zenon, <1>3, <1>4 DEF Dropped, n

-----------------------------------------------------------------------------
(* The sleep of the timer thread.                                           *)

(* No switch time is shorter than the lower end of the clamp.               *)
LEMMA SwitchTime ==
  ASSUME NEW mem_gb \in MemGB
  PROVE  /\ calculate_switch_time(mem_gb) \in Nat
         /\ MIN_SWITCH_MS <= calculate_switch_time(mem_gb)
<1> DEFINE gb == Max({mem_gb, 1})
           raw == Max({MIN_SWITCH_MS, SWITCH_TIME_MS * gb})
<1>1. gb \in Nat  BY MaxPair, QuotaAssumption
<1> HIDE DEF gb
<1>2. SWITCH_TIME_MS * gb \in Nat  BY <1>1, QuotaAssumption
<1>3. raw \in Nat /\ raw >= MIN_SWITCH_MS  BY <1>2, MaxPair, QuotaAssumption
<1> HIDE DEF raw
<1>4. {MAX_SWITCH_MS, raw} \in SUBSET Nat  BY <1>3, QuotaAssumption
<1>5. Min({MAX_SWITCH_MS, raw}) \in {MAX_SWITCH_MS, raw}
  BY <1>4, MinNat, Zenon
<1>6. calculate_switch_time(mem_gb) = Min({MAX_SWITCH_MS, raw})
  BY DEF calculate_switch_time, raw, gb
<1> QED BY <1>3, <1>5, <1>6, QuotaAssumption

(* The time left to a client is a number of milliseconds.                   *)
LEMMA WallLeftNat ==
  ASSUME NEW acc \in [Clients -> Accounts], NEW run \in SUBSET Clients,
         NEW c \in Clients
  PROVE  WallLeft(acc, run, c) \in Nat
<1> DEFINE n == count_running_clients(run)
           left == get_effective_quota_ms(c) - Usage(acc, run, c)
<1>1. n \in Nat \ {0}  BY CountPositive
<1>2. acc[c].run_ms \div n \in Nat  BY <1>1, DivNat DEF Accounts
<1>3. Usage(acc, run, c) \in Nat  BY <1>2 DEF Usage, Accounts
<1>4. left \in Int  BY <1>3, QuotaNat
<1> HIDE DEF n, left
<1>5. CASE left <= 0  BY <1>5 DEF WallLeft, left
<1>6. CASE ~(left <= 0)
  <2>1. left * n \in Nat  BY <1>1, <1>4, <1>6
  <2> QED BY <1>6, <2>1 DEF WallLeft, left, n
<1> QED BY <1>5, <1>6

(* "Never sleep past current compute-window boundary", rounding included.   *)
LEMMA SleepBound ==
  ASSUME NEW acc \in [Clients -> Accounts], NEW run \in SUBSET Clients,
         NEW w \in Nat, NEW tq \in Nat
  PROVE  /\ Rounded(NextDeadline(acc, run, w, tq), w) \in Nat
         /\ Rounded(NextDeadline(acc, run, w, tq), w) <= WindowRemaining(w)
<1> DEFINE S == {tq, WindowRemaining(w), COMPUTE_WINDOW_MS}
                  \cup {WallLeft(acc, run, c) : c \in run \cap Limited}
                  \cup (IF run \cap Limited = {} THEN {}
                        ELSE {SAMPLE_INTERVAL_MS})
           ms == NextDeadline(acc, run, w, tq)
<1>1. WindowRemaining(w) \in Nat  BY QuotaAssumption DEF WindowRemaining
<1>2. {WallLeft(acc, run, c) : c \in run \cap Limited} \in SUBSET Nat
  BY WallLeftNat
<1>3. S \in SUBSET Nat  BY <1>1, <1>2, QuotaAssumption
<1>4. WindowRemaining(w) \in S  OBVIOUS
<1>5. ms = Min(S)  BY DEF NextDeadline
<1> HIDE DEF S, ms
<1>6. ms \in S /\ ms <= WindowRemaining(w)
  <2>1. S # {}  BY <1>4
  <2>2. Min(S) \in S /\ \A y \in S : Min(S) <= y  BY <1>3, <2>1, MinNat
  <2> QED BY <1>4, <1>5, <2>2, Zenon
<1>7. ms \in Nat  BY <1>3, <1>6
<1>8. /\ Rounded(ms, w) \in Nat
      /\ Rounded(ms, w) <= WindowRemaining(w)
  BY <1>1, <1>6, <1>7, QuotaAssumption DEF Rounded
<1> QED BY <1>8 DEF ms

-----------------------------------------------------------------------------
(* The invariant and its preservation, one step per action.                 *)

QuotaInv == TypeOK /\ SleepWithinWindow /\ QuantumFits

(* try_schedule keeps the types and never moves the window back in time.    *)
LEMMA TryScheduleStep ==
  ASSUME NEW acc \in [Clients -> Accounts], NEW run \in SUBSET Clients,
         NEW wait \in SUBSET (Clients \ run), win \in Nat,
         try_schedule(acc, run, wait)
  PROVE  /\ account' \in [Clients -> Accounts]
         /\ running' \subseteq Clients /\ waiting' \subseteq Clients \ running'
         /\ win' \in Nat /\ win' <= win
<1> DEFINE fresh == IF Expired THEN ResetWindow(acc, run) ELSE acc
           G == {c \in wait : can_run(fresh, c)}
<1>1. fresh \in [Clients -> Accounts]  BY ResetAccounts
<1> HIDE DEF fresh
<1>2. G \subseteq wait  OBVIOUS
<1> HIDE DEF G
<1>3. /\ account' = Granted(fresh, run, G)
      /\ running' = run \cup G /\ waiting' = wait \ G
      /\ win' = IF Expired THEN 0 ELSE win
  BY DEF try_schedule, fresh, G
<1>4. account' \in [Clients -> Accounts]  BY <1>1, <1>3, GrantedAccounts
<1>5. win' \in Nat /\ win' <= win  BY <1>3
<1> QED BY <1>2, <1>3, <1>4, <1>5

(* A broadcast only shortens the sleep.                                     *)
LEMMA BroadcastStep ==
  ASSUME QuotaInv, win' \in Nat, win' <= win, Broadcast
  PROVE  /\ sleep' \in Int /\ full_tq' \in BOOLEAN
         /\ SleepWithinWindow' /\ QuantumFits'
<1>1. sleep \in Int /\ full_tq \in BOOLEAN  BY DEF QuotaInv, TypeOK
<1>2. sleep' \in Int /\ ~(sleep' > 0)  BY <1>1 DEF Broadcast
<1>3. full_tq' \in BOOLEAN /\ (full_tq' => full_tq)
  BY <1>1, Zenon DEF Broadcast
<1>4. QuantumFits'  BY <1>3 DEF QuantumFits, QuotaInv
<1> QED BY <1>2, <1>3, <1>4 DEF SleepWithinWindow

LEMMA TickStep ==
  ASSUME QuotaInv, Tick
  PROVE  QuotaInv'
<1> USE DEF QuotaInv
<1>1. account' \in [Clients -> Accounts]  BY DEF TypeOK, Tick, Accounts
<1>2. win \in Nat /\ sleep \in Int  BY DEF TypeOK
<1>3. win' = win + 1 /\ sleep' = sleep - 1  BY DEF Tick
<1>4. TypeOK'  BY <1>1, <1>2, <1>3 DEF TypeOK, Tick
<1>5. SleepWithinWindow'
  BY <1>2, <1>3, QuotaAssumption DEF SleepWithinWindow
<1>6. QuantumFits'  BY DEF QuantumFits, Tick
<1> QED BY <1>4, <1>5, <1>6

LEMMA RequestStep ==
  ASSUME QuotaInv, NEW c \in Clients, Request(c)
  PROVE  QuotaInv'
<1>1. /\ account \in [Clients -> Accounts] /\ running \in SUBSET Clients
      /\ waiting \cup {c} \in SUBSET (Clients \ running) /\ win \in Nat
  BY DEF QuotaInv, TypeOK, Request
<1>2. /\ account' \in [Clients -> Accounts]
      /\ running' \subseteq Clients /\ waiting' \subseteq Clients \ running'
      /\ win' \in Nat /\ win' <= win
  BY Zenon, <1>1, TryScheduleStep DEF Request
<1>3. CASE Broadcast
  <2>1. /\ sleep' \in Int /\ full_tq' \in BOOLEAN
        /\ SleepWithinWindow' /\ QuantumFits'
    BY <1>2, <1>3, BroadcastStep
  <2> QED BY <1>2, <2>1 DEF QuotaInv, TypeOK
<1>4. CASE UNCHANGED <<sleep, full_tq>>
  <2>1. /\ sleep \in Int /\ sleep' = sleep
        /\ sleep > 0 => win + sleep <= COMPUTE_WINDOW_MS
    BY <1>4 DEF QuotaInv, TypeOK, SleepWithinWindow
  <2>2. SleepWithinWindow'
    <3>1. win \in Nat /\ win' \in Nat /\ win' <= win  BY <1>1, <1>2
    <3>2. COMPUTE_WINDOW_MS \in Nat  BY QuotaAssumption
    <3>3. sleep > 0 => win' + sleep <= COMPUTE_WINDOW_MS
      <4> SUFFICES ASSUME sleep > 0 PROVE win' + sleep <= COMPUTE_WINDOW_MS
        OBVIOUS
      <4>1. win + sleep <= COMPUTE_WINDOW_MS  BY <2>1
      <4>2. /\ win \in Int /\ win' \in Int /\ sleep \in Int
            /\ COMPUTE_WINDOW_MS \in Int
        BY <2>1, <3>1, <3>2
      <4> QED BY Zenon, <3>1, <4>1, <4>2, EarlierStart
    <3> QED BY <2>1, <3>3 DEF SleepWithinWindow
  <2>3. QuantumFits'  BY <1>4 DEF QuotaInv, QuantumFits
  <2> QED BY <1>2, <1>4, <2>2, <2>3 DEF QuotaInv, TypeOK
<1> QED BY <1>3, <1>4 DEF Request

LEMMA ReleaseStep ==
  ASSUME QuotaInv, NEW c \in Clients, Release(c)
  PROVE  QuotaInv'
<1> DEFINE acc == remove_req(account, running, c)
           run == running \ {c}
<1>1. /\ account \in [Clients -> Accounts] /\ running \in SUBSET Clients
      /\ waiting \in SUBSET (Clients \ running) /\ win \in Nat
  BY DEF QuotaInv, TypeOK
<1>2. acc \in [Clients -> Accounts]  BY <1>1, RemovedAccounts
<1>3. run \in SUBSET Clients /\ waiting \in SUBSET (Clients \ run)  BY <1>1
<1> HIDE DEF acc, run
<1>4. /\ \/ try_schedule(acc, run, waiting)
         \/ account' = acc /\ running' = run /\ UNCHANGED <<waiting, win>>
      /\ Broadcast
  BY DEF Release, acc, run
<1>5. /\ account' \in [Clients -> Accounts]
      /\ running' \subseteq Clients /\ waiting' \subseteq Clients \ running'
      /\ win' \in Nat /\ win' <= win
  <2>1. CASE try_schedule(acc, run, waiting)
    BY <1>1, <1>2, <1>3, <2>1, TryScheduleStep
  <2>2. CASE account' = acc /\ running' = run /\ UNCHANGED <<waiting, win>>
    BY <1>1, <1>2, <1>3, <2>2
  <2> QED BY <1>4, <2>1, <2>2
<1>6. /\ sleep' \in Int /\ full_tq' \in BOOLEAN
      /\ SleepWithinWindow' /\ QuantumFits'
  BY <1>4, <1>5, BroadcastStep
<1> QED BY <1>5, <1>6 DEF QuotaInv, TypeOK

LEMMA TimerStep ==
  ASSUME QuotaInv, timer_thr_fn
  PROVE  QuotaInv'
<1> DEFINE T == Throttled(account, running)
           acc == Dropped(account, running, T, Preempted(account, running, T))
<1>1. /\ account \in [Clients -> Accounts] /\ running \in SUBSET Clients
      /\ waiting \in SUBSET (Clients \ running) /\ win \in Nat
  BY DEF QuotaInv, TypeOK
<1>2. acc \in [Clients -> Accounts]  BY <1>1, DroppedAccounts
<1>3. \/ try_schedule(acc, running, waiting)
      \/ account' = acc /\ UNCHANGED <<running, waiting, win>>
  BY DEF timer_thr_fn
<1>4. PICK mem_gb \in MemGB :
        LET tq == calculate_switch_time(mem_gb)
        IN  /\ sleep' = Rounded(NextDeadline(account', running', win', tq), win')
            /\ full_tq' = (sleep' >= tq)
  BY DEF timer_thr_fn
<1> HIDE DEF acc
<1>5. /\ account' \in [Clients -> Accounts]
      /\ running' \subseteq Clients /\ waiting' \subseteq Clients \ running'
      /\ win' \in Nat
  <2>1. CASE try_schedule(acc, running, waiting)
    BY <1>1, <1>2, <2>1, TryScheduleStep
  <2>2. CASE account' = acc /\ UNCHANGED <<running, waiting, win>>
    BY <1>1, <1>2, <2>2
  <2> QED BY <1>3, <2>1, <2>2
<1> DEFINE tq == calculate_switch_time(mem_gb)
<1>6. tq \in Nat /\ MIN_SWITCH_MS <= tq  BY SwitchTime
<1> HIDE DEF tq
<1>7. sleep' = Rounded(NextDeadline(account', running', win', tq), win')
  BY <1>4 DEF tq
<1>8. full_tq' = (sleep' >= tq)  BY <1>4, Zenon DEF tq
<1>9. sleep' \in Nat /\ sleep' <= WindowRemaining(win')
  <2>1. running' \in SUBSET Clients  BY <1>5
  <2> QED BY <1>5, <1>6, <1>7, <2>1, SleepBound
<1>10. /\ win' + sleep' <= COMPUTE_WINDOW_MS \/ ~(sleep' > 0)
       /\ sleep' <= COMPUTE_WINDOW_MS
  <2>1. CASE win' < COMPUTE_WINDOW_MS
    <3>1. WindowRemaining(win') = COMPUTE_WINDOW_MS - win'
      BY <2>1 DEF WindowRemaining
    <3>2. COMPUTE_WINDOW_MS \in Nat /\ win' \in Nat  BY <1>5, QuotaAssumption
    <3>3. sleep' <= COMPUTE_WINDOW_MS - win'  BY <1>9, <3>1
    <3>4. sleep' \in Int /\ COMPUTE_WINDOW_MS \in Int  BY <1>9, <3>2
    <3> QED BY Zenon, <3>2, <3>3, <3>4, WithinRest
  <2>2. CASE ~(win' < COMPUTE_WINDOW_MS)
    <3>1. WindowRemaining(win') = 0  BY <2>2 DEF WindowRemaining
    <3> QED BY <1>9, <3>1, QuotaAssumption
  <2> QED BY <2>1, <2>2
<1>11. full_tq' \in BOOLEAN  BY <1>6, <1>8, <1>9
<1>12. SleepWithinWindow'  BY <1>10 DEF SleepWithinWindow
<1>13. QuantumFits'
  <2>1. sleep' >= tq => MIN_SWITCH_MS <= COMPUTE_WINDOW_MS
    BY <1>6, <1>9, <1>10, QuotaAssumption
  <2> QED BY <1>8, <2>1, Zenon DEF QuantumFits
<1>14. TypeOK'
  <2>1. sleep' \in Int  BY <1>9
  <2> QED BY <1>5, <1>11, <2>1 DEF TypeOK
<1> QED BY <1>12, <1>13, <1>14 DEF QuotaInv

(* The invariant holds in every reachable state.                            *)
THEOREM QuotaInvariance == Spec => []QuotaInv
<1>1. Init => QuotaInv
  <2> SUFFICES ASSUME Init PROVE QuotaInv  OBVIOUS
  <2>1. 1 \in Nat \ {0} /\ 0 \in Nat /\ 0 \in Int  OBVIOUS
  <2>2. NewAccount \in Accounts  BY <2>1, Zenon DEF NewAccount, Accounts
  <2>3. account \in [Clients -> Accounts]  BY <2>2 DEF Init
  <2>4. TypeOK  BY <2>1, <2>3, Zenon DEF Init, TypeOK
  <2> QED BY <2>4 DEF Init, QuotaInv, SleepWithinWindow, QuantumFits
<1>2. QuotaInv /\ [Next]_quotaVars => QuotaInv'
  <2> SUFFICES ASSUME QuotaInv, [Next]_quotaVars PROVE QuotaInv'  OBVIOUS
  <2>1. CASE UNCHANGED quotaVars
    BY <2>1 DEF QuotaInv, TypeOK, SleepWithinWindow, QuantumFits, quotaVars
  <2>2. CASE Next
    BY <2>2, TickStep, TimerStep, RequestStep, ReleaseStep DEF Next
  <2> QED BY <2>1, <2>2
<1> QED BY <1>1, <1>2, PTL DEF Spec

(* Every variable has its type: usage, debt and sleeps stay natural         *)
(* numbers through billing, carry-over and scaling.                         *)
THEOREM QuotaTypes == Spec => []TypeOK
BY QuotaInvariance, PTL DEF QuotaInv

(* The timer thread never sleeps past the end of the compute window.        *)
THEOREM SleepCorrect == Spec => []SleepWithinWindow
BY QuotaInvariance, PTL DEF QuotaInv

(* Where the shortest switch time is longer than the compute window, as     *)
(* with the defaults of 10 s and 2 s, no time quantum ever ends: nobody is  *)
(* preempted, however long others wait.                                     *)
THEOREM NoQuantum ==
  ASSUME COMPUTE_WINDOW_MS < MIN_SWITCH_MS
  PROVE  Spec => [](\A T : Preempted(account, running, T) = {})
<1>1. QuotaInv => \A T : Preempted(account, running, T) = {}
  <2>1. ~(MIN_SWITCH_MS <= COMPUTE_WINDOW_MS)  BY QuotaAssumption
  <2> QED BY <2>1, Zenon DEF QuotaInv, QuantumFits, Preempted
<1> QED BY <1>1, QuotaInvariance, PTL

=============================================================================
