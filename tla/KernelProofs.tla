---------------------------- MODULE KernelProofs ----------------------------
(***************************************************************************)
(* Theorems about KernelWindow, for every number of threads and every      *)
(* window size, and for every floor the environment can ask for.           *)
(***************************************************************************)
EXTENDS KernelWindow, TLAPS, FiniteSetTheorems

-----------------------------------------------------------------------------
(* The new window is within its bounds.                                     *)

(* Min and Max of two integers.                                             *)
LEMMA PairBounds ==
  ASSUME NEW a \in Int, NEW b \in Int
  PROVE  /\ Min({a, b}) \in {a, b} /\ Min({a, b}) <= a /\ Min({a, b}) <= b
         /\ Max({a, b}) \in {a, b} /\ Max({a, b}) >= a /\ Max({a, b}) >= b
<1>1. \E x \in {a, b} : \A y \in {a, b} : x >= y
  <2>1. CASE a >= b  BY <2>1
  <2>2. CASE b >= a  BY <2>2
  <2> QED BY <2>1, <2>2
<1>2. \E x \in {a, b} : \A y \in {a, b} : x <= y
  <2>1. CASE a <= b  BY <2>1
  <2>2. CASE b <= a  BY <2>2
  <2> QED BY <2>1, <2>2
<1>3. Max({a, b}) \in {a, b} /\ \A y \in {a, b} : Max({a, b}) >= y
  BY <1>1 DEF Max
<1>4. Min({a, b}) \in {a, b} /\ \A y \in {a, b} : Min({a, b}) <= y
  BY <1>2 DEF Min
<1> QED BY <1>3, <1>4

(* The least and the largest window, for any floor.                         *)
LEMMA WindowsHave ==
  /\ WindowMax \in Nat /\ 1 <= WindowMax
  /\ KERN_SYNC_WINDOW_MAX <= WindowMax /\ KERN_WINDOW_MIN_FLOOR <= WindowMax
  /\ 1..KERN_SYNC_WINDOW_MAX \subseteq Windows /\ Windows \subseteq 0..WindowMax
  /\ 1 \in Windows
<1>1. /\ KERN_SYNC_WINDOW_MAX \in Nat /\ 1 <= KERN_SYNC_WINDOW_MAX
      /\ KERN_WINDOW_MIN_FLOOR \in Int
  BY KernelWindowAssumption
<1>2. /\ WindowMax \in {KERN_SYNC_WINDOW_MAX, KERN_WINDOW_MIN_FLOOR}
      /\ KERN_SYNC_WINDOW_MAX <= WindowMax /\ KERN_WINDOW_MIN_FLOOR <= WindowMax
  BY <1>1, PairBounds DEF WindowMax
<1>3. WindowMax \in Nat /\ 1 <= WindowMax  BY <1>1, <1>2
<1>4. 1..KERN_SYNC_WINDOW_MAX \subseteq Windows /\ Windows \subseteq 0..WindowMax
  BY <1>1, <1>2, <1>3 DEF Windows
<1> QED BY <1>1, <1>2, <1>3, <1>4

(* get_kernel_window_max is a window.                                       *)
LEMMA CapWithin ==
  ASSUME client_core_limit \in CoreLimits
  PROVE  get_kernel_window_max \in 1..KERN_SYNC_WINDOW_MAX
<1> DEFINE half == client_core_limit \div 2
           low  == Max({LIMITED_MIN, half})
<1>1. client_core_limit \in 1..100  BY KernelWindowAssumption
<1>2. half \in Int  BY <1>1
<1> HIDE DEF half
<1>3. /\ LIMITED_MIN \in Int /\ LIMITED_MAX \in Int /\ KERN_SYNC_WINDOW_MAX \in Int
      /\ 1 <= LIMITED_MIN /\ LIMITED_MIN <= LIMITED_MAX
      /\ LIMITED_MAX <= KERN_SYNC_WINDOW_MAX
  BY KernelWindowAssumption
<1>4. low \in Int /\ low >= LIMITED_MIN
  <2>1. low \in {LIMITED_MIN, half} /\ low >= LIMITED_MIN
    BY <1>2, <1>3, PairBounds
  <2> QED BY <1>2, <1>3, <2>1
<1> HIDE DEF low
<1>5. Min({LIMITED_MAX, low}) \in 1..KERN_SYNC_WINDOW_MAX
  <2>1. Min({LIMITED_MAX, low}) \in {LIMITED_MAX, low}
        /\ Min({LIMITED_MAX, low}) <= LIMITED_MAX
    BY <1>3, <1>4, PairBounds
  <2> QED BY <1>3, <1>4, <2>1
<1>6. KERN_SYNC_WINDOW_MAX \in 1..KERN_SYNC_WINDOW_MAX
  BY <1>3
<1> QED BY <1>5, <1>6 DEF get_kernel_window_max, low, half

(* A window that grows: from 0 it does not, which takes a floor below 1.    *)
LEMMA GrownWithin ==
  ASSUME TypeOK
  PROVE  Grown \in Windows
<1> DEFINE w == pending_kernel_window * 2
           cap == get_kernel_window_max
<1>1. cap \in 1..KERN_SYNC_WINDOW_MAX  BY CapWithin DEF TypeOK
<1>2. w \in Nat /\ (KERN_WINDOW_MIN_FLOOR >= 1 => w >= 1)
  <2>1. pending_kernel_window \in Windows  BY DEF TypeOK
  <2> QED BY <2>1, WindowsHave, KernelWindowAssumption DEF Windows
<1> HIDE DEF w, cap
<1>3. Min({w, cap}) \in {w, cap} /\ Min({w, cap}) <= cap
  <2>1. w \in Int /\ cap \in Int  BY <1>1, <1>2
  <2> QED BY <2>1, PairBounds
<1>4. Min({w, cap}) \in Windows
  BY <1>1, <1>2, <1>3, WindowsHave, KernelWindowAssumption DEF Windows
<1> QED BY <1>4 DEF Grown, w, cap

(* A window that is backed off.                                             *)
LEMMA BackedOffWithin ==
  ASSUME TypeOK
  PROVE  BackedOff(4, 5) \in Windows /\ BackedOff(1, 2) \in Windows
<1>1. ASSUME NEW x \in Nat, x <= WindowMax
      PROVE  Max({KERN_WINDOW_MIN_FLOOR, x}) \in Windows
  <2>1. /\ Max({KERN_WINDOW_MIN_FLOOR, x}) \in {KERN_WINDOW_MIN_FLOOR, x}
        /\ Max({KERN_WINDOW_MIN_FLOOR, x}) >= KERN_WINDOW_MIN_FLOOR
        /\ Max({KERN_WINDOW_MIN_FLOOR, x}) >= x
    <3>1. KERN_WINDOW_MIN_FLOOR \in Int /\ x \in Int
      BY KernelWindowAssumption
    <3> QED BY <3>1, PairBounds
  <2> QED BY <1>1, <2>1, WindowsHave, KernelWindowAssumption DEF Windows
<1>2. pending_kernel_window \in 0..WindowMax /\ WindowMax \in Nat
  BY WindowsHave DEF TypeOK
<1>3. /\ (pending_kernel_window * 4) \div 5 \in Nat
      /\ (pending_kernel_window * 4) \div 5 <= WindowMax
  BY <1>2
<1>4. /\ (pending_kernel_window * 1) \div 2 \in Nat
      /\ (pending_kernel_window * 1) \div 2 <= WindowMax
  BY <1>2
<1> QED BY <1>1, <1>3, <1>4 DEF BackedOff

(* The window after a synchronisation.                                      *)
LEMMA AdaptedWithin ==
  ASSUME TypeOK, NEW duration \in Durations
  PROVE  /\ Adapted(duration) \in Windows
         /\ Timeouts(duration) \in 0..(ABUSE + 1)
<1>1. 1 \in Windows  BY WindowsHave
<1>2. Adapted(duration) \in Windows
  BY <1>1, GrownWithin, BackedOffWithin DEF Adapted
<1>3. consecutive_timeout_count \in 0..(ABUSE + 1)  BY DEF TypeOK
<1> DEFINE k == Min({ABUSE + 1, consecutive_timeout_count + 1})
<1>4. k \in {ABUSE + 1, consecutive_timeout_count + 1} /\ k <= ABUSE + 1
  <2>1. ABUSE + 1 \in Int /\ consecutive_timeout_count + 1 \in Int
    BY <1>3, KernelWindowAssumption
  <2> QED BY <2>1, PairBounds
<1>5. k \in 0..(ABUSE + 1)  BY <1>3, <1>4, KernelWindowAssumption
<1>6. 0 \in 0..(ABUSE + 1)  BY KernelWindowAssumption
<1>7. Timeouts(duration) \in 0..(ABUSE + 1)
  BY <1>3, <1>5, <1>6 DEF Timeouts
<1> QED BY <1>2, <1>7

-----------------------------------------------------------------------------
(* The inductive invariant.                                                 *)

Holders == At("sync") \cup At("store")

Submitted == Cardinality(At("submitted"))

(* Pending kernels are counted, awaited, or those of the threads that have  *)
(* submitted one and wait for kcount_mutex.                                 *)
PendingInv ==
  /\ \A s, t \in Holders : s = t
  /\ kern_since_sync <= WindowMax
  /\ Holders = {} => kern_since_sync < WindowMax
  /\ At("store") = {} => gpu <= kern_since_sync + Submitted
  /\ At("sync") # {} => gpu <= awaited.launch + Submitted
  /\ At("store") # {} => gpu <= Submitted

KernInv == TypeOK /\ PendingInv

(* A finite number of threads is anywhere.                                  *)
LEMMA SubmittedNat ==
  /\ IsFiniteSet(At("submitted")) /\ Submitted \in Nat
  /\ IsFiniteSet(At("submitted"))' /\ Submitted' \in Nat
<1>1. IsFiniteSet(At("submitted")) /\ IsFiniteSet(At("submitted")')
  BY KernelWindowAssumption, FS_Subset DEF At
<1> QED BY <1>1, FS_CardinalityType DEF Submitted

(* The steps of a thread move it from one place to another.                 *)
LEMMA Moves ==
  ASSUME TypeOK, NEW t \in Threads, NEW from, NEW to, from # to,
         pc[t] = from, Goto(t, to)
  PROVE  /\ t \in At(from) /\ t \notin At(to)
         /\ At(from)' = At(from) \ {t} /\ At(to)' = At(to) \cup {t}
         /\ \A other : other # from /\ other # to => At(other)' = At(other)
BY DEF TypeOK, Goto, At

(* KernInv holds at the start.                                              *)
LEMMA KernInit ==
  Init => KernInv
<1> SUFFICES ASSUME Init PROVE KernInv  OBVIOUS
<1>1. TypeOK
  <2>1. scheduler_on \in BOOLEAN /\ own_lock \in BOOLEAN  BY Zenon DEF Init
  <2>2. pc \in [Threads -> PcStates]  BY DEF Init, PcStates
  <2>3. /\ consecutive_timeout_count \in 0..(ABUSE + 1)
        /\ adapted \in Windows
        /\ pending_kernel_window \in Windows
        /\ kern_since_sync \in Nat /\ gpu \in Nat
    <3>1. 0 \in 0..(ABUSE + 1)  BY KernelWindowAssumption
    <3>2. 1 \in Windows  BY WindowsHave
    <3>3. WINDOW_START \in Windows  BY WindowsHave, KernelWindowAssumption
    <3> QED BY <3>1, <3>2, <3>3 DEF Init
  <2>4. awaited \in [launch : Nat, client : Nat]  BY DEF Init
  <2> QED BY <2>1, <2>2, <2>3, <2>4, Zenon DEF Init, TypeOK
<1>2. At("sync") = {} /\ At("store") = {} /\ Holders = {}
  BY DEF Init, At, Holders
<1>3. PendingInv
  <2>1. gpu = 0 /\ kern_since_sync = 0  BY DEF Init
  <2>2. gpu <= kern_since_sync + Submitted  BY <2>1, SubmittedNat
  <2>3. WindowMax \in Nat /\ 0 < WindowMax  BY WindowsHave
  <2>4. /\ kern_since_sync <= WindowMax
        /\ kern_since_sync < WindowMax
    BY <2>1, <2>3
  <2> QED BY <1>2, <2>2, <2>4 DEF PendingInv
<1> QED BY <1>1, <1>3 DEF KernInv

-----------------------------------------------------------------------------
(* Each action preserves KernInv.                                           *)

(* Entering cuLaunchKernel submits nothing.                                 *)
LEMMA EnterStep ==
  ASSUME KernInv, NEW t \in Threads, Enter(t)
  PROVE  KernInv'
<1>1. TypeOK /\ PendingInv  BY DEF KernInv
<1>2. TypeOK'
  BY <1>1 DEF TypeOK, Enter, Goto, PcStates, clientVars, countVars, gpuVars
<1>3. pc[t] = "out" /\ Goto(t, "past")  BY DEF Enter
<1>4. \A l \in {"submitted", "sync", "store"} : At(l)' = At(l)
  BY <1>1, <1>3, Moves
<1>5. Holders' = Holders /\ Submitted' = Submitted
  BY <1>4 DEF Holders, Submitted
<1>6. UNCHANGED <<kern_since_sync, gpu, awaited>>
  BY DEF Enter, countVars, gpuVars
<1>7. PendingInv'  BY <1>1, <1>4, <1>5, <1>6 DEF PendingInv
<1> QED BY <1>2, <1>7 DEF KernInv

(* A thread that submits a kernel is one more that waits for the mutex.     *)
LEMMA SubmitStep ==
  ASSUME KernInv, NEW t \in Threads, Submit(t)
  PROVE  KernInv'
<1>1. TypeOK /\ PendingInv  BY DEF KernInv
<1>2. gpu' \in {gpu, gpu + 1} /\ gpu \in Nat /\ gpu' \in Nat
  <2>1. gpu \in Nat  BY <1>1 DEF TypeOK
  <2>2. gpu' \in {gpu, gpu + 1}  BY DEF Submit
  <2> QED BY <2>1, <2>2
<1>3. TypeOK'
  BY <1>1, <1>2 DEF TypeOK, Submit, Goto, PcStates, clientVars, countVars
<1>4. pc[t] = "past" /\ Goto(t, "submitted")  BY DEF Submit
<1>5. /\ \A l \in {"sync", "store"} : At(l)' = At(l)
      /\ t \notin At("submitted") /\ At("submitted")' = At("submitted") \cup {t}
  BY <1>1, <1>4, Moves
<1>6. Submitted' = Submitted + 1
  BY <1>5, SubmittedNat, FS_AddElement DEF Submitted
<1>7. Holders' = Holders  BY <1>5 DEF Holders
<1>8. UNCHANGED <<kern_since_sync, awaited>>  BY DEF Submit, countVars
<1>9. ASSUME NEW n \in Nat, gpu <= n + Submitted
      PROVE  gpu' <= n + Submitted'
  BY <1>2, <1>6, <1>9, SubmittedNat
<1>10. gpu <= Submitted => gpu' <= Submitted'  BY <1>2, <1>6, SubmittedNat
<1>11. kern_since_sync \in Nat /\ awaited.launch \in Nat  BY <1>1 DEF TypeOK
<1>12. PendingInv'
  BY <1>1, <1>5, <1>7, <1>8, <1>9, <1>10, <1>11 DEF PendingInv
<1> QED BY <1>3, <1>12 DEF KernInv

(* A thread that has its launch counted is one fewer that waits, and a      *)
(* synchronisation waits for all that is pending when it starts.            *)
LEMMA CountStep ==
  ASSUME KernInv, NEW t \in Threads, Count(t)
  PROVE  KernInv'
<1>1. TypeOK /\ PendingInv  BY DEF KernInv
<1> DEFINE full == kern_since_sync + 1 >= pending_kernel_window
           to   == IF full THEN "sync" ELSE "out"
<1>2. /\ pc[t] = "submitted" /\ Goto(t, to)
      /\ Holders = {} /\ kern_since_sync' = kern_since_sync + 1
      /\ awaited' = IF full THEN [awaited EXCEPT !.launch = gpu] ELSE awaited
      /\ gpu' = gpu
  BY DEF Count, Holders
<1>3. /\ kern_since_sync \in Nat /\ gpu \in Nat /\ WindowMax \in Nat
      /\ awaited \in [launch : Nat, client : Nat]
      /\ pending_kernel_window \in Nat
      /\ pending_kernel_window <= WindowMax
  <2>1. /\ kern_since_sync \in Nat /\ gpu \in Nat
        /\ awaited \in [launch : Nat, client : Nat]
        /\ pending_kernel_window \in Windows
    BY <1>1 DEF TypeOK
  <2> QED BY <2>1, WindowsHave
<1>4. TypeOK'
  <2>1. awaited' \in [launch : Nat, client : Nat]  BY <1>2, <1>3
  <2>2. pc' \in [Threads -> PcStates]
    BY <1>1, <1>2 DEF TypeOK, Goto, PcStates
  <2>3. kern_since_sync' \in Nat  BY <1>2, <1>3
  <2>4. gpu' \in Nat  BY <1>2, <1>3
  <2>5. /\ UNCHANGED clientVars
        /\ UNCHANGED <<pending_kernel_window, consecutive_timeout_count, adapted>>
    BY DEF Count
  <2> QED BY <1>1, <2>1, <2>2, <2>3, <2>4, <2>5 DEF TypeOK, clientVars
<1>5. At("sync") = {} /\ At("store") = {}  BY <1>2 DEF Holders
<1>6. /\ t \in At("submitted") /\ At("submitted")' = At("submitted") \ {t}
      /\ At("store")' = {}
      /\ At("sync")' = IF full THEN {t} ELSE {}
  <2>1. CASE full  BY <1>1, <1>2, <1>5, <2>1, Moves
  <2>2. CASE ~full  BY <1>1, <1>2, <1>5, <2>2, Moves
  <2> QED BY <2>1, <2>2
<1>7. Submitted' = Submitted - 1 /\ Submitted \in Nat /\ Submitted' \in Nat
  BY <1>6, SubmittedNat, FS_RemoveElement DEF Submitted
<1>8. Holders' = IF full THEN {t} ELSE {}  BY <1>6 DEF Holders
<1>9. gpu <= kern_since_sync + Submitted /\ kern_since_sync < WindowMax
  BY <1>1, <1>2, <1>5 DEF PendingInv
<1>10. gpu' <= kern_since_sync' + Submitted'
  BY <1>2, <1>3, <1>7, <1>9
<1>11. kern_since_sync' <= WindowMax
  BY <1>2, <1>3, <1>9
<1>12. ~full => kern_since_sync' < WindowMax
  BY <1>2, <1>3
<1>13. full => gpu' <= awaited'.launch + Submitted'
  BY <1>2, <1>3, <1>7
<1>14. PendingInv'
  BY <1>6, <1>8, <1>10, <1>11, <1>12, <1>13 DEF PendingInv
<1> QED BY <1>4, <1>14 DEF KernInv

(* When a synchronisation has ended, only threads that wait for the mutex   *)
(* have kernels pending.                                                    *)
LEMMA SynchronizedStep ==
  ASSUME KernInv, NEW t \in Threads, Synchronized(t)
  PROVE  KernInv'
<1>1. TypeOK /\ PendingInv  BY DEF KernInv
<1>2. /\ pc[t] = "sync" /\ Goto(t, "store") /\ awaited.launch = 0
      /\ UNCHANGED <<kern_since_sync, gpu, awaited>>
  BY DEF Synchronized, gpuVars
<1>3. TypeOK'
  <2>1. /\ adapted' \in Windows
        /\ consecutive_timeout_count' \in 0..(ABUSE + 1)
    BY <1>1, AdaptedWithin DEF Synchronized
  <2>2. pc' \in [Threads -> PcStates]
    BY <1>1, <1>2 DEF TypeOK, Goto, PcStates
  <2>3. UNCHANGED <<clientVars, pending_kernel_window, kern_since_sync, gpuVars>>
    BY DEF Synchronized
  <2> QED BY <1>1, <2>1, <2>2, <2>3 DEF TypeOK, clientVars, gpuVars
<1>4. /\ At("submitted")' = At("submitted") /\ t \in At("sync")
      /\ At("sync")' = At("sync") \ {t} /\ At("store")' = At("store") \cup {t}
  BY <1>1, <1>2, Moves
<1>5. Holders' = Holders /\ Submitted' = Submitted
  BY <1>4 DEF Holders, Submitted
<1>6. At("sync")' = {} /\ At("store")' # {}
  BY <1>1, <1>4 DEF PendingInv, Holders
<1>7. gpu <= 0 + Submitted  BY <1>1, <1>2, <1>4 DEF PendingInv
<1>8. gpu \in Nat  BY <1>1 DEF TypeOK
<1>9. gpu' <= Submitted'  BY <1>2, <1>5, <1>7, <1>8, SubmittedNat
<1>10. PendingInv'  BY <1>1, <1>2, <1>5, <1>6, <1>9 DEF PendingInv
<1> QED BY <1>3, <1>10 DEF KernInv

(* The count starts again at 0.                                             *)
LEMMA StoreStep ==
  ASSUME KernInv, NEW t \in Threads, Store(t)
  PROVE  KernInv'
<1>1. TypeOK /\ PendingInv  BY DEF KernInv
<1>2. /\ pc[t] = "store" /\ Goto(t, "out") /\ kern_since_sync' = 0
      /\ UNCHANGED <<gpu, awaited>>
  BY DEF Store, gpuVars
<1>3. TypeOK'
  <2>1. adapted' \in Windows
    <3>1. 1 \in Windows  BY WindowsHave
    <3> QED BY <3>1 DEF Store
  <2>2. pending_kernel_window' \in Windows
    BY <1>1 DEF Store, TypeOK
  <2>3. pc' \in [Threads -> PcStates]
    BY <1>1, <1>2 DEF TypeOK, Goto, PcStates
  <2>4. UNCHANGED <<clientVars, consecutive_timeout_count, gpuVars>>
    BY DEF Store
  <2> QED BY <1>1, <1>2, <2>1, <2>2, <2>3, <2>4 DEF TypeOK, clientVars, gpuVars
<1>4. /\ At("submitted")' = At("submitted") /\ At("sync")' = At("sync")
      /\ t \in At("store") /\ At("store")' = At("store") \ {t}
  BY <1>1, <1>2, Moves
<1>5. Submitted' = Submitted  BY <1>4 DEF Submitted
<1>6. At("sync") = {}
  <2>1. ASSUME NEW s \in At("sync") PROVE FALSE
    <3>1. s = t  BY <1>1, <1>4 DEF PendingInv, Holders
    <3> QED BY <1>2, <3>1 DEF At
  <2> QED BY <2>1
<1>7. At("sync")' = {} /\ At("store")' = {} /\ Holders' = {}
  BY <1>1, <1>4, <1>6 DEF PendingInv, Holders
<1>8. gpu <= Submitted  BY <1>1, <1>4 DEF PendingInv
<1>9. gpu \in Nat  BY <1>1 DEF TypeOK
<1>10. gpu' <= kern_since_sync' + Submitted'
  BY <1>2, <1>5, <1>8, <1>9, SubmittedNat
<1>11. 0 < WindowMax /\ 0 <= WindowMax
  BY WindowsHave
<1>12. PendingInv'  BY <1>2, <1>7, <1>10, <1>11 DEF PendingInv
<1> QED BY <1>3, <1>12 DEF KernInv

(* What leaves the threads, the count, the GPU and the synchronisation of a *)
(* launch alone preserves PendingInv.                                       *)
LEMMA PendingFrame ==
  ASSUME PendingInv, UNCHANGED <<pc, kern_since_sync, gpu>>,
         awaited'.launch = awaited.launch
  PROVE  PendingInv'
<1>1. \A l \in {"submitted", "sync", "store"} : At(l)' = At(l)  BY DEF At
<1>2. Holders' = Holders /\ Submitted' = Submitted
  BY <1>1 DEF Holders, Submitted
<1> QED BY <1>1, <1>2 DEF PendingInv

(* The handlers of the client submit nothing and reset the window at most.  *)
LEMMA ClientStep ==
  ASSUME KernInv, ClientHandler
  PROVE  KernInv'
<1>1. TypeOK /\ PendingInv  BY DEF KernInv
<1>2. UNCHANGED <<pc, kern_since_sync, consecutive_timeout_count, adapted, gpu>>
  BY DEF ClientHandler, LockOk, SchedOff, SchedOn, UpdateCoreLimit, DropLock,
         CheckIdle, ReleaseEarly, ClientSynchronized, Handler, countVars, gpuVars
<1>3. \/ UNCHANGED <<awaited, pending_kernel_window>>
      \/ /\ awaited' = [awaited EXCEPT !.client = gpu]
         /\ pending_kernel_window' = 1
  BY DEF ClientHandler, LockOk, SchedOff, SchedOn, UpdateCoreLimit, DropLock,
         CheckIdle, ReleaseEarly, ClientSynchronized, Keeps, gpuVars,
         cuda_sync_context
<1>4. awaited \in [launch : Nat, client : Nat] /\ gpu \in Nat
  BY <1>1 DEF TypeOK
<1>5. /\ awaited' \in [launch : Nat, client : Nat]
      /\ awaited'.launch = awaited.launch
  BY <1>3, <1>4
<1>6. pending_kernel_window' \in Windows
  <2>1. 1 \in Windows  BY WindowsHave
  <2> QED BY <1>1, <1>3, <2>1 DEF TypeOK
<1>7. own_lock' \in BOOLEAN /\ scheduler_on' \in BOOLEAN
  BY <1>1, Zenon DEF TypeOK, ClientHandler, LockOk, SchedOff, SchedOn,
     UpdateCoreLimit, DropLock, CheckIdle, ReleaseEarly, ClientSynchronized
<1>8. /\ client_core_limit' \in CoreLimits
      /\ syncing' \in {"no", "drop", "check"}
      /\ warmup' \in {"not yet", "on", "over"}
  BY <1>1 DEF TypeOK, ClientHandler, LockOk, SchedOff, SchedOn,
     UpdateCoreLimit, DropLock, CheckIdle, ReleaseEarly, ClientSynchronized,
     Keeps, cuda_sync_context
<1>9. TypeOK'  BY <1>1, <1>2, <1>5, <1>6, <1>7, <1>8 DEF TypeOK
<1>10. PendingInv'  BY <1>1, <1>2, <1>5, PendingFrame
<1> QED BY <1>9, <1>10 DEF KernInv

(* A kernel that finishes is awaited or is not.                             *)
LEMMA KernelDoneStep ==
  ASSUME KernInv, KernelDone
  PROVE  KernInv'
<1>1. TypeOK /\ PendingInv  BY DEF KernInv
<1>2. gpu \in Nat /\ awaited \in [launch : Nat, client : Nat]
      /\ kern_since_sync \in Nat
  BY <1>1 DEF TypeOK
<1>3. gpu > 0 /\ gpu' = gpu - 1 /\ UNCHANGED <<pc, kern_since_sync>>
  BY DEF KernelDone, countVars
<1>4. PICK l \in {0, 1}, c \in {0, 1} :
        /\ awaited.launch - l \in 0..gpu' /\ awaited.client - c \in 0..gpu'
        /\ awaited' = [launch |-> awaited.launch - l, client |-> awaited.client - c]
  BY DEF KernelDone
<1>5. gpu' \in Nat  BY <1>2, <1>3
<1>6. awaited.launch \in Nat /\ awaited.client \in Nat  BY <1>2
<1>7. awaited.launch - l \in Nat /\ awaited.client - c \in Nat
  BY <1>4, <1>5, <1>6
<1>8. /\ awaited' \in [launch : Nat, client : Nat]
      /\ awaited'.launch = awaited.launch - l
  BY <1>4, <1>7
<1>9. TypeOK'
  <2>1. UNCHANGED <<clientVars, pc, pending_kernel_window, countVars>>
    BY DEF KernelDone
  <2> QED BY <1>1, <1>5, <1>8, <2>1 DEF TypeOK, clientVars, countVars
<1>10. \A p \in {"submitted", "sync", "store"} : At(p)' = At(p)
  BY <1>3 DEF At
<1>11. Holders' = Holders /\ Submitted' = Submitted
  BY <1>10 DEF Holders, Submitted
<1>12. gpu <= kern_since_sync + Submitted => gpu' <= kern_since_sync' + Submitted'
  BY <1>2, <1>3, <1>11, SubmittedNat
<1>13. gpu <= awaited.launch + Submitted => gpu' <= awaited'.launch + Submitted'
  BY <1>2, <1>3, <1>4, <1>6, <1>8, <1>11, SubmittedNat
<1>14. gpu <= Submitted => gpu' <= Submitted'
  BY <1>2, <1>3, <1>11, SubmittedNat
<1>15. PendingInv'
  BY <1>1, <1>3, <1>10, <1>11, <1>12, <1>13, <1>14 DEF PendingInv
<1> QED BY <1>9, <1>15 DEF KernInv

(* The end of the warm-up changes no more than its name says.               *)
LEMMA WarmupStep ==
  ASSUME KernInv, WarmupEnds
  PROVE  KernInv'
<1>1. TypeOK /\ PendingInv  BY DEF KernInv
<1>2. /\ warmup' = "over"
      /\ UNCHANGED <<own_lock, scheduler_on, client_core_limit, syncing, pc,
                     pending_kernel_window, countVars, gpuVars>>
  BY DEF WarmupEnds
<1>3. TypeOK'  BY <1>1, <1>2 DEF TypeOK, countVars, gpuVars
<1>4. UNCHANGED <<pc, kern_since_sync, gpu>> /\ awaited'.launch = awaited.launch
  BY <1>2 DEF countVars, gpuVars
<1>5. PendingInv'  BY <1>1, <1>4, PendingFrame
<1> QED BY <1>3, <1>5 DEF KernInv

(* A step that changes nothing.                                             *)
LEMMA KernStutter ==
  ASSUME KernInv, UNCHANGED kernVars
  PROVE  KernInv'
<1>1. TypeOK /\ PendingInv  BY DEF KernInv
<1>2. TypeOK'  BY <1>1 DEF TypeOK, kernVars, clientVars, countVars, gpuVars
<1>3. UNCHANGED <<pc, kern_since_sync, gpu>> /\ awaited'.launch = awaited.launch
  BY DEF kernVars, countVars, gpuVars
<1>4. PendingInv'  BY <1>1, <1>3, PendingFrame
<1> QED BY <1>2, <1>4 DEF KernInv

(* KernInv is an invariant of cuLaunchKernel and of what runs beside it.    *)
THEOREM KernelInvariance == Spec => []KernInv
<1>1. Init => KernInv  BY KernInit
<1>2. KernInv /\ [Next]_kernVars => KernInv'
  <2> SUFFICES ASSUME KernInv, [Next]_kernVars PROVE KernInv'
    OBVIOUS
  <2>1. ASSUME NEW t \in Threads, cuLaunchKernel(t) PROVE KernInv'
    BY <2>1, EnterStep, SubmitStep, CountStep, SynchronizedStep, StoreStep
       DEF cuLaunchKernel
  <2> QED BY <2>1, ClientStep, KernelDoneStep, WarmupStep, KernStutter DEF Next
<1> QED BY <1>1, <1>2, PTL DEF Spec

(* The window of cuLaunchKernel stays between 1 and the larger of           *)
(* KERN_SYNC_WINDOW_MAX and the floor, or reaches 0 where the floor is      *)
(* below 1, and the pending kernels never become negative, whatever the     *)
(* client thread does meanwhile.                                            *)
THEOREM KernelTypes == Spec => []TypeOK
<1>1. KernInv => TypeOK  BY DEF KernInv
<1> QED BY <1>1, KernelInvariance, PTL

(* Whoever is in the synchronisation of cuLaunchKernel is not among those   *)
(* who wait for the mutex, so n threads have at most n - 1 kernels pending  *)
(* on top of a full window.                                                 *)
THEOREM PendingCorrect == Spec => []PendingBounded
<1>1. KernInv => PendingBounded
  <2> SUFFICES ASSUME KernInv PROVE PendingBounded
    OBVIOUS
  <2>1. TypeOK /\ PendingInv  BY DEF KernInv
  <2>2. gpu \in Nat /\ kern_since_sync \in Nat  BY <2>1 DEF TypeOK
  <2>3. WindowMax \in Nat /\ WindowMax >= 1  BY WindowsHave
  <2>4. IsFiniteSet(Threads) /\ At("submitted") \subseteq Threads
    BY KernelWindowAssumption DEF At
  <2>5. Cardinality(Threads) \in Nat /\ Submitted <= Cardinality(Threads)
    BY <2>4, FS_CardinalityType, FS_Subset DEF Submitted
  <2>6. ASSUME NEW t \in Holders PROVE Submitted <= Cardinality(Threads) - 1
    <3>1. t \in Threads /\ At("submitted") \subseteq Threads \ {t}
      BY DEF Holders, At
    <3>2. IsFiniteSet(Threads \ {t})
          /\ Cardinality(Threads \ {t}) = Cardinality(Threads) - 1
      BY <2>4, <3>1, FS_RemoveElement
    <3>3. Submitted <= Cardinality(Threads \ {t})
      BY <3>1, <3>2, FS_Subset DEF Submitted
    <3> QED BY <3>2, <3>3
  <2>7. CASE Holders = {}
    <3>1. kern_since_sync < WindowMax /\ gpu <= kern_since_sync + Submitted
      BY <2>1, <2>7 DEF PendingInv, Holders
    <3> QED BY <2>2, <2>3, <2>5, <3>1, SubmittedNat DEF PendingBounded
  <2>8. CASE At("store") # {}
    <3>1. gpu <= Submitted  BY <2>1, <2>8 DEF PendingInv
    <3>2. Submitted <= Cardinality(Threads) - 1  BY <2>6, <2>8 DEF Holders
    <3> QED BY <2>2, <2>3, <2>5, <3>1, <3>2, SubmittedNat DEF PendingBounded
  <2>9. CASE At("store") = {} /\ Holders # {}
    <3>1. kern_since_sync <= WindowMax /\ gpu <= kern_since_sync + Submitted
      BY <2>1, <2>9 DEF PendingInv
    <3>2. Submitted <= Cardinality(Threads) - 1  BY <2>6, <2>9
    <3> QED BY <2>2, <2>3, <2>5, <3>1, <3>2, SubmittedNat DEF PendingBounded
  <2> QED BY <2>7, <2>8, <2>9
<1> QED BY <1>1, KernelInvariance, PTL

=============================================================================
