----------------------------- MODULE HookMemory -----------------------------
(***************************************************************************)
(* The memory limit of libnvshare (cuMemAlloc, cuMemFree, cuMemGetInfo in  *)
(* src/hook.c).  In every client process one application thread allocates  *)
(* and frees while the client thread changes the limit (UPDATE_LIMIT).     *)
(***************************************************************************)
EXTENDS Integers, Sequences, FiniteSetsExt

CONSTANTS
  Clients,              \* the client processes
  MAX_ALLOCATIONS,      \* bound on the allocations of a process
  Sizes,                \* sizes that each application asks for
  EnvLimits,            \* values of NVSHARE_GPU_MEMORY_LIMIT (texts, or NULL)
  NULL,
  KIBI, KILO,           \* stand for 1024 and 1000, KIBI > KILO > 1
  TOTAL,                \* memory of the GPU
  RESERVE,              \* MEMINFO_RESERVE_MIB, less than TOTAL
  ENABLE_SINGLE_OVERSUB \* enable_single_oversub

VARIABLE hook           \* the variables of hook.c, by process

(* A memory size as users write it: a number and a suffix.  "Ki" stands for *)
(* the binary suffixes and "K" for the decimal ones.                        *)
Texts == [n : Nat, suffix : {"Ki", "K", "", "junk"}]

(* Unknown suffixes mean bytes here.                                        *)
parse_memory_size(str) ==
  str.n * (CASE str.suffix = "Ki" -> KIBI
             [] str.suffix = "K"  -> KILO
             [] OTHER             -> 1)

(* What cuMemGetInfo returns as free.                                       *)
cuMemGetInfo(c) ==
  IF hook[c].memory_limit = 0 THEN TOTAL - RESERVE
  ELSE Max({0, hook[c].memory_limit - hook[c].sum_allocated})

(* The application calls cuMemAlloc.  The first call asks how much there is *)
(* to allocate.                                                             *)
cuMemAlloc(c, size) ==
  /\ hook[c].pc = "out"
  /\ hook' = [hook EXCEPT ![c] =
       [@ EXCEPT !.pc = "check", !.bytesize = size,
                 !.got_max_mem_size = TRUE,
                 !.nvshare_size_mem_allocatable =
                   IF hook[c].got_max_mem_size THEN @ ELSE cuMemGetInfo(c)]]

(* Mutant: what is allocated already is not added.                          *)
OverLimitAlone(c) ==
  hook[c].memory_limit > 0 /\ hook[c].bytesize > hook[c].memory_limit

OverLimit(c) ==
  /\ hook[c].memory_limit > 0
  /\ hook[c].sum_allocated + hook[c].bytesize > hook[c].memory_limit

OverPhysical(c) ==
  /\ ~ENABLE_SINGLE_OVERSUB
  /\ hook[c].sum_allocated + hook[c].bytesize
       > hook[c].nvshare_size_mem_allocatable

Returned(h) == [h EXCEPT !.pc = "out", !.bytesize = 0]

(* The two checks, against the limit and against the memory of the GPU.     *)
Check(c) ==
  /\ hook[c].pc = "check"
  /\ hook' = [hook EXCEPT ![c] =
       IF OverLimit(c) \/ OverPhysical(c) THEN Returned(@)
       ELSE [@ EXCEPT !.pc = "driver"]]

(* real_cuMemAllocManaged returns a pointer, which insert_cuda_allocation   *)
(* records and reports to the scheduler.  No two allocations have the same  *)
(* pointer, so the place in the list stands for it.                         *)
insert_cuda_allocation(c) ==
  /\ hook[c].pc = "driver" /\ Len(hook[c].cuda_allocation_list) < MAX_ALLOCATIONS
  /\ LET sum == hook[c].sum_allocated + hook[c].bytesize
     IN  hook' = [hook EXCEPT ![c] =
           [Returned(@) EXCEPT !.sum_allocated = sum, !.reported = sum,
                     !.cuda_allocation_list = Append(@, hook[c].bytesize)]]

(* real_cuMemAllocManaged fails.                                            *)
DriverFails(c) ==
  hook[c].pc = "driver" /\ hook' = [hook EXCEPT ![c] = Returned(@)]

RemoveAt(s, k) == SubSeq(s, 1, k - 1) \o SubSeq(s, k + 1, Len(s))

(* cuMemFree of an allocation; remove_cuda_allocation forgets it.  (The     *)
(* driver refuses any other pointer, and nothing changes.)                  *)
cuMemFree(c) ==
  /\ hook[c].pc = "out"
  /\ \E k \in DOMAIN hook[c].cuda_allocation_list :
       LET sum == hook[c].sum_allocated - hook[c].cuda_allocation_list[k]
       IN  hook' = [hook EXCEPT ![c] =
             [@ EXCEPT !.sum_allocated = sum, !.reported = sum,
                       !.cuda_allocation_list = RemoveAt(@, k)]]

(* The state of hook.c after an UPDATE_LIMIT in the client thread.          *)
update_memory_limit(c, new_limit) ==
  [hook EXCEPT ![c].memory_limit = new_limit]

(* NVSHARE_GPU_MEMORY_LIMIT sets the first limit.                           *)
Loaded(env) ==
  [memory_limit |-> IF env = NULL THEN 0 ELSE parse_memory_size(env),
   sum_allocated |-> 0, cuda_allocation_list |-> <<>>, reported |-> 0,
   got_max_mem_size |-> FALSE, nvshare_size_mem_allocatable |-> 0,
   pc |-> "out", bytesize |-> 0]

HookInit == hook \in [Clients -> {Loaded(env) : env \in EnvLimits}]

(* A memory call of the application of c.                                   *)
MemoryCall(c) ==
  \/ \E size \in Sizes[c] : cuMemAlloc(c, size)
  \/ Check(c)
  \/ insert_cuda_allocation(c)
  \/ DriverFails(c)
  \/ cuMemFree(c)

=============================================================================
