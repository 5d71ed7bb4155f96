---------------------------- MODULE LockService ----------------------------
(***************************************************************************)
(* What nvshare promises to applications in SERIAL mode, without a         *)
(* scheduler, messages or threads: every GPU has one lock.  An application *)
(* asks for the lock of its GPU, gets it when nobody uses the GPU, gives   *)
(* it back when it has finished its work, and may end at any time.         *)
(* System is shown to implement this specification.                        *)
(***************************************************************************)
CONSTANTS Clients, GPUs, NULL

VARIABLES
  gpu, \* gpu[c]: the GPU of an application, NULL while it has none
  use  \* use[c]: whether it asks for the lock of the GPU or has it

lockVars == <<gpu, use>>

Uses == {"out", "asking", "using"}

LockInit ==
  gpu = [c \in Clients |-> NULL] /\ use = [c \in Clients |-> "out"]

Join(c) ==
  /\ gpu[c] = NULL /\ use[c] = "out"
  /\ \E g \in GPUs : gpu' = [gpu EXCEPT ![c] = g]
  /\ UNCHANGED use

Leave(c) ==
  /\ gpu' = [gpu EXCEPT ![c] = NULL]
  /\ use' = [use EXCEPT ![c] = "out"]

Ask(c) ==
  /\ gpu[c] # NULL /\ use[c] = "out"
  /\ use' = [use EXCEPT ![c] = "asking"]
  /\ UNCHANGED gpu

Free(g) == \A d \in Clients : gpu[d] = g => use[d] # "using"

Grant(c) ==
  /\ use[c] = "asking" /\ Free(gpu[c])
  /\ use' = [use EXCEPT ![c] = "using"]
  /\ UNCHANGED gpu

Release(c) ==
  /\ use[c] = "using"
  /\ use' = [use EXCEPT ![c] = "out"]
  /\ UNCHANGED gpu

LockNext ==
  \E c \in Clients : Join(c) \/ Leave(c) \/ Ask(c) \/ Grant(c) \/ Release(c)

LockSpec == LockInit /\ [][LockNext]_lockVars

=============================================================================
