-------------------------------- MODULE Comm --------------------------------
(***************************************************************************)
(* The connections between nvshare-scheduler and its clients               *)
(* (src/comm.c, src/comm.h, src/common.c): one UNIX stream socket per      *)
(* client, two reliable FIFO byte streams that carry whole messages.       *)
(*                                                                         *)
(* The scheduler's end is non-blocking (accept4 with SOCK_NONBLOCK), the   *)
(* client's end is blocking (connect without it).                          *)
(***************************************************************************)
EXTENDS Naturals, Sequences, FiniteSets

CONSTANTS
  Clients,   \* client processes (applications with libnvshare preloaded)
  GPUs,      \* the GPU UUIDs that clients register with
  MemSizes,  \* the sizes a client can report in MEM_UPDATE
  SOCK_BUF,  \* messages that fit in a socket buffer (scheduler -> client)
  MAX_UNREAD \* bound: messages of one client the scheduler has not read yet

ASSUME CommAssumption ==
  /\ SOCK_BUF \in Nat /\ MAX_UNREAD \in Nat
  /\ MemSizes \subseteq Nat

VARIABLES
  alive,    \* alive[c]: the client process exists (its socket end is open)
  sock,     \* sock[c]: the scheduler's end of the connection
  toSched,  \* toSched[c]: messages written by c, not yet read
  toClient  \* toClient[c]: messages written to c, not yet read

commVars == <<alive, sock, toSched, toClient>>

(* "pending": in the listen backlog; "closed": the scheduler closed its end. *)
SockStates == {"none", "pending", "accepted", "closed"}

(* enum message_type, split by direction.  PREPARE_SWAP_OUT is never sent;  *)
(* the limit updates belong to the annotation watcher; the three commands   *)
(* of nvsharectl travel on connections of its own.                          *)
ToSchedMsgs ==
  [type : {"REGISTER"}, gpu : GPUs]
    \cup [type : {"REQ_LOCK", "LOCK_RELEASED"}]
    \cup [type : {"MEM_UPDATE"}, memory_usage : MemSizes]

ToClientMsgs ==
  {"SCHED_ON", "SCHED_OFF", "LOCK_OK", "DROP_LOCK", "WAIT_FOR_MEM",
   "MEM_AVAILABLE"}

CommTypeOK ==
  /\ alive \in [Clients -> BOOLEAN]
  /\ sock \in [Clients -> SockStates]
  /\ toSched \in [Clients -> Seq(ToSchedMsgs)]
  /\ toClient \in [Clients -> Seq(ToClientMsgs)]

CommInit ==
  /\ alive = [c \in Clients |-> FALSE]
  /\ sock = [c \in Clients |-> "none"]
  /\ toSched = [c \in Clients |-> <<>>]
  /\ toClient = [c \in Clients |-> <<>>]

(* nvshare_send_noblock succeeds: the peer is there and the buffer has room *)
(* (otherwise EPIPE, ECONNRESET or EAGAIN).                                 *)
Writable(c) == alive[c] /\ Len(toClient[c]) < SOCK_BUF

(* One message m to each client of the set S, dropped where it cannot go.   *)
Written(S, m) ==
  [c \in Clients |->
     IF c \in S /\ Writable(c) THEN Append(toClient[c], m) ELSE toClient[c]]

(* write_whole on the client's blocking socket waits for room.              *)
HasRoom(c) == Len(toSched[c]) < MAX_UNREAD

=============================================================================
