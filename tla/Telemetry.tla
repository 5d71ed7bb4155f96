----------------------------- MODULE Telemetry -----------------------------
(***************************************************************************)
(* The metrics of the scheduler: the NVML sampler thread                   *)
(* (nvml_sampler.c), the exporter thread (metrics_exporter.c) that answers *)
(* HTTP requests, and what they share with the main thread.  Handlers of   *)
(* the main thread are reduced to "the state changes while global_mutex is *)
(* held": a state is its number, its registered clients and its contexts.  *)
(***************************************************************************)
EXTENDS Integers, Sequences, FiniteSets, SequencesExt, FiniteSetsExt

CONSTANTS
  Clients,              \* clients, each a process
  GPU_COUNT,            \* number of devices
  GpuOf,                \* the GPU of each client
  Pidless,              \* clients with a host_pid of 0 or less
  Conns, Requests,      \* HTTP connections, and what peers ask for
  NULL,
  METRICS_ENABLE,       \* NVSHARE_METRICS_ENABLE, a text or NULL
  MAX_SNAPSHOT_CLIENTS, MAX_SNAPSHOT_CONTEXTS,
  BUFFER_SIZE,          \* NVSHARE_METRICS_BUFFER_SIZE
  LINE,                 \* length of a line of the page, by kind
  MAX_CHANGES,          \* bound on handlers
  MAX_ROUNDS,           \* bound on samples
  MAX_FAILURES          \* bound on failing NVML calls and system calls

VARIABLES
  alive,                \* the scheduler process
  mutex,                \* holder of global_mutex, or NULL
  mpc, state,           \* main thread; [number, clients, contexts]
  nvml_available, handles, fn_nvmlDeviceGetName, \* result of nvml_sampler_init
  lock, gpus,           \* g_nvml_snapshot; its rwlock is held by the exporter
                        \* ("r"), by the sampler ("w") or by none (NULL)
  spc, i, local_snaps, round, \* the sampler
  epc, fd, cursor, snap, buf,    \* the exporter
  full,                 \* history: the page if the buffer had no end
  conn,                 \* connections, from the side of the peer
  answer,               \* what the peers got
  failures

mainVars == <<mutex, mpc, state>>
initVars == <<nvml_available, handles, fn_nvmlDeviceGetName>>
nvmlVars == <<initVars, lock, gpus>>
samplerVars == <<spc, i, local_snaps, round>>
pageVars == <<cursor, snap, buf, full>>
peerVars == <<conn, answer>>
vars == <<alive, mainVars, nvmlVars, samplerVars, epc, fd, pageVars, peerVars,
          failures>>

GPUs == 1 .. GPU_COUNT

ASSUME TelemetryAssumption ==
  GPU_COUNT \in Nat \ {0} /\ NULL \notin {"main", "exporter", "r", "w"}

Fault == failures < MAX_FAILURES /\ failures' = failures + 1

enabled == METRICS_ENABLE \in {"1", "true"}

-----------------------------------------------------------------------------
(* The main thread: every handler runs with global_mutex.  A GPU has a      *)
(* context from its first client on.                                        *)

Poll ==
  /\ alive /\ mpc = "poll" /\ state.number < MAX_CHANGES /\ mpc' = "lock"
  /\ UNCHANGED <<alive, mutex, state, nvmlVars, samplerVars, epc, fd, pageVars,
                 peerVars, failures>>

Lock ==
  /\ alive /\ mpc = "lock" /\ mutex = NULL /\ mutex' = "main" /\ mpc' = "handle"
  /\ UNCHANGED <<alive, state, nvmlVars, samplerVars, epc, fd, pageVars,
                 peerVars, failures>>

Handle ==
  /\ alive /\ mpc = "handle" /\ mpc' = "poll" /\ mutex' = NULL
  /\ \E cs \in SUBSET Clients :
       state' = [number |-> state.number + 1, clients |-> cs,
                 contexts |-> state.contexts \cup {GpuOf[c] : c \in cs}]
  /\ UNCHANGED <<alive, nvmlVars, samplerVars, epc, fd, pageVars, peerVars,
                 failures>>

-----------------------------------------------------------------------------
(* The sampler.                                                             *)

NoSample == [valid |-> FALSE, name |-> "", round |-> 0, processes |-> {}]

(* Mutant: the name is read anew every time.                                *)
sample_anew(g, seen, unreadable) ==
  IF g \notin handles THEN NoSample
  ELSE [valid |-> TRUE, round |-> round + 1,
        processes |-> {c \in seen : GpuOf[c] = g},
        name |-> IF g \in unreadable THEN "Unknown" ELSE "model"]

(* sample_gpu for every device.  Without a handle it stays invalid; a name  *)
(* that is known is kept, and one that cannot be read is "Unknown", or      *)
(* empty where NVML has no function for it.                                 *)
sample_gpu(g, seen, unreadable) ==
  LET name == gpus[g].name
  IN  IF g \notin handles THEN [NoSample EXCEPT !.name = name]
      ELSE [valid |-> TRUE, round |-> round + 1,
            processes |-> {c \in seen : GpuOf[c] = g},
            name |-> IF name # "" \/ ~fn_nvmlDeviceGetName THEN name
                     ELSE IF g \in unreadable THEN "Unknown" ELSE "model"]

(* The part of the loop on local_snaps, which no other thread sees: the     *)
(* names are copied under the read lock, which only the sampler's own       *)
(* writes could contend with.                                               *)
Sample ==
  /\ alive /\ spc = "sample" /\ round < MAX_ROUNDS
  /\ \E seen \in SUBSET Clients,
        unreadable \in SUBSET (IF fn_nvmlDeviceGetName THEN handles ELSE {}) :
       /\ failures' = failures + Cardinality(unreadable)
       /\ failures' <= MAX_FAILURES
       /\ local_snaps' = [g \in GPUs |-> sample_gpu(g, seen, unreadable)]
  /\ round' = round + 1 /\ i' = 1 /\ spc' = "swap"
  /\ UNCHANGED <<alive, mainVars, nvmlVars, epc, fd, pageVars, peerVars>>

(* Mutant: the copy without the write lock.                                 *)
SwapUnlocked ==
  /\ alive /\ spc = "swap"
  /\ gpus' = [gpus EXCEPT ![i] = local_snaps[i]]
  /\ local_snaps' = [local_snaps EXCEPT ![i] = NoSample]
  /\ IF i < GPU_COUNT THEN i' = i + 1 /\ UNCHANGED spc ELSE i' = 0 /\ spc' = "sample"
  /\ UNCHANGED <<alive, mainVars, initVars, lock, round, epc, fd, pageVars, peerVars,
                 failures>>

(* The copy under the write lock, device by device.  (local_snaps is        *)
(* cleared before it is used again.)                                        *)
Swap ==
  /\ alive /\ spc = "swap" /\ (i = 1 => lock = NULL)
  /\ gpus' = [gpus EXCEPT ![i] = local_snaps[i]]
  /\ local_snaps' = [local_snaps EXCEPT ![i] = NoSample]
  /\ IF i < GPU_COUNT THEN i' = i + 1 /\ lock' = "w" /\ UNCHANGED spc
     ELSE i' = 0 /\ lock' = NULL /\ spc' = "sample"
  /\ UNCHANGED <<alive, mainVars, initVars, round, epc, fd, pageVars, peerVars,
                 failures>>

-----------------------------------------------------------------------------
(* The exporter.  A line of the page is what it is about and where its      *)
(* value comes from: the number of a scheduler state or of a sample.        *)

Line(kind, of, from) == [kind |-> kind, of |-> of, from |-> from]

Fits(b, line) == b.len + LINE[line.kind] <= BUFFER_SIZE - 1

Added(b, line) ==
  [b EXCEPT !.lines = Append(@, line), !.len = @ + LINE[line.kind]]

(* Mutant: a line that does not fit is left out.                           *)
append_if_fits(b, line) == IF Fits(b, line) THEN Added(b, line) ELSE b

(* A line that does not fit is cut, and then nothing more is appended.      *)
buf_append(b, line) ==
  IF b.len >= BUFFER_SIZE - 1 THEN b
  ELSE IF Fits(b, line) THEN Added(b, line)
  ELSE [b EXCEPT !.cut = TRUE, !.len = BUFFER_SIZE - 1]

Append_all(lines) ==
  /\ buf' = FoldLeft(buf_append, buf, lines)
  /\ full' = full \o lines

(* socket, bind and listen; on a failure the thread ends.                   *)
Setup ==
  /\ alive /\ epc = "setup"
  /\ \/ epc' = "accept" /\ UNCHANGED failures
     \/ epc' = "off" /\ Fault
  /\ UNCHANGED <<alive, mainVars, nvmlVars, samplerVars, fd, pageVars, peerVars>>

Accept(k) ==
  /\ alive /\ epc = "accept" /\ conn[k].open /\ answer[k] = NULL
  /\ fd' = k /\ answer' = [answer EXCEPT ![k] = "accepted"] /\ epc' = "read"
  /\ UNCHANGED <<alive, mainVars, nvmlVars, samplerVars, pageVars, conn, failures>>

(* write, and close unless more follows.  A peer that is gone gets nothing, *)
(* and SIGPIPE may end the process: nothing handles it.                     *)
Write(text, next) ==
  /\ IF conn[fd].gone THEN alive' \in BOOLEAN ELSE UNCHANGED alive
  /\ answer' = [answer EXCEPT ![fd] = IF conn[fd].gone THEN "lost" ELSE text]
  /\ epc' = next /\ fd' = IF next = "accept" THEN NULL ELSE fd

EmptyPage ==
  /\ snap' = NULL /\ cursor' = 0 /\ full' = <<>>
  /\ buf' = [lines |-> <<>>, len |-> 0, cut |-> FALSE]

(* Mutant: a read that returns 0 is tried again.                            *)
handle_connection_retry ==
  /\ alive /\ epc = "read"
  /\ LET request == conn[fd].request
     IN  \/ request = "metrics" /\ epc' = "snapshot" /\ UNCHANGED <<alive, answer, fd>>
         \/ request = "healthz" /\ Write("OK", "accept")
         \/ request = "other" /\ Write("Not Found", "accept")
  /\ EmptyPage
  /\ UNCHANGED <<mainVars, nvmlVars, samplerVars, conn, failures>>

(* handle_connection, handle_healthz and handle_not_found: read blocks      *)
(* until the peer has sent a request or closed.                             *)
handle_connection ==
  /\ alive /\ epc = "read"
  /\ LET request == conn[fd].request
     IN  \/ request = "metrics" /\ epc' = "snapshot" /\ UNCHANGED <<alive, answer, fd>>
         \/ request = "healthz" /\ Write("OK", "accept")
         \/ request = "other" /\ Write("Not Found", "accept")
         \/ /\ request = NULL /\ conn[fd].gone /\ epc' = "accept" /\ fd' = NULL
            /\ answer' = [answer EXCEPT ![fd] = "lost"] /\ UNCHANGED alive
  /\ EmptyPage
  /\ UNCHANGED <<mainVars, nvmlVars, samplerVars, conn, failures>>

(* The first entries of a list, as many as the array of the snapshot holds. *)
FirstOf(list, max) ==
  {some \in SUBSET list : Cardinality(some) = Min({Cardinality(list), max})}

(* Mutant: global_mutex is released between the two halves.                 *)
SnapshotClientsOnly ==
  /\ alive /\ epc = "snapshot" /\ mutex = NULL
  /\ snap' = [clients |-> state.clients, client_state |-> state.number,
              contexts |-> {}, context_state |-> NULL]
  /\ epc' = "contexts"
  /\ UNCHANGED <<alive, mainVars, nvmlVars, samplerVars, fd, cursor, buf, full,
                 peerVars, failures>>

(* Mutant: with no client there is an early return, without the unlock.     *)
SnapshotReturns ==
  /\ alive /\ epc = "contexts"
  /\ \E gs \in FirstOf(state.contexts, MAX_SNAPSHOT_CONTEXTS) :
       snap' = [snap EXCEPT !.contexts = gs, !.context_state = state.number]
  /\ mutex' = (IF snap.clients = {} THEN mutex ELSE NULL) /\ epc' = "gpu_info"
  /\ UNCHANGED <<alive, mpc, state, nvmlVars, samplerVars, fd, cursor, buf, full,
                 peerVars, failures>>

(* metrics_fill_scheduler_snapshot: the clients, then the contexts and the  *)
(* counters, with global_mutex.                                             *)
SnapshotClients ==
  /\ alive /\ epc = "snapshot" /\ mutex = NULL /\ mutex' = "exporter"
  /\ \E cs \in FirstOf(state.clients, MAX_SNAPSHOT_CLIENTS) :
       snap' = [clients |-> cs, client_state |-> state.number,
                contexts |-> {}, context_state |-> NULL]
  /\ epc' = "contexts"
  /\ UNCHANGED <<alive, mpc, state, nvmlVars, samplerVars, fd, cursor, buf, full,
                 peerVars, failures>>

SnapshotContexts ==
  /\ alive /\ epc = "contexts"
  /\ \E gs \in FirstOf(state.contexts, MAX_SNAPSHOT_CONTEXTS) :
       snap' = [snap EXCEPT !.contexts = gs, !.context_state = state.number]
  /\ mutex' = NULL /\ epc' = "gpu_info"
  /\ UNCHANGED <<alive, mpc, state, nvmlVars, samplerVars, fd, cursor, buf, full,
                 peerVars, failures>>

(* format_gpu_metrics takes the read lock, and keeps it while it goes       *)
(* through the devices.                                                     *)
NvmlUp ==
  /\ alive /\ epc = "gpu_info" /\ lock # "w"
  /\ Append_all(<<Line("nvml_up", NULL, IF nvml_available THEN 1 ELSE 0)>>)
  /\ IF nvml_available
     THEN lock' = "r" /\ epc' = "gpu" /\ cursor' = 1
     ELSE epc' = "client" /\ UNCHANGED <<lock, cursor>>
  /\ UNCHANGED <<alive, mainVars, initVars, gpus, samplerVars, fd, snap, peerVars,
                 failures>>

format_gpu_metrics ==
  /\ alive /\ epc = "gpu"
  /\ Append_all(IF gpus[cursor].valid
                THEN <<Line("gpu", cursor, gpus[cursor].round)>> ELSE <<>>)
  /\ IF cursor < GPU_COUNT
     THEN cursor' = cursor + 1 /\ UNCHANGED <<lock, epc>>
     ELSE cursor' = 0 /\ lock' = NULL /\ epc' = "client"
  /\ UNCHANGED <<alive, mainVars, initVars, gpus, samplerVars, fd, snap, peerVars,
                 failures>>

(* What NVML says of a client; 0 when its process was not seen.             *)
nvml_used(c) ==
  IF gpus[GpuOf[c]].valid /\ c \in gpus[GpuOf[c]].processes
  THEN gpus[GpuOf[c]].round ELSE 0

(* One line for each member of a list, which values is a function on.       *)
ForEach(kind, values) ==
  LET seq == SetToSeq(DOMAIN values)
  IN  [n \in 1 .. Len(seq) |-> Line(kind, seq[n], values[seq[n]])]

format_compute_metrics ==
  ForEach("compute", [c \in snap.clients |-> snap.client_state])
format_scheduler_metrics ==
  ForEach("scheduler", [g \in snap.contexts |-> snap.context_state])
format_event_metrics == <<Line("event", NULL, snap.context_state)>>

(* format_client_metrics, which reads g_nvml_snapshot once more, and the    *)
(* sections after it, which read the snapshot only.                         *)
format_client_metrics ==
  /\ alive /\ epc = "client" /\ lock # "w"
  /\ Append_all(ForEach("client", [c \in snap.clients |-> snap.client_state])
                  \o ForEach("nvml_used", [c \in snap.clients \ Pidless |-> nvml_used(c)])
                  \o format_compute_metrics \o format_scheduler_metrics
                  \o format_event_metrics)
  /\ epc' = "header"
  /\ UNCHANGED <<alive, mainVars, nvmlVars, samplerVars, fd, cursor, snap, peerVars,
                 failures>>

WriteHeader ==
  /\ alive /\ epc = "header" /\ Write("header", "body")
  /\ UNCHANGED <<mainVars, nvmlVars, samplerVars, pageVars, conn, failures>>

(* The page is larger than what a socket holds: write waits for a peer that *)
(* does not read.                                                           *)
WriteBody ==
  /\ alive /\ epc = "body" /\ (conn[fd].reads \/ conn[fd].gone)
  /\ Write("page", "accept")
  /\ EmptyPage
  /\ UNCHANGED <<mainVars, nvmlVars, samplerVars, conn, failures>>

-----------------------------------------------------------------------------
(* The HTTP peers.                                                          *)

Peer(k, c) ==
  /\ conn' = [conn EXCEPT ![k] = c]
  /\ UNCHANGED <<alive, mainVars, nvmlVars, samplerVars, epc, fd, pageVars, answer>>

Waiting(k) == conn[k].open /\ ~conn[k].gone /\ answer[k] \in {NULL, "accepted", "header"}

Connect(k) ==
  /\ epc \notin {"setup", "off"} /\ ~conn[k].open
  /\ Peer(k, [conn[k] EXCEPT !.open = TRUE]) /\ UNCHANGED failures

Send(k) ==
  /\ Waiting(k) /\ conn[k].request = NULL
  /\ \E request \in Requests[k] : Peer(k, [conn[k] EXCEPT !.request = request])
  /\ UNCHANGED failures

(* A peer stops reading, reads on, or closes before it has its answer.      *)
Stall(k) ==
  Waiting(k) /\ conn[k].reads /\ Peer(k, [conn[k] EXCEPT !.reads = FALSE]) /\ Fault

Resume(k) ==
  /\ Waiting(k) /\ ~conn[k].reads
  /\ Peer(k, [conn[k] EXCEPT !.reads = TRUE]) /\ UNCHANGED failures

Close(k) == Waiting(k) /\ Peer(k, [conn[k] EXCEPT !.gone = TRUE]) /\ Fault

-----------------------------------------------------------------------------
(* NVML may be missing or fail, and a device may lack a handle, or all of   *)
(* them the function that tells their names.                                *)
nvml_sampler_init ==
  /\ nvml_available \in BOOLEAN
  /\ handles \in (IF nvml_available THEN SUBSET GPUs ELSE {{}})
  /\ fn_nvmlDeviceGetName \in (IF nvml_available THEN BOOLEAN ELSE {FALSE})
  /\ failures = (IF nvml_available THEN Cardinality(GPUs \ handles) ELSE 0)
                  + (IF fn_nvmlDeviceGetName THEN 0 ELSE 1)
  /\ failures <= MAX_FAILURES

(* main starts the threads: none unless metrics are enabled, the exporter   *)
(* alone when nvml_sampler_init fails.                                      *)
Init ==
  /\ alive = TRUE /\ mutex = NULL /\ mpc = "poll"
  /\ state = [number |-> 0, clients |-> {}, contexts |-> {}]
  /\ IF enabled THEN nvml_sampler_init
     ELSE /\ nvml_available = FALSE /\ handles = {} /\ failures = 0
          /\ fn_nvmlDeviceGetName = FALSE
  /\ lock = NULL /\ gpus = [g \in GPUs |-> NoSample]
  /\ spc = (IF nvml_available THEN "sample" ELSE "off")
  /\ i = 0 /\ local_snaps = gpus /\ round = 0
  /\ epc = (IF enabled THEN "setup" ELSE "off")
  /\ fd = NULL /\ cursor = 0 /\ snap = NULL /\ full = <<>>
  /\ buf = [lines |-> <<>>, len |-> 0, cut |-> FALSE]
  /\ conn = [k \in Conns |->
              [open |-> FALSE, request |-> NULL, reads |-> TRUE, gone |-> FALSE]]
  /\ answer = [k \in Conns |-> NULL]

nvml_sampler_thread_fn ==
  Sample \/ Swap

handle_metrics ==
  SnapshotClients \/ SnapshotContexts \/ NvmlUp \/ format_gpu_metrics
    \/ format_client_metrics \/ WriteHeader \/ WriteBody

metrics_exporter_thread_fn ==
  Setup \/ (\E k \in Conns : Accept(k)) \/ handle_connection \/ handle_metrics

PeerStep(k) == Connect(k) \/ Send(k) \/ Stall(k) \/ Resume(k) \/ Close(k)

Next ==
  \/ Poll \/ Lock \/ Handle
  \/ nvml_sampler_thread_fn \/ metrics_exporter_thread_fn
  \/ \E k \in Conns : PeerStep(k)

Spec == Init /\ [][Next]_vars

(* The threads run.  Nothing is assumed of the peers.                       *)
FairSpec ==
  /\ Spec /\ WF_vars(Lock) /\ WF_vars(Handle)
  /\ WF_vars(nvml_sampler_thread_fn) /\ WF_vars(metrics_exporter_thread_fn)

-----------------------------------------------------------------------------
From(kinds) == {buf.lines[n].from : n \in
                  {j \in DOMAIN buf.lines : buf.lines[j].kind \in kinds}}

(* What a page says of the scheduler is one state between two handlers: no  *)
(* client is counted in a context that the page shows before its REQ_LOCK   *)
(* was handled, or after.  The snapshot is copied with global_mutex held.   *)
OneState ==
  snap # NULL =>
    /\ snap.context_state \in {NULL, snap.client_state}
    /\ From({"client", "compute", "scheduler", "event"})
         \subseteq {snap.client_state}

(* The device lines of a page come from one sample, though the sampler      *)
(* replaces the samples while pages are written, and what NVML says of the  *)
(* clients comes from that sample or a later one.                           *)
WholeSample ==
  /\ Cardinality(From({"gpu"})) <= 1
  /\ \A r \in From({"gpu"}), q \in From({"nvml_used"}) \ {0} : q >= r

(* A page that outgrows the buffer ends early, and every whole line of it   *)
(* is the line a larger buffer would hold at that place: no section is      *)
(* lost while a later one is there, and there is room for the final NUL.    *)
PageIsPrefix ==
  /\ IsPrefix(buf.lines, full) /\ buf.len < BUFFER_SIZE
  /\ ~buf.cut /\ buf.len < BUFFER_SIZE - 1 => buf.lines = full

(* The name of a device, once read, is never lost or overwritten: a later   *)
(* sample that cannot read it keeps it.                                     *)
NameKept ==
  [][\A g \in GPUs : gpus[g].name = "model" => gpus'[g].name = "model"]_vars

(* The handlers of the scheduler go on whatever the HTTP peers do: no peer  *)
(* that sends nothing, reads nothing or closes holds global_mutex.          *)
MainProceeds == mpc = "lock" ~> (mpc # "lock" \/ ~alive)

(* If peers send a request and read, all that wait are answered, in spite   *)
(* of there being one thread that reads and writes without a timeout.       *)
EventuallyAnswered ==
  WF_vars(\E k \in Conns : Send(k) \/ Resume(k))
    => ((\E k \in Conns : Waiting(k)) ~> ((\A k \in Conns : ~Waiting(k)) \/ ~alive))
=============================================================================
