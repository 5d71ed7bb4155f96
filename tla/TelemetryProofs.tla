--------------------------- MODULE TelemetryProofs ---------------------------
(***************************************************************************)
(* Theorems about Telemetry, for any number of devices, clients, contexts  *)
(* and connections, any buffer size and any failures.                      *)
(***************************************************************************)
EXTENDS Telemetry, TLAPS

(* The two locks are held exactly in the steps between taking and releasing *)
(* them, and while the samples are replaced the ones to come have the names *)
(* that are known.                                                          *)
MetricsInv ==
  /\ (mutex = "main") = (mpc = "handle")
  /\ (mutex = "exporter") = (epc = "contexts")
  /\ (lock = "w") = (spc = "swap" /\ i > 1)
  /\ (lock = "r") = (epc = "gpu")
  /\ i \in 0 .. GPU_COUNT /\ (spc = "swap") = (i # 0)
  /\ DOMAIN gpus = GPUs /\ DOMAIN local_snaps = GPUs
  /\ \A g \in GPUs : spc = "swap" /\ g >= i /\ gpus[g].name = "model"
                     => local_snaps[g].name = "model"
  /\ epc = "contexts" => \E cs :
       snap = [clients |-> cs, client_state |-> state.number,
               contexts |-> {}, context_state |-> NULL]
  /\ snap # NULL => snap.context_state \in {NULL, snap.client_state}

(* The main thread.                                                         *)
LEMMA MainStep ==
  ASSUME MetricsInv, Poll \/ Lock \/ Handle
  PROVE  MetricsInv'
<1> USE TelemetryAssumption DEF MetricsInv, nvmlVars, samplerVars, pageVars
<1>1. CASE Poll  BY <1>1 DEF Poll
<1>2. CASE Lock  BY <1>2 DEF Lock
<1>3. CASE Handle
  <2>1. epc # "contexts"  BY <1>3 DEF Handle
  <2> QED BY <1>3, <2>1 DEF Handle
<1> QED BY <1>1, <1>2, <1>3

(* The sampler.                                                             *)
LEMMA SamplerStep ==
  ASSUME MetricsInv, nvml_sampler_thread_fn
  PROVE  MetricsInv'
<1> USE TelemetryAssumption DEF MetricsInv, mainVars, nvmlVars, initVars, pageVars
<1>1. CASE Sample
  <2>1. PICK seen, unreadable :
          local_snaps' = [g \in GPUs |-> sample_gpu(g, seen, unreadable)]
    BY <1>1 DEF Sample
  <2>2. ASSUME NEW g \in GPUs, gpus[g].name = "model"
        PROVE  local_snaps'[g].name = "model"
    BY <2>1, <2>2 DEF sample_gpu, NoSample
  <2> QED BY <1>1, <2>1, <2>2 DEF Sample, GPUs
<1>2. CASE Swap
  BY <1>2 DEF Swap, GPUs
<1> QED BY <1>1, <1>2 DEF nvml_sampler_thread_fn

(* The exporter.                                                            *)
LEMMA ExporterStep ==
  ASSUME MetricsInv, metrics_exporter_thread_fn
  PROVE  MetricsInv'
<1> USE TelemetryAssumption DEF MetricsInv, mainVars, nvmlVars, initVars,
        samplerVars, pageVars
<1>1. CASE Setup  BY <1>1 DEF Setup
<1>2. ASSUME NEW k, Accept(k)  PROVE MetricsInv'
  BY <1>2 DEF Accept
<1>3. CASE handle_connection
  BY <1>3 DEF handle_connection, Write, EmptyPage
<1>4. CASE SnapshotClients
  <2>1. PICK cs : snap' = [clients |-> cs, client_state |-> state.number,
                           contexts |-> {}, context_state |-> NULL]
    BY Zenon, <1>4 DEF SnapshotClients
  <2>2. snap'.context_state = NULL  BY <2>1
  <2>3. UNCHANGED state /\ mutex' = "exporter" /\ mutex = NULL /\ epc = "snapshot"
        /\ epc' = "contexts" /\ UNCHANGED <<mpc, lock, gpus, spc, i, local_snaps>>
    BY <1>4 DEF SnapshotClients
  <2>4. \E xs : snap' = [clients |-> xs, client_state |-> state'.number,
                         contexts |-> {}, context_state |-> NULL]
    BY Zenon, <2>1, <2>3
  <2> QED BY Zenon, <2>2, <2>3, <2>4
<1>5. CASE SnapshotContexts
  <2>1. PICK cs : snap = [clients |-> cs, client_state |-> state.number,
                          contexts |-> {}, context_state |-> NULL]
    BY <1>5 DEF SnapshotContexts
  <2>2. PICK gs : snap' = [snap EXCEPT !.contexts = gs, !.context_state = state.number]
    BY Zenon, <1>5 DEF SnapshotContexts
  <2>3. snap'.context_state = snap'.client_state  BY <2>1, <2>2
  <2> QED BY <1>5, <2>3 DEF SnapshotContexts
<1>6. CASE NvmlUp  BY <1>6 DEF NvmlUp
<1>7. CASE format_gpu_metrics  BY <1>7 DEF format_gpu_metrics
<1>8. CASE format_client_metrics  BY <1>8 DEF format_client_metrics
<1>9. CASE WriteHeader \/ WriteBody
  BY <1>9 DEF WriteHeader, WriteBody, Write, EmptyPage
<1> QED
  BY Zenon, <1>1, <1>2, <1>3, <1>4, <1>5, <1>6, <1>7, <1>8, <1>9
  DEF metrics_exporter_thread_fn, handle_metrics

LEMMA MetricsInvariant == Spec => []MetricsInv
<1>1. Init => MetricsInv
  <2> SUFFICES ASSUME Init  PROVE MetricsInv
    OBVIOUS
  <2>1. spc # "swap" /\ epc \notin {"contexts", "gpu"}  BY DEF Init
  <2>2. mutex = NULL /\ lock = NULL /\ mpc = "poll" /\ i = 0 /\ snap = NULL
    BY DEF Init
  <2>3. DOMAIN gpus = GPUs /\ local_snaps = gpus  BY DEF Init
  <2>4. 0 \in 0 .. GPU_COUNT  BY TelemetryAssumption
  <2> QED BY <2>1, <2>2, <2>3, <2>4, TelemetryAssumption DEF MetricsInv
<1>2. MetricsInv /\ [Next]_vars => MetricsInv'
  <2> SUFFICES ASSUME MetricsInv, [Next]_vars  PROVE MetricsInv'
    OBVIOUS
  <2>1. CASE UNCHANGED <<mainVars, nvmlVars, samplerVars, epc, pageVars>>
    BY <2>1 DEF MetricsInv, mainVars, nvmlVars, samplerVars, pageVars
  <2>2. ASSUME NEW k, PeerStep(k)  PROVE MetricsInv'
    BY <2>1, <2>2 DEF PeerStep, Connect, Send, Stall, Resume, Close, Peer
  <2>3. CASE UNCHANGED vars  BY <2>1, <2>3 DEF vars
  <2> QED BY <2>2, <2>3, MainStep, SamplerStep, ExporterStep DEF Next
<1> QED BY <1>1, <1>2, PTL DEF Spec

(* Only the sampler writes g_nvml_snapshot.                                 *)
LEMMA OnlySwap ==
  ASSUME Next, ~Swap
  PROVE  UNCHANGED gpus
<1>1. CASE Poll \/ Lock \/ Handle \/ Sample
  BY <1>1 DEF Poll, Lock, Handle, Sample, nvmlVars
<1>2. CASE metrics_exporter_thread_fn
  BY Zenon, <1>2 DEF metrics_exporter_thread_fn, Setup, Accept, handle_connection,
     handle_metrics, SnapshotClients, SnapshotContexts, NvmlUp, format_gpu_metrics,
     format_client_metrics, WriteHeader, WriteBody, nvmlVars
<1>3. ASSUME NEW k, PeerStep(k)  PROVE UNCHANGED gpus
  BY <1>3 DEF PeerStep, Connect, Send, Stall, Resume, Close, Peer, nvmlVars
<1> QED BY <1>1, <1>2, <1>3 DEF Next, nvml_sampler_thread_fn

(* A device name that was read once is in g_nvml_snapshot for good.         *)
THEOREM NameCorrect == Spec => NameKept
<1> DEFINE Kept == \A g \in GPUs : gpus[g].name = "model" => gpus'[g].name = "model"
<1>1. MetricsInv /\ [Next]_vars => [Kept]_vars
  <2> SUFFICES ASSUME MetricsInv, Next  PROVE Kept
    OBVIOUS
  <2>1. CASE Swap
    BY <2>1 DEF Swap, MetricsInv, GPUs
  <2>2. CASE ~Swap  BY <2>2, OnlySwap
  <2> QED BY <2>1, <2>2
<1> QED BY <1>1, MetricsInvariant, PTL DEF Spec, NameKept

(* The clients and the contexts of a page are of one state of the scheduler *)
(* (metrics_fill_scheduler_snapshot holds global_mutex in between).         *)
THEOREM SnapshotWhole ==
  Spec => [](snap # NULL => snap.context_state \in {NULL, snap.client_state})
<1>1. MetricsInv => (snap # NULL => snap.context_state \in {NULL, snap.client_state})
  BY DEF MetricsInv
<1> QED BY <1>1, MetricsInvariant, PTL

(* The samples stay as they are while format_gpu_metrics goes through the   *)
(* devices.                                                                 *)
THEOREM DevicesStable == Spec => [][epc = "gpu" => UNCHANGED gpus]_vars
<1>1. MetricsInv /\ [Next]_vars => [epc = "gpu" => UNCHANGED gpus]_vars
  <2> SUFFICES ASSUME MetricsInv, Next, epc = "gpu"  PROVE UNCHANGED gpus
    OBVIOUS
  <2>1. ~Swap  BY TelemetryAssumption DEF MetricsInv, Swap
  <2> QED BY <2>1, OnlySwap
<1> QED BY <1>1, MetricsInvariant, PTL DEF Spec

=============================================================================
