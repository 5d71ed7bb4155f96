---------------------------- MODULE DevicePlugin ----------------------------
(***************************************************************************)
(* The Kubernetes device plugin (kubernetes/device-plugin): its restart    *)
(* loop around the gRPC server, registration with the kubelet, and the     *)
(* allocation of virtual GPUs.  The kubelet and the gRPC library are       *)
(* modelled from how the plugin uses them.                                 *)
(***************************************************************************)
EXTENDS Integers, FiniteSets, Sequences, FiniteSetsExt

CONSTANTS
  VisibleDevices,        \* NVIDIA_VISIBLE_DEVICES of the plugin's container:
                         \* a set of UUIDs, or the directory below
  MountedUUIDs,          \* files in that directory
  NvidiaExposeMountDir,
  NvshareVirtualDevices, \* NVSHARE_VIRTUAL_DEVICES, per GPU
  MAX_CONTAINERS,        \* bound on containers that run at a time
  MAX_SIZE,              \* bound on the virtual GPUs of a container
  MAX_KUBELET,           \* bound on restarts of the kubelet
  MAX_SIGNALS,           \* bound on signals
  MAX_FAULTS             \* bound on failing calls, accepts and containers

VARIABLES
  pc,                    \* main: "restart", "listen", "dial", "register",
                         \* "events", or "ended" (the process)
  pluginStartError,      \* the channel is closed
  server,                \* devicePlugin.server # nil
  goroutine,             \* of Serve: "none", "starting", "serving", "retry"
  restartCount,          \* of that goroutine
  doomed,                \* a goroutine will find m.server = nil
  orphan,                \* a goroutine of an earlier Start goes on serving
  events,                \* Create events of kubelet.sock to read
  sigs,                  \* the signal channel, of capacity 1
  sock,                  \* who listens at m.socket: "none", "current" server
                         \* or an "old" one
  kubelet,               \* "down", "starting" or "up"
  endpoint,              \* of the plugin, in the kubelet: "none", "dialing",
                         \* or connected to the "current" or an "old" server
  gpuAllocationCount,
  request,               \* devices that the kubelet is about to allocate
  containers,            \* containers with virtual GPUs
  restarts, signals, faults

mainVars == <<pc, pluginStartError, server>>
serveVars == <<goroutine, restartCount, doomed, orphan>>
kubeletVars == <<kubelet, endpoint, restarts>>
allocVars == <<request, containers>>
vars == <<mainVars, serveVars, events, sigs, sock, kubeletVars,
          gpuAllocationCount, allocVars, signals, faults>>

Fault == faults < MAX_FAULTS /\ faults' = faults + 1

-----------------------------------------------------------------------------
(* Configuration and devices.                                               *)

nvidiaRuntimeUseMounts == VisibleDevices = NvidiaExposeMountDir
UUIDs == IF nvidiaRuntimeUseMounts THEN MountedUUIDs ELSE VisibleDevices
Configured == NvshareVirtualDevices > 0 /\ UUIDs # {}

(* A value of NVIDIA_VISIBLE_DEVICES that is not the directory lists UUIDs, *)
(* and no list of UUIDs reads as the directory.                             *)
ASSUME PluginAssumption ==
  /\ NvshareVirtualDevices \in Nat /\ IsFiniteSet(UUIDs)
  /\ nvidiaRuntimeUseMounts \/ NvidiaExposeMountDir \notin SUBSET UUIDs

(* uuid__ordinal                                                            *)
generateDeviceID(uuid, ordinal) == <<uuid, ordinal>>
UUID(id) == id[1]
getDevices ==
  {generateDeviceID(uuid, j) : uuid \in UUIDs, j \in 1..NvshareVirtualDevices}
deviceExists(id) == id \in getDevices

-----------------------------------------------------------------------------
(* The main goroutine.                                                      *)

(* m.cleanup: a goroutine of Serve that is between two calls of             *)
(* m.server.Serve will find nil there.                                      *)
cleanup ==
  /\ server' = FALSE
  /\ doomed' = (doomed \/ goroutine \in {"starting", "retry"})
  /\ goroutine' = "none" /\ restartCount' = 0

(* m.Stop: the server closes its connections and its listener, which        *)
(* unlinks the socket.                                                      *)
Stop ==
  IF ~server THEN UNCHANGED <<server, serveVars, sock, endpoint>>
  ELSE /\ sock' = "none" /\ cleanup /\ UNCHANGED orphan
       /\ endpoint' = IF endpoint = "current" THEN "none" ELSE endpoint

(* restart: stop the old plugin and make a new one.                         *)
Restart ==
  /\ pc = "restart" /\ pc' = "listen" /\ pluginStartError' = FALSE
  /\ Stop
  /\ UNCHANGED <<events, sigs, kubelet, restarts, gpuAllocationCount, allocVars,
                 signals, faults>>

(* Start fails: pluginStartError is closed.                                 *)
StartFails == pc' = "events" /\ pluginStartError' = TRUE

(* Mutant: a socket that is there is not removed.                           *)
ListenKeeping ==
  /\ pc = "listen"
  /\ IF sock = "none"
     THEN /\ pc' = "dial" /\ server' = TRUE
          /\ sock' = "current" /\ goroutine' = "starting" /\ restartCount' = 0
          /\ UNCHANGED <<pluginStartError, doomed>>
     ELSE StartFails /\ cleanup /\ UNCHANGED sock
  /\ UNCHANGED orphan
  /\ UNCHANGED <<events, sigs, kubeletVars, gpuAllocationCount, allocVars,
                 signals, faults>>

(* Start, Serve: initialize, remove a socket that is there, listen, and     *)
(* start the goroutine that serves.                                         *)
Listen ==
  /\ pc = "listen"
  /\ \/ /\ pc' = "dial" /\ server' = TRUE
        /\ sock' = "current" /\ goroutine' = "starting" /\ restartCount' = 0
        /\ UNCHANGED <<pluginStartError, doomed, faults>>
     \/ /\ Fault /\ sock' = "none" \* net.Listen fails
        /\ StartFails /\ cleanup
  /\ UNCHANGED <<orphan, events, sigs, kubeletVars, gpuAllocationCount,
                 allocVars, signals>>

(* Serve: connect to the own socket.  If that fails, cleanup leaves the     *)
(* server and its goroutine as they are.                                    *)
DialSelf ==
  /\ pc = "dial"
  /\ \/ /\ goroutine = "serving" /\ sock = "current"
        /\ pc' = "register"
        /\ UNCHANGED <<pluginStartError, server, serveVars, sock, faults>>
     \/ /\ IF sock = "current" THEN Fault ELSE UNCHANGED faults
        /\ sock' = IF sock = "current" THEN "old" ELSE sock
        /\ StartFails /\ cleanup
        /\ orphan' = (orphan \/ goroutine = "serving")
  /\ UNCHANGED <<events, sigs, kubeletVars, gpuAllocationCount, allocVars,
                 signals>>

(* Mutant: after a successful start old events are dropped.                 *)
RegisterDrains ==
  /\ pc = "register"
  /\ \/ /\ kubelet = "up" /\ endpoint' = "dialing" /\ pc' = "events"
        /\ events' = 0
        /\ UNCHANGED <<pluginStartError, server, serveVars, sock, faults>>
     \/ /\ kubelet # "up" /\ StartFails /\ Stop /\ UNCHANGED <<events, faults>>
  /\ UNCHANGED <<sigs, kubelet, restarts, gpuAllocationCount, allocVars, signals>>

(* Register: call the kubelet, which connects to the plugin later.  On an   *)
(* error the plugin stops; the kubelet may have got the call all the same.  *)
Register ==
  /\ pc = "register"
  /\ \/ /\ kubelet = "up" /\ endpoint' = "dialing" /\ pc' = "events"
        /\ UNCHANGED <<pluginStartError, server, serveVars, sock, faults>>
     \/ /\ kubelet # "up" /\ StartFails /\ Stop /\ UNCHANGED faults
     \/ /\ kubelet = "up" /\ Fault /\ StartFails
        /\ sock' = "none" /\ cleanup /\ UNCHANGED orphan
        /\ endpoint' \in {"dialing", endpoint}
  /\ UNCHANGED <<events, sigs, kubelet, restarts, gpuAllocationCount, allocVars,
                 signals>>

Running == pc # "ended"

(* The process ends, and with it its servers and connections.               *)
Ends ==
  /\ pc' = "ended" /\ sock' = "none"
  /\ endpoint' = IF endpoint \in {"current", "old"} THEN "none" ELSE endpoint

(* The select of the event loop takes any case that is ready.               *)
SelectStartError ==
  /\ pc = "events" /\ pluginStartError /\ pc' = "restart"
  /\ UNCHANGED <<pluginStartError, server, serveVars, events, sigs, sock,
                 kubeletVars, gpuAllocationCount, allocVars, signals, faults>>

SelectEvent ==
  /\ pc = "events" /\ events > 0 /\ events' = events - 1 /\ pc' = "restart"
  /\ UNCHANGED <<pluginStartError, server, serveVars, sigs, sock, kubeletVars,
                 gpuAllocationCount, allocVars, signals, faults>>

(* Mutant: every signal restarts.                                           *)
SelectAnySignal ==
  /\ pc = "events" /\ sigs # <<>> /\ sigs' = Tail(sigs) /\ pc' = "restart"
  /\ UNCHANGED <<pluginStartError, server, serveVars, events, sock, kubeletVars,
                 gpuAllocationCount, allocVars, signals, faults>>

SelectSignal ==
  /\ pc = "events" /\ sigs # <<>> /\ sigs' = Tail(sigs)
  /\ IF Head(sigs) = "SIGHUP"
     THEN pc' = "restart" /\ UNCHANGED <<sock, endpoint>>
     ELSE Ends \* after Stop
  /\ UNCHANGED <<pluginStartError, server, serveVars, events, kubelet, restarts,
                 gpuAllocationCount, allocVars, signals, faults>>

-----------------------------------------------------------------------------
(* The goroutine of Serve, and the process.                                 *)

GoServe ==
  /\ Running /\ goroutine = "starting" /\ goroutine' = "serving"
  /\ UNCHANGED <<mainVars, restartCount, doomed, orphan, events, sigs, sock,
                 kubeletVars, gpuAllocationCount, allocVars, signals, faults>>

(* server.Serve returns an error, having closed the listener, so that it    *)
(* does so again at once, up to the limit.                                  *)
ServeFails ==
  /\ Running
  /\ \/ goroutine = "serving" /\ Fault
     \/ goroutine = "retry" /\ UNCHANGED faults
  /\ IF restartCount > 5
     THEN Ends /\ UNCHANGED <<goroutine, restartCount>> \* log.Fatalf
     ELSE /\ goroutine' = "retry" /\ restartCount' = restartCount + 1
          /\ sock' = IF sock = "current" THEN "none" ELSE sock
          /\ UNCHANGED <<pc, endpoint>>
  /\ UNCHANGED <<pluginStartError, server, doomed, orphan, events, sigs, kubelet,
                 restarts, gpuAllocationCount, allocVars, signals>>

(* The same for one that was left serving: the close unlinks the path,      *)
(* whose socket it is, and the next call of m.server.Serve finds nil.       *)
OrphanFails ==
  /\ Running /\ orphan /\ orphan' = FALSE /\ Fault
  /\ sock' = "none" /\ doomed' = TRUE
  /\ UNCHANGED <<mainVars, goroutine, restartCount, events, sigs, kubeletVars,
                 gpuAllocationCount, allocVars, signals>>

(* m.server.Serve with m.server = nil.                                      *)
Panic ==
  /\ Running /\ doomed /\ Ends
  /\ UNCHANGED <<pluginStartError, server, serveVars, events, sigs, kubelet,
                 restarts, gpuAllocationCount, allocVars, signals, faults>>

(* The DaemonSet starts the container again: main from its beginning.  (It  *)
(* exits at once when the configuration cannot be used.)                    *)
Boot ==
  /\ pc = "ended" /\ Configured /\ pc' = "restart"
  /\ pluginStartError' = FALSE /\ server' = FALSE
  /\ goroutine' = "none" /\ restartCount' = 0
  /\ doomed' = FALSE /\ orphan' = FALSE
  /\ events' = 0 /\ sigs' = <<>>
  /\ gpuAllocationCount' = [uuid \in UUIDs |-> 0]
  /\ UNCHANGED <<sock, kubeletVars, allocVars, signals, faults>>

-----------------------------------------------------------------------------
(* Kubelet and signals.                                                     *)

KubeletStops ==
  /\ kubelet = "up" /\ restarts < MAX_KUBELET
  /\ restarts' = restarts + 1 /\ kubelet' = "down" /\ endpoint' = "none"
  /\ request' = {}
  /\ UNCHANGED <<mainVars, serveVars, events, sigs, sock, gpuAllocationCount,
                 containers, signals, faults>>

(* It empties the directory of the sockets, and then makes its own.         *)
KubeletStarts ==
  /\ kubelet = "down" /\ kubelet' = "starting" /\ sock' = "none"
  /\ UNCHANGED <<mainVars, serveVars, events, sigs, endpoint, restarts,
                 gpuAllocationCount, allocVars, signals, faults>>

KubeletListens ==
  /\ kubelet = "starting" /\ kubelet' = "up"
  /\ events' = IF Running THEN events + 1 ELSE events
  /\ UNCHANGED <<mainVars, serveVars, sigs, sock, endpoint, restarts,
                 gpuAllocationCount, allocVars, signals, faults>>

(* The kubelet connects to a registered plugin, once, and gets the devices  *)
(* from ListAndWatch.                                                       *)
KubeletDials ==
  /\ endpoint = "dialing"
  /\ endpoint' = CASE sock = "old" -> "old"
                   [] sock = "current" /\ goroutine = "serving" -> "current"
                   [] OTHER -> "none"
  /\ UNCHANGED <<mainVars, serveVars, events, sigs, sock, kubelet, restarts,
                 gpuAllocationCount, allocVars, signals, faults>>

(* signal.Notify drops a signal when the channel is full.                   *)
Signal(s) ==
  /\ Running /\ signals < MAX_SIGNALS /\ signals' = signals + 1
  /\ sigs' = IF sigs = <<>> THEN <<s>> ELSE sigs
  /\ UNCHANGED <<mainVars, serveVars, events, sock, kubeletVars,
                 gpuAllocationCount, allocVars, faults>>

-----------------------------------------------------------------------------
(* Allocation of virtual GPUs.                                              *)

InUse == UNION {c.devices : c \in containers}
Of(uuid, ids) == {id \in ids : UUID(id) = uuid}
Connected == Running /\ endpoint \in {"current", "old"}

(* Mutant: the counts are only added to.                                    *)
Unsynced(available) == gpuAllocationCount

(* The allocation counts, from the devices that are available.              *)
Synced(available) ==
  [uuid \in UUIDs |-> IF Of(uuid, available) = {} THEN gpuAllocationCount[uuid]
                      ELSE NvshareVirtualDevices - Cardinality(Of(uuid, available))]

(* Orders of the GPUs with devices, least loaded first.                     *)
Loads(count, available) ==
  LET gpus == {UUID(id) : id \in available}
  IN  {order \in Bijection(1 .. Cardinality(gpus), gpus) :
         \A i, j \in DOMAIN order : i < j => count[order[i]] <= count[order[j]]}

(* What may be preferred: a GPU gives devices when the ones before it have  *)
(* given all of theirs.                                                     *)
Preferred(count, available, size) ==
  {ids \in SUBSET available :
     /\ Cardinality(ids) = Min({size, Cardinality(available)})
     /\ \E order \in Loads(count, available) : \A i, j \in DOMAIN order :
          i < j /\ Of(order[j], ids) # {} => Of(order[i], available) \subseteq ids}

(* The kubelet admits a container and asks what to give it.                 *)
GetPreferredAllocation(size) ==
  /\ Connected /\ request = {} /\ Cardinality(containers) < MAX_CONTAINERS
  /\ LET available == getDevices \ InUse
         count == Synced(available)
     IN  /\ size <= Cardinality(available)
         /\ \E ids \in Preferred(count, available, size) :
              /\ request' = ids
              /\ gpuAllocationCount' =
                   [uuid \in UUIDs |-> count[uuid] + Cardinality(Of(uuid, ids))]
  /\ UNCHANGED <<mainVars, serveVars, events, sigs, sock, kubeletVars,
                 containers, signals, faults>>

(* Mutant: the GPUs of the plugin itself are passed on.                     *)
ResponseAll(ids) == [env |-> VisibleDevices, mounts |-> MountedUUIDs]

(* What Allocate answers: the GPUs of the devices, in the environment or as *)
(* mounts.                                                                  *)
Response(ids) ==
  LET uniqueUUIDs == {UUID(id) : id \in ids}
  IN  [env |-> IF nvidiaRuntimeUseMounts THEN NvidiaExposeMountDir ELSE uniqueUUIDs,
       mounts |-> IF nvidiaRuntimeUseMounts THEN uniqueUUIDs ELSE {}]

(* The GPUs that the container runtime then exposes to the container.       *)
Exposed(r) == IF r.env = NvidiaExposeMountDir THEN r.mounts ELSE r.env

Allocate ==
  /\ Connected /\ request # {} /\ \A id \in request : deviceExists(id)
  /\ containers' = containers \cup
       {[devices |-> request, gpus |-> Exposed(Response(request))]}
  /\ request' = {}
  /\ UNCHANGED <<mainVars, serveVars, events, sigs, sock, kubeletVars,
                 gpuAllocationCount, signals, faults>>

(* The admission fails between the two calls, or a container ends.          *)
AdmissionFails ==
  /\ request # {} /\ request' = {}
  /\ IF Connected THEN Fault ELSE UNCHANGED faults
  /\ UNCHANGED <<mainVars, serveVars, events, sigs, sock, kubeletVars,
                 gpuAllocationCount, containers, signals>>

ContainerEnds(c) ==
  /\ containers' = containers \ {c}
  /\ UNCHANGED <<mainVars, serveVars, events, sigs, sock, kubeletVars,
                 gpuAllocationCount, request, signals, faults>>

-----------------------------------------------------------------------------
Init ==
  /\ pc = IF Configured THEN "restart" ELSE "ended"
  /\ pluginStartError = FALSE /\ server = FALSE
  /\ goroutine = "none" /\ restartCount = 0
  /\ doomed = FALSE /\ orphan = FALSE
  /\ events = 0 /\ sigs = <<>> /\ sock = "none"
  /\ kubelet = "up" /\ endpoint = "none"
  /\ gpuAllocationCount = [uuid \in UUIDs |-> 0]
  /\ request = {} /\ containers = {}
  /\ restarts = 0 /\ signals = 0 /\ faults = 0

Select == SelectStartError \/ SelectEvent \/ SelectSignal
Main == Restart \/ Listen \/ DialSelf \/ Register \/ Select
Goroutine == GoServe \/ ServeFails \/ OrphanFails \/ Panic
Kubelet == KubeletStarts \/ KubeletListens \/ KubeletDials

Next ==
  \/ Main \/ Goroutine \/ Boot \/ Kubelet \/ KubeletStops
  \/ \E s \in {"SIGHUP", "SIGTERM"} : Signal(s)
  \/ \E size \in 1..MAX_SIZE : GetPreferredAllocation(size)
  \/ Allocate \/ AdmissionFails \/ \E c \in containers : ContainerEnds(c)

Spec == Init /\ [][Next]_vars

(* Goroutines run, but no accept has to fail; select is random, so that it  *)
(* takes every case that stays ready (it waits for the signal with strong   *)
(* fairness, as main leaves the loop in between).  The kubelet comes back   *)
(* and the container restarts.                                              *)
GoroutineRuns == GoServe \/ (goroutine = "retry" /\ ServeFails) \/ Panic

FairSpec ==
  /\ Spec /\ WF_vars(Main) /\ WF_vars(GoroutineRuns) /\ WF_vars(Boot)
  /\ WF_vars(Kubelet) /\ SF_vars(SelectSignal)

-----------------------------------------------------------------------------
(* When main waits with nothing to read, the kubelet knows of the plugin    *)
(* and the socket it is to connect to (or is connected to) is there: every  *)
(* order of kubelet restarts, which remove the socket, signals and failed   *)
(* starts leaves the plugin something to restart for.  Excepted is the      *)
(* moment before a panic, which ends the process.                           *)
IdleServed ==
  /\ pc = "events" /\ ~pluginStartError /\ events = 0 /\ ~doomed
  /\ kubelet = "up" /\ goroutine = "serving"
  => sock = "current" /\ endpoint \in {"dialing", "current"}

(* However the kubelet, the server and the calls failed, once they have     *)
(* stopped failing the kubelet stays connected to the current server.       *)
EventuallyServed == <>[](endpoint = "current")

(* A SIGTERM that got into the channel ends the plugin, also while it       *)
(* restarts over and over because the kubelet is away.                      *)
TermEnds == sigs = <<"SIGTERM">> ~> ~Running

(* The devices preferred are never of a GPU with more devices in use than   *)
(* one that has devices left, although counts are kept from earlier calls   *)
(* whose allocation may have failed or ended.                               *)
LeastLoadedFirst ==
  [][\A g, h \in UUIDs :
       /\ request' # request
       /\ Of(g, request') # {} /\ Of(h, getDevices) \ (InUse \cup request') # {}
       => Cardinality(Of(g, InUse)) <= Cardinality(Of(h, InUse))]_vars

(* No GPU is visible in more containers than it has virtual devices in use: *)
(* a container sees the GPUs of its devices and no other, whether they are  *)
(* exposed by the environment or by mounts.                                 *)
SharersBounded ==
  \A g \in UUIDs :
    Cardinality({c \in containers : g \in c.gpus}) <= Cardinality(Of(g, InUse))

=============================================================================
