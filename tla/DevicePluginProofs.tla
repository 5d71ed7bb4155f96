------------------------- MODULE DevicePluginProofs -------------------------
(***************************************************************************)
(* Theorems about DevicePlugin, for any number of GPUs and virtual GPUs,   *)
(* of containers, of kubelet restarts, signals and failing calls.          *)
(***************************************************************************)
EXTENDS DevicePlugin, TLAPS, FiniteSetTheorems

-----------------------------------------------------------------------------
(* Registration.                                                            *)

(* Start has got as far as Register, or has succeeded.                      *)
Started == pc = "register" \/ (pc = "events" /\ ~pluginStartError)

(* IdleServed in a form that every step keeps: it holds from the connection *)
(* to the own socket on, and only a restart brings back a goroutine that    *)
(* has stopped serving.                                                     *)
ServedInv ==
  /\ events \in Nat
  /\ pluginStartError \in BOOLEAN
  /\ Started => goroutine \in {"serving", "retry"}
  /\ Started /\ kubelet = "up" /\ events = 0 /\ goroutine = "serving" /\ ~doomed
     => sock = "current" /\ (pc = "events" => endpoint \in {"dialing", "current"})

LEMMA ServedMain ==
  ASSUME ServedInv, Main
  PROVE  ServedInv'
<1> USE DEF ServedInv, Started
<1>1. CASE Restart  BY Zenon, <1>1 DEF Restart
<1>2. CASE Listen  BY Zenon, <1>2 DEF Listen, StartFails
<1>3. CASE DialSelf  BY Zenon, <1>3 DEF DialSelf, StartFails, kubeletVars, serveVars
<1>4. CASE Register  BY Zenon, <1>4 DEF Register, StartFails, serveVars
<1>5. CASE Select
  BY <1>5 DEF Select, SelectStartError, SelectEvent, SelectSignal, Ends
<1> QED BY <1>1, <1>2, <1>3, <1>4, <1>5 DEF Main

LEMMA ServedOthers ==
  ASSUME ServedInv, Goroutine \/ Boot \/ Kubelet \/ KubeletStops
  PROVE  ServedInv'
<1> USE DEF ServedInv, Started
<1>1. CASE GoServe  BY <1>1 DEF GoServe, mainVars, kubeletVars
<1>2. CASE ServeFails  BY <1>2 DEF ServeFails, Ends
<1>3. CASE Panic  BY <1>3 DEF Panic, Ends
<1>9. CASE OrphanFails  BY <1>9 DEF OrphanFails, mainVars, kubeletVars
<1>4. CASE Boot  BY Zenon, <1>4 DEF Boot
<1>5. CASE KubeletStops  BY <1>5 DEF KubeletStops, mainVars, serveVars
<1>6. CASE KubeletStarts  BY <1>6 DEF KubeletStarts, mainVars, serveVars
<1>7. CASE KubeletListens  BY <1>7 DEF KubeletListens, Running, mainVars, serveVars
<1>8. CASE KubeletDials  BY <1>8 DEF KubeletDials, mainVars, serveVars
<1> QED
  BY <1>1, <1>2, <1>3, <1>4, <1>5, <1>6, <1>7, <1>8, <1>9 DEF Goroutine, Kubelet

(* Whatever the order of kubelet restarts, signals, failed calls and failed *)
(* accepts: a plugin that waits without an event to read is known to the    *)
(* kubelet, and its socket is there.                                        *)
THEOREM IdleCorrect == Spec => []IdleServed
<1>1. Init => ServedInv
  <2> SUFFICES ASSUME Init  PROVE ServedInv
    OBVIOUS
  <2>1. pc \in {"restart", "ended"} /\ events = 0 /\ pluginStartError = FALSE
    BY DEF Init
  <2> QED BY Zenon, <2>1 DEF ServedInv, Started
<1>2. ServedInv /\ [Next]_vars => ServedInv'
  <2> SUFFICES ASSUME ServedInv, [Next]_vars  PROVE ServedInv'
    OBVIOUS
  <2>1. CASE UNCHANGED <<mainVars, serveVars, events, sock, kubeletVars>>
    BY <2>1 DEF mainVars, serveVars, kubeletVars, ServedInv, Started
  <2>2. ASSUME NEW s, Signal(s)  PROVE ServedInv'
    BY <2>1, <2>2 DEF Signal
  <2>3. ASSUME NEW size, GetPreferredAllocation(size)  PROVE ServedInv'
    BY <2>1, <2>3 DEF GetPreferredAllocation
  <2>4. CASE Allocate \/ AdmissionFails
    BY <2>1, <2>4 DEF Allocate, AdmissionFails
  <2>5. ASSUME NEW c, ContainerEnds(c)  PROVE ServedInv'
    BY <2>1, <2>5 DEF ContainerEnds
  <2>6. CASE UNCHANGED vars  BY <2>1, <2>6 DEF vars
  <2> QED
    BY <2>2, <2>3, <2>4, <2>5, <2>6, ServedMain, ServedOthers DEF Next
<1>3. ServedInv => IdleServed
  BY DEF ServedInv, Started, IdleServed
<1> QED BY <1>1, <1>2, <1>3, PTL DEF Spec

-----------------------------------------------------------------------------
(* Allocation.                                                              *)

(* The virtual GPUs in use and the ones asked for: no virtual GPU is in two *)
(* containers, and a container sees the GPUs of its devices.                *)
AllocInv ==
  /\ request \subseteq getDevices \ InUse
  /\ containers \subseteq {[devices |-> ids, gpus |-> {UUID(id) : id \in ids}] :
                            ids \in SUBSET getDevices}
  /\ \A c, d \in containers : c.devices \cap d.devices # {} => c = d

(* A GPU has NvshareVirtualDevices virtual GPUs.                            *)
LEMMA DevicesOf ==
  ASSUME NEW g \in UUIDs
  PROVE  /\ IsFiniteSet(Of(g, getDevices))
         /\ Cardinality(Of(g, getDevices)) = NvshareVirtualDevices
<1> DEFINE N == NvshareVirtualDevices
           f == [j \in 1..N |-> <<g, j>>]
<1>1. N \in Nat  BY PluginAssumption
<1>2. Of(g, getDevices) = {<<g, j>> : j \in 1..N}
  BY DEF Of, getDevices, generateDeviceID, UUID
<1>3. f \in Bijection(1..N, Of(g, getDevices))
  BY <1>2 DEF Bijection, Injection, Surjection, IsInjective
<1>4. ExistsBijection(1..N, Of(g, getDevices))
  BY <1>3 DEF ExistsBijection
<1>5. IsFiniteSet(1..N) /\ Cardinality(1..N) = N
  BY <1>1, FS_Interval
<1> QED BY <1>4, <1>5, FS_Bijection

(* What is in use and what is not make up all of them.                      *)
LEMMA InUseOf ==
  ASSUME AllocInv, NEW g \in UUIDs
  PROVE  /\ IsFiniteSet(Of(g, InUse)) /\ Cardinality(Of(g, InUse)) \in Nat
         /\ IsFiniteSet(Of(g, getDevices \ InUse))
         /\ Cardinality(Of(g, getDevices \ InUse))
              = NvshareVirtualDevices - Cardinality(Of(g, InUse))
<1> DEFINE A == Of(g, InUse)  B == Of(g, getDevices \ InUse)
<1>1. InUse \subseteq getDevices  BY DEF AllocInv, InUse
<1>2. A \cup B = Of(g, getDevices) /\ A \cap B = {}  BY <1>1 DEF Of
<1>3. IsFiniteSet(A) /\ IsFiniteSet(B)  BY Zenon, <1>2, DevicesOf, FS_Subset
<1>4. Cardinality(A) \in Nat /\ Cardinality(B) \in Nat
  BY <1>3, FS_CardinalityType
<1>5. Cardinality(Of(g, getDevices)) = NvshareVirtualDevices  BY DevicesOf
<1> HIDE DEF A, B
<1>6. Cardinality(A) + Cardinality(B) = NvshareVirtualDevices
  <2>1. Cardinality(A \cup B)
          = Cardinality(A) + Cardinality(B) - Cardinality(A \cap B)
    BY <1>3, FS_Union
  <2>2. Cardinality(A \cap B) = 0  BY <1>2, FS_EmptySet
  <2>3. Cardinality(A \cup B) = NvshareVirtualDevices  BY <1>2, <1>5
  <2> QED BY <1>4, <2>1, <2>2, <2>3
<1>7. Cardinality(B) = NvshareVirtualDevices - Cardinality(A)
  BY <1>4, <1>6
<1> QED BY <1>3, <1>4, <1>7 DEF A, B

(* Response and the container runtime: the GPUs of the devices.             *)
LEMMA ExposedGPUs ==
  ASSUME NEW ids \in SUBSET getDevices
  PROVE  Exposed(Response(ids)) = {UUID(id) : id \in ids}
<1>1. {UUID(id) : id \in ids} \in SUBSET UUIDs
  BY DEF getDevices, generateDeviceID, UUID
<1>2. CASE nvidiaRuntimeUseMounts  BY <1>2 DEF Exposed, Response
<1>3. CASE ~nvidiaRuntimeUseMounts
  <2>1. {UUID(id) : id \in ids} # NvidiaExposeMountDir
    BY <1>1, <1>3, PluginAssumption
  <2> QED BY <1>3, <2>1 DEF Exposed, Response
<1> QED BY <1>2, <1>3

LEMMA AllocStep ==
  ASSUME AllocInv, [Next]_vars
  PROVE  AllocInv'
<1>1. CASE UNCHANGED <<request, containers>>
  BY <1>1 DEF AllocInv, InUse
<1>2. CASE request' = {} /\ UNCHANGED containers
  BY <1>2 DEF AllocInv, InUse
<1>3. ASSUME NEW size, GetPreferredAllocation(size)  PROVE AllocInv'
  <2>1. UNCHANGED containers /\ request' \subseteq getDevices \ InUse
    BY <1>3 DEF GetPreferredAllocation, Preferred
  <2> QED BY <2>1 DEF AllocInv, InUse
<1>4. CASE Allocate
  <2> DEFINE new == [devices |-> request, gpus |-> {UUID(id) : id \in request}]
  <2>1. request \subseteq getDevices \ InUse  BY DEF AllocInv
  <2>2. containers' = containers \cup {new} /\ request' = {}
    BY <1>4, <2>1, ExposedGPUs DEF Allocate
  <2>3. \A c \in containers : c.devices \cap new.devices = {}
    BY <2>1 DEF InUse
  <2>4. new.devices = request  OBVIOUS
  <2>5. new \in {[devices |-> ids, gpus |-> {UUID(id) : id \in ids}] :
                   ids \in SUBSET getDevices}
    BY Zenon, <2>1
  <2> HIDE DEF new
  <2> QED BY <2>2, <2>3, <2>5 DEF AllocInv
<1>5. ASSUME NEW c, ContainerEnds(c)  PROVE AllocInv'
  <2>1. containers' \subseteq containers /\ UNCHANGED request
    BY <1>5 DEF ContainerEnds
  <2> QED BY <2>1 DEF AllocInv, InUse
<1>6. CASE Main
  BY <1>1, <1>6 DEF Main, Restart, Listen, DialSelf, Register, Select,
     SelectStartError, SelectEvent, SelectSignal, allocVars
<1>7. CASE Goroutine \/ Boot \/ Kubelet
  BY <1>1, <1>7 DEF Goroutine, GoServe, ServeFails, OrphanFails, Panic, Boot,
     Kubelet, KubeletStarts, KubeletListens, KubeletDials, allocVars
<1>8. CASE KubeletStops \/ AdmissionFails
  BY <1>2, <1>8 DEF KubeletStops, AdmissionFails
<1>9. ASSUME NEW s, Signal(s)  PROVE AllocInv'
  BY <1>1, <1>9 DEF Signal, allocVars
<1>10. CASE UNCHANGED vars  BY <1>1, <1>10 DEF vars, allocVars
<1> QED
  BY <1>3, <1>4, <1>5, <1>6, <1>7, <1>8, <1>9, <1>10 DEF Next

LEMMA AllocInvariant == Spec => []AllocInv
<1>1. Init => AllocInv  BY DEF Init, AllocInv, InUse
<1> QED BY <1>1, AllocStep, PTL DEF Spec

(* Each container that sees a GPU has a virtual GPU of it that no other has *)
(* in use, so the containers that share a GPU are at most its virtual GPUs  *)
(* in use.                                                                  *)
THEOREM SharersCorrect == Spec => []SharersBounded
<1>1. AllocInv => SharersBounded
  <2> SUFFICES ASSUME AllocInv, NEW g \in UUIDs
               PROVE  Cardinality({c \in containers : g \in c.gpus})
                        <= Cardinality(Of(g, InUse))
    BY DEF SharersBounded
  <2> DEFINE S == {c \in containers : g \in c.gpus}
             T == Of(g, InUse)
             f == [c \in S |-> CHOOSE id \in c.devices : UUID(id) = g]
  <2>1. ASSUME NEW c \in S  PROVE f[c] \in c.devices /\ UUID(f[c]) = g
    <3>1. \E id \in c.devices : UUID(id) = g  BY DEF AllocInv
    <3> QED BY <3>1
  <2>2. f \in [S -> T]  BY Zenon, <2>1 DEF Of, InUse
  <2>3. ASSUME NEW c \in S, NEW d \in S, f[c] = f[d]  PROVE c = d
    BY <2>1, <2>3 DEF AllocInv
  <2>4. IsFiniteSet(T)  BY InUseOf
  <2> HIDE DEF f, T
  <2>5. f \in Injection(S, T)  BY <2>2, <2>3 DEF Injection, IsInjective
  <2>6. Cardinality(S) <= Cardinality(T)  BY <2>4, <2>5, FS_Injection
  <2> QED BY <2>6 DEF T
<1> QED BY <1>1, AllocInvariant, PTL

(* What GetPreferredAllocation picks: a GPU gives devices only when every   *)
(* GPU that has fewer in use has given all of its own.                      *)
LEMMA PreferredLeastLoaded ==
  ASSUME AllocInv, NEW size, NEW g \in UUIDs, NEW h \in UUIDs,
         NEW ids \in Preferred(Synced(getDevices \ InUse), getDevices \ InUse, size),
         Of(g, ids) # {}, Of(h, getDevices \ InUse) \ ids # {}
  PROVE  Cardinality(Of(g, InUse)) <= Cardinality(Of(h, InUse))
<1> DEFINE available == getDevices \ InUse
           count == Synced(available)
           S == {UUID(id) : id \in available}
<1>1. ids \subseteq available  BY DEF Preferred
<1>2. Of(g, available) # {} /\ Of(h, available) # {}  BY <1>1 DEF Of
<1>3. g \in S /\ h \in S  BY <1>2 DEF Of
<1>5. PICK order \in Loads(count, available) : \A a, b \in DOMAIN order :
        a < b /\ Of(order[b], ids) # {} => Of(order[a], available) \subseteq ids
  BY Zenon DEF Preferred
<1>6. /\ DOMAIN order \subseteq Int /\ \A k \in S : \E a \in DOMAIN order : order[a] = k
      /\ \A a, b \in DOMAIN order : a < b => count[order[a]] <= count[order[b]]
  <2>1. /\ order \in Bijection(1 .. Cardinality(S), S)
        /\ \A a, b \in DOMAIN order : a < b => count[order[a]] <= count[order[b]]
    BY <1>5, Zenon DEF Loads
  <2> HIDE DEF S, count
  <2>2. order \in [1 .. Cardinality(S) -> S] /\ order \in Surjection(1 .. Cardinality(S), S)
    BY <2>1, Zenon DEF Bijection, Injection
  <2>3. DOMAIN order \subseteq Int  BY <2>2
  <2>4. \A k \in S : \E a \in DOMAIN order : order[a] = k  BY <2>2 DEF Surjection
  <2> QED BY <2>1, <2>3, <2>4
<1>7. PICK a \in DOMAIN order : order[a] = g  BY <1>3, <1>6
<1>8. PICK b \in DOMAIN order : order[b] = h  BY <1>3, <1>6
<1>9. ~(b < a)
  BY <1>5, <1>7, <1>8 DEF Of
<1>10. a < b \/ g = h  BY <1>6, <1>7, <1>8, <1>9
<1>11. CASE g = h  BY <1>11, InUseOf
<1>12. CASE a < b
  <2>1. count[g] <= count[h]  BY <1>6, <1>7, <1>8, <1>12
  <2>2. /\ count[g] = NvshareVirtualDevices - Cardinality(Of(g, available))
        /\ count[h] = NvshareVirtualDevices - Cardinality(Of(h, available))
    BY <1>2 DEF Synced
  <2> HIDE DEF count
  <2>3. /\ Cardinality(Of(g, InUse)) \in Nat /\ Cardinality(Of(h, InUse)) \in Nat
        /\ Cardinality(Of(g, available))
             = NvshareVirtualDevices - Cardinality(Of(g, InUse))
        /\ Cardinality(Of(h, available))
             = NvshareVirtualDevices - Cardinality(Of(h, InUse))
    BY Zenon, InUseOf
  <2>4. NvshareVirtualDevices \in Nat  BY PluginAssumption
  <2> QED BY <2>1, <2>2, <2>3, <2>4
<1> QED BY <1>10, <1>11, <1>12

(* The devices that GetPreferredAllocation prefers are of the GPUs with the *)
(* fewest virtual GPUs in use, whatever earlier calls left in               *)
(* gpuAllocationCount.                                                      *)
THEOREM LeastLoadedCorrect == Spec => LeastLoadedFirst
<1> DEFINE P(g, h) ==
      /\ request' # request
      /\ Of(g, request') # {} /\ Of(h, getDevices) \ (InUse \cup request') # {}
      => Cardinality(Of(g, InUse)) <= Cardinality(Of(h, InUse))
<1>1. AllocInv /\ [Next]_vars => [\A g, h \in UUIDs : P(g, h)]_vars
  <2> SUFFICES ASSUME AllocInv, Next, NEW g \in UUIDs, NEW h \in UUIDs,
                      request' # request, Of(g, request') # {},
                      Of(h, getDevices) \ (InUse \cup request') # {}
               PROVE  Cardinality(Of(g, InUse)) <= Cardinality(Of(h, InUse))
    OBVIOUS
  <2>1. request' # {}  BY DEF Of
  <2>2. ~(Main \/ Goroutine \/ Boot \/ Kubelet)
    BY DEF Main, Restart, Listen, DialSelf, Register, Select, SelectStartError,
       SelectEvent, SelectSignal, Goroutine, GoServe, ServeFails, OrphanFails,
       Panic, Boot, Kubelet, KubeletStarts, KubeletListens, KubeletDials, allocVars
  <2>3. PICK size : GetPreferredAllocation(size)
    BY <2>1, <2>2 DEF Next, KubeletStops, Allocate, AdmissionFails, ContainerEnds,
       Signal, allocVars
  <2>4. request' \in Preferred(Synced(getDevices \ InUse), getDevices \ InUse, size)
    BY <2>3 DEF GetPreferredAllocation
  <2>5. Of(h, getDevices \ InUse) \ request' # {}  BY DEF Of
  <2> QED BY Zenon, <2>4, <2>5, PreferredLeastLoaded
<1> QED BY <1>1, AllocInvariant, PTL DEF Spec, LeastLoadedFirst

=============================================================================
