------------------------------- MODULE Watcher -------------------------------
(***************************************************************************)
(* Limits from pod annotations, end to end: a user edits the annotations,  *)
(* the scheduler reads them when a client registers (main thread, with the *)
(* mutex) and every five seconds (annotation watcher, without it), sends   *)
(* the limits to the client, and libnvshare enforces them (HookMemory).    *)
(***************************************************************************)
EXTENDS HookMemory

CONSTANTS
  Pods,
  PodOf,          \* the pod of each client
  MemTexts,       \* texts users write as gpu-memory-limit, by pod
  CoreTexts,      \* values users write as gpu-core-limit, by pod
  Manifests,      \* the annotations that each pod is created with
  GarbagePods,    \* what malloc may leave in pod_name of a client's new record
  GarbageLimits,  \* in memory_limit
  GarbageCores,   \* and in core_limit
  SOCK_BUF,       \* messages that a socket buffer holds
  MAX_EDITS,      \* bound on annotation changes
  MAX_FAILURES    \* bound on failing queries

VARIABLES
  annotations,    \* annotations of the pods
  applied,        \* their last-applied-configuration annotation
  edits, failures,
  proc,           \* client processes: "new", "registering", "up", "dead", "closed"
  client_core_limit, \* in the client library
  toClient,       \* messages on their way to the clients
  clients,        \* the scheduler's list of client records
  rec,            \* and the records; told and lost are history variables
  registering,    \* main is in register_client of this client, with the mutex
  pc, snapshot,   \* annotation_watcher_fn
  mem_limit_str, core_limit_str \* the results of its queries

podVars == <<annotations, applied, edits>>
libVars == <<proc, client_core_limit, hook>>
watchVars == <<pc, snapshot, mem_limit_str, core_limit_str>>
mainVars == <<clients, rec, registering>>
vars == <<podVars, failures, libVars, toClient, mainVars, watchVars>>

UNREGISTERED == "unregistered" \* NVSHARE_UNREGISTERED_ID

ASSUME WatcherAssumption ==
  /\ NULL \notin Clients /\ UNREGISTERED \notin Clients
  /\ PodOf \in [Clients -> Pods] /\ DOMAIN Manifests = Pods
  /\ \A p \in Pods : Manifests[p] \in [mem : MemTexts[p] \cup {NULL},
                                        core : CoreTexts[p] \cup {NULL}]

-----------------------------------------------------------------------------
(* Kubernetes.                                                              *)

(* kubectl annotate: the user sets an annotation or removes it.             *)
Annotate(p) ==
  /\ edits < MAX_EDITS /\ edits' = edits + 1
  /\ \/ \E t \in MemTexts[p] \cup {NULL} :
          annotations' = [annotations EXCEPT ![p].mem = t]
     \/ \E v \in CoreTexts[p] \cup {NULL} :
          annotations' = [annotations EXCEPT ![p].core = v]
  /\ annotations' # annotations
  /\ UNCHANGED <<applied, failures, libVars, toClient, mainVars, watchVars>>

(* Where the key occurs in the JSON of the pod: escaped in the manifest     *)
(* that kubectl keeps, and as an annotation.                                *)
Response(p, key) ==
  LET occurrence(escaped, v) ==
        IF v = NULL THEN <<>> ELSE << [escaped |-> escaped, value |-> v] >>
  IN  occurrence(TRUE, applied[p][key]) \o occurrence(FALSE, annotations[p][key])

(* The value at the first occurrence that is not escaped.                   *)
extract_json_string(json) ==
  LET found == {k \in DOMAIN json : ~json[k].escaped}
  IN  IF found = {} THEN NULL ELSE json[Min(found)].value

(* A query returns the annotation, or nothing when there is no such pod,    *)
(* the token cannot be read, or curl fails or times out.                    *)
k8s_get_pod_annotation(p, key, str) ==
  \/ /\ str = IF p \in Pods THEN extract_json_string(Response(p, key)) ELSE NULL
     /\ UNCHANGED failures
  \/ str = NULL /\ failures < MAX_FAILURES /\ failures' = failures + 1

(* The scheduler's reading of a size: unknown suffixes mean 0.              *)
k8s_parse_memory_size(str) ==
  str.n * (CASE str.suffix = "Ki" -> KIBI
             [] str.suffix = ""   -> 1
             [] OTHER             -> 0)

ValidCore(str) == str # NULL /\ str \in 1..100

-----------------------------------------------------------------------------
(* The scheduler.                                                           *)

Id(c) == IF rec[c].registered THEN c ELSE UNREGISTERED

(* The messages to a client after send_message: none is added when the peer *)
(* is dead or has no room, and the callers below ignore that.               *)
send_message(c, q, type, v) ==
  IF proc[c] # "dead" /\ Len(q) < SOCK_BUF
  THEN Append(q, [type |-> type, value |-> v]) ELSE q

(* Record and messages [r, q] of a client after a new memory limit, and     *)
(* after a new compute limit.                                               *)
SetMemory(c, s, limit) ==
  LET q == send_message(c, s.q, "UPDATE_LIMIT", limit)
  IN  [q |-> q, r |-> [s.r EXCEPT !.memory_limit = limit, !.told = TRUE,
                                  !.lost = @ \/ q = s.q]]

SetCore(c, s, limit) ==
  LET q == send_message(c, s.q, "UPDATE_CORE_LIMIT", limit)
  IN  [q |-> q, r |-> [s.r EXCEPT !.core_limit = limit,
                                  !.lost = @ \/ q = s.q]]

Client(c) == [r |-> rec[c], q |-> toClient[c]]

Becomes(c, s) ==
  /\ rec' = [rec EXCEPT ![c] = s.r]
  /\ toClient' = [toClient EXCEPT ![c] = s.q]

MutexFree == registering = NULL

(* main: a new connection.  malloc leaves most of the record unassigned.    *)
Accept(c) ==
  /\ MutexFree /\ proc[c] \notin {"new", "closed"} /\ c \notin Range(clients)
  /\ clients' = Append(clients, c)
  /\ \E pod \in GarbagePods[c], limit \in GarbageLimits, core \in GarbageCores :
       rec' = [rec EXCEPT ![c] =
         [registered |-> FALSE, pod |-> pod, memory_limit |-> limit,
          core_limit |-> core, told |-> FALSE, lost |-> FALSE]]
  /\ UNCHANGED <<podVars, failures, libVars, toClient, registering, watchVars>>

(* The connection is closed and the record freed.  (The process is dead, or *)
(* ends when it finds the connection closed.)                               *)
Forget(c) ==
  /\ clients' = RemoveAt(clients, CHOOSE k \in DOMAIN clients : clients[k] = c)
  /\ rec' = [rec EXCEPT ![c] = NULL]
  /\ proc' = [proc EXCEPT ![c] = "closed"]

(* Mutant: the status is sent before the compute limit is read.             *)
RegisterUnread(c) ==
  /\ MutexFree /\ c \in Range(clients) /\ proc[c] \in {"registering", "dead"}
  /\ ~rec[c].registered
  /\ \E str \in CoreTexts[PodOf[c]] \cup {NULL} :
       /\ k8s_get_pod_annotation(PodOf[c], "core", str)
       /\ LET core == IF ValidCore(str) THEN str ELSE 100
              q == send_message(c, toClient[c], "SCHED_ON", 100)
          IN  IF q = toClient[c] THEN Forget(c) /\ UNCHANGED <<toClient, registering>>
              ELSE /\ Becomes(c, [q |-> q, r |->
                        [rec[c] EXCEPT !.registered = TRUE, !.pod = PodOf[c],
                                       !.core_limit = core]])
                   /\ registering' = c /\ UNCHANGED <<proc, clients>>
  /\ UNCHANGED <<podVars, client_core_limit, hook, watchVars>>

(* main: REGISTER, up to the initial status with the compute limit.  If the *)
(* status cannot be sent, the client is deleted.                            *)
RegisterCore(c) ==
  /\ MutexFree /\ c \in Range(clients) /\ proc[c] \in {"registering", "dead"}
  /\ ~rec[c].registered
  /\ \E str \in CoreTexts[PodOf[c]] \cup {NULL} :
       /\ k8s_get_pod_annotation(PodOf[c], "core", str)
       /\ LET core == IF ValidCore(str) THEN str ELSE 100
              q == send_message(c, toClient[c], "SCHED_ON", core)
          IN  IF q = toClient[c] THEN Forget(c) /\ UNCHANGED <<toClient, registering>>
              ELSE /\ Becomes(c, [q |-> q, r |->
                        [rec[c] EXCEPT !.registered = TRUE, !.pod = PodOf[c],
                                       !.core_limit = core]])
                   /\ registering' = c /\ UNCHANGED <<proc, clients>>
  /\ UNCHANGED <<podVars, client_core_limit, hook, watchVars>>

(* main: the rest of register_client, the memory limit.                     *)
RegisterMemory ==
  /\ registering # NULL /\ registering' = NULL
  /\ LET c == registering
     IN  \E str \in MemTexts[PodOf[c]] \cup {NULL} :
           /\ k8s_get_pod_annotation(PodOf[c], "mem", str)
           /\ LET limit == IF str = NULL THEN 0 ELSE k8s_parse_memory_size(str)
              IN  IF limit > 0 THEN Becomes(c, SetMemory(c, Client(c), limit))
                  ELSE UNCHANGED <<rec, toClient>>
  /\ UNCHANGED <<podVars, libVars, clients, watchVars>>

(* main: the connection of a client that has died is closed.                *)
delete_client(c) ==
  /\ MutexFree /\ c \in Range(clients) /\ proc[c] = "dead"
  /\ Forget(c)
  /\ UNCHANGED <<podVars, failures, client_core_limit, hook, toClient,
                 registering, watchVars>>

(* Watcher: copy id and pod of every client with pod information.           *)
Snapshot ==
  /\ pc = "sleep" /\ MutexFree /\ pc' = "mem"
  /\ LET named == {k \in DOMAIN clients : rec[clients[k]].pod # NULL}
     IN  \E n \in 0 .. Len(clients) : \E at \in [1 .. n -> named] :
           /\ Range(at) = named /\ \A i, j \in 1 .. n : i < j => at[i] < at[j]
           /\ snapshot' = [i \in DOMAIN at |-> [id |-> Id(clients[at[i]]),
                                               pod |-> rec[clients[at[i]]].pod]]
  /\ UNCHANGED <<podVars, failures, libVars, toClient, mainVars, mem_limit_str,
                 core_limit_str>>

(* Watcher: the first query for the head of the snapshot, without the lock. *)
QueryMemory ==
  /\ pc = "mem" /\ snapshot # <<>> /\ pc' = "core"
  /\ k8s_get_pod_annotation(Head(snapshot).pod, "mem", mem_limit_str')
  /\ UNCHANGED <<podVars, libVars, toClient, mainVars, snapshot,
                 core_limit_str>>

Sleep ==
  /\ pc = "mem" /\ snapshot = <<>> /\ pc' = "sleep"
  /\ UNCHANGED <<podVars, failures, libVars, toClient, mainVars, snapshot,
                 mem_limit_str, core_limit_str>>

(* Watcher: the second query.                                               *)
QueryCore ==
  /\ pc = "core" /\ pc' = "apply"
  /\ k8s_get_pod_annotation(Head(snapshot).pod, "core", core_limit_str')
  /\ UNCHANGED <<podVars, libVars, toClient, mainVars, snapshot, mem_limit_str>>

(* Mutant: a missing annotation leaves the compute limit too.               *)
UpdatedIfPresent(c) ==
  LET mem == IF mem_limit_str = NULL THEN 0
             ELSE k8s_parse_memory_size(mem_limit_str)
      s == IF mem > 0 /\ mem # rec[c].memory_limit
           THEN SetMemory(c, Client(c), mem) ELSE Client(c)
  IN  IF ValidCore(core_limit_str) /\ core_limit_str # rec[c].core_limit
      THEN SetCore(c, s, core_limit_str) ELSE s

(* A client after the limits that were read: an annotation that is missing  *)
(* or cannot be read leaves the memory limit and means a compute limit of   *)
(* 100.                                                                     *)
Updated(c) ==
  LET mem == IF mem_limit_str = NULL THEN 0
             ELSE k8s_parse_memory_size(mem_limit_str)
      core == IF ValidCore(core_limit_str) THEN core_limit_str ELSE 100
      s == IF mem > 0 /\ mem # rec[c].memory_limit
           THEN SetMemory(c, Client(c), mem) ELSE Client(c)
  IN  IF core # rec[c].core_limit THEN SetCore(c, s, core) ELSE s

(* Mutant: the client is found by its place, not by its id.                 *)
UpdateByPlace ==
  /\ pc = "apply" /\ MutexFree /\ pc' = "mem"
  /\ IF clients = <<>> THEN UNCHANGED <<rec, toClient>>
     ELSE Becomes(Head(clients), Updated(Head(clients)))
  /\ snapshot' = Tail(snapshot)
  /\ mem_limit_str' = NULL /\ core_limit_str' = NULL
  /\ UNCHANGED <<podVars, failures, libVars, clients, registering>>

(* Watcher: with the lock again, update the first client with the id of the *)
(* snapshot entry, if it is still there.                                    *)
Update ==
  /\ pc = "apply" /\ MutexFree /\ pc' = "mem"
  /\ LET found == {k \in DOMAIN clients : Id(clients[k]) = Head(snapshot).id}
     IN  IF found = {} THEN UNCHANGED <<rec, toClient>>
         ELSE \E k \in found : /\ \A j \in found : k <= j
                               /\ Becomes(clients[k], Updated(clients[k]))
  /\ snapshot' = Tail(snapshot)
  /\ mem_limit_str' = NULL /\ core_limit_str' = NULL
  /\ UNCHANGED <<podVars, failures, libVars, clients, registering>>

-----------------------------------------------------------------------------
(* The clients.                                                             *)

(* A process starts libnvshare, connects and sends REGISTER.                *)
Start(c) ==
  /\ proc[c] = "new" /\ proc' = [proc EXCEPT ![c] = "registering"]
  /\ UNCHANGED <<podVars, failures, client_core_limit, hook, toClient,
                 mainVars, watchVars>>

(* A process ends, with its memory and the messages it has not read.        *)
Ends(c) ==
  /\ proc' = [proc EXCEPT ![c] = "dead"]
  /\ toClient' = [toClient EXCEPT ![c] = <<>>]
  /\ client_core_limit' = [client_core_limit EXCEPT ![c] = 100]
  /\ hook' = [hook EXCEPT ![c] = Loaded(NULL)]

Die(c) ==
  /\ proc[c] \in {"registering", "up"}
  /\ Ends(c)
  /\ UNCHANGED <<podVars, failures, mainVars, watchVars>>

(* The client thread reads a message.  The first one must be the status,    *)
(* which lets the application go on; with another the process ends.         *)
Receive(c) ==
  /\ proc[c] \in {"registering", "up"} /\ toClient[c] # <<>>
  /\ LET msg == Head(toClient[c])
     IN  IF proc[c] = "registering" /\ msg.type # "SCHED_ON" THEN Ends(c)
         ELSE /\ proc' = [proc EXCEPT ![c] = "up"]
              /\ toClient' = [toClient EXCEPT ![c] = Tail(@)]
              /\ IF msg.type = "UPDATE_LIMIT"
                 THEN /\ hook' = update_memory_limit(c, msg.value)
                      /\ UNCHANGED client_core_limit
                 ELSE /\ client_core_limit' =
                           [client_core_limit EXCEPT ![c] = msg.value]
                      /\ UNCHANGED hook
  /\ UNCHANGED <<podVars, failures, mainVars, watchVars>>

Application(c) ==
  /\ proc[c] = "up" /\ MemoryCall(c)
  /\ UNCHANGED <<podVars, failures, proc, client_core_limit, toClient,
                 mainVars, watchVars>>

-----------------------------------------------------------------------------
Init ==
  /\ HookInit
  /\ annotations = Manifests /\ applied = annotations
  /\ edits = 0 /\ failures = 0
  /\ proc = [c \in Clients |-> "new"]
  /\ client_core_limit = [c \in Clients |-> 100]
  /\ toClient = [c \in Clients |-> <<>>]
  /\ clients = <<>> /\ rec = [c \in Clients |-> NULL] /\ registering = NULL
  /\ pc = "sleep" /\ snapshot = <<>>
  /\ mem_limit_str = NULL /\ core_limit_str = NULL

Main ==
  \/ \E c \in Clients : Accept(c) \/ RegisterCore(c) \/ delete_client(c)
  \/ RegisterMemory

annotation_watcher_fn == Snapshot \/ QueryMemory \/ Sleep \/ QueryCore \/ Update

Next ==
  \/ Main \/ annotation_watcher_fn
  \/ \E p \in Pods : Annotate(p)
  \/ \E c \in Clients : Start(c) \/ Die(c) \/ Receive(c) \/ Application(c)

Spec == Init /\ [][Next]_vars

(* The watcher and the client threads keep running, and main ends what it   *)
(* began with the mutex; users, applications and the API server owe nothing. *)
FairSpec ==
  /\ Spec /\ WF_vars(RegisterMemory) /\ WF_vars(annotation_watcher_fn)
  /\ \A c \in Clients : WF_vars(Receive(c))

-----------------------------------------------------------------------------
(* What a client that lives will have once it has read its messages.        *)
LastOf(c, types, now) ==
  LET msgs == SelectSeq(toClient[c], LAMBDA m : m.type \in types)
  IN  IF msgs = <<>> THEN now ELSE msgs[Len(msgs)].value

Served(c) == c \in Range(clients) /\ proc[c] # "dead" /\ rec[c].registered

(* The limits that the scheduler schedules and bills by are the ones that   *)
(* the client has or is about to read: registration, several rounds of the  *)
(* watcher and the client's reads overlap in any way.  Excepted are a       *)
(* client to which a message was lost (the sends of the watcher are not     *)
(* repeated), and a memory limit that malloc left in the record.            *)
LimitsAgree ==
  \A c \in Clients : Served(c) /\ ~rec[c].lost =>
    /\ LastOf(c, {"SCHED_ON", "UPDATE_CORE_LIMIT"}, client_core_limit[c])
         = rec[c].core_limit
    /\ rec[c].told => LastOf(c, {"UPDATE_LIMIT"}, hook[c].memory_limit)
                        = rec[c].memory_limit

(* A client that runs has only limits of its own pod, although the watcher  *)
(* uses an id and a pod name that it copied before the queries: the client  *)
(* may be gone, and others may have come, when the answer is applied.       *)
OwnPod ==
  \A c \in Clients : proc[c] = "up" =>
    /\ client_core_limit[c] \in CoreTexts[PodOf[c]] \cup {100}
    /\ hook[c].memory_limit
         \in {k8s_parse_memory_size(t) : t \in MemTexts[PodOf[c]]}
            \cup {Loaded(env).memory_limit : env \in EnvLimits}

(* What the annotations of a pod ask for.                                   *)
WantedCore(p) ==
  IF ValidCore(annotations[p].core) THEN annotations[p].core ELSE 100
WantedMemory(p) ==
  IF annotations[p].mem = NULL THEN 0
  ELSE k8s_parse_memory_size(annotations[p].mem)

(* Once users have stopped editing and queries have stopped failing, every  *)
(* client gets the compute limit of its pod, a default after a failed query *)
(* or a removed annotation included.                                        *)
CoreFollows ==
  <>[](\A c \in Clients : Served(c) /\ ~rec[c].lost =>
                             client_core_limit[c] = WantedCore(PodOf[c]))

(* And from then on no application comes to have more memory than its pod   *)
(* is annotated with, be it by one allocation or by adding to what it got   *)
(* under another limit.  Excepted are a client to which a message was lost, *)
(* and one that is never told a limit, because malloc left the annotated    *)
(* value in its record and the query at registration failed: the watcher    *)
(* then finds nothing to change.                                            *)
MemoryEnforced ==
  <>[][\A c \in Clients :
         /\ hook'[c].sum_allocated > hook[c].sum_allocated
         /\ Served(c) /\ rec[c].told /\ ~rec[c].lost /\ WantedMemory(PodOf[c]) > 0
         => hook'[c].sum_allocated <= WantedMemory(PodOf[c])]_vars

=============================================================================
