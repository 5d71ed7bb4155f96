---------------------------- MODULE WatcherProofs ----------------------------
(***************************************************************************)
(* A theorem about Watcher, for any number of clients and pods, any        *)
(* annotations, any contents of new records and any failing queries.       *)
(***************************************************************************)
EXTENDS Watcher, TLAPS, SequenceTheorems

-----------------------------------------------------------------------------
(* Values and messages.                                                     *)

AllMem == UNION {MemTexts[p] : p \in Pods}
AllCore == UNION {CoreTexts[p] : p \in Pods}
AllPods == Pods \cup UNION {GarbagePods[c] : c \in Clients}
Types == {"SCHED_ON", "UPDATE_LIMIT", "UPDATE_CORE_LIMIT"}
Values == AllCore \cup {100} \cup {k8s_parse_memory_size(t) : t \in AllMem}
Msgs == [type : Types, value : Values]

(* The limits that the pod of c may ask for.                                *)
OwnCore(c) == CoreTexts[PodOf[c]] \cup {100}
OwnMem(c) == {k8s_parse_memory_size(t) : t \in MemTexts[PodOf[c]]}

(* Messages that carry such limits; and messages that end a process which   *)
(* has not read its first status, because another message comes first.      *)
Own(c, m) == \/ m.type \in {"SCHED_ON", "UPDATE_CORE_LIMIT"} /\ m.value \in OwnCore(c)
             \/ m.type = "UPDATE_LIMIT" /\ m.value \in OwnMem(c)
AllOwn(c, q) == \A n \in DOMAIN q : Own(c, q[n])
Fatal(q) == q # <<>> /\ Head(q).type # "SCHED_ON"

(* Sending keeps both.                                                      *)
LEMMA Sent ==
  ASSUME NEW c \in Clients, NEW q \in Seq(Msgs), NEW type \in Types, NEW v \in Values
  PROVE  LET r == send_message(c, q, type, v)
         IN  /\ r \in Seq(Msgs)
             /\ AllOwn(c, q) /\ Own(c, [type |-> type, value |-> v]) => AllOwn(c, r)
             /\ Fatal(q) => Fatal(r)
             /\ q = <<>> /\ type # "SCHED_ON" => r = <<>> \/ Fatal(r)
<1> DEFINE m == [type |-> type, value |-> v]
<1>1. m \in Msgs /\ m.type = type  BY DEF Msgs
<1> HIDE DEF m
<1>2. CASE send_message(c, q, type, v) = q
  BY <1>2
<1>3. CASE send_message(c, q, type, v) = Append(q, m)
  <2>1. /\ Append(q, m) \in Seq(Msgs) /\ Append(q, m) # <<>>
        /\ Len(Append(q, m)) = Len(q) + 1
        /\ \A n \in 1 .. Len(q) : Append(q, m)[n] = q[n]
        /\ Append(q, m)[Len(q) + 1] = m
    BY <1>1, AppendProperties
  <2>2. q # <<>> => Head(Append(q, m)) = Head(q)  BY <1>1, <2>1
  <2>3. q = <<>> => Head(Append(q, m)) = m  BY <1>1, <2>1
  <2>4. AllOwn(c, q) /\ Own(c, m) => AllOwn(c, Append(q, m))
    BY <2>1 DEF AllOwn
  <2> QED BY <1>1, <1>3, <2>1, <2>2, <2>3, <2>4 DEF Fatal, m
<1> QED BY <1>2, <1>3 DEF send_message, m

(* The first value that is not escaped.                                     *)
LEMMA FirstUnescaped ==
  ASSUME NEW json, NEW n \in Nat \ {0},
         {k \in DOMAIN json : ~json[k].escaped} = {n}
  PROVE  extract_json_string(json) = json[n].value
<1>1. Min({n}) = n  BY DEF Min
<1> QED BY <1>1 DEF extract_json_string

(* The query finds the annotation, not the value that kubectl keeps.        *)
LEMMA Extracted ==
  ASSUME NEW p, NEW key
  PROVE  extract_json_string(Response(p, key)) = annotations[p][key]
<1> DEFINE a == applied[p][key]  b == annotations[p][key]
           at(e, v) == [escaped |-> e, value |-> v]
           I(json) == {n \in DOMAIN json : ~json[n].escaped}
<1>1. ASSUME NEW x, NEW y
      PROVE  /\ DOMAIN (<<x>> \o <<y>>) = 1 .. 2
             /\ (<<x>> \o <<y>>)[1] = x /\ (<<x>> \o <<y>>)[2] = y
             /\ <<x>> \o <<>> = <<x>> /\ <<>> \o <<y>> = <<y>>
  <2>1. <<x>> \in Seq({x, y}) /\ <<y>> \in Seq({x, y})  OBVIOUS
  <2>2. /\ <<x>> \o <<y>> \in Seq({x, y}) /\ Len(<<x>> \o <<y>>) = 2
        /\ \A n \in 1 .. 2 : (<<x>> \o <<y>>)[n]
             = IF n <= Len(<<x>>) THEN <<x>>[n] ELSE <<y>>[n - Len(<<x>>)]
    BY <2>1, ConcatProperties
  <2>3. <<x>> \o <<>> = <<x>> /\ <<>> \o <<y>> = <<y>>  BY <2>1, ConcatEmptySeq
  <2>4. DOMAIN (<<x>> \o <<y>>) = 1 .. 2  BY <2>2, LenProperties
  <2> QED BY <2>2, <2>3, <2>4
<1>2. CASE b = NULL
  <2>1. Response(p, key) \in {<<>>, <<at(TRUE, a)>>}
    <3>1. CASE a = NULL  BY <1>2, <3>1 DEF Response
    <3>2. CASE a # NULL
      <4>1. Response(p, key) = <<at(TRUE, a)>> \o <<>>  BY Zenon, <1>2, <3>2 DEF Response
      <4> HIDE DEF at
      <4> QED BY <4>1, <1>1
    <3> QED BY <3>1, <3>2
  <2>2. I(Response(p, key)) = {}
    <3>1. I(<<at(TRUE, a)>>) = {} /\ I(<<>>) = {}  OBVIOUS
    <3> QED BY <2>1, <3>1
  <2> QED BY <1>2, <2>2 DEF extract_json_string
<1>3. CASE a = NULL /\ b # NULL
  <2>1. Response(p, key) = <<>> \o <<at(FALSE, b)>>  BY Zenon, <1>3 DEF Response
  <2>2. Response(p, key) = <<at(FALSE, b)>>
    <3> HIDE DEF at
    <3> QED BY <1>1, <2>1
  <2>3. I(Response(p, key)) = {1} /\ Response(p, key)[1].value = b  BY <2>2
  <2> QED BY <2>3, FirstUnescaped
<1>4. CASE a # NULL /\ b # NULL
  <2> DEFINE x == at(TRUE, a)  y == at(FALSE, b)
  <2>1. Response(p, key) = <<x>> \o <<y>>  BY <1>4 DEF Response
  <2>2. ~y.escaped /\ x.escaped /\ y.value = b  OBVIOUS
  <2> HIDE DEF x, y
  <2>3. /\ DOMAIN Response(p, key) = 1 .. 2
        /\ Response(p, key)[1] = x /\ Response(p, key)[2] = y
    BY <1>1, <2>1
  <2>4. I(Response(p, key)) = {2} /\ Response(p, key)[2].value = b  BY <2>2, <2>3
  <2> QED BY <2>4, FirstUnescaped
<1> QED BY <1>2, <1>3, <1>4

(* A list without repetitions after the removal of a member.                *)
LEMMA Removed ==
  ASSUME NEW s \in Seq(Clients), \A j, m \in DOMAIN s : s[j] = s[m] => j = m,
         NEW k \in DOMAIN s, NEW c, s[k] = c
  PROVE  LET r == RemoveAt(s, k)
         IN  /\ r \in Seq(Clients) /\ Range(r) = Range(s) \ {c}
             /\ \A j, m \in DOMAIN r : r[j] = r[m] => j = m
<1> DEFINE r == SubSeq(s, 1, k - 1) \o SubSeq(s, k + 1, Len(s))
<1>1. /\ Len(s) \in Nat /\ DOMAIN s = 1 .. Len(s)
      /\ \A n \in 1 .. Len(s) : s[n] \in Clients
  BY LenProperties
<1>2. k \in 1 .. Len(s) /\ s[k] = c  BY <1>1
<1>3. RemoveAt(s, k) = r  BY DEF RemoveAt
<1>4. /\ SubSeq(s, 1, k - 1) \in Seq(Clients) /\ Len(SubSeq(s, 1, k - 1)) = k - 1
      /\ \A n \in 1 .. k - 1 : SubSeq(s, 1, k - 1)[n] = s[n]
  <2>1. \A n \in 1 .. k - 1 : s[n] \in Clients  BY <1>1, <1>2
  <2> QED BY <1>2, <2>1, SubSeqProperties
<1>5. /\ SubSeq(s, k + 1, Len(s)) \in Seq(Clients)
      /\ Len(SubSeq(s, k + 1, Len(s))) = Len(s) - k
      /\ \A n \in 1 .. Len(s) - k : SubSeq(s, k + 1, Len(s))[n] = s[k + n]
  <2>1. \A n \in k + 1 .. Len(s) : s[n] \in Clients  BY <1>1, <1>2
  <2>2. k + 1 \in Int /\ Len(s) \in Int  BY <1>1, <1>2
  <2>3. /\ SubSeq(s, k + 1, Len(s)) \in Seq(Clients)
        /\ Len(SubSeq(s, k + 1, Len(s)))
             = IF k + 1 <= Len(s) THEN Len(s) - (k + 1) + 1 ELSE 0
        /\ \A n \in 1 .. Len(s) - (k + 1) + 1 :
             SubSeq(s, k + 1, Len(s))[n] = s[(k + 1) + n - 1]
    BY <2>1, <2>2, SubSeqProperties
  <2> DEFINE y == SubSeq(s, k + 1, Len(s))
  <2> HIDE DEF y
  <2>4. Len(y) = Len(s) - k
    <3>1. Len(y) = IF k + 1 <= Len(s) THEN Len(s) - (k + 1) + 1 ELSE 0
      BY <2>3 DEF y
    <3>2. CASE k + 1 <= Len(s)
      <4>1. Len(s) - (k + 1) + 1 = Len(s) - k  BY <1>1, <1>2
      <4> QED BY <3>1, <3>2, <4>1, Zenon
    <3>3. CASE ~(k + 1 <= Len(s))
      <4>1. Len(s) - k = 0
        <5>1. k \in Int /\ k <= Len(s) /\ Len(s) \in Int  BY <1>1, <1>2
        <5>2. k = Len(s)  BY <3>3, <5>1
        <5> QED BY <5>1, <5>2
      <4> QED BY <3>1, <3>3, <4>1, Zenon
    <3> QED BY <3>2, <3>3
  <2>5. ASSUME NEW n \in 1 .. Len(s) - k  PROVE y[n] = s[k + n]
    <3>1. n \in 1 .. Len(s) - (k + 1) + 1 /\ (k + 1) + n - 1 = k + n
      BY <1>1, <1>2
    <3>2. y[n] = s[(k + 1) + n - 1]  BY <2>3, <3>1 DEF y
    <3> QED BY <3>1, <3>2
  <2> QED BY <2>3, <2>4, <2>5 DEF y
<1>6. /\ r \in Seq(Clients) /\ Len(r) = Len(s) - 1
      /\ \A n \in 1 .. Len(s) - 1 : r[n] = IF n <= k - 1 THEN s[n] ELSE s[n + 1]
  <2> DEFINE x == SubSeq(s, 1, k - 1)  y == SubSeq(s, k + 1, Len(s))
  <2> HIDE DEF x, y
  <2>1. /\ x \o y \in Seq(Clients) /\ Len(x \o y) = Len(x) + Len(y)
        /\ \A n \in 1 .. Len(x) + Len(y) :
             (x \o y)[n] = IF n <= Len(x) THEN x[n] ELSE y[n - Len(x)]
    <3>1. x \in Seq(Clients) /\ y \in Seq(Clients)  BY <1>4, <1>5 DEF x, y
    <3> QED BY <3>1, ConcatProperties
  <2>2. Len(x) = k - 1 /\ Len(y) = Len(s) - k  BY <1>4, <1>5 DEF x, y
  <2>3. \A n \in 1 .. k - 1 : x[n] = s[n]  BY <1>4 DEF x
  <2>4. \A n \in 1 .. Len(s) - k : y[n] = s[k + n]  BY <1>5 DEF y
  <2>5. ASSUME NEW n \in 1 .. Len(s) - 1
        PROVE  (x \o y)[n] = IF n <= k - 1 THEN s[n] ELSE s[n + 1]
    <3>1. CASE n <= k - 1  BY <1>1, <1>2, <2>1, <2>2, <2>3, <3>1
    <3>2. CASE ~(n <= k - 1)
      <4>1. n - (k - 1) \in 1 .. Len(s) - k  BY <1>1, <1>2, <3>2
      <4>2. (x \o y)[n] = y[n - (k - 1)]
        <5>1. n \in 1 .. Len(x) + Len(y) /\ ~(n <= Len(x))
          BY <1>1, <1>2, <2>2, <3>2
        <5>2. (x \o y)[n] = y[n - Len(x)]  BY <2>1, <5>1
        <5> QED BY <2>2, <5>2
      <4>3. k + (n - (k - 1)) = n + 1  BY <1>1, <1>2
      <4> QED BY <2>4, <3>2, <4>1, <4>2, <4>3
    <3> QED BY Zenon, <3>1, <3>2
  <2>6. Len(x \o y) = Len(s) - 1  BY <1>1, <1>2, <2>1, <2>2
  <2> QED BY Zenon, <2>1, <2>5, <2>6 DEF x, y
<1> HIDE DEF r
<1>7. DOMAIN r = 1 .. Len(s) - 1  BY <1>6, LenProperties
<1>8. Range(r) \subseteq Range(s) \ {c}
  <2> SUFFICES ASSUME NEW n \in 1 .. Len(s) - 1
               PROVE  r[n] \in Range(s) \ {c}
    BY <1>7 DEF Range
  <2>1. PICK j \in 1 .. Len(s) : j # k /\ r[n] = s[j]
    <3>1. CASE n <= k - 1  BY <1>1, <1>2, <1>6, <3>1
    <3>2. CASE ~(n <= k - 1)  BY <1>1, <1>2, <1>6, <3>2
    <3> QED BY <3>1, <3>2
  <2> QED BY <1>1, <1>2, <2>1 DEF Range
<1>9. Range(s) \ {c} \subseteq Range(r)
  <2> SUFFICES ASSUME NEW j \in 1 .. Len(s), s[j] # c  PROVE s[j] \in Range(r)
    BY <1>1 DEF Range
  <2>1. CASE j < k
    <3>1. j \in 1 .. Len(s) - 1 /\ r[j] = s[j]  BY <1>1, <1>2, <1>6, <2>1
    <3> QED BY <1>7, <3>1 DEF Range
  <2>2. CASE j > k
    <3>1. j - 1 \in 1 .. Len(s) - 1 /\ ~(j - 1 <= k - 1) /\ (j - 1) + 1 = j
      BY <1>1, <1>2, <2>2
    <3>2. r[j - 1] = s[j]  BY <1>6, <3>1
    <3> QED BY <1>7, <3>1, <3>2 DEF Range
  <2> QED BY <1>1, <1>2, <2>1, <2>2
<1>10. ASSUME NEW j \in 1 .. Len(s) - 1, NEW m \in 1 .. Len(s) - 1, r[j] = r[m]
       PROVE  j = m
  <2> DEFINE at(n) == IF n <= k - 1 THEN n ELSE n + 1
  <2>1. at(j) \in 1 .. Len(s) /\ at(m) \in 1 .. Len(s)  BY <1>1, <1>2
  <2>2. s[at(j)] = s[at(m)]  BY <1>6, <1>10
  <2>3. at(j) = at(m)  BY <1>1, <2>1, <2>2
  <2> QED BY <1>1, <1>2, <2>3
<1> QED BY <1>3, <1>6, <1>7, <1>8, <1>9, <1>10

-----------------------------------------------------------------------------
(* The inductive invariant.                                                 *)

InList(c) == c \in Range(clients)
Registered(c) == InList(c) /\ rec[c].registered

PodsInv ==
  /\ DOMAIN annotations = Pods
  /\ \A p \in Pods : annotations[p] \in [mem : MemTexts[p] \cup {NULL},
                                          core : CoreTexts[p] \cup {NULL}]

(* The list has no client twice, and a registered client has its own pod.   *)
ListInv ==
  /\ clients \in Seq(Clients)
  /\ \A j, k \in DOMAIN clients : clients[j] = clients[k] => j = k
  /\ DOMAIN rec = Clients
  /\ \A c \in Range(clients) :
       /\ {"registered", "pod"} \subseteq DOMAIN rec[c]
       /\ rec[c].registered \in BOOLEAN /\ rec[c].pod \in AllPods
       /\ rec[c].registered => rec[c].pod = PodOf[c]
  /\ registering # NULL => Registered(registering)

(* What the watcher has read is of the pod of the client that it names.     *)
WatchInv ==
  /\ snapshot \in Seq([id : Clients \cup {UNREGISTERED}, pod : AllPods])
  /\ \A n \in DOMAIN snapshot :
       snapshot[n].id \in Clients => snapshot[n].pod = PodOf[snapshot[n].id]
  /\ pc \in {"core", "apply"} =>
       /\ snapshot # <<>> /\ mem_limit_str \in AllMem \cup {NULL}
       /\ Head(snapshot).id \in Clients
            => mem_limit_str \in MemTexts[PodOf[Head(snapshot).id]] \cup {NULL}
  /\ pc = "apply" =>
       /\ core_limit_str \in AllCore \cup {NULL}
       /\ Head(snapshot).id \in Clients
            => core_limit_str \in CoreTexts[PodOf[Head(snapshot).id]] \cup {NULL}

Domains ==
  /\ DOMAIN proc = Clients /\ DOMAIN client_core_limit = Clients
  /\ toClient \in [Clients -> Seq(Msgs)]
  /\ DOMAIN hook = Clients /\ \A c \in Clients : "memory_limit" \in DOMAIN hook[c]

(* A client has, and will read, only limits of its own, except where what   *)
(* it reads first ends it.                                                  *)
ClientInv(c) ==
  /\ proc[c] = "new" => toClient[c] = <<>> /\ ~InList(c)
  /\ proc[c] = "up" => Registered(c) /\ AllOwn(c, toClient[c])
  /\ proc[c] = "registering" =>
       \/ Fatal(toClient[c]) \/ toClient[c] = <<>>
       \/ Registered(c) /\ AllOwn(c, toClient[c])
  /\ proc[c] \in {"new", "registering", "up"} =>
       /\ client_core_limit[c] \in OwnCore(c)
       /\ hook[c].memory_limit
            \in OwnMem(c) \cup {Loaded(env).memory_limit : env \in EnvLimits}

WatcherInv ==
  PodsInv /\ ListInv /\ WatchInv /\ Domains /\ \A c \in Clients : ClientInv(c)

-----------------------------------------------------------------------------
(* The list of clients as a function.                                       *)
LEMMA Listed ==
  ASSUME ListInv
  PROVE  /\ Len(clients) \in Nat /\ DOMAIN clients = 1 .. Len(clients)
         /\ \A n \in DOMAIN clients : clients[n] \in Clients
         /\ Range(clients) \subseteq Clients
<1>1. clients \in Seq(Clients)  BY DEF ListInv
<1>2. /\ Len(clients) \in Nat /\ DOMAIN clients = 1 .. Len(clients)
      /\ clients \in [1 .. Len(clients) -> Clients]
  BY <1>1, LenProperties
<1>3. \A n \in DOMAIN clients : clients[n] \in Clients  BY <1>2
<1> QED BY <1>2, <1>3 DEF Range

(* A step that leaves a client alone keeps its part of the invariant.       *)
LEMMA ClientSame ==
  ASSUME NEW c, ClientInv(c), proc'[c] = proc[c], toClient'[c] = toClient[c],
         client_core_limit'[c] = client_core_limit[c],
         hook'[c].memory_limit = hook[c].memory_limit,
         Registered(c) => Registered(c)', InList(c)' => InList(c) \/ proc[c] # "new"
  PROVE  ClientInv(c)'
BY DEF ClientInv, AllOwn, Fatal

LEMMA InitInv ==
  ASSUME Init
  PROVE  WatcherInv
<1> USE WatcherAssumption DEF Init, HookInit
<1>1. PodsInv  BY DEF PodsInv
<1>2. Range(clients) = {}  BY DEF Range
<1>3. ListInv  BY <1>2, EmptySeq DEF ListInv
<1>4. WatchInv  BY EmptySeq DEF WatchInv
<1>5. Domains
  <2>1. \A env : "memory_limit" \in DOMAIN Loaded(env)  BY DEF Loaded
  <2> QED BY <2>1, EmptySeq DEF Domains
<1>6. ASSUME NEW c \in Clients  PROVE ClientInv(c)
  <2>1. hook[c].memory_limit \in {Loaded(env).memory_limit : env \in EnvLimits}
    OBVIOUS
  <2> QED BY <1>2, <2>1 DEF ClientInv, InList, OwnCore
<1> QED BY <1>1, <1>3, <1>4, <1>5, <1>6 DEF WatcherInv

LEMMA AnnotateInv ==
  ASSUME WatcherInv, NEW p \in Pods, Annotate(p)
  PROVE  WatcherInv'
<1>1. PodsInv'
  <2>1. PodsInv  BY DEF WatcherInv
  <2>2. CASE \E t \in MemTexts[p] \cup {NULL} :
               annotations' = [annotations EXCEPT ![p].mem = t]
    BY <2>1, <2>2 DEF PodsInv
  <2>3. CASE \E v \in CoreTexts[p] \cup {NULL} :
               annotations' = [annotations EXCEPT ![p].core = v]
    BY <2>1, <2>3 DEF PodsInv
  <2> QED BY <2>2, <2>3 DEF Annotate
<1>2. UNCHANGED <<libVars, toClient, mainVars, watchVars>>  BY DEF Annotate
<1>3. ListInv' /\ WatchInv' /\ Domains'
  BY <1>2 DEF WatcherInv, ListInv, WatchInv, Domains, libVars, mainVars, watchVars,
              InList, Registered
<1>4. \A c \in Clients : ClientInv(c)'
  BY <1>2, ClientSame DEF WatcherInv, libVars, mainVars, InList, Registered
<1> QED BY <1>1, <1>3, <1>4 DEF WatcherInv

-----------------------------------------------------------------------------
(* The clients.                                                             *)

(* What a step of the process of c leaves to be shown.                      *)
LEMMA ProcessStep ==
  ASSUME WatcherInv, NEW c \in Clients, UNCHANGED <<annotations, mainVars, watchVars>>,
         DOMAIN proc' = Clients, DOMAIN client_core_limit' = Clients,
         toClient' \in [Clients -> Seq(Msgs)], DOMAIN hook' = Clients,
         "memory_limit" \in DOMAIN hook'[c], ClientInv(c)',
         \A d \in Clients \ {c} :
           /\ proc'[d] = proc[d] /\ toClient'[d] = toClient[d]
           /\ client_core_limit'[d] = client_core_limit[d] /\ hook'[d] = hook[d]
  PROVE  WatcherInv'
<1>1. PodsInv' /\ ListInv' /\ WatchInv'
  BY DEF WatcherInv, PodsInv, ListInv, WatchInv, mainVars, watchVars, InList, Registered
<1>2. Domains'  BY Zenon DEF WatcherInv, Domains
<1>3. \A d \in Clients : ClientInv(d)'
  BY ClientSame DEF WatcherInv, mainVars, InList, Registered
<1> QED BY <1>1, <1>2, <1>3 DEF WatcherInv

LEMMA StartInv ==
  ASSUME WatcherInv, NEW c \in Clients, Start(c)
  PROVE  WatcherInv'
<1>1. ClientInv(c) /\ Domains  BY DEF WatcherInv
<1>2. proc[c] = "new" /\ proc'[c] = "registering"  BY <1>1 DEF Start, Domains
<1>3. toClient' = toClient /\ UNCHANGED <<client_core_limit, hook>>  BY DEF Start
<1>4. ClientInv(c)'  BY <1>1, <1>2, <1>3 DEF ClientInv
<1> QED BY <1>1, <1>3, <1>4, ProcessStep DEF Start, Domains, podVars

(* A process that has ended has no limit to respect.                        *)
LEMMA EndsInv ==
  ASSUME WatcherInv, NEW c \in Clients, Ends(c), UNCHANGED <<annotations, mainVars, watchVars>>
  PROVE  WatcherInv'
<1>1. Domains  BY DEF WatcherInv
<1>2. ClientInv(c)'  BY <1>1 DEF Ends, Domains, ClientInv
<1>3. toClient' \in [Clients -> Seq(Msgs)]
  BY <1>1, EmptySeq DEF Ends, Domains
<1>4. "memory_limit" \in DOMAIN hook'[c]  BY <1>1 DEF Ends, Domains, Loaded
<1> QED BY <1>1, <1>2, <1>3, <1>4, ProcessStep DEF Ends, Domains

LEMMA ReceiveInv ==
  ASSUME WatcherInv, NEW c \in Clients, Receive(c)
  PROVE  WatcherInv'
<1> DEFINE msg == Head(toClient[c])
<1>1. UNCHANGED <<annotations, mainVars, watchVars>>  BY DEF Receive, podVars
<1>2. CASE proc[c] = "registering" /\ msg.type # "SCHED_ON"
  BY <1>1, <1>2, EndsInv DEF Receive
<1>3. CASE ~(proc[c] = "registering" /\ msg.type # "SCHED_ON")
  <2>1. /\ ClientInv(c) /\ Domains
        /\ proc[c] \in {"registering", "up"} /\ toClient[c] # <<>>
        /\ toClient[c] \in Seq(Msgs)
    BY DEF WatcherInv, Receive, Domains
  <2>2. Registered(c) /\ AllOwn(c, toClient[c])
    BY <1>3, <2>1 DEF ClientInv, Fatal
  <2>3. /\ Tail(toClient[c]) \in Seq(Msgs)
        /\ AllOwn(c, Tail(toClient[c])) /\ Own(c, msg)
    <3> DEFINE q == toClient[c]
    <3>1. q \in Seq(Msgs) /\ q # <<>> /\ AllOwn(c, q)  BY <2>1, <2>2
    <3> HIDE DEF q
    <3>2. /\ Tail(q) \in Seq(Msgs) /\ Len(Tail(q)) = Len(q) - 1
          /\ \A n \in 1 .. Len(Tail(q)) : Tail(q)[n] = q[n + 1]
      BY <3>1, HeadTailProperties
    <3>3. Len(q) \in Nat \ {0} /\ DOMAIN q = 1 .. Len(q) /\ Head(q) = q[1]
      BY <3>1, EmptySeq, LenProperties
    <3>4. DOMAIN Tail(q) = 1 .. Len(q) - 1  BY <3>2, LenProperties
    <3>5. AllOwn(c, Tail(q))  BY <3>1, <3>2, <3>3, <3>4 DEF AllOwn
    <3>6. Own(c, Head(q))  BY <3>1, <3>3 DEF AllOwn
    <3> QED BY <3>2, <3>5, <3>6 DEF q
  <2>4. /\ proc' = [proc EXCEPT ![c] = "up"]
        /\ toClient' = [toClient EXCEPT ![c] = Tail(@)]
        /\ IF msg.type = "UPDATE_LIMIT"
           THEN hook' = update_memory_limit(c, msg.value) /\ UNCHANGED client_core_limit
           ELSE client_core_limit' = [client_core_limit EXCEPT ![c] = msg.value]
                  /\ UNCHANGED hook
    BY <1>3 DEF Receive
  <2>5. Registered(c)'  BY <1>1, <2>2 DEF Registered, InList, mainVars
  <2>6. /\ client_core_limit'[c] \in OwnCore(c)
        /\ hook'[c].memory_limit
             \in OwnMem(c) \cup {Loaded(env).memory_limit : env \in EnvLimits}
    BY <2>1, <2>3, <2>4 DEF Own, ClientInv, Domains, update_memory_limit
  <2>7. proc'[c] = "up" /\ toClient'[c] = Tail(toClient[c])
    BY <2>1, <2>4 DEF Domains
  <2>8. ClientInv(c)'
    BY <2>3, <2>5, <2>6, <2>7 DEF ClientInv
  <2>9. /\ toClient' \in [Clients -> Seq(Msgs)] /\ DOMAIN hook' = Clients
        /\ "memory_limit" \in DOMAIN hook'[c] /\ DOMAIN client_core_limit' = Clients
        /\ \A d \in Clients \ {c} :
             client_core_limit'[d] = client_core_limit[d] /\ hook'[d] = hook[d]
    BY <2>1, <2>3, <2>4 DEF Domains, update_memory_limit
  <2> QED BY <1>1, <2>1, <2>4, <2>8, <2>9, ProcessStep DEF Domains
<1> QED BY <1>2, <1>3

(* The calls of an application leave its limit.                             *)
LEMMA ApplicationInv ==
  ASSUME WatcherInv, NEW c \in Clients, Application(c)
  PROVE  WatcherInv'
<1>1. Domains /\ ClientInv(c)  BY DEF WatcherInv
<1>2. PICK h : /\ hook' = [hook EXCEPT ![c] = h]
               /\ h.memory_limit = hook[c].memory_limit /\ "memory_limit" \in DOMAIN h
  BY <1>1 DEF Application, MemoryCall, cuMemAlloc, Check, insert_cuda_allocation,
              DriverFails, cuMemFree, Returned, Domains
<1>3. UNCHANGED <<annotations, mainVars, watchVars, proc, client_core_limit, toClient>>
  BY DEF Application, podVars
<1>4. hook'[c] = h  BY <1>1, <1>2 DEF Domains
<1>5. ClientInv(c)'
  BY <1>1, <1>2, <1>3, <1>4, ClientSame DEF mainVars, InList, Registered
<1> QED BY <1>1, <1>2, <1>3, <1>4, <1>5, ProcessStep DEF Domains

-----------------------------------------------------------------------------
(* The main thread.                                                         *)

LEMMA AcceptInv ==
  ASSUME WatcherInv, NEW c \in Clients, Accept(c)
  PROVE  WatcherInv'
<1>1. ListInv /\ Domains /\ \A d \in Clients : ClientInv(d)  BY DEF WatcherInv
<1>2. PICK pod \in GarbagePods[c], limit \in GarbageLimits, core \in GarbageCores :
        rec' = [rec EXCEPT ![c] =
          [registered |-> FALSE, pod |-> pod, memory_limit |-> limit,
           core_limit |-> core, told |-> FALSE, lost |-> FALSE]]
  BY Zenon DEF Accept
<1>3. /\ clients' = Append(clients, c) /\ c \notin Range(clients)
      /\ proc[c] # "new" /\ registering = NULL /\ registering' = NULL
      /\ UNCHANGED <<annotations, libVars, toClient, watchVars>>
  BY DEF Accept, MutexFree, podVars
<1>4. /\ clients' \in Seq(Clients) /\ Range(clients') = Range(clients) \cup {c}
      /\ \A j, k \in DOMAIN clients' : clients'[j] = clients'[k] => j = k
  <2>1. /\ clients' \in Seq(Clients) /\ Len(clients') = Len(clients) + 1
        /\ \A n \in 1 .. Len(clients) : clients'[n] = clients[n]
        /\ clients'[Len(clients) + 1] = c
    <3>1. clients \in Seq(Clients)  BY <1>1 DEF ListInv
    <3> QED BY <1>3, <3>1, AppendProperties
  <2>2. /\ Len(clients) \in Nat /\ DOMAIN clients = 1 .. Len(clients)
        /\ DOMAIN clients' = 1 .. Len(clients) + 1
    BY <1>1, <2>1, Listed, LenProperties
  <2>3. \A n \in 1 .. Len(clients) : clients[n] # c  BY <1>3, <2>2 DEF Range
  <2>4. Range(clients') = Range(clients) \cup {c}  BY <2>1, <2>2 DEF Range
  <2>5. \A j, k \in DOMAIN clients' : clients'[j] = clients'[k] => j = k
    BY <1>1, <2>1, <2>2, <2>3 DEF ListInv
  <2> QED BY <2>1, <2>4, <2>5
<1>5. ListInv'
  <2>1. /\ rec'[c].registered = FALSE /\ rec'[c].pod \in AllPods
        /\ {"registered", "pod"} \subseteq DOMAIN rec'[c] /\ DOMAIN rec' = Clients
        /\ \A d \in Clients \ {c} : rec'[d] = rec[d]
    BY <1>1, <1>2 DEF ListInv, AllPods
  <2>2. Range(clients) \subseteq Clients  BY <1>1, Listed
  <2> QED BY Zenon, <1>1, <1>3, <1>4, <2>1, <2>2 DEF ListInv
<1>6. ASSUME NEW d \in Clients  PROVE ClientInv(d)'
  <2>1. Registered(d) => Registered(d)'
    BY <1>1, <1>2, <1>3, <1>4 DEF Registered, InList, ListInv
  <2>2. InList(d)' => InList(d) \/ proc[d] # "new"  BY <1>3, <1>4 DEF InList
  <2> QED BY <1>1, <1>3, <2>1, <2>2, ClientSame DEF libVars
<1>7. PodsInv' /\ WatchInv' /\ Domains'
  BY <1>3 DEF WatcherInv, PodsInv, WatchInv, Domains, libVars, watchVars
<1> QED BY <1>5, <1>6, <1>7 DEF WatcherInv

LEMMA ForgetInv ==
  ASSUME WatcherInv, NEW c \in Clients, InList(c), Forget(c), registering = NULL,
         UNCHANGED <<annotations, client_core_limit, hook, toClient, registering,
                     watchVars>>
  PROVE  WatcherInv'
<1>1. ListInv /\ Domains /\ \A d \in Clients : ClientInv(d)  BY DEF WatcherInv
<1>2. /\ clients' \in Seq(Clients) /\ Range(clients') = Range(clients) \ {c}
      /\ \A j, k \in DOMAIN clients' : clients'[j] = clients'[k] => j = k
  <2> DEFINE k == CHOOSE n \in DOMAIN clients : clients[n] = c
  <2>1. \E n \in DOMAIN clients : clients[n] = c  BY DEF InList, Range
  <2>2. k \in DOMAIN clients /\ clients[k] = c  BY <2>1
  <2>3. clients' = RemoveAt(clients, k)  BY DEF Forget
  <2> HIDE DEF k
  <2> QED BY <1>1, <2>2, <2>3, Removed DEF ListInv
<1>3. /\ DOMAIN rec' = Clients /\ DOMAIN proc' = Clients /\ proc'[c] = "closed"
      /\ \A d \in Clients \ {c} : rec'[d] = rec[d] /\ proc'[d] = proc[d]
  BY <1>1 DEF Forget, ListInv, Domains
<1>4. Range(clients) \subseteq Clients  BY <1>1, Listed
<1>5. ListInv'  BY <1>1, <1>2, <1>3, <1>4 DEF ListInv
<1>6. ASSUME NEW d \in Clients \ {c}  PROVE ClientInv(d)'
  BY <1>1, <1>2, <1>3, ClientSame DEF Registered, InList
<1>7. ClientInv(c)'  BY <1>3 DEF ClientInv
<1>8. PodsInv' /\ WatchInv' /\ Domains'
  BY Zenon, <1>3 DEF WatcherInv, PodsInv, WatchInv, Domains, watchVars
<1> QED BY <1>5, <1>6, <1>7, <1>8 DEF WatcherInv

(* A record and the messages to its client are replaced.                    *)
LEMMA BecomesInv ==
  ASSUME WatcherInv, NEW c \in Clients, InList(c), NEW s, Becomes(c, s),
         UNCHANGED <<annotations, libVars, clients>>, WatchInv',
         s.q \in Seq(Msgs), {"registered", "pod"} \subseteq DOMAIN s.r,
         s.r.registered \in BOOLEAN, s.r.pod \in AllPods,
         s.r.registered => s.r.pod = PodOf[c], rec[c].registered => s.r.registered,
         registering' \in {NULL, registering} \/ (registering' = c /\ s.r.registered),
         proc[c] = "up" => AllOwn(c, s.q),
         proc[c] = "registering" =>
           Fatal(s.q) \/ s.q = <<>> \/ (s.r.registered /\ AllOwn(c, s.q))
  PROVE  WatcherInv'
<1>1. ListInv /\ Domains /\ \A d \in Clients : ClientInv(d)  BY DEF WatcherInv
<1>2. /\ DOMAIN rec' = Clients /\ rec'[c] = s.r
      /\ toClient' \in [Clients -> Seq(Msgs)] /\ toClient'[c] = s.q
      /\ \A d \in Clients \ {c} : rec'[d] = rec[d] /\ toClient'[d] = toClient[d]
  BY <1>1 DEF Becomes, ListInv, Domains
<1>3. Range(clients) \subseteq Clients  BY <1>1, Listed
<1>4. \A d \in Clients : Registered(d) => Registered(d)'
  BY <1>2 DEF Registered, InList
<1>5. ListInv'
  <2>1. registering' # NULL => Registered(registering)'
    <3>1. CASE registering' = c /\ s.r.registered
      BY <1>2, <3>1 DEF Registered, InList
    <3>2. CASE registering' = registering
      BY <1>1, <1>3, <1>4, <3>2 DEF ListInv, Registered, InList
    <3> QED BY <3>1, <3>2
  <2>2. \A d \in Range(clients) :
          /\ {"registered", "pod"} \subseteq DOMAIN rec'[d]
          /\ rec'[d].registered \in BOOLEAN /\ rec'[d].pod \in AllPods
          /\ rec'[d].registered => rec'[d].pod = PodOf[d]
    BY Zenon, <1>1, <1>2, <1>3 DEF ListInv
  <2> QED BY <1>1, <1>2, <2>1, <2>2 DEF ListInv
<1>6. ASSUME NEW d \in Clients \ {c}  PROVE ClientInv(d)'
  BY Zenon, <1>1, <1>2, <1>4, ClientSame DEF InList, libVars
<1>7. ClientInv(c)'
  <2>1. ClientInv(c) /\ UNCHANGED <<proc, client_core_limit, hook>>
    BY Zenon, <1>1 DEF libVars
  <2>2. InList(c)' /\ proc[c] # "new"  BY <2>1 DEF ClientInv, InList
  <2>3. proc[c] = "up" => Registered(c)'  BY <1>4, <2>1 DEF ClientInv
  <2>4. s.r.registered => Registered(c)'  BY <1>2, <2>2 DEF Registered, InList
  <2> QED BY Zenon, <1>2, <2>1, <2>2, <2>3, <2>4 DEF ClientInv
<1>8. PodsInv' /\ Domains'
  BY <1>2 DEF WatcherInv, PodsInv, Domains, libVars
<1> QED BY <1>5, <1>6, <1>7, <1>8 DEF WatcherInv

(* A query finds a text of the pod, or nothing.                             *)
LEMMA Queried ==
  ASSUME PodsInv, NEW p \in Pods
  PROVE  /\ extract_json_string(Response(p, "core")) \in CoreTexts[p] \cup {NULL}
         /\ extract_json_string(Response(p, "mem")) \in MemTexts[p] \cup {NULL}
BY Extracted DEF PodsInv

(* A query of any name, of a pod or not.                                    *)
LEMMA Answered ==
  ASSUME PodsInv, NEW p, NEW str
  PROVE  /\ k8s_get_pod_annotation(p, "core", str) =>
              /\ str \in AllCore \cup {NULL}
              /\ p \in Pods => str \in CoreTexts[p] \cup {NULL}
         /\ k8s_get_pod_annotation(p, "mem", str) =>
              /\ str \in AllMem \cup {NULL}
              /\ p \in Pods => str \in MemTexts[p] \cup {NULL}
<1>1. CASE p \in Pods
  BY <1>1, Queried DEF k8s_get_pod_annotation, AllCore, AllMem
<1>2. CASE p \notin Pods
  BY <1>2 DEF k8s_get_pod_annotation
<1> QED BY <1>1, <1>2

LEMMA OwnValues ==
  ASSUME NEW c \in Clients
  PROVE  /\ PodOf[c] \in Pods /\ PodOf[c] \in AllPods
         /\ OwnCore(c) \subseteq Values /\ OwnMem(c) \subseteq Values
BY WatcherAssumption DEF OwnCore, OwnMem, Values, AllCore, AllMem, AllPods

LEMMA RegisterCoreInv ==
  ASSUME WatcherInv, NEW c \in Clients, RegisterCore(c)
  PROVE  WatcherInv'
<1>1. ListInv /\ Domains /\ ClientInv(c) /\ PodsInv  BY DEF WatcherInv
<1>2. /\ registering = NULL /\ InList(c) /\ proc[c] \in {"registering", "dead"}
      /\ ~rec[c].registered
      /\ UNCHANGED <<annotations, client_core_limit, hook, watchVars>>
  BY DEF RegisterCore, MutexFree, InList, podVars
<1>3. PICK core \in OwnCore(c) :
        LET q == send_message(c, toClient[c], "SCHED_ON", core)
        IN  IF q = toClient[c] THEN Forget(c) /\ UNCHANGED <<toClient, registering>>
            ELSE /\ Becomes(c, [q |-> q, r |->
                      [rec[c] EXCEPT !.registered = TRUE, !.pod = PodOf[c],
                                     !.core_limit = core]])
                 /\ registering' = c /\ UNCHANGED <<proc, clients>>
  <2>1. PICK str \in CoreTexts[PodOf[c]] \cup {NULL} :
          LET core == IF ValidCore(str) THEN str ELSE 100
              q == send_message(c, toClient[c], "SCHED_ON", core)
          IN  IF q = toClient[c] THEN Forget(c) /\ UNCHANGED <<toClient, registering>>
              ELSE /\ Becomes(c, [q |-> q, r |->
                        [rec[c] EXCEPT !.registered = TRUE, !.pod = PodOf[c],
                                       !.core_limit = core]])
                   /\ registering' = c /\ UNCHANGED <<proc, clients>>
    BY Zenon DEF RegisterCore
  <2> DEFINE core == IF ValidCore(str) THEN str ELSE 100
  <2>2. core \in OwnCore(c)  BY DEF OwnCore, ValidCore
  <2> HIDE DEF core
  <2> QED BY Zenon, <2>1, <2>2 DEF core
<1> DEFINE q == send_message(c, toClient[c], "SCHED_ON", core)
           r == [rec[c] EXCEPT !.registered = TRUE, !.pod = PodOf[c],
                               !.core_limit = core]
           s == [q |-> q, r |-> r]
<1>4. CASE q = toClient[c]
  BY <1>2, <1>3, <1>4, ForgetInv
<1>5. CASE q # toClient[c]
  <2>1. /\ Becomes(c, s) /\ registering' = c
        /\ UNCHANGED <<proc, clients, client_core_limit, hook>>
    BY <1>2, <1>3, <1>5
  <2>2. /\ {"registered", "pod"} \subseteq DOMAIN r /\ r.registered = TRUE
        /\ r.pod = PodOf[c]
    BY <1>1, <1>2 DEF ListInv, InList
  <2>3. /\ toClient[c] \in Seq(Msgs) /\ core \in Values
        /\ Own(c, [type |-> "SCHED_ON", value |-> core])
    BY <1>1, OwnValues DEF Domains, Own
  <2>4. /\ q \in Seq(Msgs) /\ (AllOwn(c, toClient[c]) => AllOwn(c, q))
        /\ Fatal(toClient[c]) => Fatal(q)
    BY <2>3, Sent DEF Types
  <2>5. proc[c] = "registering" => Fatal(q) \/ AllOwn(c, q)
    <3>1. toClient[c] = <<>> => AllOwn(c, toClient[c])  BY DEF AllOwn
    <3> QED BY <1>1, <1>2, <2>4, <3>1 DEF ClientInv, Registered
  <2>6. WatchInv'  BY Zenon, <1>2 DEF WatcherInv, WatchInv, watchVars
  <2>7. s.q = q /\ s.r = r  OBVIOUS
  <2>8. UNCHANGED <<annotations, libVars, clients>>  BY <1>2, <2>1 DEF libVars
  <2> HIDE DEF s, r, q
  <2> QED BY Zenon, <1>2, <2>1, <2>2, <2>4, <2>5, <2>6, <2>7, <2>8, OwnValues, BecomesInv
<1> QED BY <1>4, <1>5

(* A record that keeps its registration and its pod.                        *)
Kept(r, of) ==
  DOMAIN r = DOMAIN of /\ r.registered = of.registered /\ r.pod = of.pod

LEMMA MemorySet ==
  ASSUME NEW c, NEW s, NEW limit, {"registered", "pod"} \subseteq DOMAIN s.r
  PROVE  /\ SetMemory(c, s, limit).q = send_message(c, s.q, "UPDATE_LIMIT", limit)
         /\ Kept(SetMemory(c, s, limit).r, s.r)
BY Zenon DEF SetMemory, Kept

LEMMA CoreSet ==
  ASSUME NEW c, NEW s, NEW limit, {"registered", "pod"} \subseteq DOMAIN s.r
  PROVE  /\ SetCore(c, s, limit).q = send_message(c, s.q, "UPDATE_CORE_LIMIT", limit)
         /\ Kept(SetCore(c, s, limit).r, s.r)
BY Zenon DEF SetCore, Kept

LEMMA RegisterMemoryInv ==
  ASSUME WatcherInv, RegisterMemory
  PROVE  WatcherInv'
<1> DEFINE c == registering
<1>1. ListInv /\ Domains /\ PodsInv /\ \A d \in Clients : ClientInv(d)
  BY DEF WatcherInv
<1>2. /\ registering # NULL /\ registering' = NULL
      /\ UNCHANGED <<annotations, libVars, clients, watchVars>>
  BY DEF RegisterMemory, podVars
<1>3. Registered(c) /\ c \in Clients
  <2>1. Registered(c)  BY <1>1, <1>2 DEF ListInv
  <2> QED BY <1>1, <2>1, Listed DEF Registered, InList
<1>4. WatchInv'  BY <1>2 DEF WatcherInv, WatchInv, watchVars
<1>5. PICK str \in MemTexts[PodOf[c]] \cup {NULL} :
        LET limit == IF str = NULL THEN 0 ELSE k8s_parse_memory_size(str)
        IN  IF limit > 0 THEN Becomes(c, SetMemory(c, Client(c), limit))
            ELSE UNCHANGED <<rec, toClient>>
  BY DEF RegisterMemory
<1> DEFINE limit == IF str = NULL THEN 0 ELSE k8s_parse_memory_size(str)
<1>6. CASE limit > 0
  <2> DEFINE s == SetMemory(c, Client(c), limit)
  <2>1. Becomes(c, s)  BY <1>5, <1>6
  <2>2. str # NULL  BY <1>6
  <2>3. limit \in OwnMem(c) /\ limit \in Values
    BY <1>3, <1>5, <2>2, OwnValues DEF OwnMem
  <2>4. /\ Client(c).q = toClient[c] /\ Client(c).r = rec[c]
        /\ toClient[c] \in Seq(Msgs)
        /\ {"registered", "pod"} \subseteq DOMAIN rec[c]
        /\ rec[c].registered \in BOOLEAN /\ rec[c].registered
        /\ rec[c].pod = PodOf[c]
    BY Zenon, <1>1, <1>3 DEF Client, Domains, ListInv, Registered, InList
  <2> HIDE DEF limit
  <2>5. s.q = send_message(c, toClient[c], "UPDATE_LIMIT", limit) /\ Kept(s.r, rec[c])
    <3>1. {"registered", "pod"} \subseteq DOMAIN Client(c).r  BY <2>4
    <3>2. /\ s.q = send_message(c, Client(c).q, "UPDATE_LIMIT", limit)
          /\ Kept(s.r, Client(c).r)
      BY Zenon, <3>1, MemorySet
    <3> HIDE DEF s
    <3> QED BY <2>4, <3>2
  <2>6. /\ s.q \in Seq(Msgs) /\ (AllOwn(c, toClient[c]) => AllOwn(c, s.q))
        /\ Fatal(toClient[c]) => Fatal(s.q)
        /\ toClient[c] = <<>> => s.q = <<>> \/ Fatal(s.q)
    <3>1. Own(c, [type |-> "UPDATE_LIMIT", value |-> limit])  BY Zenon, <2>3 DEF Own
    <3> QED BY Zenon, <1>3, <2>3, <2>4, <2>5, <3>1, Sent DEF Types
  <2>7. ClientInv(c)  BY Zenon, <1>1, <1>3
  <2> HIDE DEF s
  <2>8. /\ {"registered", "pod"} \subseteq DOMAIN s.r /\ s.r.registered
        /\ s.r.registered \in BOOLEAN /\ s.r.pod = PodOf[c]
    BY Zenon, <2>4, <2>5 DEF Kept
  <2>9. /\ proc[c] = "up" => AllOwn(c, s.q)
        /\ proc[c] = "registering" => Fatal(s.q) \/ s.q = <<>> \/ AllOwn(c, s.q)
    BY <2>6, <2>7 DEF ClientInv
  <2>10. InList(c) /\ PodOf[c] \in AllPods  BY <1>3, OwnValues DEF Registered
  <2> HIDE DEF c
  <2> QED BY Zenon, <1>2, <1>3, <1>4, <2>1, <2>6, <2>8, <2>9, <2>10, BecomesInv
<1>7. CASE ~(limit > 0)
  <2>1. UNCHANGED <<rec, toClient>>  BY <1>5, <1>7
  <2>2. PodsInv' /\ Domains'
    BY <1>2, <2>1 DEF WatcherInv, PodsInv, Domains, libVars
  <2>3. ListInv'  BY <1>1, <1>2, <2>1 DEF ListInv
  <2>4. \A d \in Clients : ClientInv(d)'
    BY <1>1, <1>2, <2>1, ClientSame DEF libVars, Registered, InList
  <2> QED BY <1>4, <2>2, <2>3, <2>4 DEF WatcherInv
<1> QED BY <1>6, <1>7

-----------------------------------------------------------------------------
(* The watcher.                                                             *)

(* What a step of the watcher that writes no record leaves to be shown.     *)
LEMMA WatcherStep ==
  ASSUME WatcherInv, UNCHANGED <<annotations, libVars, toClient, mainVars>>, WatchInv'
  PROVE  WatcherInv'
<1>1. PodsInv' /\ ListInv' /\ Domains'
  BY DEF WatcherInv, PodsInv, ListInv, Domains, libVars, mainVars, Registered, InList
<1>2. \A c \in Clients : ClientInv(c)'
  BY ClientSame DEF WatcherInv, libVars, mainVars, Registered, InList
<1> QED BY <1>1, <1>2 DEF WatcherInv

LEMMA SnapshotInv ==
  ASSUME WatcherInv, Snapshot
  PROVE  WatcherInv'
<1> DEFINE named == {k \in DOMAIN clients : rec[clients[k]].pod # NULL}
           entry(k) == [id |-> Id(clients[k]), pod |-> rec[clients[k]].pod]
           Entries == [id : Clients \cup {UNREGISTERED}, pod : AllPods]
<1>1. ListInv  BY DEF WatcherInv
<1>2. PICK n \in 0 .. Len(clients) : \E at \in [1 .. n -> named] :
        snapshot' = [i \in DOMAIN at |-> entry(at[i])]
  BY Zenon DEF Snapshot
<1>3. PICK at \in [1 .. n -> named] : snapshot' = [i \in DOMAIN at |-> entry(at[i])]
  BY <1>2
<1>4. Len(clients) \in Nat /\ DOMAIN clients = 1 .. Len(clients)
  BY <1>1, Listed
<1>5. n \in Nat  BY <1>4
<1>6. ASSUME NEW k \in named
      PROVE  entry(k) \in Entries /\ (entry(k).id \in Clients => entry(k).pod = PodOf[entry(k).id])
  <2>1. clients[k] \in Clients /\ clients[k] \in Range(clients)
    BY <1>1, Listed DEF Range
  <2> QED BY <1>1, <2>1, WatcherAssumption DEF ListInv, Id
<1> HIDE DEF named, entry, Entries
<1>7. /\ DOMAIN snapshot' = 1 .. n
      /\ \A j \in 1 .. n : snapshot'[j] \in Entries
           /\ (snapshot'[j].id \in Clients => snapshot'[j].pod = PodOf[snapshot'[j].id])
  BY <1>3, <1>6
<1>8. snapshot' \in Seq(Entries)
  <2>1. snapshot' \in [1 .. n -> Entries]  BY <1>3, <1>6
  <2> QED BY <1>5, <2>1
<1>9. WatchInv'
  <2>1. pc' = "mem"  BY DEF Snapshot
  <2> QED BY <1>7, <1>8, <2>1 DEF WatchInv, Entries
<1> QED BY <1>9, WatcherStep DEF Snapshot, podVars

LEMMA QueryInv ==
  ASSUME WatcherInv, QueryMemory \/ QueryCore
  PROVE  WatcherInv'
<1>1. WatchInv /\ PodsInv  BY DEF WatcherInv
<1>2. snapshot # <<>> /\ UNCHANGED snapshot
  BY Zenon, <1>1 DEF QueryMemory, QueryCore, WatchInv
<1> DEFINE e == Head(snapshot)
<1>3. e.id \in Clients => e.pod = PodOf[e.id] /\ e.pod \in Pods
  <2>1. Len(snapshot) \in Nat \ {0} /\ DOMAIN snapshot = 1 .. Len(snapshot)
    BY <1>1, <1>2, EmptySeq, LenProperties DEF WatchInv
  <2>2. e = snapshot[1] /\ 1 \in DOMAIN snapshot  BY <1>1, <1>2, <2>1 DEF WatchInv
  <2> QED BY <1>1, <2>2, OwnValues DEF WatchInv
<1> HIDE DEF e
<1>4. CASE QueryMemory
  <2>1. k8s_get_pod_annotation(e.pod, "mem", mem_limit_str') /\ pc' = "core"
    BY <1>4 DEF QueryMemory, e
  <2>2. /\ mem_limit_str' \in AllMem \cup {NULL}
        /\ e.pod \in Pods => mem_limit_str' \in MemTexts[e.pod] \cup {NULL}
    BY <1>1, <2>1, Answered
  <2>3. e.id \in Clients => mem_limit_str' \in MemTexts[PodOf[e.id]] \cup {NULL}
    BY <1>3, <2>2
  <2>4. WatchInv'  BY <1>1, <1>2, <2>1, <2>2, <2>3 DEF WatchInv, e
  <2> QED BY <1>4, <2>4, WatcherStep DEF QueryMemory, podVars
<1>5. CASE QueryCore
  <2>1. k8s_get_pod_annotation(e.pod, "core", core_limit_str')
    BY <1>5 DEF QueryCore, e
  <2>2. /\ core_limit_str' \in AllCore \cup {NULL}
        /\ e.pod \in Pods => core_limit_str' \in CoreTexts[e.pod] \cup {NULL}
    BY <1>1, <2>1, Answered
  <2>3. e.id \in Clients => core_limit_str' \in CoreTexts[PodOf[e.id]] \cup {NULL}
    BY <1>3, <2>2
  <2>4. pc' = "apply" /\ pc = "core" /\ UNCHANGED mem_limit_str
    BY <1>5 DEF QueryCore
  <2>5. WatchInv'  BY <1>1, <1>2, <2>2, <2>3, <2>4 DEF WatchInv, e
  <2> QED BY Zenon, <1>5, <2>5, WatcherStep DEF QueryCore, podVars
<1> QED BY <1>4, <1>5

(* A client after the limits that were read: a registered one gets only its *)
(* own, and what would end an unregistered one still does.                  *)
LEMMA UpdatedClient ==
  ASSUME NEW c \in Clients, toClient[c] \in Seq(Msgs),
         {"registered", "pod"} \subseteq DOMAIN rec[c],
         mem_limit_str \in AllMem \cup {NULL}, core_limit_str \in AllCore \cup {NULL}
  PROVE  LET u == Updated(c)
         IN  /\ u.q \in Seq(Msgs) /\ Kept(u.r, rec[c])
             /\ /\ AllOwn(c, toClient[c])
                /\ mem_limit_str \in MemTexts[PodOf[c]] \cup {NULL}
                /\ core_limit_str \in CoreTexts[PodOf[c]] \cup {NULL}
                => AllOwn(c, u.q)
             /\ Fatal(toClient[c]) \/ toClient[c] = <<>> => Fatal(u.q) \/ u.q = <<>>
<1> DEFINE mem == IF mem_limit_str = NULL THEN 0
                  ELSE k8s_parse_memory_size(mem_limit_str)
           core == IF ValidCore(core_limit_str) THEN core_limit_str ELSE 100
           s == IF mem > 0 /\ mem # rec[c].memory_limit
                THEN SetMemory(c, Client(c), mem) ELSE Client(c)
           Mine == /\ mem_limit_str \in MemTexts[PodOf[c]] \cup {NULL}
                   /\ core_limit_str \in CoreTexts[PodOf[c]] \cup {NULL}
           q == toClient[c]
<1>1. Client(c).q = q /\ Client(c).r = rec[c]  BY DEF Client
<1>2. core \in Values /\ (Mine => core \in OwnCore(c))
  BY DEF Values, ValidCore, OwnCore
<1>3. mem > 0 => mem \in Values /\ (Mine => mem \in OwnMem(c))
  <2>1. CASE mem_limit_str = NULL  BY <2>1
  <2>2. CASE mem_limit_str # NULL  BY <2>2 DEF Values, OwnMem
  <2> QED BY <2>1, <2>2
<1>4. Updated(c) = IF core # rec[c].core_limit THEN SetCore(c, s, core) ELSE s
  BY DEF Updated
<1> HIDE DEF mem, core, Mine
<1>5. /\ s.q \in Seq(Msgs) /\ Kept(s.r, rec[c])
      /\ Mine /\ AllOwn(c, q) => AllOwn(c, s.q)
      /\ Fatal(q) \/ q = <<>> => Fatal(s.q) \/ s.q = <<>>
  <2>1. CASE mem > 0 /\ mem # rec[c].memory_limit
    <3>1. s = SetMemory(c, Client(c), mem) /\ mem \in Values  BY <1>3, <2>1
    <3>2. s.q = send_message(c, q, "UPDATE_LIMIT", mem) /\ Kept(s.r, rec[c])
      <4>1. {"registered", "pod"} \subseteq DOMAIN Client(c).r  BY <1>1
      <4> HIDE DEF s
      <4>2. /\ s.q = send_message(c, Client(c).q, "UPDATE_LIMIT", mem)
            /\ Kept(s.r, Client(c).r)
        BY Zenon, <3>1, <4>1, MemorySet
      <4> QED BY <1>1, <4>2
    <3>3. Mine => Own(c, [type |-> "UPDATE_LIMIT", value |-> mem])
      BY <1>3, <2>1 DEF Own
    <3> HIDE DEF s
    <3> QED BY Zenon, <3>1, <3>2, <3>3, Sent DEF Types
  <2>2. CASE ~(mem > 0 /\ mem # rec[c].memory_limit)
    <3>1. s = Client(c)  BY <2>2
    <3> QED BY Zenon, <1>1, <3>1 DEF Kept
  <2> QED BY Zenon, <2>1, <2>2
<1> HIDE DEF s
<1> DEFINE u == IF core # rec[c].core_limit THEN SetCore(c, s, core) ELSE s
<1>6. /\ u.q \in Seq(Msgs) /\ Kept(u.r, rec[c])
      /\ Mine /\ AllOwn(c, s.q) => AllOwn(c, u.q)
      /\ Fatal(s.q) \/ s.q = <<>> => Fatal(u.q) \/ u.q = <<>>
  <2>1. CASE core # rec[c].core_limit
    <3>1. u = SetCore(c, s, core)  BY <2>1
    <3>2. u.q = send_message(c, s.q, "UPDATE_CORE_LIMIT", core) /\ Kept(u.r, s.r)
      <4>1. {"registered", "pod"} \subseteq DOMAIN s.r  BY Zenon, <1>5 DEF Kept
      <4> HIDE DEF u
      <4> QED BY Zenon, <3>1, <4>1, CoreSet
    <3>3. Mine => Own(c, [type |-> "UPDATE_CORE_LIMIT", value |-> core])
      BY <1>2 DEF Own
    <3>4. Kept(u.r, rec[c])  BY Zenon, <1>5, <3>2 DEF Kept
    <3> HIDE DEF u
    <3> QED BY Zenon, <1>2, <1>5, <3>2, <3>3, <3>4, Sent DEF Types
  <2>2. CASE core = rec[c].core_limit
    <3>1. u = s  BY <2>2
    <3> QED BY Zenon, <1>5, <3>1
  <2> QED BY Zenon, <2>1, <2>2
<1>7. Updated(c) = u  BY <1>4
<1> HIDE DEF u
<1> QED BY <1>5, <1>6, <1>7 DEF Mine

LEMMA UpdateInv ==
  ASSUME WatcherInv, Update
  PROVE  WatcherInv'
<1> DEFINE found == {k \in DOMAIN clients : Id(clients[k]) = Head(snapshot).id}
<1>1. ListInv /\ Domains /\ WatchInv /\ \A d \in Clients : ClientInv(d)
  BY DEF WatcherInv
<1>2. /\ pc = "apply" /\ pc' = "mem" /\ snapshot' = Tail(snapshot) /\ registering = NULL
      /\ UNCHANGED <<annotations, libVars, clients, registering>>
      /\ IF found = {} THEN UNCHANGED <<rec, toClient>>
         ELSE \E k \in found : Becomes(clients[k], Updated(clients[k]))
  BY DEF Update, MutexFree, podVars
<1>3. WatchInv'
  <2>1. snapshot \in Seq([id : Clients \cup {UNREGISTERED}, pod : AllPods])
        /\ snapshot # <<>>
    BY <1>1, <1>2 DEF WatchInv
  <2>2. /\ snapshot' \in Seq([id : Clients \cup {UNREGISTERED}, pod : AllPods])
        /\ Len(snapshot') = Len(snapshot) - 1
        /\ \A n \in 1 .. Len(snapshot') : snapshot'[n] = snapshot[n + 1]
    BY <1>2, <2>1, HeadTailProperties
  <2>3. /\ Len(snapshot) \in Nat /\ DOMAIN snapshot = 1 .. Len(snapshot)
        /\ DOMAIN snapshot' = 1 .. Len(snapshot')
    BY <2>1, <2>2, LenProperties
  <2>4. \A n \in DOMAIN snapshot' : n + 1 \in DOMAIN snapshot /\ snapshot'[n] = snapshot[n + 1]
    BY <2>2, <2>3
  <2> QED BY Zenon, <1>1, <1>2, <2>2, <2>4 DEF WatchInv
<1>4. CASE found = {}
  BY <1>2, <1>3, <1>4, WatcherStep DEF mainVars
<1>5. CASE found # {}
  <2>1. PICK k \in found : Becomes(clients[k], Updated(clients[k]))  BY <1>2, <1>5
  <2> DEFINE c == clients[k]
             u == Updated(c)
  <2>2. c \in Clients /\ c \in Range(clients) /\ Id(c) = Head(snapshot).id
    BY <1>1, Listed DEF Range
  <2>3. /\ toClient[c] \in Seq(Msgs) /\ {"registered", "pod"} \subseteq DOMAIN rec[c]
        /\ rec[c].registered \in BOOLEAN /\ rec[c].pod \in AllPods
        /\ (rec[c].registered => rec[c].pod = PodOf[c]) /\ ClientInv(c)
    BY <1>1, <2>2 DEF ListInv, Domains
  <2>4. mem_limit_str \in AllMem \cup {NULL} /\ core_limit_str \in AllCore \cup {NULL}
    BY <1>1, <1>2 DEF WatchInv
  <2>5. rec[c].registered => /\ mem_limit_str \in MemTexts[PodOf[c]] \cup {NULL}
                             /\ core_limit_str \in CoreTexts[PodOf[c]] \cup {NULL}
    BY <1>1, <1>2, <2>2 DEF WatchInv, Id
  <2>6. /\ u.q \in Seq(Msgs) /\ Kept(u.r, rec[c])
        /\ rec[c].registered /\ AllOwn(c, toClient[c]) => AllOwn(c, u.q)
        /\ Fatal(toClient[c]) \/ toClient[c] = <<>> => Fatal(u.q) \/ u.q = <<>>
    BY Zenon, <2>2, <2>3, <2>4, <2>5, UpdatedClient
  <2>7. Becomes(c, u)  BY <2>1
  <2> HIDE DEF u, c, found
  <2>8. /\ {"registered", "pod"} \subseteq DOMAIN u.r /\ u.r.pod \in AllPods
        /\ u.r.registered \in BOOLEAN /\ (u.r.registered => u.r.pod = PodOf[c])
        /\ (rec[c].registered => u.r.registered)
    BY <2>3, <2>6 DEF Kept
  <2>9. proc[c] = "up" => AllOwn(c, u.q)
    BY Zenon, <2>3, <2>6 DEF ClientInv, Registered
  <2>10. proc[c] = "registering" =>
          Fatal(u.q) \/ u.q = <<>> \/ (u.r.registered /\ AllOwn(c, u.q))
    BY Zenon, <2>3, <2>6, <2>8 DEF ClientInv, Registered
  <2>11. InList(c)  BY <2>2 DEF InList
  <2> QED BY Zenon, <1>2, <1>3, <2>2, <2>6, <2>8, <2>9, <2>10, <2>11, <2>7, BecomesInv
<1> QED BY <1>4, <1>5

-----------------------------------------------------------------------------
LEMMA WatcherInvariant == Spec => []WatcherInv
<1>1. Init => WatcherInv  BY InitInv
<1>2. WatcherInv /\ [Next]_vars => WatcherInv'
  <2> SUFFICES ASSUME WatcherInv, [Next]_vars  PROVE WatcherInv'
    OBVIOUS
  <2>1. CASE \E c \in Clients : Accept(c)  BY <2>1, AcceptInv
  <2>2. CASE \E c \in Clients : RegisterCore(c)  BY <2>2, RegisterCoreInv
  <2>3. ASSUME NEW c \in Clients, delete_client(c)  PROVE WatcherInv'
    <3>1. InList(c) /\ registering = NULL /\ Forget(c)
      BY <2>3 DEF delete_client, MutexFree, InList
    <3>2. UNCHANGED <<annotations, client_core_limit, hook, toClient, registering,
                      watchVars>>
      BY <2>3 DEF delete_client, podVars
    <3> QED BY <3>1, <3>2, ForgetInv
  <2>4. CASE RegisterMemory  BY <2>4, RegisterMemoryInv
  <2>5. CASE Snapshot  BY <2>5, SnapshotInv
  <2>6. CASE QueryMemory \/ QueryCore  BY <2>6, QueryInv
  <2>7. CASE Sleep
    <3>1. WatchInv'  BY <2>7 DEF Sleep, WatcherInv, WatchInv
    <3> QED BY <2>7, <3>1, WatcherStep DEF Sleep, podVars
  <2>8. CASE Update  BY <2>8, UpdateInv
  <2>9. CASE \E p \in Pods : Annotate(p)  BY <2>9, AnnotateInv
  <2>10. CASE \E c \in Clients : Start(c)  BY <2>10, StartInv
  <2>11. ASSUME NEW c \in Clients, Die(c)  PROVE WatcherInv'
    <3>1. Ends(c) /\ UNCHANGED <<annotations, mainVars, watchVars>>
      BY <2>11 DEF Die, podVars
    <3> QED BY <3>1, EndsInv
  <2>12. CASE \E c \in Clients : Receive(c)  BY <2>12, ReceiveInv
  <2>13. CASE \E c \in Clients : Application(c)  BY <2>13, ApplicationInv
  <2>14. CASE UNCHANGED vars
    <3>1. UNCHANGED <<annotations, libVars, toClient, mainVars, watchVars>>
      BY <2>14 DEF vars, podVars
    <3>2. WatchInv'  BY <3>1 DEF WatcherInv, WatchInv, watchVars
    <3> QED BY <3>1, <3>2, WatcherStep
  <2> QED
    BY <2>1, <2>2, <2>3, <2>4, <2>5, <2>6, <2>7, <2>8, <2>9, <2>10, <2>11, <2>12,
       <2>13, <2>14 DEF Next, Main, annotation_watcher_fn
<1> QED BY <1>1, <1>2, PTL DEF Spec

(* No client that runs ever has a limit of another pod: whoever leaves and  *)
(* comes between the snapshot of the watcher, its queries without the mutex *)
(* and the update, and whatever pod names malloc leaves in new records.     *)
THEOREM OwnPodCorrect == Spec => []OwnPod
<1>1. WatcherInv => OwnPod
  BY Zenon DEF WatcherInv, ClientInv, OwnPod, OwnCore, OwnMem
<1> QED BY <1>1, WatcherInvariant, PTL

=============================================================================
