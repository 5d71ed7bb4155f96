------------------------------ MODULE MCWatcher ------------------------------
(* Two clients in two pods, of which one has a memory limit and the other a *)
(* compute limit, so that a limit tells which pod it came from.  The record *)
(* of c1 starts with the name of the other pod, and with a memory limit     *)
(* that is also the annotated one.  Two allocations fit in the limit of the *)
(* environment and not in the one that p1 is annotated with at first.       *)
EXTENDS Watcher, TLC

CONSTANTS c1, c2, p1, p2

MCClients == {c1, c2}
MCPods == {p1, p2}
MCPodOf == (c1 :> p1) @@ (c2 :> p2)
Size(n, s) == [n |-> n, suffix |-> s]
MCMemTexts == (p1 :> {Size(1, "Ki"), Size(4, "")}) @@ (p2 :> {})
MCCoreTexts == (p1 :> {}) @@ (p2 :> {60})
MCManifests == (p1 :> [mem |-> Size(1, "Ki"), core |-> NULL])
               @@ (p2 :> [mem |-> NULL, core |-> 60])
MCSizes == (c1 :> {2}) @@ (c2 :> {})
MCGarbagePods == (c1 :> {p2}) @@ (c2 :> {NULL})
MCEnvLimits == {Size(2, "K")}
=============================================================================
