----------------------------- MODULE MCMillis -----------------------------
(***************************************************************************)
(* Quota for TLC: two limited clients, together over 100 percent, and one  *)
(* without a limit.                                                        *)
(***************************************************************************)
EXTENDS Quota, TLC

CONSTANTS c1, c2, u

MCClients == {c1, c2, u}
MCCoreLimit == c1 :> 50 @@ c2 :> 75 @@ u :> 100

=============================================================================
