----------------------------- MODULE MCMcpPlan -----------------------------
(***************************************************************************)
(* An instance of McpPlan for TLC: two nodes, one of them also under       *)
(* another domain, and configurations that differ from the first in one    *)
(* setting each.                                                           *)
(***************************************************************************)
EXTENDS McpPlan, TLC

CONSTANTS n1, n2, n1x

Names == {n1, n2, n1x}
ShortNames == n1 :> n1 @@ n2 :> n2 @@ n1x :> n1

First == [cluster |-> "c1", login |-> "login", protected |-> {}, known |-> Names, above |-> 2]
AllConfigs ==
  {First, [First EXCEPT !.cluster = "c2"], [First EXCEPT !.login = "wlm"],
   [First EXCEPT !.protected = {n1x}], [First EXCEPT !.above = 1]}
Pairs == {{n1, n2}}
CallSymmetry == Permutations(Calls)
=============================================================================
