----------------------------- MODULE MCBmcPower -----------------------------
(***************************************************************************)
(* An instance of BmcPower for TLC: one node for each kind of order, two   *)
(* accounts, two batches.                                                  *)
(***************************************************************************)
EXTENDS BmcPower, TLC

CONSTANTS n1, n2, n3, site, vendor

Orders == n1 :> <<"redfish", "ipmi">> @@ n2 :> <<"ipmi", "redfish">> @@ n3 :> <<"ipmi">>
Accounts == n1 :> site @@ n2 :> vendor @@ n3 :> site
TwoBatches == <<{n1, n2}, {n3}>>
=============================================================================
