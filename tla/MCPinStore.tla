----------------------------- MODULE MCPinStore -----------------------------
(***************************************************************************)
(* Instances of PinStore for TLC: a command with two handshakes at once    *)
(* and a second command with one, or two commands with one each.           *)
(***************************************************************************)
EXTENDS PinStore, TLC

CONSTANTS p1, p2, c1, c2, c3, h1, h2, k1, k2

ThreeClients == c1 :> p1 @@ c2 :> p1 @@ c3 :> p2
TwoClients == c1 :> p1 @@ c3 :> p2
=============================================================================
