----------------------------- MODULE MCReinstall -----------------------------
(***************************************************************************)
(* Instances of Reinstall for TLC: two nodes and a fan-out of one or two.  *)
(***************************************************************************)
EXTENDS Reinstall, TLC

CONSTANTS n1, n2

TwoNodes == {n1, n2}
OneNode == {n1}
NoNode == {}
=============================================================================
