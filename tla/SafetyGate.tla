----------------------------- MODULE SafetyGate -----------------------------
(***************************************************************************)
(* The safety gate of internal/safety: which hosts an action may touch,    *)
(* which question is asked before it, and which answer lets it through.    *)
(* A gate is a record with the hosts the site protects, the hosts its      *)
(* inventory knows and the count above which the number of hosts is typed. *)
(***************************************************************************)
EXTENDS Naturals, FiniteSets

CONSTANTS
  Hosts,  \* the names a node set may hold
  Short   \* the short name of each

ASSUME GateAssumption == IsFiniteSet(Hosts) /\ DOMAIN Short = Hosts

\* ProtectedIn: a host is also protected under another domain than its own.
ProtectedIn(gate, T) ==
  {t \in T : t \in gate.protected \/ \E h \in gate.protected : Short[h] = Short[t]}

\* check: with --force, only that a host was selected.
Check(gate, T, force) ==
  /\ T # {}
  /\ \/ force
     \/ ProtectedIn(gate, T) = {} /\ T \subseteq gate.known

\* Preview: what is asked of an action that passed.
Preview(gate, T) ==
  [targets |-> T, count |-> Cardinality(T), countRequired |-> Cardinality(T) > gate.above]

(***************************************************************************)
(* An answer is what a form was sent back with: accepted or not, the field *)
(* it has, and the number in it, which is 1 for a ticked "confirm".        *)
(***************************************************************************)
Form(preview) == IF preview.countRequired THEN "count" ELSE "confirm"

\* answerText and Accept: a field the rule does not ask for is no answer.
Accept(preview, answer) ==
  /\ answer.action = "accept"
  /\ answer.form = Form(preview)
  /\ answer.n = IF preview.countRequired THEN preview.count ELSE 1
=============================================================================
