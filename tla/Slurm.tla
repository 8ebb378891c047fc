------------------------------- MODULE Slurm -------------------------------
(***************************************************************************)
(* The nodes as slurmctld has them, and the commands that change them from *)
(* several desks: slurm node drain, slurm node resume, and a power action, *)
(* which asks Slurm for jobs first.  slurmctld is outside: it starts and   *)
(* ends jobs, reads a word as the nodes its configuration says, and stops  *)
(* an update half way when it cannot change a node.                        *)
(***************************************************************************)
EXTENDS Naturals, FiniteSets

CONSTANTS
  Nodes,        \* the machines, under the names of the inventory
  Words,        \* names of the inventory that are no machine's
  Reads,        \* of a name, the nodes slurmctld takes it for
  Unlisted,     \* machines Slurm knows by another name, or not at all
  Desks,        \* where commands are typed
  Asked,        \* of a desk, the commands typed there
  Reasons,      \* the reasons given for draining
  Turns         \* bound: what Slurm and other administrators do meanwhile

All == "all"
NoReason == "none"
Nobody == "nobody"
Hand == "hand"

SlurmConstants ==
  /\ Nodes \cap Words = {} /\ Unlisted \subseteq Nodes /\ Turns \in Nat
  /\ \A w \in Nodes \cup Words : Reads[w] \subseteq Nodes
  /\ NoReason \notin Reasons /\ {Nobody, Hand} \cap Desks = {}
  /\ \A d \in Desks : \A c \in Asked[d] :
       \/ c.verb = "drain" /\ c.named \subseteq Nodes \cup Words /\ c.why \in Reasons
       \/ c.verb = "resume" /\ c.named \subseteq Nodes \cup Words /\ c.why = NoReason
       \/ c.verb = "power" /\ c.named \subseteq Nodes

VARIABLES
  job,          \* of a node: "none", "running" or "completing"
  drained,      \* its DRAIN flag
  reason,       \* its reason
  maint,        \* it is in a maintenance reservation
  off,          \* its power has been cut by a command here
  pc, cmd,      \* of a desk, where its command is, and which it is
  jobs,         \* of a desk, what the job check read of each node
  result,       \* what the command said in the end
  fresh,        \* history: nodes a job started on since a desk's check
  touched,      \* history: who changed a node last
  changed,      \* history: nodes an update changed
  lost,         \* history: nodes a desk cut the power of under a job
  turns

vars == <<job, drained, reason, maint, off, pc, cmd, jobs, result, fresh, touched,
          changed, lost, turns>>
node == <<job, drained, reason, maint, off>>
history == <<fresh, touched, changed, lost>>

Command(verb, named, why, loseJobs) ==
  [verb |-> verb, named |-> named, why |-> why, loseJobs |-> loseJobs]
NoResult == [what |-> "none", done |-> {}]
Said(what, done) == [what |-> what, done |-> done]

(***************************************************************************)
(* What sinfo says of a node.                                              *)
(***************************************************************************)
State(n) ==
  CASE off[n] -> "down"
    [] ~off[n] /\ drained[n] -> IF job[n] = "none" THEN "drained" ELSE "draining"
    [] ~off[n] /\ ~drained[n] /\ job[n] = "running" -> "allocated"
    [] ~off[n] /\ ~drained[n] /\ job[n] # "running" /\ maint[n] -> "maint"
    [] ~off[n] /\ ~drained[n] /\ job[n] = "completing" /\ ~maint[n] -> "completing"
    [] OTHER -> "idle"

Drain(state) == state \in {"draining", "drained"}

\* jobVerdict, and the states known to run jobs or to run none.
BusyStates == {"allocated", "mixed", "completing", "draining", "failing"}
IdleStates == {"idle", "drained", "down", "future", "planned", "reserved", "powered_down"}

classifyState(s) ==
  IF s \in BusyStates THEN "busy" ELSE IF s \in IdleStates THEN "idle" ELSE "strange"

Listed(n) == n \notin Unlisted

JobCheck(nodes) == [n \in nodes |-> IF Listed(n) THEN classifyState(State(n)) ELSE "unreported"]

Idle(seen) == \A n \in DOMAIN seen : seen[n] = "idle"

(***************************************************************************)
(* Slurm, and administrators who do not use clusterctl.                    *)
(***************************************************************************)
Turn == turns < Turns /\ turns' = turns + 1
Apart == UNCHANGED <<pc, cmd, jobs, result>>

JobStarts(n) ==
  /\ Turn /\ job[n] = "none" /\ ~drained[n] /\ ~maint[n] /\ ~off[n]
  /\ job' = [job EXCEPT ![n] = "running"]
  /\ fresh' = [d \in Desks |-> fresh[d] \cup {n}]
  /\ UNCHANGED <<drained, reason, maint, off, touched, changed, lost>> /\ Apart

JobGoes(n) ==
  /\ Turn /\ job[n] # "none"
  /\ job' = [job EXCEPT ![n] = IF @ = "running" THEN "completing" ELSE "none"]
  /\ UNCHANGED <<drained, reason, maint, off, history>> /\ Apart

Maintenance(n) ==
  /\ Turn /\ ~maint[n] /\ maint' = [maint EXCEPT ![n] = TRUE]
  /\ UNCHANGED <<job, drained, reason, off, history>> /\ Apart

ByHand(n) ==
  /\ Turn /\ touched' = [touched EXCEPT ![n] = Hand]
  /\ \/ /\ drained[n] /\ drained' = [drained EXCEPT ![n] = FALSE]
        /\ reason' = [reason EXCEPT ![n] = NoReason]
     \/ /\ drained' = [drained EXCEPT ![n] = TRUE]
        /\ \E r \in Reasons : reason' = [reason EXCEPT ![n] = r]
  /\ UNCHANGED <<job, maint, off, fresh, changed, lost>> /\ Apart

(***************************************************************************)
(* A command, from its line to the question.                               *)
(***************************************************************************)
Go(d, at) == pc' = [pc EXCEPT ![d] = at]
Over(d, r) == Go(d, "over") /\ result' = [result EXCEPT ![d] = r]

Type(d) ==
  /\ pc[d] = "idle" /\ Go(d, "check")
  /\ \E c \in Asked[d] : cmd' = [cmd EXCEPT ![d] = c]
  /\ UNCHANGED <<node, jobs, result, history, turns>>

\* refuseAll, then sinfo reads the words as scontrol will, and prints the names
\* Slurm has for the nodes.
refuseAll(named) == All \in named

ReadAs(named) == UNION {Reads[w] : w \in named}

\* Only words Slurm does not know are refused.
CheckedKnown(named) == ~refuseAll(named) /\ named \cap Nodes \subseteq ReadAs(named)

CheckedNodes(named) ==
  ~refuseAll(named) /\ ReadAs(named) = named /\ named \cap Unlisted = {}

CheckNodes(d) ==
  /\ pc[d] = "check" /\ cmd[d].verb # "power"
  /\ IF CheckedNodes(cmd[d].named) THEN Go(d, "confirm") /\ UNCHANGED result
     ELSE Over(d, Said("refused", {}))
  /\ UNCHANGED <<node, cmd, jobs, history, turns>>

NotChecked(d) ==
  /\ pc[d] = "check" /\ (cmd[d].verb = "power" => ~cmd[d].loseJobs)
  /\ Over(d, Said("not_asked", {}))
  /\ UNCHANGED <<node, cmd, jobs, history, turns>>

\* checkSlurmIdle fails closed: every node has to be known to run no job.
checkSlurmIdle(d) ==
  LET seen == JobCheck(cmd[d].named) IN
  /\ pc[d] = "check" /\ cmd[d].verb = "power"
  /\ jobs' = [jobs EXCEPT ![d] = seen]
  /\ fresh' = [fresh EXCEPT ![d] = {}]
  /\ IF cmd[d].loseJobs \/ Idle(seen) THEN Go(d, "confirm") /\ UNCHANGED result
     ELSE Over(d, Said("refused", {}))
  /\ UNCHANGED <<node, cmd, touched, changed, lost, turns>>

\* The same, of a Slurm that cannot be asked.
CheckSkipped(d) ==
  /\ pc[d] = "check" /\ cmd[d].verb = "power" /\ cmd[d].loseJobs
  /\ fresh' = [fresh EXCEPT ![d] = {}] /\ Go(d, "confirm")
  /\ UNCHANGED <<node, cmd, jobs, result, touched, changed, lost, turns>>

Confirm(d) ==
  /\ pc[d] = "confirm"
  /\ \/ Go(d, IF cmd[d].verb = "power" THEN "cut" ELSE "update") /\ UNCHANGED result
     \/ Over(d, Said("declined", {}))
  /\ UNCHANGED <<node, cmd, jobs, history, turns>>

(***************************************************************************)
(* scontrol update: slurmctld changes the nodes it reaches and stops at    *)
(* the first it cannot change; the answer may be lost after all of them.   *)
(***************************************************************************)
Apply(d, done) ==
  /\ drained' = [n \in Nodes |-> IF n \in done THEN cmd[d].verb = "drain" ELSE drained[n]]
  /\ reason' = [n \in Nodes |-> IF n \in done THEN cmd[d].why ELSE reason[n]]
  /\ touched' = [n \in Nodes |-> IF n \in done THEN d ELSE touched[n]]
  /\ changed' = [changed EXCEPT ![d] = @ \cup done]

Update(d) ==
  LET nodes == ReadAs(cmd[d].named) IN
  /\ pc[d] = "update"
  /\ \/ Apply(d, nodes) /\ Over(d, Said("ok", cmd[d].named))
     \/ \E done \in SUBSET nodes : Apply(d, done) /\ Go(d, "read_back") /\ UNCHANGED result
  /\ UNCHANGED <<job, maint, off, cmd, jobs, fresh, lost, turns>>

DrainedWithReason(d, n) == Drain(State(n)) /\ reason[n] = cmd[d].why

Changed(d, n) ==
  IF cmd[d].verb = "drain" THEN DrainedWithReason(d, n)
  ELSE ~Drain(State(n)) /\ State(n) # "down"

readBack(d) ==
  /\ pc[d] = "read_back"
  /\ \/ Over(d, Said("failed_read_back", {n \in cmd[d].named : Listed(n) /\ Changed(d, n)}))
     \/ Over(d, Said("failed_not_known", {}))
  /\ UNCHANGED <<node, cmd, jobs, history, turns>>

(***************************************************************************)
(* The power action, one node after the other.                             *)
(***************************************************************************)
Cut(d, n) ==
  /\ pc[d] = "cut" /\ n \in cmd[d].named /\ ~off[n]
  /\ off' = [off EXCEPT ![n] = TRUE]
  /\ lost' = IF job[n] # "none" THEN [lost EXCEPT ![d] = @ \cup {n}] ELSE lost
  /\ job' = [job EXCEPT ![n] = "none"]
  /\ UNCHANGED <<drained, reason, maint, pc, cmd, jobs, result, fresh, touched, changed, turns>>

CutOver(d) ==
  /\ pc[d] = "cut" /\ \A n \in cmd[d].named : off[n]
  /\ Over(d, Said("ok", cmd[d].named))
  /\ UNCHANGED <<node, cmd, jobs, history, turns>>

Init ==
  /\ job \in [Nodes -> {"none", "running"}]
  /\ drained \in [Nodes -> BOOLEAN]
  /\ reason \in [Nodes -> Reasons \cup {NoReason}]
  /\ \A n \in Nodes : reason[n] = NoReason <=> ~drained[n]
  /\ maint = [n \in Nodes |-> FALSE] /\ off = [n \in Nodes |-> FALSE]
  /\ pc = [d \in Desks |-> "idle"]
  /\ cmd = [d \in Desks |-> Command("none", {}, NoReason, FALSE)]
  /\ jobs = [d \in Desks |-> <<>>] /\ result = [d \in Desks |-> NoResult]
  /\ fresh = [d \in Desks |-> {}] /\ touched = [n \in Nodes |-> Nobody]
  /\ changed = [d \in Desks |-> {}] /\ lost = [d \in Desks |-> {}] /\ turns = 0

Next ==
  \/ \E n \in Nodes : JobStarts(n) \/ JobGoes(n) \/ Maintenance(n) \/ ByHand(n)
  \/ \E d \in Desks :
       \/ Type(d) \/ CheckNodes(d) \/ NotChecked(d) \/ checkSlurmIdle(d) \/ CheckSkipped(d)
       \/ Confirm(d) \/ Update(d) \/ readBack(d) \/ CutOver(d)
       \/ \E n \in Nodes : Cut(d, n)

Spec == Init /\ [][Next]_vars

(***************************************************************************)
(* Properties.                                                             *)
(***************************************************************************)
TypeOK ==
  /\ job \in [Nodes -> {"none", "running", "completing"}]
  /\ \A n \in Nodes : reason[n] = NoReason <=> ~drained[n]
  /\ pc \in [Desks -> {"idle", "check", "confirm", "update", "read_back", "cut", "over"}]
  /\ \A d \in Desks : DOMAIN jobs[d] \subseteq Nodes /\ lost[d] \subseteq Nodes

\* A job is cut off only by a command that was told to lose jobs, or when it
\* started after that command had seen its node free of jobs: a node that was
\* drained by then, and that nobody has resumed since, loses nothing.  Not
\* while it completes in a reservation, nor on a node Slurm knows by another
\* name.
JobsAreSeen ==
  \A d \in Desks : ~cmd[d].loseJobs => lost[d] \subseteq fresh[d]

\* An update reaches the nodes the question named and no other, whatever
\* their names mean to slurmctld.
OnlyNamedChange == \A d \in Desks : changed[d] \subseteq cmd[d].named

\* What a failed update says afterwards is so: a node it changed, and nobody
\* has touched since, is among those that are changed, and one that another
\* has drained for a reason of their own is not.
ReadBackIsTrue ==
  \A d \in Desks : pc[d] = "over" /\ result[d].what = "failed_read_back" =>
    /\ \A n \in result[d].done :
         cmd[d].verb = "drain" /\ touched[n] = Nobody => reason[n] = cmd[d].why
    /\ \A n \in changed[d] : touched[n] = d /\ ~off[n] => n \in result[d].done

(***************************************************************************)
(* What holds of the nodes and of every desk, and the properties rest on.  *)
(***************************************************************************)
Values ==
  /\ drained \in [Nodes -> BOOLEAN] /\ off \in [Nodes -> BOOLEAN]
  /\ maint \in [Nodes -> BOOLEAN] /\ reason \in [Nodes -> Reasons \cup {NoReason}]
  /\ touched \in [Nodes -> Desks \cup {Nobody, Hand}]
  /\ fresh \in [Desks -> SUBSET Nodes] /\ changed \in [Desks -> SUBSET Nodes]
  /\ lost \in [Desks -> SUBSET Nodes]
  /\ DOMAIN cmd = Desks /\ DOMAIN jobs = Desks /\ DOMAIN result = Desks
  /\ \A d \in Desks : /\ pc[d] # "idle" => cmd[d] \in Asked[d]
                      /\ result[d].what = "failed_read_back" => result[d].done \subseteq Nodes

\* A node without power runs no job.
PowerInv == \A n \in Nodes : off[n] => job[n] = "none"

\* What is updated was checked, and only a power action cuts power.
CheckedInv ==
  \A d \in Desks :
    /\ \/ pc[d] \in {"update", "read_back"}
       \/ pc[d] = "confirm" /\ cmd[d].verb # "power"
       => cmd[d].verb # "power" /\ CheckedNodes(cmd[d].named)
    /\ pc[d] = "cut" => cmd[d].verb = "power"

\* Since the check of a desk a job is only on a node where one has started.
SeenInv ==
  \A d \in Desks :
    pc[d] \in {"confirm", "cut"} /\ cmd[d].verb = "power" /\ ~cmd[d].loseJobs =>
      \A n \in cmd[d].named : job[n] # "none" => n \in fresh[d]

\* Nothing is changed and no job lost before the question is answered.
QuietInv ==
  \A d \in Desks :
    /\ pc[d] \in {"idle", "check", "confirm"} => changed[d] = {}
    /\ pc[d] \notin {"cut", "over"} => lost[d] = {}

\* A node that a desk changed last is as that desk wanted it.
TouchedInv ==
  \A d \in Desks : \A n \in Nodes :
    touched[n] = d =>
      /\ n \in changed[d] /\ reason[n] = cmd[d].why
      /\ drained[n] <=> cmd[d].verb = "drain"

Inv ==
  /\ TypeOK /\ Values /\ PowerInv /\ CheckedInv /\ SeenInv /\ QuietInv /\ TouchedInv
  /\ JobsAreSeen /\ OnlyNamedChange /\ ReadBackIsTrue
=============================================================================
