------------------------------ MODULE McpPlan ------------------------------
(***************************************************************************)
(* The changes an agent makes through "clusterctl mcp serve": plan_change  *)
(* and apply_plan, the plans waiting to be applied, the question put to    *)
(* the administrator, the audit log and the two places for calls.          *)
(*                                                                         *)
(* A call is a run of a handler.  apply_plan is run once to put its        *)
(* question and again, as a new run, to bring back the answer, which the   *)
(* client may be late with, bring twice, or bring after another question.  *)
(* The configuration is edited and plans expire meanwhile; the client      *)
(* gives up on a call at any step; the server stops and forgets all plans. *)
(***************************************************************************)
EXTENDS SafetyGate, Sequences

CONSTANTS
  Configs,       \* the configurations the site may have: gates with the
                 \* cluster of the pinned context and the host of Slurm's role
  Selections,    \* the node sets the agent may ask for
  Plans,         \* identities of plans
  Calls,         \* runs of handlers that may be under way
  MaxCalls,      \* maxCalls: the places
  MaxQuestions,  \* bound: questions put in all
  MaxEdits,      \* bound: edits of the configuration
  MaxStops       \* bound: times the server is stopped and started

ASSUME PlanAssumption ==
  /\ Configs # {} /\ Plans # {}
  /\ \A g \in Configs : g.protected \subseteq Hosts /\ g.known \subseteq Hosts /\ g.above \in Nat
  /\ Selections \subseteq SUBSET Hosts
  /\ IsFiniteSet(Calls) /\ MaxCalls \in Nat \ {0}
  /\ MaxQuestions \in Nat /\ MaxEdits \in Nat /\ MaxStops \in Nat

VARIABLES
  confirm,    \* Options.Confirm: "elicit" or "approval"
  config,     \* the configuration as it can be read now
  edits,      \* how often it was edited
  plan,       \* each plan, stored or not
  stored,     \* planStore.plans
  expired,    \* the plans whose time is over
  call,       \* the runs of the handlers
  cancelled,  \* the runs the client gave up on
  questions,  \* the questions put, whose index stands for their state
  answers,    \* what the administrator made of each
  goneAhead,  \* how often a run went ahead on the answer to each
  audit,      \* the lines of the audit log about each plan
  sent,       \* what was sent to Slurm for each plan
  stops       \* how often the server was stopped

world == <<confirm, config, edits, expired, stops>>
people == <<questions, answers, goneAhead>>
memory == <<plan, stored>>
record == <<audit, sent>>
vars == <<world, people, memory, record, call, cancelled>>

(***************************************************************************)
(* Types.                                                                  *)
(***************************************************************************)
SomeConfig == CHOOSE g \in Configs : TRUE

\* What a plan pinned, the state of its open question, 0 for none, and used.
NoPlan == [targets |-> {}, cluster |-> SomeConfig.cluster, login |-> SomeConfig.login,
           asked |-> 0, used |-> FALSE]

Clusters == {g.cluster : g \in Configs}
Logins == {g.login : g \in Configs}
PlanType == [targets : Selections \cup {{}}, cluster : Clusters, login : Logins,
             asked : 0 .. MaxQuestions, used : BOOLEAN]

\* What is sent is "scontrol update" for the targets on the host of the role.
Commands(g, T) == [login |-> g.login, nodes |-> T]

\* A run: the question it brings the answer to, 0 for none; the configuration
\* it read; the question whose answer it goes ahead on; and whether its plan
\* had expired when it began.
Steps == {"idle", "wait", "prepare", "note", "get", "reread", "confirm", "ssh",
          "take", "record", "send", "close"}
CallType == [pc : Steps, tool : {"plan_change", "apply_plan"}, plan : Plans,
             reply : 0 .. MaxQuestions, saw : Configs, by : 0 .. MaxQuestions, late : BOOLEAN]

SomePlan == CHOOSE p \in Plans : TRUE
Idle == [pc |-> "idle", tool |-> "plan_change", plan |-> SomePlan, reply |-> 0,
         saw |-> SomeConfig, by |-> 0, late |-> FALSE]

NoAnswer == [action |-> "none", form |-> "confirm", n |-> 0]
AnswerType == [action : {"none", "decline", "accept"}, form : {"confirm", "count"},
               n : Nat]

Init ==
  /\ confirm \in {"elicit", "approval"}
  /\ config \in Configs
  /\ edits = 0 /\ stops = 0
  /\ plan = [p \in Plans |-> NoPlan]
  /\ stored = {} /\ expired = {}
  /\ call = [c \in Calls |-> Idle]
  /\ cancelled = {}
  /\ questions = <<>>
  /\ answers = [q \in 1 .. MaxQuestions |-> NoAnswer]
  /\ goneAhead = [q \in 1 .. MaxQuestions |-> 0]
  /\ audit = [p \in Plans |-> {}]
  /\ sent = [p \in Plans |-> <<>>]

(***************************************************************************)
(* The site, the clock, the administrator and the client.                  *)
(***************************************************************************)
Edit ==
  /\ edits < MaxEdits
  /\ \E g \in Configs \ {config} : config' = g
  /\ edits' = edits + 1
  /\ UNCHANGED <<confirm, expired, stops, people, memory, record, call, cancelled>>

Expire(p) ==
  /\ p \in stored \ expired
  /\ expired' = expired \cup {p}
  /\ UNCHANGED <<confirm, config, edits, stops, people, memory, record, call, cancelled>>

\* The administrator fills in the form, with the right number, another one or no
\* tick, closes it, or never answers.
Answer(q) ==
  /\ q <= Len(questions) /\ answers[q] = NoAnswer
  /\ LET form == Form(questions[q])
         filled == IF form = "count" THEN {1, questions[q].count} ELSE {0, 1}
     IN \E a \in {[NoAnswer EXCEPT !.action = "decline"]}
                \cup [action : {"accept"}, form : {form}, n : filled] :
          answers' = [answers EXCEPT ![q] = a]
  /\ UNCHANGED <<world, questions, goneAhead, memory, record, call, cancelled>>

Moved(c, pc) == call' = [call EXCEPT ![c] = [@ EXCEPT !.pc = pc]]

\* A run ends: with a result, a question, or a refusal, which is recorded as
\* far as the log can be written, and the place is given back.
Ended(c) ==
  /\ call' = [call EXCEPT ![c] = Idle]
  /\ cancelled' = cancelled \ {c}

\* Runs that may still put a question.
MayAsk == {c \in Calls : call[c].pc # "idle" /\ call[c].tool = "apply_plan" /\ call[c].reply = 0}

Arrive(c) ==
  /\ call[c].pc = "idle"
  /\ \/ /\ \E p \in Plans : plan[p] = NoPlan
        /\ call' = [call EXCEPT ![c] = [Idle EXCEPT !.pc = "wait"]]
     \/ \E p \in Plans, q \in 0 .. Len(questions) :
          /\ plan[p] # NoPlan
          /\ IF q = 0 THEN Len(questions) + Cardinality(MayAsk) < MaxQuestions
                      ELSE answers[q] # NoAnswer
          /\ call' = [call EXCEPT ![c] = [Idle EXCEPT !.pc = "wait", !.tool = "apply_plan",
                                                      !.plan = p, !.reply = q]]
  /\ UNCHANGED <<world, people, memory, record, cancelled>>

Cancel(c) ==
  /\ call[c].pc # "idle"
  /\ cancelled' = cancelled \cup {c}
  /\ UNCHANGED <<world, people, memory, record, call>>

\* The server is stopped and started again: every plan is forgotten, and every
\* run is over, at whatever step it was.
Stop ==
  /\ stops < MaxStops
  /\ stops' = stops + 1
  /\ stored' = {}
  /\ call' = [c \in Calls |-> Idle]
  /\ cancelled' = {}
  /\ UNCHANGED <<confirm, config, edits, expired, people, plan, record>>

(***************************************************************************)
(* The places.                                                             *)
(***************************************************************************)
Placed == {c \in Calls : call[c].pc \notin {"idle", "wait"}}

Free == Cardinality(Placed) < MaxCalls

Place(c) ==
  /\ call[c].pc = "wait" /\ c \notin cancelled
  /\ Free
  /\ call' = [call EXCEPT ![c] =
               [@ EXCEPT !.pc = IF call[c].tool = "apply_plan" THEN "get" ELSE "prepare",
                         !.late = call[c].plan \in expired]]
  /\ UNCHANGED <<world, people, memory, record, cancelled>>

\* A call given up on while it waits is not run.
TurnAway(c) ==
  /\ call[c].pc = "wait" /\ c \in cancelled
  /\ Ended(c)
  /\ UNCHANGED <<world, people, memory, record>>

\* A run is turned down by what it reads: the arguments, the configuration, the
\* protected hosts, ssh or Slurm cannot be read, or the client cannot ask.
Refuse(c) ==
  /\ call[c].pc \in {"prepare", "get", "reread", "confirm", "ssh"}
  /\ Ended(c)
  /\ UNCHANGED <<world, people, memory, record>>

(***************************************************************************)
(* plan_change.                                                            *)
(***************************************************************************)
Prepare(c) ==
  /\ call[c].pc = "prepare"
  /\ \E p \in Plans, T \in Selections :
       /\ plan[p] = NoPlan
       /\ Check(config, T, FALSE)
       /\ plan' = [plan EXCEPT ![p] = [NoPlan EXCEPT !.targets = T, !.cluster = config.cluster,
                                                     !.login = config.login]]
       /\ call' = [call EXCEPT ![c] = [@ EXCEPT !.pc = "note", !.plan = p]]
  /\ UNCHANGED <<world, people, stored, record, cancelled>>

\* add, and get, forget the plans whose time is over.
Pruned == stored \ expired

\* A plan that cannot be recorded is not offered.
Note(c) ==
  /\ call[c].pc = "note"
  /\ \/ /\ audit' = [audit EXCEPT ![call[c].plan] = @ \cup {"planned"}]
        /\ stored' = Pruned \cup {call[c].plan}
     \/ UNCHANGED <<audit, stored>>
  /\ Ended(c)
  /\ UNCHANGED <<world, people, plan, sent>>

(***************************************************************************)
(* apply_plan.                                                             *)
(***************************************************************************)
\* get: whether a plan is still there, once the store is pruned.
Held(p) == p \in Pruned

\* The call repeats the plan's nodes and count.
Get(c) ==
  /\ call[c].pc = "get"
  /\ stored' = Pruned
  /\ IF Held(call[c].plan) THEN Moved(c, "reread") /\ UNCHANGED cancelled
                           ELSE Ended(c)
  /\ UNCHANGED <<world, people, plan, record>>

\* A plan held against the gate alone.
StandsByGate(p, g) == Check(g, plan[p].targets, FALSE)

\* A plan stands while the pinned context names the same cluster, the gate lets
\* the same hosts through, and the same commands go to the same place.
Stands(p, g) ==
  /\ g.cluster = plan[p].cluster
  /\ Check(g, plan[p].targets, FALSE)
  /\ Commands(g, plan[p].targets) = Commands(plan[p], plan[p].targets)

Reread(c) ==
  /\ call[c].pc = "reread"
  /\ Stands(call[c].plan, config)
  /\ call' = [call EXCEPT ![c] =
               [@ EXCEPT !.pc = IF confirm = "elicit" THEN "confirm" ELSE "ssh", !.saw = config]]
  /\ UNCHANGED <<world, people, memory, record, cancelled>>

\* A question that keeps its run, and its place, until somebody answers.
AskedHolding(c) == Moved(c, "asked") /\ UNCHANGED cancelled

\* The question ends the run.
Asked(c) == Ended(c)

\* confirm, on a call without an answer.
Ask(c) ==
  LET p == call[c].plan
      preview == Preview(call[c].saw, plan[p].targets)
  IN
  /\ call[c].pc = "confirm" /\ call[c].reply = 0
  /\ questions' = Append(questions, [plan |-> p, cluster |-> call[c].saw.cluster,
                                     targets |-> preview.targets, count |-> preview.count,
                                     countRequired |-> preview.countRequired])
  /\ plan' = [plan EXCEPT ![p] = [@ EXCEPT !.asked = Len(questions')]]
  /\ Asked(c)
  /\ UNCHANGED <<world, answers, goneAhead, stored, record>>

\* An open question that stays open once it was answered.
AnsweredAgain(p, q) == plan[p].asked

\* answered: the question a plan has open once an answer came, whether or not
\* the answer belongs to it.
Answered(p, q) == 0

\* confirm, on a call with an answer: it has to belong to the question last put
\* for the plan, and to be a yes by the rule of the gate as it reads now.
Judge(c) ==
  LET p == call[c].plan
      q == call[c].reply
      goes == /\ plan[p].asked = q
              /\ Accept(Preview(call[c].saw, plan[p].targets), answers[q])
  IN
  /\ call[c].pc = "confirm" /\ q # 0
  /\ plan' = [plan EXCEPT ![p] = [@ EXCEPT !.asked = Answered(p, q)]]
  /\ IF goes
     THEN /\ call' = [call EXCEPT ![c] = [@ EXCEPT !.pc = "ssh", !.by = q]]
          /\ goneAhead' = [goneAhead EXCEPT ![q] = @ + 1]
          /\ UNCHANGED cancelled
     ELSE Ended(c) /\ UNCHANGED goneAhead
  /\ UNCHANGED <<world, questions, answers, stored, record>>

\* ConfigPath: the last thing that can end with the call.
Ssh(c) ==
  /\ call[c].pc = "ssh"
  /\ Moved(c, "take")
  /\ UNCHANGED <<world, people, memory, record, cancelled>>

\* A take that looks for the plan where get found it.
FreshAsFound(p) == TRUE

Fresh(p) == ~plan[p].used

\* A take that leaves the plan in the store.
LeftAll(p) == stored

\* What a take leaves in the store.
Left(p) == stored \ {p}

\* take: of the runs that come to it with one plan, one goes on.
Take(c) ==
  LET p == call[c].plan IN
  /\ call[c].pc = "take"
  /\ IF Fresh(p)
     THEN /\ plan' = [plan EXCEPT ![p] = [@ EXCEPT !.used = TRUE]]
          /\ stored' = Left(p)
          /\ Moved(c, "record") /\ UNCHANGED cancelled
     ELSE Ended(c) /\ UNCHANGED memory
  /\ UNCHANGED <<world, people, record>>

\* A change that goes ahead without its record.
UnrecordedSent(c) == Moved(c, "send") /\ UNCHANGED cancelled

\* A change that cannot be recorded is not made.
Unrecorded(c) == Ended(c)

Record(c) ==
  /\ call[c].pc = "record"
  /\ \/ /\ audit' = [audit EXCEPT ![call[c].plan] = @ \cup {"applying"}]
        /\ Moved(c, "send") /\ UNCHANGED cancelled
     \/ Unrecorded(c) /\ UNCHANGED audit
  /\ UNCHANGED <<world, people, memory, sent>>

\* execute makes the change WithoutCancel.
Wanted(c) == TRUE

\* execute: the change is sent through the client of the configuration the plan
\* was held against.
Send(c) ==
  LET p == call[c].plan IN
  /\ call[c].pc = "send"
  /\ IF Wanted(c)
     THEN sent' = [sent EXCEPT ![p] = Append(@,
            [cluster |-> call[c].saw.cluster, commands |-> Commands(call[c].saw, plan[p].targets),
             gate |-> call[c].saw, by |-> call[c].by, late |-> call[c].late])]
     ELSE UNCHANGED sent
  /\ Moved(c, "close")
  /\ UNCHANGED <<world, people, memory, audit, cancelled>>

\* The change was made, or failed in part or altogether, or its answer was
\* lost; the outcome is recorded if it can be.
Close(c) ==
  /\ call[c].pc = "close"
  /\ \/ \E outcome \in {"applied", "failed"} :
          audit' = [audit EXCEPT ![call[c].plan] = @ \cup {outcome}]
     \/ UNCHANGED audit
  /\ Ended(c)
  /\ UNCHANGED <<world, people, memory, sent>>

(***************************************************************************)
(* The specification.  A handler goes on while it has a place, and the Go  *)
(* runtime hands a place that is given back to the run that waited         *)
(* longest.  Nobody is bound to answer, to retry, to give up, to edit or   *)
(* to stop anything.                                                       *)
(***************************************************************************)
Handle(c) ==
  \/ TurnAway(c) \/ Refuse(c)
  \/ Prepare(c) \/ Note(c)
  \/ Get(c) \/ Reread(c) \/ Ask(c) \/ Judge(c) \/ Ssh(c)
  \/ Take(c) \/ Record(c) \/ Send(c) \/ Close(c)

Next ==
  \/ Edit \/ Stop
  \/ \E p \in Plans : Expire(p)
  \/ \E q \in 1 .. MaxQuestions : Answer(q)
  \/ \E c \in Calls : Arrive(c) \/ Cancel(c) \/ Place(c) \/ Handle(c)

Spec == Init /\ [][Next]_vars

FairSpec == Spec /\ \A c \in Calls : WF_vars(Handle(c)) /\ SF_vars(Place(c))

(***************************************************************************)
(* Properties.                                                             *)
(***************************************************************************)
QuestionType == [plan : Plans, cluster : Clusters, targets : Selections,
                 count : Nat, countRequired : BOOLEAN]
SentType == [cluster : Clusters, commands : [login : Logins, nodes : Selections],
             gate : Configs, by : 0 .. MaxQuestions, late : BOOLEAN]

\* The types of the state; no more runs hold a place than there are places, and
\* only a plan that was made, and not used, is stored.
TypeOK ==
  /\ confirm \in {"elicit", "approval"} /\ config \in Configs
  /\ edits \in 0 .. MaxEdits /\ stops \in 0 .. MaxStops
  /\ plan \in [Plans -> PlanType]
  /\ stored \subseteq Plans /\ expired \subseteq Plans
  /\ \A p \in stored : plan[p].targets # {} /\ ~plan[p].used
  /\ call \in [Calls -> CallType] /\ cancelled \subseteq Calls
  /\ Cardinality(Placed) <= MaxCalls
  /\ questions \in Seq(QuestionType) /\ Len(questions) <= MaxQuestions
  /\ answers \in [1 .. MaxQuestions -> AnswerType]
  /\ goneAhead \in [1 .. MaxQuestions -> Nat]
  /\ audit \in [Plans -> SUBSET {"planned", "applying", "applied", "failed"}]
  /\ sent \in [Plans -> Seq(SentType)]

\* A plan is applied at most once, whatever runs race for it, whatever answers
\* are brought back twice, and however often the server is stopped.
AppliedAtMostOnce == \A p \in Plans : Len(sent[p]) <= 1

\* What is sent was confirmed by the administrator, on a question about this
\* plan that named the cluster and the hosts it is sent to, with an answer that
\* is a yes by the rule in force when the change was made, not when it was asked.
SentIsConfirmed ==
  confirm = "elicit" =>
    \A p \in Plans : \A i \in DOMAIN sent[p] :
      LET s == sent[p][i] IN
      /\ s.by # 0
      /\ questions[s.by].plan = p
      /\ questions[s.by].cluster = s.cluster
      /\ questions[s.by].targets = s.commands.nodes
      /\ answers[s.by].action = "accept"
      /\ IF Cardinality(s.commands.nodes) > s.gate.above
         THEN answers[s.by].form = "count" /\ answers[s.by].n = Cardinality(s.commands.nodes)
         ELSE answers[s.by].form = "confirm" /\ answers[s.by].n = 1

\* One answer confirms one attempt, also when that attempt comes to nothing.
OneAnswerOneAttempt == \A q \in 1 .. MaxQuestions : goneAhead[q] <= 1

\* What is sent is what the plan showed, to the cluster and the host it showed,
\* and touches no host that was protected, under any domain, or was unknown in
\* the configuration the run that sent it read.
ShownIsSent ==
  \A p \in Plans : \A i \in DOMAIN sent[p] :
    LET s == sent[p][i] IN
    /\ s.cluster = plan[p].cluster
    /\ s.commands = Commands(plan[p], plan[p].targets)
    /\ \A t \in s.commands.nodes :
         t \in s.gate.known /\ \A h \in s.gate.protected : Short[h] # Short[t]

\* Of every change that was sent, the log says that it was planned and that it
\* was being applied, also when the server was stopped in the middle; and it
\* says how it ended only of a change that was sent.
SentIsRecorded ==
  \A p \in Plans :
    /\ sent[p] # <<>> => {"planned", "applying"} \subseteq audit[p]
    /\ audit[p] \cap {"applied", "failed"} # {} => sent[p] # <<>>

\* A run that began after its plan had expired does not send it, whatever it
\* was waiting for: a place, an answer, or the administrator.
ExpiredIsNotSent == \A p \in Plans : \A i \in DOMAIN sent[p] : ~sent[p][i].late

\* What is sent is what was shown, confirmed and in time.
SentAsAgreed == SentIsConfirmed /\ ShownIsSent /\ ExpiredIsNotSent

\* A change that was recorded as being applied is sent, although the client
\* gave up on the call, unless the server is stopped.
Applying(p) == "applying" \in audit[p]
SentOrStopped(p) == sent[p] # <<>> \/ stops > 0

\* Every run of a handler ends, and none waits for a place for ever, although
\* the administrator leaves every question unanswered.
Running(c) == call[c].pc # "idle"
EveryRunEnds == \A c \in Calls : Running(c) ~> ~Running(c)
=============================================================================
