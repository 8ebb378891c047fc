------------------------------ MODULE BmcPower ------------------------------
(***************************************************************************)
(* "clusterctl bmc power" and "bmc status" once the question has been      *)
(* answered: runPower, bmcPlan.run and the runs of its two transports.     *)
(*                                                                         *)
(* A power-on goes to one batch of nodes after the other; any other action *)
(* goes to all nodes as one.  A batch goes round by round: every pending   *)
(* node is tried over the next transport of its order, Redfish with a      *)
(* bounded fan-out of requests, IPMI with one session to the gateway for   *)
(* each account; once all have answered, the nodes that may fall back are  *)
(* pending for the next round.                                             *)
(*                                                                         *)
(* As in Reinstall, what the command knows (call, row, span) is kept apart *)
(* from what is so (gateway, wire, received): a request may be carried out *)
(* and its answer lost, and the gateway goes on when its session has ended.*)
(***************************************************************************)
EXTENDS Naturals, FiniteSets, Sequences

CONSTANTS
  Nodes,      \* the nodes of the plan
  Order,      \* bmcPlan.order: the transports to try each node over
  AccountOf,  \* the credential of each node
  Batches,    \* the batches of a power-on, in order
  Limit,      \* Redfish requests under way at once: redfishLimit
  Sessions    \* IPMI sessions under way at once: fanout.PerHost, or less

ASSUME PowerAssumption ==
  /\ Nodes # {} /\ IsFiniteSet(Nodes)
  /\ Order \in [Nodes -> {<<"redfish">>, <<"ipmi">>, <<"redfish", "ipmi">>, <<"ipmi", "redfish">>}]
  /\ DOMAIN AccountOf = Nodes
  /\ Batches \in Seq(SUBSET Nodes)
  /\ \A n \in Nodes : \E i \in DOMAIN Batches : n \in Batches[i]
  /\ \A i, j \in DOMAIN Batches : i # j => Batches[i] \cap Batches[j] = {}
  /\ \A i \in DOMAIN Batches : Batches[i] # {}
  /\ Limit \in Nat \ {0} /\ Sessions \in Nat \ {0}

VARIABLES
  action,     \* "status", "on" (as "cycle") or "off" (as "soft" and "reset")
  pc,         \* "pause", "prepare", "send" or "done"
  cancelled,  \* the user interrupted
  batch,      \* the batch under way
  step,       \* bmcRun.step, counted from 1
  pending,    \* the nodes of the round that are not settled
  next,       \* the nodes of the next round
  call,       \* the request of each node in the round
  row,        \* bmcRun.results, and in the end the rows of the command
  span,       \* what the target of each node was ended with
  gateway,    \* nodes the IPMI tool on the gateway has still to come to
  wire,       \* nodes whose processor may still carry out what it was sent
  received    \* how often each processor carried out what it was sent

command == <<action, pc, cancelled, batch, step, pending, next, row>>
vars == <<action, pc, cancelled, batch, step, pending, next, call, row, span,
          gateway, wire, received>>

(***************************************************************************)
(* What came of a request, and the exit code it asks for.                  *)
(***************************************************************************)
NotReached == {"unreached", "pin store", "pin"}
Answers == NotReached \cup
  {"ok", "failed", "transport", "usage", "interrupted", "not sent"}
UnderWay == {"asked", "carried"}
Outcomes == Answers \cup {"not tried"}

NoRow == [via |-> "", how |-> ""]

From(how) ==
  CASE how = "ok" -> 0
    [] how = "usage" -> 2
    [] how \in NotReached \cup {"transport"} -> 3
    [] how \in {"interrupted", "not sent"} -> 130
    [] OTHER -> 1

Precedence(code) ==
  CASE code = 0 -> 0 [] code = 2 -> 2 [] code = 3 -> 3 [] code = 130 -> 4 [] OTHER -> 1

Worst(codes) ==
  CHOOSE c \in codes \cup {0} : \A d \in codes : Precedence(d) <= Precedence(c)

\* bmcExit, of the rows of some nodes.
BmcExit(T) ==
  LET how == [n \in T |-> row[n].how]
      sent == {n \in T : how[n] \notin {"not tried", "not sent"}}
      worst == Worst({From(how[n]) : n \in sent})
  IN IF \A n \in T : how[n] = "ok" THEN 0
     ELSE IF \E n \in T : how[n] = "not sent" THEN 130
     ELSE IF worst = 0 THEN 1 ELSE worst

(***************************************************************************)
(* Falling back to the next transport.                                     *)
(***************************************************************************)
\* A lost answer taken for a lost request.
NeverHeard(how) == how \in NotReached \cup {"transport"}

NeverSent(how) == how \in NotReached

\* A fallback that does not ask which certificate was presented.
MayFallBackPin(via, how) ==
  /\ From(how) \notin {130, 2}
  /\ action = "status" \/ (via = "redfish" /\ NeverSent(how))

MayFallBack(via, how) ==
  /\ From(how) \notin {130, 2}
  /\ how # "pin"
  /\ action = "status" \/ (via = "redfish" /\ NeverSent(how))

Via(n) == Order[n][step]

\* One transport too many.
AgainPast(n, how) ==
  /\ how # "ok" /\ step <= Len(Order[n])
  /\ MayFallBack(Via(n), how)
  /\ ~cancelled

\* settle: whether the node is to be tried over its next transport.
Again(n, how) ==
  /\ how # "ok" /\ step < Len(Order[n])
  /\ MayFallBack(Via(n), how)
  /\ ~cancelled

\* bmcError: an error that comes after the interrupt is the interrupt's.
BmcError(how) == IF how # "ok" /\ cancelled THEN "interrupted" ELSE how

\* A display that takes the first answer of a node for its last.
AnsweredAtOnce(T, how) ==
  /\ call' = [n \in Nodes |-> IF n \in T THEN how ELSE call[n]]
  /\ span' = [n \in Nodes |-> IF n \in T /\ span[n] = "" THEN how ELSE span[n]]

\* answered: the answers of some nodes are in, and those that are their last
\* end the targets.
Answered(T, how) ==
  /\ call' = [n \in Nodes |-> IF n \in T THEN how ELSE call[n]]
  /\ span' = [n \in Nodes |-> IF n \in T /\ span[n] = "" /\ ~Again(n, how)
                              THEN how ELSE span[n]]

(***************************************************************************)
(* The batches.                                                            *)
(***************************************************************************)
Chunks == IF action = "on" THEN Batches ELSE <<Nodes>>
Later == UNION {Chunks[i] : i \in batch + 1 .. Len(Chunks)}

Init ==
  /\ action \in {"status", "on", "off"}
  /\ pc = "pause"
  /\ cancelled = FALSE
  /\ batch = 0 /\ step = 0
  /\ pending = {} /\ next = {}
  /\ call = [n \in Nodes |-> "idle"]
  /\ row = [n \in Nodes |-> NoRow]
  /\ span = [n \in Nodes |-> ""]
  /\ gateway = {} /\ wire = {}
  /\ received = [n \in Nodes |-> 0]

Interrupt ==
  /\ pc # "done" /\ ~cancelled
  /\ cancelled' = TRUE
  /\ UNCHANGED <<action, pc, batch, step, pending, next, call, row, span,
                 gateway, wire, received>>

\* A round on the nodes of T begins: every one is queued.
Round(T) ==
  /\ pc' = "prepare"
  /\ pending' = T
  /\ next' = {}
  /\ call' = [n \in Nodes |-> IF n \in T THEN "queued" ELSE "idle"]

\* The rows of the batches that were not started.
LeaveOut(how) ==
  /\ pc' = "done"
  /\ row' = [n \in Nodes |-> IF n \in Later THEN [via |-> "", how |-> how] ELSE row[n]]

StartBatch ==
  /\ pc = "pause" /\ ~cancelled
  /\ batch' = batch + 1
  /\ step' = 1
  /\ Round(Chunks[batch + 1])
  /\ UNCHANGED <<action, cancelled, row, span, gateway, wire, received>>

\* The interrupt ends the pause, and what is left is not sent.
PauseEnds ==
  /\ pc = "pause" /\ cancelled
  /\ LeaveOut("not sent")
  /\ UNCHANGED <<action, cancelled, batch, step, pending, next, call, span,
                 gateway, wire, received>>

(***************************************************************************)
(* A round: prepareRedfish and prepareIPMI, then what they send.           *)
(***************************************************************************)
Over(T, how) == [n \in Nodes |-> IF n \in T THEN how ELSE call[n]]

\* resolve made ready what the first transport of each node needs, which for
\* IPMI is shared by the account.
Ready(n) ==
  step = 1 \/ (Via(n) = "ipmi" /\ \E m \in Nodes :
                 AccountOf[m] = AccountOf[n] /\ Order[m][1] = "ipmi")

\* The client or the backend of other nodes may not be there for want of a
\* credential, or because the interrupt came while one was looked for.
Prepare(T, how) ==
  /\ pc = "prepare"
  /\ how = "interrupted" => cancelled
  /\ T \subseteq {n \in pending : ~Ready(n)}
  /\ \A n \in T, m \in pending :
       Via(n) = "ipmi" /\ Via(m) = "ipmi" /\ AccountOf[n] = AccountOf[m] => m \in T
  /\ pc' = "send"
  /\ call' = Over(T, how)
  /\ UNCHANGED <<action, cancelled, batch, step, pending, next, row, span,
                 gateway, wire, received>>

Busy(via) == {n \in pending : Via(n) = via /\ call[n] \in UnderWay}

\* bmcRun.redfish.
Send(n) ==
  /\ pc = "send" /\ call[n] = "queued" /\ ~cancelled
  /\ Via(n) = "redfish"
  /\ Cardinality(Busy("redfish")) < Limit
  /\ call' = [call EXCEPT ![n] = "asked"]
  /\ wire' = wire \cup {n}
  /\ UNCHANGED <<span, gateway, received>> /\ UNCHANGED command

\* One session to the gateway carries the request for all nodes of an account.
Account(n) == {m \in pending : Via(m) = "ipmi" /\ AccountOf[m] = AccountOf[n]}

SendAccount(n) ==
  /\ pc = "send" /\ call[n] = "queued" /\ ~cancelled
  /\ Via(n) = "ipmi"
  /\ Cardinality({AccountOf[m] : m \in Busy("ipmi")}) < Sessions
  /\ call' = Over(Account(n), "asked")
  /\ gateway' = gateway \cup Account(n)
  /\ UNCHANGED <<span, wire, received>> /\ UNCHANGED command

\* An interrupt that only the Redfish fan-out notices.
NotSentRedfish(n) ==
  /\ pc = "send" /\ call[n] = "queued" /\ cancelled
  /\ Via(n) = "redfish"
  /\ call' = [call EXCEPT ![n] = "not sent"]
  /\ UNCHANGED <<span, gateway, wire, received>> /\ UNCHANGED command

NotSent(n) ==
  /\ pc = "send" /\ call[n] = "queued" /\ cancelled
  /\ call' = [call EXCEPT ![n] = "not sent"]
  /\ UNCHANGED <<span, gateway, wire, received>> /\ UNCHANGED command

(***************************************************************************)
(* The answers.                                                            *)
(***************************************************************************)
Answer(n) ==
  /\ call[n] = "carried"
  /\ Answered({n}, "ok")
  /\ UNCHANGED <<gateway, wire, received>> /\ UNCHANGED command

\* A request that provably did not reach its processor.
NeverReached(n, how) ==
  /\ call[n] = "asked" /\ n \in wire /\ Via(n) = "redfish"
  /\ how \in NotReached
  /\ Answered({n}, BmcError(how))
  /\ wire' = wire \ {n}
  /\ UNCHANGED <<gateway, received>> /\ UNCHANGED command

\* Any other error, of the processor or, over IPMI, of the line that answers
\* for it.  What was sent may still be carried out.
Fails(n, how) ==
  /\ call[n] \in UnderWay /\ n \notin gateway
  /\ how \in (IF Via(n) = "redfish" THEN {"failed", "transport"} ELSE {"failed"})
  /\ Answered({n}, BmcError(how))
  /\ wire' \in {wire, wire \ {n}}
  /\ UNCHANGED <<gateway, received>> /\ UNCHANGED command

\* The session to the gateway ends before every processor was answered for, at
\* its timeout, with the connection or with the command; or the tool says
\* nothing of some.  Nothing on the gateway need notice.
SessionEnds(n, how) ==
  LET left == {m \in Account(n) : call[m] \in UnderWay}
  IN /\ call[n] \in UnderWay /\ Via(n) = "ipmi"
     /\ how \in {"transport", "failed"}
     /\ call' = Over(left, BmcError(how))
     /\ \/ UNCHANGED <<gateway, wire>>
        \/ gateway' = gateway \ left /\ wire' = wire \ left
     /\ UNCHANGED <<span, received>> /\ UNCHANGED command

(***************************************************************************)
(* Settling a round, once every node has its answer.                       *)
(***************************************************************************)
Settle(n) ==
  /\ pc = "send" /\ n \in pending
  /\ \A m \in pending : call[m] \in Answers
  /\ pending' = pending \ {n}
  /\ row' = [row EXCEPT ![n] = [via |-> Via(n), how |-> call[n]]]
  /\ IF Again(n, call[n])
     THEN next' = next \cup {n} /\ UNCHANGED span
     ELSE /\ span' = [span EXCEPT ![n] = IF @ = "" THEN call[n] ELSE @]
          /\ UNCHANGED next
  /\ UNCHANGED <<action, pc, cancelled, batch, step, call, gateway, wire, received>>

NextRound ==
  /\ pc = "send" /\ pending = {} /\ next # {}
  /\ step' = step + 1
  /\ Round(next)
  /\ UNCHANGED <<action, cancelled, batch, row, span, gateway, wire, received>>

\* The batch has ended.  One with a failure stops the run.
BatchOver ==
  /\ pc = "send" /\ pending = {} /\ next = {}
  /\ IF batch = Len(Chunks) THEN pc' = "done" /\ UNCHANGED row
     ELSE IF cancelled THEN LeaveOut("not sent")
     ELSE IF BmcExit(Chunks[batch]) # 0 THEN LeaveOut("not tried")
     ELSE pc' = "pause" /\ UNCHANGED row
  /\ UNCHANGED <<action, cancelled, batch, step, pending, next, call, span,
                 gateway, wire, received>>

(***************************************************************************)
(* The gateway and the processors, which are not part of clusterctl.       *)
(***************************************************************************)
GatewayAsks(n) ==
  /\ n \in gateway
  /\ gateway' = gateway \ {n}
  /\ wire' = wire \cup {n}
  /\ UNCHANGED <<call, span, received>> /\ UNCHANGED command

Carry(n) ==
  /\ n \in wire
  /\ wire' = wire \ {n}
  /\ received' = [received EXCEPT ![n] = @ + 1]
  /\ call' = [call EXCEPT ![n] = IF @ = "asked" THEN "carried" ELSE @]
  /\ UNCHANGED <<span, gateway>> /\ UNCHANGED command

Command ==
  \/ StartBatch \/ PauseEnds
  \/ \E T \in SUBSET pending, how \in {"usage", "failed", "interrupted"} : Prepare(T, how)
  \/ \E n \in Nodes : Send(n) \/ SendAccount(n) \/ NotSent(n) \/ Settle(n)
  \/ NextRound \/ BatchOver

Replies(n) ==
  \/ Answer(n)
  \/ \E how \in Answers : NeverReached(n, how) \/ Fails(n, how) \/ SessionEnds(n, how)

Next ==
  \/ Interrupt \/ Command
  \/ \E n \in Nodes : Replies(n) \/ GatewayAsks(n) \/ Carry(n)

Spec == Init /\ [][Next]_vars

\* The command runs on, and a request is answered or given up, by the timeout
\* of the client or of the session.
FairSpec == Spec /\ WF_vars(Command) /\ \A n \in Nodes : WF_vars(Replies(n))

(***************************************************************************)
(* Properties.                                                             *)
(***************************************************************************)
\* The values the state can hold.
TypeOK ==
  /\ action \in {"status", "on", "off"}
  /\ pc \in {"pause", "prepare", "send", "done"}
  /\ cancelled \in BOOLEAN
  /\ batch \in 0..Len(Chunks)
  /\ step \in 0..2
  /\ pending \subseteq Nodes
  /\ next \subseteq Nodes
  /\ \A n \in pending : step \in DOMAIN Order[n]
  /\ call \in [Nodes -> Answers \cup UnderWay \cup {"idle", "queued"}]
  /\ row \in [Nodes -> [via: {"", "redfish", "ipmi"}, how: Outcomes \cup {""}]]
  /\ span \in [Nodes -> Answers \cup {""}]
  /\ gateway \subseteq Nodes
  /\ wire \subseteq Nodes
  /\ received \in [Nodes -> 0..2]

\* An action is never sent twice: whatever was lost on the way and whatever the
\* gateway does after its session, no processor carries out a second one, even
\* after the command has ended.
NeverTwice == action # "status" => \A n \in Nodes : received[n] <= 1

\* A row that says an action was not sent, or could not have arrived, says so
\* of a machine that is not touched, then or later; a row that says it was
\* accepted says so of one that was.
RowsAreTrue ==
  pc = "done" /\ action # "status" =>
    \A n \in Nodes :
      /\ row[n].how = "ok" => received[n] = 1
      /\ row[n].how \in NotReached \cup {"not sent", "not tried"} =>
           received[n] = 0 /\ n \notin gateway \cup wire

\* No machine of a batch is powered on before every machine of the batches
\* before it was, and has said so; after a failure or the interrupt none is.
BreakerHolds ==
  action = "on" =>
    \A n \in Nodes :
      call[n] = "queued" /\ call'[n] = "asked" =>
        \A i \in 1 .. batch - 1 : \A m \in Batches[i] :
          row[m].how = "ok" /\ received[m] = 1

\* A read that was not interrupted is given up only after every transport of
\* the node's order, unless its processor may be another one or its account is
\* not to be had.
ReadsTryAll ==
  pc = "done" /\ action = "status" /\ ~cancelled =>
    \A n \in Nodes :
      row[n].how \notin {"ok", "pin", "usage"} =>
        row[n].via = Order[n][Len(Order[n])]

\* A processor that presented another certificate is sent its account over no
\* other transport.
PinIsFinal ==
  \A n \in Nodes : call[n] = "queued" /\ call'[n] = "asked" => row[n].how # "pin"

\* No request is sent after one that forbids it: a failure in a batch before, or
\* a certificate that is not the processor's.
SentOnlyWhereFree == [][BreakerHolds /\ PinIsFinal]_vars

\* What the display was told of a node while the others were still being asked
\* is what the table says of it in the end.
SpanIsRow ==
  pc = "done" =>
    \A n \in Nodes \ Later : span[n] = row[n].how

\* The exit code does not promise more than was done: 0 only when every machine
\* did what it was asked, 130 only after the interrupt, and another only when
\* the interrupt left no node out.
ExitIsHonest ==
  pc = "done" =>
    /\ BmcExit(Nodes) = 0 => \A n \in Nodes : received[n] >= 1
    /\ BmcExit(Nodes) = 130 => cancelled
    /\ BmcExit(Nodes) # 130 => \A n \in Nodes : row[n].how # "not sent"

\* The table, the display and the exit code say what was done.
ReportIsTrue == RowsAreTrue /\ ReadsTryAll /\ SpanIsRow /\ ExitIsHonest

\* The command ends, whatever is lost, with a row for every node.
Ends == <>(pc = "done" /\ \A n \in Nodes : row[n].how # "")
=============================================================================
