------------------------------ MODULE MCRunsEnd ------------------------------
(***************************************************************************)
(* Instances for TLC of the two runs that have to come to their end, the   *)
(* reinstallation of two nodes and the handlers of the MCP server.  The    *)
(* two share no state, so one run takes them one after the other: scene    *)
(* says which of them a behaviour is of, and the registers v1 to v16 are   *)
(* its variables, in the order in which its module declares them; those it *)
(* does not need stay as they are.                                         *)
(***************************************************************************)
EXTENDS Naturals, Sequences

CONSTANTS c1, c2, n1, n2, p1
VARIABLES scene, v1, v2, v3, v4, v5, v6, v7, v8, v9, v10, v11, v12, v13, v14, v15, v16

vars == <<scene, v1, v2, v3, v4, v5, v6, v7, v8, v9, v10, v11, v12, v13, v14, v15, v16>>
Unused == "unused"

(***************************************************************************)
(* Two nodes and one request at a time; plans with two questions.          *)
(***************************************************************************)
R == INSTANCE Reinstall WITH
  Nodes <- {n1, n2}, Limit <- 1, Persistent <- {n1}, NetFirst <- {}, Restless <- {},
  Late <- FALSE,
  opt <- v1, pc <- v2, cancelled <- v3, failed <- v4, bootLink <- v5, bootOnce <- v6,
  reset <- v7, req <- v8, write <- v9, remove <- v10, link <- v11, override <- v12,
  machine <- v13, keys <- v14, adrift <- v15, late <- v16

OneConfig ==
  [cluster |-> "c1", login |-> "login", protected |-> {}, known |-> {n1, n2}, above |-> 2]

P == INSTANCE McpPlan WITH
  Hosts <- {n1, n2}, Short <- [n \in {n1, n2} |-> n], Configs <- {OneConfig},
  Selections <- {{n1}}, Plans <- {p1}, Calls <- {c1, c2}, MaxCalls <- 1, MaxQuestions <- 2,
  MaxEdits <- 0, MaxStops <- 1,
  confirm <- v1, config <- v2, edits <- v3, plan <- v4, stored <- v5, expired <- v6,
  call <- v7, cancelled <- v8, questions <- v9, answers <- v10, goneAhead <- v11,
  audit <- v12, sent <- v13, stops <- v14

(***************************************************************************)
(* The scenes.                                                             *)
(***************************************************************************)
Init ==
  \/ /\ scene = "reinstall" /\ R!Init
  \/ /\ scene = "plan" /\ P!Init
     /\ v15 = Unused /\ v16 = Unused

Next ==
  \/ scene = "reinstall" /\ R!Next /\ UNCHANGED <<scene>>
  \/ scene = "plan" /\ P!Next /\ UNCHANGED <<scene, v15, v16>>

Rvars == R!vars
Pvars == P!vars

\* The fairness of each component, of its own steps.
Fairness ==
  /\ WF_Rvars(scene = "reinstall" /\ R!Command)
  /\ \A n \in {n1, n2} :
       /\ WF_Rvars(scene = "reinstall" /\ (R!Answer(n) \/ R!Unreachable(n) \/ R!Fails(n)))
       /\ WF_Rvars(scene = "reinstall" /\ R!Boot(n))
  /\ \A c \in {c1, c2} :
       WF_Pvars(scene = "plan" /\ P!Handle(c)) /\ SF_Pvars(scene = "plan" /\ P!Place(c))

Spec == Init /\ [][Next]_vars /\ Fairness

(***************************************************************************)
(* Properties.                                                             *)
(***************************************************************************)
\* No run goes on for ever: a reinstallation ends, whatever was lost and whenever
\* it was interrupted, and so does every call of a tool, although others hold
\* the places and the administrator leaves the questions unanswered.
\* (runReinstall; handle, acquire)
EveryRunEnds ==
  /\ <>(scene = "reinstall" => R!Over)
  /\ \A c \in {c1, c2} : (scene = "plan" /\ P!Running(c)) ~> (scene = "plan" => ~P!Running(c))

\* What is said to be under way is carried out: a machine reported as
\* reinstalling reaches its installation, and a plan recorded as being applied
\* is sent, although the client gave up on the call, unless the server stops.
\* (settle; apply)
PromisedHappens ==
  /\ \A n \in {n1, n2} :
       (scene = "reinstall" /\ R!SaidToReinstall(n)) ~> (scene = "reinstall" => R!Installing(n))
  /\ (scene = "plan" /\ P!Applying(p1)) ~> (scene = "plan" => P!SentOrStopped(p1))
=============================================================================
