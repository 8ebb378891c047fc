------------------------------ MODULE NodeRuns ------------------------------
(***************************************************************************)
(* exec and copy: one command, or one transfer, on many nodes at once.     *)
(* What is sent is a payload of parts: the standard input of exec --stdin, *)
(* read before anything else, or the file scp reads.  It is written part   *)
(* by part over what a place held before, and a session or an scp that     *)
(* ends early leaves what it has written; so the question is what the      *)
(* results, the groups of --dedup and the exit code then say.  The remote  *)
(* command reads its input to the end; its own timeout is Session's.       *)
(***************************************************************************)
EXTENDS Integers, Sequences, FiniteSets

CONSTANTS
  Nodes,
  Targets,      \* the nodes in the order of the results
  HostOf,       \* of a node, its host as tokens: a name, or an address with colons
  Protected,    \* the nodes the site protects
  Given,        \* the command lines
  Parts,        \* how many parts a payload has
  Outputs       \* what a command may print

Elsewhere == "elsewhere"
Shared == "shared"
Verbs == {"exec", "upload", "download"}

\* A host is a name or an address (hostname.CheckHost), and a path is not empty.
NodeRunsConstants ==
  /\ IsFiniteSet(Nodes) /\ Protected \subseteq Nodes /\ Parts \in Nat \ {0}
  /\ Shared \notin Nodes /\ Elsewhere \notin Nodes
  /\ Targets \in Seq(Nodes) /\ Nodes \subseteq {Targets[i] : i \in DOMAIN Targets}
  /\ HostOf \in [Nodes -> Seq(STRING) \ {<<>>}]
  /\ \A n \in Nodes : \A i \in DOMAIN HostOf[n] : HostOf[n][i] \notin {"/", "[", "]"}
  /\ \A c \in Given :
       /\ c.nodes \subseteq Nodes /\ c.max \in Nat \ {0} /\ c.verb \in Verbs
       /\ c.local \in Seq(STRING) \ {<<>>}

Old == <<"old", 0>>
NoExit == -1
NoCode == -1

VARIABLES
  cmd,          \* the command line
  at,           \* "check", "read", "gate", "prepare", "run" or "done"
  taken,        \* the parts of standard input that were read
  item,         \* of a node: "queued", "running" or "over"
  context,      \* of a node, what ended its context first: "", "canceled" or "deadline"
  offset,       \* of a reader of the payload, how far it is
  store,        \* of a place, the parts it holds and whose they are
  ended,        \* of a node, how its ssh or scp ended
  result,       \* of a node, what the executor keeps of it
  exit, interrupted

vars == <<cmd, at, taken, item, context, offset, store, ended, result, exit, interrupted>>
work == <<item, context, offset, store, ended, result>>

Copies == cmd.verb \in {"upload", "download"}
Sends == Copies \/ cmd.stdin
NoResult == [err |-> "", code |-> 0, out |-> ""]

(***************************************************************************)
(* What scp makes of an operand: a host up to a colon outside brackets and *)
(* before any slash, or a path of its own.                                 *)
(***************************************************************************)
Bracketed(op, i) == op[1] = "[" /\ \A j \in 1..i : op[j] # "]"
Colons(op) ==
  {i \in 2..Len(op) : op[i] = ":" /\ ~Bracketed(op, i) /\ \A j \in 1..i : op[j] # "/"}
FirstOf(S) == CHOOSE i \in S : \A j \in S : i <= j
Unbracketed(op) == IF op[1] = "[" THEN SubSeq(op, 2, Len(op) - 1) ELSE op
ScpHost(op) ==
  IF Colons(op) = {} THEN <<>> ELSE Unbracketed(SubSeq(op, 1, FirstOf(Colons(op)) - 1))

Has(path, token) == \E i \in DOMAIN path : path[i] = token

\* localPath: a path scp would take for a host or an option is made explicit.
localPath(path) ==
  IF path[1] = "-" \/ (Has(path, ":") /\ path[1] # "/" /\ SubSeq(path, 1, 2) # <<".", "/">>)
  THEN <<".", "/">> \o path ELSE path

\* CopyArgs: an address with colons goes in brackets.
remote(n) ==
  (IF Has(HostOf[n], ":") THEN <<"[">> \o HostOf[n] \o <<"]">> ELSE HostOf[n])
  \o <<":", "/", "file">>

\* checkRemotePath: no path that scp and SFTP read differently.
checkRemotePath(path) == path # "shell_syntax"

(***************************************************************************)
(* Where a transfer takes its parts from, and where it puts them.          *)
(***************************************************************************)
perNode == cmd.verb = "download" /\ Cardinality(cmd.nodes) > 1

destinationFor(n) == IF perNode THEN n ELSE Shared

NodeAt(host) == {n \in Nodes : HostOf[n] = host}
RemoteOf(n) ==
  IF cmd.remote = "shell_syntax" \/ n \notin NodeAt(ScpHost(remote(n))) THEN Elsewhere ELSE n
LocalOf(place) == IF ScpHost(localPath(cmd.local)) # <<>> THEN Elsewhere ELSE place

From(n) ==
  IF cmd.verb = "download" THEN RemoteOf(n) ELSE IF Copies THEN LocalOf("here") ELSE "here"
To(n) ==
  CASE cmd.verb = "exec" -> n
    [] cmd.verb = "upload" -> RemoteOf(n)
    [] OTHER -> LocalOf(destinationFor(n))

Places == Nodes \cup {Shared, Elsewhere}
Origin(n) == IF cmd.verb = "download" THEN n ELSE "here"
Whole(n) == {<<Origin(n), p>> : p \in 1..Parts}

\* runWithPayload: a reader of its own for each node; and each scp is one.
reader(n) == n

(***************************************************************************)
(* Before the fan-out.                                                     *)
(***************************************************************************)
Ends(code) == at' = "done" /\ exit' = code
Stays == UNCHANGED <<cmd, taken, interrupted>> /\ UNCHANGED work

\* Gate.check
Protects == ~cmd.force /\ cmd.nodes \cap Protected # {}

\* The command line, the paths of copy, and for exec the protected hosts.
Refused ==
  \/ cmd.verb = "exec" /\ cmd.stdin /\ cmd.confirm /\ ~cmd.yes /\ ~cmd.dry
  \/ cmd.verb = "exec" /\ Protects
  \/ Copies /\ ~checkRemotePath(cmd.remote)
  \/ perNode /\ ~cmd.slash

Check ==
  /\ at = "check"
  /\ IF Refused THEN Ends(2)
     ELSE at' = (IF cmd.stdin THEN "read" ELSE "gate") /\ UNCHANGED exit
  /\ Stays

\* readAll
ReadPart ==
  /\ at = "read" /\ taken < Parts /\ taken' = taken + 1
  /\ UNCHANGED <<cmd, at, exit, interrupted>> /\ UNCHANGED work

ReadAll == at = "read" /\ taken = Parts /\ at' = "gate" /\ UNCHANGED exit /\ Stays

\* An error, or the interrupt, after any part of it: nothing is sent.
ReadFails ==
  /\ at = "read"
  /\ Ends(2) \/ (interrupted /\ Ends(130))
  /\ Stays

\* Announce, for exec without --confirm; else Confirm, whose answers are
\* "yes", or no and none at all.
Asks == Copies \/ cmd.confirm \/ cmd.dry
Gate ==
  /\ at = "gate"
  /\ \/ Asks /\ interrupted /\ Ends(130)
     \/ Protects /\ Ends(2)
     \/ ~Protects /\ cmd.dry /\ Ends(0)
     \/ ~Protects /\ Asks /\ ~cmd.dry /\ ~cmd.yes /\ Ends(IF cmd.tty THEN 130 ELSE 2)
     \/ /\ ~Protects /\ ~cmd.dry /\ (Asks /\ ~cmd.yes => cmd.tty)
        /\ at' = (IF Copies THEN "prepare" ELSE "run") /\ UNCHANGED exit
  /\ Stays

\* The ssh configuration and the directories of the nodes are written first.
Prepare ==
  /\ at = "prepare"
  /\ Ends(1) \/ (perNode /\ Ends(2)) \/ (at' = "run" /\ UNCHANGED exit)
  /\ Stays

(***************************************************************************)
(* RunEach: Map's pool, and what is made of each outcome.                  *)
(***************************************************************************)
Running == {n \in cmd.nodes : item[n] = "running"}

Start(n) ==
  /\ at = "run" /\ n \in cmd.nodes /\ item[n] = "queued" /\ ~interrupted
  /\ Cardinality(Running) < cmd.max
  /\ item' = [item EXCEPT ![n] = "running"]
  /\ UNCHANGED <<cmd, at, taken, context, offset, store, ended, result, exit, interrupted>>

Over(n, how, r) ==
  /\ item' = [item EXCEPT ![n] = "over"]
  /\ ended' = [ended EXCEPT ![n] = how]
  /\ result' = [result EXCEPT ![n] = r]
  /\ UNCHANGED <<cmd, at, taken, context, offset, store, exit, interrupted>>

\* A result that was nil carries the error alone.
NotStarted(n) ==
  /\ at = "run" /\ n \in cmd.nodes /\ item[n] = "queued" /\ interrupted
  /\ Over(n, "not_started", [err |-> "canceled", code |-> NoCode, out |-> ""])

\* The runner panics, or gives an error and no result.
Panic(n) ==
  /\ n \in Running
  /\ Over(n, "panic", [err |-> "target", code |-> NoCode, out |-> ""])

\* The first part replaces what the place held.
Carry(n) ==
  /\ n \in Running /\ Sends /\ offset[reader(n)] < (IF Copies THEN Parts ELSE taken)
  /\ LET p == offset[reader(n)] + 1
         part == <<From(n), p>>
     IN  /\ store' = [store EXCEPT ![To(n)] = IF p = 1 THEN {part} ELSE @ \cup {part}]
         /\ offset' = [offset EXCEPT ![reader(n)] = p]
  /\ UNCHANGED <<cmd, at, taken, item, context, ended, result, exit, interrupted>>

\* copyRunner.copy: the time of a transfer is over, unless it was interrupted.
Expire(n) ==
  /\ n \in Running /\ Copies /\ context[n] = ""
  /\ context' = [context EXCEPT ![n] = "deadline"]
  /\ UNCHANGED <<cmd, at, taken, item, offset, store, ended, result, exit, interrupted>>

(***************************************************************************)
(* classify, and what copyRunner.copy makes of it.  An ssh or scp ends     *)
(* well, with a status, with 255, because it was told to, or leaves a      *)
(* process behind that holds its output.                                   *)
(***************************************************************************)
Code(how) ==
  CASE how = "ok" -> 0 [] how = "status" -> 1 [] how = "255" -> 255 [] OTHER -> NoCode

classify(how, ctx) ==
  CASE how = "ok" -> ""
    [] how # "ok" /\ ctx # "" -> ctx
    [] how \in {"255", "held"} /\ ctx = "" -> "transport"
    [] OTHER -> "target"

givenUp(n) == Copies /\ context[n] = "deadline" /\ ~interrupted

CanEnd(n, how) ==
  /\ how = "ok" /\ Sends => offset[reader(n)] = (IF Copies THEN Parts ELSE taken)
  /\ how = "stopped" => context[n] # ""

Return(n) ==
  \E how \in {"ok", "status", "255", "stopped", "held"},
     out \in (IF Copies THEN {""} ELSE Outputs) :
    /\ n \in Running /\ CanEnd(n, how)
    /\ Over(n, how,
            IF givenUp(n) THEN [err |-> "transport", code |-> NoCode, out |-> out]
            ELSE [err |-> classify(how, context[n]), code |-> Code(how), out |-> out])

\* The interrupt ends every context that is still of use and has not ended.
Interrupt ==
  /\ ~interrupted /\ at # "done" /\ interrupted' = TRUE
  /\ context' = [n \in Nodes |->
       IF context[n] = "" /\ item[n] # "over" THEN "canceled" ELSE context[n]]
  /\ UNCHANGED <<cmd, at, taken, item, offset, store, ended, result, exit>>

(***************************************************************************)
(* What is printed, and the exit code.                                     *)
(***************************************************************************)
Failed(r) == r.err # "" \/ r.code # 0

Status(r) ==
  CASE r.err = "canceled" -> "interrupted"
    [] r.err = "transport" -> "unreachable"
    [] ~Failed(r) -> "ok"
    [] Failed(r) /\ r.err \notin {"canceled", "transport"} /\ r.code > 0 -> "exit"
    [] OTHER -> "failed"

\* GroupByOutput: what was printed and how the node ended.
key(n) == <<result[n].out, Status(result[n]), result[n].code>>

\* A group is headed by the first of its nodes.
Group(n) == {m \in cmd.nodes : key(m) = key(n)}
Heading(g) ==
  LET first == FirstOf({i \in DOMAIN Targets : Targets[i] \in g}) IN result[Targets[first]]
GroupByOutput == {Group(n) : n \in cmd.nodes}

\* FailureError, Summarize and Worst.
FailureError(results) ==
  IF \E r \in results : r.err = "canceled" THEN 130
  ELSE IF \E r \in results : r.err = "transport" THEN 3
  ELSE IF \E r \in results : Failed(r) THEN 1 ELSE 0

RunOver ==
  /\ at = "run" /\ \A n \in cmd.nodes : item[n] = "over"
  /\ Ends(FailureError({result[n] : n \in cmd.nodes}))
  /\ Stays

Init ==
  /\ cmd \in Given /\ at = "check" /\ taken = 0
  /\ item = [n \in Nodes |-> "queued"] /\ context = [n \in Nodes |-> ""]
  /\ offset = [n \in Nodes |-> 0] /\ store = [p \in Places |-> {Old}]
  /\ ended = [n \in Nodes |-> ""] /\ result = [n \in Nodes |-> NoResult]
  /\ exit = NoExit /\ interrupted = FALSE

Next ==
  \/ Check \/ ReadPart \/ ReadAll \/ ReadFails \/ Gate \/ Prepare \/ Interrupt \/ RunOver
  \/ \E n \in Nodes :
       Start(n) \/ NotStarted(n) \/ Panic(n) \/ Carry(n) \/ Expire(n) \/ Return(n)

Spec == Init /\ [][Next]_vars

(***************************************************************************)
(* Properties.                                                             *)
(***************************************************************************)
TypeOK ==
  /\ cmd \in Given /\ taken \in 0..Parts
  /\ at \in {"check", "read", "gate", "prepare", "run", "done"}
  /\ item \in [Nodes -> {"queued", "running", "over"}]
  /\ context \in [Nodes -> {"", "canceled", "deadline"}]
  /\ offset \in [Nodes -> 0..Parts]
  /\ \A n \in Nodes : ended[n] # "" <=> item[n] = "over"
  /\ exit \in {NoExit, 0, 1, 2, 3, 130} /\ (exit # NoExit <=> at = "done")
  /\ Cardinality(Running) <= cmd.max

Ran == \E n \in cmd.nodes : ended[n] # ""
Good(n) == ended[n] # "" /\ Status(result[n]) = "ok"

\* Nothing is written on any node, nor here, before the payload was read whole
\* and the gate let the action through, so a read that fails part way leaves
\* every node as it was; and no part ends up at a node, or in a file, that is
\* not the one that was meant, whatever scp makes of a colon in a path or in
\* an address.  (readAll, CopyArgs, checkRemotePath, Gate.Confirm)
SentAsMeant ==
  /\ (\E p \in Places : store[p] # {Old}) =>
       /\ cmd.nodes \cap Protected = {} \/ cmd.force
       /\ ~cmd.dry /\ (cmd.stdin => taken = Parts)
  /\ store[Elsewhere] = {Old}
  /\ \A n \in Nodes : store[n] # {Old} => n \in cmd.nodes

\* A node that is reported as ok has all of the payload, and none of another
\* node's; one with a part of it is not, and the command does not exit 0.
\* A node that answered with a status is never taken for one that was not
\* reached, nor one that was not reached for one that answered; the command is
\* interrupted when a node was cut short or not begun; a transfer that was
\* given up on is a node that was not reached, unless the interrupt came after
\* its deadline.  (RunEach, copyRunner.copy)
ResultsAreTrue ==
  at = "done" /\ Ran =>
    /\ \A n \in cmd.nodes : Good(n) /\ Sends => store[To(n)] = Whole(n)
    /\ exit = 0 <=> \A n \in cmd.nodes : Good(n)
    /\ exit = 130 <=> \E n \in cmd.nodes : context[n] = "canceled" /\ ended[n] \notin {"ok", "panic"}
    /\ exit = 3 => \E n \in cmd.nodes : ended[n] \in {"255", "held"} \/ context[n] = "deadline"
    /\ \A n \in cmd.nodes :
         /\ ended[n] = "status" /\ context[n] = "" => Status(result[n]) = "exit"
         /\ ended[n] = "255" /\ context[n] = "" => Status(result[n]) = "unreachable" /\ exit # 1
         /\ context[n] = "deadline" /\ ~interrupted /\ ended[n] # "panic" =>
              Status(result[n]) = "unreachable" /\ exit = 3

\* --dedup shows each node once, under what it answered itself: a node that
\* was not reached is no node that answered with nothing.  (GroupByOutput)
GroupsAreTrue ==
  at = "done" /\ Ran =>
    \A n \in cmd.nodes :
      \E g \in GroupByOutput :
        /\ n \in g /\ \A h \in GroupByOutput \ {g} : n \notin h
        /\ Heading(g).out = result[n].out /\ Status(Heading(g)) = Status(result[n])

RunsAreTrue == SentAsMeant /\ ResultsAreTrue /\ GroupsAreTrue

(***************************************************************************)
(* The invariant: what was let through, what a place holds of a payload,   *)
(* and how a result came about.                                            *)
(***************************************************************************)
Hows == {"ok", "status", "255", "stopped", "held"}

Values ==
  /\ ended \in [Nodes -> Hows \cup {"", "not_started", "panic"}]
  /\ DOMAIN result = Nodes /\ DOMAIN store = Places

\* What the checks before the fan-out let through.
LetThrough ==
  /\ ~Protects /\ ~cmd.dry /\ (cmd.stdin => taken = Parts)
  /\ Copies => checkRemotePath(cmd.remote)

\* Nothing was begun, except of the nodes of a command that was let through.
BegunInv ==
  /\ at \in {"read", "gate", "prepare"} /\ Copies => checkRemotePath(cmd.remote)
  /\ at = "gate" /\ cmd.stdin => taken = Parts
  /\ at \in {"prepare", "run"} => LetThrough
  /\ \A n \in Nodes : item[n] = "queued" => offset[n] = 0
  /\ \A n \in Nodes : item[n] # "queued" =>
       at \in {"run", "done"} /\ LetThrough /\ n \in cmd.nodes

\* A place holds what its one reader has sent it, or what it held before.
Sent(n) == {<<Origin(n), p>> : p \in 1..offset[n]}
StoreInv ==
  /\ \A n \in cmd.nodes : offset[n] > 0 => store[To(n)] = Sent(n)
  /\ \A p \in Places :
       (\A n \in cmd.nodes : To(n) = p => offset[n] = 0) => store[p] = {Old}

\* A node that was not begun is cut short by the interrupt and nothing else.
ContextInv ==
  \A n \in Nodes :
    /\ context[n] = "canceled" => interrupted
    /\ context[n] = "deadline" => Copies
    /\ item[n] = "queued" /\ interrupted => context[n] = "canceled"
    /\ item[n] = "queued" /\ ~interrupted => context[n] = ""

\* How the result of a node that is over came about.
ResultOf(n) ==
  \/ /\ ended[n] = "not_started" /\ context[n] = "canceled"
     /\ result[n].err = "canceled" /\ result[n].code = NoCode
  \/ ended[n] = "panic" /\ result[n].err = "target" /\ result[n].code = NoCode
  \/ /\ ended[n] \in Hows /\ context[n] = "deadline"
     /\ result[n].err = "transport" /\ result[n].code = NoCode
  \/ /\ ended[n] \in Hows /\ (context[n] = "deadline" => interrupted)
     /\ ended[n] = "ok" /\ Sends => offset[n] = IF Copies THEN Parts ELSE taken
     /\ ended[n] = "stopped" => context[n] # ""
     /\ result[n].err = classify(ended[n], context[n]) /\ result[n].code = Code(ended[n])
ResultInv == \A n \in Nodes : item[n] = "over" => ResultOf(n)

\* Once something was begun, the command is done when every node is over.
ExitInv ==
  at = "done" /\ (\E n \in cmd.nodes : item[n] # "queued") =>
    /\ \A n \in cmd.nodes : item[n] = "over"
    /\ exit = FailureError({result[n] : n \in cmd.nodes})

Inv ==
  /\ TypeOK /\ Values /\ BegunInv /\ StoreInv /\ ContextInv /\ ResultInv /\ ExitInv
=============================================================================
