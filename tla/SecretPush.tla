----------------------------- MODULE SecretPush -----------------------------
(***************************************************************************)
(* secrets push, from the answered question to its exit code: a worker for *)
(* each node, one session in which a script writes every file, the lines   *)
(* it prints about them, and the rows the command makes of those.  The     *)
(* script and the command share the session only: when it is lost, what    *)
(* has been sent may still arrive, whole or in part, and the script may go *)
(* on or end.                                                              *)
(***************************************************************************)
EXTENDS Naturals, Sequences, FiniteSets

CONSTANTS
  Nodes,
  N,            \* the secrets, 1..N, in the order they are configured
  Limit,        \* fanout.max
  Losses        \* bound: sessions lost and scripts killed

PushConstants == N \in Nat \ {0} /\ Limit \in Nat \ {0} /\ Losses \in Nat

Files == 1..N
Codes == {0, 1, 3, 130}

VARIABLES
  worker,       \* of a node: "queued", "open" or "over"
  script,       \* of a node: "none", "running" or "over"
  session,      \* of a node: "none", "up" or "lost"
  at,           \* the file the script comes to next
  arrives,      \* how many lines of the payload arrive whole
  said, heard,  \* the lines the script printed, and how many were read
  target,       \* of a node and a file, what is at the file's path
  row,          \* of a node and a file, what the table says
  interrupted, losses

vars == <<worker, script, session, at, arrives, said, heard, target, row, interrupted, losses>>
node == <<script, session, at, arrives, said, target>>

(***************************************************************************)
(* The script: put reads a line, write checks the size and moves the file. *)
(***************************************************************************)
\* The file is moved without looking at its size.
ArrivedUnchecked(n, f) == TRUE

Arrived(n, f) == f <= arrives[n]

Put(n) ==
  /\ script[n] = "running" /\ at[n] <= N
  /\ \E ok \in BOOLEAN :
       /\ ok => Arrived(n, at[n])
       /\ target' = IF ok THEN [target EXCEPT ![n][at[n]] =
                                  IF at[n] <= arrives[n] THEN "new" ELSE "part"] ELSE target
       /\ said' = [said EXCEPT ![n] = Append(@, IF ok THEN "ok" ELSE "fail")]
  /\ at' = [at EXCEPT ![n] = @ + 1]
  /\ UNCHANGED <<worker, script, session, arrives, heard, row, interrupted, losses>>

ScriptEnds(n) ==
  /\ script[n] = "running" /\ at[n] > N
  /\ script' = [script EXCEPT ![n] = "over"]
  /\ UNCHANGED <<worker, session, at, arrives, said, heard, target, row, interrupted, losses>>

\* It is killed on the node, between two files or within one.
ScriptDies(n) ==
  /\ script[n] = "running" /\ losses < Losses /\ losses' = losses + 1
  /\ script' = [script EXCEPT ![n] = "over"]
  /\ \/ UNCHANGED target
     \/ /\ at[n] <= N /\ Arrived(n, at[n])
        /\ target' = [target EXCEPT ![n][at[n]] = "new"]
  /\ UNCHANGED <<worker, session, at, arrives, said, heard, row, interrupted>>

SessionLost(n) ==
  /\ session[n] = "up" /\ losses < Losses /\ losses' = losses + 1
  /\ session' = [session EXCEPT ![n] = "lost"]
  /\ \E k \in (at[n] - 1)..N : arrives' = [arrives EXCEPT ![n] = k]
  /\ UNCHANGED <<worker, script, at, said, heard, target, row, interrupted>>

(***************************************************************************)
(* The command.                                                            *)
(***************************************************************************)
Running == {n \in Nodes : worker[n] = "open"}

Start(n) ==
  /\ worker[n] = "queued" /\ ~interrupted /\ Cardinality(Running) < Limit
  /\ worker' = [worker EXCEPT ![n] = "open"]
  /\ \/ /\ session' = [session EXCEPT ![n] = "up"]
        /\ script' = [script EXCEPT ![n] = "running"]
     \/ /\ session' = [session EXCEPT ![n] = "lost"] /\ UNCHANGED script
  /\ UNCHANGED <<at, arrives, said, heard, target, row, interrupted, losses>>

Hear(n) ==
  /\ worker[n] = "open" /\ session[n] = "up" /\ heard[n] < Len(said[n])
  /\ heard' = [heard EXCEPT ![n] = @ + 1]
  /\ UNCHANGED <<worker, node, row, interrupted, losses>>

\* A node that could not be reached, or an interrupt, ends the rest of its
\* files with the first of them; any other failure is each file's own.
nodeUnreachable(why) == why \in {"unreached", "interrupted"}

\* What the node said of a file.
Verdict(n, f) == IF said[n][f] = "ok" THEN "written" ELSE "refused"

\* A file the node said nothing of was not written, and this is why.
Rows(n, why) ==
  [f \in Files |->
     IF f <= heard[n] THEN Verdict(n, f)
     ELSE IF f > heard[n] + 1 /\ nodeUnreachable(why) THEN "skipped"
     ELSE why]

WorkerOver(n, why) ==
  /\ worker' = [worker EXCEPT ![n] = "over"]
  /\ row' = [row EXCEPT ![n] = Rows(n, why)]
  /\ UNCHANGED <<node, heard, interrupted, losses>>

\* A session that ended well after its script had a line for every file; one
\* whose script was killed exits with a code of its own.
Ended(n) ==
  /\ worker[n] = "open" /\ session[n] = "up" /\ script[n] = "over"
  /\ heard[n] = Len(said[n])
  /\ WorkerOver(n, "refused")

Lost(n) == worker[n] = "open" /\ session[n] = "lost" /\ WorkerOver(n, "unreached")

Canceled(n) == worker[n] = "open" /\ interrupted /\ WorkerOver(n, "interrupted")

\* notPushed: the pool starts nothing more.
NotStarted(n) == worker[n] = "queued" /\ interrupted /\ WorkerOver(n, "interrupted")

Interrupt ==
  /\ ~interrupted /\ interrupted' = TRUE
  /\ UNCHANGED <<worker, node, heard, row, losses>>

Init ==
  /\ worker = [n \in Nodes |-> "queued"] /\ script = [n \in Nodes |-> "none"]
  /\ session = [n \in Nodes |-> "none"]
  /\ at = [n \in Nodes |-> 1] /\ arrives = [n \in Nodes |-> N]
  /\ said = [n \in Nodes |-> <<>>] /\ heard = [n \in Nodes |-> 0]
  /\ target = [n \in Nodes |-> [f \in Files |-> "old"]]
  /\ row = [n \in Nodes |-> [f \in Files |-> ""]]
  /\ interrupted = FALSE /\ losses = 0

Next ==
  \/ Interrupt
  \/ \E n \in Nodes :
       \/ Put(n) \/ ScriptEnds(n) \/ ScriptDies(n) \/ SessionLost(n)
       \/ Start(n) \/ Hear(n) \/ Ended(n) \/ Lost(n) \/ Canceled(n) \/ NotStarted(n)

Spec == Init /\ [][Next]_vars

(***************************************************************************)
(* The exit code.                                                          *)
(***************************************************************************)
Code(r) == CASE r = "refused" -> 1 [] r = "unreached" -> 3 [] r = "interrupted" -> 130 [] OTHER -> 0

\* exitcode.Worst, of the codes met here.
Worst(codes) ==
  IF 130 \in codes THEN 130 ELSE IF 3 \in codes THEN 3 ELSE IF 1 \in codes THEN 1 ELSE 0

\* A node counts with the worst of its failures, not with the first.
NodeCode(n) == Worst({Code(row[n][f]) : f \in Files})

exit == Worst({NodeCode(n) : n \in Nodes})

(***************************************************************************)
(* Properties.                                                             *)
(***************************************************************************)
TypeOK ==
  /\ worker \in [Nodes -> {"queued", "open", "over"}]
  /\ script \in [Nodes -> {"none", "running", "over"}]
  /\ session \in [Nodes -> {"none", "up", "lost"}]
  /\ \A n \in Nodes : heard[n] <= Len(said[n]) /\ Len(said[n]) = at[n] - 1
  /\ Cardinality(Running) <= Limit

Done == \A n \in Nodes : worker[n] = "over"

\* A secret is at its path as it was or as it is to be, whenever the
\* connection is lost and however much of it has arrived; and a row that says
\* "written" is true.
PushIsTrue ==
  \A n \in Nodes, f \in Files :
    /\ target[n][f] \in {"old", "new"}
    /\ row[n][f] = "written" => target[n][f] = "new"

\* The exit code says the worst that happened to any secret: 0 when every one
\* is in place, 3 when a node could not be reached, also one that had refused
\* a secret before, or when another node did; and no file is passed over
\* without a row before it that says why.
ExitIsWorst ==
  Done =>
    /\ exit = 0 <=> \A n \in Nodes, f \in Files : row[n][f] = "written"
    /\ exit = 0 => \A n \in Nodes, f \in Files : target[n][f] = "new"
    /\ (\E n \in Nodes, f \in Files : row[n][f] = "unreached") => exit \in {3, 130}
    /\ \A n \in Nodes, f \in Files : row[n][f] = "skipped" =>
         \E g \in 1..(f - 1) : row[n][g] \in {"unreached", "interrupted"}

(***************************************************************************)
(* What holds of every node, and the properties rest on.                   *)
(***************************************************************************)
Values ==
  /\ at \in [Nodes -> 1..(N + 1)] /\ arrives \in [Nodes -> 0..N]
  /\ said \in [Nodes -> Seq({"ok", "fail"})] /\ heard \in [Nodes -> Nat]
  /\ target \in [Nodes -> [Files -> {"old", "new"}]]
  /\ DOMAIN row = Nodes /\ IsFiniteSet(Running)

\* A file the node said was written is written.
SaidInv ==
  \A n \in Nodes : \A f \in Files : f < at[n] /\ said[n][f] = "ok" => target[n][f] = "new"

\* A row is made once, of the lines that were heard, which stay as they are.
RowInv ==
  \A n \in Nodes :
    IF worker[n] = "over"
    THEN \E why \in {"refused", "unreached", "interrupted"} : row[n] = Rows(n, why)
    ELSE \A f \in Files : row[n][f] = ""

Inv == TypeOK /\ Values /\ SaidInv /\ RowInv
=============================================================================
