-------------------------------- MODULE Cinc --------------------------------
(***************************************************************************)
(* cinc config and cinc run, side by side: the configuration file of each  *)
(* node, replaced whole by one command while another reads it, decides of  *)
(* each node whether the client may run there, and runs it with what it    *)
(* read.                                                                   *)
(***************************************************************************)
EXTENDS Naturals

CONSTANTS
  Nodes,
  Archives,     \* archive locations checkCincURL accepts
  Others,       \* what else a file may hold: an assignment a shell would
                \* act on, no archive, a location that is refused
  Writes,       \* bound: files written by cinc config and by hand
  Losses        \* bound: sessions lost

NoFile == "no_file"
Nothing == "nothing"

CincConstants ==
  /\ Writes \in Nat /\ Losses \in Nat
  /\ Archives \cap Others = {} /\ {NoFile, Nothing} \cap (Archives \cup Others) = {}

VARIABLES
  file,         \* of a node, its configuration file
  writing,      \* of a node, what a script of cinc config is about to move into place
  at,           \* of the run: "read", "run" or "done"
  read,         \* of a node, what the run read
  result,       \* of a node, what the run reports
  ran,          \* of a node, the archives the client was run with
  named,        \* history: what a node's file named while it was being read
  writes, losses

vars == <<file, writing, at, read, result, ran, named, writes, losses>>
run == <<at, read, result, ran, named>>

Results == {Nothing, "ok", "failed", "unreached", "refused"}

(***************************************************************************)
(* cinc config: beside the file, all of it, then into its place.           *)
(***************************************************************************)
\* An archive fetched over https, and nothing a shell would read into.
checkCincURL(v) == v \in Archives

Config(n, v) ==
  /\ checkCincURL(v)
  /\ writes < Writes /\ writes' = writes + 1
  /\ writing[n] = Nothing /\ writing' = [writing EXCEPT ![n] = v]
  /\ UNCHANGED <<file, run, losses>>

\* The connection is lost before all of it has arrived: the old file stays.
ConfigLost(n) ==
  /\ writing[n] # Nothing /\ losses < Losses /\ losses' = losses + 1
  /\ writing' = [writing EXCEPT ![n] = Nothing]
  /\ UNCHANGED <<file, run, writes>>

Move(n) ==
  /\ writing[n] # Nothing
  /\ file' = [file EXCEPT ![n] = writing[n]]
  /\ writing' = [writing EXCEPT ![n] = Nothing]
  /\ named' = IF at = "read" THEN [named EXCEPT ![n] = @ \cup {writing[n]}] ELSE named
  /\ UNCHANGED <<at, read, result, ran, writes, losses>>

ByHand(n, v) ==
  /\ writes < Writes /\ writes' = writes + 1
  /\ file' = [file EXCEPT ![n] = v]
  /\ named' = IF at = "read" THEN [named EXCEPT ![n] = @ \cup {v}] ELSE named
  /\ UNCHANGED <<writing, at, read, result, ran, losses>>

(***************************************************************************)
(* cinc run.                                                               *)
(***************************************************************************)
Read(n) ==
  /\ at = "read" /\ read[n] = Nothing /\ result[n] = Nothing
  /\ read' = [read EXCEPT ![n] = file[n]]
  /\ UNCHANGED <<file, writing, at, result, ran, named, writes, losses>>

NotRead(n) ==
  /\ at = "read" /\ read[n] = Nothing /\ result[n] = Nothing
  /\ losses < Losses /\ losses' = losses + 1
  /\ result' = [result EXCEPT ![n] = "unreached"]
  /\ UNCHANGED <<file, writing, at, read, ran, named, writes>>

\* parseCincSolo and check: plain assignments that name an archive.
Usable(c) == checkCincURL(c)

Ready == {n \in Nodes : result[n] = Nothing /\ Usable(read[n])}

Decide ==
  /\ at = "read" /\ at' = "run"
  /\ \A n \in Nodes : read[n] # Nothing \/ result[n] # Nothing
  /\ result' = [n \in Nodes |->
       IF result[n] = Nothing /\ n \notin Ready THEN "refused" ELSE result[n]]
  /\ UNCHANGED <<file, writing, read, ran, named, writes, losses>>

\* The client runs with what was read; its session may be lost before or
\* after it was started.
Run(n) ==
  /\ at = "run" /\ result[n] = Nothing
  /\ \/ /\ ran' = [ran EXCEPT ![n] = @ \cup {read[n]}]
        /\ \E r \in {"ok", "failed"} : result' = [result EXCEPT ![n] = r]
        /\ UNCHANGED losses
     \/ /\ losses < Losses /\ losses' = losses + 1
        /\ \E started \in BOOLEAN :
             ran' = IF started THEN [ran EXCEPT ![n] = @ \cup {read[n]}] ELSE ran
        /\ result' = [result EXCEPT ![n] = "unreached"]
  /\ UNCHANGED <<file, writing, at, read, named, writes>>

RunOver ==
  /\ at = "run" /\ at' = "done" /\ \A n \in Nodes : result[n] # Nothing
  /\ UNCHANGED <<file, writing, read, result, ran, named, writes, losses>>

Init ==
  /\ file \in [Nodes -> Archives \cup Others \cup {NoFile}]
  /\ writing = [n \in Nodes |-> Nothing] /\ at = "read"
  /\ read = [n \in Nodes |-> Nothing] /\ result = [n \in Nodes |-> Nothing]
  /\ ran = [n \in Nodes |-> {}] /\ named = [n \in Nodes |-> {file[n]}]
  /\ writes = 0 /\ losses = 0

Next ==
  \/ \E n \in Nodes :
       \/ \E v \in Archives \cup Others : Config(n, v)
       \/ \E v \in Others : ByHand(n, v)
       \/ ConfigLost(n) \/ Move(n) \/ Read(n) \/ NotRead(n) \/ Run(n)
  \/ Decide \/ RunOver

Spec == Init /\ [][Next]_vars

(***************************************************************************)
(* failureError: a node the client was not run on has failed as well.      *)
(***************************************************************************)
exit ==
  IF \E n \in Nodes : result[n] = "unreached" THEN 3
  ELSE IF \E n \in Nodes : result[n] # "ok" THEN 1 ELSE 0

TypeOK ==
  /\ file \in [Nodes -> Archives \cup Others \cup {NoFile}]
  /\ result \in [Nodes -> Results] /\ at \in {"read", "run", "done"}
  /\ \A n \in Nodes : \A a, b \in ran[n] : a = b

\* The client runs as root with an archive the node's own file named while
\* the command was reading, whole, and never with what is in between two
\* files, or in one a shell would have acted on; the command ends well only
\* when it ran, and ended well, on every node.
RunIsAsRead ==
  /\ \A n \in Nodes : ran[n] \subseteq named[n] \cap Archives
  /\ at = "done" /\ exit = 0 => \A n \in Nodes : ran[n] # {}

(***************************************************************************)
(* What holds of every node, and the properties rest on.                   *)
(***************************************************************************)
Contents == Archives \cup Others \cup {NoFile}

Values ==
  /\ writing \in [Nodes -> Archives \cup {Nothing}]
  /\ read \in [Nodes -> Contents \cup {Nothing}]
  /\ ran \in [Nodes -> SUBSET Archives] /\ named \in [Nodes -> SUBSET Contents]

\* What is read is what the file named meanwhile.
NamedInv ==
  \A n \in Nodes : /\ at = "read" => file[n] \in named[n]
                   /\ read[n] # Nothing => read[n] \in named[n]

\* The client runs after the decision, with what was read, and its result says
\* so.
RunInv ==
  \A n \in Nodes :
    /\ at = "read" => result[n] \in {Nothing, "unreached"}
    /\ at = "run" /\ result[n] = Nothing => read[n] \in Archives
    /\ at = "done" => result[n] # Nothing
    /\ result[n] = Nothing => ran[n] = {}
    /\ ran[n] \subseteq {read[n]}
    /\ result[n] \in {"ok", "failed"} => ran[n] # {}

Inv == TypeOK /\ Values /\ NamedInv /\ RunInv
=============================================================================
