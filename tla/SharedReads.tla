----------------------------- MODULE SharedReads -----------------------------
(***************************************************************************)
(* What many callers of one command read together: node groups, passwords  *)
(* and the files of the DHCP server.  The three share no state, so one     *)
(* specification takes them one after another: scene says which of them a  *)
(* behaviour is of, and the registers v1 to v13 are its variables, in the  *)
(* order in which its module declares them; those it does not need stay as *)
(* they are.                                                               *)
(***************************************************************************)
EXTENDS Naturals, Sequences, FiniteSets

\* Of each component a record with the values of its constants.
CONSTANTS OfGroups, OfCredentials, OfDhcp

VARIABLES scene, v1, v2, v3, v4, v5, v6, v7, v8, v9, v10, v11, v12, v13

vars == <<scene, v1, v2, v3, v4, v5, v6, v7, v8, v9, v10, v11, v12, v13>>
Unused == "unused"

L == INSTANCE Lookups WITH
  Callers <- OfGroups.Callers, Groups <- OfGroups.Groups, Order <- OfGroups.Order,
  Static <- OfGroups.Static, Listing <- OfGroups.Listing, Alls <- OfGroups.Alls,
  Cached <- OfGroups.Cached, Path <- OfGroups.Path, Limit <- OfGroups.Limit,
  Ops <- OfGroups.Ops, Begins <- OfGroups.Begins, Old <- OfGroups.Old,
  Fickle <- OfGroups.Fickle, Changes <- OfGroups.Changes, asker <- v1, kept <- v2,
  flights <- v3, held <- v4, disk <- v5, interrupted <- v6, defines <- v7,
  wasAbsent <- v8, changes <- v9

C == INSTANCE Credentials WITH
  Names <- OfCredentials.Names, Workers <- OfCredentials.Workers,
  Wants <- OfCredentials.Wants, Kind <- OfCredentials.Kind,
  Document <- OfCredentials.Document, Terminals <- OfCredentials.Terminals,
  NoTerminal <- v1, pc <- v2, got <- v3, cache <- v4, failed <- v5, reading <- v6,
  terminal <- v7, secrets <- v8, values <- v9, prefetching <- v10, ended <- v11,
  reads <- v12, cut <- v13

D == INSTANCE DhcpFetch WITH
  Workers <- OfDhcp.Workers, Files <- OfDhcp.Files, Main <- OfDhcp.Main,
  Layouts <- OfDhcp.Layouts, prefetchers <- OfDhcp.prefetchers,
  maxFiles <- OfDhcp.maxFiles, maxDepth <- OfDhcp.maxDepth,
  Failures <- OfDhcp.Failures, layout <- v1, pc <- v2, answer <- v3, ended <- v4,
  reader <- v5, memo <- v6, frames <- v7, files <- v8, hosts <- v9, fetch <- v10,
  stopped <- v11, disk <- v12, failures <- v13

SharedReadsConstants ==
  L!LookupsConstants /\ C!CredentialsConstants /\ D!DhcpFetchConstants
ASSUME SharedReadsAssumption == SharedReadsConstants

(***************************************************************************)
(* The scenes.                                                             *)
(***************************************************************************)
Init ==
  \/ /\ scene = "groups" /\ L!Init
     /\ v10 = Unused /\ v11 = Unused /\ v12 = Unused /\ v13 = Unused
  \/ /\ scene = "credentials" /\ C!Init
  \/ /\ scene = "dhcp" /\ D!Init

Next ==
  \/ scene = "groups" /\ L!Next /\ UNCHANGED <<scene, v10, v11, v12, v13>>
  \/ scene = "credentials" /\ C!Next /\ UNCHANGED <<scene>>
  \/ scene = "dhcp" /\ D!Next /\ UNCHANGED <<scene>>

Lvars == L!vars
Cvars == C!vars
Dvars == D!vars

\* The fairness of each component, of its own steps.
Fairness ==
  /\ \A a \in L!Askers : WF_Lvars(scene = "groups" /\ L!Step(a))
  /\ \A c \in OfGroups.Callers : WF_Lvars(scene = "groups" /\ L!Call(c))
  /\ WF_Cvars(scene = "credentials" /\ C!PrefetchOver)
  /\ \A a \in C!Askers : WF_Cvars(scene = "credentials" /\ C!Step(a))
  /\ \A w \in OfDhcp.Workers : WF_Dvars(scene = "dhcp" /\ D!Step(w))
  /\ \A f \in OfDhcp.Files :
       WF_Dvars(scene = "dhcp" /\ D!Slot(f)) /\ WF_Dvars(scene = "dhcp" /\ D!Read(f))

Spec == Init /\ [][Next]_vars /\ Fairness

(***************************************************************************)
(* Properties.                                                             *)
(***************************************************************************)
\* The values the state of each component can hold.
TypeOK ==
  /\ scene \in {"groups", "credentials", "dhcp"}
  /\ scene = "groups" => L!TypeOK
  /\ scene = "credentials" => C!TypeOK
  /\ scene = "dhcp" => D!TypeOK

\* An answer many callers share is one its source gave while it was asked, the
\* whole of it, and no failure is kept for one.
\* (groups.lookup, credentials.Get, app.dhcpHosts)
SharedIsTrue ==
  /\ scene = "groups" => L!AnswerIsTrue /\ L!GroupsOfIsWhole /\ L!UnionIsWhole
  /\ scene = "credentials" => C!OneAnswer
  /\ scene = "dhcp" => D!KeptIsAnAnswer

\* However many callers want one answer, one command runs for it at a time, and
\* the user is asked for a password once.  (groups.lookup, credentials.read)
AskedOnce ==
  /\ scene = "groups" => L!OneCommand
  /\ scene = "credentials" => C!AskedOnce

\* No caller waits for ever: not those of two groups behind the same two hosts,
\* not those of one password, nor those of files that are read ahead.
\* (Hosts.Acquire, groups.lookup, credentials.Get, dhcp.fetch)
EveryCallEnds ==
  <>(/\ scene = "groups" => L!CallsOver
     /\ scene = "credentials" => C!GetsOver
     /\ scene = "dhcp" => D!WorkersOver)
=============================================================================
