----------------------------- MODULE Accounting -----------------------------
(***************************************************************************)
(* slurm user add and slurm user default, typed at several desks, and the  *)
(* accounting database behind them: what a user is associated with in each *)
(* of the clusters one slurmdbd serves.  The database is outside; a change *)
(* that is refused, or whose answer is lost, is a step here.               *)
(***************************************************************************)
EXTENDS Naturals, FiniteSets

CONSTANTS
  Clusters,     \* the clusters of the database, Here among them
  Here,         \* the cluster of the login node
  Accounts,
  Desks,
  Asked,        \* of a desk, the accounts that may be given: account, default
  Losses        \* bound: answers lost and changes refused

NoAccount == "none"
Nobody == "nobody"

AccountingConstants ==
  /\ Here \in Clusters /\ NoAccount \notin Accounts /\ Nobody \notin Desks
  /\ Losses \in Nat
  /\ \A d \in Desks : Asked[d] \subseteq
       [verb: {"add", "default"}, account: Accounts, default: Accounts \cup {NoAccount}]

VARIABLES
  assoc,        \* of a cluster, the accounts the user is associated with
  default,      \* of a cluster, the user's default account
  pc, asked,
  plan,         \* of a desk, what PlanUserAdd resolved and the question showed
  result,
  by,           \* history: who set the default account here last
  losses

vars == <<assoc, default, pc, asked, plan, result, by, losses>>
database == <<assoc, default, by>>

NoPlan == [exists |-> FALSE, current |-> NoAccount, default |-> NoAccount, associate |-> {}]
Go(d, at) == pc' = [pc EXCEPT ![d] = at]
Over(d, r) == Go(d, "over") /\ result' = [result EXCEPT ![d] = r]

Type(d) ==
  /\ pc[d] = "idle" /\ Go(d, "plan")
  /\ \E a \in Asked[d] : asked' = [asked EXCEPT ![d] = a]
  /\ UNCHANGED <<database, plan, result, losses>>

(***************************************************************************)
(* PlanUserAdd, from the associations the database has here.               *)
(***************************************************************************)
Fallback(x, y) == IF x # NoAccount THEN x ELSE y

PlanNew(a) ==
  LET d == Fallback(a.default, a.account) IN
  [exists |-> FALSE, current |-> NoAccount, default |-> d, associate |-> {a.account, d}]

\* The default account asked for is associated only with the account itself.
PlanExistingShort(a, accounts, current) ==
  [exists |-> TRUE, current |-> current,
   default |-> IF a.default # current THEN a.default ELSE NoAccount,
   associate |-> {a.account} \ accounts]

PlanExisting(a, accounts, current) ==
  LET d == IF a.default # current THEN a.default ELSE NoAccount IN
  [exists |-> TRUE, current |-> current, default |-> d,
   associate |-> ({a.account, d} \ {NoAccount}) \ accounts]

Planned(a) ==
  IF assoc[Here] = {} THEN PlanNew(a) ELSE PlanExisting(a, assoc[Here], default[Here])

Changes(p) == p.associate # {} \/ p.default # NoAccount

PlanUserAdd(d) ==
  /\ pc[d] = "plan" /\ asked[d].verb = "add"
  /\ plan' = [plan EXCEPT ![d] = Planned(asked[d])]
  /\ IF Changes(plan'[d]) THEN Go(d, "confirm") /\ UNCHANGED result
     ELSE Over(d, "nothing_to_do")
  /\ UNCHANGED <<database, asked, losses>>

\* user default only asks for the cluster before its question.
PlanDefault(d) ==
  /\ pc[d] = "plan" /\ asked[d].verb = "default"
  /\ plan' = [plan EXCEPT ![d] =
                [NoPlan EXCEPT !.exists = TRUE, !.default = asked[d].account]]
  /\ Go(d, "confirm")
  /\ UNCHANGED <<database, asked, result, losses>>

\* The user, the cluster or the associations could not be read.
NotPlanned(d) ==
  /\ pc[d] = "plan" /\ losses < Losses /\ losses' = losses + 1
  /\ Over(d, "not_asked")
  /\ UNCHANGED <<database, asked, plan>>

Confirm(d) ==
  /\ pc[d] = "confirm"
  /\ \/ Go(d, IF plan[d].exists /\ plan[d].associate = {} THEN "default" ELSE "associate")
        /\ UNCHANGED result
     \/ Over(d, "declined")
  /\ UNCHANGED <<database, asked, plan, losses>>

(***************************************************************************)
(* sacctmgr.  A change names the cluster it is for.                        *)
(***************************************************************************)
Named == {Here}

SetDefault(d, account) ==
  /\ default' = [c \in Clusters |-> IF c \in Named THEN account ELSE default[c]]
  /\ by' = d

\* AddUser: the associations first, and with them, of a new user, the default;
\* of a user another desk has added meanwhile the default may stay.
Associate(d) ==
  LET p == plan[d] IN
  /\ assoc' = [c \in Clusters |-> IF c \in Named THEN assoc[c] \cup p.associate ELSE assoc[c]]
  /\ \/ p.exists /\ UNCHANGED <<default, by>>
     \/ ~p.exists /\ SetDefault(d, p.default)
     \/ ~p.exists /\ assoc[Here] # {} /\ UNCHANGED <<default, by>>

AfterAssociating(d) == IF plan[d].exists /\ plan[d].default # NoAccount THEN "default" ELSE "done"

AddUser(d) ==
  /\ pc[d] = "associate"
  /\ \/ /\ Associate(d) /\ UNCHANGED losses
        /\ IF AfterAssociating(d) = "default" THEN Go(d, "default") /\ UNCHANGED result
           ELSE Over(d, "ok")
     \/ /\ losses < Losses /\ losses' = losses + 1 /\ Over(d, "failed")
        /\ Associate(d) \/ UNCHANGED database
  /\ UNCHANGED <<asked, plan>>

\* sacctmgr refuses a default account the user is not associated with.
setDefaultAccount(d) ==
  LET p == plan[d] IN
  /\ pc[d] = "default"
  /\ \/ p.default \in assoc[Here] /\ SetDefault(d, p.default) /\ Over(d, "ok") /\ UNCHANGED losses
     \/ p.default \notin assoc[Here] /\ Over(d, "refused") /\ UNCHANGED <<default, by, losses>>
     \/ /\ losses < Losses /\ losses' = losses + 1 /\ Over(d, "failed")
        /\ \/ UNCHANGED <<default, by>>
           \/ p.default \in assoc[Here] /\ SetDefault(d, p.default)
  /\ UNCHANGED <<assoc, asked, plan>>

Init ==
  /\ assoc \in [Clusters -> SUBSET Accounts]
  /\ default \in [Clusters -> Accounts \cup {NoAccount}]
  /\ \A c \in Clusters \ {Here} : assoc[c] = {}
  /\ \A c \in Clusters : IF assoc[c] = {} THEN default[c] = NoAccount ELSE default[c] \in assoc[c]
  /\ pc = [d \in Desks |-> "idle"]
  /\ asked = [d \in Desks |-> [verb |-> "none", account |-> NoAccount, default |-> NoAccount]]
  /\ plan = [d \in Desks |-> NoPlan] /\ result = [d \in Desks |-> "none"]
  /\ by = Nobody /\ losses = 0

Next ==
  \E d \in Desks :
    \/ Type(d) \/ PlanUserAdd(d) \/ PlanDefault(d) \/ NotPlanned(d) \/ Confirm(d)
    \/ AddUser(d) \/ setDefaultAccount(d)

Spec == Init /\ [][Next]_vars

(***************************************************************************)
(* Properties.                                                             *)
(***************************************************************************)
TypeOK ==
  /\ assoc \in [Clusters -> SUBSET Accounts]
  /\ default \in [Clusters -> Accounts \cup {NoAccount}]
  /\ pc \in [Desks -> {"idle", "plan", "confirm", "associate", "default", "over"}]
  /\ \A d \in Desks : plan[d].associate \subseteq Accounts

\* A user is never left with a default account it is not associated with,
\* wherever the command stops; an addition that ends well leaves the
\* association that was asked for, and the default account the question
\* showed unless another desk has set one since; none is refused for an
\* association the addition itself should have made; and a user of no other
\* cluster of the database is added to one.
AddedAsShown ==
  /\ \A c \in Clusters : assoc[c] # {} => c = Here /\ default[c] \in assoc[c]
  /\ \A d \in Desks :
       /\ asked[d].verb = "add" => result[d] # "refused"
       /\ result[d] \in {"ok", "nothing_to_do"} =>
            asked[d].verb = "default" \/ asked[d].account \in assoc[Here]
       /\ result[d] = "ok" /\ plan[d].default # NoAccount /\ by = d => default[Here] = plan[d].default

(***************************************************************************)
(* What holds of every database and every desk, and AddedAsShown rests on. *)
(***************************************************************************)
Plans == [exists : BOOLEAN, current : Accounts \cup {NoAccount},
          default : Accounts \cup {NoAccount}, associate : SUBSET Accounts]

Results == {"none", "ok", "nothing_to_do", "not_asked", "declined", "refused", "failed"}

DeskInv ==
  /\ plan \in [Desks -> Plans] /\ result \in [Desks -> Results]
  /\ asked \in [Desks -> [verb : {"none", "add", "default"},
                          account : Accounts \cup {NoAccount},
                          default : Accounts \cup {NoAccount}]]
  /\ \A d \in Desks : /\ pc[d] # "idle" => asked[d] \in Asked[d]
                      /\ pc[d] # "over" => result[d] = "none"

\* Only the own cluster has associations of the user, and its default account is
\* one of them.
HereInv == \A c \in Clusters : assoc[c] # {} => c = Here /\ default[c] \in assoc[c]

\* A plan of user add: what it does not associate is associated already.
AddPlanned(d) ==
  LET p == plan[d] IN
  /\ asked[d].account \in p.associate \cup assoc[Here]
  /\ p.default \in p.associate \cup assoc[Here] \cup {NoAccount}
  /\ IF p.exists THEN assoc[Here] # {} ELSE p.default \in p.associate
  /\ p.exists /\ p.associate = {} => p.default # NoAccount

DefaultPlanned(d) == plan[d].exists /\ plan[d].associate = {}

PlanInv ==
  \A d \in Desks :
    /\ pc[d] \in {"confirm", "associate", "default"} =>
         IF asked[d].verb = "add" THEN AddPlanned(d) ELSE DefaultPlanned(d)
    /\ pc[d] = "associate" => asked[d].verb = "add"
    /\ pc[d] = "default" /\ asked[d].verb = "add" =>
         {asked[d].account, plan[d].default} \subseteq assoc[Here]

\* The default account is that of the plan of who set it last.
ByInv == \A d \in Desks : by = d => pc[d] = "over" /\ default[Here] = plan[d].default

ResultInv ==
  \A d \in Desks :
    /\ asked[d].verb = "add" => result[d] # "refused"
    /\ result[d] \in {"ok", "nothing_to_do"} =>
         asked[d].verb = "default" \/ asked[d].account \in assoc[Here]

Inv == TypeOK /\ DeskInv /\ HereInv /\ PlanInv /\ ByInv /\ ResultInv
=============================================================================
