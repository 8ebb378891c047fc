--------------------------------- MODULE Dns ---------------------------------
(***************************************************************************)
(* dns lookup and dns aliases: the host names of the nodes, or the aliases *)
(* and then the addresses behind them, each looked up by a worker of its   *)
(* own that asks the name servers in turn.  The workers share the marks of *)
(* the servers that let a query run out of time.  The servers are outside; *)
(* they change at any moment between two queries, what they know does not. *)
(***************************************************************************)
EXTENDS Naturals, Sequences, FiniteSets, SequencesExt

CONSTANTS
  Names,        \* host names, or aliases, in the zone or not
  Zones,        \* what the servers may know: alias, addresses by type, reverse
  Servers,      \* the name servers, 1..Servers in their order
  Limit,        \* services.dns.maxConcurrent, or --fanout
  maxCNAMEs,
  Large,        \* names whose answer does not fit into a datagram
  Turns         \* bound: changes of the servers

None == "none"
Types == <<"A", "AAAA">>
ReverseTypes == <<"PTR">>
Conditions == {"up", "no_tcp", "silent", "failing", "closed"}

Addresses == UNION {UNION {z.a[n] \cup z.aaaa[n] : n \in Names} : z \in Zones}
Items == Names \cup Addresses

DnsConstants ==
  /\ {Servers, Limit, maxCNAMEs} \subseteq Nat \ {0} /\ Turns \in Nat
  /\ \A z \in Zones : \A n \in Names : z.alias[n] \in Names \cup {None}
  /\ Names \cap Addresses = {} /\ IsFiniteSet(Items)

VARIABLES
  verb, zone,
  server,       \* of a server, its condition
  silent,       \* dnsClient.silent
  phase,        \* "hosts", "reverse" or "over"
  pc,           \* of an item, "queued", "query", "asking" or "over"
  todo,         \* the types that are still to be asked for
  order,        \* the servers the query still asks, those that were silent last
  missing,      \* how many types of it there is no such host of
  chain, addresses,  \* what was found so far
  answer,
  interrupted, turns,
  was,          \* history: the conditions a server has been in
  timeouts,     \* history: queries a server let run out of time
  heard         \* history: what the servers said of an item's last query

vars == <<verb, zone, server, silent, phase, pc, todo, order, missing, chain, addresses, answer,
          interrupted, turns, was, timeouts, heard>>
world == <<verb, zone, server, turns, was>>
found == <<missing, chain, addresses>>

Asking == {i \in Items : pc[i] \in {"query", "asking"}}

(***************************************************************************)
(* What is in the zone.  An alias is followed maxCNAMEs times.             *)
(***************************************************************************)
Exists(n) == n \in zone.known

Ends(n) ==
  LET end[k \in 0..maxCNAMEs] ==
        IF k = 0 THEN n ELSE IF end[k - 1] = None THEN None ELSE zone.alias[end[k - 1]]
  IN end

Links(n) ==
  LET links == {k \in 1..maxCNAMEs : Ends(n)[k] # None}
  IN SubSeq([k \in 1..maxCNAMEs |-> Ends(n)[k]], 1, Cardinality(links))

EndOf(n) == IF Links(n) = <<>> THEN n ELSE Last(Links(n))

Held(n, type) == IF type = "A" THEN zone.a[EndOf(n)] ELSE zone.aaaa[EndOf(n)]

(***************************************************************************)
(* query: the servers in turn.                                             *)
(***************************************************************************)
\* As they are configured.
orderAsConfigured(marks) == [first |-> 1..Servers, last |-> {}]

\* As they are configured, those that let a query run out of time last.
orderOf(marks) == [first |-> (1..Servers) \ marks, last |-> marks]

Least(S) == CHOOSE s \in S : \A t \in S : s <= t

\* The servers a query has not asked, and the one it asks.
Left(i) == order[i].first \cup order[i].last
Asked(i) == IF order[i].first # {} THEN Least(order[i].first) ELSE Least(order[i].last)

Start(i) ==
  /\ pc[i] = "queued" /\ ~interrupted /\ Cardinality(Asking) < Limit
  /\ pc' = [pc EXCEPT ![i] = "query"]
  /\ UNCHANGED <<world, silent, phase, todo, order, found, answer, interrupted, timeouts, heard>>

\* The pool starts nothing more.
NotStarted(i) ==
  /\ pc[i] = "queued" /\ interrupted
  /\ pc' = [pc EXCEPT ![i] = "over"] /\ answer' = [answer EXCEPT ![i] = "canceled"]
  /\ UNCHANGED <<world, silent, phase, todo, order, found, interrupted, timeouts, heard>>

Query(i) ==
  /\ pc[i] = "query" /\ todo[i] # <<>>
  /\ pc' = [pc EXCEPT ![i] = "asking"] /\ order' = [order EXCEPT ![i] = orderOf(silent)]
  /\ heard' = [heard EXCEPT ![i] = {}]
  /\ UNCHANGED <<world, silent, phase, todo, found, answer, interrupted, timeouts>>

Over(i, a) == pc' = [pc EXCEPT ![i] = "over"] /\ answer' = [answer EXCEPT ![i] = a]

\* An answer, also that there is none: the next type, or what was found.
Learned(i, no, links, more) ==
  /\ missing' = [missing EXCEPT ![i] = @ + no]
  /\ chain' = [chain EXCEPT ![i] = IF Len(links) > Len(@) THEN links ELSE @]
  /\ addresses' = [addresses EXCEPT ![i] = @ \cup more]
  /\ todo' = [todo EXCEPT ![i] = Tail(@)]
  /\ IF Len(todo[i]) > 1 THEN pc' = [pc EXCEPT ![i] = "query"] /\ UNCHANGED answer
     ELSE Over(i, IF missing'[i] = IF i \in Names THEN 2 ELSE 1 THEN "no_such_host"
                  ELSE IF addresses'[i] = {} THEN IF i \in Names THEN "no_address" ELSE "no_such_host"
                  ELSE "ok")

Told(i) ==
  LET type == Head(todo[i]) IN
  IF type = "PTR" THEN Learned(i, IF zone.reverse[i] = {} THEN 1 ELSE 0, <<>>, zone.reverse[i])
  ELSE IF ~Exists(i) THEN Learned(i, 1, <<>>, {})
  ELSE Learned(i, 0, Links(i), Held(i, type))

\* The next server, or the error of the last one.
NextServer(i, what) ==
  /\ heard' = [heard EXCEPT ![i] = @ \cup {Asked(i)}]
  /\ order' = [order EXCEPT ![i] =
       [first |-> order[i].first \ {Asked(i)}, last |-> order[i].last \ {Asked(i)}]]
  /\ IF Left(i) = {Asked(i)} THEN Over(i, what) ELSE UNCHANGED <<pc, answer>>
  /\ UNCHANGED <<todo, found>>

Mark(s) == silent' = silent \cup {s}

\* Answered over UDP, whatever the answer says.
Clear(s) == silent' = silent \ {s}

Exchange(i) ==
  LET s == Asked(i) IN
  /\ pc[i] = "asking" /\ ~interrupted
  /\ \/ /\ server[s] \in {"up", "no_tcp"} /\ (server[s] = "no_tcp" => i \notin Large)
        /\ Clear(s) /\ Told(i) /\ UNCHANGED <<order, timeouts, heard>>
     \/ /\ server[s] = "no_tcp" /\ i \in Large
        /\ Clear(s) /\ NextServer(i, "no_answer") /\ UNCHANGED timeouts
     \/ /\ server[s] = "failing" /\ Clear(s) /\ NextServer(i, "no_answer") /\ UNCHANGED timeouts
     \/ /\ server[s] = "closed" /\ UNCHANGED <<silent, timeouts>> /\ NextServer(i, "no_answer")
     \/ /\ server[s] = "silent" /\ Mark(s) /\ NextServer(i, "no_answer")
        /\ timeouts' = [timeouts EXCEPT ![s] = @ + 1]
  /\ UNCHANGED <<world, phase, interrupted>>

\* A query that is interrupted says nothing of its server.
Canceled(i) ==
  /\ pc[i] \in {"query", "asking"} /\ interrupted
  /\ Over(i, "canceled")
  /\ UNCHANGED <<world, silent, phase, todo, order, found, interrupted, timeouts, heard>>

(***************************************************************************)
(* The command: the names, and of aliases the addresses behind them.       *)
(***************************************************************************)
Behind == UNION {addresses[n] : n \in {m \in Names : answer[m] = "ok"}}

PhaseOver ==
  /\ phase # "over" /\ \A i \in Items : pc[i] \in {"none", "over"}
  /\ IF phase = "hosts" /\ verb = "aliases" /\ ~interrupted
     THEN /\ phase' = "reverse"
          /\ pc' = [i \in Items |-> IF pc[i] = "none" /\ i \in Behind THEN "queued" ELSE pc[i]]
     ELSE phase' = "over" /\ UNCHANGED pc
  /\ UNCHANGED <<world, silent, todo, order, found, answer, interrupted, timeouts, heard>>

\* An address without a reverse entry is no failure.
Failed == {n \in Names : answer[n] # "ok"}
Unread == {a \in Behind : verb = "aliases" /\ answer[a] \notin {"ok", "no_such_host"}}

exit == IF interrupted THEN 130 ELSE IF Failed \cup Unread # {} THEN 1 ELSE 0

(***************************************************************************)
(* Outside.                                                                *)
(***************************************************************************)
Changes(s) ==
  /\ turns < Turns /\ turns' = turns + 1
  /\ \E c \in Conditions \ {server[s]} :
       /\ server' = [server EXCEPT ![s] = c]
       /\ was' = [was EXCEPT ![s] = @ \cup {c}]
  /\ UNCHANGED <<verb, zone, silent, phase, pc, todo, order, found, answer, interrupted, timeouts, heard>>

Interrupt ==
  /\ phase # "over" /\ ~interrupted /\ interrupted' = TRUE
  /\ UNCHANGED <<world, silent, phase, pc, todo, order, found, answer, timeouts, heard>>

Init ==
  /\ verb \in {"lookup", "aliases"} /\ zone \in Zones
  /\ server \in [1..Servers -> Conditions] /\ was = [s \in 1..Servers |-> {server[s]}]
  /\ silent = {} /\ phase = "hosts"
  /\ pc = [i \in Items |-> IF i \in Names THEN "queued" ELSE "none"]
  /\ todo = [i \in Items |-> IF i \in Names THEN Types ELSE ReverseTypes]
  /\ order = [i \in Items |-> orderOf({})] /\ chain = [i \in Items |-> <<>>]
  /\ missing = [i \in Items |-> 0] /\ addresses = [i \in Items |-> {}]
  /\ answer = [i \in Items |-> None]
  /\ interrupted = FALSE /\ turns = 0
  /\ timeouts = [s \in 1..Servers |-> 0] /\ heard = [i \in Items |-> {}]

Next ==
  \/ \E i \in Items : Start(i) \/ NotStarted(i) \/ Query(i) \/ Exchange(i) \/ Canceled(i)
  \/ \E s \in 1..Servers : Changes(s)
  \/ PhaseOver \/ Interrupt

Spec == Init /\ [][Next]_vars

(***************************************************************************)
(* Properties.                                                             *)
(***************************************************************************)
TypeOK ==
  /\ silent \subseteq 1..Servers /\ Cardinality(Asking) <= Limit
  /\ pc \in [Items -> {"none", "queued", "query", "asking", "over"}]
  /\ \A i \in Items : answer[i] = None <=> pc[i] # "over"
  /\ \A i \in Items : pc[i] = "asking" => Left(i) # {}

\* What is reported is what the zone holds, whichever server said which part
\* of it and however it was reached: the addresses at the end of the aliases,
\* "no such host" only of a name that is not there; no answer only when every
\* server was asked and gave none; and a command ends well only when each of
\* its names, and the reverse entry of each address behind one, was answered.
AnswersAreTrue ==
  /\ \A n \in Names :
       /\ answer[n] = "ok" => /\ addresses[n] = zone.a[EndOf(n)] \cup zone.aaaa[EndOf(n)]
                              /\ addresses[n] # {} /\ chain[n] = Links(n)
       /\ answer[n] = "no_such_host" => ~Exists(n)
  /\ \A a \in Addresses : answer[a] \in {"ok", "no_such_host"} => addresses[a] = zone.reverse[a]
  /\ \A i \in Items :
       /\ answer[i] = "no_answer" => heard[i] = 1..Servers
       /\ answer[i] = "canceled" => interrupted
  /\ (phase = "over" /\ exit = 0) =>
       \A n \in Names :
         /\ answer[n] = "ok"
         /\ verb # "aliases" \/ \A a \in addresses[n] : answer[a] \in {"ok", "no_such_host"}

\* A server that is down costs a command one timeout for each lookup that is
\* under way when it is asked first, and not one for each name and type: as
\* long as another answers, it is asked no more; and only a server that has
\* been silent is put last.
SilenceCostsOnce ==
  /\ \A s \in silent : "silent" \in was[s]
  /\ \A s \in 1..Servers :
       was[s] = {"silent"} /\ (\E t \in 1..Servers : was[t] = {"up"}) => timeouts[s] <= Limit

(***************************************************************************)
(* The inductive invariant.                                                *)
(***************************************************************************)
Answers == {None, "ok", "no_such_host", "no_address", "no_answer", "canceled"}
Values ==
  /\ verb \in {"lookup", "aliases"} /\ phase \in {"hosts", "reverse", "over"} /\ interrupted \in BOOLEAN
  /\ server \in [1..Servers -> Conditions] /\ timeouts \in [1..Servers -> Nat]
  /\ DOMAIN was = 1..Servers /\ \A s \in 1..Servers : server[s] \in was[s]
  /\ todo \in [Items -> {Types, Tail(Types), ReverseTypes, <<>>}]
  /\ order \in [Items -> [first : SUBSET (1..Servers), last : SUBSET (1..Servers)]]
  /\ missing \in [Items -> 0..2] /\ DOMAIN chain = Items /\ DOMAIN addresses = Items
  /\ answer \in [Items -> Answers] /\ heard \in [Items -> SUBSET (1..Servers)]

\* What was found is what the zone holds of the types that were asked for.
FoundIs(i, no, links, all) == missing[i] = no /\ chain[i] = links /\ addresses[i] = all
NameKnows(n) ==
  /\ todo[n] = Types => FoundIs(n, 0, <<>>, {})
  /\ todo[n] = Tail(Types) =>
       IF Exists(n) THEN FoundIs(n, 0, Links(n), Held(n, "A")) ELSE FoundIs(n, 1, <<>>, {})
  /\ todo[n] = <<>> =>
       IF Exists(n) THEN FoundIs(n, 0, Links(n), Held(n, "A") \cup Held(n, "AAAA"))
       ELSE FoundIs(n, 2, <<>>, {})
AddressKnows(a) ==
  /\ todo[a] = ReverseTypes => FoundIs(a, 0, <<>>, {})
  /\ todo[a] = <<>> => FoundIs(a, IF zone.reverse[a] = {} THEN 1 ELSE 0, <<>>, zone.reverse[a])
KnownInv ==
  /\ \A n \in Names : NameKnows(n) /\ todo[n] # ReverseTypes /\ pc[n] # "none"
  /\ \A a \in Addresses : AddressKnows(a) /\ todo[a] \in {ReverseTypes, <<>>}
  /\ \A i \in Items : pc[i] # "over" => todo[i] # <<>>

\* An answer is made of what was found, or of what every server said.
AnswerInv ==
  /\ \A n \in Names : /\ answer[n] = "ok" => todo[n] = <<>> /\ missing[n] # 2 /\ addresses[n] # {}
                      /\ answer[n] = "no_such_host" => todo[n] = <<>> /\ missing[n] = 2
  /\ \A a \in Addresses : answer[a] \in {"ok", "no_such_host"} => todo[a] = <<>>
  /\ \A i \in Items : /\ pc[i] = "asking" => heard[i] \cup Left(i) = 1..Servers
                      /\ answer[i] = "no_answer" => heard[i] = 1..Servers
                      /\ answer[i] = "canceled" => interrupted

\* What is under way to a server before another that answers.
Before(s) == {i \in Items : pc[i] = "asking" /\ s \in order[i].first}

\* A server that is silent all along is asked by those that had begun when it
\* was marked, and by nobody else as long as another is up.
CostInv ==
  /\ \A s \in silent : "silent" \in was[s]
  /\ \A s, t \in 1..Servers : was[s] = {"silent"} /\ was[t] = {"up"} =>
       /\ s \notin silent => timeouts[s] = 0
       /\ timeouts[s] + Cardinality(Before(s)) <= Limit
       /\ \A i \in Items : pc[i] = "asking" => t \in order[i].first

Inv == TypeOK /\ Values /\ KnownInv /\ AnswerInv /\ CostInv
=============================================================================
