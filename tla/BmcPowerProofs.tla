--------------------------- MODULE BmcPowerProofs ---------------------------
(***************************************************************************)
(* Proofs about BmcPower: types, that no action is carried out twice, that *)
(* nothing is sent after what forbids it, and that the rows, the display   *)
(* and the exit code say what was done.                                    *)
(*                                                                         *)
(* What a node may still be made to do is its Load: what its processor     *)
(* carried out, and what the gateway and the wire hold for it.  The proof  *)
(* is that a node is queued only while its load leaves room for a request  *)
(* (LoadInv).  While requests are under way, every step moves each node in *)
(* one of five ways (Moved), and the parts of the invariant follow from    *)
(* those.                                                                  *)
(***************************************************************************)
EXTENDS BmcPower, Integers, TLAPS

Load(n) ==
  received[n] + (IF n \in gateway THEN 1 ELSE 0) + (IF n \in wire THEN 1 ELSE 0)

\* What a node may be made to do, and to have been made to do while it waits to
\* be asked: a read is sent once in each round, anything else once.
Allowed == IF action = "status" THEN step ELSE 1
Before == IF action = "status" THEN step - 1 ELSE 0

Untouched == NotReached \cup {"not sent", "not tried"}
Calls == Answers \cup UnderWay \cup {"idle", "queued"}
Rows == [via : {"", "redfish", "ipmi"}, how : Outcomes \cup {""}]

Types ==
  /\ action \in {"status", "on", "off"}
  /\ pc \in {"pause", "prepare", "send", "done"}
  /\ cancelled \in BOOLEAN
  /\ batch \in 0..Len(Chunks)
  /\ step \in 0..2
  /\ pending \subseteq Nodes
  /\ next \subseteq Nodes
  /\ \A n \in pending : step \in 1 .. Len(Order[n])
  /\ call \in [Nodes -> Calls]
  /\ row \in [Nodes -> Rows]
  /\ span \in [Nodes -> Answers \cup {""}]
  /\ gateway \subseteq Nodes
  /\ wire \subseteq Nodes
  /\ received \in [Nodes -> Nat]

\* Where a batch is, and which nodes it has still to ask.
PlaceInv ==
  /\ batch = 0 <=> step = 0
  /\ pc \in {"prepare", "send"} => batch # 0
  /\ pc \in {"pause", "done"} => pending = {} /\ next = {}
  /\ pc = "pause" => batch < Len(Chunks)
  /\ pc = "done" /\ action # "on" /\ ~cancelled => batch = 1
  /\ batch # 0 => pending \cup next \subseteq Chunks[batch]
  /\ pending \cap next = {}
  /\ \A n \in next : step < Len(Order[n])
  /\ pc = "prepare" => \A n \in pending : call[n] = "queued"
  /\ \A n \in Nodes : call[n] \in UnderWay \cup {"queued"} => n \in pending

\* The nodes of an account wait together.
AccountInv ==
  pc = "send" /\ ~cancelled =>
    \A n \in pending, m \in pending :
      Via(n) = "ipmi" /\ Via(m) = "ipmi" /\ AccountOf[m] = AccountOf[n] /\ call[n] = "queued"
        => call[m] = "queued"

\* No node is made to do more than it may.
LoadInv ==
  \A n \in Nodes :
    /\ Load(n) <= Allowed
    /\ call[n] = "queued" => Load(n) <= Before
    /\ n \in Later => Load(n) = 0
    /\ action # "status" /\ (n \in next \/ call[n] \in Untouched) => Load(n) = 0

\* What was answered is so.
KnownInv ==
  \A n \in Nodes :
    /\ call[n] \in {"carried", "ok"} => received[n] >= 1
    /\ row[n].how = "ok" => received[n] >= 1
    /\ action # "status" /\ n \notin pending /\ row[n].how \in Untouched => Load(n) = 0
    /\ call[n] \in {"interrupted", "not sent"} => cancelled
    /\ row[n].how \in {"interrupted", "not sent"} => cancelled

Settled(n) == n \notin pending \cup next \cup Later

\* What the rows and the display say of a node: nothing before its batch, and
\* the same once it is settled.
RowInv ==
  \A n \in Nodes :
    /\ pc # "done" /\ n \in Later => row[n].how = "" /\ span[n] = ""
    /\ n \in next \/ call[n] = "queued" => row[n].how # "pin" /\ span[n] = ""
    /\ n \in pending /\ span[n] # "" => call[n] = span[n] /\ ~Again(n, call[n])
    /\ Settled(n) => span[n] = row[n].how
    /\ Settled(n) /\ action = "status" /\ ~cancelled /\ row[n].how \notin {"ok", "pin", "usage"} =>
         row[n].via = Order[n][Len(Order[n])]

\* The batches before the one under way went well.
BatchInv ==
  action = "on" /\ pc # "done" =>
    \A i \in DOMAIN Batches : i < batch \/ (i = batch /\ pc = "pause") =>
      \A m \in Batches[i] : row[m].how = "ok"

Inv ==
  /\ Types /\ PlaceInv /\ AccountInv /\ LoadInv /\ KnownInv /\ RowInv /\ BatchInv

(***************************************************************************)
(* The constants, the batches and the fallback.                            *)
(***************************************************************************)
\* The order of a node has one transport or both.
LEMMA OrderIs ==
  ASSUME NEW n \in Nodes
  PROVE  /\ Len(Order[n]) \in 1..2 /\ DOMAIN Order[n] = 1 .. Len(Order[n])
         /\ \A i \in 1 .. Len(Order[n]) : Order[n][i] \in {"redfish", "ipmi"}
<1>1. Order[n] \in {<<"redfish">>, <<"ipmi">>, <<"redfish", "ipmi">>, <<"ipmi", "redfish">>}
  BY PowerAssumption
<1> QED
  BY <1>1

\* The batches divide the nodes among them.
LEMMA ChunksAre ==
  ASSUME action \in {"status", "on", "off"}
  PROVE  /\ Len(Chunks) \in Nat
         /\ \A i \in 1 .. Len(Chunks) : Chunks[i] \subseteq Nodes
         /\ \A i, j \in 1 .. Len(Chunks) : i # j => Chunks[i] \cap Chunks[j] = {}
         /\ action # "on" => Len(Chunks) = 1 /\ Chunks[1] = Nodes
         /\ action = "on" => Chunks = Batches /\ DOMAIN Batches = 1 .. Len(Chunks)
<1>1. CASE action = "on"
  <2>1. Chunks = Batches /\ Batches \in Seq(SUBSET Nodes)
    BY <1>1, PowerAssumption DEF Chunks
  <2> QED
    BY <1>1, <2>1, PowerAssumption
<1>2. CASE action # "on"
  BY <1>2 DEF Chunks
<1> QED
  BY <1>1, <1>2

\* What comes later comes in another batch.
LEMMA LaterIs ==
  ASSUME Types
  PROVE  /\ \A n \in Later : \E i \in batch + 1 .. Len(Chunks) : n \in Chunks[i]
         /\ batch < Len(Chunks) => Chunks[batch + 1] \subseteq Later
         /\ batch # 0 => Chunks[batch] \cap Later = {}
         /\ batch = Len(Chunks) => Later = {}
<1>1. batch \in 0 .. Len(Chunks) /\ Len(Chunks) \in Nat
  BY ChunksAre DEF Types
<1>2. \A n : n \in Later <=> \E i \in batch + 1 .. Len(Chunks) : n \in Chunks[i]
  BY DEF Later
<1>3. batch < Len(Chunks) => batch + 1 \in batch + 1 .. Len(Chunks)
  BY <1>1
<1>4. batch # 0 => Chunks[batch] \cap Later = {}
  <2>1. SUFFICES ASSUME batch # 0, NEW n \in Chunks[batch], n \in Later PROVE FALSE
    OBVIOUS
  <2>2. PICK i \in batch + 1 .. Len(Chunks) : n \in Chunks[i]
    BY <1>2, <2>1
  <2>3. batch \in 1 .. Len(Chunks) /\ i \in 1 .. Len(Chunks) /\ i # batch
    BY <1>1, <2>1
  <2>4. Chunks[i] \cap Chunks[batch] = {}
    BY <2>3, ChunksAre DEF Types
  <2> QED
    BY <2>1, <2>2, <2>4
<1>5. batch < Len(Chunks) => Chunks[batch + 1] \subseteq Later
  BY <1>2, <1>3
<1>6. batch = Len(Chunks) => Later = {}
  BY <1>1, <1>2
<1> QED
  BY <1>2, <1>4, <1>5, <1>6

\* What a fallback needs.
LEMMA AgainIs ==
  ASSUME NEW n \in Nodes, NEW how \in Answers, Again(n, how)
  PROVE  /\ how # "ok" /\ how # "pin" /\ step < Len(Order[n]) /\ ~cancelled
         /\ action # "status" => how \in NotReached
  BY DEF Again, MayFallBack, NeverSent

\* What is behind a failure.
LEMMA FromIs ==
  /\ \A how : From(how) \in {0, 1, 2, 3, 130}
  /\ \A how : From(how) = 130 => how \in {"interrupted", "not sent"}
  /\ \A how : From(how) = 2 => how = "usage"
<1>a. 0 # 130 /\ 1 # 130 /\ 2 # 130 /\ 3 # 130 /\ 0 # 2 /\ 1 # 2 /\ 3 # 2 /\ 130 # 2
  OBVIOUS
<1> SUFFICES ASSUME NEW how
             PROVE  /\ From(how) \in {0, 1, 2, 3, 130}
                    /\ From(how) = 130 => how \in {"interrupted", "not sent"}
                    /\ From(how) = 2 => how = "usage"
  OBVIOUS
<1>1. CASE how = "ok"
  <2>1. From(how) = 0
    BY <1>1 DEF From, NotReached
  <2> QED
    BY <1>a, <2>1, Zenon
<1>2. CASE how = "usage"
  <2>1. From(how) = 2
    BY <1>2 DEF From, NotReached
  <2> QED
    BY <1>a, <1>2, <2>1, Zenon
<1>3. CASE how \in NotReached \cup {"transport"}
  <2>1. From(how) = 3
    BY <1>3 DEF From, NotReached
  <2> QED
    BY <1>a, <2>1, Zenon
<1>4. CASE how \in {"interrupted", "not sent"}
  <2>1. From(how) = 130
    BY <1>4 DEF From, NotReached
  <2> QED
    BY <1>a, <1>4, <2>1, Zenon
<1>5. CASE how \notin NotReached \cup {"ok", "usage", "transport", "interrupted", "not sent"}
  <2>1. From(how) = 1
    BY <1>5 DEF From, NotReached
  <2> QED
    BY <1>a, <2>1, Zenon
<1> QED
  BY <1>1, <1>2, <1>3, <1>4, <1>5

\* A read falls back as long as there is a transport to fall back to.
LEMMA ReadFallsBack ==
  ASSUME NEW n \in Nodes, NEW how \in Answers, action = "status", ~cancelled,
         how \notin {"ok", "pin", "usage", "interrupted", "not sent"}, ~Again(n, how)
  PROVE  ~(step < Len(Order[n]))
<1>1. From(how) \notin {130, 2}
  <2>1. From(how) # 130 /\ From(how) # 2
    BY FromIs
  <2> QED
    BY <2>1
<1> QED
  BY <1>1 DEF Again, MayFallBack

\* The load is a number; at least what was carried out, and more when a request
\* is on its way.
LEMMA LoadIs ==
  ASSUME Types, NEW n \in Nodes
  PROVE  /\ Load(n) \in Nat /\ Load(n) >= received[n]
         /\ n \in gateway \cup wire => Load(n) > received[n]
<1>1. received[n] \in Nat
  BY DEF Types
<1> QED
  BY <1>1, SMT DEF Load

\* The load of a node when less is on its way, when more is in one place, when a
\* request goes from the gateway to the processor, and when it is carried out.
LEMMA LoadChanges ==
  ASSUME NEW n \in Nodes, received[n] \in Nat
  PROVE  /\ /\ received'[n] = received[n]
            /\ n \in gateway' => n \in gateway
            /\ n \in wire' => n \in wire
            => Load(n)' <= Load(n) /\ (n \in wire /\ n \notin wire' => Load(n)' < Load(n))
         /\ /\ received'[n] = received[n]
            /\ (n \in gateway' <=> n \in gateway) \/ (n \in wire' <=> n \in wire)
            => Load(n)' <= Load(n) + 1
         /\ /\ received'[n] = received[n]
            /\ n \in gateway /\ n \notin gateway'
            => Load(n)' <= Load(n)
         /\ /\ received'[n] = received[n] + 1
            /\ n \in gateway' <=> n \in gateway
            /\ n \in wire /\ n \notin wire'
            => Load(n)' <= Load(n)
<1> DEFINE g == IF n \in gateway THEN 1 ELSE 0
           w == IF n \in wire THEN 1 ELSE 0
           gg == IF n \in gateway' THEN 1 ELSE 0
           ww == IF n \in wire' THEN 1 ELSE 0
<1>1. /\ g \in {0, 1} /\ w \in {0, 1} /\ gg \in {0, 1} /\ ww \in {0, 1}
      /\ n \in gateway <=> g = 1
      /\ n \in wire <=> w = 1
      /\ n \in gateway' <=> gg = 1
      /\ n \in wire' <=> ww = 1
  OBVIOUS
<1>2. Load(n) = received[n] + g + w /\ Load(n)' = received'[n] + gg + ww
  BY DEF Load
<1> HIDE DEF g, w, gg, ww
<1> QED
  BY <1>1, <1>2

(***************************************************************************)
(* Requests under way.                                                     *)
(***************************************************************************)
Quiet ==
  \E n \in Nodes :
    Send(n) \/ SendAccount(n) \/ NotSent(n) \/ Replies(n) \/ GatewayAsks(n) \/ Carry(n)

\* Nothing is asked, answered or carried out.
Rests(n) ==
  call'[n] = call[n] /\ span'[n] = span[n] /\ received'[n] = received[n] /\ Load(n)' <= Load(n)

\* A request is sent.
Sends(n) ==
  /\ pc = "send" /\ n \in pending /\ call[n] = "queued" /\ call'[n] = "asked"
  /\ span'[n] = span[n] /\ received'[n] = received[n] /\ Load(n)' <= Load(n) + 1

\* One is not sent, after the interrupt.
Drops(n) ==
  /\ pc = "send" /\ cancelled /\ call[n] = "queued" /\ call'[n] = "not sent"
  /\ span'[n] = span[n] /\ received'[n] = received[n] /\ Load(n)' <= Load(n)

\* One is answered.
Hears(n) ==
  /\ call[n] \in UnderWay /\ call'[n] \in Answers \ {"not sent"}
  /\ call'[n] = "ok" => call[n] = "carried"
  /\ call'[n] = "interrupted" => cancelled
  /\ received'[n] = received[n] /\ Load(n)' <= Load(n)
  /\ call'[n] \in NotReached => Load(n)' < Load(n)
  /\ span'[n] = span[n] \/ (span[n] = "" /\ ~Again(n, call'[n]) /\ span'[n] = call'[n])

\* One is carried out.
Carries(n) ==
  /\ received'[n] = received[n] + 1 /\ Load(n)' <= Load(n) /\ span'[n] = span[n]
  /\ call'[n] = call[n] \/ (call[n] = "asked" /\ call'[n] = "carried")

Moved(n) == Rests(n) \/ Sends(n) \/ Drops(n) \/ Hears(n) \/ Carries(n)

\* What the code makes of an error.
LEMMA ErrorIs ==
  ASSUME NEW how \in Answers
  PROVE  /\ BmcError(how) \in {how, "interrupted"}
         /\ BmcError(how) # how => cancelled
  BY DEF BmcError

\* While requests are under way, each node moves in one of five ways.
LEMMA QuietMoves ==
  ASSUME Inv, Quiet
  PROVE  /\ \A n \in Nodes : Moved(n)
         /\ call' \in [Nodes -> Calls] /\ span' \in [Nodes -> Answers \cup {""}]
         /\ gateway' \subseteq Nodes /\ wire' \subseteq Nodes /\ received' \in [Nodes -> Nat]
         /\ UNCHANGED command
<1> DEFINE Typed == /\ call' \in [Nodes -> Calls] /\ span' \in [Nodes -> Answers \cup {""}]
                    /\ gateway' \subseteq Nodes /\ wire' \subseteq Nodes
                    /\ received' \in [Nodes -> Nat]
           Goal == (\A m \in Nodes : Moved(m)) /\ Typed /\ UNCHANGED command
<1>t. /\ call \in [Nodes -> Calls] /\ span \in [Nodes -> Answers \cup {""}]
      /\ gateway \subseteq Nodes /\ wire \subseteq Nodes /\ received \in [Nodes -> Nat]
      /\ pending \subseteq Nodes
  BY DEF Inv, Types
<1>q. \A n \in Nodes : call[n] \in UnderWay \cup {"queued"} => n \in pending
  BY DEF Inv, PlaceInv
<1>w. /\ {"asked", "carried", "not sent"} \subseteq Calls /\ Answers \subseteq Calls
      /\ {"ok", "interrupted", "failed", "transport"} \subseteq Answers
      /\ NotReached \subseteq Answers
  BY DEF Calls, Answers, UnderWay
<1>1. ASSUME NEW n \in Nodes, Send(n) PROVE Goal
  <2>1. /\ pc = "send" /\ call[n] = "queued" /\ ~cancelled
        /\ call' = [call EXCEPT ![n] = "asked"] /\ wire' = wire \cup {n}
        /\ UNCHANGED <<span, gateway, received>> /\ UNCHANGED command
    BY <1>1 DEF Send
  <2>2. Sends(n)
    BY <1>t, <1>q, <2>1, LoadChanges DEF Sends
  <2>3. \A m \in Nodes : m # n => Rests(m)
    BY <1>t, <2>1, LoadChanges DEF Rests
  <2> QED
    BY <1>t, <1>w, <2>1, <2>2, <2>3 DEF Moved
<1>2. ASSUME NEW n \in Nodes, SendAccount(n) PROVE Goal
  <2>1. /\ pc = "send" /\ call[n] = "queued" /\ ~cancelled /\ Via(n) = "ipmi"
        /\ call' = Over(Account(n), "asked") /\ gateway' = gateway \cup Account(n)
        /\ UNCHANGED <<span, wire, received>> /\ UNCHANGED command
    BY <1>2 DEF SendAccount
  <2>2. Account(n) \subseteq pending /\ \A m \in Account(n) : call[m] = "queued"
    BY <1>q, <2>1 DEF Account, Inv, AccountInv
  <2>3. call' = [m \in Nodes |-> IF m \in Account(n) THEN "asked" ELSE call[m]]
    BY <2>1 DEF Over
  <2>4. \A m \in Account(n) : Sends(m)
    BY <1>t, <2>1, <2>2, <2>3, LoadChanges DEF Sends
  <2>5. \A m \in Nodes \ Account(n) : Rests(m)
    BY <1>t, <2>1, <2>3, LoadChanges DEF Rests
  <2> QED
    BY <1>t, <1>w, <2>1, <2>2, <2>3, <2>4, <2>5 DEF Moved
<1>3. ASSUME NEW n \in Nodes, NotSent(n) PROVE Goal
  <2>1. /\ pc = "send" /\ cancelled /\ call[n] = "queued" /\ call' = [call EXCEPT ![n] = "not sent"]
        /\ UNCHANGED <<span, gateway, wire, received>> /\ UNCHANGED command
    BY <1>3 DEF NotSent
  <2>2. Drops(n)
    BY <1>t, <2>1, LoadChanges DEF Drops
  <2>3. \A m \in Nodes : m # n => Rests(m)
    BY <1>t, <2>1, LoadChanges DEF Rests
  <2> QED
    BY <1>t, <1>w, <2>1, <2>2, <2>3 DEF Moved
\* An answer of one node, which ends its target when it is the last.
<1>a. ASSUME NEW n \in Nodes, NEW how \in Answers \ {"not sent"}, Answered({n}, how),
             call[n] \in UnderWay, how = "ok" => call[n] = "carried",
             how = "interrupted" => cancelled,
             UNCHANGED <<gateway, received>>, UNCHANGED command,
             wire' \in {wire, wire \ {n}},
             how \in NotReached => n \in wire /\ wire' = wire \ {n}
      PROVE  Goal
  <2>1. /\ call' = [m \in Nodes |-> IF m = n THEN how ELSE call[m]]
        /\ span' = [m \in Nodes |-> IF m = n /\ span[m] = "" /\ ~Again(m, how)
                                    THEN how ELSE span[m]]
    BY <1>a DEF Answered
  <2>2. Load(n)' <= Load(n) /\ (how \in NotReached => Load(n)' < Load(n))
    BY <1>t, <1>a, LoadChanges
  <2>3. Hears(n)
    BY <1>a, <2>1, <2>2 DEF Hears
  <2>4. \A m \in Nodes : m # n => Rests(m)
    BY <1>t, <1>a, <2>1, LoadChanges DEF Rests
  <2>5. span' \in [Nodes -> Answers \cup {""}] /\ call' \in [Nodes -> Calls]
    BY <1>t, <1>w, <2>1
  <2> QED
    BY <1>t, <1>a, <2>3, <2>4, <2>5 DEF Moved
<1>4. ASSUME NEW n \in Nodes, Answer(n) PROVE Goal
  <2>1. /\ call[n] = "carried" /\ Answered({n}, "ok")
        /\ UNCHANGED <<gateway, wire, received>> /\ UNCHANGED command
    BY <1>4 DEF Answer
  <2>2. "ok" \in Answers \ {"not sent"} /\ "ok" \notin NotReached /\ call[n] \in UnderWay
    BY <1>w, <2>1 DEF NotReached, UnderWay
  <2> QED
    BY <1>a, <2>1, <2>2
<1>5. ASSUME NEW n \in Nodes, NEW how \in Answers, NeverReached(n, how) PROVE Goal
  <2>1. /\ call[n] = "asked" /\ n \in wire /\ how \in NotReached
        /\ Answered({n}, BmcError(how)) /\ wire' = wire \ {n}
        /\ UNCHANGED <<gateway, received>> /\ UNCHANGED command
    BY <1>5 DEF NeverReached
  <2>2. /\ BmcError(how) \in NotReached \cup {"interrupted"} /\ call[n] \in UnderWay
        /\ BmcError(how) = "interrupted" => cancelled
        /\ BmcError(how) \in Answers \ {"not sent"} /\ BmcError(how) # "ok"
    BY <1>w, <2>1, ErrorIs DEF NotReached, UnderWay
  <2> QED
    BY <1>a, <2>1, <2>2
<1>6. ASSUME NEW n \in Nodes, NEW how \in Answers, Fails(n, how) PROVE Goal
  <2>1. /\ call[n] \in UnderWay /\ how \in {"failed", "transport"}
        /\ Answered({n}, BmcError(how)) /\ wire' \in {wire, wire \ {n}}
        /\ UNCHANGED <<gateway, received>> /\ UNCHANGED command
    BY <1>6 DEF Fails
  <2>2. /\ BmcError(how) \in {"failed", "transport", "interrupted"}
        /\ BmcError(how) = "interrupted" => cancelled
        /\ BmcError(how) \in Answers \ {"not sent"} /\ BmcError(how) # "ok"
        /\ BmcError(how) \notin NotReached
    BY <1>w, <2>1, ErrorIs DEF NotReached
  <2> QED
    BY <1>a, <2>1, <2>2
<1>7. ASSUME NEW n \in Nodes, NEW how \in Answers, SessionEnds(n, how) PROVE Goal
  <2> DEFINE left == {m \in Account(n) : call[m] \in UnderWay}
             error == BmcError(how)
  <2>1. /\ how \in {"failed", "transport"} /\ call' = Over(left, error)
        /\ \/ UNCHANGED <<gateway, wire>>
           \/ gateway' = gateway \ left /\ wire' = wire \ left
        /\ UNCHANGED <<span, received>> /\ UNCHANGED command
    BY <1>7 DEF SessionEnds
  <2>2. /\ error = "interrupted" => cancelled
        /\ error \in Answers \ {"not sent"} /\ error # "ok" /\ error \notin NotReached
    BY <1>w, <2>1, ErrorIs DEF NotReached
  <2> HIDE DEF error
  <2>3. /\ left \subseteq Nodes /\ \A m \in left : call[m] \in UnderWay
        /\ call' = [m \in Nodes |-> IF m \in left THEN error ELSE call[m]]
    BY <1>t, <2>1 DEF Account, Over
  <2> HIDE DEF left
  <2>4. \A m \in Nodes : Load(m)' <= Load(m)
    BY <1>t, <2>1, LoadChanges
  <2>5. \A m \in left : Hears(m)
    BY <2>1, <2>2, <2>3, <2>4 DEF Hears
  <2>6. \A m \in Nodes \ left : Rests(m)
    BY <1>t, <2>1, <2>3, <2>4 DEF Rests
  <2> QED
    BY <1>t, <1>w, <2>1, <2>2, <2>3, <2>5, <2>6 DEF Moved
<1>8. ASSUME NEW n \in Nodes, GatewayAsks(n) PROVE Goal
  <2>1. /\ n \in gateway /\ gateway' = gateway \ {n} /\ wire' = wire \cup {n}
        /\ UNCHANGED <<call, span, received>> /\ UNCHANGED command
    BY <1>8 DEF GatewayAsks
  <2>2. \A m \in Nodes : Rests(m)
    BY <1>t, <2>1, LoadChanges DEF Rests
  <2> QED
    BY <1>t, <2>1, <2>2 DEF Moved
<1>9. ASSUME NEW n \in Nodes, Carry(n) PROVE Goal
  <2>1. /\ n \in wire /\ wire' = wire \ {n} /\ received' = [received EXCEPT ![n] = received[n] + 1]
        /\ call' = [call EXCEPT ![n] = IF call[n] = "asked" THEN "carried" ELSE call[n]]
        /\ UNCHANGED <<span, gateway>> /\ UNCHANGED command
    BY <1>9 DEF Carry
  <2>2. call'[n] = call[n] \/ (call[n] = "asked" /\ call'[n] = "carried")
    BY <1>t, <2>1
  <2>3. Carries(n)
    BY <1>t, <2>1, <2>2, LoadChanges DEF Carries
  <2>4. \A m \in Nodes : m # n => Rests(m)
    BY <1>t, <2>1, LoadChanges DEF Rests
  <2>6. received[n] + 1 \in Nat
    <3>1. received[n] \in Nat
      BY <1>t
    <3> QED
      BY <3>1
  <2>7. (IF call[n] = "asked" THEN "carried" ELSE call[n]) \in Calls
    BY <1>t, <1>w
  <2>5. call' \in [Nodes -> Calls] /\ received' \in [Nodes -> Nat]
    BY <1>t, <2>1, <2>6, <2>7
  <2> QED
    BY <1>t, <2>1, <2>3, <2>4, <2>5 DEF Moved
<1> QED
  BY <1>1, <1>2, <1>3, <1>4, <1>5, <1>6, <1>7, <1>8, <1>9 DEF Quiet, Replies

\* A node whose account is asked is not asked alone.
LEMMA Together ==
  ASSUME Inv, Quiet, ~cancelled,
         NEW m \in pending, Via(m) = "ipmi", call[m] = "queued", call'[m] # "queued",
         NEW k \in pending, Via(k) = "ipmi", AccountOf[k] = AccountOf[m]
  PROVE  call'[k] # "queued"
<1>t. call \in [Nodes -> Calls] /\ pending \subseteq Nodes /\ call[m] \notin UnderWay
  BY DEF Inv, Types, UnderWay
<1>1. ASSUME NEW n \in Nodes, SendAccount(n) PROVE call'[k] # "queued"
  <2>1. call' = [x \in Nodes |-> IF x \in Account(n) THEN "asked" ELSE call[x]]
    BY <1>1 DEF SendAccount, Over
  <2>2. m \in Account(n)
    BY <1>t, <2>1
  <2>3. k \in Account(n)
    BY <2>2 DEF Account
  <2> QED
    BY <1>t, <2>1, <2>3
<1>2. ASSUME NEW n \in Nodes, Send(n) \/ NotSent(n) \/ GatewayAsks(n) \/ Carry(n) PROVE FALSE
  BY <1>t, <1>2 DEF Send, NotSent, GatewayAsks, Carry, UnderWay
<1>3. ASSUME NEW n \in Nodes, NEW how \in Answers,
             Answer(n) \/ NeverReached(n, how) \/ Fails(n, how)
      PROVE  FALSE
  <2>1. call[n] \in UnderWay /\ \E e : call' = [x \in Nodes |-> IF x \in {n} THEN e ELSE call[x]]
    BY <1>3 DEF Answer, NeverReached, Fails, Answered, UnderWay
  <2> QED
    BY <1>t, <2>1
<1>4. ASSUME NEW n \in Nodes, NEW how \in Answers, SessionEnds(n, how) PROVE FALSE
  BY <1>t, <1>4 DEF SessionEnds, Over
<1> QED
  BY <1>1, <1>2, <1>3, <1>4, <1>t DEF Quiet, Replies, Answers

\* Nothing of the fallback changes while requests are under way.
LEMMA AgainSame ==
  ASSUME UNCHANGED <<action, step, cancelled>>
  PROVE  \A n, how : Again(n, how)' <=> Again(n, how)
  BY DEF Again, MayFallBack, Via

\* A pending node is of this batch and no other.
LEMMA PendingIs ==
  ASSUME Inv, NEW n \in pending
  PROVE  n \notin Later /\ n \notin next /\ n \in Nodes /\ batch # 0
<1>1. batch # 0
  BY DEF Inv, PlaceInv, Types
<1> QED
  BY <1>1, LaterIs DEF Inv, PlaceInv, Types

\* What a node may be made to do while it waits is one less than what it may.
LEMMA RoomIs == step \in Int => Before \in Int /\ Allowed = Before + 1
<1>1. (Before = step - 1 /\ Allowed = step) \/ (Before = 0 /\ Allowed = 1)
  BY DEF Before, Allowed
<1> QED
  BY <1>1

\* While requests are under way, the invariant stays.
LEMMA QuietNext == ASSUME Inv, Quiet PROVE Inv'
<1>t. /\ Types /\ UNCHANGED command /\ \A n \in Nodes : Moved(n)
      /\ call \in [Nodes -> Calls] /\ received \in [Nodes -> Nat]
  BY QuietMoves DEF Inv, Types
<1>c. UNCHANGED <<action, pc, cancelled, batch, step, pending, next, row,
                  Later, Allowed, Before, Chunks>>
  BY <1>t DEF command, Later, Allowed, Before, Chunks
<1>1. Types'
  BY <1>c, QuietMoves DEF Inv, Types
<1>2. PlaceInv'
  <2>1. \A n \in Nodes : call'[n] \in UnderWay \cup {"queued"} => n \in pending
    BY <1>t DEF Inv, PlaceInv, Moved, Rests, Sends, Drops, Hears, Carries,
                UnderWay, Answers, NotReached
  <2>2. pc = "prepare" => \A n \in pending : call'[n] = "queued"
    BY <1>t DEF Inv, PlaceInv, Moved, Rests, Sends, Drops, Hears, Carries, UnderWay, Types
  <2> QED
    BY <1>c, <2>1, <2>2 DEF Inv, PlaceInv
<1>3. AccountInv'
  <2> SUFFICES ASSUME pc = "send", ~cancelled, NEW n \in pending, NEW m \in pending,
                      Via(n) = "ipmi", Via(m) = "ipmi", AccountOf[m] = AccountOf[n],
                      call'[n] = "queued"
               PROVE  call'[m] = "queued"
    BY <1>c DEF AccountInv, Via
  <2>1. n \in Nodes /\ call[n] = "queued"
    BY <1>t DEF Moved, Rests, Sends, Drops, Hears, Carries, Answers, NotReached, Types
  <2>2. call[m] = "queued"
    BY <2>1 DEF Inv, AccountInv
  <2> QED
    BY <2>2, Together
<1>4. LoadInv'
  <2> SUFFICES ASSUME NEW n \in Nodes
               PROVE  /\ Load(n)' <= Allowed
                      /\ call'[n] = "queued" => Load(n)' <= Before
                      /\ n \in Later => Load(n)' = 0
                      /\ action # "status" /\ (n \in next \/ call'[n] \in Untouched) => Load(n)' = 0
    BY <1>c DEF LoadInv
  <2>1. /\ Load(n) <= Allowed
        /\ call[n] = "queued" => Load(n) <= Before
        /\ n \in Later => Load(n) = 0
        /\ action # "status" /\ (n \in next \/ call[n] \in Untouched) => Load(n) = 0
    BY DEF Inv, LoadInv
  <2>a. Load(n) <= Allowed
    BY <2>1
  <2>2. Load(n) \in Nat /\ Load(n)' \in Nat /\ Before \in Int /\ Allowed = Before + 1
    <3>1. received'[n] \in Nat /\ step \in Int
      <4>1. received'[n] \in Nat /\ step \in 0..2
        BY <1>t, <1>1 DEF Types
      <4> QED
        BY <4>1
    <3>2. Load(n) \in Nat
      BY <1>t, LoadIs
    <3>3. Load(n)' \in Nat
      BY <3>1 DEF Load
    <3>4. Before \in Int /\ Allowed = Before + 1
      BY <3>1, RoomIs
    <3> QED
      BY <3>2, <3>3, <3>4
  <2>d. Load(n)' <= Load(n) =>
          /\ Load(n)' <= Allowed
          /\ Load(n) <= Before => Load(n)' <= Before
          /\ Load(n) = 0 => Load(n)' = 0
    BY <2>2, <2>a
  <2>b. /\ Load(n) <= Before /\ Load(n)' <= Load(n) + 1 => Load(n)' <= Allowed
        /\ Before = 0 /\ Load(n) <= Before => Load(n) = 0
        /\ Allowed = 1 /\ Load(n)' < Load(n) => Load(n)' = 0
    BY <2>2, <2>a
  <2>c. action # "status" => Before = 0 /\ Allowed = 1
    BY DEF Before, Allowed
  <2>3. CASE Rests(n)
    BY <2>1, <2>d, <2>3 DEF Rests
  <2>4. CASE Sends(n)
    <3>1. n \notin Later /\ n \notin next /\ call'[n] \notin Untouched \cup {"queued"}
      BY <2>4, PendingIs DEF Sends, Untouched, NotReached
    <3>2. Load(n)' <= Allowed
      BY <2>1, <2>b, <2>4 DEF Sends
    <3> QED
      BY <3>1, <3>2
  <2>5. CASE Drops(n)
    <3>1. Load(n)' <= Load(n) /\ call'[n] # "queued" /\ call[n] = "queued"
      BY <2>5 DEF Drops
    <3>2. action # "status" => Load(n) = 0
      BY <2>1, <2>b, <2>c, <3>1
    <3> QED
      BY <2>1, <2>d, <3>1, <3>2
  <2>6. CASE Hears(n)
    <3>1. call'[n] # "queued" /\ (call'[n] \in Untouched => call'[n] \in NotReached)
      BY <2>6 DEF Hears, Untouched, Answers, NotReached
    <3>2. Load(n)' <= Load(n)
      BY <2>6 DEF Hears
    <3>3. action # "status" /\ call'[n] \in Untouched => Load(n)' = 0
      BY <2>b, <2>c, <2>6, <3>1 DEF Hears
    <3> QED
      BY <2>1, <2>d, <3>1, <3>2, <3>3
  <2>7. CASE Carries(n)
    <3>1. call'[n] \in Untouched \cup {"queued"} => call'[n] = call[n]
      BY <2>7 DEF Carries, Untouched, NotReached
    <3>2. Load(n)' <= Load(n)
      BY <2>7 DEF Carries
    <3> QED
      BY <2>1, <2>d, <3>1, <3>2
  <2> QED
    BY <1>t, <2>3, <2>4, <2>5, <2>6, <2>7 DEF Moved
<1>5. KnownInv'
  <2> SUFFICES ASSUME NEW n \in Nodes
               PROVE  /\ call'[n] \in {"carried", "ok"} => received'[n] >= 1
                      /\ row[n].how = "ok" => received'[n] >= 1
                      /\ action # "status" /\ n \notin pending /\ row[n].how \in Untouched =>
                           Load(n)' = 0
                      /\ call'[n] \in {"interrupted", "not sent"} => cancelled
                      /\ row[n].how \in {"interrupted", "not sent"} => cancelled
    BY <1>c DEF KnownInv
  <2>1. /\ call[n] \in {"carried", "ok"} => received[n] >= 1
        /\ row[n].how = "ok" => received[n] >= 1
        /\ action # "status" /\ n \notin pending /\ row[n].how \in Untouched => Load(n) = 0
        /\ call[n] \in {"interrupted", "not sent"} => cancelled
        /\ row[n].how \in {"interrupted", "not sent"} => cancelled
    BY DEF Inv, KnownInv
  <2>2. received[n] \in Nat /\ Load(n) \in Nat /\ Load(n)' \in Nat
    <3>1. received'[n] \in Nat
      BY <1>1 DEF Types
    <3>2. Load(n)' \in Nat
      BY <3>1 DEF Load
    <3> QED
      BY <1>t, <3>2, LoadIs
  <2>3. Load(n)' <= Load(n) \/ n \in pending
    BY <1>t DEF Moved, Rests, Sends, Drops, Hears, Carries
  <2>4. received'[n] = received[n] \/ (received'[n] = received[n] + 1 /\ Carries(n))
    BY <1>t DEF Moved, Rests, Sends, Drops, Hears, Carries
  <2>5. received'[n] >= 1 \/ (received'[n] = received[n] /\ ~Carries(n))
    BY <2>2, <2>4 DEF Carries
  <2>6. call'[n] \in {"carried", "ok"} => received'[n] >= 1
    <3>1. CASE Carries(n)
      BY <2>5, <3>1
    <3>2. CASE ~Carries(n)
      <4>1. call'[n] \in {"carried", "ok"} => call[n] \in {"carried", "ok"}
        BY <1>t, <3>2 DEF Moved, Rests, Sends, Drops, Hears, Answers, NotReached
      <4> QED
        BY <2>1, <2>5, <4>1
    <3> QED
      BY <3>1, <3>2
  <2>7. call'[n] \in {"interrupted", "not sent"} => cancelled
    BY <1>t, <2>1 DEF Moved, Rests, Sends, Drops, Hears, Carries
  <2>8. row[n].how = "ok" => received'[n] >= 1
    BY <2>1, <2>5
  <2>9. action # "status" /\ n \notin pending /\ row[n].how \in Untouched => Load(n)' = 0
    <3>1. Load(n) = 0 => Load(n)' = 0 \/ n \in pending
      BY <2>2, <2>3
    <3> QED
      BY <2>1, <3>1
  <2> QED
    BY <2>1, <2>6, <2>7, <2>8, <2>9
<1>6. RowInv'
  <2> SUFFICES ASSUME NEW n \in Nodes
               PROVE  /\ pc # "done" /\ n \in Later => row[n].how = "" /\ span'[n] = ""
                      /\ n \in next \/ call'[n] = "queued" => row[n].how # "pin" /\ span'[n] = ""
                      /\ n \in pending /\ span'[n] # "" =>
                           call'[n] = span'[n] /\ ~Again(n, call'[n])
                      /\ Settled(n) => span'[n] = row[n].how
                      /\ Settled(n) /\ action = "status" /\ ~cancelled
                           /\ row[n].how \notin {"ok", "pin", "usage"} =>
                           row[n].via = Order[n][Len(Order[n])]
    BY <1>c DEF RowInv, Settled, Again, MayFallBack, Via
  <2>1. /\ pc # "done" /\ n \in Later => row[n].how = "" /\ span[n] = ""
        /\ n \in next \/ call[n] = "queued" => row[n].how # "pin" /\ span[n] = ""
        /\ n \in pending /\ span[n] # "" => call[n] = span[n] /\ ~Again(n, call[n])
        /\ Settled(n) => span[n] = row[n].how
        /\ Settled(n) /\ action = "status" /\ ~cancelled
             /\ row[n].how \notin {"ok", "pin", "usage"} =>
             row[n].via = Order[n][Len(Order[n])]
    BY DEF Inv, RowInv
  <2>2. span[n] # "" => span[n] \notin UnderWay \cup {"queued"}
    BY <1>t DEF Types, Answers, UnderWay, NotReached
  <2>3. CASE span'[n] = span[n] /\ call'[n] = call[n]
    BY <2>1, <2>3
  <2>4. CASE call[n] \in UnderWay \cup {"queued"} /\ call'[n] # "queued"
    <3>1. n \in pending /\ ~Settled(n)
      BY <2>4 DEF Inv, PlaceInv, Settled
    <3>2. n \notin Later /\ n \notin next
      BY <3>1, PendingIs
    <3>3. span[n] = ""
      BY <2>1, <2>2, <2>4, <3>1
    <3>4. span'[n] = "" \/ (span'[n] = call'[n] /\ ~Again(n, call'[n]))
      BY <1>t, <3>3 DEF Moved, Rests, Sends, Drops, Hears, Carries
    <3> QED
      BY <2>4, <3>1, <3>2, <3>4
  <2>5. Rests(n) \/ Sends(n) \/ Drops(n) \/ Hears(n) \/ Carries(n)
    BY <1>t DEF Moved
  <2>6. "queued" \notin Answers
    BY DEF Answers, NotReached
  <2> QED
    BY <2>3, <2>4, <2>5, <2>6 DEF Rests, Sends, Drops, Hears, Carries, UnderWay
<1>7. BatchInv'
  BY <1>c DEF Inv, BatchInv
<1> QED
  BY <1>1, <1>2, <1>3, <1>4, <1>5, <1>6, <1>7 DEF Inv

(***************************************************************************)
(* The steps of the command.                                               *)
(***************************************************************************)
\* Nothing is made to be done by what the command notes down.
LEMMA LoadSame ==
  ASSUME UNCHANGED <<gateway, wire, received>>
  PROVE  \A n : Load(n)' = Load(n)
  BY DEF Load

\* The batches and the room there is do not change within a round.
LEMMA RoundSame ==
  ASSUME UNCHANGED <<action, batch, step>>
  PROVE  Chunks' = Chunks /\ Later' = Later /\ Allowed' = Allowed /\ Before' = Before
  BY DEF Chunks, Later, Allowed, Before

\* The next batch is taken from what comes later.
LEMMA NextLater ==
  ASSUME Types, batch < Len(Chunks), batch' = batch + 1, UNCHANGED action
  PROVE  Later = Chunks[batch + 1] \cup Later' /\ Chunks' = Chunks
<1>1. Chunks' = Chunks
  BY DEF Chunks
<1>2. batch \in 0 .. Len(Chunks) /\ Len(Chunks) \in Nat
  BY ChunksAre DEF Types
<1>3. \A n : n \in Later <=> \E i \in batch + 1 .. Len(Chunks) : n \in Chunks[i]
  BY DEF Later
<1>4. \A n : n \in Later' <=> \E i \in batch + 2 .. Len(Chunks) : n \in Chunks[i]
  <2>1. batch' + 1 = batch + 2
    BY <1>2
  <2> QED
    BY <1>1, <2>1 DEF Later
<1>5. \A i : i \in batch + 1 .. Len(Chunks) <=> i = batch + 1 \/ i \in batch + 2 .. Len(Chunks)
  BY <1>2
<1> QED
  BY <1>1, <1>3, <1>4, <1>5

\* The interrupt.
LEMMA InterruptNext == ASSUME Inv, Interrupt PROVE Inv'
<1>1. /\ cancelled' = TRUE
      /\ UNCHANGED <<action, pc, batch, step, pending, next, call, row, span,
                     gateway, wire, received>>
  BY DEF Interrupt
<1>2. UNCHANGED <<Chunks, Later, Allowed, Before>> /\ \A n : Load(n)' = Load(n)
  BY <1>1, LoadSame, RoundSame
<1>3. Types' /\ PlaceInv' /\ AccountInv'
  BY <1>1, <1>2 DEF Inv, Types, PlaceInv, AccountInv
<1>4. LoadInv' /\ BatchInv'
  BY <1>1, <1>2 DEF Inv, LoadInv, BatchInv
<1>5. KnownInv'
  BY <1>1, <1>2 DEF Inv, KnownInv
<1>6. RowInv'
  BY <1>1, <1>2 DEF Inv, RowInv, Settled, Again
<1> QED
  BY <1>3, <1>4, <1>5, <1>6 DEF Inv

\* A batch is started.
LEMMA StartNext == ASSUME Inv, StartBatch PROVE Inv'
<1>1. /\ pc = "pause" /\ ~cancelled /\ batch' = batch + 1 /\ step' = 1
      /\ pc' = "prepare" /\ pending' = Chunks[batch + 1] /\ next' = {}
      /\ call' = [n \in Nodes |-> IF n \in Chunks[batch + 1] THEN "queued" ELSE "idle"]
      /\ UNCHANGED <<action, cancelled, row, span, gateway, wire, received>>
  BY DEF StartBatch, Round
<1>t. Types
  BY DEF Inv
<1>2. /\ batch \in Nat /\ batch < Len(Chunks) /\ pending = {} /\ next = {}
      /\ batch + 1 \in 1 .. Len(Chunks) /\ batch' \in 0 .. Len(Chunks) /\ Len(Chunks) \in Nat
  <2>1. batch \in 0 .. Len(Chunks) /\ batch < Len(Chunks) /\ pending = {} /\ next = {}
    BY <1>1 DEF Inv, Types, PlaceInv
  <2>2. Len(Chunks) \in Nat
    BY <1>t, ChunksAre DEF Types
  <2> QED
    BY <1>1, <2>1, <2>2
<1>3. Later = Chunks[batch + 1] \cup Later' /\ Chunks' = Chunks
  BY <1>1, <1>2, <1>t, NextLater
<1>4. Chunks[batch + 1] \subseteq Nodes
  BY <1>2, <1>t, ChunksAre DEF Types
<1>5. \A n : Load(n)' = Load(n)
  BY <1>1, LoadSame
<1>6. \A n \in Nodes : call'[n] = IF n \in Chunks[batch + 1] THEN "queued" ELSE "idle"
  BY <1>1
<1>7. Types'
  <2>1. step' \in 0..2 /\ \A n \in pending' : step' \in 1 .. Len(Order[n])
    <3>1. \A n \in pending' : Len(Order[n]) \in 1..2
      BY <1>1, <1>4, OrderIs
    <3>2. step' = 1
      BY <1>1
    <3> QED
      BY <3>1, <3>2
  <2>2. call' \in [Nodes -> Calls]
    BY <1>1 DEF Calls
  <2>3. batch' \in 0 .. Len(Chunks')
    BY <1>2, <1>3
  <2> QED
    BY <1>1, <1>4, <1>t, <2>1, <2>2, <2>3 DEF Types
<1>8. PlaceInv'
  <2>1. batch' # 0 /\ step' # 0
    BY <1>1, <1>2
  <2>2. pending' \cup next' \subseteq Chunks'[batch']
    BY <1>1, <1>3
  <2> QED
    BY <1>1, <1>4, <1>6, <2>1, <2>2 DEF PlaceInv, UnderWay
<1>9. AccountInv'
  BY <1>1 DEF AccountInv
<1>10. LoadInv'
  <2>1. Before' = 0 /\ Allowed' = 1
    <3>1. (Before' = step' - 1 /\ Allowed' = step') \/ (Before' = 0 /\ Allowed' = 1)
      BY DEF Before, Allowed
    <3> QED
      BY <1>1, <3>1
  <2>2. Allowed = 1 \/ Allowed = 0
    <3>1. CASE action = "status"
      <4>1. Len(Chunks) = 1
        BY <1>t, <3>1, ChunksAre DEF Types
      <4>2. batch = 0
        BY <1>2, <4>1
      <4>3. step = 0
        BY <4>2 DEF Inv, PlaceInv
      <4> QED
        BY <3>1, <4>3 DEF Allowed
    <3>2. CASE action # "status"
      BY <3>2 DEF Allowed
    <3> QED
      BY <3>1, <3>2
  <2> SUFFICES ASSUME NEW n \in Nodes
               PROVE  /\ Load(n)' <= Allowed'
                      /\ call'[n] = "queued" => Load(n)' <= Before'
                      /\ n \in Later' => Load(n)' = 0
                      /\ call'[n] \notin Untouched /\ n \notin next'
    BY DEF LoadInv
  <2>3. Load(n) \in Nat /\ Load(n)' = Load(n)
    BY <1>5, <1>t, LoadIs
  <2>4. Load(n) <= Allowed
    BY DEF Inv, LoadInv
  <2>5. Load(n)' <= Allowed'
    BY <2>1, <2>2, <2>3, <2>4
  <2>6. n \in Later => Load(n)' = 0
    BY <2>3 DEF Inv, LoadInv
  <2>7. Load(n)' = 0 => Load(n)' <= Before'
    BY <2>1
  <2> QED
    BY <1>1, <1>3, <1>6, <2>5, <2>6, <2>7 DEF Untouched, NotReached
<1>11. KnownInv'
  BY <1>1, <1>2, <1>5, <1>6 DEF Inv, KnownInv
<1>12. RowInv'
  <2> SUFFICES ASSUME NEW n \in Nodes
               PROVE  /\ n \in Later' => row[n].how = "" /\ span[n] = ""
                      /\ call'[n] = "queued" => row[n].how # "pin" /\ span[n] = ""
                      /\ n \in pending' => span[n] = ""
                      /\ n \notin pending' \cup Later' => Settled(n)
    BY <1>1, <1>2 DEF Inv, RowInv, Settled
  <2>1. n \in Later => row[n].how = "" /\ span[n] = ""
    BY <1>1 DEF Inv, RowInv
  <2> QED
    BY <1>1, <1>2, <1>3, <1>6, <2>1 DEF Settled
<1>13. BatchInv'
  <2> SUFFICES ASSUME action = "on", NEW i \in DOMAIN Batches, i < batch + 1
               PROVE  \A m \in Batches[i] : row[m].how = "ok"
    BY <1>1 DEF BatchInv
  <2>1. DOMAIN Batches = 1 .. Len(Chunks)
    BY <1>t, ChunksAre DEF Types
  <2>2. i < batch \/ i = batch
    BY <1>2, <2>1
  <2> QED
    BY <1>1, <2>2 DEF Inv, BatchInv
<1> QED
  BY <1>7, <1>8, <1>9, <1>10, <1>11, <1>12, <1>13 DEF Inv

\* What a row says.
LEMMA HowIs ==
  ASSUME NEW r, NEW how, NEW via, r = [via |-> via, how |-> how]
  PROVE  r.how = how /\ r.via = via
  OBVIOUS

\* The batches that are left are left out.
LEMMA OutNext ==
  ASSUME Inv, NEW how \in {"not sent", "not tried"}, LeaveOut(how),
         pending = {}, next = {}, cancelled \/ action = "on", how = "not sent" => cancelled,
         UNCHANGED <<action, cancelled, batch, step, pending, next, call, span,
                     gateway, wire, received>>
  PROVE  Inv'
<1>t. Types
  BY DEF Inv
<1>1. /\ pc' = "done"
      /\ row' = [n \in Nodes |-> IF n \in Later THEN [via |-> "", how |-> how] ELSE row[n]]
  BY DEF LeaveOut
<1>2. UNCHANGED <<Chunks, Later, Allowed, Before>> /\ \A n : Load(n)' = Load(n)
  BY LoadSame, RoundSame
<1>3. \A n \in Nodes : row'[n] = IF n \in Later THEN [via |-> "", how |-> how] ELSE row[n]
  BY <1>1
<1>4. \A n \in Nodes : row'[n].how = IF n \in Later THEN how ELSE row[n].how
  <2> TAKE n \in Nodes
  <2>1. CASE n \in Later
    <3>1. row'[n] = [via |-> "", how |-> how]
      BY <1>3, <2>1
    <3>2. row'[n].how = how
      BY <3>1, HowIs
    <3> QED
      BY <2>1, <3>2
  <2>2. CASE n \notin Later
    BY <1>3, <2>2
  <2> QED
    BY <2>1, <2>2
<1>5. \A n \in Nodes : n \notin Later => row'[n] = row[n]
  BY <1>3
<1>6. Types'
  <2>1. row' \in [Nodes -> Rows]
    <3>1. [via |-> "", how |-> how] \in Rows
      BY DEF Rows, Outcomes, Answers
    <3> QED
      BY <1>1, <1>t, <3>1 DEF Types
  <2> QED
    BY <1>1, <1>2, <1>t, <2>1 DEF Types
<1>7. PlaceInv' /\ AccountInv'
  BY <1>1, <1>2 DEF Inv, PlaceInv, AccountInv
<1>8. LoadInv'
  BY <1>2 DEF Inv, LoadInv
<1>9. KnownInv'
  <2>1. \A n \in Nodes : n \in Later => Load(n) = 0
    BY DEF Inv, LoadInv
  <2> QED
    BY <1>2, <1>4, <2>1 DEF Inv, KnownInv
<1>10. RowInv'
  <2>1. \A n \in Nodes : call[n] # "queued"
    BY DEF Inv, PlaceInv
  <2> SUFFICES ASSUME NEW n \in Nodes, n \notin Later
               PROVE  /\ span[n] = row'[n].how
                      /\ action = "status" /\ ~cancelled
                           /\ row'[n].how \notin {"ok", "pin", "usage"} =>
                           row'[n].via = Order[n][Len(Order[n])]
    BY <1>1, <1>2, <2>1 DEF RowInv, Settled
  <2>2. row'[n] = row[n] /\ Settled(n)
    BY <1>5 DEF Settled
  <2> QED
    BY <2>2 DEF Inv, RowInv
<1>11. BatchInv'
  BY <1>1 DEF BatchInv
<1> QED
  BY <1>6, <1>7, <1>8, <1>9, <1>10, <1>11 DEF Inv

\* A pause that is interrupted.
LEMMA PauseNext == ASSUME Inv, PauseEnds PROVE Inv'
<1>1. pending = {} /\ next = {}
  BY DEF PauseEnds, Inv, PlaceInv
<1> QED
  BY <1>1, OutNext DEF PauseEnds

\* What a round needs is made ready.
LEMMA PrepareNext ==
  ASSUME Inv, NEW T \in SUBSET pending, NEW how \in {"usage", "failed", "interrupted"},
         Prepare(T, how)
  PROVE  Inv'
<1>t. Types
  BY DEF Inv
<1>1. /\ pc = "prepare" /\ pc' = "send" /\ (how = "interrupted" => cancelled)
      /\ call' = [n \in Nodes |-> IF n \in T THEN how ELSE call[n]]
      /\ \A n \in T, m \in pending :
           Via(n) = "ipmi" /\ Via(m) = "ipmi" /\ AccountOf[n] = AccountOf[m] => m \in T
      /\ UNCHANGED <<action, cancelled, batch, step, pending, next, row, span,
                     gateway, wire, received>>
  BY DEF Prepare, Over
<1>2. UNCHANGED <<Chunks, Later, Allowed, Before>> /\ \A n : Load(n)' = Load(n)
  BY <1>1, LoadSame, RoundSame
<1>3. \A n \in Nodes : call'[n] = IF n \in T THEN how ELSE call[n]
  BY <1>1
<1>4. /\ \A n \in pending : call[n] = "queued"
      /\ pending \subseteq Nodes
  BY <1>1 DEF Inv, PlaceInv, Types
<1>5. how \in Answers /\ how \notin Untouched \cup UnderWay \cup {"queued", "carried", "ok"}
  BY DEF Answers, Untouched, UnderWay, NotReached
<1>6. Types'
  <2>1. call' \in [Nodes -> Calls]
    BY <1>1, <1>5, <1>t DEF Types, Calls
  <2> QED
    BY <1>1, <1>2, <1>t, <2>1 DEF Types
<1>7. PlaceInv'
  BY <1>1, <1>2, <1>3, <1>5 DEF Inv, PlaceInv
<1>8. AccountInv'
  <2> SUFFICES ASSUME NEW n \in pending, NEW m \in pending, Via(n) = "ipmi", Via(m) = "ipmi",
                      AccountOf[m] = AccountOf[n], call'[n] = "queued"
               PROVE  call'[m] = "queued"
    BY <1>1 DEF AccountInv, Via
  <2>1. n \notin T
    BY <1>3, <1>4, <1>5
  <2>2. m \notin T
    BY <1>1, <2>1
  <2> QED
    BY <1>3, <1>4, <2>2
<1>9. LoadInv'
  BY <1>1, <1>2, <1>3, <1>5 DEF Inv, LoadInv
<1>10. KnownInv'
  BY <1>1, <1>2, <1>3, <1>5 DEF Inv, KnownInv
<1>11. RowInv'
  <2>1. \A n \in pending : span[n] = ""
    BY <1>4 DEF Inv, RowInv
  <2>2. \A n \in Nodes : call'[n] = "queued" => call[n] = "queued"
    BY <1>3, <1>5
  <2>3. \A n \in Nodes : Settled(n)' <=> Settled(n)
    BY <1>1, <1>2 DEF Settled
  <2>4. pc # "done" /\ pc' # "done"
    BY <1>1
  <2> QED
    BY <1>1, <1>2, <2>1, <2>2, <2>3, <2>4 DEF Inv, RowInv
<1>12. BatchInv'
  BY <1>1 DEF Inv, BatchInv
<1> QED
  BY <1>6, <1>7, <1>8, <1>9, <1>10, <1>11, <1>12 DEF Inv

\* The next round begins.
LEMMA RoundNext == ASSUME Inv, NextRound PROVE Inv'
<1>t. Types
  BY DEF Inv
<1>1. /\ pc = "send" /\ pending = {} /\ next # {} /\ step' = step + 1
      /\ pc' = "prepare" /\ pending' = next /\ next' = {}
      /\ call' = [n \in Nodes |-> IF n \in next THEN "queued" ELSE "idle"]
      /\ UNCHANGED <<action, cancelled, batch, row, span, gateway, wire, received>>
  BY DEF NextRound, Round
<1>2. UNCHANGED <<Chunks, Later>> /\ \A n : Load(n)' = Load(n)
  BY <1>1, LoadSame DEF Chunks, Later
<1>3. \A n \in Nodes : call'[n] = IF n \in next THEN "queued" ELSE "idle"
  BY <1>1
<1>4. next \subseteq Nodes /\ \A n \in next : step < Len(Order[n])
  BY DEF Inv, Types, PlaceInv
<1>5. step \in Nat /\ step' \in 1..2 /\ \A n \in next : step' \in 1 .. Len(Order[n])
  <2>1. step \in 0..2
    BY <1>t DEF Types
  <2>2. \A n \in next : Len(Order[n]) \in 1..2 /\ step < Len(Order[n])
    BY <1>4, OrderIs
  <2>3. \E l \in 1..2 : step < l
    BY <1>1, <2>2
  <2>4. step' = step + 1
    BY <1>1
  <2>5. step + 1 \in 1..2
    BY <2>1, <2>3
  <2> QED
    BY <2>1, <2>2, <2>4, <2>5
<1>6. Types'
  <2>1. call' \in [Nodes -> Calls]
    BY <1>1 DEF Calls
  <2>2. step' \in 0..2
    BY <1>5
  <2> QED
    BY <1>1, <1>2, <1>4, <1>5, <1>t, <2>1, <2>2 DEF Types
<1>7. PlaceInv'
  <2>1. batch # 0 /\ step' # 0
    BY <1>1, <1>5 DEF Inv, PlaceInv
  <2> QED
    BY <1>1, <1>2, <1>3, <1>4, <2>1 DEF Inv, PlaceInv, UnderWay
<1>8. AccountInv'
  BY <1>1 DEF AccountInv
<1>9. LoadInv'
  <2> SUFFICES ASSUME NEW n \in Nodes
               PROVE  /\ Load(n)' <= Allowed'
                      /\ call'[n] = "queued" => Load(n)' <= Before'
                      /\ n \in Later => Load(n)' = 0
                      /\ call'[n] \notin Untouched /\ n \notin next'
    BY <1>2 DEF LoadInv
  <2>1. /\ Load(n) <= Allowed
        /\ n \in Later => Load(n) = 0
        /\ action # "status" /\ n \in next => Load(n) = 0
    BY DEF Inv, LoadInv
  <2>2. Load(n) \in Nat /\ Load(n)' = Load(n)
    BY <1>2, <1>t, LoadIs
  <2>3. /\ (Allowed = step /\ Allowed' = step' /\ Before' = step' - 1 /\ action = "status")
           \/ (Allowed = 1 /\ Allowed' = 1 /\ Before' = 0 /\ action # "status")
    BY <1>1 DEF Allowed, Before
  <2>4. step' = step + 1
    BY <1>1
  <2>5. CASE Allowed = step /\ Allowed' = step' /\ Before' = step' - 1
    <3>1. Load(n)' <= Allowed' /\ Load(n)' <= Before'
      <4>1. Load(n) <= Allowed
        BY <2>1
      <4> QED
        BY <1>5, <2>2, <2>4, <2>5, <4>1
    <3> QED
      BY <1>1, <1>3, <2>1, <2>2, <3>1 DEF Untouched, NotReached
  <2>6. CASE Allowed = 1 /\ Allowed' = 1 /\ Before' = 0 /\ action # "status"
    <3>1. Load(n)' <= Allowed'
      BY <2>1, <2>2, <2>6
    <3>2. call'[n] = "queued" => Load(n)' = 0
      BY <1>3, <2>1, <2>2, <2>6
    <3>3. Load(n)' = 0 => Load(n)' <= Before'
      BY <2>6
    <3> QED
      BY <1>1, <1>3, <2>1, <2>2, <3>1, <3>2, <3>3 DEF Untouched, NotReached
  <2> QED
    BY <2>3, <2>5, <2>6
<1>10. KnownInv'
  BY <1>1, <1>2, <1>3 DEF Inv, KnownInv
<1>11. RowInv'
  <2> SUFFICES ASSUME NEW n \in Nodes
               PROVE  /\ n \in Later => row[n].how = "" /\ span[n] = ""
                      /\ call'[n] = "queued" => row[n].how # "pin" /\ span[n] = ""
                      /\ n \in next => span[n] = ""
                      /\ n \notin next \cup Later => Settled(n)
    BY <1>1, <1>2 DEF Inv, RowInv, Settled
  <2>1. /\ n \in Later => row[n].how = "" /\ span[n] = ""
        /\ n \in next => row[n].how # "pin" /\ span[n] = ""
    BY <1>1 DEF Inv, RowInv
  <2> QED
    BY <1>1, <1>3, <2>1 DEF Settled
<1>12. BatchInv'
  BY <1>1 DEF Inv, BatchInv
<1> QED
  BY <1>6, <1>7, <1>8, <1>9, <1>10, <1>11, <1>12 DEF Inv

\* The codes of what was sent to some nodes.
Codes(T) ==
  {From(row[n].how) : n \in {m \in T : row[m].how \notin {"not tried", "not sent"}}}

\* What decides the exit code.
LEMMA CodeIs ==
  ASSUME NEW T
  PROVE  BmcExit(T) = IF \A n \in T : row[n].how = "ok" THEN 0
                      ELSE IF \E n \in T : row[n].how = "not sent" THEN 130
                      ELSE IF Worst(Codes(T)) = 0 THEN 1 ELSE Worst(Codes(T))
<1> DEFINE how == [n \in T |-> row[n].how]
<1>1. \A n \in T : how[n] = row[n].how
  OBVIOUS
<1>2. {From(how[n]) : n \in {m \in T : how[m] \notin {"not tried", "not sent"}}} = Codes(T)
  BY DEF Codes
<1> QED
  BY <1>1, <1>2 DEF BmcExit

\* A batch without a code is a batch whose machines all did what they were asked.
LEMMA ExitIs ==
  ASSUME NEW T
  PROVE  /\ BmcExit(T) = 0 => \A n \in T : row[n].how = "ok"
         /\ BmcExit(T) # 130 => \A n \in T : row[n].how # "not sent"
<1> DEFINE worst == Worst(Codes(T))
<1>1. BmcExit(T) = IF \A n \in T : row[n].how = "ok" THEN 0
                   ELSE IF \E n \in T : row[n].how = "not sent" THEN 130
                   ELSE IF worst = 0 THEN 1 ELSE worst
  BY CodeIs
<1> HIDE DEF worst
<1>2. 130 # 0 /\ 1 # 0 /\ 0 # 130
  OBVIOUS
<1>3. (\E n \in T : row[n].how = "not sent") => ~ \A n \in T : row[n].how = "ok"
  OBVIOUS
<1> QED
  BY <1>1, <1>2, <1>3

\* A batch is over.
LEMMA OverNext == ASSUME Inv, BatchOver PROVE Inv'
<1>t. Types
  BY DEF Inv
<1>1. /\ pc = "send" /\ pending = {} /\ next = {}
      /\ UNCHANGED <<action, cancelled, batch, step, pending, next, call, span,
                     gateway, wire, received>>
  BY DEF BatchOver
<1>2. UNCHANGED <<Chunks, Later, Allowed, Before>> /\ \A n : Load(n)' = Load(n)
  BY <1>1, LoadSame, RoundSame
<1>3. /\ batch # 0 /\ batch \in 0 .. Len(Chunks) /\ Len(Chunks) \in Nat
      /\ action # "on" => batch = 1 /\ Len(Chunks) = 1
  <2>1. batch # 0 /\ batch \in 0 .. Len(Chunks)
    BY <1>1 DEF Inv, PlaceInv, Types
  <2>2. Len(Chunks) \in Nat /\ (action # "on" => Len(Chunks) = 1)
    BY <1>t, ChunksAre DEF Types
  <2>3. Len(Chunks) = 1 => batch = 1
    BY <2>1
  <2> QED
    BY <2>1, <2>2, <2>3
<1>4. CASE LeaveOut("not sent") /\ cancelled
  BY <1>1, <1>4, OutNext
<1>5. CASE LeaveOut("not tried") /\ batch # Len(Chunks)
  <2>1. action = "on"
    BY <1>3, <1>5
  <2> QED
    BY <1>1, <1>5, <2>1, OutNext
<1>6. ASSUME /\ UNCHANGED row
             /\ \/ pc' = "done" /\ batch = Len(Chunks)
                \/ /\ pc' = "pause" /\ batch # Len(Chunks)
                   /\ BmcExit(Chunks[batch]) = 0
      PROVE  Inv'
  <2>1. Types'
    BY <1>1, <1>2, <1>6, <1>t DEF Types
  <2>2. PlaceInv'
    <3>1. pc' = "pause" => batch < Len(Chunks)
      <4>1. batch # Len(Chunks) => batch < Len(Chunks)
        BY <1>3
      <4> QED
        BY <1>6, <4>1
    <3> QED
      BY <1>1, <1>2, <1>3, <1>6, <3>1 DEF Inv, PlaceInv
  <2>3. AccountInv' /\ LoadInv' /\ KnownInv'
    BY <1>1, <1>2, <1>6 DEF Inv, AccountInv, LoadInv, KnownInv
  <2>4. RowInv'
    <3>1. \A n \in Nodes : /\ Settled(n)' <=> Settled(n)
                           /\ n \notin pending /\ call[n] # "queued"
      BY <1>1, <1>2 DEF Settled, Inv, PlaceInv
    <3> QED
      BY <1>1, <1>2, <1>6, <3>1 DEF Inv, RowInv
  <2>5. BatchInv'
    <3> SUFFICES ASSUME action = "on", pc' = "pause", NEW i \in DOMAIN Batches,
                        i < batch \/ i = batch, NEW m \in Batches[i]
                 PROVE  row[m].how = "ok"
      BY <1>1, <1>6 DEF BatchInv
    <3>1. CASE i < batch
      BY <1>1, <3>1 DEF Inv, BatchInv
    <3>2. CASE i = batch
      <4>1. Batches = Chunks
        BY DEF Chunks
      <4> QED
        BY <1>6, <3>2, <4>1, ExitIs
    <3> QED
      BY <3>1, <3>2
  <2> QED
    BY <2>1, <2>2, <2>3, <2>4, <2>5 DEF Inv
<1> QED
  BY <1>4, <1>5, <1>6 DEF BatchOver

\* A node is settled.
LEMMA SettleNext == ASSUME Inv, NEW k \in Nodes, Settle(k) PROVE Inv'
<1>t. Types
  BY DEF Inv
<1>1. /\ pc = "send" /\ k \in pending /\ \A m \in pending : call[m] \in Answers
      /\ pending' = pending \ {k}
      /\ row' = [row EXCEPT ![k] = [via |-> Via(k), how |-> call[k]]]
      /\ UNCHANGED <<action, pc, cancelled, batch, step, call, gateway, wire, received>>
  BY DEF Settle
<1>2. UNCHANGED <<Chunks, Later, Allowed, Before>> /\ \A n : Load(n)' = Load(n)
  BY <1>1, LoadSame, RoundSame
<1>3. /\ row'[k] = [via |-> Via(k), how |-> call[k]]
      /\ \A n \in Nodes : n # k => row'[n] = row[n]
  BY <1>1, <1>t DEF Types
<1>4. row'[k].via = Via(k) /\ row'[k].how = call[k]
  BY <1>3, HowIs
<1>5. \/ Again(k, call[k]) /\ next' = next \cup {k} /\ span' = span
      \/ /\ ~Again(k, call[k]) /\ next' = next
         /\ span' = [span EXCEPT ![k] = IF span[k] = "" THEN call[k] ELSE span[k]]
  BY DEF Settle
<1>6. /\ k \notin Later /\ k \notin next /\ batch # 0
      /\ call[k] \in Answers /\ span \in [Nodes -> Answers \cup {""}]
  BY <1>1, <1>t, PendingIs DEF Types
<1>7. \A n \in Nodes : n # k => span'[n] = span[n] /\ (n \in next' <=> n \in next)
                                /\ (n \in pending' <=> n \in pending)
  BY <1>1, <1>5, <1>6
<1>8. span'[k] = call[k] \/ (Again(k, call[k]) /\ span'[k] = "")
  <2>1. span[k] # "" => call[k] = span[k] /\ ~Again(k, call[k])
    BY <1>1 DEF Inv, RowInv
  <2> QED
    BY <1>5, <1>6, <2>1
<1>9. /\ Again(k, call[k]) => k \in next' /\ call[k] \notin {"ok", "pin"} /\ step < Len(Order[k])
                              /\ (action # "status" => call[k] \in NotReached)
      /\ ~Again(k, call[k]) => k \notin next'
  BY <1>5, <1>6, AgainIs
<1>10. Types'
  <2>1. Via(k) \in {"redfish", "ipmi"}
    BY <1>1, <1>t, OrderIs DEF Via, Types
  <2>2. [via |-> Via(k), how |-> call[k]] \in Rows
    BY <1>6, <2>1 DEF Rows, Outcomes
  <2>3. row' \in [Nodes -> Rows]
    BY <1>1, <1>t, <2>2 DEF Types
  <2>4. span' \in [Nodes -> Answers \cup {""}]
    BY <1>5, <1>6
  <2>5. next' \subseteq Nodes /\ pending' \subseteq Nodes
    BY <1>1, <1>5, <1>t DEF Types
  <2>6. \A n \in pending' : step \in 1 .. Len(Order[n])
    BY <1>1, <1>t DEF Types
  <2> QED
    BY <1>1, <1>2, <1>t, <2>3, <2>4, <2>5, <2>6 DEF Types
<1>11. PlaceInv'
  <2>1. call[k] \notin UnderWay \cup {"queued"}
    BY <1>6 DEF Answers, NotReached, UnderWay
  <2>2. pending' \cup next' \subseteq pending \cup next /\ pending' \cap next' = {}
    BY <1>1, <1>5, <1>6 DEF Inv, PlaceInv
  <2>3. \A n \in next' : step < Len(Order[n])
    BY <1>5, <1>9 DEF Inv, PlaceInv
  <2> QED
    BY <1>1, <1>2, <1>6, <1>7, <2>1, <2>2, <2>3 DEF Inv, PlaceInv
<1>12. AccountInv'
  <2>1. \A n : Via(n)' = Via(n)
    BY <1>1 DEF Via
  <2> QED
    BY <1>1, <2>1 DEF Inv, AccountInv
<1>13. LoadInv'
  <2>1. k \in next' /\ action # "status" => call[k] \in Untouched
    BY <1>9 DEF Untouched
  <2> QED
    BY <1>1, <1>2, <1>7, <2>1 DEF Inv, LoadInv
<1>14. KnownInv'
  <2> SUFFICES ASSUME NEW n \in Nodes
               PROVE  /\ row'[n].how = "ok" => received[n] >= 1
                      /\ action # "status" /\ n \notin pending' /\ row'[n].how \in Untouched =>
                           Load(n) = 0
                      /\ row'[n].how \in {"interrupted", "not sent"} => cancelled
    BY <1>1, <1>2 DEF Inv, KnownInv
  <2>1. CASE n = k
    <3>1. call[k] \in Untouched /\ action # "status" => Load(k) = 0
      BY DEF Inv, LoadInv
    <3> QED
      BY <1>4, <2>1, <3>1 DEF Inv, KnownInv
  <2>2. CASE n # k
    BY <1>3, <1>7, <2>2 DEF Inv, KnownInv
  <2> QED
    BY <2>1, <2>2
<1>15. RowInv'
  <2>s. \A n, how : Again(n, how)' <=> Again(n, how)
    BY <1>1, AgainSame
  <2> SUFFICES ASSUME NEW n \in Nodes
               PROVE  /\ n \in Later => row'[n].how = "" /\ span'[n] = ""
                      /\ n \in next' \/ call[n] = "queued" => row'[n].how # "pin" /\ span'[n] = ""
                      /\ n \in pending' /\ span'[n] # "" =>
                           call[n] = span'[n] /\ ~Again(n, call[n])
                      /\ Settled(n)' => span'[n] = row'[n].how
                      /\ Settled(n)' /\ action = "status" /\ ~cancelled
                           /\ row'[n].how \notin {"ok", "pin", "usage"} =>
                           row'[n].via = Order[n][Len(Order[n])]
    BY <1>1, <1>2, <2>s DEF RowInv
  <2>1. CASE n = k
    <3>1. n \notin Later /\ n \notin pending' /\ call[n] # "queued"
      BY <1>1, <1>6, <2>1 DEF Answers, NotReached
    <3>2. k \in next' => call[k] # "pin" /\ span'[k] = ""
      <4>1. Again(k, call[k]) => span[k] = ""
        BY <1>1 DEF Inv, RowInv
      <4> QED
        BY <1>5, <1>9, <4>1
    <3>3. Settled(k)' => ~Again(k, call[k]) /\ span'[k] = call[k]
      BY <1>8, <1>9 DEF Settled
    <3>4. ASSUME ~Again(k, call[k]), action = "status", ~cancelled,
                 call[k] \notin {"ok", "pin", "usage"}
          PROVE  Via(k) = Order[k][Len(Order[k])]
      <4>1. call[k] \notin {"interrupted", "not sent"}
        BY <3>4 DEF Inv, KnownInv
      <4>2. ~(step < Len(Order[k]))
        BY <1>6, <3>4, <4>1, ReadFallsBack
      <4>3. step \in 1 .. Len(Order[k]) /\ Len(Order[k]) \in 1..2
        BY <1>1, <1>t, OrderIs DEF Types
      <4>4. step = Len(Order[k])
        BY <4>2, <4>3
      <4> QED
        BY <4>4 DEF Via
    <3> QED
      BY <1>4, <2>1, <3>1, <3>2, <3>3, <3>4
  <2>2. CASE n # k
    <3>1. Settled(n)' <=> Settled(n)
      BY <1>2, <1>7, <2>2 DEF Settled
    <3> QED
      BY <1>1, <1>3, <1>7, <2>2, <3>1 DEF Inv, RowInv
  <2> QED
    BY <2>1, <2>2
<1>16. BatchInv'
  <2> SUFFICES ASSUME action = "on", NEW i \in DOMAIN Batches, i < batch, NEW m \in Batches[i]
               PROVE  row'[m].how = "ok"
    BY <1>1 DEF BatchInv
  <2>1. m \in Nodes /\ row[m].how = "ok"
    <3>1. row[m].how = "ok"
      BY <1>1 DEF Inv, BatchInv
    <3>2. Batches[i] \subseteq Nodes
      BY <1>t, ChunksAre DEF Types
    <3> QED
      BY <3>1, <3>2
  <2>2. m # k
    <3>1. k \in Chunks[batch]
      BY <1>1, <1>6 DEF Inv, PlaceInv
    <3>2. Chunks = Batches /\ DOMAIN Batches = 1 .. Len(Chunks) /\ Len(Chunks) \in Nat
      BY <1>t, ChunksAre DEF Types
    <3>3. batch \in 0 .. Len(Chunks)
      BY <1>t DEF Types
    <3>4. batch \in 1 .. Len(Chunks) /\ i \in 1 .. Len(Chunks) /\ i # batch
      <4>1. i \in 1 .. Len(Chunks) /\ Len(Chunks) \in Nat /\ batch # 0 /\ i < batch
        BY <1>6, <3>2
      <4> QED
        BY <3>3, <4>1
    <3>5. Chunks[i] \cap Chunks[batch] = {}
      BY <1>t, <3>4, ChunksAre DEF Types
    <3> QED
      BY <3>1, <3>2, <3>5
  <2> QED
    BY <1>3, <2>1, <2>2
<1> QED
  BY <1>10, <1>11, <1>12, <1>13, <1>14, <1>15, <1>16 DEF Inv

(***************************************************************************)
(* The theorems.                                                           *)
(***************************************************************************)
\* At first nothing is under way.
LEMMA InvInit == Init => Inv
<1> SUFFICES ASSUME Init PROVE Inv
  OBVIOUS
<1>1. /\ action \in {"status", "on", "off"} /\ pc = "pause" /\ cancelled = FALSE
      /\ batch = 0 /\ step = 0 /\ pending = {} /\ next = {}
      /\ call = [n \in Nodes |-> "idle"] /\ row = [n \in Nodes |-> NoRow]
      /\ span = [n \in Nodes |-> ""] /\ gateway = {} /\ wire = {}
      /\ received = [n \in Nodes |-> 0]
  BY DEF Init
<1>n. batch = 0 /\ step = 0
  BY <1>1
<1>2. \A n \in Nodes : call[n] = "idle" /\ row[n] = NoRow /\ span[n] = ""
  BY <1>1
<1>3. \A n \in Nodes : row[n].how = ""
  BY <1>2, HowIs DEF NoRow
<1>4. \A n \in Nodes : Load(n) = 0
  <2> TAKE n \in Nodes
  <2>1. received[n] = 0 /\ n \notin gateway /\ n \notin wire
    BY <1>1
  <2> QED
    BY <2>1 DEF Load
<1>5. Len(Chunks) \in Nat /\ 0 < Len(Chunks)
  <2>1. Len(Chunks) \in Nat
    BY <1>1, ChunksAre
  <2>2. CASE action = "on"
    <3>1. \E i : i \in DOMAIN Batches
      BY PowerAssumption
    <3>2. DOMAIN Batches = 1 .. Len(Chunks)
      BY <1>1, <2>2, ChunksAre
    <3>3. \E i : i \in 1 .. Len(Chunks)
      BY <3>1, <3>2
    <3> QED
      BY <2>1, <3>3
  <2>3. CASE action # "on"
    <3>1. Len(Chunks) = 1
      BY <1>1, <2>3, ChunksAre
    <3> QED
      BY <3>1
  <2> QED
    BY <2>1, <2>2, <2>3
<1>6. Types
  <2>1. batch \in 0 .. Len(Chunks) /\ step \in 0..2
    BY <1>n, <1>5
  <2>2. row \in [Nodes -> Rows]
    BY <1>1 DEF NoRow, Rows
  <2>3. received \in [Nodes -> Nat]
    BY <1>1
  <2> QED
    BY <1>1, <2>1, <2>2, <2>3 DEF Types, Calls
<1>7. PlaceInv
  BY <1>1, <1>2, <1>5 DEF PlaceInv, UnderWay
<1>8. AccountInv
  BY <1>1 DEF AccountInv
<1>9. LoadInv
  <2>1. 0 <= Allowed
    <3>1. Allowed = 0 \/ Allowed = 1
      BY <1>1 DEF Allowed
    <3> QED
      BY <3>1
  <2>2. \A n \in Nodes : call[n] # "queued"
    BY <1>2
  <2> QED
    BY <1>4, <2>1, <2>2 DEF LoadInv
<1>10. KnownInv
  BY <1>2, <1>3, <1>4 DEF KnownInv, Untouched, NotReached
<1>11. RowInv
  <2>1. action = "status" => \A n \in Nodes : n \in Later
    <3> SUFFICES ASSUME action = "status", NEW n \in Nodes PROVE n \in Later
      OBVIOUS
    <3>1. Len(Chunks) = 1 /\ Chunks[1] = Nodes
      BY <1>1, ChunksAre
    <3>2. 1 \in batch + 1 .. Len(Chunks)
      BY <1>n, <3>1
    <3> QED
      BY <3>1, <3>2 DEF Later
  <2> QED
    BY <1>1, <1>2, <1>3, <2>1 DEF RowInv, Settled
<1>12. BatchInv
  <2> SUFFICES ASSUME action = "on", NEW i \in DOMAIN Batches, i < 0 \/ i = 0 PROVE FALSE
    BY <1>1 DEF BatchInv
  <2>1. i \in 1 .. Len(Chunks)
    BY <1>1, ChunksAre
  <2> QED
    BY <2>1, <1>5
<1> QED
  BY <1>6, <1>7, <1>8, <1>9, <1>10, <1>11, <1>12 DEF Inv

\* Every step keeps the invariant.
LEMMA InvNext == Inv /\ [Next]_vars => Inv'
<1> SUFFICES ASSUME Inv, [Next]_vars PROVE Inv'
  OBVIOUS
<1>1. CASE Interrupt
  BY <1>1, InterruptNext
<1>2. CASE StartBatch
  BY <1>2, StartNext
<1>3. CASE PauseEnds
  BY <1>3, PauseNext
<1>4. CASE \E T \in SUBSET pending, how \in {"usage", "failed", "interrupted"} : Prepare(T, how)
  BY <1>4, PrepareNext
<1>5. CASE \E n \in Nodes : Settle(n)
  BY <1>5, SettleNext
<1>6. CASE NextRound
  BY <1>6, RoundNext
<1>7. CASE BatchOver
  BY <1>7, OverNext
<1>8. CASE Quiet
  BY <1>8, QuietNext
<1>9. CASE UNCHANGED vars
  <2>1. /\ UNCHANGED <<action, pc, cancelled, batch, step, pending, next, call, row, span,
                       gateway, wire, received>>
    BY <1>9 DEF vars
  <2>2. UNCHANGED <<Chunks, Later, Allowed, Before>> /\ \A n : Load(n)' = Load(n)
    BY <2>1, LoadSame, RoundSame
  <2>3. \A n, how : Again(n, how)' <=> Again(n, how)
    BY <2>1, AgainSame
  <2>4. Types' /\ PlaceInv' /\ AccountInv'
    BY <2>1, <2>2 DEF Inv, Types, PlaceInv, AccountInv, Via
  <2>5. LoadInv' /\ KnownInv' /\ BatchInv'
    BY <2>1, <2>2 DEF Inv, LoadInv, KnownInv, BatchInv
  <2>6. RowInv'
    BY <2>1, <2>2, <2>3 DEF Inv, RowInv, Settled
  <2> QED
    BY <2>4, <2>5, <2>6 DEF Inv
<1> QED
  BY <1>1, <1>2, <1>3, <1>4, <1>5, <1>6, <1>7, <1>8, <1>9 DEF Next, Command, Quiet

\* The invariant always holds.
LEMMA InvAlways == Spec => []Inv
  BY InvInit, InvNext, PTL DEF Spec

\* What was carried out is within what a node may be made to do.
LEMMA Bounded ==
  ASSUME Inv, NEW n \in Nodes
  PROVE  received[n] \in 0..2 /\ (action # "status" => received[n] <= 1)
<1>1. received[n] \in Nat /\ Load(n) \in Nat /\ Load(n) >= received[n] /\ Load(n) <= Allowed
  <2>1. received[n] \in Nat
    BY DEF Inv, Types
  <2>2. Load(n) <= Allowed
    BY DEF Inv, LoadInv
  <2> QED
    BY <2>1, <2>2, LoadIs DEF Inv
<1>2. Allowed \in 0..2 /\ (action # "status" => Allowed = 1)
  <2>1. step \in 0..2
    BY DEF Inv, Types
  <2>2. (Allowed = step) \/ Allowed = 1
    BY DEF Allowed
  <2>3. Allowed \in 0..2
    BY <2>1, <2>2
  <2> QED
    BY <2>3 DEF Allowed
<1>3. received[n] \in 0..2
  BY <1>1, <1>2
<1>4. Allowed = 1 => received[n] <= 1
  BY <1>1
<1> QED
  BY <1>2, <1>3, <1>4

\* For any nodes, orders, accounts and batches the state keeps its types; no
\* processor is asked for more than a read in each round.
THEOREM TypeCorrect == Spec => []TypeOK
<1>1. Inv => TypeOK
  <2> SUFFICES ASSUME Inv PROVE TypeOK
    OBVIOUS
  <2>1. received \in [Nodes -> 0..2]
    BY Bounded DEF Inv, Types
  <2>2. \A n \in pending : step \in DOMAIN Order[n]
    BY OrderIs DEF Inv, Types
  <2> QED
    BY <2>1, <2>2 DEF Inv, Types, TypeOK, Calls, Rows
<1> QED
  BY <1>1, InvAlways, PTL

\* No processor carries out an action a second time, whatever is lost on the way
\* and however late the gateway is.
THEOREM NoneTwice == Spec => []NeverTwice
<1>1. Inv => NeverTwice
  BY Bounded DEF NeverTwice
<1> QED
  BY <1>1, InvAlways, PTL

\* A request is sent only after every machine of the batches before was switched
\* on and said so, and not to a processor that showed another certificate.
THEOREM SentWhereFree == Spec => SentOnlyWhereFree
<1>1. Inv => BreakerHolds /\ PinIsFinal
  <2> SUFFICES ASSUME Inv, NEW n \in Nodes, call[n] = "queued"
               PROVE  /\ row[n].how # "pin"
                      /\ action = "on" => \A i \in 1 .. batch - 1 : \A m \in Batches[i] :
                                            row[m].how = "ok" /\ received[m] = 1
    BY DEF BreakerHolds, PinIsFinal
  <2>1. row[n].how # "pin"
    BY DEF Inv, RowInv
  <2>2. n \in pending
    BY DEF Inv, PlaceInv
  <2>3. pc # "done"
    BY <2>2 DEF Inv, PlaceInv
  <2>4. ASSUME action = "on", NEW i \in 1 .. batch - 1, NEW m \in Batches[i]
        PROVE  row[m].how = "ok" /\ received[m] = 1
    <3>1. /\ DOMAIN Batches = 1 .. Len(Chunks) /\ Len(Chunks) \in Nat /\ Chunks = Batches
          /\ batch \in 0 .. Len(Chunks)
      BY <2>4, ChunksAre DEF Inv, Types
    <3>2. i \in 1 .. Len(Chunks) /\ i < batch
      BY <3>1
    <3>3. m \in Nodes
      BY <3>1, <3>2, ChunksAre DEF Inv, Types
    <3>4. row[m].how = "ok"
      BY <2>3, <2>4, <3>1, <3>2 DEF Inv, BatchInv
    <3>5. received[m] >= 1
      BY <3>3, <3>4 DEF Inv, KnownInv
    <3>6. received[m] \in 0..2 /\ received[m] <= 1
      BY <2>4, <3>3, Bounded
    <3>7. received[m] = 1
      BY <3>5, <3>6
    <3> QED
      BY <3>4, <3>7
  <2> QED
    BY <2>1, <2>4
<1> QED
  BY <1>1, InvAlways, PTL DEF SentOnlyWhereFree

\* The worst of some codes is one of them, or none.
LEMMA WorstIs ==
  ASSUME NEW codes \in SUBSET {0, 1, 2, 3, 130}
  PROVE  Worst(codes) \in codes \cup {0}
<1> DEFINE Highest(c) == \A d \in codes : Precedence(d) <= Precedence(c)
<1>1. /\ Precedence(0) = 0 /\ Precedence(1) = 1 /\ Precedence(2) = 2
      /\ Precedence(3) = 3 /\ Precedence(130) = 4
  BY DEF Precedence
<1>2. \E c \in codes \cup {0} : Highest(c)
  <2>1. CASE 130 \in codes
    BY <1>1, <2>1
  <2>2. CASE 130 \notin codes /\ 3 \in codes
    BY <1>1, <2>2
  <2>3. CASE {3, 130} \cap codes = {} /\ 2 \in codes
    BY <1>1, <2>3
  <2>4. CASE {2, 3, 130} \cap codes = {} /\ 1 \in codes
    BY <1>1, <2>4
  <2>5. CASE codes \subseteq {0}
    BY <1>1, <2>5
  <2> QED
    BY <2>1, <2>2, <2>3, <2>4, <2>5
<1> QED
  BY <1>2 DEF Worst

\* The exit code of an interrupt comes of what the interrupt left out or ended.
LEMMA ExitOfInterrupt ==
  ASSUME NEW T, BmcExit(T) = 130
  PROVE  \E n \in T : row[n].how \in {"interrupted", "not sent"}
<1> DEFINE worst == Worst(Codes(T))
<1>1. BmcExit(T) = IF \A n \in T : row[n].how = "ok" THEN 0
                   ELSE IF \E n \in T : row[n].how = "not sent" THEN 130
                   ELSE IF worst = 0 THEN 1 ELSE worst
  BY CodeIs
<1>2. worst \in Codes(T) \cup {0}
  <2>1. Codes(T) \in SUBSET {0, 1, 2, 3, 130}
    BY FromIs DEF Codes
  <2> QED
    BY <2>1, WorstIs
<1>3. worst = 130 => \E n \in T : From(row[n].how) = 130
  <2>1. 130 # 0
    OBVIOUS
  <2> QED
    BY <1>2, <2>1 DEF Codes
<1> HIDE DEF worst
<1>4. 130 # 0 /\ 1 # 130
  OBVIOUS
<1>5. (\E n \in T : row[n].how = "not sent") \/ worst = 130
  BY <1>1, <1>4
<1> QED
  BY <1>3, <1>5, FromIs

\* The table says an action was accepted of a machine that carried it out once,
\* and not sent of one that is not touched; a read was tried over every transport;
\* the display says the same; and the exit code promises no more than was done.
THEOREM ReportHolds == Spec => []ReportIsTrue
<1> SUFFICES ASSUME Inv, pc = "done" PROVE ReportIsTrue
  <2>1. Inv => (pc # "done" => ReportIsTrue)
    BY DEF ReportIsTrue, RowsAreTrue, ReadsTryAll, SpanIsRow, ExitIsHonest
  <2>2. (Inv /\ pc = "done" => ReportIsTrue) => (Inv => ReportIsTrue)
    BY <2>1
  <2> QED
    BY <2>2, InvAlways, PTL
<1>1. pending = {} /\ next = {}
  BY DEF Inv, PlaceInv
<1>2. \A n \in Nodes \ Later : Settled(n)
  BY <1>1 DEF Settled
<1>3. RowsAreTrue
  <2> SUFFICES ASSUME action # "status", NEW n \in Nodes
               PROVE  /\ row[n].how = "ok" => received[n] = 1
                      /\ row[n].how \in Untouched => received[n] = 0 /\ n \notin gateway \cup wire
    BY DEF RowsAreTrue, Untouched
  <2>1. received[n] \in 0..2 /\ received[n] <= 1
    BY Bounded
  <2>2. row[n].how = "ok" => received[n] >= 1
    BY DEF Inv, KnownInv
  <2>3. received[n] >= 1 => received[n] = 1
    BY <2>1
  <2>4. row[n].how \in Untouched => Load(n) = 0
    BY <1>1 DEF Inv, KnownInv
  <2>5. Load(n) = 0 => received[n] = 0 /\ n \notin gateway \cup wire
    BY <2>1, LoadIs DEF Inv
  <2> QED
    BY <2>2, <2>3, <2>4, <2>5
<1>4. ReadsTryAll
  <2> SUFFICES ASSUME action = "status", ~cancelled, NEW n \in Nodes,
                      row[n].how \notin {"ok", "pin", "usage"}
               PROVE  row[n].via = Order[n][Len(Order[n])]
    BY DEF ReadsTryAll
  <2>1. batch = 1 /\ Len(Chunks) = 1
    BY ChunksAre DEF Inv, PlaceInv, Types
  <2>2. Settled(n)
    BY <1>2, <2>1, LaterIs DEF Inv
  <2> QED
    BY <2>2 DEF Inv, RowInv
<1>5. SpanIsRow
  BY <1>2 DEF SpanIsRow, Inv, RowInv
<1>6. ExitIsHonest
  <2>1. BmcExit(Nodes) = 0 => \A n \in Nodes : received[n] >= 1
    BY ExitIs DEF Inv, KnownInv
  <2>2. BmcExit(Nodes) = 130 => cancelled
    BY ExitOfInterrupt DEF Inv, KnownInv
  <2>3. BmcExit(Nodes) # 130 => \A n \in Nodes : row[n].how # "not sent"
    BY ExitIs
  <2> QED
    BY <2>1, <2>2, <2>3 DEF ExitIsHonest
<1> QED
  BY <1>3, <1>4, <1>5, <1>6 DEF ReportIsTrue
=============================================================================
