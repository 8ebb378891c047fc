------------------------- MODULE CommandsPushProofs -------------------------
(***************************************************************************)
(* Proofs about what Commands brings to many nodes: the push of the        *)
(* provision secrets, the runs of cinc, and what exec and copy do; and     *)
(* about how it comes to them: by what settings ssh checks a host key,     *)
(* over which hosts it jumps, and which machine a name is of.              *)
(*                                                                         *)
(* Every section proves that the invariant of its component holds when its *)
(* scene begins and is kept by every step, and from it what the component  *)
(* promises; a theorem takes together the components of its property.  The *)
(* components are those of Commands, whose registers stand for their       *)
(* variables: the heading of a section says which.                         *)
(***************************************************************************)
EXTENDS Commands, Integers, FiniteSetTheorems, SequenceTheorems, WellFoundedInduction, TLAPS

(***************************************************************************)
(* A run of cinc.  What was read of a node was named for it or was in its  *)
(* file (NamedInv), and the client runs with what was read (RunInv),       *)
(* whoever writes the file meanwhile.                                      *)
(*                                                                         *)
(* The registers: v1 file, v2 writing, v3 at, v4 read, v5 result, v6 ran,  *)
(* v7 named, v8 writes, v9 losses.                                         *)
(***************************************************************************)
\* No archive is a file that is not there, or not yet read.
LEMMA CincArchives == Cinc!Nothing \notin Cinc!Contents
BY CommandsConstants DEF CommandsConstants, Cinc!CincConstants, Cinc!Contents, Cinc!NoFile, Cinc!Nothing

\* The invariant holds before anything is read.
LEMMA CincBegins == Cinc!Init => Cinc!Inv
<1>1. Cinc!Init => Cinc!TypeOK /\ Cinc!Values
  BY DEF Cinc!Init, Cinc!TypeOK, Cinc!Values, Cinc!Contents, Cinc!Results
<1>2. Cinc!Init => Cinc!NamedInv /\ Cinc!RunInv
  BY DEF Cinc!Init, Cinc!NamedInv, Cinc!RunInv, Cinc!Nothing
<1> QED
  BY <1>1, <1>2 DEF Cinc!Inv

\* Files are written, by the command or by hand.
LEMMA CincWrites ==
  ASSUME Cinc!Inv, NEW n \in OfCinc.Nodes,
         \/ \E v \in OfCinc.Archives \cup OfCinc.Others : Cinc!Config(n, v)
         \/ \E v \in OfCinc.Others : Cinc!ByHand(n, v)
         \/ Cinc!ConfigLost(n) \/ Cinc!Move(n)
  PROVE  Cinc!Inv'
<1>0. Cinc!TypeOK /\ Cinc!Values /\ Cinc!NamedInv /\ Cinc!RunInv
  BY DEF Cinc!Inv
<1>1. v3' = v3 /\ v4' = v4 /\ v5' = v5 /\ v6' = v6
  BY DEF Cinc!Config, Cinc!ByHand, Cinc!ConfigLost, Cinc!Move, Cinc!run
<1>2. v2' \in [OfCinc.Nodes -> OfCinc.Archives \cup {Cinc!Nothing}]
  BY <1>0 DEF Cinc!Config, Cinc!ByHand, Cinc!ConfigLost, Cinc!Move, Cinc!Values, Cinc!checkCincURL
<1>3. v1' \in [OfCinc.Nodes -> Cinc!Contents] /\ v7' \in [OfCinc.Nodes -> SUBSET Cinc!Contents]
  BY <1>0 DEF Cinc!Config, Cinc!ByHand, Cinc!ConfigLost, Cinc!Move, Cinc!Values, Cinc!TypeOK,
     Cinc!Contents, Cinc!run
<1>4. \A m \in OfCinc.Nodes : v7[m] \subseteq v7'[m] /\ (v3 = "read" => v1'[m] \in v7'[m])
  BY <1>0 DEF Cinc!Config, Cinc!ByHand, Cinc!ConfigLost, Cinc!Move, Cinc!Values, Cinc!NamedInv,
     Cinc!TypeOK, Cinc!run
<1>5. Cinc!TypeOK' /\ Cinc!Values'
  BY <1>0, <1>1, <1>2, <1>3 DEF Cinc!TypeOK, Cinc!Values, Cinc!Contents
<1>6. Cinc!NamedInv'
  BY <1>0, <1>1, <1>4 DEF Cinc!NamedInv
<1>7. Cinc!RunInv'
  BY <1>0, <1>1 DEF Cinc!RunInv
<1> QED
  BY <1>5, <1>6, <1>7 DEF Cinc!Inv

\* A file is read, or cannot be.
LEMMA CincReads ==
  ASSUME Cinc!Inv, NEW n \in OfCinc.Nodes, Cinc!Read(n) \/ Cinc!NotRead(n)
  PROVE  Cinc!Inv'
<1>0. Cinc!TypeOK /\ Cinc!Values /\ Cinc!NamedInv /\ Cinc!RunInv /\ v3 = "read"
      /\ v5[n] = Cinc!Nothing
  BY DEF Cinc!Inv, Cinc!Read, Cinc!NotRead
<1>1. v3' = v3 /\ v1' = v1 /\ v2' = v2 /\ v6' = v6 /\ v7' = v7
  BY DEF Cinc!Read, Cinc!NotRead
<1>2. \/ v4' = [v4 EXCEPT ![n] = v1[n]] /\ v5' = v5
      \/ v4' = v4 /\ v5' = [v5 EXCEPT ![n] = "unreached"]
  BY DEF Cinc!Read, Cinc!NotRead
<1>3. Cinc!TypeOK' /\ Cinc!Values'
  BY <1>0, <1>1, <1>2 DEF Cinc!TypeOK, Cinc!Values, Cinc!Results, Cinc!Contents
<1>4. Cinc!NamedInv'
  BY <1>0, <1>1, <1>2 DEF Cinc!NamedInv, Cinc!Values
<1>5. v6[n] = {}
  BY <1>0 DEF Cinc!RunInv
<1>6. Cinc!RunInv'
  BY <1>0, <1>1, <1>2, <1>5 DEF Cinc!RunInv, Cinc!Values, Cinc!TypeOK, Cinc!Results, Cinc!Nothing
<1> QED
  BY <1>3, <1>4, <1>6 DEF Cinc!Inv

\* The nodes are told apart, or the command ends.
LEMMA CincDecides ==
  ASSUME Cinc!Inv, Cinc!Decide \/ Cinc!RunOver
  PROVE  Cinc!Inv'
<1>0. Cinc!TypeOK /\ Cinc!Values /\ Cinc!NamedInv /\ Cinc!RunInv
  BY DEF Cinc!Inv
<1>1. /\ v1' = v1 /\ v2' = v2 /\ v4' = v4 /\ v6' = v6 /\ v7' = v7
      /\ v3' \in {"run", "done"}
  BY DEF Cinc!Decide, Cinc!RunOver
<1>2. CASE Cinc!Decide
  <2>1. /\ v3 = "read" /\ v3' = "run" /\ v5' \in [OfCinc.Nodes -> Cinc!Results]
    BY <1>0, <1>2 DEF Cinc!Decide, Cinc!TypeOK, Cinc!Results
  <2>2. \A m \in OfCinc.Nodes : \/ v5'[m] = v5[m] /\ v5[m] # Cinc!Nothing
                                \/ v5'[m] = Cinc!Nothing /\ v5[m] = Cinc!Nothing
                                   /\ v4[m] \in OfCinc.Archives
                                \/ v5'[m] = "refused" /\ v5[m] = Cinc!Nothing
    BY <1>2 DEF Cinc!Decide, Cinc!Ready, Cinc!Usable, Cinc!checkCincURL
  <2>3. Cinc!RunInv'
    BY <1>0, <1>1, <2>1, <2>2 DEF Cinc!RunInv, Cinc!Nothing
  <2> QED
    BY <1>0, <1>1, <2>1, <2>3 DEF Cinc!Inv, Cinc!TypeOK, Cinc!Values, Cinc!NamedInv
<1>3. CASE Cinc!RunOver
  <2>1. v3' = "done" /\ v5' = v5 /\ v3 = "run" /\ \A m \in OfCinc.Nodes : v5[m] # Cinc!Nothing
    BY <1>3 DEF Cinc!RunOver
  <2> QED
    BY <1>0, <1>1, <2>1 DEF Cinc!Inv, Cinc!TypeOK, Cinc!Values, Cinc!NamedInv, Cinc!RunInv
<1> QED
  BY <1>2, <1>3

\* The client runs on a node.
LEMMA CincRuns ==
  ASSUME Cinc!Inv, NEW n \in OfCinc.Nodes, Cinc!Run(n)
  PROVE  Cinc!Inv'
<1>0. Cinc!TypeOK /\ Cinc!Values /\ Cinc!NamedInv /\ Cinc!RunInv /\ v3 = "run"
      /\ v5[n] = Cinc!Nothing
  BY DEF Cinc!Inv, Cinc!Run
<1>1. /\ v1' = v1 /\ v2' = v2 /\ v3' = v3 /\ v4' = v4 /\ v7' = v7
      /\ v4[n] \in OfCinc.Archives /\ v6[n] = {}
  BY <1>0 DEF Cinc!Run, Cinc!RunInv
<1>2. PICK r \in {"ok", "failed", "unreached"} : v5' = [v5 EXCEPT ![n] = r]
                                                 /\ (r # "unreached" => v6'[n] = {v4[n]})
  BY <1>0, <1>1 DEF Cinc!Run, Cinc!Values
<1>3. v6' = v6 \/ v6' = [v6 EXCEPT ![n] = {v4[n]}]
  BY <1>0, <1>1 DEF Cinc!Run, Cinc!Values
<1>4. v5' \in [OfCinc.Nodes -> Cinc!Results] /\ v6' \in [OfCinc.Nodes -> SUBSET OfCinc.Archives]
  BY <1>0, <1>1, <1>2, <1>3 DEF Cinc!TypeOK, Cinc!Values, Cinc!Results
<1>5. v6'[n] \subseteq {v4[n]} /\ \A m \in OfCinc.Nodes : m # n => v6'[m] = v6[m]
  BY <1>0, <1>1, <1>3 DEF Cinc!Values
<1>6. v5'[n] = r /\ \A m \in OfCinc.Nodes : m # n => v5'[m] = v5[m]
  BY <1>0, <1>2 DEF Cinc!TypeOK
<1>7. Cinc!RunInv'
  <2> SUFFICES ASSUME NEW m \in OfCinc.Nodes
               PROVE  /\ v3 = "run" /\ v5'[m] = Cinc!Nothing => v4[m] \in OfCinc.Archives
                      /\ v5'[m] = Cinc!Nothing => v6'[m] = {}
                      /\ v6'[m] \subseteq {v4[m]}
                      /\ v5'[m] \in {"ok", "failed"} => v6'[m] # {}
    BY <1>0, <1>1 DEF Cinc!RunInv
  <2>1. CASE m = n
    BY <1>2, <1>5, <1>6, <2>1 DEF Cinc!Nothing
  <2>2. CASE m # n
    BY <1>0, <1>5, <1>6, <2>2 DEF Cinc!RunInv
  <2> QED
    BY <2>1, <2>2
<1>8. Cinc!TypeOK'
  BY <1>0, <1>1, <1>4, <1>7 DEF Cinc!TypeOK, Cinc!RunInv
<1>9. Cinc!Values' /\ Cinc!NamedInv'
  BY <1>0, <1>1, <1>4 DEF Cinc!Values, Cinc!NamedInv
<1> QED
  BY <1>7, <1>8, <1>9 DEF Cinc!Inv

\* Every step keeps the invariant.
LEMMA CincStep ==
  ASSUME Cinc!Inv, [Cinc!Next]_(Cinc!vars)
  PROVE  Cinc!Inv'
<1>1. CASE UNCHANGED Cinc!vars
  BY <1>1 DEF Cinc!vars, Cinc!Inv, Cinc!TypeOK, Cinc!Values, Cinc!NamedInv, Cinc!RunInv
<1>2. CASE Cinc!Next
  BY <1>2, CincWrites, CincReads, CincDecides, CincRuns DEF Cinc!Next
<1> QED
  BY <1>1, <1>2

\* What the invariant promises.
LEMMA CincKeeps ==
  ASSUME Cinc!Inv
  PROVE  Cinc!RunIsAsRead
<1>0. Cinc!Values /\ Cinc!NamedInv /\ Cinc!RunInv /\ Cinc!TypeOK
  BY DEF Cinc!Inv
<1>1. ASSUME NEW n \in OfCinc.Nodes PROVE v6[n] \subseteq v7[n] \cap OfCinc.Archives
  BY <1>0, CincArchives DEF Cinc!Values, Cinc!NamedInv, Cinc!RunInv, Cinc!Contents
<1>2. ASSUME v3 = "done", Cinc!exit = 0, NEW n \in OfCinc.Nodes PROVE v6[n] # {}
  <2>1. v5[n] = "ok"
    BY <1>2 DEF Cinc!exit
  <2> QED
    BY <1>0, <2>1 DEF Cinc!RunInv
<1> QED
  BY <1>1, <1>2 DEF Cinc!RunIsAsRead

\* A step of the whole is one of the component, or of another scene.
LEMMA CincScene ==
  ASSUME [Next]_vars
  PROVE  /\ scene' = scene
         /\ scene = "cinc" => [Cinc!Next]_(Cinc!vars)
BY DEF Next, vars, Cinc!vars

\* The invariant of the component is one of the whole.
LEMMA CincAlways == Spec => [](scene = "cinc" => Cinc!Inv)
<1>1. Init => (scene = "cinc" => Cinc!Inv)
  BY CincBegins DEF Init, Begin
<1>2. (scene = "cinc" => Cinc!Inv) /\ [Next]_vars => (scene = "cinc" => Cinc!Inv)'
  BY CincScene, CincStep
<1> QED
  BY <1>1, <1>2, PTL DEF Spec

(***************************************************************************)
(* A push of the secrets.  The script of a node writes one file after      *)
(* another, each whole or not at all; what it said is what it did (Inv),   *)
(* and a row is filled from what was heard of it.  So a row that says      *)
(* written is about a file that is there.                                  *)
(*                                                                         *)
(* The registers: v1 worker, v2 script, v3 session, v4 at, v5 arrives, v6  *)
(* said, v7 heard, v8 target, v9 row, v10 interrupted, v11 losses.         *)
(***************************************************************************)
\* What is assumed of the constants.
LEMMA PushLimits == OfPush.N \in Nat \ {0} /\ OfPush.Limit \in Nat \ {0}
BY CommandsConstants DEF CommandsConstants, Push!PushConstants

\* The sets of Push that are finite, and how many elements they have.
LEMMA PushSizes ==
  \A S : (Push!IsFiniteSet(S) <=> IsFiniteSet(S)) /\ Push!Cardinality(S) = Cardinality(S)
BY DEF Push!IsFiniteSet, Push!Cardinality, IsFiniteSet, Cardinality

\* A finite set with one more, and with one less.
LEMMA PushFinite ==
  /\ Push!IsFiniteSet({}) /\ Push!Cardinality({}) = 0
  /\ \A S, x : Push!IsFiniteSet(S) =>
       /\ Push!Cardinality(S) \in Nat
       /\ Push!IsFiniteSet(S \cup {x}) /\ Push!Cardinality(S \cup {x}) <= Push!Cardinality(S) + 1
       /\ Push!IsFiniteSet(S \ {x}) /\ Push!Cardinality(S \ {x}) <= Push!Cardinality(S)
<1>1. Push!IsFiniteSet({}) /\ Push!Cardinality({}) = 0
  BY FS_EmptySet, PushSizes
<1>2. ASSUME NEW S, NEW x, Push!IsFiniteSet(S)
      PROVE  /\ Push!Cardinality(S) \in Nat
             /\ Push!IsFiniteSet(S \cup {x})
             /\ Push!Cardinality(S \cup {x}) <= Push!Cardinality(S) + 1
             /\ Push!IsFiniteSet(S \ {x}) /\ Push!Cardinality(S \ {x}) <= Push!Cardinality(S)
  <2>1. Push!Cardinality(S) \in Nat
    BY <1>2, FS_CardinalityType, PushSizes
  <2>2. Push!IsFiniteSet(S \cup {x}) /\ Push!Cardinality(S \cup {x}) <= Push!Cardinality(S) + 1
    BY <1>2, <2>1, FS_AddElement, PushSizes
  <2>3. Push!IsFiniteSet(S \ {x}) /\ Push!Cardinality(S \ {x}) <= Push!Cardinality(S)
    BY <1>2, <2>1, FS_RemoveElement, PushSizes
  <2> QED
    BY <2>1, <2>2, <2>3
<1> QED
  BY <1>1, <1>2

\* The invariant holds when the question is answered.
LEMMA PushBegins == Push!Init => Push!Inv
<1> SUFFICES ASSUME Push!Init PROVE Push!Inv
  OBVIOUS
<1>1. Push!Running = {}
  BY DEF Push!Init, Push!Running
<1>2. v4 = [n \in OfPush.Nodes |-> 1] /\ v7 = [n \in OfPush.Nodes |-> 0]
      /\ v5 = [n \in OfPush.Nodes |-> OfPush.N]
  BY DEF Push!Init
<1>3. v6 = [n \in OfPush.Nodes |-> <<>>]
  BY DEF Push!Init
<1>4. v8 = [n \in OfPush.Nodes |-> [f \in Push!Files |-> "old"]]
  BY DEF Push!Init
<1>5. v9 = [n \in OfPush.Nodes |-> [f \in Push!Files |-> ""]]
      /\ v1 = [n \in OfPush.Nodes |-> "queued"]
  BY DEF Push!Init
<1>7. Push!TypeOK
  <2>1. Push!Cardinality(Push!Running) <= OfPush.Limit
    BY <1>1, PushLimits, PushFinite
  <2>2. \A n \in OfPush.Nodes : Len(v6[n]) = 0
    BY <1>3
  <2>3. \A n \in OfPush.Nodes : v7[n] <= Len(v6[n]) /\ Len(v6[n]) = v4[n] - 1
    BY <1>2, <2>2
  <2>4. /\ v1 \in [OfPush.Nodes -> {"queued", "open", "over"}]
        /\ v2 \in [OfPush.Nodes -> {"none", "running", "over"}]
        /\ v3 \in [OfPush.Nodes -> {"none", "up", "lost"}]
    BY DEF Push!Init
  <2> QED
    BY <2>1, <2>3, <2>4 DEF Push!TypeOK
<1>8. Push!Values
  <2>1. Push!IsFiniteSet(Push!Running)
    BY <1>1, PushFinite
  <2>2. v4 \in [OfPush.Nodes -> 1..(OfPush.N + 1)] /\ v5 \in [OfPush.Nodes -> 0..OfPush.N]
        /\ v7 \in [OfPush.Nodes -> Nat]
    BY <1>2, PushLimits
  <2>3. v6 \in [OfPush.Nodes -> Seq({"ok", "fail"})]
    BY <1>3
  <2>4. v8 \in [OfPush.Nodes -> [Push!Files -> {"old", "new"}]] /\ DOMAIN v9 = OfPush.Nodes
    BY <1>4, <1>5
  <2> QED
    BY <2>1, <2>2, <2>3, <2>4 DEF Push!Values
<1>9. Push!SaidInv
  BY <1>2, PushLimits DEF Push!SaidInv, Push!Files
<1>6. Push!RowInv
  BY <1>5 DEF Push!RowInv
<1> QED
  BY <1>6, <1>7, <1>8, <1>9 DEF Push!Inv

\* A line the script adds leaves what was heard before as it was.
LEMMA PushRows ==
  ASSUME Push!Inv, v9' = v9, v1' = v1, v7' = v7,
         \A n \in OfPush.Nodes : \A f \in Push!Files : f <= v7[n] => v6'[n][f] = v6[n][f]
  PROVE  Push!RowInv'
<1>1. Push!RowInv
  BY DEF Push!Inv
<1> SUFFICES ASSUME NEW n \in OfPush.Nodes, v1[n] = "over"
             PROVE  \E why \in {"refused", "unreached", "interrupted"} : v9[n] = Push!Rows(n, why)'
  BY <1>1 DEF Push!RowInv
<1>2. PICK why \in {"refused", "unreached", "interrupted"} : v9[n] = Push!Rows(n, why)
  BY <1>1 DEF Push!RowInv
<1>3. \A f \in Push!Files : f <= v7[n] => Push!Verdict(n, f)' = Push!Verdict(n, f)
  BY DEF Push!Verdict
<1>4. Push!Rows(n, why)' = Push!Rows(n, why)
  BY <1>3 DEF Push!Rows
<1> QED
  BY <1>2, <1>4

\* A file is put into its place, or refused.
LEMMA PushPut ==
  ASSUME Push!Inv, NEW n \in OfPush.Nodes, Push!Put(n)
  PROVE  Push!Inv'
<1>0. Push!TypeOK /\ Push!Values /\ Push!SaidInv /\ Push!RowInv
  BY DEF Push!Inv
<1> DEFINE f == v4[n]
<1>1. /\ v1' = v1 /\ v2' = v2 /\ v3' = v3 /\ v5' = v5
      /\ v7' = v7 /\ v9' = v9 /\ v4' = [v4 EXCEPT ![n] = @ + 1]
      /\ f <= OfPush.N /\ v2[n] = "running"
  BY DEF Push!Put
<1>2. f \in Push!Files /\ f \in Nat /\ Len(v6[n]) = f - 1 /\ OfPush.N \in Nat
  BY <1>0, <1>1, PushLimits DEF Push!Values, Push!TypeOK, Push!Files
<1>3. PICK ok \in BOOLEAN :
        /\ ok => Push!Arrived(n, f)
        /\ v8' = IF ok THEN [v8 EXCEPT ![n][f] = IF f <= v5[n] THEN "new" ELSE "part"]
                 ELSE v8
        /\ v6' = [v6 EXCEPT ![n] = Append(@, IF ok THEN "ok" ELSE "fail")]
  BY DEF Push!Put
<1>4. \/ /\ v6'[n] = Append(v6[n], "ok")
         /\ v8' = [v8 EXCEPT ![n][f] = "new"]
      \/ v6'[n] = Append(v6[n], "fail") /\ v8' = v8
  BY <1>0, <1>3 DEF Push!Values, Push!Arrived
<1>5. \A m \in OfPush.Nodes : m # n => v6'[m] = v6[m]
  BY <1>0, <1>3 DEF Push!Values
<1>6. /\ v6'[n] \in Seq({"ok", "fail"}) /\ Len(v6'[n]) = f
      /\ \A g \in Push!Files : g < f => v6'[n][g] = v6[n][g]
  <2>1. v6[n] \in Seq({"ok", "fail"})
    BY <1>0 DEF Push!Values
  <2>2. ASSUME NEW v \in {"ok", "fail"}, v6'[n] = Append(v6[n], v)
        PROVE  /\ v6'[n] \in Seq({"ok", "fail"}) /\ Len(v6'[n]) = f
               /\ \A g \in Push!Files : g < f => v6'[n][g] = v6[n][g]
    BY <1>2, <2>1, <2>2 DEF Push!Files
  <2> QED
    BY <1>4, <2>2
<1>7. v6' \in [OfPush.Nodes -> Seq({"ok", "fail"})]
  <2>1. v6 \in [OfPush.Nodes -> Seq({"ok", "fail"})]
    BY <1>0 DEF Push!Values
  <2> HIDE DEF f
  <2> QED
    BY <1>3, <1>6, <2>1
<1>8. v4'[n] = f + 1 /\ v4' \in [OfPush.Nodes -> 1..(OfPush.N + 1)]
      /\ \A m \in OfPush.Nodes : m # n => v4'[m] = v4[m]
  BY <1>0, <1>1, <1>2 DEF Push!Values
<1>9. /\ v8' \in [OfPush.Nodes -> [Push!Files -> {"old", "new"}]]
      /\ \A m \in OfPush.Nodes : \A g \in Push!Files : v8[m][g] = "new" => v8'[m][g] = "new"
      /\ v6'[n] = Append(v6[n], "ok") => v8'[n][f] = "new"
  <2>1. v8 \in [OfPush.Nodes -> [Push!Files -> {"old", "new"}]]
    BY <1>0 DEF Push!Values
  <2>2. CASE v8' = [v8 EXCEPT ![n][f] = "new"]
    BY <1>2, <2>1, <2>2
  <2>3. CASE v6'[n] = Append(v6[n], "fail") /\ v8' = v8
    <3>1. v6[n] \in Seq({"ok", "fail"})
      BY <1>0 DEF Push!Values
    <3>2. Append(v6[n], "fail") # Append(v6[n], "ok")
      BY <3>1
    <3> QED
      BY <2>1, <2>3, <3>2
  <2> QED
    BY <1>4, <2>2, <2>3
<1>10. Push!TypeOK'
  <2>1. Push!Running' = Push!Running
    BY <1>1 DEF Push!Running
  <2>2. \A m \in OfPush.Nodes : v7[m] <= Len(v6'[m]) /\ Len(v6'[m]) = v4'[m] - 1
    <3> SUFFICES ASSUME NEW m \in OfPush.Nodes
                 PROVE  v7[m] <= Len(v6'[m]) /\ Len(v6'[m]) = v4'[m] - 1
      OBVIOUS
    <3>1. v7[n] <= f - 1 /\ v7[n] \in Nat
      BY <1>0, <1>2 DEF Push!TypeOK, Push!Values
    <3>2. CASE m = n
      BY <1>2, <1>6, <1>8, <3>1, <3>2
    <3>3. CASE m # n
      BY <1>0, <1>5, <1>8, <3>3 DEF Push!TypeOK
    <3> QED
      BY <3>2, <3>3
  <2> QED
    BY <1>0, <1>1, <2>1, <2>2 DEF Push!TypeOK
<1>11. Push!Values'
  <2>1. Push!Running' = Push!Running
    BY <1>1 DEF Push!Running
  <2> QED
    BY <1>0, <1>1, <1>7, <1>8, <1>9, <2>1 DEF Push!Values
<1>12. Push!SaidInv'
  <2> SUFFICES ASSUME NEW m \in OfPush.Nodes, NEW g \in Push!Files, g < v4'[m], v6'[m][g] = "ok"
               PROVE  v8'[m][g] = "new"
    BY DEF Push!SaidInv
  <2>1. CASE m # n
    BY <1>0, <1>5, <1>8, <1>9, <2>1 DEF Push!SaidInv
  <2>2. CASE m = n /\ g < f
    BY <1>0, <1>6, <1>9, <2>2 DEF Push!SaidInv
  <2>3. CASE m = n /\ g = f
    <3>1. v6[n] \in Seq({"ok", "fail"})
      BY <1>0 DEF Push!Values
    <3>2. Append(v6[n], "fail")[f] = "fail"
      BY <1>2, <3>1
    <3> QED
      BY <1>4, <1>9, <2>3, <3>2
  <2>4. g < f \/ g = f \/ m # n
    BY <1>2, <1>8 DEF Push!Files
  <2> QED
    BY <2>1, <2>2, <2>3, <2>4
<1>13. Push!RowInv'
  <2>1. ASSUME NEW m \in OfPush.Nodes, NEW g \in Push!Files, g <= v7[m] PROVE v6'[m][g] = v6[m][g]
    <3>1. v7[n] < f /\ v7[n] \in Nat
      BY <1>0, <1>2 DEF Push!TypeOK, Push!Values
    <3>2. m = n => g < f
      BY <1>2, <2>1, <3>1 DEF Push!Files
    <3> QED
      BY <1>5, <1>6, <3>2
  <2> QED
    BY <1>1, <2>1, PushRows
<1> QED
  BY <1>10, <1>11, <1>12, <1>13 DEF Push!Inv

\* The script ends or is killed, or the connection is lost.
LEMMA PushEnds ==
  ASSUME Push!Inv, NEW n \in OfPush.Nodes,
         Push!ScriptEnds(n) \/ Push!ScriptDies(n) \/ Push!SessionLost(n)
  PROVE  Push!Inv'
<1>0. Push!TypeOK /\ Push!Values /\ Push!SaidInv /\ Push!RowInv
  BY DEF Push!Inv
<1>1. /\ v1' = v1 /\ v4' = v4 /\ v6' = v6 /\ v7' = v7 /\ v9' = v9
  BY DEF Push!ScriptEnds, Push!ScriptDies, Push!SessionLost
<1>2. Push!Running' = Push!Running
  BY <1>1 DEF Push!Running
<1>3. /\ v2' \in [OfPush.Nodes -> {"none", "running", "over"}]
      /\ v3' \in [OfPush.Nodes -> {"none", "up", "lost"}]
  BY <1>0 DEF Push!ScriptEnds, Push!ScriptDies, Push!SessionLost, Push!TypeOK
<1>4. v5' \in [OfPush.Nodes -> 0..OfPush.N]
  <2>1. ASSUME NEW k \in (v4[n] - 1)..OfPush.N PROVE [v5 EXCEPT ![n] = k]
               \in [OfPush.Nodes -> 0..OfPush.N]
    <3>1. k \in 0..OfPush.N
      BY <1>0, PushLimits DEF Push!Values
    <3> QED
      BY <1>0, <3>1 DEF Push!Values
  <2> QED
    BY <1>0, <2>1 DEF Push!ScriptEnds, Push!ScriptDies, Push!SessionLost, Push!Values
<1>5. \/ v8' = v8
      \/ v4[n] \in Push!Files /\ v8' = [v8 EXCEPT ![n][v4[n]] = "new"]
  BY <1>0, PushLimits DEF Push!ScriptEnds, Push!ScriptDies, Push!SessionLost, Push!Values,
     Push!Files
<1>6. /\ v8' \in [OfPush.Nodes -> [Push!Files -> {"old", "new"}]]
      /\ \A m \in OfPush.Nodes : \A g \in Push!Files : v8[m][g] = "new" => v8'[m][g] = "new"
  <2>1. v8 \in [OfPush.Nodes -> [Push!Files -> {"old", "new"}]]
    BY <1>0 DEF Push!Values
  <2>2. ASSUME NEW f \in Push!Files, v8' = [v8 EXCEPT ![n][f] = "new"]
        PROVE  /\ v8' \in [OfPush.Nodes -> [Push!Files -> {"old", "new"}]]
               /\ \A m \in OfPush.Nodes : \A g \in Push!Files : v8[m][g] = "new"
                  => v8'[m][g] = "new"
    BY <2>1, <2>2
  <2> QED
    BY <1>5, <2>1, <2>2
<1>7. Push!TypeOK' /\ Push!Values'
  BY <1>0, <1>1, <1>2, <1>3, <1>4, <1>6 DEF Push!TypeOK, Push!Values
<1>8. Push!SaidInv'
  BY <1>0, <1>1, <1>6 DEF Push!SaidInv
<1>9. Push!RowInv'
  BY <1>1, PushRows
<1> QED
  BY <1>7, <1>8, <1>9 DEF Push!Inv

\* A worker starts.
LEMMA PushStarts ==
  ASSUME Push!Inv, NEW n \in OfPush.Nodes, Push!Start(n)
  PROVE  Push!Inv'
<1>0. Push!TypeOK /\ Push!Values /\ Push!SaidInv /\ Push!RowInv
  BY DEF Push!Inv
<1>1. /\ v4' = v4 /\ v6' = v6 /\ v7' = v7 /\ v9' = v9 /\ v8' = v8
      /\ v5' = v5 /\ v1[n] = "queued"
      /\ v1' = [v1 EXCEPT ![n] = "open"] /\ Push!Cardinality(Push!Running) < OfPush.Limit
  BY DEF Push!Start
<1>2. Push!Running' = Push!Running \cup {n}
  BY <1>0, <1>1 DEF Push!Running, Push!TypeOK
<1>3. Push!IsFiniteSet(Push!Running') /\ Push!Cardinality(Push!Running') <= OfPush.Limit
  <2>1. Push!IsFiniteSet(Push!Running)
    BY <1>0 DEF Push!Values
  <2>2. Push!Cardinality(Push!Running) \in Nat
        /\ Push!Cardinality(Push!Running') <= Push!Cardinality(Push!Running) + 1
        /\ Push!Cardinality(Push!Running') \in Nat /\ Push!IsFiniteSet(Push!Running')
    BY <1>2, <2>1, PushFinite
  <2> QED
    BY <1>1, <2>2, PushLimits
<1>4. /\ v1' \in [OfPush.Nodes -> {"queued", "open", "over"}]
      /\ v2' \in [OfPush.Nodes -> {"none", "running", "over"}]
      /\ v3' \in [OfPush.Nodes -> {"none", "up", "lost"}]
  BY <1>0 DEF Push!Start, Push!TypeOK
<1>5. Push!TypeOK'
  BY <1>0, <1>1, <1>3, <1>4 DEF Push!TypeOK
<1>6. Push!Values' /\ Push!SaidInv'
  BY <1>0, <1>1, <1>3 DEF Push!Values, Push!SaidInv
<1>7. Push!RowInv'
  <2>1. \A m \in OfPush.Nodes : v1'[m] = "over" <=> v1[m] = "over"
    BY <1>0, <1>1 DEF Push!TypeOK
  <2>2. \A m, why : Push!Rows(m, why)' = Push!Rows(m, why)
    BY <1>1 DEF Push!Rows, Push!Verdict
  <2> QED
    BY <1>0, <1>1, <2>1, <2>2 DEF Push!RowInv
<1> QED
  BY <1>5, <1>6, <1>7 DEF Push!Inv

\* A line is heard, or the command interrupted.
LEMMA PushHears ==
  ASSUME Push!Inv, (\E n \in OfPush.Nodes : Push!Hear(n)) \/ Push!Interrupt
  PROVE  Push!Inv'
<1>0. Push!TypeOK /\ Push!Values /\ Push!SaidInv /\ Push!RowInv
  BY DEF Push!Inv
<1>1. /\ v1' = v1 /\ v2' = v2 /\ v3' = v3 /\ v4' = v4
      /\ v5' = v5 /\ v6' = v6 /\ v8' = v8 /\ v9' = v9
  BY DEF Push!Hear, Push!Interrupt, Push!node
<1>2. Push!Running' = Push!Running
  BY <1>1 DEF Push!Running
<1>3. /\ v7' \in [OfPush.Nodes -> Nat]
      /\ \A m \in OfPush.Nodes : v7'[m] <= Len(v6[m]) /\ (v1[m] = "over" => v7'[m] = v7[m])
  <2>1. CASE v7' = v7
    BY <1>0, <2>1 DEF Push!Values, Push!TypeOK
  <2>2. ASSUME NEW n \in OfPush.Nodes, v7' = [v7 EXCEPT ![n] = @ + 1], v1[n] = "open",
               v7[n] < Len(v6[n])
        PROVE  /\ v7' \in [OfPush.Nodes -> Nat]
               /\ \A m \in OfPush.Nodes : /\ v7'[m] <= Len(v6[m])
                                          /\ v1[m] = "over" => v7'[m] = v7[m]
    <3>1. \A m \in OfPush.Nodes : v6[m] \in Seq({"ok", "fail"})
      BY <1>0 DEF Push!Values
    <3>2. \A m \in OfPush.Nodes : Len(v6[m]) \in Nat
      BY <3>1
    <3> QED
      BY <1>0, <2>2, <3>2 DEF Push!Values, Push!TypeOK
  <2> QED
    BY <2>1, <2>2 DEF Push!Hear, Push!Interrupt
<1>4. Push!TypeOK' /\ Push!Values'
  BY <1>0, <1>1, <1>2, <1>3 DEF Push!TypeOK, Push!Values
<1>5. Push!SaidInv'
  BY <1>0, <1>1 DEF Push!SaidInv
<1>6. Push!RowInv'
  <2>1. \A m \in OfPush.Nodes : \A why : v1[m] = "over" => Push!Rows(m, why)' = Push!Rows(m, why)
    BY <1>1, <1>3 DEF Push!Rows, Push!Verdict
  <2> QED
    BY <1>0, <1>1, <2>1 DEF Push!RowInv
<1> QED
  BY <1>4, <1>5, <1>6 DEF Push!Inv

\* A worker is over.
LEMMA PushOver ==
  ASSUME Push!Inv, NEW n \in OfPush.Nodes, NEW why \in {"refused", "unreached", "interrupted"},
         Push!WorkerOver(n, why)
  PROVE  Push!Inv'
<1>0. Push!TypeOK /\ Push!Values /\ Push!SaidInv /\ Push!RowInv
  BY DEF Push!Inv
<1>1. /\ v4' = v4 /\ v6' = v6 /\ v7' = v7 /\ v8' = v8
      /\ v5' = v5 /\ v2' = v2 /\ v3' = v3
      /\ v1' = [v1 EXCEPT ![n] = "over"] /\ v9' = [v9 EXCEPT ![n] = Push!Rows(n, why)]
  BY DEF Push!WorkerOver, Push!node
<1>2. Push!Running' = Push!Running \ {n}
  BY <1>0, <1>1 DEF Push!Running, Push!TypeOK
<1>3. Push!IsFiniteSet(Push!Running') /\ Push!Cardinality(Push!Running') <= OfPush.Limit
  <2>1. Push!IsFiniteSet(Push!Running) /\ Push!Cardinality(Push!Running) <= OfPush.Limit
    BY <1>0 DEF Push!Values, Push!TypeOK
  <2>2. Push!Cardinality(Push!Running) \in Nat
        /\ Push!Cardinality(Push!Running') <= Push!Cardinality(Push!Running)
        /\ Push!IsFiniteSet(Push!Running') /\ Push!Cardinality(Push!Running') \in Nat
    BY <1>2, <2>1, PushFinite
  <2> QED
    BY <2>1, <2>2, PushLimits
<1>4. Push!TypeOK'
  BY <1>0, <1>1, <1>3 DEF Push!TypeOK
<1>5. Push!Values' /\ Push!SaidInv'
  BY <1>0, <1>1, <1>3 DEF Push!Values, Push!SaidInv
<1>6. Push!RowInv'
  <2>1. \A m, y : Push!Rows(m, y)' = Push!Rows(m, y)
    BY <1>1 DEF Push!Rows, Push!Verdict
  <2>2. /\ v1'[n] = "over" /\ v9'[n] = Push!Rows(n, why)
        /\ \A m \in OfPush.Nodes : m # n => v1'[m] = v1[m] /\ v9'[m] = v9[m]
    BY <1>0, <1>1 DEF Push!TypeOK, Push!Values
  <2> QED
    <3> SUFFICES ASSUME NEW m \in OfPush.Nodes
                 PROVE  IF v1'[m] = "over"
                        THEN \E y \in {"refused", "unreached", "interrupted"} : v9'[m]
                          = Push!Rows(m, y)'
                        ELSE \A f \in Push!Files : v9'[m][f] = ""
      BY DEF Push!RowInv
    <3>1. CASE m = n
      BY <2>1, <2>2, <3>1
    <3>2. CASE m # n
      <4>1. v1'[m] = v1[m] /\ v9'[m] = v9[m]
        BY <2>2, <3>2
      <4>2. CASE v1[m] = "over"
        <5>1. PICK y \in {"refused", "unreached", "interrupted"} : v9[m] = Push!Rows(m, y)
          BY <1>0, <4>2 DEF Push!RowInv
        <5> QED
          BY <2>1, <4>1, <4>2, <5>1
      <4>3. CASE v1[m] # "over"
        BY <1>0, <4>1, <4>3 DEF Push!RowInv
      <4> QED
        BY <4>2, <4>3
    <3> QED
      BY <3>1, <3>2
<1> QED
  BY <1>4, <1>5, <1>6 DEF Push!Inv

\* Every step keeps the invariant.
LEMMA PushStep ==
  ASSUME Push!Inv, [Push!Next]_(Push!vars)
  PROVE  Push!Inv'
<1>1. CASE UNCHANGED Push!vars
  <2>1. UNCHANGED <<v1, v2, v3, v4, v5, v6, v7, v8, v9>>
    BY <1>1 DEF Push!vars
  <2>2. Push!TypeOK' /\ Push!Values' /\ Push!SaidInv'
    BY <2>1 DEF Push!Inv, Push!TypeOK, Push!Values, Push!SaidInv, Push!Running
  <2>3. Push!RowInv'
    BY <2>1, PushRows
  <2> QED
    BY <2>2, <2>3 DEF Push!Inv
<1>2. CASE Push!Next
  BY <1>2, PushPut, PushEnds, PushStarts, PushHears, PushOver
     DEF Push!Next, Push!Ended, Push!Lost, Push!Canceled, Push!NotStarted
<1> QED
  BY <1>1, <1>2

\* What the code of each row is.
LEMMA PushCodes ==
  /\ Push!Code("written") = 0 /\ Push!Code("skipped") = 0 /\ Push!Code("refused") = 1
  /\ Push!Code("unreached") = 3 /\ Push!Code("interrupted") = 130
<1>1. Push!Code("written") = 0
  BY Zenon DEF Push!Code
<1>2. Push!Code("skipped") = 0
  BY Zenon DEF Push!Code
<1>3. Push!Code("refused") = 1
  BY Zenon DEF Push!Code
<1>4. Push!Code("unreached") = 3
  BY Zenon DEF Push!Code
<1>5. Push!Code("interrupted") = 130
  BY Zenon DEF Push!Code
<1> QED
  BY <1>1, <1>2, <1>3, <1>4, <1>5

\* The worst of several codes is 0 when none is a failure, and no less than 3 when
\* one says unreached.
LEMMA PushWorst ==
  ASSUME NEW C
  PROVE  /\ Push!Worst(C) \in Push!Codes
         /\ Push!Worst(C) = 0 <=> 1 \notin C /\ 3 \notin C /\ 130 \notin C
         /\ 3 \in C \/ 130 \in C => Push!Worst(C) \in {3, 130}
  BY DEF Push!Worst, Push!Codes

\* What the rows of a worker that is over say.
LEMMA PushRowsSay ==
  ASSUME Push!Inv, NEW n \in OfPush.Nodes, v1[n] = "over", NEW f \in Push!Files
  PROVE  /\ v9[n][f] \in {"written", "refused", "unreached", "interrupted", "skipped"}
         /\ v9[n][f] = "written" => v8[n][f] = "new"
         /\ v9[n][f] = "skipped" =>
              \E g \in 1..(f - 1) : v9[n][g] \in {"unreached", "interrupted"}
<1>0. Push!TypeOK /\ Push!Values /\ Push!SaidInv /\ Push!RowInv
  BY DEF Push!Inv
<1>1. PICK why \in {"refused", "unreached", "interrupted"} : v9[n] = Push!Rows(n, why)
  BY <1>0 DEF Push!RowInv
<1>2. \A g \in Push!Files : v9[n][g] = IF g <= v7[n] THEN Push!Verdict(n, g)
                                       ELSE IF g > v7[n] + 1 /\ Push!nodeUnreachable(why)
                                       THEN "skipped" ELSE why
  BY <1>1 DEF Push!Rows
<1>3. v7[n] \in Nat /\ v4[n] \in 1..(OfPush.N + 1) /\ v7[n] <= v4[n] - 1 /\ OfPush.N \in Nat
  BY <1>0, PushLimits DEF Push!Values, Push!TypeOK
<1>4. \A g \in Push!Files : Push!Verdict(n, g) \in {"written", "refused"}
                            /\ (Push!Verdict(n, g) = "written" => v6[n][g] = "ok")
  BY DEF Push!Verdict
<1>5. v9[n][f] \in {"written", "refused", "unreached", "interrupted", "skipped"}
  BY <1>2, <1>4
<1>6. ASSUME v9[n][f] = "written" PROVE v8[n][f] = "new"
  <2>1. f <= v7[n] /\ v6[n][f] = "ok"
    BY <1>2, <1>4, <1>6
  <2>2. f < v4[n]
    BY <1>3, <2>1 DEF Push!Files
  <2> QED
    BY <1>0, <2>1, <2>2 DEF Push!SaidInv
<1>7. ASSUME v9[n][f] = "skipped"
      PROVE  \E g \in 1..(f - 1) : v9[n][g] \in {"unreached", "interrupted"}
  <2>1. ~(f <= v7[n])
    BY <1>2, <1>4, <1>7
  <2>2. f > v7[n] + 1 /\ Push!nodeUnreachable(why)
    BY <1>2, <1>7, <2>1
  <2> DEFINE g == v7[n] + 1
  <2>3. g \in Push!Files /\ g \in 1..(f - 1) /\ ~(g <= v7[n]) /\ ~(g > v7[n] + 1)
    BY <1>3, <2>2 DEF Push!Files
  <2>4. v9[n][g] = why
    BY <1>2, <2>3
  <2> QED
    BY <2>2, <2>3, <2>4 DEF Push!nodeUnreachable
<1> QED
  BY <1>5, <1>6, <1>7

\* What the invariant promises.
LEMMA PushKeeps ==
  ASSUME Push!Inv
  PROVE  Push!PushIsTrue /\ Push!ExitIsWorst
<1>1. Push!PushIsTrue
  <2> SUFFICES ASSUME NEW n \in OfPush.Nodes, NEW f \in Push!Files
               PROVE  /\ v8[n][f] \in {"old", "new"}
                      /\ v9[n][f] = "written" => v8[n][f] = "new"
    BY DEF Push!PushIsTrue
  <2>1. v8[n][f] \in {"old", "new"}
    BY DEF Push!Inv, Push!Values
  <2>2. CASE v1[n] = "over"
    BY <2>1, <2>2, PushRowsSay
  <2>3. CASE v1[n] # "over"
    <3>1. v9[n][f] = ""
      BY <2>3 DEF Push!Inv, Push!RowInv
    <3> QED
      BY <2>1, <3>1
  <2> QED
    BY <2>2, <2>3
<1>2. ASSUME Push!Done PROVE
        /\ Push!exit = 0 <=> \A n \in OfPush.Nodes, f \in Push!Files : v9[n][f] = "written"
        /\ Push!exit = 0 => \A n \in OfPush.Nodes, f \in Push!Files : v8[n][f] = "new"
        /\ (\E n \in OfPush.Nodes, f \in Push!Files : v9[n][f] = "unreached")
           => Push!exit \in {3, 130}
        /\ \A n \in OfPush.Nodes, f \in Push!Files : v9[n][f] = "skipped" =>
             \E g \in 1..(f - 1) : v9[n][g] \in {"unreached", "interrupted"}
  <2>0. \A n \in OfPush.Nodes : v1[n] = "over"
    BY <1>2 DEF Push!Done
  <2>1. ASSUME NEW n \in OfPush.Nodes, Push!NodeCode(n) = 0,
               NEW f \in Push!Files PROVE v9[n][f] = "written"
    <3>1. \A g \in Push!Files : Push!Code(v9[n][g]) \notin {1, 3, 130}
      BY <2>1, PushWorst DEF Push!NodeCode
    <3>2. \A g \in Push!Files : v9[n][g] \in {"written", "skipped"}
      BY <2>0, <3>1, PushRowsSay, PushCodes
    <3>3. \A g \in 1..(f - 1) : g \in Push!Files
      BY PushLimits DEF Push!Files
    <3>4. v9[n][f] # "skipped"
      BY <2>0, <3>2, <3>3, PushRowsSay
    <3> QED
      BY <3>2, <3>4
  <2>2. ASSUME NEW n \in OfPush.Nodes,
               \A f \in Push!Files : v9[n][f] = "written" PROVE Push!NodeCode(n) = 0
    <3>1. \A f \in Push!Files : Push!Code(v9[n][f]) = 0
      BY <2>2, PushCodes
    <3> QED
      BY <3>1, PushWorst DEF Push!NodeCode
  <2>3. ASSUME NEW n \in OfPush.Nodes, NEW f \in Push!Files, v9[n][f] = "unreached"
        PROVE  Push!NodeCode(n) \in {3, 130}
    BY <2>3, PushCodes, PushWorst DEF Push!NodeCode
  <2>4. Push!exit = 0 <=> \A n \in OfPush.Nodes : Push!NodeCode(n) = 0
    <3>1. \A n \in OfPush.Nodes : Push!NodeCode(n) \in {0, 1, 3, 130}
      BY PushWorst DEF Push!NodeCode, Push!Codes
    <3> QED
      BY <3>1, PushWorst DEF Push!exit
  <2>5. (\E n \in OfPush.Nodes : Push!NodeCode(n) \in {3, 130}) => Push!exit \in {3, 130}
    BY PushWorst DEF Push!exit
  <2>6. Push!exit = 0 <=> \A n \in OfPush.Nodes, f \in Push!Files : v9[n][f] = "written"
    BY <2>1, <2>2, <2>4
  <2> QED
    BY <2>0, <2>3, <2>5, <2>6, PushRowsSay
<1> QED
  BY <1>1, <1>2 DEF Push!ExitIsWorst

\* A step of the whole is one of the component, or of another scene.
LEMMA PushScene ==
  ASSUME [Next]_vars
  PROVE  /\ scene' = scene
         /\ scene = "push" => [Push!Next]_(Push!vars)
BY DEF Next, vars, Push!vars

\* The invariant of the component is one of the whole.
LEMMA PushAlways == Spec => [](scene = "push" => Push!Inv)
<1>1. Init => (scene = "push" => Push!Inv)
  BY PushBegins DEF Init, Begin
<1>2. (scene = "push" => Push!Inv) /\ [Next]_vars => (scene = "push" => Push!Inv)'
  BY PushScene, PushStep
<1> QED
  BY <1>1, <1>2, PTL DEF Spec

(***************************************************************************)
(* What exec and copy do.  The workers take the nodes in turn, no more at  *)
(* a time than were asked for (ContextInv); a stream goes on where the     *)
(* server stopped taking it, so what is stored is what was sent in order   *)
(* (StoreInv); a result is what its command came to (ResultInv), and the   *)
(* exit code the worst of the results (ExitInv).                           *)
(*                                                                         *)
(* The registers: v1 cmd, v2 at, v3 taken, v4 item, v5 context, v6 offset, *)
(* v7 store, v8 ended, v9 result, v10 exit, v11 interrupted.               *)
(***************************************************************************)
\* The sets of Runs that are finite, and how many elements they have.
LEMMA RunsSizes ==
  \A S : (Runs!IsFiniteSet(S) <=> IsFiniteSet(S)) /\ Runs!Cardinality(S) = Cardinality(S)
BY DEF Runs!IsFiniteSet, Runs!Cardinality, IsFiniteSet, Cardinality

\* The facts about finite sets these proofs use, of the sets of Runs.
LEMMA RunsEmptySet ==
  /\ Runs!IsFiniteSet({}) /\ Runs!Cardinality({}) = 0
  /\ \A S : Runs!IsFiniteSet(S) => (Runs!Cardinality(S) = 0 <=> S = {})
BY FS_EmptySet, RunsSizes

LEMMA RunsCardinalityType == \A S : Runs!IsFiniteSet(S) => Runs!Cardinality(S) \in Nat
BY FS_CardinalityType, RunsSizes

LEMMA RunsSubset ==
  ASSUME NEW S, Runs!IsFiniteSet(S), NEW T \in SUBSET S
  PROVE  /\ Runs!IsFiniteSet(T) /\ Runs!Cardinality(T) <= Runs!Cardinality(S)
         /\ Runs!Cardinality(S) = Runs!Cardinality(T) => S = T
BY FS_Subset, RunsSizes

LEMMA RunsAddElement ==
  ASSUME NEW S, NEW x, Runs!IsFiniteSet(S)
  PROVE  /\ Runs!IsFiniteSet(S \cup {x})
         /\ Runs!Cardinality(S \cup {x}) =
              IF x \in S THEN Runs!Cardinality(S) ELSE Runs!Cardinality(S) + 1
<1>1. IsFiniteSet(S)
  BY RunsSizes
<1>2. /\ IsFiniteSet(S \cup {x})
      /\ Cardinality(S \cup {x}) = IF x \in S THEN Cardinality(S) ELSE Cardinality(S) + 1
  BY <1>1, FS_AddElement
<1> QED
  BY <1>2, RunsSizes, Zenon

LEMMA RunsSingleton ==
  \A S : Runs!IsFiniteSet(S) => (Runs!Cardinality(S) = 1 <=> \E x : S = {x})
BY FS_Singleton, RunsSizes

\* What is assumed of the constants.
LEMMA RunsHosts ==
  ASSUME NEW n \in OfRuns.Nodes
  PROVE  /\ OfRuns.HostOf[n] \in Seq(STRING) /\ Len(OfRuns.HostOf[n]) \in Nat \ {0}
         /\ \A i \in 1..Len(OfRuns.HostOf[n]) : OfRuns.HostOf[n][i] \notin {"/", "[", "]"}
<1>1. OfRuns.HostOf[n] \in Seq(STRING) /\ OfRuns.HostOf[n] # <<>>
  BY CommandsConstants DEF CommandsConstants, Runs!NodeRunsConstants
<1>2. DOMAIN OfRuns.HostOf[n] = 1..Len(OfRuns.HostOf[n]) /\ Len(OfRuns.HostOf[n]) \in Nat \ {0}
  BY <1>1, EmptySeq, LenProperties
<1>3. \A i \in DOMAIN OfRuns.HostOf[n] : OfRuns.HostOf[n][i] \notin {"/", "[", "]"}
  BY CommandsConstants DEF CommandsConstants, Runs!NodeRunsConstants
<1> QED
  BY <1>1, <1>2, <1>3

\* A colon after a host, and before any slash, is the one scp sees.
LEMMA RunsOperand ==
  ASSUME NEW S, NEW op \in Seq(S), NEW k \in 2..(Len(op) - 1), op[k] = ":", op[k + 1] = "/",
         ~Runs!Bracketed(op, k), \A j \in 1..k : op[j] # "/",
         \A i \in 2..(k - 1) : op[i] # ":" \/ Runs!Bracketed(op, i)
  PROVE  Runs!ScpHost(op) = Runs!Unbracketed(SubSeq(op, 1, k - 1))
<1>0. Len(op) \in Nat
  BY LenProperties
<1>1. k \in Runs!Colons(op)
  BY <1>0 DEF Runs!Colons
<1>2. ASSUME NEW i \in Runs!Colons(op) PROVE i = k
  <2>1. i \in 2..Len(op) /\ op[i] = ":" /\ ~Runs!Bracketed(op, i) /\ \A j \in 1..i : op[j] # "/"
    BY <1>2 DEF Runs!Colons
  <2>2. CASE i < k
    BY <1>0, <2>1, <2>2
  <2>3. CASE i > k
    <3>1. k + 1 \in 1..i
      BY <1>0, <2>1, <2>3
    <3> QED
      BY <2>1, <3>1
  <2> QED
    BY <1>0, <2>1, <2>2, <2>3
<1>3. Runs!Colons(op) = {k}
  BY <1>1, <1>2
<1>4. Runs!FirstOf({k}) = k
  BY DEF Runs!FirstOf
<1> QED
  BY <1>3, <1>4 DEF Runs!ScpHost

\* scp reads the operand of a node as the host of the node.
LEMMA RunsRemote ==
  ASSUME NEW n \in OfRuns.Nodes
  PROVE  Runs!ScpHost(Runs!remote(n)) = OfRuns.HostOf[n]
<1> DEFINE h == OfRuns.HostOf[n]
           L == Len(h)
           path == <<":", "/", "file">>
           S == STRING \cup {"[", "]", ":", "/", "file"}
<1>0. /\ STRING \subseteq S /\ "[" \in S /\ "]" \in S /\ ":" \in S /\ "/" \in S /\ "file" \in S
  OBVIOUS
<1> HIDE DEF S
<1>1. /\ h \in Seq(S) /\ L \in Nat \ {0}
      /\ \A i \in 1..L : h[i] # "/" /\ h[i] # "[" /\ h[i] # "]"
  BY <1>0, RunsHosts, SeqMonotonic
<1>2. path \in Seq(S) /\ Len(path) = 3 /\ path[1] = ":" /\ path[2] = "/"
  BY <1>0
<1>3. CASE Runs!Has(h, ":")
  <2> DEFINE l == <<"[">> \o h
             b == l \o <<"]">>
             op == b \o path
  <2>0. <<"[">> \in Seq(S) /\ <<"]">> \in Seq(S) /\ Len(<<"[">>) = 1 /\ Len(<<"]">>) = 1
        /\ <<"[">>[1] = "[" /\ <<"]">>[1] = "]"
    BY <1>0
  <2>1. /\ l \in Seq(S) /\ Len(l) = L + 1 /\ l[1] = "["
        /\ \A i \in 2..(L + 1) : l[i] = h[i - 1]
    BY <1>1, <2>0, ConcatProperties
  <2>2. /\ b \in Seq(S) /\ Len(b) = L + 2 /\ b[1] = "[" /\ b[L + 2] = "]"
        /\ \A i \in 2..(L + 1) : b[i] = h[i - 1]
    <3> HIDE DEF l, h, L
    <3>1. b \in Seq(S) /\ Len(b) = L + 2
      BY <1>1, <2>0, <2>1, ConcatProperties
    <3>2. \A i \in 1..(L + 1) : b[i] = l[i]
      BY <1>1, <2>0, <2>1, ConcatProperties
    <3>3. b[L + 2] = "]"
      BY <1>1, <2>0, <2>1, ConcatProperties
    <3> QED
      BY <1>1, <2>1, <3>1, <3>2, <3>3
  <2>3. /\ op \in Seq(S) /\ Len(op) = L + 5 /\ \A i \in 1..(L + 2) : op[i] = b[i]
        /\ op[L + 3] = ":" /\ op[L + 4] = "/"
    <3> HIDE DEF b, path
    <3>1. /\ op \in Seq(S) /\ Len(op) = Len(b) + Len(path)
          /\ \A i \in 1..(Len(b) + Len(path)) :
               op[i] = IF i <= Len(b) THEN b[i] ELSE path[i - Len(b)]
      BY <1>2, <2>2, ConcatProperties
    <3> HIDE DEF op
    <3>2. /\ op[L + 3] = path[(L + 3) - Len(b)] /\ op[L + 4] = path[(L + 4) - Len(b)]
          /\ (L + 3) - Len(b) = 1 /\ (L + 4) - Len(b) = 2
      <4> HIDE DEF L, S
      <4>1. /\ (L + 3) - Len(b) = 1 /\ (L + 4) - Len(b) = 2
            /\ L + 3 \in 1..(Len(b) + Len(path)) /\ L + 4 \in 1..(Len(b) + Len(path))
            /\ ~(L + 3 <= Len(b)) /\ ~(L + 4 <= Len(b))
        BY <1>1, <1>2, <2>2
      <4> QED
        BY <3>1, <4>1
    <3> QED
      BY <1>1, <1>2, <2>2, <3>1, <3>2
  <2>4. Runs!remote(n) = op
    BY <1>3 DEF Runs!remote
  <2> HIDE DEF l, b, op, path, h
  <2>5. \A j \in 1..(L + 1) : op[j] # "]" /\ op[j] # "/"
    <3> SUFFICES ASSUME NEW j \in 1..(L + 1) PROVE op[j] # "]" /\ op[j] # "/"
      OBVIOUS
    <3>1. op[j] = b[j]
      BY <1>1, <2>3
    <3>2. CASE j = 1
      BY <2>2, <3>1, <3>2
    <3>3. CASE j # 1
      <4>1. b[j] = h[j - 1] /\ j - 1 \in 1..L
        BY <1>1, <2>2, <3>3
      <4> QED
        BY <1>1, <3>1, <4>1
    <3> QED
      BY <3>2, <3>3
  <2>6. op[1] = "[" /\ op[L + 2] = "]"
    BY <1>1, <2>2, <2>3
  <2>7. L + 3 \in 2..(Len(op) - 1) /\ op[L + 3] = ":" /\ op[(L + 3) + 1] = "/"
    BY <1>1, <2>3
  <2>8. ~Runs!Bracketed(op, L + 3)
    BY <1>1, <2>6 DEF Runs!Bracketed
  <2>9. \A j \in 1..(L + 3) : op[j] # "/"
    <3> SUFFICES ASSUME NEW j \in 1..(L + 3) PROVE op[j] # "/"
      OBVIOUS
    <3>1. j \in 1..(L + 1) \/ j = L + 2 \/ j = L + 3
      BY <1>1
    <3> QED
      BY <2>3, <2>5, <2>6, <3>1
  <2>10. \A i \in 2..((L + 3) - 1) : op[i] # ":" \/ Runs!Bracketed(op, i)
    <3> SUFFICES ASSUME NEW i \in 2..((L + 3) - 1) PROVE op[i] # ":" \/ Runs!Bracketed(op, i)
      OBVIOUS
    <3>1. CASE i = L + 2
      BY <2>6, <3>1
    <3>2. CASE i # L + 2
      <4>1. \A j \in 1..i : j \in 1..(L + 1)
        BY <1>1, <3>2
      <4> QED
        BY <2>5, <2>6, <4>1 DEF Runs!Bracketed
    <3> QED
      BY <3>1, <3>2
  <2>11. Runs!ScpHost(op) = Runs!Unbracketed(SubSeq(op, 1, (L + 3) - 1))
    BY <2>3, <2>7, <2>8, <2>9, <2>10, RunsOperand
  <2>12. SubSeq(op, 1, (L + 3) - 1) = b
    <3>1. \A i \in 1..(L + 2) : op[i] \in S
      BY <1>1, <2>3, ElementOfSeq
    <3> DEFINE s == SubSeq(op, 1, L + 2)
    <3>2. s \in Seq(S) /\ Len(s) = L + 2 /\ \A i \in 1..(L + 2) : s[i] = op[i]
      BY <1>1, <3>1, SubSeqProperties
    <3>3. (L + 3) - 1 = L + 2
      BY <1>1
    <3> HIDE DEF s
    <3>4. s = b
      BY <2>2, <2>3, <3>2, SeqEqual
    <3> QED
      BY <3>3, <3>4 DEF s
  <2>13. Runs!Unbracketed(b) = h
    <3> DEFINE s == SubSeq(b, 2, Len(b) - 1)
    <3>0. Runs!Unbracketed(b) = s
      BY <2>2 DEF Runs!Unbracketed
    <3>1. \A i \in 2..(L + 1) : b[i] \in S
      BY <1>1, <2>2, ElementOfSeq
    <3>2. s \in Seq(S) /\ Len(s) = L /\ \A i \in 1..L : s[i] = b[i + 1]
      BY <1>1, <2>2, <3>1, SubSeqProperties
    <3>3. \A i \in 1..L : b[i + 1] = h[i]
      BY <1>1, <2>2
    <3> HIDE DEF s
    <3>4. s = h
      BY <1>1, <3>2, <3>3, SeqEqual
    <3> QED
      BY <3>0, <3>4
  <2> QED
    BY <2>4, <2>11, <2>12, <2>13 DEF h
<1>4. CASE ~Runs!Has(h, ":")
  <2> DEFINE op == h \o path
  <2>1. /\ op \in Seq(S) /\ Len(op) = L + 3 /\ \A i \in 1..L : op[i] = h[i]
        /\ op[L + 1] = ":" /\ op[L + 2] = "/"
    <3> HIDE DEF path, h
    <3>1. /\ op \in Seq(S) /\ Len(op) = L + Len(path)
          /\ \A i \in 1..(L + Len(path)) : op[i] = IF i <= L THEN h[i] ELSE path[i - L]
      BY <1>1, <1>2, ConcatProperties
    <3> HIDE DEF op
    <3>2. /\ op[L + 1] = path[(L + 1) - L] /\ op[L + 2] = path[(L + 2) - L]
          /\ (L + 1) - L = 1 /\ (L + 2) - L = 2
      <4> HIDE DEF L, S
      <4>1. /\ (L + 1) - L = 1 /\ (L + 2) - L = 2
            /\ L + 1 \in 1..(L + Len(path)) /\ L + 2 \in 1..(L + Len(path))
            /\ ~(L + 1 <= L) /\ ~(L + 2 <= L)
        BY <1>1, <1>2
      <4> QED
        BY <3>1, <4>1
    <3> QED
      BY <1>1, <1>2, <3>1, <3>2
  <2>2. Runs!remote(n) = op
    BY <1>4 DEF Runs!remote
  <2>3. \A i \in 1..L : h[i] # ":"
    <3>1. DOMAIN h = 1..L
      BY <1>1, LenProperties
    <3> QED
      BY <1>4, <3>1 DEF Runs!Has
  <2> HIDE DEF op, path, h
  <2>4. L + 1 \in 2..(Len(op) - 1) /\ op[L + 1] = ":" /\ op[(L + 1) + 1] = "/"
    BY <1>1, <2>1
  <2>5. op[1] = h[1] /\ h[1] # "["
    BY <1>1, <2>1
  <2>6. ~Runs!Bracketed(op, L + 1)
    BY <2>5 DEF Runs!Bracketed
  <2>7. \A j \in 1..(L + 1) : op[j] # "/"
    <3> SUFFICES ASSUME NEW j \in 1..(L + 1) PROVE op[j] # "/"
      OBVIOUS
    <3>1. j \in 1..L \/ j = L + 1
      BY <1>1
    <3> QED
      BY <1>1, <2>1, <3>1
  <2>8. \A i \in 2..((L + 1) - 1) : op[i] # ":" \/ Runs!Bracketed(op, i)
    <3>1. \A i \in 2..((L + 1) - 1) : i \in 1..L
      BY <1>1
    <3> QED
      BY <2>1, <2>3, <3>1
  <2>9. Runs!ScpHost(op) = Runs!Unbracketed(SubSeq(op, 1, (L + 1) - 1))
    BY <2>1, <2>4, <2>6, <2>7, <2>8, RunsOperand
  <2>10. SubSeq(op, 1, (L + 1) - 1) = h
    <3>1. \A i \in 1..L : op[i] \in S
      BY <1>1, <2>1, ElementOfSeq
    <3> DEFINE s == SubSeq(op, 1, L)
    <3>2. s \in Seq(S) /\ Len(s) = L /\ \A i \in 1..L : s[i] = op[i]
      BY <1>1, <3>1, SubSeqProperties
    <3>3. (L + 1) - 1 = L
      BY <1>1
    <3> HIDE DEF s
    <3>4. s = h
      BY <1>1, <2>1, <3>2, SeqEqual
    <3> QED
      BY <3>3, <3>4 DEF s
  <2>11. Runs!Unbracketed(h) = h
    BY <2>5 DEF Runs!Unbracketed
  <2> QED
    BY <2>2, <2>9, <2>10, <2>11 DEF h
<1> QED
  BY <1>3, <1>4

\* A local path is never a host to scp.
LEMMA RunsLocal ==
  ASSUME NEW path \in Seq(STRING), path # <<>>
  PROVE  Runs!ScpHost(Runs!localPath(path)) = <<>>
<1>0. Len(path) \in Nat \ {0} /\ DOMAIN path = 1..Len(path)
  BY EmptySeq, LenProperties
<1>1. CASE path[1] = "-"
           \/ (Runs!Has(path, ":") /\ path[1] # "/" /\ SubSeq(path, 1, 2) # <<".", "/">>)
  <2> DEFINE op == <<".", "/">> \o path
  <2>1. Runs!localPath(path) = op
    BY <1>1 DEF Runs!localPath
  <2> DEFINE S == STRING \cup {".", "/"}
  <2>a. STRING \subseteq S /\ "." \in S /\ "/" \in S
    OBVIOUS
  <2> HIDE DEF S
  <2>2. <<".", "/">> \in Seq(S) /\ Len(<<".", "/">>) = 2 /\ <<".", "/">>[2] = "/"
    BY <2>a
  <2>3. Len(op) \in Nat /\ op[2] = "/" 
    BY <1>0, <2>a, <2>2, SeqMonotonic, ConcatProperties
  <2> HIDE DEF op
  <2>4. \A i \in 2..Len(op) : 2 \in 1..i
    BY <2>3
  <2>5. Runs!Colons(op) = {}
    BY <2>3, <2>4 DEF Runs!Colons
  <2> QED
    BY <2>1, <2>5 DEF Runs!ScpHost
<1>2. CASE ~(path[1] = "-" \/ (Runs!Has(path, ":") /\ path[1] # "/" /\ SubSeq(path, 1, 2) # <<".",
           "/">>))
  <2>1. Runs!localPath(path) = path
    BY <1>2 DEF Runs!localPath
  <2>2. \A i \in 2..Len(path) : 1 \in 1..i /\ 2 \in 1..i /\ i \in 1..Len(path)
    BY <1>0
  <2>3. ASSUME NEW i \in Runs!Colons(path) PROVE FALSE
    <3>1. i \in 2..Len(path) /\ path[i] = ":" /\ \A j \in 1..i : path[j] # "/"
      BY DEF Runs!Colons
    <3>2. 1 \in 1..i /\ 2 \in 1..i /\ i \in DOMAIN path /\ Len(path) >= 2
      BY <1>0, <3>1
    <3>3. Runs!Has(path, ":") /\ path[1] # "/" /\ path[2] # "/"
      BY <3>1, <3>2 DEF Runs!Has
    <3>4. SubSeq(path, 1, 2) = <<".", "/">>
      BY <1>2, <3>3
    <3>5. \A j \in 1..2 : path[j] \in STRING
      BY <1>0, <3>2, ElementOfSeq
    <3>6. SubSeq(path, 1, 2)[2] = path[2]
      BY <3>5, SubSeqProperties
    <3>7. <<".", "/">>[2] = "/"
      OBVIOUS
    <3> QED
      BY <3>3, <3>4, <3>6, <3>7, Zenon
  <2>6. Runs!Colons(path) = {}
    BY <2>3
  <2> QED
    BY <2>1, <2>6 DEF Runs!ScpHost
<1> QED
  BY <1>1, <1>2

\* What CASE chooses.
LEMMA RunsTo ==
  ASSUME NEW n
  PROVE  /\ v1.verb = "exec" => Runs!To(n) = n
         /\ v1.verb = "upload" => Runs!To(n) = Runs!RemoteOf(n)
         /\ v1.verb = "download" => Runs!To(n) = Runs!LocalOf(Runs!destinationFor(n))
BY Zenon DEF Runs!To

LEMMA RunsCode ==
  /\ Runs!Code("ok") = 0 /\ Runs!Code("status") = 1 /\ Runs!Code("255") = 255
  /\ Runs!Code("stopped") = Runs!NoCode /\ Runs!Code("held") = Runs!NoCode
BY Zenon DEF Runs!Code

LEMMA RunsClassify ==
  ASSUME NEW c
  PROVE  /\ Runs!classify("ok", c) = ""
         /\ c # "" => \A how \in {"status", "255", "stopped", "held"} : Runs!classify(how, c) = c
         /\ c = "" =>
              /\ Runs!classify("255", c) = "transport" /\ Runs!classify("held", c) = "transport"
              /\ Runs!classify("status", c) = "target" /\ Runs!classify("stopped", c) = "target"
BY Zenon DEF Runs!classify

LEMMA RunsStatus ==
  ASSUME NEW r
  PROVE  /\ r.err = "canceled" => Runs!Status(r) = "interrupted"
         /\ r.err = "transport" => Runs!Status(r) = "unreachable"
         /\ r.err \notin {"canceled", "transport"} =>
              /\ ~Runs!Failed(r) => Runs!Status(r) = "ok"
              /\ Runs!Failed(r) /\ r.code > 0 => Runs!Status(r) = "exit"
              /\ Runs!Failed(r) /\ ~(r.code > 0) => Runs!Status(r) = "failed"
<1>1. ASSUME r.err = "canceled" PROVE Runs!Status(r) = "interrupted"
  <2>1. Runs!Failed(r) /\ r.err # "transport" /\ r.err \in {"canceled", "transport"}
    BY <1>1 DEF Runs!Failed
  <2> QED
    BY <1>1, <2>1, Zenon DEF Runs!Status
<1>2. ASSUME r.err = "transport" PROVE Runs!Status(r) = "unreachable"
  <2>1. Runs!Failed(r) /\ r.err # "canceled" /\ r.err \in {"canceled", "transport"}
    BY <1>2 DEF Runs!Failed
  <2> QED
    BY <1>2, <2>1, Zenon DEF Runs!Status
<1>3. ASSUME r.err \notin {"canceled", "transport"}, ~Runs!Failed(r) PROVE Runs!Status(r) = "ok"
  <2> HIDE DEF Runs!Failed
  <2>1. r.err # "canceled" /\ r.err # "transport"
    BY <1>3
  <2> QED
    BY <1>3, <2>1, Zenon DEF Runs!Status
<1>4. ASSUME r.err \notin {"canceled", "transport"}, Runs!Failed(r)
      PROVE  /\ r.code > 0 => Runs!Status(r) = "exit"
             /\ ~(r.code > 0) => Runs!Status(r) = "failed"
  <2>1. r.err # "canceled" /\ r.err # "transport"
    BY <1>4
  <2> QED
    BY <1>4, <2>1, Zenon DEF Runs!Status
<1> QED
  BY <1>1, <1>2, <1>3, <1>4

\* A command, by its fields.
LEMMA RunsGiven ==
  ASSUME v1 \in OfRuns.Given
  PROVE  /\ v1.nodes \subseteq OfRuns.Nodes /\ v1.max \in Nat \ {0} /\ v1.verb \in Runs!Verbs
         /\ v1.local \in Seq(STRING) /\ v1.local # <<>>
         /\ Runs!IsFiniteSet(OfRuns.Nodes) /\ Runs!IsFiniteSet(v1.nodes)
         /\ Runs!Shared \notin OfRuns.Nodes /\ Runs!Elsewhere \notin OfRuns.Nodes
         /\ OfRuns.Parts \in Nat \ {0}
         /\ Runs!Shared # Runs!Elsewhere
<1>1. /\ v1.nodes \subseteq OfRuns.Nodes /\ v1.max \in Nat \ {0} /\ v1.verb \in Runs!Verbs
      /\ v1.local \in Seq(STRING) /\ v1.local # <<>>
  BY CommandsConstants DEF CommandsConstants, Runs!NodeRunsConstants
<1>2. Runs!IsFiniteSet(OfRuns.Nodes) /\ Runs!Shared \notin OfRuns.Nodes
      /\ Runs!Elsewhere \notin OfRuns.Nodes /\ OfRuns.Parts \in Nat \ {0}
  BY CommandsConstants DEF CommandsConstants, Runs!NodeRunsConstants
<1>3. Runs!IsFiniteSet(v1.nodes)
  BY <1>1, <1>2, RunsSubset
<1>4. Runs!Shared # Runs!Elsewhere
  BY DEF Runs!Shared, Runs!Elsewhere
<1> QED
  BY <1>1, <1>2, <1>3, <1>4

\* Where the parts come from and where they go, of a command whose paths scp
\* and SFTP read alike.
LEMMA RunsTransfer ==
  ASSUME v1 \in OfRuns.Given, Runs!Copies => Runs!checkRemotePath(v1.remote), NEW n \in OfRuns.Nodes
  PROVE  /\ Runs!From(n) = Runs!Origin(n)
         /\ Runs!To(n) = IF v1.verb = "download" /\ ~Runs!perNode THEN Runs!Shared ELSE n
<1>1. Runs!Copies => Runs!RemoteOf(n) = n
  <2>1. n \in Runs!NodeAt(Runs!ScpHost(Runs!remote(n)))
    BY RunsRemote DEF Runs!NodeAt
  <2> QED
    BY <2>1 DEF Runs!RemoteOf, Runs!checkRemotePath
<1>2. \A x : Runs!LocalOf(x) = x
  BY RunsGiven, RunsLocal DEF Runs!LocalOf
<1>3. CASE v1.verb = "exec"
  BY <1>3, RunsTo DEF Runs!From, Runs!Origin, Runs!Copies
<1>4. CASE v1.verb = "upload"
  BY <1>1, <1>2, <1>4, RunsTo DEF Runs!From, Runs!Origin, Runs!Copies
<1>5. CASE v1.verb = "download"
  <2>1. Runs!To(n) = Runs!destinationFor(n) /\ Runs!From(n) = n /\ Runs!Origin(n) = n
    BY <1>1, <1>2, <1>5, RunsTo DEF Runs!From, Runs!Origin, Runs!Copies
  <2> QED
    BY <1>5, <2>1 DEF Runs!destinationFor
<1> QED
  BY <1>3, <1>4, <1>5, RunsGiven DEF Runs!Verbs

\* No two nodes of a command have one place.
LEMMA RunsOwn ==
  ASSUME v1 \in OfRuns.Given, Runs!Copies => Runs!checkRemotePath(v1.remote),
         NEW m \in v1.nodes, NEW n \in v1.nodes, Runs!To(m) = Runs!To(n)
  PROVE  m = n
<1>1. m \in OfRuns.Nodes /\ n \in OfRuns.Nodes /\ Runs!Shared \notin OfRuns.Nodes
  BY RunsGiven
<1>2. /\ Runs!To(m) = IF v1.verb = "download" /\ ~Runs!perNode THEN Runs!Shared ELSE m
      /\ Runs!To(n) = IF v1.verb = "download" /\ ~Runs!perNode THEN Runs!Shared ELSE n
  BY <1>1, RunsTransfer
<1>3. CASE v1.verb = "download" /\ ~Runs!perNode
  <2>1. Runs!Cardinality(v1.nodes) \in Nat /\ ~(Runs!Cardinality(v1.nodes) > 1)
    BY <1>3, RunsGiven, RunsCardinalityType DEF Runs!perNode
  <2>2. CASE Runs!Cardinality(v1.nodes) = 0
    BY <2>2, RunsGiven, RunsEmptySet
  <2>3. CASE Runs!Cardinality(v1.nodes) = 1
    BY <2>3, RunsGiven, RunsSingleton
  <2> QED
    BY <2>1, <2>2, <2>3
<1> QED
  BY <1>1, <1>2, <1>3

\* What a step leaves that leaves the command.
LEMMA RunsSame ==
  ASSUME v1 \in OfRuns.Given, v1' = v1
  PROVE  /\ Runs!Copies' = Runs!Copies /\ Runs!Sends' = Runs!Sends
         /\ \A n : Runs!To(n)' = Runs!To(n) /\ Runs!Origin(n)' = Runs!Origin(n)
<1>1. Runs!Copies' = Runs!Copies /\ Runs!Sends' = Runs!Sends
  BY DEF Runs!Copies, Runs!Sends
<1>2. ASSUME NEW n PROVE Runs!To(n)' = Runs!To(n)
  <2>1. /\ v1'.verb = "exec" => Runs!To(n)' = n
        /\ v1'.verb = "upload" => Runs!To(n)' = Runs!RemoteOf(n)'
        /\ v1'.verb = "download" => Runs!To(n)' = Runs!LocalOf(Runs!destinationFor(n))'
    BY Zenon DEF Runs!To
  <2>2. Runs!RemoteOf(n)' = Runs!RemoteOf(n)
    BY DEF Runs!RemoteOf
  <2>3. Runs!LocalOf(Runs!destinationFor(n))' = Runs!LocalOf(Runs!destinationFor(n))
    BY DEF Runs!LocalOf, Runs!destinationFor, Runs!perNode
  <2> QED
    BY <2>1, <2>2, <2>3, RunsTo, RunsGiven DEF Runs!Verbs
<1>3. \A n : Runs!Origin(n)' = Runs!Origin(n)
  BY DEF Runs!Origin
<1> QED
  BY <1>1, <1>2, <1>3

\* How many nodes are under way.
LEMMA RunsFinite ==
  ASSUME v1 \in OfRuns.Given
  PROVE  /\ Runs!Cardinality(Runs!Running) \in Nat /\ v1.max \in Nat
         /\ \A n : /\ Runs!Cardinality(Runs!Running \cup {n}) \in Nat
                   /\ Runs!Cardinality(Runs!Running \cup {n}) <= Runs!Cardinality(Runs!Running) + 1
         /\ \A S \in SUBSET Runs!Running :
              Runs!Cardinality(S) \in Nat /\ Runs!Cardinality(S) <= Runs!Cardinality(Runs!Running)
<1>1. Runs!IsFiniteSet(Runs!Running) /\ v1.max \in Nat
  BY RunsGiven, RunsSubset DEF Runs!Running
<1>2. Runs!Cardinality(Runs!Running) \in Nat
  BY <1>1, RunsCardinalityType
<1>3. ASSUME NEW n PROVE  /\ Runs!Cardinality(Runs!Running \cup {n}) \in Nat
                         /\ Runs!Cardinality(Runs!Running \cup {n}) <=
                              Runs!Cardinality(Runs!Running) + 1
  <2>1. Runs!Cardinality(Runs!Running \cup {n}) =
          IF n \in Runs!Running THEN Runs!Cardinality(Runs!Running) ELSE Runs!Cardinality(Runs!Running) + 1
    BY <1>1, RunsAddElement, Zenon
  <2> QED
    BY <1>2, <2>1
<1>4. ASSUME NEW S \in SUBSET Runs!Running
      PROVE  Runs!Cardinality(S) \in Nat /\ Runs!Cardinality(S) <= Runs!Cardinality(Runs!Running)
  BY <1>1, RunsSubset, RunsCardinalityType
<1> QED
  BY <1>1, <1>2, <1>3, <1>4

\* The four ways to an exit code.
LEMMA RunsExits == \A results : Runs!FailureError(results) \in {0, 1, 3, 130}
BY DEF Runs!FailureError

\* A result is accounted for as long as what it came from stays.
LEMMA RunsKept ==
  ASSUME NEW n, Runs!ResultOf(n), v8'[n] = v8[n], v5'[n] = v5[n],
         v9'[n] = v9[n], v6'[n] = v6[n], v3' = v3, Runs!Copies' = Runs!Copies,
         Runs!Sends' = Runs!Sends, v11 => v11'
  PROVE  Runs!ResultOf(n)'
<1>1. Runs!classify(v8[n], v5[n])' = Runs!classify(v8[n], v5[n])
      /\ Runs!Code(v8[n])' = Runs!Code(v8[n])
  OBVIOUS
<1>2. (IF Runs!Copies THEN OfRuns.Parts ELSE v3)' = (IF Runs!Copies THEN OfRuns.Parts ELSE v3)
  BY Zenon
<1> QED
  BY <1>1, <1>2, Zenon DEF Runs!ResultOf

\* The invariant holds when the command line is read.
LEMMA RunsBegins == Runs!Init => Runs!Inv
<1> SUFFICES ASSUME Runs!Init PROVE Runs!Inv
  OBVIOUS
<1>0. v1 \in OfRuns.Given /\ OfRuns.Parts \in Nat \ {0} /\ v1.max \in Nat \ {0}
      /\ v1.nodes \subseteq OfRuns.Nodes
  BY RunsGiven DEF Runs!Init
<1>1. v4 = [n \in OfRuns.Nodes |-> "queued"] /\ v5 = [n \in OfRuns.Nodes |-> ""]
  BY DEF Runs!Init
<1>2. v6 = [n \in OfRuns.Nodes |-> 0] /\ v8 = [n \in OfRuns.Nodes |-> ""]
  BY DEF Runs!Init
<1>3. \A n \in OfRuns.Nodes : v4[n] = "queued" /\ v5[n] = "" /\ v6[n] = 0 /\ v8[n] = ""
  BY <1>1, <1>2
<1>4. Runs!Running = {}
  BY <1>0, <1>3 DEF Runs!Running
<1>5. Runs!TypeOK
  <2>1. Runs!Cardinality(Runs!Running) <= v1.max
    BY <1>0, <1>4, RunsEmptySet
  <2>2. v4 \in [OfRuns.Nodes -> {"queued", "running", "over"}]
        /\ v5 \in [OfRuns.Nodes -> {"", "canceled", "deadline"}]
    BY <1>1
  <2>a. OfRuns.Parts \in Nat \ {0}
    BY <1>0
  <2>3. v6 \in [OfRuns.Nodes -> 0..OfRuns.Parts]
    <3>1. 0 \in 0..OfRuns.Parts
      BY <2>a
    <3> QED
      BY <1>2, <3>1
  <2>4. \A n \in OfRuns.Nodes : v8[n] # "" <=> v4[n] = "over"
    BY <1>3
  <2>b. v3 = 0 /\ v2 = "check" /\ v10 = Runs!NoExit
    BY DEF Runs!Init
  <2>5. v3 \in 0..OfRuns.Parts
    BY <2>a, <2>b
  <2> QED
    BY <1>0, <2>1, <2>2, <2>3, <2>4, <2>5, <2>b DEF Runs!TypeOK
<1>6. Runs!Values
  <2>1. v8 \in [OfRuns.Nodes -> Runs!Hows \cup {"", "not_started", "panic"}]
    BY <1>2
  <2>2. DOMAIN v9 = OfRuns.Nodes /\ DOMAIN v7 = Runs!Places
    BY DEF Runs!Init
  <2> QED
    BY <2>1, <2>2 DEF Runs!Values
<1>7. Runs!BegunInv
  <2>1. v2 = "check"
    BY DEF Runs!Init
  <2> QED
    BY <1>3, <2>1 DEF Runs!BegunInv
<1>8. Runs!StoreInv
  <2>1. \A p \in Runs!Places : v7[p] = {Runs!Old}
    BY DEF Runs!Init
  <2>a. v1.nodes \subseteq OfRuns.Nodes
    BY <1>0
  <2>b. \A n \in OfRuns.Nodes : v6[n] = 0
    BY <1>3
  <2>2. \A n \in v1.nodes : v6[n] = 0 /\ ~(0 > 0)
    BY <2>a, <2>b
  <2> QED
    BY <2>1, <2>2 DEF Runs!StoreInv
<1>9. Runs!ContextInv
  <2>1. v11 = FALSE
    BY DEF Runs!Init
  <2> QED
    BY <1>3, <2>1 DEF Runs!ContextInv
<1>10. Runs!ResultInv
  BY <1>3 DEF Runs!ResultInv
<1>11. Runs!ExitInv
  <2>1. v2 = "check"
    BY DEF Runs!Init
  <2> QED
    BY <2>1 DEF Runs!ExitInv
<1> QED
  BY <1>5, <1>6, <1>7, <1>8, <1>9, <1>10, <1>11 DEF Runs!Inv

\* What a step leaves that works at no node.
LEMMA RunsWork ==
  ASSUME Runs!Inv, UNCHANGED <<v1, v11>>, UNCHANGED Runs!work
  PROVE  /\ Runs!Running' = Runs!Running /\ Runs!Values' /\ Runs!StoreInv' /\ Runs!ContextInv'
<1>0. Runs!TypeOK /\ Runs!Values /\ Runs!StoreInv /\ Runs!ContextInv /\ v1 \in OfRuns.Given
  BY DEF Runs!Inv, Runs!TypeOK
<1>1. v4' = v4 /\ v5' = v5 /\ v6' = v6 /\ v7' = v7
      /\ v8' = v8 /\ v9' = v9
  BY DEF Runs!work
<1>2. \A n : Runs!To(n)' = Runs!To(n) /\ Runs!Origin(n)' = Runs!Origin(n)
  BY <1>0, RunsSame
<1>3. Runs!Running' = Runs!Running
  BY <1>1 DEF Runs!Running
<1>4. Runs!Values'
  BY <1>0, <1>1 DEF Runs!Values
<1>5. Runs!StoreInv'
  <2>1. \A n : Runs!Sent(n)' = Runs!Sent(n)
    BY <1>1, <1>2 DEF Runs!Sent
  <2> QED
    BY <1>0, <1>1, <1>2, <2>1 DEF Runs!StoreInv, Runs!Places
<1>6. Runs!ContextInv'
  <2>1. Runs!Copies' = Runs!Copies
    BY <1>0, RunsSame
  <2> QED
    BY <1>0, <1>1, <2>1 DEF Runs!ContextInv
<1> QED
  BY <1>3, <1>4, <1>5, <1>6

\* The steps before the fan-out: nothing was begun.
LEMMA RunsBefore ==
  ASSUME Runs!Inv,
         Runs!Check \/ Runs!ReadPart \/ Runs!ReadAll \/ Runs!ReadFails \/ Runs!Gate \/ Runs!Prepare
  PROVE  Runs!Inv'
<1>0. Runs!TypeOK /\ Runs!Values /\ Runs!BegunInv /\ Runs!StoreInv /\ Runs!ContextInv
      /\ Runs!ResultInv /\ v1 \in OfRuns.Given
      /\ OfRuns.Parts \in Nat \ {0}
  BY RunsGiven DEF Runs!Inv, Runs!TypeOK
<1>1. UNCHANGED <<v1, v11>> /\ UNCHANGED Runs!work /\ v2 \in {"check", "read", "gate", "prepare"}
  BY DEF Runs!Check, Runs!ReadPart, Runs!ReadAll, Runs!ReadFails, Runs!Gate, Runs!Prepare,
     Runs!Stays
<1>2. Runs!Running' = Runs!Running /\ Runs!Values' /\ Runs!StoreInv' /\ Runs!ContextInv'
  BY <1>1, RunsWork
<1>3. \A n \in OfRuns.Nodes : v4'[n] = "queued" /\ v6'[n] = 0 /\ v4[n] = "queued"
  BY <1>0, <1>1 DEF Runs!BegunInv, Runs!work
<1>4. v10 = Runs!NoExit /\ v2 # "done" /\ v3 \in 0..OfRuns.Parts
  BY <1>0, <1>1 DEF Runs!TypeOK
<1>5. /\ v2' \in {"read", "gate", "prepare", "run", "done"}
      /\ v10' \in {Runs!NoExit, 0, 1, 2, 130} /\ (v10' # Runs!NoExit <=> v2' = "done")
  BY <1>4 DEF Runs!Check, Runs!ReadPart, Runs!ReadAll, Runs!ReadFails, Runs!Gate, Runs!Prepare,
     Runs!Ends, Runs!NoExit
<1>6. v3' \in 0..OfRuns.Parts
  BY <1>0, <1>4 DEF Runs!Check, Runs!ReadPart, Runs!ReadAll, Runs!ReadFails, Runs!Gate,
     Runs!Prepare, Runs!Stays
<1>7. /\ Runs!Copies' = Runs!Copies
      /\ Runs!checkRemotePath(v1.remote)' = Runs!checkRemotePath(v1.remote)
      /\ Runs!Protects' = Runs!Protects /\ v1' = v1
  BY <1>1 DEF Runs!Copies, Runs!checkRemotePath, Runs!Protects
<1>8. /\ v2' \in {"read", "gate", "prepare", "run"} /\ Runs!Copies
         => Runs!checkRemotePath(v1.remote)
      /\ v2' \in {"gate", "prepare", "run"} /\ v1.stdin => v3' = OfRuns.Parts
      /\ v2' \in {"prepare", "run"} => ~Runs!Protects /\ ~v1.dry
  <2>1. CASE Runs!Check
    BY <2>1 DEF Runs!Check, Runs!Refused, Runs!Ends, Runs!Stays
  <2>2. CASE Runs!ReadPart
    BY <1>0, <2>2 DEF Runs!ReadPart, Runs!BegunInv
  <2>3. CASE Runs!ReadAll
    BY <1>0, <2>3 DEF Runs!ReadAll, Runs!BegunInv, Runs!Stays
  <2>4. CASE Runs!ReadFails
    BY <2>4 DEF Runs!ReadFails, Runs!Ends
  <2>5. CASE Runs!Gate
    BY <1>0, <2>5 DEF Runs!Gate, Runs!BegunInv, Runs!Ends, Runs!Stays
  <2>6. CASE Runs!Prepare
    BY <1>0, <2>6 DEF Runs!Prepare, Runs!BegunInv, Runs!LetThrough, Runs!Ends, Runs!Stays
  <2> QED
    BY <2>1, <2>2, <2>3, <2>4, <2>5, <2>6
<1>9. Runs!TypeOK'
  <2>1. v4' = v4 /\ v5' = v5 /\ v6' = v6 /\ v8' = v8
    BY <1>1 DEF Runs!work
  <2> QED
    BY <1>0, <1>2, <1>5, <1>6, <1>7, <2>1 DEF Runs!TypeOK
<1>10. Runs!BegunInv'
  BY <1>3, <1>7, <1>8 DEF Runs!BegunInv, Runs!LetThrough
<1>11. Runs!ResultInv'
  BY <1>3 DEF Runs!ResultInv
<1>12. Runs!ExitInv'
  BY <1>3, <1>7, RunsGiven, <1>0 DEF Runs!ExitInv
<1> QED
  BY <1>2, <1>9, <1>10, <1>11, <1>12 DEF Runs!Inv

\* The last node is over.
LEMMA RunsLast ==
  ASSUME Runs!Inv, Runs!RunOver
  PROVE  Runs!Inv'
<1>0. Runs!TypeOK /\ Runs!Values /\ Runs!BegunInv /\ Runs!StoreInv /\ Runs!ContextInv
      /\ Runs!ResultInv /\ v1 \in OfRuns.Given
  BY DEF Runs!Inv, Runs!TypeOK
<1>1. /\ UNCHANGED <<v1, v11, v3>> /\ UNCHANGED Runs!work /\ v2 = "run" /\ v2' = "done"
      /\ \A n \in v1.nodes : v4[n] = "over"
      /\ v10' = Runs!FailureError({v9[n] : n \in v1.nodes})
  BY DEF Runs!RunOver, Runs!Stays, Runs!Ends
<1>2. Runs!Running' = Runs!Running /\ Runs!Values' /\ Runs!StoreInv' /\ Runs!ContextInv'
  BY <1>1, RunsWork
<1>3. v4' = v4 /\ v5' = v5 /\ v6' = v6 /\ v8' = v8 /\ v9' = v9
  BY <1>1 DEF Runs!work
<1>4. v10' \in {0, 1, 3, 130}
  <2>1. v10' = Runs!FailureError({v9[n] : n \in v1.nodes})
    BY <1>1
  <2> QED
    BY <2>1, RunsExits, Zenon
<1>5. Runs!TypeOK'
  <2>1. v10' \in {Runs!NoExit, 0, 1, 2, 3, 130} /\ v10' # Runs!NoExit
    BY <1>4 DEF Runs!NoExit
  <2> QED
    BY <1>0, <1>1, <1>2, <1>3, <2>1 DEF Runs!TypeOK
<1>6. Runs!BegunInv'
  BY <1>0, <1>1, <1>3, RunsSame DEF Runs!BegunInv, Runs!LetThrough, Runs!Protects
<1>7. Runs!ResultInv'
  <2> SUFFICES ASSUME NEW m \in OfRuns.Nodes, v4'[m] = "over" PROVE Runs!ResultOf(m)'
    BY DEF Runs!ResultInv
  <2>1. Runs!ResultOf(m)
    BY <1>0, <1>3 DEF Runs!ResultInv
  <2>2. Runs!Copies' = Runs!Copies /\ Runs!Sends' = Runs!Sends
    BY <1>0, <1>1, RunsSame
  <2> QED
    BY <1>1, <1>3, <2>1, <2>2, RunsKept
<1>8. Runs!ExitInv'
  <2>1. {v9[n] : n \in v1.nodes}' = {v9[n] : n \in v1.nodes}
    BY <1>1, <1>3
  <2> QED
    BY <1>1, <1>3, <2>1 DEF Runs!ExitInv
<1> QED
  BY <1>2, <1>5, <1>6, <1>7, <1>8 DEF Runs!Inv

\* A node under way is one of the command, which is in its fan-out.
LEMMA RunsRunning ==
  ASSUME Runs!Inv, NEW n \in OfRuns.Nodes, v4[n] = "running"
  PROVE  v2 = "run" /\ n \in v1.nodes /\ Runs!LetThrough
<1>1. v2 \in {"run", "done"} /\ Runs!LetThrough /\ n \in v1.nodes
  BY DEF Runs!Inv, Runs!BegunInv
<1>2. v2 # "done"
  BY <1>1 DEF Runs!Inv, Runs!ExitInv
<1> QED
  BY <1>1, <1>2

\* A worker takes a node.
LEMMA RunsStart ==
  ASSUME Runs!Inv, NEW n \in OfRuns.Nodes, Runs!Start(n)
  PROVE  Runs!Inv'
<1>0. Runs!TypeOK /\ Runs!Values /\ Runs!BegunInv /\ Runs!StoreInv /\ Runs!ContextInv
      /\ Runs!ResultInv /\ v1 \in OfRuns.Given
  BY DEF Runs!Inv, Runs!TypeOK
<1>1. /\ v2 = "run" /\ n \in v1.nodes /\ v4[n] = "queued" /\ ~v11
      /\ Runs!Cardinality(Runs!Running) < v1.max /\ v4' = [v4 EXCEPT ![n] = "running"]
      /\ UNCHANGED <<v1, v2, v3, v5, v6, v7, v8, v9, v10, v11>>
  BY DEF Runs!Start
<1>2. /\ v4' \in [OfRuns.Nodes -> {"queued", "running", "over"}] /\ v4'[n] = "running"
      /\ \A m \in OfRuns.Nodes : m # n => v4'[m] = v4[m]
  BY <1>0, <1>1 DEF Runs!TypeOK
<1>3. Runs!TypeOK'
  <2>1. Runs!Running' = Runs!Running \cup {n}
    BY <1>0, <1>1, <1>2, RunsGiven DEF Runs!Running
  <2>2. Runs!Cardinality(Runs!Running') <= v1.max
    <3>1. /\ Runs!Cardinality(Runs!Running) \in Nat
          /\ Runs!Cardinality(Runs!Running \cup {n}) \in Nat
          /\ v1.max \in Nat
          /\ Runs!Cardinality(Runs!Running \cup {n}) <= Runs!Cardinality(Runs!Running) + 1
          /\ Runs!Cardinality(Runs!Running) < v1.max
      BY <1>0, <1>1, RunsFinite
    <3> QED
      BY <2>1, <3>1
  <2>3. \A m \in OfRuns.Nodes : v8'[m] # "" <=> v4'[m] = "over"
    BY <1>0, <1>1, <1>2 DEF Runs!TypeOK
  <2>4. Runs!Cardinality(Runs!Running)' <= v1'.max
    BY <1>1, <2>2
  <2> QED
    BY <1>0, <1>1, <1>2, <2>3, <2>4 DEF Runs!TypeOK
<1>4. Runs!Values'
  BY <1>0, <1>1 DEF Runs!Values
<1>5. Runs!BegunInv'
  <2>1. Runs!LetThrough' /\ Runs!LetThrough
    BY <1>0, <1>1, RunsSame DEF Runs!BegunInv, Runs!LetThrough, Runs!Protects
  <2> QED
    BY <1>0, <1>1, <1>2, <2>1 DEF Runs!BegunInv
<1>6. Runs!StoreInv'
  <2>1. \A m : Runs!To(m)' = Runs!To(m) /\ Runs!Sent(m)' = Runs!Sent(m)
    BY <1>0, <1>1, RunsSame DEF Runs!Sent
  <2> QED
    BY <1>0, <1>1, <2>1 DEF Runs!StoreInv, Runs!Places
<1>7. Runs!ContextInv'
  <2>1. Runs!Copies' = Runs!Copies
    BY <1>0, <1>1, RunsSame
  <2> QED
    BY <1>0, <1>1, <1>2, <2>1 DEF Runs!ContextInv
<1>8. Runs!ResultInv'
  <2> SUFFICES ASSUME NEW m \in OfRuns.Nodes, v4'[m] = "over" PROVE Runs!ResultOf(m)'
    BY DEF Runs!ResultInv
  <2>1. Runs!ResultOf(m)
    BY <1>0, <1>1, <1>2 DEF Runs!ResultInv
  <2>2. Runs!Copies' = Runs!Copies /\ Runs!Sends' = Runs!Sends
    BY <1>0, <1>1, RunsSame
  <2> QED
    BY <1>1, <2>1, <2>2, RunsKept
<1>9. Runs!ExitInv'
  BY <1>1 DEF Runs!ExitInv
<1> QED
  BY <1>3, <1>4, <1>5, <1>6, <1>7, <1>8, <1>9 DEF Runs!Inv

\* A node is over, with a result that is accounted for.
LEMMA RunsOver ==
  ASSUME Runs!Inv, v2 = "run", NEW n \in v1.nodes, v4[n] # "over",
         NEW how \in Runs!Hows \cup {"not_started", "panic"}, NEW r, Runs!Over(n, how, r),
           Runs!LetThrough,
         Runs!ResultOf(n)'
  PROVE  Runs!Inv'
<1>0. Runs!TypeOK /\ Runs!Values /\ Runs!BegunInv /\ Runs!StoreInv /\ Runs!ContextInv
      /\ Runs!ResultInv /\ v1 \in OfRuns.Given
      /\ n \in OfRuns.Nodes
  BY RunsGiven DEF Runs!Inv, Runs!TypeOK
<1>1. /\ v4' = [v4 EXCEPT ![n] = "over"] /\ v8' = [v8 EXCEPT ![n] = how]
      /\ v9' = [v9 EXCEPT ![n] = r]
      /\ UNCHANGED <<v1, v2, v3, v5, v6, v7, v10, v11>>
  BY DEF Runs!Over
<1>2. /\ v4' \in [OfRuns.Nodes -> {"queued", "running", "over"}] /\ v4'[n] = "over"
      /\ \A m \in OfRuns.Nodes : m # n => v4'[m] = v4[m]
  <2>1. v4 \in [OfRuns.Nodes -> {"queued", "running", "over"}] /\ n \in OfRuns.Nodes
    BY <1>0 DEF Runs!TypeOK
  <2> QED
    BY <1>1, <2>1
<1>3. /\ v8' \in [OfRuns.Nodes -> Runs!Hows \cup {"", "not_started", "panic"}] /\ v8'[n] = how
      /\ \A m \in OfRuns.Nodes : m # n => v8'[m] = v8[m]
  BY <1>0, <1>1 DEF Runs!Values
<1>4. DOMAIN v9' = OfRuns.Nodes /\ \A m \in OfRuns.Nodes : m # n => v9'[m] = v9[m]
  BY <1>0, <1>1 DEF Runs!Values
<1>5. Runs!TypeOK'
  <2>1. Runs!Running' \in SUBSET Runs!Running
    BY <1>0, <1>1, <1>2, RunsGiven DEF Runs!Running
  <2>2. /\ Runs!Cardinality(Runs!Running) \in Nat /\ Runs!Cardinality(Runs!Running') \in Nat
        /\ v1.max \in Nat
        /\ Runs!Cardinality(Runs!Running') <= Runs!Cardinality(Runs!Running)
    BY <1>0, <2>1, RunsFinite
  <2>3. Runs!Cardinality(Runs!Running') <= v1.max
    <3>1. Runs!Cardinality(Runs!Running) <= v1.max
      BY <1>0 DEF Runs!TypeOK
    <3> QED
      BY <2>2, <3>1
  <2>4. how # ""
    BY DEF Runs!Hows
  <2>5. ASSUME NEW m \in OfRuns.Nodes PROVE v8'[m] # "" <=> v4'[m] = "over"
    <3>1. v8[m] # "" <=> v4[m] = "over"
      BY <1>0 DEF Runs!TypeOK
    <3> QED
      BY <1>2, <1>3, <2>4, <3>1
  <2> QED
    BY <1>0, <1>1, <1>2, <2>3, <2>5 DEF Runs!TypeOK
<1>6. Runs!Values'
  BY <1>0, <1>1, <1>3, <1>4 DEF Runs!Values, Runs!Places
<1>7. Runs!BegunInv'
  <2>1. Runs!LetThrough'
    BY <1>1, RunsSame, <1>0 DEF Runs!LetThrough, Runs!Protects
  <2> QED
    BY <1>0, <1>1, <1>2, <2>1 DEF Runs!BegunInv
<1>8. Runs!StoreInv'
  <2>1. \A m : Runs!To(m)' = Runs!To(m) /\ Runs!Sent(m)' = Runs!Sent(m)
    BY <1>0, <1>1, RunsSame DEF Runs!Sent
  <2> QED
    BY <1>0, <1>1, <2>1 DEF Runs!StoreInv, Runs!Places
<1>9. Runs!ContextInv'
  <2>1. Runs!Copies' = Runs!Copies
    BY <1>0, <1>1, RunsSame
  <2> QED
    BY <1>0, <1>1, <1>2, <2>1 DEF Runs!ContextInv
<1>10. Runs!ResultInv'
  <2> SUFFICES ASSUME NEW m \in OfRuns.Nodes, v4'[m] = "over", m # n PROVE Runs!ResultOf(m)'
    BY DEF Runs!ResultInv
  <2>1. Runs!ResultOf(m) /\ v8'[m] = v8[m] /\ v9'[m] = v9[m]
    BY <1>0, <1>2, <1>3, <1>4 DEF Runs!ResultInv
  <2>2. Runs!Copies' = Runs!Copies /\ Runs!Sends' = Runs!Sends
    BY <1>0, <1>1, RunsSame
  <2> QED
    BY <1>1, <2>1, <2>2, RunsKept
<1>11. Runs!ExitInv'
  BY <1>1 DEF Runs!ExitInv
<1> QED
  BY <1>5, <1>6, <1>7, <1>8, <1>9, <1>10, <1>11 DEF Runs!Inv

\* A node is not begun, or its runner panics.
LEMMA RunsNotBegun ==
  ASSUME Runs!Inv, NEW n \in OfRuns.Nodes, Runs!NotStarted(n) \/ Runs!Panic(n)
  PROVE  Runs!Inv'
<1>0. Runs!TypeOK /\ Runs!Values /\ Runs!BegunInv /\ Runs!ContextInv /\ v1 \in OfRuns.Given
  BY DEF Runs!Inv, Runs!TypeOK
<1>1. CASE Runs!NotStarted(n)
  <2> DEFINE r == [err |-> "canceled", code |-> Runs!NoCode, out |-> ""]
  <2>1. v2 = "run" /\ n \in v1.nodes /\ v4[n] = "queued" /\ v11
        /\ Runs!Over(n, "not_started", r)
    BY <1>1 DEF Runs!NotStarted
  <2>2. v5'[n] = "canceled" /\ v8'[n] = "not_started" /\ v9'[n] = r
    BY <1>0, <2>1 DEF Runs!Over, Runs!ContextInv, Runs!Values
  <2>3. Runs!ResultOf(n)'
    <3>1. r.err = "canceled" /\ r.code = Runs!NoCode
      OBVIOUS
    <3> HIDE DEF r
    <3>2. v8'[n] = "not_started" /\ v9'[n].err = "canceled" /\ v9'[n].code = Runs!NoCode
      BY <2>2, <3>1
    <3> QED
      BY <2>2, <3>2, Zenon DEF Runs!ResultOf
  <2>4. Runs!LetThrough
    BY <1>0, <2>1 DEF Runs!BegunInv
  <2> HIDE DEF r
  <2> QED
    BY <2>1, <2>3, <2>4, RunsOver
<1>2. CASE Runs!Panic(n)
  <2> DEFINE r == [err |-> "target", code |-> Runs!NoCode, out |-> ""]
  <2>1. v4[n] = "running" /\ Runs!Over(n, "panic", r)
    BY <1>2 DEF Runs!Panic, Runs!Running
  <2>2. v8'[n] = "panic" /\ v9'[n] = r
    BY <1>0, <2>1 DEF Runs!Over, Runs!Values
  <2>3. Runs!ResultOf(n)'
    <3>1. r.err = "target" /\ r.code = Runs!NoCode
      OBVIOUS
    <3> HIDE DEF r
    <3>2. v8'[n] = "panic" /\ v9'[n].err = "target" /\ v9'[n].code = Runs!NoCode
      BY <2>2, <3>1
    <3> QED
      BY <2>2, <3>2, Zenon DEF Runs!ResultOf
  <2>4. v2 = "run" /\ n \in v1.nodes /\ Runs!LetThrough
    BY <2>1, RunsRunning
  <2> HIDE DEF r
  <2> QED
    BY <2>1, <2>3, <2>4, RunsOver
<1> QED
  BY <1>1, <1>2

\* An ssh or scp ends.
LEMMA RunsReturn ==
  ASSUME Runs!Inv, NEW n \in OfRuns.Nodes, Runs!Return(n)
  PROVE  Runs!Inv'
<1>0. Runs!TypeOK /\ Runs!Values /\ Runs!BegunInv /\ Runs!ContextInv /\ v1 \in OfRuns.Given
  BY DEF Runs!Inv, Runs!TypeOK
<1>1. PICK how \in Runs!Hows, out \in (IF Runs!Copies THEN {""} ELSE OfRuns.Outputs) :
        /\ n \in Runs!Running /\ Runs!CanEnd(n, how)
        /\ Runs!Over(n, how,
                     IF Runs!givenUp(n) THEN [err |-> "transport", code |-> Runs!NoCode,
                       out |-> out]
                     ELSE [err |-> Runs!classify(how, v5[n]), code |-> Runs!Code(how), out |-> out])
  BY DEF Runs!Return, Runs!Hows
<1> DEFINE r == IF Runs!givenUp(n) THEN [err |-> "transport", code |-> Runs!NoCode, out |-> out]
                ELSE [err |-> Runs!classify(how, v5[n]), code |-> Runs!Code(how), out |-> out]
<1>2. v4[n] = "running" /\ Runs!Over(n, how, r)
  BY <1>1, Zenon DEF Runs!Running
<1>3. v2 = "run" /\ n \in v1.nodes /\ Runs!LetThrough
  BY <1>2, RunsRunning
<1> HIDE DEF r
<1>4. v8'[n] = how /\ v9'[n] = r /\ UNCHANGED <<v1, v3, v5, v6, v11>>
  BY <1>0, <1>2 DEF Runs!Over, Runs!Values
<1>5. Runs!ResultOf(n)'
  <2>1. CASE Runs!givenUp(n)
    <3>1. r = [err |-> "transport", code |-> Runs!NoCode, out |-> out]
      BY <2>1, Zenon DEF r
    <3>a. r.err = "transport" /\ r.code = Runs!NoCode
      BY <3>1
    <3>2. v9'[n].err = "transport" /\ v9'[n].code = Runs!NoCode
      BY <1>4, <3>a
    <3>3. v5'[n] = "deadline"
      BY <1>4, <2>1 DEF Runs!givenUp
    <3> QED
      BY <1>4, <3>2, <3>3, Zenon DEF Runs!ResultOf
  <2>2. CASE ~Runs!givenUp(n)
    <3>0. r = [err |-> Runs!classify(how, v5[n]), code |-> Runs!Code(how), out |-> out]
      BY <2>2, Zenon DEF r
    <3>a. r.err = Runs!classify(how, v5[n]) /\ r.code = Runs!Code(how)
      BY <3>0
    <3>1. v9'[n].err = Runs!classify(how, v5[n]) /\ v9'[n].code = Runs!Code(how)
      BY <1>4, <3>a
    <3>2. v5[n] = "deadline" => v11
      BY <1>0, <2>2 DEF Runs!givenUp, Runs!ContextInv
    <3>3. /\ how = "ok" /\ Runs!Sends => v6[n] = (IF Runs!Copies THEN OfRuns.Parts ELSE v3)
          /\ how = "stopped" => v5[n] # ""
      BY <1>1 DEF Runs!CanEnd, Runs!reader
    <3>4. Runs!Copies' = Runs!Copies /\ Runs!Sends' = Runs!Sends
      BY <1>0, <1>4, RunsSame
    <3>5. Runs!classify(how, v5[n]) = Runs!classify(v8[n], v5[n])'
          /\ Runs!Code(how) = Runs!Code(v8[n])'
      BY <1>4
    <3> QED
      BY <1>4, <3>1, <3>2, <3>3, <3>4, <3>5 DEF Runs!ResultOf
  <2> QED
    BY <2>1, <2>2
<1> QED
  BY <1>2, <1>3, <1>5, RunsOver

\* A part is carried to its place.
LEMMA RunsCarry ==
  ASSUME Runs!Inv, NEW n \in OfRuns.Nodes, Runs!Carry(n)
  PROVE  Runs!Inv'
<1>0. Runs!TypeOK /\ Runs!Values /\ Runs!BegunInv /\ Runs!StoreInv /\ Runs!ContextInv
      /\ Runs!ResultInv /\ Runs!ExitInv
      /\ v1 \in OfRuns.Given /\ OfRuns.Parts \in Nat \ {0} /\ v1.nodes \subseteq OfRuns.Nodes
  BY RunsGiven DEF Runs!Inv, Runs!TypeOK
<1> DEFINE p == v6[n] + 1
           part == <<Runs!From(n), p>>
<1>1. /\ v4[n] = "running" /\ v6[n] < (IF Runs!Copies THEN OfRuns.Parts ELSE v3)
      /\ v7' = [v7 EXCEPT ![Runs!To(n)] = IF p = 1 THEN {part} ELSE @ \cup {part}]
      /\ v6' = [v6 EXCEPT ![n] = p]
      /\ UNCHANGED <<v1, v2, v3, v4, v5, v8, v9, v10, v11>>
  BY DEF Runs!Carry, Runs!reader, Runs!Running
<1>2. v2 = "run" /\ n \in v1.nodes /\ Runs!LetThrough
  BY <1>1, RunsRunning
<1>3. Runs!Copies => Runs!checkRemotePath(v1.remote)
  BY <1>2 DEF Runs!LetThrough
<1>4. Runs!From(n) = Runs!Origin(n) /\ Runs!To(n) \in Runs!Places
  BY <1>0, <1>3, RunsTransfer DEF Runs!Places
<1>a. v6 \in [OfRuns.Nodes -> 0..OfRuns.Parts] /\ v3 \in 0..OfRuns.Parts /\ OfRuns.Parts \in Nat
  BY <1>0 DEF Runs!TypeOK
<1>b. v6[n] < OfRuns.Parts
  <2>1. CASE Runs!Copies
    BY <1>1, <2>1
  <2>2. CASE ~Runs!Copies
    <3>1. v6[n] < v3
      BY <1>1, <2>2
    <3> QED
      BY <1>a, <3>1
  <2> QED
    BY <2>1, <2>2
<1>5. v6[n] \in Nat /\ p \in 0..OfRuns.Parts /\ p \in Nat /\ p > 0
  BY <1>a, <1>b
<1>6. /\ v6' \in [OfRuns.Nodes -> 0..OfRuns.Parts] /\ v6'[n] = p
      /\ \A m \in OfRuns.Nodes : m # n => v6'[m] = v6[m]
  <2>1. v6' = [v6 EXCEPT ![n] = p]
    BY <1>1
  <2> HIDE DEF p
  <2> QED
    BY <1>a, <1>5, <2>1
<1>7. /\ DOMAIN v7' = Runs!Places
      /\ v7'[Runs!To(n)] = (IF p = 1 THEN {part} ELSE v7[Runs!To(n)] \cup {part})
      /\ \A x \in Runs!Places : x # Runs!To(n) => v7'[x] = v7[x]
  BY <1>0, <1>1, <1>4 DEF Runs!Values
<1>8. Runs!Running' = Runs!Running
  BY <1>1 DEF Runs!Running
<1>9. Runs!TypeOK'
  BY <1>0, <1>1, <1>6, <1>8 DEF Runs!TypeOK
<1>10. Runs!Values'
  BY <1>0, <1>1, <1>7 DEF Runs!Values, Runs!Places
<1>11. Runs!BegunInv'
  <2>1. Runs!LetThrough'
    BY <1>0, <1>1, <1>2, RunsSame DEF Runs!LetThrough, Runs!Protects
  <2> QED
    BY <1>0, <1>1, <1>6, <2>1 DEF Runs!BegunInv
<1>12. Runs!StoreInv'
  <2>1. \A m : Runs!To(m)' = Runs!To(m) /\ Runs!Origin(m)' = Runs!Origin(m)
    BY <1>0, <1>1, RunsSame
  <2>2. v7'[Runs!To(n)] = {<<Runs!Origin(n), q>> : q \in 1..p}
    <3>1. CASE p = 1
      <4>1. 1..p = {1}
        BY <3>1
      <4> QED
        BY <1>4, <1>7, <3>1, <4>1
    <3>2. CASE p # 1
      <4>1. v6[n] > 0 /\ 1..p = (1..v6[n]) \cup {p}
        BY <1>5, <3>2
      <4>2. v7[Runs!To(n)] = {<<Runs!Origin(n), q>> : q \in 1..v6[n]}
        BY <1>0, <1>2, <4>1 DEF Runs!StoreInv, Runs!Sent
      <4>3. v7'[Runs!To(n)] = v7[Runs!To(n)] \cup {<<Runs!Origin(n), p>>}
        BY <1>4, <1>7, <3>2
      <4> QED
        BY <4>1, <4>2, <4>3
    <3> QED
      BY <3>1, <3>2
  <2>3. \A m \in v1.nodes : m # n => Runs!To(m) # Runs!To(n) /\ Runs!To(m) \in Runs!Places
    BY <1>0, <1>2, <1>3, RunsOwn, RunsTransfer DEF Runs!Places
  <2>4. ASSUME NEW m \in v1.nodes,
               v6'[m] > 0 PROVE v7'[Runs!To(m)] = {<<Runs!Origin(m), q>> : q \in 1..v6'[m]}
    <3>1. CASE m = n
      BY <1>6, <2>2, <3>1
    <3>2. CASE m # n
      <4>1. v6'[m] = v6[m] /\ v7'[Runs!To(m)] = v7[Runs!To(m)]
        BY <1>0, <1>6, <1>7, <2>3, <3>2
      <4>2. v7[Runs!To(m)] = {<<Runs!Origin(m), q>> : q \in 1..v6[m]}
        BY <1>0, <2>4, <4>1 DEF Runs!StoreInv, Runs!Sent
      <4> QED
        BY <4>1, <4>2
    <3> QED
      BY <3>1, <3>2
  <2>5. ASSUME NEW x \in Runs!Places,
               \A m \in v1.nodes : Runs!To(m) = x => v6'[m] = 0 PROVE v7'[x] = {Runs!Old}
    <3>1. x # Runs!To(n)
      BY <1>2, <1>5, <1>6, <2>5
    <3>2. \A m \in v1.nodes : Runs!To(m) = x => v6[m] = 0
      BY <1>0, <1>6, <2>5, <3>1
    <3>3. v7[x] = {Runs!Old}
      BY <1>0, <3>2 DEF Runs!StoreInv
    <3> QED
      BY <1>7, <3>1, <3>3
  <2>6. \A m : Runs!Sent(m)' = {<<Runs!Origin(m), q>> : q \in 1..v6'[m]}
    BY <2>1 DEF Runs!Sent
  <2>7. Runs!Places' = Runs!Places /\ v1' = v1
    BY <1>1 DEF Runs!Places
  <2> HIDE DEF p, part
  <2>8. \A m \in v1'.nodes : v6'[m] > 0 => v7'[Runs!To(m)'] = Runs!Sent(m)'
    BY <2>1, <2>4, <2>6, <2>7
  <2>9. \A x \in Runs!Places : (\A m \in v1'.nodes : Runs!To(m)' = x => v6'[m] = 0)
        => v7'[x] = {Runs!Old}
    BY <2>1, <2>5, <2>7
  <2> QED
    BY <2>7, <2>8, <2>9 DEF Runs!StoreInv
<1>13. Runs!ContextInv'
  <2>1. Runs!Copies' = Runs!Copies
    BY <1>0, <1>1, RunsSame
  <2> QED
    BY <1>0, <1>1, <2>1 DEF Runs!ContextInv
<1>14. Runs!ResultInv'
  <2> SUFFICES ASSUME NEW m \in OfRuns.Nodes, v4'[m] = "over" PROVE Runs!ResultOf(m)'
    BY DEF Runs!ResultInv
  <2>1. Runs!ResultOf(m) /\ m # n /\ v6'[m] = v6[m]
    BY <1>0, <1>1, <1>6 DEF Runs!ResultInv
  <2>2. Runs!Copies' = Runs!Copies /\ Runs!Sends' = Runs!Sends
    BY <1>0, <1>1, RunsSame
  <2> QED
    BY <1>1, <2>1, <2>2, RunsKept
<1>15. Runs!ExitInv'
  BY <1>1, <1>2 DEF Runs!ExitInv
<1> QED
  BY <1>9, <1>10, <1>11, <1>12, <1>13, <1>14, <1>15 DEF Runs!Inv

\* The time of a transfer is over, or the interrupt comes.
LEMMA RunsContext ==
  ASSUME Runs!Inv, Runs!Interrupt \/ \E n \in OfRuns.Nodes : Runs!Expire(n)
  PROVE  Runs!Inv'
<1>0. Runs!TypeOK /\ Runs!Values /\ Runs!BegunInv /\ Runs!StoreInv /\ Runs!ContextInv
      /\ Runs!ResultInv /\ Runs!ExitInv /\ v1 \in OfRuns.Given
  BY DEF Runs!Inv, Runs!TypeOK
<1>1. UNCHANGED <<v1, v2, v3, v4, v6, v7, v8, v9, v10>>
  BY DEF Runs!Interrupt, Runs!Expire
<1>2. /\ v5' \in [OfRuns.Nodes -> {"", "canceled", "deadline"}]
      /\ \A n \in OfRuns.Nodes : v4[n] = "over" => v5'[n] = v5[n]
      /\ \A n \in OfRuns.Nodes : v5'[n] = "canceled" => v5[n] = "canceled" \/ v11'
      /\ \A n \in OfRuns.Nodes : v5'[n] = "deadline" => v5[n] = "deadline" \/ Runs!Copies
      /\ \A n \in OfRuns.Nodes : v4[n] = "queued" =>
           /\ v11' => v5'[n] = "canceled"
           /\ ~v11' => v5'[n] = ""
      /\ v11 => v11'
  <2>0. /\ v5 \in [OfRuns.Nodes -> {"", "canceled", "deadline"}]
        /\ \A n \in OfRuns.Nodes : v4[n] = "queued" =>
             (v11 => v5[n] = "canceled") /\ (~v11 => v5[n] = "")
    BY <1>0 DEF Runs!TypeOK, Runs!ContextInv
  <2>1. CASE Runs!Interrupt
    <3>1. /\ ~v11 /\ v11'
          /\ v5' = [n \in OfRuns.Nodes |->
               IF v5[n] = "" /\ v4[n] # "over" THEN "canceled" ELSE v5[n]]
      BY <2>1 DEF Runs!Interrupt
    <3> QED
      BY <2>0, <3>1
  <2>2. CASE \E n \in OfRuns.Nodes : Runs!Expire(n)
    <3>1. PICK n \in OfRuns.Nodes :
            v4[n] = "running" /\ Runs!Copies /\ v5' = [v5 EXCEPT ![n] = "deadline"] /\ v11' = v11
      BY <2>2 DEF Runs!Expire, Runs!Running
    <3> QED
      BY <2>0, <3>1
  <2> QED
    BY <2>1, <2>2
<1>3. Runs!Running' = Runs!Running
  BY <1>1 DEF Runs!Running
<1>4. Runs!TypeOK'
  BY <1>0, <1>1, <1>2, <1>3 DEF Runs!TypeOK
<1>5. Runs!Values'
  BY <1>0, <1>1 DEF Runs!Values, Runs!Places
<1>6. Runs!BegunInv'
  <2>1. Runs!LetThrough' = Runs!LetThrough /\ Runs!Copies' = Runs!Copies
    BY <1>0, <1>1, RunsSame DEF Runs!LetThrough, Runs!Protects
  <2> QED
    BY <1>0, <1>1, <2>1 DEF Runs!BegunInv
<1>7. Runs!StoreInv'
  <2>1. \A m : Runs!To(m)' = Runs!To(m) /\ Runs!Sent(m)' = Runs!Sent(m)
    BY <1>0, <1>1, RunsSame DEF Runs!Sent
  <2> QED
    BY <1>0, <1>1, <2>1 DEF Runs!StoreInv, Runs!Places
<1>8. Runs!ContextInv'
  <2>1. Runs!Copies' = Runs!Copies
    BY <1>0, <1>1, RunsSame
  <2> QED
    BY <1>0, <1>1, <1>2, <2>1 DEF Runs!ContextInv
<1>9. Runs!ResultInv'
  <2> SUFFICES ASSUME NEW m \in OfRuns.Nodes, v4'[m] = "over" PROVE Runs!ResultOf(m)'
    BY DEF Runs!ResultInv
  <2>1. Runs!ResultOf(m) /\ v5'[m] = v5[m]
    BY <1>0, <1>1, <1>2 DEF Runs!ResultInv
  <2>2. Runs!Copies' = Runs!Copies /\ Runs!Sends' = Runs!Sends
    BY <1>0, <1>1, RunsSame
  <2> QED
    BY <1>1, <1>2, <2>1, <2>2, RunsKept
<1>10. Runs!ExitInv'
  <2>1. {v9[n] : n \in v1.nodes}' = {v9[n] : n \in v1.nodes}
    BY <1>1
  <2> QED
    BY <1>0, <1>1, <2>1 DEF Runs!ExitInv
<1> QED
  BY <1>4, <1>5, <1>6, <1>7, <1>8, <1>9, <1>10 DEF Runs!Inv

\* Every step keeps the invariant.
LEMMA RunsStep ==
  ASSUME Runs!Inv, [Runs!Next]_(Runs!vars)
  PROVE  Runs!Inv'
<1>1. CASE Runs!Check \/ Runs!ReadPart \/ Runs!ReadAll \/ Runs!ReadFails \/ Runs!Gate
           \/ Runs!Prepare
  BY <1>1, RunsBefore
<1>2. CASE Runs!Interrupt
  BY <1>2, RunsContext
<1>3. CASE Runs!RunOver
  BY <1>3, RunsLast
<1>4. ASSUME NEW n \in OfRuns.Nodes,
             Runs!Start(n) \/ Runs!NotStarted(n) \/ Runs!Panic(n) \/ Runs!Carry(n)
               \/ Runs!Expire(n) \/ Runs!Return(n)
      PROVE  Runs!Inv'
  <2>1. CASE Runs!Start(n)
    BY <2>1, RunsStart
  <2>2. CASE Runs!NotStarted(n) \/ Runs!Panic(n)
    BY <2>2, RunsNotBegun
  <2>3. CASE Runs!Carry(n)
    BY <2>3, RunsCarry
  <2>4. CASE Runs!Expire(n)
    BY <2>4, RunsContext
  <2>5. CASE Runs!Return(n)
    BY <2>5, RunsReturn
  <2> QED
    BY <1>4, <2>1, <2>2, <2>3, <2>4, <2>5
<1>5. CASE UNCHANGED Runs!vars
  <2>1. UNCHANGED <<v1, v11, v2, v3, v10, v8, v9, v4, v5, v6>>
        /\ UNCHANGED Runs!work
    BY <1>5 DEF Runs!vars, Runs!work
  <2>2. Runs!TypeOK /\ Runs!BegunInv /\ Runs!ResultInv /\ Runs!ExitInv /\ v1 \in OfRuns.Given
    BY DEF Runs!Inv, Runs!TypeOK
  <2>3. Runs!Running' = Runs!Running /\ Runs!Values' /\ Runs!StoreInv' /\ Runs!ContextInv'
    BY <2>1, RunsWork
  <2>4. Runs!TypeOK'
    BY <2>1, <2>2, <2>3 DEF Runs!TypeOK
  <2>5. Runs!BegunInv'
    BY <2>1, <2>2, RunsSame DEF Runs!BegunInv, Runs!LetThrough, Runs!Protects
  <2>6. Runs!ResultInv'
    <3> SUFFICES ASSUME NEW m \in OfRuns.Nodes, v4'[m] = "over" PROVE Runs!ResultOf(m)'
      BY DEF Runs!ResultInv
    <3>1. Runs!ResultOf(m)
      BY <2>1, <2>2 DEF Runs!ResultInv
    <3>2. Runs!Copies' = Runs!Copies /\ Runs!Sends' = Runs!Sends
      BY <2>1, <2>2, RunsSame
    <3> QED
      BY <2>1, <3>1, <3>2, RunsKept
  <2>7. Runs!ExitInv'
    <3>1. {v9[n] : n \in v1.nodes}' = {v9[n] : n \in v1.nodes}
      BY <2>1
    <3> QED
      BY <2>1, <2>2, <3>1 DEF Runs!ExitInv
  <2> QED
    BY <2>3, <2>4, <2>5, <2>6, <2>7 DEF Runs!Inv
<1> QED
  BY <1>1, <1>2, <1>3, <1>4, <1>5 DEF Runs!Next

\* What a result says of how it came about.
LEMMA RunsResult ==
  ASSUME Runs!Inv, NEW n \in OfRuns.Nodes, v4[n] = "over"
  PROVE  /\ v9[n].err = "canceled" <=> v5[n] = "canceled" /\ v8[n] \notin {"ok", "panic"}
         /\ v9[n].err = "transport" => v8[n] \in {"255", "held"} \/ v5[n] = "deadline"
         /\ ~Runs!Failed(v9[n]) =>
              v8[n] = "ok" /\ (Runs!Sends => v6[n] = IF Runs!Copies THEN OfRuns.Parts ELSE v3)
         /\ v8[n] = "status" /\ v5[n] = "" => v9[n].err = "target" /\ v9[n].code = 1
         /\ v8[n] = "255" /\ v5[n] = "" => v9[n].err = "transport"
         /\ v5[n] = "deadline" /\ ~v11 /\ v8[n] # "panic" =>
              v9[n].err = "transport"
<1> DEFINE e == v8[n]
           c == v5[n]
           r == v9[n]
           limit == IF Runs!Copies THEN OfRuns.Parts ELSE v3
<1>1. Runs!ResultOf(n) /\ c \in {"", "canceled", "deadline"}
  BY DEF Runs!Inv, Runs!ResultInv, Runs!TypeOK
<1>2. \/ e = "not_started" /\ c = "canceled" /\ r.err = "canceled"
      \/ e = "panic" /\ r.err = "target"
      \/ e \in Runs!Hows /\ c = "deadline" /\ r.err = "transport"
      \/ /\ e \in Runs!Hows /\ (c = "deadline" => v11)
         /\ e = "ok" /\ Runs!Sends => v6[n] = limit
         /\ e = "stopped" => c # ""
         /\ r.err = Runs!classify(e, c) /\ r.code = Runs!Code(e)
  BY <1>1, Zenon DEF Runs!ResultOf
<1> DEFINE Says ==
             /\ r.err = "canceled" <=> c = "canceled" /\ e \notin {"ok", "panic"}
             /\ r.err = "transport" => e \in {"255", "held"} \/ c = "deadline"
             /\ r.err = "" => e = "ok" /\ (Runs!Sends => v6[n] = limit)
             /\ e = "status" /\ c = "" => r.err = "target" /\ r.code = 1
             /\ e = "255" /\ c = "" => r.err = "transport"
             /\ c = "deadline" /\ ~v11 /\ e # "panic" => r.err = "transport"
<1>a. ~Runs!Failed(r) => r.err = ""
  BY DEF Runs!Failed
<1> SUFFICES Says
  BY <1>a
<1> HIDE DEF e, c, r, limit
<1>3. CASE e = "not_started" /\ c = "canceled" /\ r.err = "canceled"
  BY <1>3 DEF Says
<1>4. CASE e = "panic" /\ r.err = "target"
  BY <1>4 DEF Says
<1>5. CASE e \in Runs!Hows /\ c = "deadline" /\ r.err = "transport"
  BY <1>5 DEF Says, Runs!Hows
<1>6. CASE /\ e \in Runs!Hows /\ (c = "deadline" => v11)
           /\ e = "ok" /\ Runs!Sends => v6[n] = limit
           /\ e = "stopped" => c # ""
           /\ r.err = Runs!classify(e, c) /\ r.code = Runs!Code(e)
  <2>1. CASE e = "ok"
    <3>1. r.err = ""
      BY <1>6, <2>1, RunsClassify
    <3>2. Runs!Sends => v6[n] = limit
      BY <1>6, <2>1
    <3> QED
      BY <1>6, <2>1, <3>1, <3>2 DEF Says
  <2>2. CASE e # "ok" /\ c # ""
    <3>1. r.err = c
      BY <1>6, <2>2, RunsClassify DEF Runs!Hows
    <3>2. c \in {"canceled", "deadline"}
      BY <1>1, <2>2
    <3>3. e # "panic" /\ (c = "deadline" => v11)
      BY <1>6 DEF Runs!Hows
    <3> QED
      BY <2>2, <3>1, <3>2, <3>3 DEF Says
  <2>3. CASE e # "ok" /\ c = ""
    <3>1. e \in {"status", "255", "held"}
      BY <1>6, <2>3 DEF Runs!Hows
    <3>2. CASE e = "status"
      <4>1. r.err = "target" /\ r.code = 1
        BY <1>6, <2>3, <3>2, RunsClassify, RunsCode
      <4> QED
        BY <2>3, <3>2, <4>1 DEF Says
    <3>3. CASE e \in {"255", "held"}
      <4>1. r.err = "transport"
        BY <1>6, <2>3, <3>3, RunsClassify
      <4> QED
        BY <2>3, <3>3, <4>1 DEF Says
    <3> QED
      BY <3>1, <3>2, <3>3
  <2> QED
    BY <2>1, <2>2, <2>3
<1> HIDE DEF Says
<1> QED
  BY <1>2, <1>3, <1>4, <1>5, <1>6

\* What is written was let through, and went where it was meant to go.
LEMMA RunsSent ==
  ASSUME Runs!Inv
  PROVE  Runs!SentAsMeant
<1>0. Runs!StoreInv /\ Runs!BegunInv /\ v1 \in OfRuns.Given
      /\ v6 \in [OfRuns.Nodes -> 0..OfRuns.Parts] /\ v1.nodes \subseteq OfRuns.Nodes
      /\ Runs!Shared \notin OfRuns.Nodes /\ Runs!Elsewhere \notin OfRuns.Nodes
      /\ Runs!Shared # Runs!Elsewhere
  BY RunsGiven DEF Runs!Inv, Runs!TypeOK
<1>1. ASSUME NEW p \in Runs!Places, v7[p] # {Runs!Old}
      PROVE  Runs!LetThrough /\ \E m \in v1.nodes : p = m \/ p = Runs!Shared
  <2>1. PICK m \in v1.nodes : Runs!To(m) = p /\ v6[m] # 0
    BY <1>0, <1>1 DEF Runs!StoreInv
  <2>2. m \in OfRuns.Nodes
    BY <1>0
  <2>3. Runs!LetThrough
    BY <1>0, <2>1, <2>2 DEF Runs!BegunInv
  <2>4. Runs!To(m) = m \/ Runs!To(m) = Runs!Shared
    BY <1>0, <2>2, <2>3, RunsTransfer DEF Runs!LetThrough
  <2> QED
    BY <2>1, <2>3, <2>4
<1>2. (\E p \in Runs!Places : v7[p] # {Runs!Old}) => Runs!LetThrough
  BY <1>1
<1>3. v7[Runs!Elsewhere] = {Runs!Old}
  BY <1>0, <1>1 DEF Runs!Places
<1>4. \A n \in OfRuns.Nodes : v7[n] # {Runs!Old} => n \in v1.nodes
  BY <1>0, <1>1 DEF Runs!Places
<1>5. Runs!LetThrough => /\ v1.nodes \cap OfRuns.Protected = {} \/ v1.force
                         /\ ~v1.dry /\ (v1.stdin => v3 = OfRuns.Parts)
  BY DEF Runs!LetThrough, Runs!Protects
<1> QED
  BY <1>2, <1>3, <1>4, <1>5 DEF Runs!SentAsMeant

\* When the command is done, every node is over and the results decide.
LEMMA RunsDone ==
  ASSUME Runs!Inv, v2 = "done", Runs!Ran
  PROVE  /\ \A n \in v1.nodes : n \in OfRuns.Nodes /\ v4[n] = "over" /\ v8[n] # ""
         /\ v10 = Runs!FailureError({v9[n] : n \in v1.nodes})
         /\ Runs!LetThrough
<1>0. Runs!TypeOK /\ Runs!BegunInv /\ Runs!ExitInv /\ v1.nodes \subseteq OfRuns.Nodes
  BY RunsGiven DEF Runs!Inv, Runs!TypeOK
<1>1. PICK m \in v1.nodes : v8[m] # ""
  BY DEF Runs!Ran
<1>2. m \in OfRuns.Nodes /\ v4[m] = "over"
  BY <1>0, <1>1 DEF Runs!TypeOK
<1>3. Runs!LetThrough
  BY <1>0, <1>2 DEF Runs!BegunInv
<1>4. \E n \in v1.nodes : v4[n] # "queued"
  BY <1>2
<1>5. (\A n \in v1.nodes : v4[n] = "over") /\ v10 = Runs!FailureError({v9[n] : n \in v1.nodes})
  BY <1>0, <1>4 DEF Runs!ExitInv
<1>6. \A n \in v1.nodes : n \in OfRuns.Nodes /\ v8[n] # ""
  BY <1>0, <1>5 DEF Runs!TypeOK
<1> QED
  BY <1>3, <1>5, <1>6

\* The exit code, by the results.
LEMMA RunsExit ==
  ASSUME v10 = Runs!FailureError({v9[n] : n \in v1.nodes})
  PROVE  /\ v10 = 130 <=> \E n \in v1.nodes : v9[n].err = "canceled"
         /\ v10 = 3 <=> /\ \A n \in v1.nodes : v9[n].err # "canceled"
                        /\ \E n \in v1.nodes : v9[n].err = "transport"
         /\ v10 = 0 <=> /\ \A n \in v1.nodes : v9[n].err # "canceled" /\ v9[n].err # "transport"
                        /\ \A n \in v1.nodes : ~Runs!Failed(v9[n])
         /\ v10 = 1 => \A n \in v1.nodes : v9[n].err # "canceled" /\ v9[n].err # "transport"
<1> DEFINE R == {v9[n] : n \in v1.nodes}
<1>1. v10 = IF \E r \in R : r.err = "canceled" THEN 130
          ELSE IF \E r \in R : r.err = "transport" THEN 3
          ELSE IF \E r \in R : Runs!Failed(r) THEN 1 ELSE 0
  BY DEF Runs!FailureError
<1>2. /\ (\E r \in R : r.err = "canceled") <=> \E n \in v1.nodes : v9[n].err = "canceled"
      /\ (\E r \in R : r.err = "transport") <=> \E n \in v1.nodes : v9[n].err = "transport"
      /\ (\E r \in R : Runs!Failed(r)) <=> \E n \in v1.nodes : Runs!Failed(v9[n])
  OBVIOUS
<1> HIDE DEF R
<1>3. CASE \E r \in R : r.err = "canceled"
  <2>1. v10 = 130
    BY <1>1, <1>3
  <2> QED
    BY <1>2, <1>3, <2>1
<1>4. CASE ~(\E r \in R : r.err = "canceled") /\ \E r \in R : r.err = "transport"
  <2>1. v10 = 3
    BY <1>1, <1>4
  <2> QED
    BY <1>2, <1>4, <2>1
<1>5. CASE /\ ~(\E r \in R : r.err = "canceled") /\ ~(\E r \in R : r.err = "transport")
           /\ \E r \in R : Runs!Failed(r)
  <2>1. v10 = 1
    BY <1>1, <1>5
  <2> QED
    BY <1>2, <1>5, <2>1
<1>6. CASE /\ ~(\E r \in R : r.err = "canceled") /\ ~(\E r \in R : r.err = "transport")
           /\ ~(\E r \in R : Runs!Failed(r))
  <2>1. v10 = 0
    BY <1>1, <1>6
  <2> QED
    BY <1>2, <1>6, <2>1
<1> QED
  BY <1>3, <1>4, <1>5, <1>6, Zenon

\* What the results and the exit code say is so.
LEMMA RunsResults ==
  ASSUME Runs!Inv
  PROVE  Runs!ResultsAreTrue
<1> SUFFICES ASSUME v2 = "done", Runs!Ran
    PROVE  /\ \A n \in v1.nodes : Runs!Good(n) /\ Runs!Sends => v7[Runs!To(n)] = Runs!Whole(n)
           /\ v10 = 0 <=> \A n \in v1.nodes : Runs!Good(n)
           /\ v10 = 130 <=> \E n \in v1.nodes : v5[n] = "canceled" /\ v8[n] \notin {"ok", "panic"}
           /\ v10 = 3 => \E n \in v1.nodes : v8[n] \in {"255", "held"} \/ v5[n] = "deadline"
           /\ \A n \in v1.nodes :
                /\ v8[n] = "status" /\ v5[n] = "" => Runs!Status(v9[n]) = "exit"
                /\ v8[n] = "255" /\ v5[n] = "" => Runs!Status(v9[n]) = "unreachable" /\ v10 # 1
                /\ v5[n] = "deadline" /\ ~v11 /\ v8[n] # "panic" =>
                     Runs!Status(v9[n]) = "unreachable" /\ v10 = 3
  BY DEF Runs!ResultsAreTrue
<1>0. Runs!StoreInv /\ Runs!ContextInv /\ v1 \in OfRuns.Given /\ OfRuns.Parts \in Nat \ {0}
  BY RunsGiven DEF Runs!Inv, Runs!TypeOK
<1>1. /\ \A n \in v1.nodes : n \in OfRuns.Nodes /\ v4[n] = "over" /\ v8[n] # ""
      /\ v10 = Runs!FailureError({v9[n] : n \in v1.nodes})
      /\ Runs!LetThrough
  BY RunsDone
<1>2. /\ v10 = 130 <=> \E n \in v1.nodes : v9[n].err = "canceled"
      /\ v10 = 3 <=> /\ \A n \in v1.nodes : v9[n].err # "canceled"
                     /\ \E n \in v1.nodes : v9[n].err = "transport"
      /\ v10 = 0 <=> /\ \A n \in v1.nodes : v9[n].err # "canceled" /\ v9[n].err # "transport"
                     /\ \A n \in v1.nodes : ~Runs!Failed(v9[n])
      /\ v10 = 1 => \A n \in v1.nodes : v9[n].err # "canceled" /\ v9[n].err # "transport"
  <2>1. v10 = Runs!FailureError({v9[n] : n \in v1.nodes})
    BY <1>1
  <2> QED
    BY <2>1, RunsExit, Zenon
<1>3. \A n \in v1.nodes : Runs!Good(n) <=> ~Runs!Failed(v9[n])
  <2> SUFFICES ASSUME NEW n \in v1.nodes PROVE Runs!Good(n) <=> ~Runs!Failed(v9[n])
    OBVIOUS
  <2>1. CASE ~Runs!Failed(v9[n])
    <3>1. v9[n].err \notin {"canceled", "transport"}
      BY <2>1 DEF Runs!Failed
    <3> QED
      BY <1>1, <2>1, <3>1, RunsStatus DEF Runs!Good
  <2>2. CASE Runs!Failed(v9[n])
    <3>1. Runs!Status(v9[n]) \in {"interrupted", "unreachable", "exit", "failed"}
      BY <2>2, RunsStatus
    <3> QED
      BY <2>2, <3>1 DEF Runs!Good
  <2> QED
    BY <2>1, <2>2
<1>4. ASSUME NEW n \in v1.nodes, Runs!Good(n), Runs!Sends PROVE v7[Runs!To(n)] = Runs!Whole(n)
  <2>1. v6[n] = IF Runs!Copies THEN OfRuns.Parts ELSE v3
    BY <1>1, <1>3, <1>4, RunsResult
  <2>2. Runs!Copies \/ v3 = OfRuns.Parts
    BY <1>1, <1>4 DEF Runs!LetThrough, Runs!Sends
  <2>3. v6[n] = OfRuns.Parts
    BY <2>1, <2>2
  <2>4. v6[n] > 0
    BY <1>0, <2>3
  <2>5. v7[Runs!To(n)] = Runs!Sent(n)
    BY <1>0, <2>4 DEF Runs!StoreInv
  <2> QED
    BY <2>3, <2>5 DEF Runs!Sent, Runs!Whole
<1>5. v10 = 0 <=> \A n \in v1.nodes : Runs!Good(n)
  <2>1. \A n \in v1.nodes : ~Runs!Failed(v9[n]) => v9[n].err # "canceled" /\ v9[n].err # "transport"
    BY DEF Runs!Failed
  <2> QED
    BY <1>2, <1>3, <2>1
<1>6. v10 = 130 <=> \E n \in v1.nodes : v5[n] = "canceled" /\ v8[n] \notin {"ok", "panic"}
  <2>1. \A n \in v1.nodes : v9[n].err = "canceled"
        <=> v5[n] = "canceled" /\ v8[n] \notin {"ok", "panic"}
    BY <1>1, RunsResult
  <2> QED
    BY <1>2, <2>1
<1>7. v10 = 3 => \E n \in v1.nodes : v8[n] \in {"255", "held"} \/ v5[n] = "deadline"
  <2>1. \A n \in v1.nodes : v9[n].err = "transport"
        => v8[n] \in {"255", "held"} \/ v5[n] = "deadline"
    BY <1>1, RunsResult
  <2> QED
    BY <1>2, <2>1
<1>8. ASSUME NEW n \in v1.nodes
      PROVE  /\ v8[n] = "status" /\ v5[n] = "" => Runs!Status(v9[n]) = "exit"
             /\ v8[n] = "255" /\ v5[n] = "" => Runs!Status(v9[n]) = "unreachable" /\ v10 # 1
             /\ v5[n] = "deadline" /\ ~v11 /\ v8[n] # "panic" =>
                  Runs!Status(v9[n]) = "unreachable" /\ v10 = 3
  <2>0. n \in OfRuns.Nodes /\ v4[n] = "over"
    BY <1>1
  <2>1. ASSUME v8[n] = "status", v5[n] = "" PROVE Runs!Status(v9[n]) = "exit"
    <3>1. v9[n].err = "target" /\ v9[n].code = 1
      BY <2>0, <2>1, RunsResult
    <3>2. Runs!Failed(v9[n]) /\ v9[n].err \notin {"canceled", "transport"}
      BY <3>1 DEF Runs!Failed
    <3>3. v9[n].code > 0
      BY <3>1
    <3> QED
      BY <3>2, <3>3, RunsStatus
  <2>2. ASSUME v8[n] = "255", v5[n] = "" PROVE Runs!Status(v9[n]) = "unreachable" /\ v10 # 1
    <3>1. v9[n].err = "transport"
      BY <2>0, <2>2, RunsResult
    <3> QED
      BY <1>2, <3>1, RunsStatus
  <2>3. ASSUME v5[n] = "deadline", ~v11, v8[n] # "panic"
        PROVE  Runs!Status(v9[n]) = "unreachable" /\ v10 = 3
    <3>1. v9[n].err = "transport"
      BY <2>0, <2>3, RunsResult
    <3>2. \A m \in v1.nodes : v5[m] # "canceled"
      BY <1>0, <1>1, <2>3 DEF Runs!ContextInv
    <3>3. \A m \in v1.nodes : v9[m].err # "canceled"
      BY <1>1, <3>2, RunsResult
    <3> QED
      BY <1>2, <3>1, <3>3, RunsStatus
  <2> QED
    BY <2>1, <2>2, <2>3
<1> QED
  BY <1>4, <1>5, <1>6, <1>7, <1>8

\* A set of numbers has a least one.
LEMMA RunsLeast ==
  ASSUME NEW S, S # {}, S \subseteq Nat
  PROVE  Runs!FirstOf(S) \in S
<1> DEFINE R == OpToRel(<, Nat)
<1>1. IsWellFoundedOn(R, Nat)
  BY NatLessThanWellFounded
<1>2. \A a, b \in Nat : a < b => <<a, b>> \in R
  BY DEF OpToRel
<1> HIDE DEF R
<1>3. PICK i \in S : \A y \in S : ~(<<y, i>> \in R)
  BY <1>1, WFMin, Zenon
<1>4. ASSUME NEW j \in S PROVE i <= j
  <2>1. i \in Nat /\ j \in Nat
    OBVIOUS
  <2>2. ~(j < i)
    BY <1>2, <1>3, <2>1, Zenon
  <2> QED
    BY <2>1, <2>2
<1>5. \E k \in S : \A j \in S : k <= j
  BY <1>4
<1> QED
  BY <1>5, Zenon DEF Runs!FirstOf

\* A node is in one group, and its heading says of it what its result says.
LEMMA RunsGroups ==
  ASSUME Runs!Inv
  PROVE  Runs!GroupsAreTrue
<1> SUFFICES ASSUME NEW n \in v1.nodes
    PROVE  \E g \in Runs!GroupByOutput :
             /\ n \in g /\ \A h \in Runs!GroupByOutput \ {g} : n \notin h
             /\ Runs!Heading(g).out = v9[n].out /\ Runs!Status(Runs!Heading(g)) = Runs!Status(v9[n])
  BY DEF Runs!GroupsAreTrue
<1>1. n \in Runs!Group(n) /\ Runs!Group(n) \in Runs!GroupByOutput
  BY DEF Runs!Group, Runs!GroupByOutput
<1>2. ASSUME NEW h \in Runs!GroupByOutput, n \in h PROVE h = Runs!Group(n)
  <2>1. PICK m \in v1.nodes : h = Runs!Group(m)
    BY DEF Runs!GroupByOutput
  <2>2. Runs!key(n) = Runs!key(m)
    BY <1>2, <2>1 DEF Runs!Group
  <2> QED
    BY <2>1, <2>2 DEF Runs!Group
<1>3. n \in OfRuns.Nodes
  BY RunsGiven DEF Runs!Inv, Runs!TypeOK
<1> DEFINE I == {i \in DOMAIN OfRuns.Targets : OfRuns.Targets[i] \in Runs!Group(n)}
<1>4. I # {} /\ I \subseteq Nat
  <2>1. OfRuns.Targets \in Seq(OfRuns.Nodes)
        /\ OfRuns.Nodes \subseteq {OfRuns.Targets[i] : i \in DOMAIN OfRuns.Targets}
    BY CommandsConstants DEF CommandsConstants, Runs!NodeRunsConstants
  <2>2. DOMAIN OfRuns.Targets \subseteq Nat
    BY <2>1, LenProperties
  <2>3. PICK i \in DOMAIN OfRuns.Targets : OfRuns.Targets[i] = n
    BY <1>3, <2>1
  <2> QED
    BY <1>1, <2>2, <2>3
<1> DEFINE first == Runs!FirstOf(I)
<1>5. first \in I
  <2> HIDE DEF I
  <2> QED
    BY <1>4, RunsLeast
<1>6. OfRuns.Targets[first] \in Runs!Group(n)
  BY <1>5
<1>7. Runs!Heading(Runs!Group(n)) = v9[OfRuns.Targets[first]]
  BY DEF Runs!Heading
<1> HIDE DEF first
<1>8. Runs!key(OfRuns.Targets[first]) = Runs!key(n)
  BY <1>6 DEF Runs!Group
<1>9. v9[OfRuns.Targets[first]].out = v9[n].out
      /\ Runs!Status(v9[OfRuns.Targets[first]]) = Runs!Status(v9[n])
  BY <1>8 DEF Runs!key
<1> QED
  BY <1>1, <1>2, <1>7, <1>9, Zenon

\* What is said of exec and copy follows from the invariant.
LEMMA RunsKeeps == Runs!Inv => Runs!RunsAreTrue
BY RunsSent, RunsResults, RunsGroups DEF Runs!RunsAreTrue

\* A step of the whole is one of the component, or of another scene.
LEMMA RunsScene ==
  ASSUME [Next]_vars
  PROVE  /\ scene' = scene
         /\ scene = "runs" => [Runs!Next]_(Runs!vars)
BY DEF Next, vars, Runs!vars

\* The invariant of the component is one of the whole.
LEMMA RunsAlways == Spec => [](scene = "runs" => Runs!Inv)
<1>1. Init => (scene = "runs" => Runs!Inv)
  BY RunsBegins DEF Init, Begin
<1>2. (scene = "runs" => Runs!Inv) /\ [Next]_vars => (scene = "runs" => Runs!Inv)'
  BY RunsScene, RunsStep
<1> QED
  BY <1>1, <1>2, PTL DEF Spec

(***************************************************************************)
(* What is brought to many nodes.                                          *)
(***************************************************************************)

\* A node reported as provisioned has every file whole; a run of cinc uses what
\* was read of the node; a node that exec or copy reports as ok has all that was
\* sent to it; and the exit code is that of the worst node.  (pushSecrets,
\* runCinc, RunEach, readAll, copyRunner)
THEOREM PushesAsReported == Spec => []PushesAreTrue
<1>1. (scene = "push" => Push!Inv) => (scene = "push" => Push!PushIsTrue /\ Push!ExitIsWorst)
  BY PushKeeps
<1>2. (scene = "cinc" => Cinc!Inv) => (scene = "cinc" => Cinc!RunIsAsRead)
  BY CincKeeps
<1>3. (scene = "runs" => Runs!Inv) => (scene = "runs" => Runs!RunsAreTrue)
  BY RunsKeeps
<1>4. /\ scene = "push" => Push!Inv
      /\ scene = "cinc" => Cinc!Inv
      /\ scene = "runs" => Runs!Inv
      => PushesAreTrue
  BY <1>1, <1>2, <1>3 DEF PushesAreTrue
<1> QED
  BY <1>4, PushAlways, CincAlways, RunsAlways, PTL

(***************************************************************************)
(* The settings of ssh.  A file in the state directory is what its name    *)
(* says (FileInv), so what ssh reads is what its process rendered          *)
(* (SettingInv), whoever writes meanwhile; in that file the blocks of the  *)
(* roles say nothing a host key is checked by and the block of every host  *)
(* says all of it before the included file, whose values therefore come    *)
(* too late; and a master found under a name that carries these settings   *)
(* was opened under them (MasterInv).                                      *)
(*                                                                         *)
(* The registers: v1 files, v2 included, v3 masters, v4 pc, v5 settings,   *)
(* v6 client, v7 config, v8 conn.                                          *)
(***************************************************************************)
LEMMA SshParts ==
  ASSUME Ssh!Inv
  PROVE  /\ Ssh!TypeOK /\ DOMAIN v5 = OfSsh.Processes /\ DOMAIN v7 = OfSsh.Processes
         /\ v2 \in OfSsh.IncludedTexts \cup {<<>>}
         /\ Ssh!FileInv /\ Ssh!SettingInv /\ Ssh!MasterInv /\ Ssh!ConnInv /\ Ssh!TrustIsOwn
BY DEF Ssh!Inv

\* A set of numbers that is not empty has a least one.
LEMMA SshLeast ==
  ASSUME NEW S, S \subseteq Nat, S # {}
  PROVE  Ssh!Min(S) \in S /\ \A j \in S : Ssh!Min(S) <= j
<1> DEFINE R == OpToRel(<, Nat)
<1>1. IsWellFoundedOn(R, Nat)
  BY NatLessThanWellFounded
<1>2. \A a, b \in Nat : a < b => <<a, b>> \in R
  BY DEF OpToRel
<1> HIDE DEF R
<1>3. PICK i \in S : \A y \in S : ~(<<y, i>> \in R)
  BY <1>1, WFMin, Zenon
<1>4. ASSUME NEW j \in S PROVE i <= j
  <2>1. i \in Nat /\ j \in Nat
    OBVIOUS
  <2>2. ~(j < i)
    BY <1>2, <1>3, <2>1, Zenon
  <2> QED
    BY <2>1, <2>2
<1>5. \E x \in S : \A y \in S : x <= y
  BY <1>4
<1> QED
  BY <1>5 DEF Ssh!Min

\* What is a sequence, and what stands where in two of them, one after the other.
LEMMA SshSequence ==
  ASSUME NEW S, NEW t \in Seq(S)
  PROVE  Ssh!IsSequence(t)
<1>1. Len(t) \in Nat /\ DOMAIN t = 1..Len(t) /\ t = [i \in 1..Len(t) |-> t[i]]
  BY LenProperties
<1>2. t \in [1..Len(t) -> {t[i] : i \in DOMAIN t}]
  BY <1>1
<1> QED
  BY <1>1, <1>2, SeqDef DEF Ssh!IsSequence, Ssh!Range

LEMMA SshAfter ==
  ASSUME NEW a, NEW b, Ssh!IsSequence(a), Ssh!IsSequence(b)
  PROVE  /\ Ssh!IsSequence(a \o b) /\ Len(a \o b) = Len(a) + Len(b) /\ Len(a) \in Nat
            /\ Len(b) \in Nat
         /\ \A i \in 1..Len(a) : (a \o b)[i] = a[i]
         /\ \A i \in 1..Len(b) : (a \o b)[Len(a) + i] = b[i]
         /\ DOMAIN a = 1..Len(a) /\ DOMAIN b = 1..Len(b) /\ DOMAIN (a \o b) = 1..(Len(a) + Len(b))
<1> DEFINE S == Ssh!Range(a) \cup Ssh!Range(b)
<1>1. a \in Seq(Ssh!Range(a)) /\ b \in Seq(Ssh!Range(b)) /\ Ssh!Range(a) \subseteq S
      /\ Ssh!Range(b) \subseteq S
  BY DEF Ssh!IsSequence
<1> HIDE DEF S
<1>2. a \in Seq(S) /\ b \in Seq(S)
  BY <1>1, SeqMonotonic, Zenon
<1>3. /\ a \o b \in Seq(S) /\ Len(a \o b) = Len(a) + Len(b) /\ Len(a) \in Nat /\ Len(b) \in Nat
      /\ \A i \in 1..Len(a) : (a \o b)[i] = a[i]
      /\ \A i \in 1..Len(b) : (a \o b)[Len(a) + i] = b[i]
      /\ DOMAIN a = 1..Len(a) /\ DOMAIN b = 1..Len(b) /\ DOMAIN (a \o b) = 1..(Len(a) + Len(b))
  BY <1>2
<1> QED
  BY <1>3, SshSequence

-----------------------------------------------------------------------------
\* The lines of the block of every host, in a file for a client that knows
\* KnownHostsCommand and in one for a client that does not.
SshSays(lines, key, value) ==
  /\ \E i \in DOMAIN lines : Ssh!Keyword(lines[i].key) = key
  /\ \A i \in DOMAIN lines : Ssh!Keyword(lines[i].key) = key => lines[i].value = value

SshSilent(lines, key) == \A i \in DOMAIN lines : Ssh!Keyword(lines[i].key) # key

LEMMA SshSayAfter ==
  ASSUME NEW a, NEW b, Ssh!IsSequence(a), Ssh!IsSequence(b), NEW key
  PROVE  /\ \A value : SshSays(a, key, value) /\ SshSilent(b, key) => SshSays(a \o b, key, value)
         /\ \A value : SshSilent(a, key) /\ SshSays(b, key, value) => SshSays(a \o b, key, value)
         /\ SshSilent(a, key) /\ SshSilent(b, key) => SshSilent(a \o b, key)
<1> DEFINE n == Len(a)
           m == Len(b)
           c == a \o b
<1>1. /\ n \in Nat /\ m \in Nat /\ DOMAIN a = 1..n /\ DOMAIN b = 1..m /\ DOMAIN c = 1..(n + m)
      /\ \A i \in 1..n : c[i] = a[i]
      /\ \A i \in 1..m : c[n + i] = b[i]
  BY SshAfter
<1> HIDE DEF n, m, c
<1>2. \A i \in DOMAIN c : i \in 1..n \/ (i - n \in 1..m /\ i = n + (i - n))
  BY <1>1
<1>3. \A i \in DOMAIN c : (i \in DOMAIN a /\ c[i] = a[i]) \/ (i - n \in DOMAIN b /\ c[i] = b[i - n])
  BY <1>1, <1>2
<1>4. (\A i \in DOMAIN a : i \in DOMAIN c /\ c[i] = a[i])
      /\ (\A i \in DOMAIN b : n + i \in DOMAIN c /\ c[n + i] = b[i])
  BY <1>1
<1>5. ASSUME NEW value, SshSays(a, key, value), SshSilent(b, key) PROVE SshSays(c, key, value)
  BY <1>3, <1>4, <1>5 DEF SshSays, SshSilent
<1>6. ASSUME NEW value, SshSilent(a, key), SshSays(b, key, value) PROVE SshSays(c, key, value)
  BY <1>3, <1>4, <1>6 DEF SshSays, SshSilent
<1>7. ASSUME SshSilent(a, key), SshSilent(b, key) PROVE SshSilent(c, key)
  BY <1>3, <1>7 DEF SshSilent
<1> QED
  BY <1>5, <1>6, <1>7 DEF c

LEMMA SshFew ==
  ASSUME NEW x, NEW y, NEW z
  PROVE  /\ Ssh!IsSequence(<<>>) /\ Ssh!IsSequence(<<x>>) /\ Ssh!IsSequence(<<x, y>>)
            /\ Ssh!IsSequence(<<x, y, z>>)
         /\ \A key : SshSilent(<<>>, key)
<1>1. <<>> \in Seq({x}) /\ <<x>> \in Seq({x}) /\ <<x, y>> \in Seq({x, y})
      /\ <<x, y, z>> \in Seq({x, y, z})
  OBVIOUS
<1>2. Ssh!IsSequence(<<>>)
  BY <1>1, SshSequence
<1>3. Ssh!IsSequence(<<x>>)
  BY <1>1, SshSequence
<1>4. Ssh!IsSequence(<<x, y>>)
  BY <1>1, SshSequence
<1>5. Ssh!IsSequence(<<x, y, z>>)
  BY <1>1, SshSequence
<1>6. \A key : SshSilent(<<>>, key)
  BY DEF SshSilent
<1> QED
  BY <1>2, <1>3, <1>4, <1>5, <1>6

\* Of one line, two and three.
LEMMA SshOne ==
  ASSUME NEW k1, NEW w1, NEW k2, NEW w2, NEW k3, NEW w3, NEW key
  PROVE  LET a == Ssh!Line(k1, w1)  b == Ssh!Line(k2, w2)  c == Ssh!Line(k3, w3) IN
         /\ Ssh!Keyword(k1) # key => SshSilent(<<a>>, key)
         /\ Ssh!Keyword(k1) # key /\ Ssh!Keyword(k2) # key => SshSilent(<<a, b>>, key)
         /\ Ssh!Keyword(k1) # key /\ Ssh!Keyword(k2) # key /\ Ssh!Keyword(k3) # key
            => SshSilent(<<a, b, c>>, key)
         /\ Ssh!Keyword(k1) = key => SshSays(<<a>>, key, w1)
         /\ Ssh!Keyword(k1) = key /\ Ssh!Keyword(k2) # key => SshSays(<<a, b>>, key, w1)
         /\ Ssh!Keyword(k1) # key /\ Ssh!Keyword(k2) = key => SshSays(<<a, b>>, key, w2)
         /\ Ssh!Keyword(k1) = key /\ Ssh!Keyword(k2) # key /\ Ssh!Keyword(k3) # key
            => SshSays(<<a, b, c>>, key, w1)
         /\ Ssh!Keyword(k1) # key /\ Ssh!Keyword(k2) = key /\ Ssh!Keyword(k3) # key
            => SshSays(<<a, b, c>>, key, w2)
BY DEF Ssh!Line, SshSilent, SshSays

LEMMA SshGlobal ==
  ASSUME NEW s, NEW command \in BOOLEAN
  PROVE  LET g == Ssh!GlobalLines(s, command) IN
         /\ Ssh!IsSequence(g)
         /\ SshSays(g, "userknownhosts", s.known) /\ SshSays(g, "globalknownhosts", "none")
         /\ command => SshSays(g, "knownhostscommand", "none")
         /\ ~command => SshSilent(g, "knownhostscommand")
         /\ SshSays(g, "stricthostkeychecking", s.strict) /\ SshSays(g, "controlmaster", "no")
<1> DEFINE a == <<Ssh!Line("userknownhosts", s.known), Ssh!Line("globalknownhosts", "none")>>
           b == Ssh!If(command, <<Ssh!Line("knownhostscommand", "none")>>)
           c == <<Ssh!Line("stricthostkeychecking", s.strict), Ssh!Line("controlmaster", "no"),
             Ssh!Line("controlpath", "none")>>
           d == Ssh!If(s.legacy, Ssh!Legacy)
           k1 == "userknownhosts"
           k2 == "globalknownhosts"
           k3 == "knownhostscommand"
           k4 == "stricthostkeychecking"
           k5 == "controlmaster"
<1>1. \A k \in {k1, k2, k3, k4, k5, "controlpath"} : Ssh!Keyword(k) = k
  BY DEF Ssh!Keyword
<1>2. Ssh!IsSequence(a) /\ Ssh!IsSequence(b) /\ Ssh!IsSequence(c) /\ Ssh!IsSequence(d)
  BY SshFew DEF Ssh!If, Ssh!Legacy
<1>3. \A k \in {k1, k2, k3, k4, k5} : SshSilent(d, k)
  BY SshFew DEF Ssh!If, Ssh!Legacy, SshSilent, Ssh!Line, Ssh!Keyword
<1>4. /\ SshSays(a, k1, s.known) /\ SshSays(a, k2, "none")
      /\ SshSilent(a, k3) /\ SshSilent(a, k4) /\ SshSilent(a, k5)
  BY <1>1 DEF SshSays, SshSilent, Ssh!Line
<1>5. /\ SshSilent(c, k1) /\ SshSilent(c, k2) /\ SshSilent(c, k3)
      /\ SshSays(c, k4, s.strict) /\ SshSays(c, k5, "no")
  BY <1>1 DEF SshSays, SshSilent, Ssh!Line
<1>6. /\ SshSilent(b, k1) /\ SshSilent(b, k2) /\ SshSilent(b, k4) /\ SshSilent(b, k5)
      /\ (command => SshSays(b, k3, "none")) /\ (~command => SshSilent(b, k3))
  BY <1>1 DEF SshSays, SshSilent, Ssh!Line, Ssh!If
<1> HIDE DEF a, b, c, d, k1, k2, k3, k4, k5
<1>7. Ssh!IsSequence(a \o b) /\ Ssh!IsSequence((a \o b) \o c)
      /\ Ssh!IsSequence(((a \o b) \o c) \o d)
  BY <1>2, SshAfter
<1>8. /\ SshSays(a \o b, k1, s.known) /\ SshSays(a \o b, k2, "none") /\ SshSilent(a \o b, k4)
      /\ SshSilent(a \o b, k5)
      /\ (command => SshSays(a \o b, k3, "none")) /\ (~command => SshSilent(a \o b, k3))
  BY <1>2, <1>4, <1>6, SshSayAfter
<1> DEFINE ab == a \o b
<1> HIDE DEF ab
<1>9. /\ SshSays(ab \o c, k1, s.known) /\ SshSays(ab \o c, k2, "none")
      /\ SshSays(ab \o c, k4, s.strict) /\ SshSays(ab \o c, k5, "no")
      /\ (command => SshSays(ab \o c, k3, "none")) /\ (~command => SshSilent(ab \o c, k3))
  BY <1>2, <1>5, <1>7, <1>8, SshSayAfter DEF ab
<1> DEFINE abc == ab \o c
<1> HIDE DEF abc
<1>10. /\ SshSays(abc \o d, k1, s.known) /\ SshSays(abc \o d, k2, "none")
       /\ SshSays(abc \o d, k4, s.strict) /\ SshSays(abc \o d, k5, "no")
       /\ (command => SshSays(abc \o d, k3, "none")) /\ (~command => SshSilent(abc \o d, k3))
  BY <1>2, <1>3, <1>7, <1>9, SshSayAfter DEF ab, abc
<1>11. Ssh!GlobalLines(s, command) = abc \o d
  BY DEF Ssh!GlobalLines, a, b, c, d, ab, abc
<1> QED
  BY <1>7, <1>10, <1>11 DEF ab, abc, k1, k2, k3, k4, k5

LEMMA SshRole ==
  ASSUME NEW s, NEW r
  PROVE  LET l == Ssh!RoleLines(s, r) IN
         /\ Ssh!IsSequence(l)
         /\ \A key \in Ssh!Trusting \ {"controlmaster", "controlpath"} : SshSilent(l, key)
         /\ \/ SshSays(l, "controlmaster", "auto") /\ SshSays(l, "controlpath", Ssh!ControlPath(s))
            \/ SshSilent(l, "controlmaster")
<1> DEFINE a == Ssh!If(s.roles[r].jump # <<>>, <<Ssh!Line("proxyjump", Ssh!Chain(s, r))>>)
           b == Ssh!If(s.roles[r].master, <<Ssh!Line("controlmaster", "auto"),
             Ssh!Line("controlpath", Ssh!ControlPath(s))>>)
           c == Ssh!If(s.roles[r].legacy, Ssh!Legacy)
           K == Ssh!Trusting \ {"controlmaster", "controlpath"}
           k1 == "controlmaster"
           k2 == "controlpath"
           w1 == "auto"
           w2 == Ssh!ControlPath(s)
<1>1. Ssh!IsSequence(a) /\ Ssh!IsSequence(b) /\ Ssh!IsSequence(c)
  BY SshFew DEF Ssh!If, Ssh!Legacy
<1>2. \A key \in Ssh!Trusting : SshSilent(a, key) /\ SshSilent(c, key)
  BY SshFew DEF Ssh!If, Ssh!Legacy, SshSilent, Ssh!Line, Ssh!Keyword, Ssh!Trusting
<1>3. \A key \in K : SshSilent(b, key)
  BY SshFew DEF Ssh!If, SshSilent, Ssh!Line, Ssh!Keyword, Ssh!Trusting
<1>4. (SshSays(b, k1, w1) /\ SshSays(b, k2, w2)) \/ SshSilent(b, k1)
  BY SshFew DEF Ssh!If, SshSays, SshSilent, Ssh!Line, Ssh!Keyword
<1>5. k1 \in Ssh!Trusting /\ k2 \in Ssh!Trusting /\ K \subseteq Ssh!Trusting
  BY DEF Ssh!Trusting
<1>6. Ssh!RoleLines(s, r) = (a \o b) \o c
  BY DEF Ssh!RoleLines
<1> HIDE DEF a, b, c, K, k1, k2, w1, w2
<1>7. Ssh!IsSequence(a \o b) /\ Ssh!IsSequence((a \o b) \o c)
  BY <1>1, SshAfter
<1>8. /\ \A key \in K : SshSilent(a \o b, key)
      /\ (SshSays(a \o b, k1, w1) /\ SshSays(a \o b, k2, w2)) \/ SshSilent(a \o b, k1)
  BY <1>1, <1>2, <1>3, <1>4, <1>5, SshSayAfter
<1> DEFINE ab == a \o b
<1> HIDE DEF ab
<1>9. /\ \A key \in K : SshSilent(ab \o c, key)
      /\ (SshSays(ab \o c, k1, w1) /\ SshSays(ab \o c, k2, w2)) \/ SshSilent(ab \o c, k1)
  BY <1>1, <1>2, <1>5, <1>7, <1>8, SshSayAfter DEF ab
<1> QED
  BY <1>6, <1>7, <1>9 DEF ab, K, k1, k2, w1, w2

\* What an option may not set, it does not set.
LEMMA SshOptions ==
  ASSUME NEW lines, NEW options, NEW refused, ~Ssh!Refuses(lines, options, refused),
         NEW key \in refused
  PROVE  SshSilent(options, key)
BY DEF Ssh!Refuses, Ssh!Keys, SshSilent

\* The two blocks of the generated file that may speak of a host.
LEMMA SshBlocks ==
  ASSUME NEW p \in OfSsh.Processes, NEW s \in OfSsh.Settings[p], Ssh!Valid(s), NEW knows \in BOOLEAN
  PROVE  LET g == Ssh!GlobalLines(s, knows) \o s.options IN
         /\ Ssh!IsSequence(g)
         /\ SshSays(g, "userknownhosts", s.known) /\ SshSays(g, "globalknownhosts", "none")
         /\ knows => SshSays(g, "knownhostscommand", "none")
         /\ SshSays(g, "stricthostkeychecking", s.strict) /\ SshSays(g, "controlmaster", "no")
         /\ \A r \in Ssh!Names(s) :
              LET l == Ssh!Lines(s, r) IN
              /\ Ssh!IsSequence(l)
              /\ \A key \in Ssh!Trusting \ {"controlmaster", "controlpath"} : SshSilent(l, key)
              /\ \/ SshSays(l, "controlmaster", "auto")
                    /\ SshSays(l, "controlpath", Ssh!ControlPath(s))
                 \/ SshSilent(l, "controlmaster")
<1>1. Ssh!IsSequence(s.options) /\ \A r \in Ssh!Names(s) : Ssh!IsSequence(s.roles[r].options)
  BY CommandsConstants DEF CommandsConstants, Ssh!SshConstants, Ssh!Names
<1>2. \A key \in Ssh!Trusting : SshSilent(s.options, key)
  BY SshOptions DEF Ssh!Valid
<1>3. \A r \in Ssh!Names(s) : \A key \in Ssh!OfARole : SshSilent(s.roles[r].options, key)
  BY SshOptions DEF Ssh!Valid
<1>4. Ssh!Trusting \subseteq Ssh!OfARole
  BY DEF Ssh!OfARole
<1> DEFINE k1 == "userknownhosts"
           k2 == "globalknownhosts"
           k3 == "knownhostscommand"
           k4 == "stricthostkeychecking"
           k5 == "controlmaster"
           k6 == "controlpath"
           none == "none"
           no == "no"
           auto == "auto"
           g == Ssh!GlobalLines(s, knows)
           K == Ssh!Trusting \ {k5, k6}
<1>5. {k1, k2, k3, k4, k5, k6} \subseteq Ssh!Trusting /\ K \subseteq Ssh!Trusting
  BY DEF Ssh!Trusting
<1>6. /\ Ssh!IsSequence(g) /\ SshSays(g, k1, s.known) /\ SshSays(g, k2, none)
      /\ knows => SshSays(g, k3, none)
      /\ SshSays(g, k4, s.strict) /\ SshSays(g, k5, no)
  BY SshGlobal
<1>7. ASSUME NEW r \in Ssh!Names(s)
      PROVE  LET l == Ssh!RoleLines(s, r) IN
             /\ Ssh!IsSequence(l) /\ \A key \in K : SshSilent(l, key)
             /\ (SshSays(l, k5, auto) /\ SshSays(l, k6, Ssh!ControlPath(s))) \/ SshSilent(l, k5)
  BY SshRole
<1> HIDE DEF k1, k2, k3, k4, k5, k6, none, no, auto, g, K
<1> DEFINE h == g \o s.options
<1>8. /\ Ssh!IsSequence(h)
      /\ SshSays(h, k1, s.known) /\ SshSays(h, k2, none) /\ (knows => SshSays(h, k3, none))
      /\ SshSays(h, k4, s.strict) /\ SshSays(h, k5, no)
  <2>1. \A k \in {k1, k2, k3, k4, k5} : SshSilent(s.options, k)
    BY <1>2, <1>5
  <2>2. \A k \in {k1, k2, k3, k4, k5} : \A v : SshSays(g, k, v) => SshSays(h, k, v)
    BY <1>1, <1>6, <2>1, SshSayAfter
  <2>3. Ssh!IsSequence(h)
    BY <1>1, <1>6, SshAfter
  <2> QED
    BY <1>6, <2>2, <2>3
<1>9. ASSUME NEW r \in Ssh!Names(s)
      PROVE  LET l == Ssh!Lines(s, r) IN
             /\ Ssh!IsSequence(l) /\ \A key \in K : SshSilent(l, key)
             /\ (SshSays(l, k5, auto) /\ SshSays(l, k6, Ssh!ControlPath(s))) \/ SshSilent(l, k5)
  <2> DEFINE a == Ssh!RoleLines(s, r)
             b == s.roles[r].options
             v == Ssh!ControlPath(s)
  <2>1. \A k \in Ssh!Trusting : SshSilent(b, k)
    BY <1>3, <1>4
  <2>2. /\ Ssh!IsSequence(a) /\ \A key \in K : SshSilent(a, key)
        /\ (SshSays(a, k5, auto) /\ SshSays(a, k6, v)) \/ SshSilent(a, k5)
    BY <1>7
  <2>3. Ssh!IsSequence(b) /\ Ssh!Lines(s, r) = a \o b
    BY <1>1 DEF Ssh!Lines
  <2> HIDE DEF a, b, v
  <2>4. Ssh!IsSequence(a \o b) /\ \A key \in K : SshSilent(a \o b, key)
    BY <1>5, <2>1, <2>2, <2>3, SshAfter, SshSayAfter
  <2>5. (SshSays(a \o b, k5, auto) /\ SshSays(a \o b, k6, v)) \/ SshSilent(a \o b, k5)
    BY <1>5, <2>1, <2>2, <2>3, SshSayAfter
  <2> QED
    BY <2>3, <2>4, <2>5 DEF v
<1> QED
  BY <1>8, <1>9 DEF k1, k2, k3, k4, k5, k6, none, no, auto, g, K

\* The first value ssh obtains: that of the block of the host, if that says it.
LEMMA SshFirst ==
  ASSUME NEW b, Ssh!IsSequence(b.lines), NEW key, NEW value, SshSays(b.lines, key, value)
  PROVE  Ssh!Saying(b, key) # {} /\ b.lines[Ssh!Min(Ssh!Saying(b, key))].value = value
<1>1. DOMAIN b.lines \subseteq Nat
  BY LenProperties DEF Ssh!IsSequence
<1>2. Ssh!Saying(b, key) # {} /\ Ssh!Saying(b, key) \subseteq DOMAIN b.lines
  BY DEF Ssh!Saying, SshSays
<1>3. Ssh!Min(Ssh!Saying(b, key)) \in Ssh!Saying(b, key)
  BY <1>1, <1>2, SshLeast
<1> QED
  BY <1>2, <1>3 DEF Ssh!Saying, SshSays

LEMMA SshReads ==
  ASSUME NEW data, NEW h, NEW key, NEW value, NEW default, NEW read, NEW n \in DOMAIN read,
         read = Ssh!OwnBlock(data, h) \o data.rest \o v2, DOMAIN read \subseteq Nat,
         Ssh!IsSequence(read[n].lines), read[n].host \in {h, Ssh!AnyHost},
           SshSays(read[n].lines, key, value),
         \A i \in DOMAIN read : i < n => SshSilent(read[i].lines, key)
  PROVE  Ssh!Effective(data, h, key, default) = value
<1> DEFINE saying == {i \in DOMAIN read : read[i].host \in {h, Ssh!AnyHost} /\ Ssh!Saying(read[i],
    key) # {}}
<1>1. Ssh!Saying(read[n], key) # {}
      /\ read[n].lines[Ssh!Min(Ssh!Saying(read[n], key))].value = value
  BY SshFirst
<1>2. n \in saying /\ saying \subseteq Nat
  BY <1>1
<1>3. \A i \in saying : ~(i < n)
  BY DEF Ssh!Saying, SshSilent
<1>4. Ssh!Effective(data, h, key, default)
        = IF saying = {} THEN default
          ELSE read[Ssh!Min(saying)].lines[Ssh!Min(Ssh!Saying(read[Ssh!Min(saying)], key))].value
  BY DEF Ssh!Effective
<1> HIDE DEF saying
<1>5. Ssh!Min(saying) \in saying /\ Ssh!Min(saying) <= n
  BY <1>2, SshLeast
<1>6. Ssh!Min(saying) = n
  BY <1>2, <1>3, <1>5
<1> QED
  BY <1>1, <1>2, <1>4, <1>6

LEMMA SshOwnFirst ==
  ASSUME NEW data, NEW h, NEW g, NEW key, NEW value, NEW default,
         Ssh!IsSequence(v2), data.rest = <<Ssh!Block(Ssh!AnyHost, g)>>,
         h \in DOMAIN data.blocks, Ssh!IsSequence(data.blocks[h]),
           SshSays(data.blocks[h], key, value)
  PROVE  Ssh!Effective(data, h, key, default) = value
<1> DEFINE own == <<Ssh!Block(h, data.blocks[h])>>
           all == <<Ssh!Block(Ssh!AnyHost, g)>>
           read == own \o all \o v2
<1>1. Ssh!IsSequence(own) /\ Ssh!IsSequence(all) /\ Len(own) = 1 /\ Len(all) = 1
      /\ own[1] = Ssh!Block(h, data.blocks[h])
  BY SshFew
<1>2. Ssh!OwnBlock(data, h) \o data.rest \o v2 = read
  BY DEF Ssh!OwnBlock
<1> HIDE DEF own, all
<1>3. Ssh!IsSequence(own \o all) /\ Len(own \o all) = 2 /\ (own \o all)[1] = own[1]
  <2>1. /\ Ssh!IsSequence(own \o all) /\ Len(own \o all) = Len(own) + Len(all)
        /\ \A i \in 1..Len(own) : (own \o all)[i] = own[i]
    BY <1>1, SshAfter, Zenon
  <2> QED
    BY <1>1, <2>1
<1> DEFINE both == own \o all
<1> HIDE DEF both
<1>4. /\ DOMAIN (both \o v2) \subseteq Nat /\ 1 \in DOMAIN (both \o v2)
      /\ (both \o v2)[1] = both[1]
      /\ \A i \in DOMAIN (both \o v2) : ~(i < 1)
  BY <1>3, SshAfter DEF both
<1>5. read = both \o v2
  BY DEF both
<1> HIDE DEF read
<1>6. /\ DOMAIN read \subseteq Nat /\ 1 \in DOMAIN read /\ read[1] = Ssh!Block(h, data.blocks[h])
      /\ \A i \in DOMAIN read : ~(i < 1)
  BY <1>1, <1>3, <1>4, <1>5 DEF both
<1>7. read[1].host = h /\ read[1].lines = data.blocks[h]
  BY <1>6 DEF Ssh!Block
<1>8. /\ read[1].host \in {h, Ssh!AnyHost} /\ Ssh!IsSequence(read[1].lines)
      /\ SshSays(read[1].lines, key, value)
      /\ \A i \in DOMAIN read : i < 1 => SshSilent(read[i].lines, key)
  BY <1>6, <1>7
<1>9. read = Ssh!OwnBlock(data, h) \o data.rest \o v2
  BY <1>2
<1> QED
  BY <1>6, <1>8, <1>9, SshReads, Zenon

LEMMA SshAllSay ==
  ASSUME NEW data, NEW h, NEW g, NEW key, NEW value, NEW default,
         Ssh!IsSequence(v2), data.rest = <<Ssh!Block(Ssh!AnyHost, g)>>,
         h \in DOMAIN data.blocks => SshSilent(data.blocks[h], key),
         Ssh!IsSequence(g), SshSays(g, key, value)
  PROVE  Ssh!Effective(data, h, key, default) = value
<1> DEFINE own == Ssh!OwnBlock(data, h)
           all == <<Ssh!Block(Ssh!AnyHost, g)>>
           n == Len(own) + 1
<1>1. /\ Ssh!IsSequence(own) /\ Len(own) \in {0, 1} /\ Ssh!IsSequence(all) /\ Len(all) = 1
      /\ all[1] = Ssh!Block(Ssh!AnyHost, g)
      /\ \A i \in 1..Len(own) : SshSilent(own[i].lines, key)
  <2>1. CASE h \in DOMAIN data.blocks
    <3>1. own = <<Ssh!Block(h, data.blocks[h])>>
      BY <2>1 DEF Ssh!OwnBlock
    <3>2. Len(own) = 1 /\ own[1].lines = data.blocks[h]
      BY <3>1 DEF Ssh!Block
    <3>3. Ssh!IsSequence(own) /\ Ssh!IsSequence(all) /\ Len(all) = 1
          /\ all[1] = Ssh!Block(Ssh!AnyHost, g)
      BY <3>1, SshFew
    <3> QED
      BY <2>1, <3>2, <3>3
  <2>2. CASE h \notin DOMAIN data.blocks
    <3>1. own = <<>>
      BY <2>2 DEF Ssh!OwnBlock
    <3>2. Len(own) = 0 /\ Ssh!IsSequence(own)
      BY <3>1, SshFew
    <3>3. Ssh!IsSequence(all) /\ Len(all) = 1 /\ all[1] = Ssh!Block(Ssh!AnyHost, g)
      BY SshFew
    <3> QED
      BY <3>2, <3>3
  <2> QED
    BY <2>1, <2>2
<1>2. data.rest = all
  OBVIOUS
<1> HIDE DEF own, all
<1>3. /\ Ssh!IsSequence(own \o all) /\ Len(own \o all) = n /\ (own \o all)[n] = all[1]
      /\ \A i \in 1..Len(own) : (own \o all)[i] = own[i]
  <2>1. 1 \in 1..Len(all) /\ Len(own) + Len(all) = n
    BY <1>1
  <2>2. /\ Ssh!IsSequence(own \o all) /\ Len(own \o all) = Len(own) + Len(all)
        /\ \A i \in 1..Len(own) : (own \o all)[i] = own[i]
    BY <1>1, SshAfter, Zenon
  <2>3. \A i \in 1..Len(all) : (own \o all)[Len(own) + i] = all[i]
    BY <1>1, SshAfter
  <2> QED
    BY <2>1, <2>2, <2>3
<1> DEFINE both == own \o all
<1> HIDE DEF both
<1>4. n \in {1, 2} /\ \A i \in Nat \ {0} : i < n => i \in 1..Len(own)
  BY <1>1
<1>5. Len(both) = n /\ both[n] = all[1] /\ Ssh!IsSequence(both)
      /\ \A i \in 1..n : i < n => i \in 1..Len(own) /\ both[i] = own[i]
  BY <1>1, <1>3, <1>4 DEF both
<1> HIDE DEF n
<1> DEFINE read == both \o v2
<1>6. /\ DOMAIN read \subseteq Nat \ {0} /\ n \in DOMAIN read /\ \A i \in 1..n : read[i] = both[i]
  BY <1>4, <1>5, SshAfter
<1>7. read = Ssh!OwnBlock(data, h) \o data.rest \o v2
  BY <1>2 DEF both, own
<1> HIDE DEF read
<1>8. read[n].host = Ssh!AnyHost /\ read[n].lines = g
  BY <1>1, <1>4, <1>5, <1>6 DEF Ssh!Block
<1>9. ASSUME NEW i \in DOMAIN read, i < n PROVE SshSilent(read[i].lines, key)
  <2>1. i \in 1..n
    BY <1>4, <1>6, <1>9
  <2> QED
    BY <1>1, <1>5, <1>6, <1>9, <2>1
<1> QED
  BY <1>6, <1>7, <1>8, <1>9, SshReads

\* With settings that are accepted, a host key is checked as they say.
LEMMA SshTrust ==
  ASSUME NEW p \in OfSsh.Processes, NEW s \in OfSsh.Settings[p], Ssh!Valid(s),
         NEW knows \in BOOLEAN, NEW h,
         Ssh!IsSequence(v2)
  PROVE  LET data == Ssh!Rendered(s, knows) IN
         /\ Ssh!Trust(data, h, knows) = Ssh!TrustOf(s.known, s.strict)
         /\ Ssh!Effective(data, h, "controlmaster", "no") = "auto" =>
              \A d : Ssh!Effective(data, h, "controlpath", d) = Ssh!ControlPath(s)
<1> DEFINE data == Ssh!Rendered(s, knows)
           g == Ssh!GlobalLines(s, knows) \o s.options
           r == CHOOSE x \in Ssh!WithHost(s, h) : TRUE
           own == data.blocks[h]
<1>1. data.rest = <<Ssh!Block(Ssh!AnyHost, g)>>
  BY DEF Ssh!Rendered
<1>2. h \in DOMAIN data.blocks => own = Ssh!Lines(s, r) /\ r \in Ssh!Names(s)
  BY DEF Ssh!Rendered, Ssh!WithHost
<1>3. /\ Ssh!IsSequence(g)
      /\ SshSays(g, "userknownhosts", s.known) /\ SshSays(g, "globalknownhosts", "none")
      /\ knows => SshSays(g, "knownhostscommand", "none")
      /\ SshSays(g, "stricthostkeychecking", s.strict) /\ SshSays(g, "controlmaster", "no")
  BY SshBlocks
<1>4. h \in DOMAIN data.blocks =>
        /\ Ssh!IsSequence(own)
        /\ \A key \in Ssh!Trusting \ {"controlmaster", "controlpath"} : SshSilent(own, key)
        /\ \/ SshSays(own, "controlmaster", "auto")
              /\ SshSays(own, "controlpath", Ssh!ControlPath(s))
           \/ SshSilent(own, "controlmaster")
  <2> HIDE DEF own, r, data
  <2>1. ASSUME NEW q \in Ssh!Names(s)
        PROVE  /\ Ssh!IsSequence(Ssh!Lines(s, q))
               /\ \A key \in Ssh!Trusting \ {"controlmaster", "controlpath"}
                  : SshSilent(Ssh!Lines(s, q), key)
               /\ \/ SshSays(Ssh!Lines(s, q), "controlmaster", "auto")
                     /\ SshSays(Ssh!Lines(s, q), "controlpath", Ssh!ControlPath(s))
                  \/ SshSilent(Ssh!Lines(s, q), "controlmaster")
    BY SshBlocks
  <2> QED
    BY <1>2, <2>1
<1> HIDE DEF data, g, r
<1>5. ASSUME NEW key
             \in {"userknownhosts", "globalknownhosts", "knownhostscommand",
               "stricthostkeychecking"},
             NEW value, SshSays(g, key, value), NEW d
      PROVE  Ssh!Effective(data, h, key, d) = value
  <2>1. key \in Ssh!Trusting \ {"controlmaster", "controlpath"}
    BY DEF Ssh!Trusting
  <2>2. h \in DOMAIN data.blocks => SshSilent(data.blocks[h], key)
    BY <1>4, <2>1
  <2> QED
    BY <1>1, <1>3, <1>5, <2>2, SshAllSay
<1>6. /\ Ssh!Effective(data, h, "userknownhosts", "own") = s.known
      /\ Ssh!Effective(data, h, "globalknownhosts", "system") = "none"
      /\ knows => Ssh!Effective(data, h, "knownhostscommand", "none") = "none"
      /\ Ssh!Effective(data, h, "stricthostkeychecking", "ask") = s.strict
  BY <1>3, <1>5
<1>7. Ssh!Trust(data, h, knows) = Ssh!TrustOf(s.known, s.strict)
  BY <1>6 DEF Ssh!Trust, Ssh!TrustOf
<1>8. ASSUME Ssh!Effective(data, h, "controlmaster", "no") = "auto", NEW d
      PROVE  Ssh!Effective(data, h, "controlpath", d) = Ssh!ControlPath(s)
  <2>1. CASE h \in DOMAIN data.blocks /\ SshSays(own, "controlpath", Ssh!ControlPath(s))
    BY <1>1, <1>4, <2>1, SshOwnFirst
  <2>2. CASE h \in DOMAIN data.blocks => SshSilent(own, "controlmaster")
    <3>1. Ssh!Effective(data, h, "controlmaster", "no") = "no"
      BY <1>1, <1>3, <2>2, SshAllSay
    <3> QED
      BY <1>8, <3>1
  <2> QED
    BY <1>4, <2>1, <2>2
<1> QED
  BY <1>7, <1>8 DEF data

-----------------------------------------------------------------------------
LEMMA SshBegins == Ssh!Init => Ssh!Inv
<1> SUFFICES ASSUME Ssh!Init PROVE Ssh!Inv
  OBVIOUS
<1>1. Ssh!TypeOK /\ DOMAIN v5 = OfSsh.Processes /\ DOMAIN v7 = OfSsh.Processes
  BY DEF Ssh!Init, Ssh!TypeOK
<1>2. v2 \in OfSsh.IncludedTexts \cup {<<>>}
  BY DEF Ssh!Init
<1>3. Ssh!FileInv /\ Ssh!MasterInv
  BY DEF Ssh!Init, Ssh!FileInv, Ssh!MasterInv, Ssh!Empty
<1>4. Ssh!SettingInv /\ Ssh!ConnInv /\ Ssh!TrustIsOwn
  BY DEF Ssh!Init, Ssh!SettingInv, Ssh!ConnInv, Ssh!TrustIsOwn, Ssh!NoConn
<1> QED
  BY <1>1, <1>2, <1>3, <1>4 DEF Ssh!Inv

LEMMA SshValidate ==
  ASSUME Ssh!Inv, NEW p \in OfSsh.Processes, Ssh!Validate(p)
  PROVE  Ssh!Inv'
<1> USE SshParts
<1>1. /\ v4[p] = "new" /\ UNCHANGED <<v1, v2, v3, v6, v7, v8>>
      /\ DOMAIN v4 = OfSsh.Processes /\ DOMAIN v5 = OfSsh.Processes
  BY DEF Ssh!Validate, Ssh!TypeOK
<1>2. PICK s \in OfSsh.Settings[p] : /\ v5' = [v5 EXCEPT ![p] = s]
                                     /\ \/ Ssh!Valid(s) /\ v4' = [v4 EXCEPT ![p] = "version"]
                                        \/ v4' = [v4 EXCEPT ![p] = "refused"]
  BY DEF Ssh!Validate, Ssh!Go
<1>3. \A q \in OfSsh.Processes \ {p} : v4'[q] = v4[q] /\ v5'[q] = v5[q]
  BY <1>1, <1>2
<1>4. v5'[p] = s /\ ((v4'[p] = "version" /\ Ssh!Valid(s)) \/ v4'[p] = "refused")
  BY <1>1, <1>2
<1>5. Ssh!TypeOK'
  BY <1>1, <1>2, <1>3, <1>4 DEF Ssh!TypeOK
<1>6. Ssh!SettingInv'
  BY <1>1, <1>3, <1>4 DEF Ssh!SettingInv
<1>7. Ssh!ConnInv' /\ Ssh!TrustIsOwn'
  BY <1>1, <1>3, <1>4 DEF Ssh!ConnInv, Ssh!TrustIsOwn, Ssh!SiteTrust
<1>8. Ssh!FileInv' /\ Ssh!MasterInv'
  BY <1>1 DEF Ssh!FileInv, Ssh!MasterInv
<1> QED
  BY <1>1, <1>2, <1>5, <1>6, <1>7, <1>8 DEF Ssh!Inv

LEMMA SshAskVersion ==
  ASSUME Ssh!Inv, NEW p \in OfSsh.Processes, Ssh!AskVersion(p)
  PROVE  Ssh!Inv'
<1> USE SshParts
<1>1. /\ v4[p] = "version" /\ UNCHANGED <<v1, v2, v3, v5, v7, v8>>
      /\ DOMAIN v4 = OfSsh.Processes /\ DOMAIN v6 = OfSsh.Processes
  BY DEF Ssh!AskVersion, Ssh!TypeOK
<1>2. /\ \/ v4' = [v4 EXCEPT ![p] = "write"]
            /\ \E knows \in BOOLEAN : v6' = [v6 EXCEPT ![p] = knows]
         \/ v4' = [v4 EXCEPT ![p] = "refused"] /\ v6' = v6
  BY DEF Ssh!AskVersion, Ssh!Go
<1>3. \A q \in OfSsh.Processes \ {p} : v4'[q] = v4[q] /\ v6'[q] = v6[q]
  BY <1>1, <1>2
<1>4. v4'[p] \in {"write", "refused"} /\ v6' \in [OfSsh.Processes -> BOOLEAN]
  BY <1>1, <1>2 DEF Ssh!TypeOK
<1>5. Ssh!TypeOK'
  BY <1>1, <1>2, <1>3, <1>4 DEF Ssh!TypeOK
<1>6. Ssh!SettingInv'
  BY <1>1, <1>3, <1>4 DEF Ssh!SettingInv
<1>7. Ssh!ConnInv' /\ Ssh!TrustIsOwn'
  BY <1>1, <1>3, <1>4 DEF Ssh!ConnInv, Ssh!TrustIsOwn, Ssh!SiteTrust
<1>8. Ssh!FileInv' /\ Ssh!MasterInv'
  BY <1>1 DEF Ssh!FileInv, Ssh!MasterInv
<1> QED
  BY <1>1, <1>5, <1>6, <1>7, <1>8 DEF Ssh!Inv

LEMMA SshWriteConfig ==
  ASSUME Ssh!Inv, NEW p \in OfSsh.Processes, Ssh!WriteConfig(p)
  PROVE  Ssh!Inv'
<1> USE SshParts
<1> DEFINE data == Ssh!Rendered(v5[p], v6[p])
<1>1. /\ v4[p] = "write" /\ UNCHANGED <<v2, v3, v5, v6, v8>>
      /\ DOMAIN v4 = OfSsh.Processes /\ DOMAIN v7 = OfSsh.Processes
      /\ v1' = Ssh!Put(v1, data, data) /\ v7' = [v7 EXCEPT ![p] = data]
      /\ v4' = [v4 EXCEPT ![p] = "ready"]
  BY DEF Ssh!WriteConfig, Ssh!TypeOK, Ssh!PathOf, Ssh!Go
<1> HIDE DEF data
<1>2. /\ \A q \in OfSsh.Processes \ {p} : v4'[q] = v4[q] /\ v7'[q] = v7[q]
      /\ v4'[p] = "ready" /\ v7'[p] = data
  BY <1>1
<1>3. DOMAIN v1' = DOMAIN v1 \cup {data} /\ Ssh!FileInv'
  BY <1>1 DEF Ssh!FileInv, Ssh!Put
<1>4. Ssh!TypeOK'
  BY <1>1, <1>2, <1>3 DEF Ssh!TypeOK
<1>5. Ssh!SettingInv'
  BY <1>1, <1>2 DEF Ssh!SettingInv, data
<1>6. Ssh!ConnInv' /\ Ssh!TrustIsOwn' /\ Ssh!MasterInv'
  BY <1>1, <1>2 DEF Ssh!ConnInv, Ssh!TrustIsOwn, Ssh!SiteTrust, Ssh!MasterInv
<1> QED
  BY <1>1, <1>3, <1>4, <1>5, <1>6 DEF Ssh!Inv

LEMMA SshConnect ==
  ASSUME Ssh!Inv, NEW p \in OfSsh.Processes, NEW h \in OfSsh.Hosts, Ssh!Connect(p, h)
  PROVE  Ssh!Inv'
<1> USE SshParts
<1> DEFINE data == v1[v7[p]]
           auto == Ssh!Effective(data, h, "controlmaster", "no") = "auto"
           socket == <<Ssh!Effective(data, h, "controlpath", Ssh!Nothing), h>>
           trust == Ssh!Trust(data, h, v6[p])
           s == v5[p]
           own == Ssh!TrustOf(s.known, s.strict)
<1>1. /\ v4[p] = "ready" /\ UNCHANGED <<v1, v2, v4, v5, v6, v7>>
      /\ \/ auto /\ socket \in DOMAIN v3 /\ v8' = [by |-> p, host |-> h, trust |-> v3[socket]]
            /\ v3' = v3
         \/ /\ v8' = [by |-> p, host |-> h, trust |-> trust]
            /\ \/ auto /\ v3' = Ssh!Put(v3, socket, trust)
               \/ v3' = v3
  BY DEF Ssh!Connect
<1>2. /\ v7[p] \in DOMAIN v1 /\ data = v7[p] /\ data = Ssh!Rendered(s, v6[p])
      /\ s \in OfSsh.Settings[p] /\ Ssh!Valid(s) /\ v6[p] \in BOOLEAN
  BY <1>1 DEF Ssh!TypeOK, Ssh!FileInv, Ssh!SettingInv
<1>3. Ssh!IsSequence(v2)
  BY CommandsConstants, SshFew DEF Ssh!SshConstants
<1>4. trust = own /\ (auto => socket = <<Ssh!ControlPath(s), h>>)
  BY <1>2, <1>3, SshTrust
<1>5. socket[1] = Ssh!Effective(data, h, "controlpath", Ssh!Nothing)
  OBVIOUS
<1> HIDE DEF data, auto, trust, own
<1>6. auto => /\ s.controlPath # Ssh!Unset => Len(socket[1]) = 1
              /\ s.controlPath = Ssh!Unset
                 => Len(socket[1]) = 3 /\ socket[1][2] = s.known /\ socket[1][3] = s.strict
  BY <1>4 DEF Ssh!ControlPath
<1> HIDE DEF socket
<1>7. Ssh!MasterInv'
  <2>1. CASE v3' = v3
    BY <2>1 DEF Ssh!MasterInv
  <2>2. CASE auto /\ v3' = Ssh!Put(v3, socket, trust)
    <3>1. DOMAIN v3' = DOMAIN v3 \cup {socket}
          /\ \A k \in DOMAIN v3' : v3'[k] = IF k = socket THEN trust ELSE v3[k]
      BY <2>2 DEF Ssh!Put
    <3>2. Len(socket[1]) = 3 => trust = Ssh!TrustOf(socket[1][2], socket[1][3])
      BY <1>4, <1>6, <2>2 DEF own
    <3> QED
      BY <3>1, <3>2 DEF Ssh!MasterInv
  <2> QED
    BY <1>1, <2>1, <2>2
<1>8. v8'.by = p /\ (s.controlPath = Ssh!Unset => v8'.trust = own)
  <2>1. CASE v8' = [by |-> p, host |-> h, trust |-> trust]
    BY <1>4, <2>1
  <2>2. CASE auto /\ socket \in DOMAIN v3 /\ v8' = [by |-> p, host |-> h, trust |-> v3[socket]]
    BY <1>6, <2>2 DEF Ssh!MasterInv, own
  <2> QED
    BY <1>1, <2>1, <2>2
<1>9. Ssh!ConnInv' /\ Ssh!TrustIsOwn'
  BY <1>1, <1>8 DEF Ssh!ConnInv, Ssh!TrustIsOwn, Ssh!SiteTrust, Ssh!TrustOf, own
<1>10. Ssh!TypeOK' /\ Ssh!FileInv' /\ Ssh!SettingInv'
  BY <1>1 DEF Ssh!TypeOK, Ssh!FileInv, Ssh!SettingInv
<1> QED
  BY <1>1, <1>7, <1>9, <1>10 DEF Ssh!Inv

LEMMA SshStep == Ssh!Inv /\ [Ssh!Next]_(Ssh!vars) => Ssh!Inv'
<1> SUFFICES ASSUME Ssh!Inv, [Ssh!Next]_(Ssh!vars) PROVE Ssh!Inv'
  OBVIOUS
<1>1. CASE \E p \in OfSsh.Processes : Ssh!Validate(p) \/ Ssh!AskVersion(p) \/ Ssh!WriteConfig(p)
           \/ \E h \in OfSsh.Hosts : Ssh!Connect(p, h)
  BY <1>1, SshValidate, SshAskVersion, SshWriteConfig, SshConnect
<1>2. CASE Ssh!EndMaster
  <2>1. UNCHANGED <<v1, v2, v4, v5, v6, v7, v8>>
        /\ \E s \in DOMAIN v3 : v3' = Ssh!Drop(v3, s)
    BY <1>2 DEF Ssh!EndMaster
  <2>2. Ssh!MasterInv'
    BY <2>1, SshParts DEF Ssh!MasterInv, Ssh!Drop
  <2>3. Ssh!TypeOK' /\ Ssh!FileInv' /\ Ssh!SettingInv' /\ Ssh!ConnInv' /\ Ssh!TrustIsOwn'
    BY <2>1, SshParts DEF Ssh!TypeOK, Ssh!FileInv, Ssh!SettingInv, Ssh!ConnInv, Ssh!TrustIsOwn,
       Ssh!SiteTrust
  <2> QED
    BY <2>1, <2>2, <2>3, SshParts DEF Ssh!Inv
<1>3. CASE Ssh!EditIncluded \/ UNCHANGED Ssh!vars
  <2>1. UNCHANGED <<v1, v3, v4, v5, v6, v7, v8>>
        /\ v2' \in OfSsh.IncludedTexts \cup {v2}
    BY <1>3 DEF Ssh!EditIncluded, Ssh!vars
  <2>2. Ssh!TypeOK' /\ Ssh!FileInv' /\ Ssh!SettingInv' /\ Ssh!MasterInv' /\ Ssh!ConnInv'
        /\ Ssh!TrustIsOwn'
    BY <2>1, SshParts DEF Ssh!TypeOK, Ssh!FileInv, Ssh!SettingInv, Ssh!MasterInv, Ssh!ConnInv,
       Ssh!TrustIsOwn, Ssh!SiteTrust
  <2> QED
    BY <2>1, <2>2, SshParts DEF Ssh!Inv
<1> QED
  BY <1>1, <1>2, <1>3 DEF Ssh!Next

LEMMA SshKeeps == Ssh!Inv => Ssh!TrustIsOwn
BY SshParts

\* The block of a role with jump hosts says them, and no other says any.
LEMMA SshJumpLine ==
  ASSUME NEW p \in OfSsh.Processes, NEW s \in OfSsh.Settings[p], Ssh!Valid(s), NEW r \in Ssh!Names(s)
  PROVE  /\ s.roles[r].jump # <<>> => SshSays(Ssh!Lines(s, r), "proxyjump", Ssh!Chain(s, r))
         /\ s.roles[r].jump = <<>> => SshSilent(Ssh!Lines(s, r), "proxyjump")
<1> DEFINE has == s.roles[r].jump # <<>>
           a == Ssh!If(has, <<Ssh!Line("proxyjump", Ssh!Chain(s, r))>>)
           b == Ssh!If(s.roles[r].master, <<Ssh!Line("controlmaster", "auto"), Ssh!Line("controlpath", Ssh!ControlPath(s))>>)
           c == Ssh!If(s.roles[r].legacy, Ssh!Legacy)
           d == s.roles[r].options
           k == "proxyjump"
           w == Ssh!Chain(s, r)
<1>1. Ssh!IsSequence(a) /\ Ssh!IsSequence(b) /\ Ssh!IsSequence(c)
  BY SshFew DEF Ssh!If, Ssh!Legacy
<1>2. Ssh!IsSequence(d)
  BY CommandsConstants DEF CommandsConstants, Ssh!SshConstants, Ssh!Names
<1>3. (has => SshSays(a, k, w)) /\ (~has => SshSilent(a, k))
  BY SshFew DEF Ssh!If, SshSays, SshSilent, Ssh!Line, Ssh!Keyword
<1>4. SshSilent(b, k) /\ SshSilent(c, k)
  BY SshFew DEF Ssh!If, Ssh!Legacy, SshSilent, Ssh!Line, Ssh!Keyword
<1>5. SshSilent(d, k)
  BY SshOptions DEF Ssh!Valid, Ssh!OfARole
<1>6. Ssh!Lines(s, r) = ((a \o b) \o c) \o d
  BY DEF Ssh!Lines, Ssh!RoleLines
<1> HIDE DEF a, b, c, d, k, w
<1>7. Ssh!IsSequence(a \o b) /\ Ssh!IsSequence((a \o b) \o c)
  BY <1>1, SshAfter
<1>8. (has => SshSays(a \o b, k, w)) /\ (~has => SshSilent(a \o b, k))
  BY <1>1, <1>3, <1>4, SshSayAfter
<1> DEFINE ab == a \o b
<1> HIDE DEF ab
<1>9. (has => SshSays(ab \o c, k, w)) /\ (~has => SshSilent(ab \o c, k))
  BY <1>1, <1>4, <1>7, <1>8, SshSayAfter DEF ab
<1> DEFINE abc == ab \o c
<1> HIDE DEF abc
<1>10. (has => SshSays(abc \o d, k, w)) /\ (~has => SshSilent(abc \o d, k))
  BY <1>2, <1>5, <1>7, <1>9, SshSayAfter DEF ab, abc
<1> QED
  BY <1>6, <1>10 DEF ab, abc, k, w

\* A chain is a sequence of hosts, as long as the jump hosts it is made of.
LEMMA SshChain ==
  ASSUME NEW p \in OfSsh.Processes, NEW s \in OfSsh.Settings[p], Ssh!Valid(s), NEW r \in Ssh!Names(s)
  PROVE  /\ Ssh!Chain(s, r) \in Seq(OfSsh.Hosts)
         /\ Ssh!Chain(s, r) = <<>> <=> s.roles[r].jump = <<>>
         /\ s.roles[r].jump # <<>> => /\ s.roles[r].jump[1] \in Ssh!Range(s.roles[r].jump)
                                      /\ Ssh!Chain(s, r)[1] = Ssh!HopHost(s, s.roles[r].jump[1])
<1> DEFINE jump == s.roles[r].jump
<1>1. jump \in Seq(Ssh!Range(jump))
  BY CommandsConstants DEF CommandsConstants, Ssh!SshConstants, Ssh!Names, Ssh!IsSequence
<1>2. Len(jump) \in Nat /\ DOMAIN jump = 1..Len(jump)
  BY <1>1
<1>3. \A i \in DOMAIN jump : Ssh!HopHost(s, jump[i]) \in OfSsh.Hosts
  <2>1. SUFFICES ASSUME NEW i \in DOMAIN jump PROVE Ssh!HopHost(s, jump[i]) \in OfSsh.Hosts
    OBVIOUS
  <2>2. Ssh!Resolves(s, jump[i])
    BY DEF Ssh!Valid
  <2>3. \A q \in Ssh!Names(s) : s.roles[q].host \in OfSsh.Hosts \cup {Ssh!Unset}
    BY CommandsConstants DEF CommandsConstants, Ssh!SshConstants, Ssh!Names
  <2> QED
    BY <2>2, <2>3 DEF Ssh!Resolves, Ssh!HopHost
<1>4. Ssh!Chain(s, r) = [i \in 1..Len(jump) |-> Ssh!HopHost(s, jump[i])]
  BY <1>2 DEF Ssh!Chain
<1>5. Ssh!Chain(s, r) \in [1..Len(jump) -> OfSsh.Hosts]
  BY <1>2, <1>3, <1>4
<1>6. Ssh!Chain(s, r) \in Seq(OfSsh.Hosts)
  BY <1>2, <1>5, SeqDef
<1>7. Len(Ssh!Chain(s, r)) = Len(jump)
  BY <1>2, <1>5, <1>6
<1>8. jump # <<>> => 1 \in DOMAIN jump
  BY <1>1, <1>2
<1>9. jump # <<>> => jump[1] \in Ssh!Range(jump) /\ Ssh!Chain(s, r)[1] = Ssh!HopHost(s, jump[1])
  BY <1>2, <1>4, <1>8 DEF Ssh!Range
<1>10. Ssh!Chain(s, r) = <<>> <=> jump = <<>>
  BY <1>1, <1>6, <1>7
<1> QED
  BY <1>6, <1>9, <1>10

\* The chain of a host is that of each of its roles.
LEMMA SshChainOf ==
  ASSUME NEW p \in OfSsh.Processes, NEW s \in OfSsh.Settings[p], Ssh!Valid(s), NEW h \in OfSsh.Hosts
  PROVE  /\ Ssh!ChainOf(s, h) \in Seq(OfSsh.Hosts)
         /\ \A r \in Ssh!WithHost(s, h) : Ssh!ChainOf(s, h) = Ssh!Chain(s, r)
         /\ Ssh!ChainOf(s, h) # <<>> => Ssh!WithHost(s, h) # {}
<1>1. ASSUME NEW r \in Ssh!WithHost(s, h), NEW q \in Ssh!WithHost(s, h)
      PROVE  Ssh!Chain(s, r) = Ssh!Chain(s, q)
  <2>1. r \in Ssh!Names(s) /\ q \in Ssh!Names(s) /\ s.roles[r].host = s.roles[q].host
    BY <1>1 DEF Ssh!WithHost
  <2>2. Ssh!Lines(s, r) = Ssh!Lines(s, q)
    BY <2>1 DEF Ssh!Valid
  <2>3. /\ s.roles[r].jump # <<>> => SshSays(Ssh!Lines(s, r), "proxyjump", Ssh!Chain(s, r))
        /\ s.roles[r].jump = <<>> => SshSilent(Ssh!Lines(s, r), "proxyjump")
        /\ s.roles[q].jump # <<>> => SshSays(Ssh!Lines(s, q), "proxyjump", Ssh!Chain(s, q))
        /\ s.roles[q].jump = <<>> => SshSilent(Ssh!Lines(s, q), "proxyjump")
    BY <2>1, SshJumpLine
  <2>4. /\ Ssh!Chain(s, r) = <<>> <=> s.roles[r].jump = <<>>
        /\ Ssh!Chain(s, q) = <<>> <=> s.roles[q].jump = <<>>
    BY <2>1, SshChain
  <2> QED
    BY <2>2, <2>3, <2>4 DEF SshSays, SshSilent
<1>2. CASE Ssh!WithHost(s, h) = {}
  BY <1>2 DEF Ssh!ChainOf
<1>3. CASE Ssh!WithHost(s, h) # {}
  <2>1. PICK c \in Ssh!WithHost(s, h) : Ssh!ChainOf(s, h) = Ssh!Chain(s, c)
    BY <1>3 DEF Ssh!ChainOf
  <2>2. c \in Ssh!Names(s)
    BY DEF Ssh!WithHost
  <2>3. Ssh!Chain(s, c) \in Seq(OfSsh.Hosts)
    BY <2>2, SshChain
  <2> QED
    BY <1>1, <1>3, <2>1, <2>3
<1> QED
  BY <1>2, <1>3

\* The first hops of a host: the host, and what the chains of first hops begin
\* with, and nothing else.
LEMMA SshFirstHops ==
  ASSUME NEW p \in OfSsh.Processes, NEW s \in OfSsh.Settings[p], Ssh!Valid(s), NEW h \in OfSsh.Hosts
  PROVE  /\ Ssh!FirstHops(s, h) \subseteq OfSsh.Hosts /\ h \in Ssh!FirstHops(s, h)
         /\ \A g \in Ssh!FirstHops(s, h) : Ssh!ChainOf(s, g) # <<>> => Ssh!ChainOf(s, g)[1] \in Ssh!FirstHops(s, h)
         /\ \A g \in Ssh!FirstHops(s, h) : g = h \/ \E f \in Ssh!FirstHops(s, h) :
              Ssh!ChainOf(s, f) # <<>> /\ g = Ssh!ChainOf(s, f)[1]
<1> DEFINE F == Ssh!FirstHops(s, h)
           Closed(S) == \A x \in S : Ssh!ChainOf(s, x) # <<>> => Ssh!ChainOf(s, x)[1] \in S
<1>1. F \subseteq OfSsh.Hosts /\ h \in F
  BY DEF Ssh!FirstHops
<1>2. \A x \in OfSsh.Hosts : Ssh!ChainOf(s, x) # <<>> => Ssh!ChainOf(s, x)[1] \in OfSsh.Hosts
  BY SshChainOf
<1>3. ASSUME NEW g \in F, Ssh!ChainOf(s, g) # <<>> PROVE Ssh!ChainOf(s, g)[1] \in F
  BY <1>1, <1>2, <1>3 DEF Ssh!FirstHops
<1>4. ASSUME NEW g \in F, g # h PROVE \E f \in F : Ssh!ChainOf(s, f) # <<>> /\ g = Ssh!ChainOf(s, f)[1]
  <2>1. SUFFICES ASSUME \A f \in F : Ssh!ChainOf(s, f) # <<>> => g # Ssh!ChainOf(s, f)[1] PROVE FALSE
    OBVIOUS
  <2>2. Closed(F \ {g}) /\ h \in F \ {g} /\ F \ {g} \in SUBSET OfSsh.Hosts
    BY <1>1, <1>3, <1>4, <2>1
  <2>3. \A S \in SUBSET OfSsh.Hosts : h \in S /\ Closed(S) => g \in S
    BY <1>4 DEF Ssh!FirstHops
  <2> QED
    BY <2>2, <2>3
<1> QED
  BY <1>1, <1>3, <1>4

\* Without a cycle the roles lead to a host that none gives a jump.
LEMMA SshEnds ==
  ASSUME NEW p \in OfSsh.Processes, NEW s \in OfSsh.Settings[p], Ssh!Valid(s), NEW h \in OfSsh.Hosts
  PROVE  \E g \in Ssh!FirstHops(s, h) : Ssh!ChainOf(s, g) = <<>>
<1> DEFINE F == Ssh!FirstHops(s, h)
           C == {r \in Ssh!Names(s) : s.roles[r].host \in F}
<1>1. SUFFICES ASSUME \A g \in F : Ssh!ChainOf(s, g) # <<>> PROVE FALSE
  OBVIOUS
<1>2. F \subseteq OfSsh.Hosts /\ h \in F /\ \A g \in F : Ssh!ChainOf(s, g)[1] \in F
  BY <1>1, SshFirstHops
<1>3. \A g \in F : Ssh!WithHost(s, g) # {} /\ Ssh!WithHost(s, g) \subseteq C
  BY <1>1, <1>2, SshChainOf DEF Ssh!WithHost
<1>4. C # {} /\ C \in SUBSET Ssh!Names(s)
  BY <1>2, <1>3
<1>5. ASSUME NEW r \in C PROVE Ssh!NextRoles(s, r) \cap C # {}
  <2> DEFINE g == s.roles[r].host
             e == s.roles[r].jump[1]
  <2>1. r \in Ssh!Names(s) /\ g \in F /\ r \in Ssh!WithHost(s, g)
    BY <1>5 DEF Ssh!WithHost
  <2>2. g \in OfSsh.Hosts
    BY <1>2, <2>1
  <2>3. Ssh!ChainOf(s, g) = Ssh!Chain(s, r)
    BY <2>1, <2>2, SshChainOf
  <2>4. s.roles[r].jump # <<>>
    BY <1>1, <2>1, <2>3, SshChain
  <2>5. e \in Ssh!Range(s.roles[r].jump) /\ Ssh!Chain(s, r)[1] = Ssh!HopHost(s, e)
    BY <2>1, <2>4, SshChain
  <2>6. Ssh!HopHost(s, e) \in F
    BY <1>2, <2>1, <2>3, <2>5
  <2>7. Ssh!HopRoles(s, e) \cap C # {}
    <3>1. CASE e \in Ssh!Names(s)
      BY <3>1, <2>6 DEF Ssh!HopRoles, Ssh!HopHost
    <3>2. CASE e \notin Ssh!Names(s)
      BY <3>2, <2>6, <1>3 DEF Ssh!HopRoles, Ssh!HopHost
    <3> QED
      BY <3>1, <3>2
  <2> QED
    BY <2>5, <2>7 DEF Ssh!NextRoles
<1>6. Ssh!CyclicJumps(s)
  BY <1>4, <1>5 DEF Ssh!CyclicJumps
<1> QED
  BY <1>6 DEF Ssh!Valid

\* What is in a sequence is first in it or after the first.
LEMMA SshFirstOrAfter ==
  ASSUME NEW S, NEW t \in Seq(S), t # <<>>
  PROVE  Ssh!Range(t) = {t[1]} \cup Ssh!Range(Tail(t))
<1>1. Len(t) \in Nat \ {0} /\ DOMAIN t = 1..Len(t)
  OBVIOUS
<1>2. DOMAIN Tail(t) = 1..(Len(t) - 1) /\ \A i \in 1..(Len(t) - 1) : Tail(t)[i] = t[i + 1]
  BY <1>1
<1>3. ASSUME NEW i \in DOMAIN t PROVE i = 1 \/ (i - 1 \in DOMAIN Tail(t) /\ Tail(t)[i - 1] = t[i])
  BY <1>1, <1>2, <1>3
<1>4. ASSUME NEW i \in DOMAIN Tail(t) PROVE i + 1 \in DOMAIN t /\ t[i + 1] = Tail(t)[i]
  BY <1>1, <1>2, <1>4
<1>5. 1 \in DOMAIN t
  BY <1>1
<1>6. Ssh!Range(t) \subseteq {t[1]} \cup Ssh!Range(Tail(t))
  BY <1>3 DEF Ssh!Range
<1>7. {t[1]} \cup Ssh!Range(Tail(t)) \subseteq Ssh!Range(t)
  BY <1>4, <1>5 DEF Ssh!Range
<1> QED
  BY <1>6, <1>7

\* What the roles' chains lead to is first in one, or after the first.
LEMMA SshCounted ==
  ASSUME NEW p \in OfSsh.Processes, NEW s \in OfSsh.Settings[p], Ssh!Valid(s), NEW h \in OfSsh.Hosts
  PROVE  LET through == {g \in Ssh!FirstHops(s, h) : Ssh!ChainOf(s, g) # <<>>} IN
         Ssh!JumpHosts(s, h) \cup {h}
           = Ssh!FirstHops(s, h) \cup UNION {Ssh!Range(Tail(Ssh!ChainOf(s, g))) : g \in through}
<1> DEFINE F == Ssh!FirstHops(s, h)
<1>1. /\ F \subseteq OfSsh.Hosts /\ h \in F
      /\ \A g \in F : Ssh!ChainOf(s, g) # <<>> => Ssh!ChainOf(s, g)[1] \in F
      /\ \A g \in F : g = h \/ \E f \in F : Ssh!ChainOf(s, f) # <<>> /\ g = Ssh!ChainOf(s, f)[1]
  BY SshFirstHops
<1>2. \A g \in F : Ssh!ChainOf(s, g) # <<>> =>
        Ssh!Range(Ssh!ChainOf(s, g)) = {Ssh!ChainOf(s, g)[1]} \cup Ssh!Range(Tail(Ssh!ChainOf(s, g)))
  BY <1>1, SshChainOf, SshFirstOrAfter
<1>3. \A g \in F : Ssh!ChainOf(s, g) = <<>> => Ssh!Range(Ssh!ChainOf(s, g)) = {}
  BY DEF Ssh!Range
<1> QED
  BY <1>1, <1>2, <1>3 DEF Ssh!JumpHosts

\* The file a process that is ready made is the rendering of its settings.
LEMMA SshOwnFile ==
  ASSUME Ssh!Inv, NEW p \in OfSsh.Processes, v4[p] = "ready"
  PROVE  /\ v5[p] \in OfSsh.Settings[p] /\ Ssh!Valid(v5[p]) /\ v6[p] \in BOOLEAN
         /\ v1[v7[p]] = Ssh!Rendered(v5[p], v6[p])
BY SshParts DEF Ssh!TypeOK, Ssh!FileInv, Ssh!SettingInv

\* Where a role gives a host a chain, ssh takes it, whatever ssh.options and
\* the included file say: the block of the host comes first.
LEMMA SshJump ==
  ASSUME Ssh!Inv, NEW p \in OfSsh.Processes, v4[p] = "ready", NEW h \in OfSsh.Hosts,
         Ssh!ChainOf(v5[p], h) # <<>>
  PROVE  Ssh!Jump(p, h) = Ssh!ChainOf(v5[p], h)
<1> DEFINE s == v5[p]
           data == Ssh!Rendered(s, v6[p])
           r == CHOOSE x \in Ssh!WithHost(s, h) : TRUE
           g == Ssh!GlobalLines(s, v6[p]) \o s.options
<1>1. s \in OfSsh.Settings[p] /\ Ssh!Valid(s) /\ v6[p] \in BOOLEAN /\ v1[v7[p]] = data
  BY SshOwnFile
<1>2. Ssh!IsSequence(v2)
  BY SshParts, SshFew, CommandsConstants DEF CommandsConstants, Ssh!SshConstants
<1>3. Ssh!WithHost(s, h) # {} /\ r \in Ssh!WithHost(s, h) /\ Ssh!ChainOf(s, h) = Ssh!Chain(s, r)
  BY <1>1, SshChainOf
<1>4. r \in Ssh!Names(s)
  BY <1>3 DEF Ssh!WithHost
<1>5. s.roles[r].jump # <<>>
  BY <1>1, <1>3, <1>4, SshChain
<1>6. SshSays(Ssh!Lines(s, r), "proxyjump", Ssh!Chain(s, r)) /\ Ssh!IsSequence(Ssh!Lines(s, r))
  <2>1. SshSays(Ssh!Lines(s, r), "proxyjump", Ssh!Chain(s, r))
    BY <1>1, <1>4, <1>5, SshJumpLine
  <2>2. \A q \in Ssh!Names(s) : Ssh!IsSequence(Ssh!Lines(s, q))
    BY <1>1, SshBlocks
  <2> QED
    BY <1>4, <2>1, <2>2
<1>7. data.rest = <<Ssh!Block(Ssh!AnyHost, g)>>
  BY DEF Ssh!Rendered
<1>8. h \in DOMAIN data.blocks /\ data.blocks[h] = Ssh!Lines(s, r)
  BY <1>3 DEF Ssh!Rendered
<1> HIDE DEF data, r, g
<1>9. Ssh!Effective(data, h, "proxyjump", Ssh!Nothing) = Ssh!Chain(s, r)
  BY <1>2, <1>6, <1>7, <1>8, SshOwnFirst
<1> QED
  BY <1>1, <1>3, <1>9 DEF Ssh!Jump

\* ssh comes to every host the roles' chains begin with; and to no other, as
\* long as no host it comes to has a jump the roles do not give it.
LEMMA SshReaches ==
  ASSUME Ssh!Inv, NEW p \in OfSsh.Processes, v4[p] = "ready", NEW h \in OfSsh.Hosts
  PROVE  /\ Ssh!FirstHops(v5[p], h) \subseteq Ssh!Reaches(p, h)
         /\ (\A g \in Ssh!Reaches(p, h) : ~Ssh!JumpsElsewhere(p, g)) =>
              /\ Ssh!Reaches(p, h) = Ssh!FirstHops(v5[p], h)
              /\ \A g \in Ssh!Reaches(p, h) : Ssh!Jump(p, g) = Ssh!ChainOf(v5[p], g)
<1> DEFINE s == v5[p]
           F == Ssh!FirstHops(s, h)
           R == Ssh!Reaches(p, h)
           Chained(S) == \A x \in S : Ssh!ChainOf(s, x) # <<>> => Ssh!ChainOf(s, x)[1] \in S
           Jumped(S) == \A x \in S : Ssh!Jump(p, x) # <<>> => Ssh!Jump(p, x)[1] \in S
<1>1. s \in OfSsh.Settings[p] /\ Ssh!Valid(s)
  BY SshOwnFile
<1>2. \A x \in OfSsh.Hosts : Ssh!ChainOf(s, x) # <<>> => Ssh!Jump(p, x) = Ssh!ChainOf(s, x)
  BY SshJump
<1>3. F = {g \in OfSsh.Hosts : \A S \in SUBSET OfSsh.Hosts : h \in S /\ Chained(S) => g \in S}
  BY DEF Ssh!FirstHops
<1>4. R = {g \in OfSsh.Hosts : \A S \in SUBSET OfSsh.Hosts : h \in S /\ Jumped(S) => g \in S}
  BY DEF Ssh!Reaches, Ssh!Nothing
<1>5. \A S \in SUBSET OfSsh.Hosts : Jumped(S) => Chained(S)
  BY <1>2
<1>6. F \subseteq R
  <2> HIDE DEF F, R, Chained, Jumped
  <2> QED
    BY <1>3, <1>4, <1>5
<1>7. ASSUME \A g \in R : ~Ssh!JumpsElsewhere(p, g)
      PROVE  R = F /\ \A g \in R : Ssh!Jump(p, g) = Ssh!ChainOf(s, g)
  <2>1. \A g \in R : Ssh!Jump(p, g) = Ssh!ChainOf(s, g)
    <3>1. \A g \in R : g \in OfSsh.Hosts
      BY <1>4
    <3>2. \A g \in R : Ssh!ChainOf(s, g) = <<>> => Ssh!Jump(p, g) = <<>>
      BY <1>7 DEF Ssh!JumpsElsewhere, Ssh!Nothing
    <3> QED
      BY <1>2, <3>1, <3>2
  <2>2. F \subseteq OfSsh.Hosts /\ h \in F /\ Chained(F)
    BY <1>1, SshFirstHops
  <2>3. Jumped(F)
    BY <1>6, <2>1, <2>2
  <2>4. R \subseteq F
    <3>1. F \in SUBSET OfSsh.Hosts
      BY <2>2
    <3> HIDE DEF F, R, Chained, Jumped
    <3> QED
      BY <1>4, <2>2, <2>3, <3>1
  <2> QED
    BY <1>6, <2>1, <2>4
<1> QED
  BY <1>6, <1>7

\* Every process with settings that were accepted.
LEMMA SshJumpsEnd == Ssh!Inv => Ssh!JumpsEnd
<1> SUFFICES ASSUME Ssh!Inv, NEW p \in OfSsh.Processes, v4[p] = "ready", NEW h \in OfSsh.Hosts
             PROVE  /\ Ssh!JumpHosts(v5[p], h) \cup {h} \subseteq Ssh!Connects(p, h)
                    /\ (\A g \in Ssh!Reaches(p, h) : ~Ssh!JumpsElsewhere(p, g)) =>
                         /\ Ssh!Ends(p, h)
                         /\ Ssh!Connects(p, h) = Ssh!JumpHosts(v5[p], h) \cup {h}
  BY DEF Ssh!JumpsEnd
<1> DEFINE s == v5[p]
           F == Ssh!FirstHops(s, h)
           R == Ssh!Reaches(p, h)
           C(g) == Ssh!ChainOf(s, g)
           J(g) == Ssh!Jump(p, g)
           Chained == {g \in F : C(g) # <<>>}
           Jumped == {g \in R : J(g) # <<>>}
<1>1. s \in OfSsh.Settings[p] /\ Ssh!Valid(s)
  BY SshOwnFile
<1>2. Ssh!JumpHosts(s, h) \cup {h} = F \cup UNION {Ssh!Range(Tail(C(g))) : g \in Chained}
  BY <1>1, SshCounted
<1>3. Ssh!Connects(p, h) = R \cup UNION {Ssh!Range(Tail(J(g))) : g \in Jumped}
  BY DEF Ssh!Connects, Ssh!Nothing
<1>4. F \subseteq R /\ F \subseteq OfSsh.Hosts
  BY <1>1, SshReaches, SshFirstHops
<1>5. \A g \in F : C(g) # <<>> => J(g) = C(g)
  BY <1>4, SshJump
<1>6. ASSUME \A g \in R : ~Ssh!JumpsElsewhere(p, g)
      PROVE  R = F /\ \A g \in R : J(g) = C(g)
  BY <1>6, SshReaches
<1>7. \E g \in F : C(g) = <<>>
  BY <1>1, SshEnds
<1>8. ASSUME \A g \in R : ~Ssh!JumpsElsewhere(p, g) PROVE Ssh!Ends(p, h)
  BY <1>6, <1>7, <1>8 DEF Ssh!Ends, Ssh!Nothing
<1>9. F \cup UNION {Ssh!Range(Tail(C(g))) : g \in Chained}
        \subseteq R \cup UNION {Ssh!Range(Tail(J(g))) : g \in Jumped}
  <2>1. \A g \in Chained : g \in Jumped /\ J(g) = C(g)
    BY <1>4, <1>5
  <2> HIDE DEF F, R, C, J, Chained, Jumped
  <2> QED
    BY <1>4, <2>1
<1>10. ASSUME \A g \in R : ~Ssh!JumpsElsewhere(p, g)
       PROVE  R \cup UNION {Ssh!Range(Tail(J(g))) : g \in Jumped}
                \subseteq F \cup UNION {Ssh!Range(Tail(C(g))) : g \in Chained}
  <2>1. R = F /\ \A g \in Jumped : g \in Chained /\ J(g) = C(g)
    BY <1>6, <1>10
  <2> HIDE DEF F, R, C, J, Chained, Jumped
  <2> QED
    BY <2>1
<1> HIDE DEF F, R, C, J, Chained, Jumped
<1>11. Ssh!JumpHosts(s, h) \cup {h} \subseteq Ssh!Connects(p, h)
  BY <1>2, <1>3, <1>9
<1>12. ASSUME \A g \in R : ~Ssh!JumpsElsewhere(p, g)
       PROVE  Ssh!Connects(p, h) = Ssh!JumpHosts(s, h) \cup {h}
  BY <1>2, <1>3, <1>9, <1>10, <1>12
<1> QED
  BY <1>8, <1>11, <1>12 DEF R

\* A step of the whole is one of the component, or of another scene.
LEMMA SshScene ==
  ASSUME [Next]_vars
  PROVE  /\ scene' = scene
         /\ scene = "ssh" => [Ssh!Next]_(Ssh!vars)
BY DEF Next, vars, Ssh!vars

\* The invariant of the component is one of the whole.
LEMMA SshAlways == Spec => [](scene = "ssh" => Ssh!Inv)
<1>1. Init => (scene = "ssh" => Ssh!Inv)
  BY SshBegins DEF Init, Begin
<1>2. (scene = "ssh" => Ssh!Inv) /\ [Next]_vars => (scene = "ssh" => Ssh!Inv)'
  BY SshScene, SshStep
<1> QED
  BY <1>1, <1>2, PTL DEF Spec

\* For any settings of any number of processes, whatever the included file says
\* and whichever masters are open: the host key of every connection is checked by
\* the settings of its own context.  (writeConfig, generateConfig, controlPath)
THEOREM TrustIsTheirOwn == Spec => []TrustIsOwn
<1>1. (scene = "ssh" => Ssh!Inv) => TrustIsOwn
  BY SshKeeps DEF TrustIsOwn
<1> QED
  BY <1>1, SshAlways, PTL

(***************************************************************************)
(* The inventory and what a typed name means in it.  A node is what its    *)
(* last entry made of it, and every name an entry writes is given to its   *)
(* node (PlaceInv, KeptInv).  Where no name is given twice, which is       *)
(* checked before a name is read (UniqueInv), the owners of a spelling are *)
(* looked up in an order in which at most one kind of owner answers, so    *)
(* what was selected is the one machine that goes by the name that was     *)
(* typed, or none does, or several do (SelectedInv).                       *)
(*                                                                         *)
(* The registers: v1 entries, v2 command, v3 at, v4 entry, v5 name, v6     *)
(* order, v7 nodes, v8 left, v9 selected.                                  *)
(***************************************************************************)
\* The sets of Inventory that are finite, and how many elements they have.
LEMMA InventorySizes ==
  \A S : (Inventory!IsFiniteSet(S) <=> IsFiniteSet(S)) /\ Inventory!Cardinality(S) = Cardinality(S)
BY DEF Inventory!IsFiniteSet, Inventory!Cardinality, IsFiniteSet, Cardinality

\* What is given.
LEMMA InventoryGiven ==
  \A es \in OfInventory.Documents :
    /\ es \in Seq(Inventory!Range(es))
    /\ \A i \in DOMAIN es :
         /\ es[i].nodes \in Seq(Inventory!Range(es[i].nodes)) /\ DOMAIN es[i].ids \subseteq Inventory!Fields
         /\ es[i].rack # Inventory!Unset
         /\ \A k \in DOMAIN es[i].nodes : Inventory!IsName(es[i].nodes[k])
<1> SUFFICES ASSUME NEW es \in OfInventory.Documents, NEW i \in DOMAIN es
             PROVE  /\ es[i].nodes \in Seq(Inventory!Range(es[i].nodes))
                    /\ DOMAIN es[i].ids \subseteq Inventory!Fields
                    /\ es[i].rack # Inventory!Unset
                    /\ \A k \in DOMAIN es[i].nodes : Inventory!IsName(es[i].nodes[k])
  BY CommandsConstants DEF CommandsConstants, Inventory!MachinesConstants
<1>1. es[i] \in Inventory!Range(es)
  BY DEF Inventory!Range
<1>2. \A k \in DOMAIN es[i].nodes : es[i].nodes[k] \in Inventory!Range(es[i].nodes)
  BY DEF Inventory!Range
<1> QED
  BY <1>1, <1>2, CommandsConstants DEF CommandsConstants, Inventory!MachinesConstants

\* Nothing is read before the first entry.
LEMMA InventoryBegins == Inventory!Init => Inventory!Inv
<1> SUFFICES ASSUME Inventory!Init PROVE Inventory!Inv
  OBVIOUS
<1>1. /\ v1 \in OfInventory.Documents /\ v3 = "entry" /\ v4 = 1 /\ v5 = 1 /\ v6 = <<>>
      /\ v7 = Inventory!Empty /\ v9 = {} /\ v8 = {} /\ v2 \in OfInventory.Selections
  BY DEF Inventory!Init
<1>2. Inventory!Known = {} /\ DOMAIN v7 = {}
  BY <1>1 DEF Inventory!Known, Inventory!Range, Inventory!Empty
<1>3. /\ Inventory!IsFiniteSet(Inventory!Known) /\ Inventory!Cardinality(Inventory!Known) = 0
      /\ v6 \in Seq(Inventory!Known) /\ Len(v6) = 0
  BY <1>1, <1>2, FS_EmptySet, InventorySizes
<1>4. Inventory!TypeOK
  BY <1>1, <1>2, <1>3 DEF Inventory!TypeOK
<1>5. v1 \in Seq(Inventory!Range(v1))
  BY <1>1, InventoryGiven
<1>6. Inventory!PlaceInv
  <2>1. Len(v1) \in Nat /\ DOMAIN v1 = 1..Len(v1)
    BY <1>5
  <2>2. v4 \in 1..Len(v1) + 1
    BY <1>1, <2>1
  <2> QED
    BY <1>1, <2>1, <2>2 DEF Inventory!PlaceInv
<1>7. \A i \in DOMAIN v1 : Inventory!NamesRead(i) = {}
  <2> SUFFICES ASSUME NEW i \in DOMAIN v1, NEW k \in DOMAIN v1[i].nodes
               PROVE  ~(i < 1 \/ (i = 1 /\ k < 1))
    BY <1>1 DEF Inventory!NamesRead
  <2>1. i \in Nat /\ i >= 1
    BY <1>5
  <2>2. k \in Nat /\ k >= 1
    <3>1. v1[i].nodes \in Seq(Inventory!Range(v1[i].nodes))
      BY <1>1, InventoryGiven
    <3> QED
      BY <3>1
  <2> QED
    BY <2>1, <2>2
<1>8. Inventory!KeptInv
  BY <1>2, <1>7 DEF Inventory!KeptInv, Inventory!OneNameEach
<1>9. Inventory!UniqueInv /\ Inventory!SelectedInv
  BY <1>1 DEF Inventory!UniqueInv, Inventory!SelectedInv, Inventory!SelectedIsMeant
<1> QED
  BY <1>1, <1>3, <1>4, <1>6, <1>8, <1>9 DEF Inventory!Inv

(***************************************************************************)
(* One name of an entry.                                                   *)
(***************************************************************************)
\* The next name that is read of an entry, and the machine it is applied to.
InventoryNextName == v1[v4].nodes[v5]
InventoryBefore(n) == IF n \in Inventory!Known THEN v7[n] ELSE Inventory!Fresh(v1[v4])

\* What a step of Build that refuses nothing does.
InventoryAdded(n) ==
  /\ v3 = "entry" /\ v4 \in DOMAIN v1 /\ n = InventoryNextName /\ v1[v4].nodes # <<>>
  /\ Inventory!Claimable(n)
  /\ v7' = Inventory!Put(v7, n, Inventory!Applied(InventoryBefore(n), v1[v4]))
  /\ v6' = IF n \in Inventory!Known THEN v6 ELSE Append(v6, n)
  /\ IF v5 < Len(v1[v4].nodes) THEN v5' = v5 + 1 /\ v4' = v4
                               ELSE v5' = 1 /\ v4' = v4 + 1
  /\ v3' = v3 /\ v8' = v8 /\ v9' = v9 /\ v1' = v1 /\ v2' = v2

LEMMA InventoryBuildIs ==
  ASSUME Inventory!Build
  PROVE  \/ InventoryAdded(InventoryNextName)
         \/ /\ v3 = "entry" /\ v3' = "refused" /\ UNCHANGED <<v1, v2, v8, v9>>
            /\ UNCHANGED Inventory!inventory
<1>1. CASE Inventory!BadEntry(v1[v4]) \/ ~Inventory!Claimable(InventoryNextName)
  BY <1>1 DEF Inventory!Build, InventoryNextName, Inventory!Refused
<1>2. CASE ~(Inventory!BadEntry(v1[v4]) \/ ~Inventory!Claimable(InventoryNextName))
  <2>1. v1[v4].nodes # <<>>
    BY <1>2 DEF Inventory!BadEntry
  <2>2. /\ v3 = "entry" /\ v4 \in DOMAIN v1
        /\ v7' = Inventory!Put(v7, InventoryNextName,
                               Inventory!Applied(InventoryBefore(InventoryNextName), v1[v4]))
        /\ v6' = IF InventoryNextName \in Inventory!Known THEN v6 ELSE Append(v6, InventoryNextName)
        /\ IF v5 < Len(v1[v4].nodes) THEN v5' = v5 + 1 /\ v4' = v4
                                     ELSE v5' = 1 /\ v4' = v4 + 1
        /\ v3' = v3 /\ v8' = v8 /\ v9' = v9 /\ v1' = v1 /\ v2' = v2
    BY <1>2 DEF Inventory!Build, InventoryNextName, InventoryBefore
  <2> QED
    BY <1>2, <2>1, <2>2 DEF InventoryAdded
<1> QED
  BY <1>1, <1>2

\* Where the reading is, and the names of the entry.
LEMMA InventoryReading ==
  ASSUME Inventory!Inv, NEW n, InventoryAdded(n)
  PROVE  /\ v1 \in Seq(Inventory!Range(v1)) /\ DOMAIN v1 = 1..Len(v1) /\ Len(v1) \in Nat
         /\ v4 \in 1..Len(v1)
         /\ DOMAIN v1[v4].nodes = 1..Len(v1[v4].nodes)
         /\ Len(v1[v4].nodes) \in Nat /\ v5 \in 1..Len(v1[v4].nodes)
         /\ n = v1[v4].nodes[v5]
         /\ DOMAIN v1[v4].ids \subseteq Inventory!Fields /\ v1[v4].rack # Inventory!Unset
<1>1. v1 \in OfInventory.Documents /\ Inventory!PlaceInv /\ v4 \in DOMAIN v1 /\ n = v1[v4].nodes[v5]
      /\ v1[v4].nodes # <<>>
  BY DEF Inventory!Inv, InventoryAdded, InventoryNextName
<1>2. v1 \in Seq(Inventory!Range(v1))
  BY <1>1, InventoryGiven
<1>3. v1[v4].nodes \in Seq(Inventory!Range(v1[v4].nodes))
  BY <1>1, InventoryGiven
<1>4. v5 \in Nat /\ v5 >= 1 /\ (v5 = 1 \/ v5 <= Len(v1[v4].nodes))
  BY <1>1 DEF Inventory!PlaceInv
<1>5. DOMAIN v1[v4].nodes = 1..Len(v1[v4].nodes) /\ Len(v1[v4].nodes) \in Nat
  BY <1>3
<1>6. Len(v1[v4].nodes) # 0
  BY <1>1, <1>3
<1>7. v5 \in DOMAIN v1[v4].nodes
  BY <1>4, <1>5, <1>6
<1>9. DOMAIN v1[v4].ids \subseteq Inventory!Fields /\ v1[v4].rack # Inventory!Unset
  BY <1>1, InventoryGiven
<1> QED
  BY <1>1, <1>2, <1>5, <1>7, <1>9

\* One more name of the entry was read, and no other.
LEMMA InventoryNamesReadNext ==
  ASSUME Inventory!Inv, NEW n, InventoryAdded(n)
  PROVE  /\ \A i \in DOMAIN v1 :
              Inventory!NamesRead(i)' = IF i = v4 THEN Inventory!NamesRead(i) \cup {n}
                                                  ELSE Inventory!NamesRead(i)
         /\ \A i \in DOMAIN v1 : Inventory!NamesRead(i) # {} => i <= v4
<1>1. /\ v1' = v1 /\ v4 \in Nat /\ v5 \in Nat /\ v5 >= 1
      /\ \/ v5 < Len(v1[v4].nodes) /\ v5' = v5 + 1 /\ v4' = v4
         \/ v5 = Len(v1[v4].nodes) /\ v5' = 1 /\ v4' = v4 + 1
  BY InventoryReading DEF InventoryAdded
<1>2. ASSUME NEW i \in DOMAIN v1
      PROVE  DOMAIN v1[i].nodes \subseteq Nat \ {0} /\ i \in Nat
  <2>1. v1[i].nodes \in Seq(Inventory!Range(v1[i].nodes))
    BY InventoryGiven DEF Inventory!Inv
  <2>2. DOMAIN v1 = 1..Len(v1) /\ Len(v1) \in Nat
    BY InventoryReading
  <2> QED
    BY <2>1, <2>2
<1> DEFINE was(i) == {k \in DOMAIN v1[i].nodes : i < v4 \/ (i = v4 /\ k < v5)}
           is(i) == {k \in DOMAIN v1[i].nodes : i < v4' \/ (i = v4' /\ k < v5')}
<1>3. \A i \in DOMAIN v1 : Inventory!NamesRead(i) = {v1[i].nodes[k] : k \in was(i)}
                            /\ Inventory!NamesRead(i)' = {v1[i].nodes[k] : k \in is(i)}
  BY <1>1 DEF Inventory!NamesRead
<1>4. ASSUME NEW i \in DOMAIN v1
      PROVE  /\ i # v4 => is(i) = was(i)
             /\ was(i) # {} => i <= v4
  <2>1. i \in Nat /\ \A k \in DOMAIN v1[i].nodes : k \in Nat /\ k >= 1
    BY <1>2
  <2> QED
    BY <1>1, <2>1
<1>5. is(v4) = was(v4) \cup {v5}
  <2>1. DOMAIN v1[v4].nodes = 1..Len(v1[v4].nodes) /\ Len(v1[v4].nodes) \in Nat
        /\ v5 \in 1..Len(v1[v4].nodes)
    BY InventoryReading
  <2>2. v5 \in is(v4) /\ was(v4) \subseteq is(v4)
    BY <1>1, <2>1
  <2>3. ASSUME NEW k \in is(v4) PROVE k \in was(v4) \cup {v5}
    BY <1>1, <2>1
  <2> QED
    BY <2>2, <2>3
<1>6. n = v1[v4].nodes[v5] /\ v4 \in DOMAIN v1
  BY InventoryReading DEF InventoryAdded
<1> HIDE DEF was, is
<1>7. ASSUME NEW i \in DOMAIN v1, i # v4 PROVE Inventory!NamesRead(i)' = Inventory!NamesRead(i)
  BY <1>3, <1>4, <1>7
<1>8. ASSUME NEW i \in DOMAIN v1, i = v4 PROVE Inventory!NamesRead(i)' = Inventory!NamesRead(i) \cup {n}
  <2>1. is(i) = was(i) \cup {v5}
    BY <1>5, <1>8
  <2>2. n = v1[i].nodes[v5]
    BY <1>6, <1>8
  <2> QED
    BY <1>3, <2>1, <2>2
<1>9. ASSUME NEW i \in DOMAIN v1, Inventory!NamesRead(i) # {} PROVE i <= v4
  BY <1>3, <1>4, <1>9
<1> QED
  BY <1>7, <1>8, <1>9

\* So it is one name more that is known.
LEMMA InventoryKnownNext ==
  ASSUME Inventory!Inv, NEW n, InventoryAdded(n)
  PROVE  /\ Inventory!Known' = Inventory!Known \cup {n} /\ Inventory!Known' = DOMAIN v7'
         /\ Inventory!Cardinality(Inventory!Known') = Len(v6')
         /\ Inventory!IsFiniteSet(Inventory!Known') /\ v6' \in Seq(Inventory!Known')
         /\ Inventory!Known' = UNION {Inventory!NamesRead(i)' : i \in DOMAIN v1'}
<1>1. /\ Inventory!Known = DOMAIN v7 /\ Inventory!IsFiniteSet(Inventory!Known)
      /\ Inventory!Cardinality(Inventory!Known) = Len(v6)
      /\ v6 \in Seq(Inventory!Known) /\ Inventory!Known = UNION {Inventory!NamesRead(i) : i \in DOMAIN v1}
  BY DEF Inventory!Inv, Inventory!TypeOK, Inventory!KeptInv
<1>2. v6' = IF n \in Inventory!Known THEN v6 ELSE Append(v6, n)
  BY DEF InventoryAdded
<1>3. Inventory!Known' = Inventory!Known \cup {n}
  <2>1. CASE n \in Inventory!Known
    BY <1>2, <2>1 DEF Inventory!Known
  <2>2. CASE n \notin Inventory!Known
    <3>1. /\ Len(v6') = Len(v6) + 1 /\ DOMAIN v6' = 1..Len(v6) + 1 /\ Len(v6) \in Nat
          /\ v6'[Len(v6) + 1] = n /\ DOMAIN v6 = 1..Len(v6)
          /\ \A i \in DOMAIN v6 : v6'[i] = v6[i]
      <4> DEFINE S == Inventory!Known \cup {n}
      <4>1. v6 \in Seq(S) /\ n \in S /\ v6' = Append(v6, n)
        BY <1>1, <1>2, <2>2
      <4> HIDE DEF S
      <4> QED
        BY <4>1
    <3>2. Inventory!Range(v6') = Inventory!Range(v6) \cup {n}
      BY <3>1 DEF Inventory!Range
    <3> QED
      BY <3>2 DEF Inventory!Known
  <2> QED
    BY <2>1, <2>2
<1>4. DOMAIN v7' = DOMAIN v7 \cup {n}
  BY DEF InventoryAdded, Inventory!Put
<1>5. Inventory!IsFiniteSet(Inventory!Known \cup {n})
      /\ Inventory!Cardinality(Inventory!Known \cup {n}) =
           IF n \in Inventory!Known THEN Inventory!Cardinality(Inventory!Known)
                                        ELSE Inventory!Cardinality(Inventory!Known) + 1
  BY <1>1, FS_AddElement, InventorySizes
<1>6. v6' \in Seq(Inventory!Known \cup {n})
      /\ Len(v6') = IF n \in Inventory!Known THEN Len(v6) ELSE Len(v6) + 1
  BY <1>1, <1>2
<1>7. UNION {Inventory!NamesRead(i)' : i \in DOMAIN v1'} = Inventory!Known \cup {n}
  <2>1. v1' = v1 /\ v4 \in DOMAIN v1
    BY DEF InventoryAdded
  <2> QED
    BY <1>1, <2>1, InventoryNamesReadNext
<1> QED
  BY <1>1, <1>3, <1>4, <1>5, <1>6, <1>7

\* No two of the names that are known are spellings of one host.
LEMMA InventoryClaimedOnce ==
  ASSUME Inventory!Inv, NEW n, InventoryAdded(n)
  PROVE  Inventory!OneNameEach'
<1>1. Inventory!Known' = Inventory!Known \cup {n}
  BY InventoryKnownNext
<1>2. \A m, o \in Inventory!Known : m # o => Inventory!Folded(m) # Inventory!Folded(o)
  BY DEF Inventory!Inv, Inventory!KeptInv, Inventory!OneNameEach
<1>3. n \notin Inventory!Known => \A m \in Inventory!Known : Inventory!Folded(m) # Inventory!Folded(n)
  BY DEF InventoryAdded, Inventory!Claimable
<1> QED
  BY <1>1, <1>2, <1>3 DEF Inventory!OneNameEach

\* What an entry makes of a machine.
LEMMA InventoryAppliedIs ==
  ASSUME NEW rack, NEW attr, NEW ids, NEW e
  PROVE  LET node == [rack |-> rack, attr |-> attr, ids |-> ids]
             placed == ~(e.attr = Inventory!Unset /\ e.rack = Inventory!NoRack) IN
         Inventory!Applied(node, e) =
           [rack |-> IF placed THEN Inventory!PlaceIn(e) ELSE rack,
            attr |-> IF ~placed THEN attr
                    ELSE IF Inventory!PlaceIn(e) = Inventory!NoRack THEN Inventory!Unset ELSE Inventory!PlaceIn(e),
            ids |-> [f \in DOMAIN ids \cup DOMAIN e.ids |-> IF f \in DOMAIN e.ids THEN e.ids[f] ELSE ids[f]]]
<1> DEFINE node == [rack |-> rack, attr |-> attr, ids |-> ids]
           both == [f \in DOMAIN ids \cup DOMAIN e.ids |-> IF f \in DOMAIN e.ids THEN e.ids[f] ELSE ids[f]]
<1>1. CASE e.attr = Inventory!Unset /\ e.rack = Inventory!NoRack
  <2>1. Inventory!Placed(node, e) = node
    BY <1>1 DEF Inventory!Placed
  <2>2. Inventory!Applied(node, e) = [node EXCEPT !.ids = both]
    BY <2>1 DEF Inventory!Applied
  <2> QED
    BY <1>1, <2>2
<1>2. CASE ~(e.attr = Inventory!Unset /\ e.rack = Inventory!NoRack)
  <2> DEFINE to == IF Inventory!PlaceIn(e) = Inventory!NoRack THEN Inventory!Unset ELSE Inventory!PlaceIn(e)
  <2>1. Inventory!Placed(node, e) = [node EXCEPT !.rack = Inventory!PlaceIn(e), !.attr = to]
    BY <1>2 DEF Inventory!Placed, Inventory!PlaceIn
  <2>2. Inventory!Placed(node, e) = [rack |-> Inventory!PlaceIn(e), attr |-> to, ids |-> ids]
    BY <2>1
  <2>3. Inventory!Applied(node, e) = [Inventory!Placed(node, e) EXCEPT !.ids = both]
    BY DEF Inventory!Applied
  <2>4. Inventory!Applied(node, e) = [rack |-> Inventory!PlaceIn(e), attr |-> to, ids |-> both]
    BY <2>2, <2>3
  <2> QED
    BY <1>2, <2>4
<1> QED
  BY <1>1, <1>2

\* The last of some entries, when the latest is one of them.
LEMMA InventoryLastIsLatest ==
  ASSUME NEW S, NEW i \in S, S \subseteq Nat, \A j \in S : j <= i
  PROVE  Inventory!LastOf(S) = i
<1> DEFINE last == Inventory!LastOf(S)
<1>1. last \in S /\ \A j \in S : j <= last
  BY DEF Inventory!LastOf
<1> HIDE DEF last
<1>2. last \in Nat /\ i \in Nat /\ last <= i /\ i <= last
  BY <1>1
<1>3. last = i
  BY <1>2
<1> QED
  BY <1>3 DEF last

\* The entries that gave something, after the entry gave one more name.
LEMMA InventoryGivingNext ==
  ASSUME Inventory!Inv, NEW n, InventoryAdded(n)
  PROVE  /\ \A m : m # n => /\ \A f : Inventory!Giving(m, f)' = Inventory!Giving(m, f)
                            /\ Inventory!Placing(m)' = Inventory!Placing(m)
         /\ \A f : Inventory!Giving(n, f)' = IF f \in DOMAIN v1[v4].ids THEN Inventory!Giving(n, f) \cup {v4}
                                             ELSE Inventory!Giving(n, f)
         /\ Inventory!Placing(n)' = IF v1[v4].attr # Inventory!Unset \/ v1[v4].rack # Inventory!NoRack
                                    THEN Inventory!Placing(n) \cup {v4} ELSE Inventory!Placing(n)
         /\ Inventory!Naming(n) \subseteq 1..v4 /\ v4 \in Nat
<1>1. v1' = v1 /\ v4 \in DOMAIN v1
  BY DEF InventoryAdded
<1>2. \A m : Inventory!Naming(m)' = IF m = n THEN Inventory!Naming(m) \cup {v4} ELSE Inventory!Naming(m)
  BY <1>1, InventoryNamesReadNext DEF Inventory!Naming
<1>3. \A m, f : Inventory!Giving(m, f)' = {i \in Inventory!Naming(m)' : f \in DOMAIN v1[i].ids}
  BY <1>1 DEF Inventory!Giving
<1>4. \A m : Inventory!Placing(m)' =
        {i \in Inventory!Naming(m)' : v1[i].attr # Inventory!Unset \/ v1[i].rack # Inventory!NoRack}
  BY <1>1 DEF Inventory!Placing
<1>5. Inventory!Naming(n) \subseteq 1..v4 /\ v4 \in Nat
  <2>1. DOMAIN v1 = 1..Len(v1) /\ Len(v1) \in Nat /\ v4 \in Nat
    BY InventoryReading
  <2> QED
    BY <2>1, InventoryNamesReadNext DEF Inventory!Naming
<1>6. ASSUME NEW m, m # n
      PROVE  /\ \A f : Inventory!Giving(m, f)' = Inventory!Giving(m, f)
             /\ Inventory!Placing(m)' = Inventory!Placing(m)
  <2>1. Inventory!Naming(m)' = Inventory!Naming(m)
    BY <1>2, <1>6
  <2>2. \A f : Inventory!Giving(m, f)' = {i \in Inventory!Naming(m) : f \in DOMAIN v1[i].ids}
    BY <1>3, <2>1
  <2>3. Inventory!Placing(m)' =
          {i \in Inventory!Naming(m) : v1[i].attr # Inventory!Unset \/ v1[i].rack # Inventory!NoRack}
    BY <1>4, <2>1
  <2> QED
    BY <2>2, <2>3 DEF Inventory!Giving, Inventory!Placing
<1>7. Inventory!Naming(n)' = Inventory!Naming(n) \cup {v4}
  BY <1>2
<1>8. ASSUME NEW f
      PROVE  Inventory!Giving(n, f)' = IF f \in DOMAIN v1[v4].ids THEN Inventory!Giving(n, f) \cup {v4}
                                       ELSE Inventory!Giving(n, f)
  <2>1. Inventory!Giving(n, f)' = {i \in Inventory!Naming(n) \cup {v4} : f \in DOMAIN v1[i].ids}
    BY <1>3, <1>7
  <2> QED
    BY <2>1 DEF Inventory!Giving
<1>9. Inventory!Placing(n)' = IF v1[v4].attr # Inventory!Unset \/ v1[v4].rack # Inventory!NoRack
                              THEN Inventory!Placing(n) \cup {v4} ELSE Inventory!Placing(n)
  <2>1. Inventory!Placing(n)' = {i \in Inventory!Naming(n) \cup {v4} :
                                   v1[i].attr # Inventory!Unset \/ v1[i].rack # Inventory!NoRack}
    BY <1>4, <1>7
  <2> QED
    BY <2>1 DEF Inventory!Placing
<1> QED
  BY <1>5, <1>6, <1>8, <1>9

\* The record of the machine that was named, before and after.
LEMMA InventoryNodeNext ==
  ASSUME Inventory!Inv, NEW n, InventoryAdded(n)
  PROVE  LET e == v1[v4]
             b == InventoryBefore(n)
             placed == ~(e.attr = Inventory!Unset /\ e.rack = Inventory!NoRack) IN
         /\ b = [rack |-> b.rack, attr |-> b.attr, ids |-> b.ids]
         /\ b.attr \in {b.rack, Inventory!Unset} /\ (b.attr = Inventory!Unset => b.rack = Inventory!NoRack)
         /\ DOMAIN b.ids = {f \in Inventory!Fields : Inventory!Giving(n, f) # {}}
         /\ \A f \in DOMAIN b.ids : b.ids[f] = v1[Inventory!LastOf(Inventory!Giving(n, f))].ids[f]
         /\ Inventory!Placing(n) # {} =>
              b.rack = Inventory!PlaceIn(v1[Inventory!LastOf(Inventory!Placing(n))])
         /\ v7'[n] =
              [rack |-> IF placed THEN Inventory!PlaceIn(e) ELSE b.rack,
               attr |-> IF ~placed THEN b.attr
                       ELSE IF Inventory!PlaceIn(e) = Inventory!NoRack THEN Inventory!Unset ELSE Inventory!PlaceIn(e),
               ids |-> [f \in DOMAIN b.ids \cup DOMAIN e.ids |->
                          IF f \in DOMAIN e.ids THEN e.ids[f] ELSE b.ids[f]]]
         /\ \A m \in Inventory!Known : m # n => v7'[m] = v7[m]
<1> DEFINE e == v1[v4]
           b == InventoryBefore(n)
<1>1. /\ b = [rack |-> b.rack, attr |-> b.attr, ids |-> b.ids]
      /\ b.attr \in {b.rack, Inventory!Unset} /\ (b.attr = Inventory!Unset => b.rack = Inventory!NoRack)
      /\ DOMAIN b.ids = {f \in Inventory!Fields : Inventory!Giving(n, f) # {}}
      /\ \A f \in DOMAIN b.ids : b.ids[f] = v1[Inventory!LastOf(Inventory!Giving(n, f))].ids[f]
      /\ Inventory!Placing(n) # {} => b.rack = Inventory!PlaceIn(v1[Inventory!LastOf(Inventory!Placing(n))])
  <2>1. CASE n \in Inventory!Known
    BY <2>1 DEF InventoryBefore, Inventory!Inv, Inventory!KeptInv, Inventory!AsWritten
  <2>2. CASE n \notin Inventory!Known
    <3>1. Inventory!Naming(n) = {}
      BY <2>2 DEF Inventory!Inv, Inventory!KeptInv, Inventory!Naming
    <3>2. Inventory!Placing(n) = {} /\ \A f : Inventory!Giving(n, f) = {}
      BY <3>1 DEF Inventory!Placing, Inventory!Giving
    <3> DEFINE rack == IF e.default = Inventory!Unset THEN Inventory!NoRack ELSE e.default
    <3>3. b = [rack |-> rack, attr |-> e.default, ids |-> Inventory!Empty]
      BY <2>2 DEF InventoryBefore, Inventory!Fresh
    <3>4. b.rack = rack /\ b.attr = e.default /\ b.ids = Inventory!Empty
      BY <3>3
    <3>5. b = [rack |-> b.rack, attr |-> b.attr, ids |-> b.ids]
      BY <3>3, <3>4
    <3>6. DOMAIN b.ids = {}
      BY <3>4 DEF Inventory!Empty
    <3> QED
      BY <3>2, <3>4, <3>5, <3>6
  <2> QED
    BY <2>1, <2>2
<1>2. v7' = Inventory!Put(v7, n, Inventory!Applied(b, e)) /\ Inventory!Known = DOMAIN v7
  BY DEF InventoryAdded, Inventory!Inv, Inventory!TypeOK
<1>3. v7'[n] = Inventory!Applied(b, e) /\ \A m \in Inventory!Known : m # n => v7'[m] = v7[m]
  BY <1>2 DEF Inventory!Put
<1> HIDE DEF b
<1>4. Inventory!Applied([rack |-> b.rack, attr |-> b.attr, ids |-> b.ids], e) = Inventory!Applied(b, e)
  BY <1>1
<1>5. Inventory!Applied(b, e) =
        [rack |-> IF ~(e.attr = Inventory!Unset /\ e.rack = Inventory!NoRack) THEN Inventory!PlaceIn(e) ELSE b.rack,
         attr |-> IF e.attr = Inventory!Unset /\ e.rack = Inventory!NoRack THEN b.attr
                  ELSE IF Inventory!PlaceIn(e) = Inventory!NoRack THEN Inventory!Unset ELSE Inventory!PlaceIn(e),
         ids |-> [f \in DOMAIN b.ids \cup DOMAIN e.ids |->
                    IF f \in DOMAIN e.ids THEN e.ids[f] ELSE b.ids[f]]]
  BY <1>4, InventoryAppliedIs
<1> QED
  BY <1>1, <1>3, <1>5 DEF b

\* The record of every machine is as the entries that were read say.
LEMMA InventoryWrittenNext ==
  ASSUME Inventory!Inv, NEW n, InventoryAdded(n)
  PROVE  /\ \A m \in Inventory!Known' : Inventory!AsWritten(m)'
         /\ \A m \in Inventory!Known' :
              v7'[m] = [rack |-> v7'[m].rack, attr |-> v7'[m].attr, ids |-> v7'[m].ids]
         /\ \A m \in Inventory!Known' : DOMAIN v7'[m].ids \subseteq Inventory!Fields
<1> DEFINE e == v1[v4]
           b == InventoryBefore(n)
           placed == ~(e.attr = Inventory!Unset /\ e.rack = Inventory!NoRack)
<1>1. v1' = v1 /\ DOMAIN e.ids \subseteq Inventory!Fields /\ v4 \in Nat /\ e.rack # Inventory!Unset
  BY InventoryReading DEF InventoryAdded
<1>2. Inventory!Known' = Inventory!Known \cup {n}
  BY InventoryKnownNext
<1>3. /\ \A m \in Inventory!Known : Inventory!AsWritten(m) /\ DOMAIN v7[m].ids \subseteq Inventory!Fields
      /\ \A m \in Inventory!Known :
           v7[m] = [rack |-> v7[m].rack, attr |-> v7[m].attr, ids |-> v7[m].ids]
  BY DEF Inventory!Inv, Inventory!KeptInv, Inventory!TypeOK
<1>20. \A m \in Inventory!Known : m # n => v7'[m] = v7[m]
  BY InventoryNodeNext
<1>4. ASSUME NEW m \in Inventory!Known, m # n
      PROVE  /\ Inventory!AsWritten(m)' /\ DOMAIN v7'[m].ids \subseteq Inventory!Fields
             /\ v7'[m] = [rack |-> v7'[m].rack, attr |-> v7'[m].attr, ids |-> v7'[m].ids]
  <2>1. v7'[m] = v7[m]
    BY <1>4, <1>20
  <2>2. /\ Inventory!Placing(m)' = Inventory!Placing(m)
        /\ \A f : Inventory!Giving(m, f)' = Inventory!Giving(m, f)
    BY <1>4, InventoryGivingNext
  <2>3. Inventory!AsWritten(m)'
    BY <1>1, <1>3, <2>1, <2>2 DEF Inventory!AsWritten
  <2> QED
    BY <1>3, <2>1, <2>3
<1>5. /\ b.attr \in {b.rack, Inventory!Unset} /\ (b.attr = Inventory!Unset => b.rack = Inventory!NoRack)
      /\ DOMAIN b.ids = {f \in Inventory!Fields : Inventory!Giving(n, f) # {}}
      /\ \A f \in DOMAIN b.ids : b.ids[f] = v1[Inventory!LastOf(Inventory!Giving(n, f))].ids[f]
      /\ Inventory!Placing(n) # {} => b.rack = Inventory!PlaceIn(v1[Inventory!LastOf(Inventory!Placing(n))])
      /\ v7'[n] =
           [rack |-> IF placed THEN Inventory!PlaceIn(e) ELSE b.rack,
            attr |-> IF ~placed THEN b.attr
                    ELSE IF Inventory!PlaceIn(e) = Inventory!NoRack THEN Inventory!Unset ELSE Inventory!PlaceIn(e),
            ids |-> [f \in DOMAIN b.ids \cup DOMAIN e.ids |->
                       IF f \in DOMAIN e.ids THEN e.ids[f] ELSE b.ids[f]]]
  BY InventoryNodeNext
<1> HIDE DEF b
<1>6. /\ v7'[n].rack = IF placed THEN Inventory!PlaceIn(e) ELSE b.rack
      /\ v7'[n].attr = IF ~placed THEN b.attr
                       ELSE IF Inventory!PlaceIn(e) = Inventory!NoRack THEN Inventory!Unset ELSE Inventory!PlaceIn(e)
      /\ v7'[n].ids = [f \in DOMAIN b.ids \cup DOMAIN e.ids |->
                         IF f \in DOMAIN e.ids THEN e.ids[f] ELSE b.ids[f]]
      /\ v7'[n] = [rack |-> v7'[n].rack, attr |-> v7'[n].attr, ids |-> v7'[n].ids]
  BY <1>5
<1>7. ASSUME NEW S, S \subseteq Inventory!Naming(n)
      PROVE  Inventory!LastOf(S \cup {v4}) = v4
  <2>1. S \cup {v4} \subseteq Nat /\ v4 \in S \cup {v4} /\ \A j \in S \cup {v4} : j <= v4
    BY <1>1, <1>7, InventoryGivingNext
  <2> QED
    BY <2>1, InventoryLastIsLatest
<1>8. \A f : Inventory!Giving(n, f) \subseteq Inventory!Naming(n)
  BY DEF Inventory!Giving
<1>9. Inventory!Placing(n) \subseteq Inventory!Naming(n)
  BY DEF Inventory!Placing
<1>10. \A f : Inventory!Giving(n, f)' =
         IF f \in DOMAIN e.ids THEN Inventory!Giving(n, f) \cup {v4} ELSE Inventory!Giving(n, f)
  BY InventoryGivingNext
<1>11. Inventory!Placing(n)' = IF placed THEN Inventory!Placing(n) \cup {v4} ELSE Inventory!Placing(n)
  BY InventoryGivingNext
<1>12. DOMAIN v7'[n].ids = DOMAIN b.ids \cup DOMAIN e.ids
  BY <1>6
<1>13. DOMAIN v7'[n].ids = {f \in Inventory!Fields : Inventory!Giving(n, f)' # {}}
  BY <1>1, <1>5, <1>10, <1>12
<1>14. ASSUME NEW f \in DOMAIN v7'[n].ids
       PROVE  v7'[n].ids[f] = v1[Inventory!LastOf(Inventory!Giving(n, f)')].ids[f]
  <2>1. CASE f \in DOMAIN e.ids
    <3>1. /\ Inventory!Giving(n, f)' = Inventory!Giving(n, f) \cup {v4}
          /\ Inventory!Giving(n, f) \subseteq Inventory!Naming(n)
      BY <1>8, <1>10, <2>1
    <3>2. Inventory!LastOf(Inventory!Giving(n, f)') = v4
      BY <1>7, <3>1
    <3>3. v7'[n].ids[f] = e.ids[f]
      BY <1>6, <1>12, <2>1
    <3> QED
      BY <3>2, <3>3
  <2>2. CASE f \notin DOMAIN e.ids
    <3>1. Inventory!Giving(n, f)' = Inventory!Giving(n, f)
      BY <1>10, <2>2
    <3>2. v7'[n].ids[f] = b.ids[f] /\ f \in DOMAIN b.ids
      BY <1>6, <1>12, <2>2
    <3>3. b.ids[f] = v1[Inventory!LastOf(Inventory!Giving(n, f))].ids[f]
      BY <1>5, <3>2
    <3> QED
      BY <3>1, <3>2, <3>3
  <2> QED
    BY <2>1, <2>2
<1>15. /\ v7'[n].attr \in {v7'[n].rack, Inventory!Unset}
       /\ v7'[n].attr = Inventory!Unset => v7'[n].rack = Inventory!NoRack
  <2>1. CASE placed
    <3>1. v7'[n].rack = Inventory!PlaceIn(e)
          /\ v7'[n].attr =
               IF Inventory!PlaceIn(e) = Inventory!NoRack THEN Inventory!Unset ELSE Inventory!PlaceIn(e)
      BY <1>6, <2>1
    <3>2. Inventory!PlaceIn(e) # Inventory!Unset
      BY <1>1, <2>1 DEF Inventory!PlaceIn
    <3> QED
      BY <3>1, <3>2
  <2>2. CASE ~placed
    BY <1>5, <1>6, <2>2
  <2> QED
    BY <2>1, <2>2
<1>16. Inventory!Placing(n)' # {} =>
         v7'[n].rack = Inventory!PlaceIn(v1[Inventory!LastOf(Inventory!Placing(n)')])
  <2>1. CASE placed
    <3>1. Inventory!LastOf(Inventory!Placing(n)') = v4
      BY <1>7, <1>9, <1>11, <2>1
    <3> QED
      BY <1>6, <2>1, <3>1
  <2>2. CASE ~placed
    BY <1>5, <1>6, <1>11, <2>2
  <2> QED
    BY <2>1, <2>2
<1>17. Inventory!AsWritten(n)'
  BY <1>1, <1>13, <1>14, <1>15, <1>16 DEF Inventory!AsWritten
<1>18. DOMAIN v7'[n].ids \subseteq Inventory!Fields
  BY <1>13
<1> QED
  BY <1>2, <1>4, <1>6, <1>17, <1>18

\* The reading goes on within the entries.
LEMMA InventoryPlaceNext ==
  ASSUME Inventory!Inv, NEW n, InventoryAdded(n)
  PROVE  Inventory!PlaceInv'
<1>1. /\ DOMAIN v1 = 1..Len(v1) /\ Len(v1) \in Nat
      /\ v4 \in 1..Len(v1) /\ Len(v1[v4].nodes) \in Nat
      /\ v5 \in 1..Len(v1[v4].nodes)
  BY InventoryReading
<1>2. v3' = "entry" /\ v1' = v1
  BY DEF InventoryAdded
<1>3. \/ v5 < Len(v1[v4].nodes) /\ v5' = v5 + 1 /\ v4' = v4
      \/ v5' = 1 /\ v4' = v4 + 1
  BY DEF InventoryAdded
<1>4. v4' \in 1..Len(v1) + 1 /\ v5' \in Nat \ {0}
  BY <1>1, <1>3
<1>5. v4' \in DOMAIN v1 => v5' = 1 \/ v5' <= Len(v1[v4'].nodes)
  BY <1>1, <1>3
<1>6. v4' \notin DOMAIN v1 => v5' = 1
  BY <1>1, <1>3
<1> QED
  BY <1>2, <1>4, <1>5, <1>6 DEF Inventory!PlaceInv

\* What is kept stays as it is written, where nothing of it changes.
LEMMA InventoryKeptStays ==
  ASSUME Inventory!Inv, UNCHANGED <<v1, Inventory!inventory>>
  PROVE  Inventory!Known' = Inventory!Known /\ Inventory!KeptInv'
<1>1. v1' = v1 /\ v4' = v4 /\ v5' = v5 /\ v6' = v6 /\ v7' = v7
  BY DEF Inventory!inventory
<1>2. Inventory!Known' = Inventory!Known /\ \A i : Inventory!NamesRead(i)' = Inventory!NamesRead(i)
  BY <1>1 DEF Inventory!Known, Inventory!NamesRead
<1>3. \A n : Inventory!Naming(n)' = Inventory!Naming(n)
  BY <1>1, <1>2 DEF Inventory!Naming
<1>4. \A n : /\ Inventory!Placing(n)' = Inventory!Placing(n)
             /\ \A f : Inventory!Giving(n, f)' = Inventory!Giving(n, f)
  BY <1>1, <1>3 DEF Inventory!Placing, Inventory!Giving
<1>5. \A n : Inventory!AsWritten(n) => Inventory!AsWritten(n)'
  BY <1>1, <1>4 DEF Inventory!AsWritten
<1> QED
  BY <1>1, <1>2, <1>5 DEF Inventory!Inv, Inventory!KeptInv, Inventory!OneNameEach

\* Whom a name means is of the inventory alone.
LEMMA InventoryMeantStays ==
  ASSUME v6' = v6, v7' = v7
  PROVE  \A n : Inventory!Meant(n)' = Inventory!Meant(n)
<1>1. Inventory!Known' = Inventory!Known
  BY DEF Inventory!Known
<1>2. \A m : Inventory!AliasesOf(m)' = Inventory!AliasesOf(m)
  BY DEF Inventory!AliasesOf
<1>3. \A n : Inventory!Spellings(n)' = Inventory!Spellings(n) /\ Inventory!Owners(n)' = Inventory!Owners(n)
  BY <1>1, <1>2 DEF Inventory!Spellings, Inventory!Owners
<1>4. \A n : Inventory!ByRule(n)' <=> Inventory!ByRule(n)
  BY <1>3 DEF Inventory!ByRule
<1> QED
  BY <1>3, <1>4 DEF Inventory!Meant

\* Nothing changes of what is kept where its registers do not.
LEMMA InventoryRefusal ==
  ASSUME Inventory!Inv, UNCHANGED <<v1, v2, v8, Inventory!inventory, v9>>, v3' = "refused"
  PROVE  Inventory!Inv'
<1>1. /\ v1' = v1 /\ v4' = v4 /\ v5' = v5 /\ v6' = v6 /\ v7' = v7
      /\ v9' = v9 /\ v3' = "refused" /\ v8' = v8 /\ v2' = v2
  BY DEF Inventory!inventory
<1>2. Inventory!TypeOK'
  BY <1>1 DEF Inventory!Inv, Inventory!TypeOK, Inventory!Known
<1>3. Inventory!PlaceInv' /\ Inventory!UniqueInv'
  BY <1>1 DEF Inventory!Inv, Inventory!PlaceInv, Inventory!UniqueInv
<1>4. Inventory!KeptInv'
  BY InventoryKeptStays
<1>5. Inventory!SelectedInv'
  BY <1>1, InventoryMeantStays DEF Inventory!Inv, Inventory!SelectedInv,
     Inventory!SelectedIsMeant, Inventory!Known
<1> QED
  BY <1>1, <1>2, <1>3, <1>4, <1>5 DEF Inventory!Inv, Inventory!Known

LEMMA InventoryBuildKeeps ==
  ASSUME Inventory!Inv, Inventory!Build
  PROVE  Inventory!Inv'
<1>1. CASE InventoryAdded(InventoryNextName)
  <2> DEFINE n == InventoryNextName
  <2>1. Inventory!TypeOK'
    <3>1. v3' = "entry"
      BY <1>1 DEF InventoryAdded
    <3> QED
      BY <1>1, <3>1, InventoryKnownNext, InventoryWrittenNext DEF Inventory!TypeOK
  <2>2. Inventory!PlaceInv' /\ Inventory!KeptInv'
    BY <1>1, InventoryPlaceNext, InventoryKnownNext, InventoryClaimedOnce, InventoryWrittenNext
       DEF Inventory!KeptInv
  <2>3. Inventory!UniqueInv' /\ Inventory!SelectedInv'
    <3>1. v3' = "entry" /\ v9' = {}
      BY <1>1 DEF InventoryAdded, Inventory!Inv, Inventory!SelectedInv
    <3> QED
      BY <3>1 DEF Inventory!UniqueInv, Inventory!SelectedInv, Inventory!SelectedIsMeant
  <2>4. /\ v1' \in OfInventory.Documents /\ v2' \in OfInventory.Selections
        /\ v8' \subseteq v2'.arg \cup v2'.nodes
    BY <1>1 DEF InventoryAdded, Inventory!Inv
  <2> QED
    BY <1>1, <2>1, <2>2, <2>3, <2>4, InventoryKnownNext DEF Inventory!Inv
<1>2. CASE v3' = "refused" /\ UNCHANGED <<v1, v2, v8, v9>> /\ UNCHANGED Inventory!inventory
  BY <1>2, InventoryRefusal
<1> QED
  BY <1>1, <1>2, InventoryBuildIs

(***************************************************************************)
(* What a name means.                                                      *)
(***************************************************************************)
\* The names of the inventory are names.
LEMMA InventoryKnownAreNames ==
  ASSUME Inventory!Inv
  PROVE  \A m \in Inventory!Known : Inventory!IsName(m)
<1>1. v1 \in OfInventory.Documents /\ Inventory!Known = UNION {Inventory!NamesRead(i) : i \in DOMAIN v1}
  BY DEF Inventory!Inv, Inventory!KeptInv
<1>2. ASSUME NEW i \in DOMAIN v1, NEW m \in Inventory!NamesRead(i) PROVE Inventory!IsName(m)
  <2>1. PICK k \in DOMAIN v1[i].nodes : m = v1[i].nodes[k]
    BY DEF Inventory!NamesRead
  <2> QED
    BY <1>1, <2>1, InventoryGiven
<1> QED
  BY <1>1, <1>2

\* A name in a domain is in that domain.
LEMMA InventoryInDomain ==
  ASSUME NEW n, Inventory!IsName(n), NEW d
  PROVE  Inventory!In(n, d).domain = d /\ Inventory!IsName(Inventory!Lower(n))
<1> DEFINE host == n.host
           pad == n.pad
           domain == n.domain
           look == n.look
<1>1. n = [host |-> host, pad |-> pad, domain |-> domain, look |-> look]
  BY DEF Inventory!IsName, Inventory!Name
<1> HIDE DEF host, pad, domain, look
<1>2. Inventory!In(n, d) = [host |-> host, pad |-> pad, domain |-> d, look |-> look]
  BY <1>1 DEF Inventory!In
<1>3. Inventory!Lower(n) = [host |-> host, pad |-> pad, domain |-> domain, look |-> "plain"]
  BY <1>1 DEF Inventory!Lower
<1>4. Inventory!IsName(Inventory!Lower(n))
  BY <1>3 DEF Inventory!IsName, Inventory!Name
<1> QED
  BY <1>2, <1>4

\* A name without a domain that is not the inventory's is one machine's at most:
\* the rules make names with a domain, and an address is one machine's.
LEMMA InventoryShortHeldOnce ==
  ASSUME Inventory!Inv, ~Inventory!Shared(v7), NEW p, p.domain = Inventory!NoDomain, p \notin Inventory!Known,
         NEW y \in Inventory!Holders(p), NEW z \in Inventory!Holders(p)
  PROVE  y = z
<1>1. /\ y \in Inventory!Known /\ z \in Inventory!Known
      /\ p \in Inventory!AliasesOf(y) /\ p \in Inventory!AliasesOf(z)
  BY DEF Inventory!Holders
<1>2. ASSUME NEW m \in Inventory!Known, p \in Inventory!AliasesOf(m)
      PROVE  <<"address", p>> \in Inventory!Keys(v7, m)
  <2>1. Inventory!IsName(m)
    BY InventoryKnownAreNames
  <2>2. p # Inventory!FQDN(m)
    <3>1. CASE Inventory!Dotted(m) \/ Inventory!match(m).fqdn = Inventory!NoDomain
      BY <3>1 DEF Inventory!FQDN
    <3>2. CASE ~(Inventory!Dotted(m) \/ Inventory!match(m).fqdn = Inventory!NoDomain)
      <4>1. Inventory!FQDN(m).domain = Inventory!match(m).fqdn
        BY <2>1, <3>2, InventoryInDomain DEF Inventory!FQDN
      <4> QED
        BY <3>2, <4>1
    <3> QED
      BY <3>1, <3>2
  <2>3. Inventory!HasBMC(m) => p # Inventory!BMC(m)
    <3>1. Inventory!BMC(m).domain = Inventory!match(m).bmc
      BY <2>1, InventoryInDomain DEF Inventory!BMC
    <3>2. Inventory!HasBMC(m) => Inventory!match(m).bmc # Inventory!NoDomain
      BY DEF Inventory!HasBMC, Inventory!match, Inventory!Short, Inventory!In
    <3> QED
      BY <3>1, <3>2
  <2>4. PICK f \in DOMAIN v7[m].ids \cap Inventory!Addresses : p = Inventory!Lower(v7[m].ids[f])
    BY <1>2, <2>2, <2>3 DEF Inventory!AliasesOf
  <2> QED
    BY <2>4 DEF Inventory!Keys, Inventory!Key
<1>3. y # z => Inventory!Keys(v7, y) \cap Inventory!Keys(v7, z) = {}
  <2>1. Inventory!Known = DOMAIN v7
    BY DEF Inventory!Inv, Inventory!TypeOK
  <2> QED
    BY <1>1, <2>1 DEF Inventory!Shared
<1> QED
  BY <1>1, <1>2, <1>3

\* An inventory name has one spelling.
LEMMA InventorySpelledOnce ==
  ASSUME Inventory!Inv, NEW n
  PROVE  /\ Inventory!Spellings(n) # {} =>
              Inventory!Spelled(n) \in Inventory!Known /\ Inventory!Spellings(n) = {Inventory!Spelled(n)}
         /\ Inventory!Spellings(n) = {} => Inventory!Spelled(n) = n /\ n \notin Inventory!Known
<1>1. \A m, o \in Inventory!Known : m # o => Inventory!Folded(m) # Inventory!Folded(o)
  BY DEF Inventory!Inv, Inventory!KeptInv, Inventory!OneNameEach
<1>2. CASE Inventory!Spellings(n) # {}
  <2>1. Inventory!Spelled(n) \in Inventory!Spellings(n)
    BY <1>2 DEF Inventory!Spelled, Inventory!The
  <2> QED
    BY <1>1, <1>2, <2>1 DEF Inventory!Spellings
<1>3. CASE Inventory!Spellings(n) = {}
  BY <1>3 DEF Inventory!Spelled, Inventory!Spellings
<1> QED
  BY <1>2, <1>3

\* What becomes of a name and the machine it is a spelling of.
LEMMA InventoryDecidedIs ==
  ASSUME Inventory!Inv, NEW n, NEW x
  PROVE  /\ Inventory!Holders(n) = {} => Inventory!Decided(n, x) = {x}
         /\ Inventory!Holders(n) # {} /\ ~(x \in Inventory!Known => Inventory!Holders(n) \subseteq {x}) =>
              Inventory!Decided(n, x) = {}
         /\ \A y : Inventory!Holders(n) = {y} /\ (x \in Inventory!Known => y = x) =>
              Inventory!Decided(n, x) = {y}
         /\ x \notin Inventory!Known /\ (\E y, z \in Inventory!Holders(n) : y # z)
            => Inventory!Decided(n, x) = {n} /\ Inventory!Cardinality(Inventory!Holders(n)) > 1 /\ n \notin Inventory!Known
         /\ Inventory!IsFiniteSet(Inventory!Holders(n)) /\ Inventory!Cardinality(Inventory!Holders(n)) \in Nat
<1>1. Inventory!Holders(n) \subseteq Inventory!Known \/ Inventory!Holders(n) = {n}
  BY DEF Inventory!Holders
<1>2. Inventory!IsFiniteSet(Inventory!Holders(n))
  BY <1>1, FS_Subset, FS_Singleton, InventorySizes DEF Inventory!Inv
<1>3. Inventory!Cardinality(Inventory!Holders(n)) \in Nat
  BY <1>2, FS_CardinalityType, InventorySizes
<1>4. Inventory!Holders(n) = {} => Inventory!Decided(n, x) = {x}
  BY DEF Inventory!Decided
<1>5. Inventory!Holders(n) # {} /\ ~(x \in Inventory!Known => Inventory!Holders(n) \subseteq {x}) =>
        Inventory!Decided(n, x) = {}
  BY DEF Inventory!Decided, Inventory!Unambiguous
<1>6. ASSUME NEW y, Inventory!Holders(n) = {y}, x \in Inventory!Known => y = x
      PROVE  Inventory!Decided(n, x) = {y}
  <2>1. Inventory!Cardinality(Inventory!Holders(n)) = 1
    BY <1>6, FS_Singleton, InventorySizes
  <2>2. /\ Inventory!Holders(n) # {} /\ Inventory!Unambiguous(x, Inventory!Holders(n))
        /\ ~(Inventory!Cardinality(Inventory!Holders(n)) > 1)
    BY <1>6, <2>1 DEF Inventory!Unambiguous
  <2> QED
    BY <1>6, <2>2 DEF Inventory!Decided
<1>7. ASSUME x \notin Inventory!Known, NEW y \in Inventory!Holders(n), NEW z \in Inventory!Holders(n), y # z
      PROVE  /\ Inventory!Decided(n, x) = {n} /\ n \notin Inventory!Known
             /\ Inventory!Cardinality(Inventory!Holders(n)) > 1
  <2>1. n \notin Inventory!Known
    BY <1>7 DEF Inventory!Holders
  <2>2. Inventory!Cardinality(Inventory!Holders(n)) # 0 /\ Inventory!Cardinality(Inventory!Holders(n)) # 1
    <3>1. Inventory!Cardinality(Inventory!Holders(n)) # 0
      BY <1>2, <1>7, FS_EmptySet, InventorySizes
    <3>2. Inventory!Cardinality(Inventory!Holders(n)) # 1
      <4>1. ASSUME NEW w, Inventory!Holders(n) = {w} PROVE FALSE
        BY <1>7, <4>1
      <4> QED
        BY <1>2, <4>1, FS_Singleton, InventorySizes
    <3> QED
      BY <3>1, <3>2
  <2>3. Inventory!Cardinality(Inventory!Holders(n)) > 1
    BY <1>3, <2>2
  <2>4. Inventory!Holders(n) # {} /\ Inventory!Unambiguous(x, Inventory!Holders(n))
    BY <1>7 DEF Inventory!Unambiguous
  <2> QED
    BY <2>1, <2>3, <2>4 DEF Inventory!Decided
<1> QED
  BY <1>2, <1>3, <1>4, <1>5, <1>6, <1>7

\* Whose a name is: those it is another spelling of, and those that hold it.
LEMMA InventoryOwnersAre ==
  ASSUME NEW n
  PROVE  /\ n \in Inventory!Known => Inventory!Owners(n) = {n}
         /\ n \notin Inventory!Known => Inventory!Owners(n) = Inventory!Spellings(n) \cup Inventory!Holders(n)
BY DEF Inventory!Owners, Inventory!Spellings, Inventory!Holders

\* A name that is taken for itself or another spelling is of the one machine
\* that is found, or of none or of several.
LEMMA InventoryPlainIsMeant ==
  ASSUME Inventory!Inv, NEW n, Inventory!PlainMachine(n) # {}
  PROVE  \E x : /\ Inventory!PlainMachine(n) = {x}
                /\ x \in Inventory!Known => Inventory!Owners(n) = {x}
                /\ x \notin Inventory!Known => /\ x = n /\ Inventory!Owners(n) = Inventory!Holders(n)
                                               /\ \/ Inventory!Holders(n) = {}
                                                  \/ \E y, z \in Inventory!Holders(n) : y # z
<1>1. CASE n \in Inventory!Known
  BY <1>1, InventoryOwnersAre DEF Inventory!PlainMachine
<1>2. CASE n \notin Inventory!Known
  <2> DEFINE x == Inventory!Spelled(n)
  <2>1. /\ Inventory!PlainMachine(n) = Inventory!Decided(n, x)
        /\ Inventory!Owners(n) = Inventory!Spellings(n) \cup Inventory!Holders(n)
    BY <1>2, InventoryOwnersAre DEF Inventory!PlainMachine
  <2>2. CASE Inventory!Spellings(n) # {}
    <3>1. x \in Inventory!Known /\ Inventory!Spellings(n) = {x}
      BY <2>2, InventorySpelledOnce
    <3>2. Inventory!Holders(n) \subseteq {x}
      BY <2>1, <3>1, InventoryDecidedIs
    <3>3. Inventory!Owners(n) = {x}
      BY <2>1, <3>1, <3>2
    <3>4. Inventory!Decided(n, x) = {x}
      <4>1. CASE Inventory!Holders(n) = {}
        BY <4>1, InventoryDecidedIs
      <4>2. CASE Inventory!Holders(n) = {x}
        BY <4>2, InventoryDecidedIs
      <4> QED
        BY <3>2, <4>1, <4>2
    <3> QED
      BY <2>1, <3>1, <3>3, <3>4
  <2>3. CASE Inventory!Spellings(n) = {}
    <3>1. x = n /\ x \notin Inventory!Known
      BY <2>3, InventorySpelledOnce
    <3>2. Inventory!Owners(n) = Inventory!Holders(n)
      BY <2>1, <2>3
    <3>3. CASE Inventory!Holders(n) = {}
      BY <2>1, <3>1, <3>2, <3>3, InventoryDecidedIs
    <3>4. CASE \E y, z \in Inventory!Holders(n) : y # z
      BY <2>1, <3>1, <3>2, <3>4, InventoryDecidedIs
    <3>5. ASSUME NEW y, Inventory!Holders(n) = {y}
          PROVE  Inventory!Decided(n, x) = {y} /\ y \in Inventory!Known
      BY <1>2, <3>1, <3>5, InventoryDecidedIs DEF Inventory!Holders
    <3>6. \/ Inventory!Holders(n) = {} \/ \E y, z \in Inventory!Holders(n) : y # z
          \/ \E y : Inventory!Holders(n) = {y}
      OBVIOUS
    <3> QED
      BY <2>1, <3>2, <3>3, <3>4, <3>5, <3>6
  <2> QED
    BY <2>2, <2>3
<1> QED
  BY <1>1, <1>2

\* A name selects the machine it is of, or none.
LEMMA InventoryMachineIsMeant ==
  ASSUME Inventory!Inv, ~Inventory!Shared(v7), NEW typed, Inventory!IsName(typed),
         Inventory!MachineOf(typed) # {}
  PROVE  LET x == Inventory!The(Inventory!MachineOf(typed))
             meant == Inventory!Meant(Inventory!Lower(typed)) IN
         IF x \in Inventory!Known THEN meant = {x} ELSE Inventory!Cardinality(meant) # 1
<1> DEFINE n == Inventory!Lower(typed)
           p == Inventory!Short(n)
           meant == Inventory!Meant(n)
<1>1. Inventory!IsName(n) /\ p.domain = Inventory!NoDomain
  BY InventoryInDomain DEF Inventory!Short
<1> HIDE DEF n
<1>2. \A x : Inventory!The({x}) = x
  BY DEF Inventory!The
<1>3. Inventory!MachineOf(typed) = IF n \in Inventory!Known \/ ~Inventory!ByRule(n) THEN Inventory!PlainMachine(n)
                                   ELSE UNION {Inventory!Decided(n, m) : m \in Inventory!PlainMachine(p)}
  BY DEF Inventory!MachineOf, n
<1>4. Inventory!Cardinality({}) # 1
  BY FS_EmptySet, InventorySizes
<1>5. ASSUME NEW m, \E y, z \in Inventory!Holders(m) : y # z
      PROVE  Inventory!Cardinality(Inventory!Holders(m)) # 1
  <2>1. Inventory!IsFiniteSet(Inventory!Holders(m))
    BY InventoryDecidedIs
  <2>2. ASSUME NEW w, Inventory!Holders(m) = {w} PROVE FALSE
    BY <1>5, <2>2
  <2> QED
    BY <2>1, <2>2, FS_Singleton, InventorySizes
<1>6. ASSUME NEW x, Inventory!MachineOf(typed) = {x}, x \in Inventory!Known => meant = {x},
             x \notin Inventory!Known => Inventory!Cardinality(meant) # 1
      PROVE  LET y == Inventory!The(Inventory!MachineOf(typed)) IN
             IF y \in Inventory!Known THEN meant = {y} ELSE Inventory!Cardinality(meant) # 1
  BY <1>2, <1>6
<1>7. CASE n \in Inventory!Known \/ ~Inventory!ByRule(n)
  <2>1. ~Inventory!ByRule(n)
    <3>1. n \in Inventory!Known => n \in Inventory!Spellings(n)
      BY DEF Inventory!Spellings
    <3> QED
      BY <1>7, <3>1 DEF Inventory!ByRule
  <2>2. meant = Inventory!Owners(n)
    BY <2>1 DEF Inventory!Meant
  <2>3. Inventory!MachineOf(typed) = Inventory!PlainMachine(n)
    BY <1>3, <1>7
  <2>4. PICK x : /\ Inventory!PlainMachine(n) = {x}
                 /\ x \in Inventory!Known => Inventory!Owners(n) = {x}
                 /\ x \notin Inventory!Known => /\ x = n /\ Inventory!Owners(n) = Inventory!Holders(n)
                                                /\ \/ Inventory!Holders(n) = {}
                                                   \/ \E y, z \in Inventory!Holders(n) : y # z
    BY <2>3, InventoryPlainIsMeant
  <2>5. x \notin Inventory!Known => Inventory!Cardinality(Inventory!Owners(n)) # 1
    BY <1>4, <1>5, <2>4
  <2> HIDE DEF meant
  <2> QED
    BY <1>6, <2>2, <2>3, <2>4, <2>5 DEF n, meant
<1>8. CASE n \notin Inventory!Known /\ Inventory!ByRule(n)
  <2>1. Inventory!Owners(n) = Inventory!Holders(n)
    BY <1>8, InventoryOwnersAre DEF Inventory!ByRule
  <2>2. meant = Inventory!Holders(n) \cup Inventory!Owners(p)
    BY <1>8, <2>1 DEF Inventory!Meant
  <2>3. Inventory!MachineOf(typed) = UNION {Inventory!Decided(n, m) : m \in Inventory!PlainMachine(p)}
    BY <1>3, <1>8
  <2>4. Inventory!PlainMachine(p) # {}
    BY <2>3
  <2>5. PICK x : /\ Inventory!PlainMachine(p) = {x}
                 /\ x \in Inventory!Known => Inventory!Owners(p) = {x}
                 /\ x \notin Inventory!Known => /\ x = p /\ Inventory!Owners(p) = Inventory!Holders(p)
                                                /\ \/ Inventory!Holders(p) = {}
                                                   \/ \E y, z \in Inventory!Holders(p) : y # z
    BY <2>4, InventoryPlainIsMeant
  <2>6. Inventory!MachineOf(typed) = Inventory!Decided(n, x)
    BY <2>3, <2>5
  <2>7. CASE x \in Inventory!Known
    <3>1. Inventory!Holders(n) \subseteq {x}
      BY <2>6, <2>7, InventoryDecidedIs
    <3>2. meant = {x}
      BY <2>2, <2>5, <2>7, <3>1
    <3>3. Inventory!Decided(n, x) = {x}
      <4>1. CASE Inventory!Holders(n) = {}
        BY <4>1, InventoryDecidedIs
      <4>2. CASE Inventory!Holders(n) = {x}
        BY <4>2, InventoryDecidedIs
      <4> QED
        BY <3>1, <4>1, <4>2
    <3> HIDE DEF meant
    <3> QED
      BY <1>6, <2>6, <2>7, <3>2, <3>3 DEF n, meant
  <2>8. CASE x \notin Inventory!Known
    <3>1. x = p /\ Inventory!Owners(p) = {}
      <4>1. \A y, z \in Inventory!Holders(p) : y = z
        BY <1>1, <2>5, <2>8, InventoryShortHeldOnce
      <4> QED
        BY <2>5, <2>8, <4>1
    <3>2. meant = Inventory!Holders(n)
      BY <2>2, <3>1
    <3>3. CASE Inventory!Holders(n) = {}
      <4>1. Inventory!Decided(n, x) = {x} /\ Inventory!Cardinality(meant) # 1
        BY <1>4, <3>2, <3>3, InventoryDecidedIs
      <4> HIDE DEF meant
      <4> QED
        BY <1>6, <2>6, <2>8, <4>1 DEF n, meant
    <3>4. CASE \E y, z \in Inventory!Holders(n) : y # z
      <4>1. Inventory!Decided(n, x) = {n} /\ n \notin Inventory!Known
        BY <2>8, <3>4, InventoryDecidedIs
      <4>2. Inventory!Cardinality(meant) # 1
        BY <1>5, <3>2, <3>4
      <4> HIDE DEF meant
      <4> QED
        BY <1>6, <2>6, <4>1, <4>2 DEF n, meant
    <3>5. CASE \E y : Inventory!Holders(n) = {y}
      <4>1. PICK y : Inventory!Holders(n) = {y}
        BY <3>5
      <4>2. Inventory!Decided(n, x) = {y} /\ meant = {y} /\ y \in Inventory!Known
        BY <1>8, <2>8, <3>2, <4>1, InventoryDecidedIs DEF Inventory!Holders
      <4> HIDE DEF meant
      <4> QED
        BY <1>6, <2>6, <4>2 DEF n, meant
    <3>6. \/ Inventory!Holders(n) = {} \/ \E y, z \in Inventory!Holders(n) : y # z
          \/ \E y : Inventory!Holders(n) = {y}
      OBVIOUS
    <3> QED
      BY <3>3, <3>4, <3>5, <3>6
  <2> QED
    BY <2>7, <2>8
<1> QED
  BY <1>7, <1>8

(***************************************************************************)
(* The other steps.                                                        *)
(***************************************************************************)
\* The inventory stays as it was built.
LEMMA InventoryInventoryStays ==
  ASSUME Inventory!Inv, UNCHANGED <<v1, v2, Inventory!inventory>>,
         v3' \in {"select", "machine", "done", "refused"},
         v3' \in {"select", "machine", "done"} => v3 \in {"select", "machine", "done"}
                                                  \/ (v4 \notin DOMAIN v1 /\ ~Inventory!Shared(v7))
  PROVE  /\ Inventory!TypeOK' /\ v1' \in OfInventory.Documents
         /\ Inventory!IsFiniteSet(Inventory!Known') /\ v6' \in Seq(Inventory!Known')
         /\ v2' \in OfInventory.Selections
         /\ Inventory!PlaceInv' /\ Inventory!KeptInv' /\ Inventory!UniqueInv'
<1>1. /\ v1' = v1 /\ v4' = v4 /\ v5' = v5 /\ v6' = v6 /\ v7' = v7
      /\ v2' = v2
  BY DEF Inventory!inventory
<1>2. Inventory!Known' = Inventory!Known /\ Inventory!KeptInv'
  BY InventoryKeptStays
<1>3. Inventory!TypeOK'
  BY <1>1, <1>2 DEF Inventory!Inv, Inventory!TypeOK
<1>4. Inventory!PlaceInv' /\ Inventory!UniqueInv'
  BY <1>1 DEF Inventory!Inv, Inventory!PlaceInv, Inventory!UniqueInv
<1> QED
  BY <1>1, <1>2, <1>3, <1>4 DEF Inventory!Inv

\* What was selected means what it meant.
LEMMA InventorySelectedStays ==
  ASSUME Inventory!Inv, UNCHANGED <<Inventory!inventory, v9>>
  PROVE  Inventory!SelectedIsMeant'
BY InventoryMeantStays DEF Inventory!Inv, Inventory!SelectedInv, Inventory!SelectedIsMeant,
   Inventory!inventory, Inventory!Known

LEMMA InventoryCheckUniqueKeeps ==
  ASSUME Inventory!Inv, Inventory!CheckUnique
  PROVE  Inventory!Inv'
<1>1. CASE Inventory!Shared(v7)
  <2>1. UNCHANGED <<v1, v2, v8, Inventory!inventory, v9>> /\ v3' = "refused"
    BY <1>1 DEF Inventory!CheckUnique, Inventory!Refused
  <2> QED
    BY <2>1, InventoryRefusal
<1>2. CASE ~Inventory!Shared(v7)
  <2>1. /\ UNCHANGED <<v1, v2, Inventory!inventory>> /\ v3' = "select" /\ v3 = "entry"
        /\ v9' = v9 /\ v8' = v8 /\ v4 \notin DOMAIN v1
    BY <1>2 DEF Inventory!CheckUnique
  <2>2. /\ Inventory!TypeOK' /\ v1' \in OfInventory.Documents
        /\ Inventory!IsFiniteSet(Inventory!Known') /\ v6' \in Seq(Inventory!Known')
        /\ v2' \in OfInventory.Selections
        /\ Inventory!PlaceInv' /\ Inventory!KeptInv' /\ Inventory!UniqueInv'
    BY <1>2, <2>1, InventoryInventoryStays
  <2>3. Inventory!SelectedInv' /\ v8' \subseteq v2'.arg \cup v2'.nodes
    BY <2>1, InventorySelectedStays DEF Inventory!SelectedInv, Inventory!Inv
  <2> QED
    BY <2>2, <2>3 DEF Inventory!Inv
<1> QED
  BY <1>1, <1>2

LEMMA InventorySelectKeeps ==
  ASSUME Inventory!Inv, Inventory!Select
  PROVE  Inventory!Inv'
<1>1. UNCHANGED <<v1, v2, Inventory!inventory, v9>> /\ v3 = "select"
      /\ \/ v3' = "refused" /\ v8' = v8
         \/ v3' = "machine" /\ v8' \in {v2.arg, v2.nodes}
  BY DEF Inventory!Select, Inventory!Refused
<1>2. CASE v3' = "refused" /\ v8' = v8
  BY <1>1, <1>2, InventoryRefusal
<1>3. CASE v3' = "machine" /\ v8' \in {v2.arg, v2.nodes}
  <2>1. /\ Inventory!TypeOK' /\ v1' \in OfInventory.Documents
        /\ Inventory!IsFiniteSet(Inventory!Known') /\ v6' \in Seq(Inventory!Known')
        /\ v2' \in OfInventory.Selections
        /\ Inventory!PlaceInv' /\ Inventory!KeptInv' /\ Inventory!UniqueInv'
    BY <1>1, <1>3, InventoryInventoryStays
  <2>2. Inventory!SelectedInv' /\ v8' \subseteq v2'.arg \cup v2'.nodes
    BY <1>1, <1>3, InventorySelectedStays DEF Inventory!SelectedInv
  <2> QED
    BY <2>1, <2>2 DEF Inventory!Inv
<1> QED
  BY <1>1, <1>2, <1>3

LEMMA InventoryCanonicalizeKeeps ==
  ASSUME Inventory!Inv, Inventory!Canonicalize
  PROVE  Inventory!Inv'
<1>1. PICK typed \in v8 :
        IF Inventory!MachineOf(typed) = {} THEN Inventory!Refused
        ELSE /\ v9' = v9 \cup {[typed |-> typed, machine |-> Inventory!The(Inventory!MachineOf(typed))]}
             /\ v8' = v8 \ {typed} /\ UNCHANGED <<Inventory!inventory, v3>>
  BY DEF Inventory!Canonicalize
<1>2. UNCHANGED <<v1, v2>> /\ v3 = "machine"
  BY DEF Inventory!Canonicalize
<1>3. CASE Inventory!MachineOf(typed) = {}
  BY <1>1, <1>2, <1>3, InventoryRefusal DEF Inventory!Refused
<1>4. CASE Inventory!MachineOf(typed) # {}
  <2> DEFINE x == Inventory!The(Inventory!MachineOf(typed))
             new == [typed |-> typed, machine |-> x]
  <2>1. /\ v9' = v9 \cup {new} /\ v8' = v8 \ {typed}
        /\ UNCHANGED <<v1, v2, Inventory!inventory>> /\ v3' = "machine" /\ v3 = "machine"
    BY <1>1, <1>2, <1>4
  <2>2. /\ Inventory!TypeOK' /\ v1' \in OfInventory.Documents
        /\ Inventory!IsFiniteSet(Inventory!Known') /\ v6' \in Seq(Inventory!Known')
        /\ v2' \in OfInventory.Selections
        /\ Inventory!PlaceInv' /\ Inventory!KeptInv' /\ Inventory!UniqueInv'
    BY <2>1, InventoryInventoryStays
  <2>3. v8' \subseteq v2'.arg \cup v2'.nodes
    BY <2>1 DEF Inventory!Inv
  <2>4. Inventory!IsName(typed) /\ ~Inventory!Shared(v7)
    <3>1. typed \in v2.arg \cup v2.nodes /\ v2 \in OfInventory.Selections
      BY DEF Inventory!Inv
    <3>2. Inventory!IsName(typed)
      BY <3>1, CommandsConstants DEF CommandsConstants, Inventory!MachinesConstants
    <3> QED
      BY <2>1, <3>2 DEF Inventory!Inv, Inventory!UniqueInv
  <2>5. IF x \in Inventory!Known THEN Inventory!Meant(Inventory!Lower(typed)) = {x}
                                 ELSE Inventory!Cardinality(Inventory!Meant(Inventory!Lower(typed))) # 1
    BY <1>4, <2>4, InventoryMachineIsMeant
  <2>6. Inventory!Known' = Inventory!Known /\ \A n : Inventory!Meant(n)' = Inventory!Meant(n)
    BY <2>1, InventoryMeantStays DEF Inventory!Known, Inventory!inventory
  <2>7. ASSUME NEW s \in v9'
        PROVE  IF s.machine \in Inventory!Known THEN Inventory!Meant(Inventory!Lower(s.typed)) = {s.machine}
               ELSE Inventory!Cardinality(Inventory!Meant(Inventory!Lower(s.typed))) # 1
    <3>1. CASE s \in v9
      BY <3>1 DEF Inventory!Inv, Inventory!SelectedInv, Inventory!SelectedIsMeant
    <3>2. CASE s = new
      <4>1. s.typed = typed /\ s.machine = x
        BY <3>2
      <4> HIDE DEF x
      <4> QED
        BY <2>5, <4>1
    <3> QED
      BY <2>1, <3>1, <3>2
  <2>8. Inventory!SelectedInv'
    BY <2>1, <2>6, <2>7 DEF Inventory!SelectedInv, Inventory!SelectedIsMeant
  <2> QED
    BY <2>2, <2>3, <2>8 DEF Inventory!Inv
<1> QED
  BY <1>3, <1>4

LEMMA InventorySelectedKeeps ==
  ASSUME Inventory!Inv, Inventory!Selected
  PROVE  Inventory!Inv'
<1>1. UNCHANGED <<v1, v2, Inventory!inventory, v8, v9>> /\ v3 = "machine" /\ v3' = "done"
  BY DEF Inventory!Selected
<1>2. /\ Inventory!TypeOK' /\ v1' \in OfInventory.Documents
      /\ Inventory!IsFiniteSet(Inventory!Known') /\ v6' \in Seq(Inventory!Known')
      /\ v2' \in OfInventory.Selections
      /\ Inventory!PlaceInv' /\ Inventory!KeptInv' /\ Inventory!UniqueInv'
  BY <1>1, InventoryInventoryStays
<1>3. Inventory!SelectedInv' /\ v8' \subseteq v2'.arg \cup v2'.nodes
  BY <1>1, InventorySelectedStays DEF Inventory!SelectedInv, Inventory!Inv
<1> QED
  BY <1>2, <1>3 DEF Inventory!Inv

\* Nothing changes when nothing changes.
LEMMA InventoryUnchanged ==
  ASSUME Inventory!Inv, UNCHANGED Inventory!vars
  PROVE  Inventory!Inv'
<1>1. UNCHANGED <<v1, v2, Inventory!inventory, v8, v9, v3>>
  BY DEF Inventory!vars, Inventory!inventory
<1>2. CASE v3 = "refused"
  BY <1>1, <1>2, InventoryRefusal
<1>3. CASE v3 = "entry"
  <2>1. /\ v1' = v1 /\ v4' = v4 /\ v5' = v5 /\ v6' = v6 /\ v7' = v7
        /\ v9' = v9 /\ v3' = v3 /\ v8' = v8 /\ v2' = v2
    BY <1>1 DEF Inventory!inventory
  <2>2. Inventory!Known' = Inventory!Known /\ Inventory!KeptInv'
    BY <1>1, InventoryKeptStays
  <2>3. Inventory!TypeOK' /\ Inventory!PlaceInv' /\ Inventory!UniqueInv'
    BY <2>1, <2>2 DEF Inventory!Inv, Inventory!TypeOK, Inventory!PlaceInv, Inventory!UniqueInv
  <2>5. Inventory!SelectedInv'
    BY <1>1, <2>1, InventorySelectedStays DEF Inventory!SelectedInv, Inventory!Inv
  <2> QED
    BY <2>1, <2>2, <2>3, <2>5 DEF Inventory!Inv
<1>4. CASE v3 \in {"select", "machine", "done"}
  <2>1. /\ Inventory!TypeOK' /\ v1' \in OfInventory.Documents
        /\ Inventory!IsFiniteSet(Inventory!Known') /\ v6' \in Seq(Inventory!Known')
        /\ v2' \in OfInventory.Selections
        /\ Inventory!PlaceInv' /\ Inventory!KeptInv' /\ Inventory!UniqueInv'
    BY <1>1, <1>4, InventoryInventoryStays
  <2>2. Inventory!SelectedInv' /\ v8' \subseteq v2'.arg \cup v2'.nodes
    BY <1>1, InventorySelectedStays DEF Inventory!SelectedInv, Inventory!Inv
  <2> QED
    BY <2>1, <2>2 DEF Inventory!Inv
<1> QED
  BY <1>2, <1>3, <1>4 DEF Inventory!Inv, Inventory!TypeOK

LEMMA InventoryStep == Inventory!Inv /\ [Inventory!Next]_(Inventory!vars) => Inventory!Inv'
<1> SUFFICES ASSUME Inventory!Inv, [Inventory!Next]_(Inventory!vars) PROVE Inventory!Inv'
  OBVIOUS
<1> QED
  BY InventoryBuildKeeps, InventoryCheckUniqueKeeps, InventorySelectKeeps,
     InventoryCanonicalizeKeeps, InventorySelectedKeeps, InventoryUnchanged
  DEF Inventory!Next, Inventory!Stay

\* An inventory that was read to its end is what is written.
LEMMA InventoryKeeps == Inventory!Inv => Inventory!InventoryIsAsWritten /\ Inventory!SelectedIsMeant
<1> SUFFICES ASSUME Inventory!Inv PROVE Inventory!InventoryIsAsWritten
  BY DEF Inventory!Inv, Inventory!SelectedInv
<1> SUFFICES ASSUME v3 \in {"select", "machine", "done"}
             PROVE  /\ Inventory!Known = UNION {Inventory!Range(v1[i].nodes) : i \in DOMAIN v1}
                    /\ Inventory!OneNameEach
                    /\ \A m, n \in Inventory!Known :
                         m # n => Inventory!Keys(v7, m) \cap Inventory!Keys(v7, n) = {}
                    /\ \A n \in Inventory!Known : Inventory!AsWritten(n)
  BY DEF Inventory!InventoryIsAsWritten
<1>1. Inventory!OneNameEach /\ \A n \in Inventory!Known : Inventory!AsWritten(n)
  BY DEF Inventory!Inv, Inventory!KeptInv
<1>2. \A m, n \in Inventory!Known : m # n => Inventory!Keys(v7, m) \cap Inventory!Keys(v7, n) = {}
  BY DEF Inventory!Inv, Inventory!UniqueInv, Inventory!Shared, Inventory!TypeOK
<1>3. /\ v4 \in 1..Len(v1) + 1 /\ v4 \notin DOMAIN v1
      /\ DOMAIN v1 = 1..Len(v1) /\ Len(v1) \in Nat
  BY InventoryGiven DEF Inventory!Inv, Inventory!PlaceInv
<1>4. \A i \in DOMAIN v1 : i < v4
  BY <1>3
<1>5. \A i \in DOMAIN v1 : Inventory!NamesRead(i) = Inventory!Range(v1[i].nodes)
  BY <1>4 DEF Inventory!NamesRead, Inventory!Range
<1>6. Inventory!Known = UNION {Inventory!Range(v1[i].nodes) : i \in DOMAIN v1}
  BY <1>5 DEF Inventory!Inv, Inventory!KeptInv
<1> QED
  BY <1>1, <1>2, <1>6

\* A step of the whole is one of the component, or of another scene.
LEMMA InventoryScene ==
  ASSUME [Next]_vars
  PROVE  /\ scene' = scene
         /\ scene = "machines" => [Inventory!Next]_(Inventory!vars)
BY DEF Next, vars, Inventory!vars

\* The invariant of the component is one of the whole.
LEMMA InventoryAlways == Spec => [](scene = "machines" => Inventory!Inv)
<1>1. Init => (scene = "machines" => Inventory!Inv)
  BY InventoryBegins DEF Init, Begin
<1>2. (scene = "machines" => Inventory!Inv) /\ [Next]_vars => (scene = "machines" => Inventory!Inv)'
  BY InventoryScene, InventoryStep
<1> QED
  BY <1>1, <1>2, PTL DEF Spec

\* Whatever the inventory says and whatever is typed: a name that selects a
\* machine selects the one that goes by it; every node is as the entries write
\* it.  For any settings that are accepted and whatever the included file says:
\* the hosts a session is counted on are hosts ssh connects to; and as long as
\* ssh comes to no host whose jump only ssh.options or an included file gives,
\* no connection jumps for ever and ssh connects to no host that is not counted.
\* (BuildInventory, Canonicalize, checkJumpCycles, JumpHosts)
THEOREM NamesMeanTheirMachines == Spec => []NamesAreAsMeant
<1>1. (scene = "machines" => Inventory!Inv) /\ (scene = "ssh" => Ssh!Inv) => NamesAreAsMeant
  BY InventoryKeeps, SshJumpsEnd DEF NamesAreAsMeant
<1> QED
  BY <1>1, InventoryAlways, SshAlways, PTL
=============================================================================
