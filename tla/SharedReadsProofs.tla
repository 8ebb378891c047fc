-------------------------- MODULE SharedReadsProofs --------------------------
(***************************************************************************)
(* Proofs about SharedReads: that what many callers read together is asked *)
(* for once, and is a whole and true answer.                               *)
(*                                                                         *)
(* Every section proves that the invariant of its component holds when its *)
(* scene begins and is kept by every step, and what the component promises *)
(* by it; the theorems at the end take the three together.  The components *)
(* are those of SharedReads, whose registers stand for their variables:    *)
(* the heading of a section says which.                                    *)
(***************************************************************************)
EXTENDS SharedReads, Integers, FiniteSetTheorems, SequenceTheorems, WellFoundedInduction, TLAPS

(***************************************************************************)
(* The passwords of a command.  One asker reads a name, and has it entered *)
(* among the reads under way (ReaderIsOne); from its first question to its *)
(* last it has the terminal (TerminalIsHeld); a read that is over is kept  *)
(* or was cut short (ReadsAreCounted), and what an asker got is what is    *)
(* kept (GotIsKept).                                                       *)
(*                                                                         *)
(* The registers: v1 NoTerminal, v2 pc, v3 got, v4 cache, v5 failed, v6    *)
(* reading, v7 terminal, v8 secrets, v9 values, v10 prefetching, v11       *)
(* ended, v12 reads, v13 cut.                                              *)
(***************************************************************************)
LEMMA CredAssumed == C!CredentialsConstants
BY SharedReadsAssumption DEF SharedReadsConstants

LEMMA CredConstants ==
  /\ C!Nobody \notin C!Askers
  /\ \A a \in C!Askers : C!NameOf(a) \in OfCredentials.Names
BY CredAssumed DEF C!CredentialsConstants, C!Nobody, C!Askers, C!NameOf

LEMMA CredBegins == C!Init => C!Inv
<1> SUFFICES ASSUME C!Init PROVE C!Inv
  OBVIOUS
<1>1. C!TypeOK
  <2>1. \A a \in C!Askers : v2[a] \in {"idle", "get", "over"}
    BY DEF C!Init
  <2>2. v2 \in [C!Askers -> {"idle", "get", "wait", "terminal", "read", "asking", "lock",
        "decrypting", "over"}]
    BY DEF C!Init
  <2>3. v3 \in [C!Askers -> C!Outcomes \cup {"none"}]
    BY DEF C!Init
  <2> QED
    BY <2>2, <2>3 DEF C!TypeOK, C!Init
<1>2. C!Reading = {} /\ C!Begun = {}
  BY DEF C!Init, C!Reading, C!Begun
<1>3. C!ReaderIsOne
  BY <1>2 DEF C!ReaderIsOne
<1>4. C!TerminalIsHeld
  <2>1. \A a \in C!Askers : v2[a] # "read"
    BY DEF C!Init
  <2>2. \A a \in C!Askers : v2[a] \in {"idle", "over"}
        \/ (a \in OfCredentials.Names /\ ~C!interactive(a))
    BY DEF C!Init, C!Askers
  <2> QED
    BY <1>2, <2>1, <2>2 DEF C!TerminalIsHeld
<1>5. C!ReadsAreCounted
  BY DEF C!ReadsAreCounted, C!Init
<1>6. C!GotIsKept
  BY DEF C!GotIsKept, C!Init
<1> QED
  BY <1>1, <1>3, <1>4, <1>5, <1>6 DEF C!Inv

\* A read that is over.
LEMMA CredReadOver ==
  ASSUME C!Inv, NEW a \in C!Reading, NEW what \in C!Outcomes, what = "not_read" => a \in v11,
         C!ReadOver(a, what), UNCHANGED <<v1, v10, v11, v12>>,
         v8' \in C!Askers \cup {C!Nobody}
  PROVE  C!Inv'
<1> DEFINE n == C!NameOf(a)
<1>0. C!TypeOK /\ C!ReaderIsOne /\ C!TerminalIsHeld /\ C!ReadsAreCounted /\ C!GotIsKept
  BY DEF C!Inv
<1>1. a \in C!Askers /\ n \in OfCredentials.Names /\ C!Nobody \notin C!Askers /\ v2[a] # "over"
      /\ v3[a] = "none"
  BY <1>0, CredConstants DEF C!Reading, C!GotIsKept
<1>2. /\ v2' = [v2 EXCEPT ![a] = "over"] /\ v3' = [v3 EXCEPT ![a] = what]
      /\ v4' = IF what = "password" THEN v4 \cup {n} ELSE v4
      /\ v5' = IF what = "failed" /\ a \notin v11 THEN v5 \cup {n} ELSE v5
      /\ v6' = v6 \ {n}
      /\ v7' = IF v7 = a THEN C!Nobody ELSE v7
      /\ v13' = IF what # "password" /\ a \in v11 THEN [v13 EXCEPT ![n] = @ + 1] ELSE v13
  BY DEF C!ReadOver, C!Answered, C!Go, C!Remembered
<1>3. n \in v6 /\ n \notin v4 /\ n \notin v5
  BY <1>0 DEF C!ReaderIsOne
<1> HIDE DEF n
<1>4. /\ v2' \in [C!Askers -> {"idle", "get", "wait", "terminal", "read", "asking", "lock",
         "decrypting", "over"}]
      /\ v3' \in [C!Askers -> C!Outcomes \cup {"none"}]
      /\ v2'[a] = "over" /\ \A b \in C!Askers \ {a} : v2'[b] = v2[b]
      /\ v3'[a] = what /\ \A b \in C!Askers \ {a} : v3'[b] = v3[b]
  BY <1>0, <1>1, <1>2 DEF C!TypeOK
<1>5. C!TypeOK'
  <2>1. v4' \cap v5' = {}
    BY <1>0, <1>2, <1>3 DEF C!TypeOK
  <2>2. v4' \cup v5' \cup v6' \subseteq OfCredentials.Names
    BY <1>0, <1>1, <1>2 DEF C!TypeOK
  <2>3. v7' \in C!Askers \cup {C!Nobody} /\ v11' \subseteq C!Askers /\ v10' \in BOOLEAN
    BY <1>0, <1>2 DEF C!TypeOK
  <2> QED
    BY <1>4, <2>1, <2>2, <2>3 DEF C!TypeOK
<1>6. C!Reading' = C!Reading \ {a}
  BY <1>1, <1>4 DEF C!Reading
<1>7. C!Begun' = C!Begun \ {a}
  BY <1>1, <1>4 DEF C!Begun
<1>8. C!ReaderIsOne'
  <2>1. ASSUME NEW b \in C!Reading' PROVE C!NameOf(b) \in v6' /\ C!NameOf(b) \notin v4' \cup v5'
    <3>1. b \in C!Reading /\ b # a /\ C!NameOf(b) # n
      BY <1>0, <1>6 DEF C!ReaderIsOne, n
    <3> QED
      BY <1>0, <1>2, <3>1 DEF C!ReaderIsOne
  <2> QED
    BY <1>0, <1>6, <2>1 DEF C!ReaderIsOne
<1>9. C!TerminalIsHeld'
  <2>1. ASSUME NEW b \in C!Askers, v2'[b] = "read" \/ b \in C!Begun', C!interactive(C!NameOf(b))'
        PROVE  v7' = b
    <3>1. b # a /\ (v2[b] = "read" \/ b \in C!Begun) /\ C!interactive(C!NameOf(b))
      BY <1>4, <1>7, <2>1 DEF C!interactive
    <3> QED
      BY <1>0, <1>1, <1>2, <3>1 DEF C!TerminalIsHeld
  <2>2. v10' => \A b \in C!Askers : v2'[b] \in {"idle", "over"}
        \/ (b \in OfCredentials.Names /\ ~C!interactive(b)')
    BY <1>0, <1>4 DEF C!TerminalIsHeld, C!interactive
  <2> QED
    BY <2>1, <2>2 DEF C!TerminalIsHeld
<1>10. C!ReadsAreCounted'
  <2>1. v13' \in [OfCredentials.Names -> Nat] /\ v12' \in [OfCredentials.Names -> Nat]
    BY <1>0, <1>1, <1>2 DEF C!ReadsAreCounted
  <2>2. \A m \in OfCredentials.Names : v13[m] \in Nat /\ v12[m] \in Nat /\ v12' = v12
        /\ v12[m] <= 1 + v13[m]
    BY <1>0 DEF C!ReadsAreCounted
  <2>3. \A m \in OfCredentials.Names \ {n} : v13'[m] = v13[m]
    BY <1>0, <1>1, <1>2 DEF C!ReadsAreCounted
  <2>4. v13'[n] = IF what # "password" /\ a \in v11 THEN v13[n] + 1 ELSE v13[n]
    BY <1>0, <1>1, <1>2 DEF C!ReadsAreCounted
  <2>5. \A m \in OfCredentials.Names : v12'[m] <= 1 + v13'[m]
    BY <1>1, <2>2, <2>3, <2>4
  <2>6. ASSUME NEW m \in OfCredentials.Names \ (v4' \cup v5'), \A b \in C!Begun' : C!NameOf(b) # m
        PROVE  v12'[m] <= v13'[m]
    <3>1. CASE m = n
      <4>1. what # "password" /\ a \in v11
        BY <1>2, <2>6, <3>1 DEF C!Outcomes
      <4> QED
        BY <2>2, <2>4, <3>1, <4>1
    <3>2. CASE m # n
      <4>1. m \notin v4 \cup v5 /\ \A b \in C!Begun : C!NameOf(b) # m
        BY <1>2, <1>7, <2>6, <3>2 DEF n
      <4> QED
        BY <1>0, <2>2, <2>3, <3>2, <4>1 DEF C!ReadsAreCounted
    <3> QED
      BY <3>1, <3>2
  <2> QED
    BY <2>1, <2>5, <2>6 DEF C!ReadsAreCounted
<1>11. C!GotIsKept'
  <2>1. \A b \in C!Askers : v3'[b] # "none" => v2'[b] = "over"
    BY <1>0, <1>4 DEF C!GotIsKept
  <2>2. \A b \in C!Askers : v3'[b] = "password" => C!NameOf(b) \in v4'
    BY <1>0, <1>2, <1>4 DEF C!GotIsKept, n
  <2>3. \A b \in C!Askers \ v11' : v3'[b] = "failed" => C!NameOf(b) \in v5'
    BY <1>0, <1>2, <1>4 DEF C!GotIsKept, n
  <2>4. \A b \in C!Askers : v3'[b] = "not_read" => b \in v11'
    BY <1>0, <1>4 DEF C!GotIsKept
  <2>5. ASSUME NEW m \in v5' PROVE \E b \in C!Askers : C!NameOf(b) = m /\ v3'[b] = "failed"
    <3>1. CASE m \in v5
      <4>1. PICK b \in C!Askers : C!NameOf(b) = m /\ v3[b] = "failed"
        BY <1>0, <3>1 DEF C!GotIsKept
      <4>2. b # a
        BY <1>1, <4>1
      <4> QED
        BY <1>4, <4>1, <4>2
    <3>2. CASE m \notin v5
      BY <1>1, <1>2, <1>4, <2>5, <3>2 DEF n
    <3> QED
      BY <3>1, <3>2
  <2> QED
    BY <2>1, <2>2, <2>3, <2>4, <2>5 DEF C!GotIsKept
<1> QED
  BY <1>5, <1>8, <1>9, <1>10, <1>11 DEF C!Inv

\* An asker goes on, and nothing is kept or counted.
LEMMA CredGo ==
  ASSUME C!Inv, NEW a \in C!Askers,
         NEW at \in {"get", "wait", "terminal", "read", "asking", "lock", "decrypting", "over"},
         NEW what \in C!Outcomes \cup {"none"},
         v2[a] # "over", v2' = [v2 EXCEPT ![a] = at], v3' = [v3 EXCEPT ![a] = what],
         what # "none" => at = "over", what = "password" => C!NameOf(a) \in v4,
         what = "failed" => C!NameOf(a) \in v5, what = "not_read" => a \in v11,
         UNCHANGED <<v1, v4, v5, v10, v11, v13>>,
         v6' \in SUBSET OfCredentials.Names, v6 \subseteq v6',
         \A m \in OfCredentials.Names \ {C!NameOf(a)} : m \in v6' => m \in v6,
         a \in C!Reading \/ at \in {"get", "wait", "over"} \/ C!NameOf(a) \notin v6 \cup v4 \cup v5,
         at \in {"terminal", "read", "asking", "lock", "decrypting"} => C!NameOf(a) \in v6',
         v8' \in C!Askers \cup {C!Nobody},
         v7' = v7 \/ (v7 = C!Nobody /\ v7' = a),
         at \in {"read", "asking", "lock", "decrypting"} /\ C!interactive(C!NameOf(a)) => v7' = a,
         v10 => at = "over" \/ (a \in OfCredentials.Names /\ ~C!interactive(a)),
         v12' \in [OfCredentials.Names -> Nat],
           \A m \in OfCredentials.Names \ {C!NameOf(a)} : v12'[m] = v12[m],
         a \in C!Begun => at \in {"asking", "lock", "decrypting"},
         \/ v12' = v12 /\ (a \in C!Begun <=> at \in {"asking", "lock", "decrypting"})
         \/ /\ v12'[C!NameOf(a)] = v12[C!NameOf(a)] + 1 /\ at \in {"asking", "lock"}
            /\ a \in C!Reading \ C!Begun
  PROVE  C!Inv'
<1> DEFINE n == C!NameOf(a)
<1>0. C!TypeOK /\ C!ReaderIsOne /\ C!TerminalIsHeld /\ C!ReadsAreCounted /\ C!GotIsKept
  BY DEF C!Inv
<1>1. n \in OfCredentials.Names /\ C!Nobody \notin C!Askers /\ v3[a] = "none" /\ C!NameOf(a) = n
  BY <1>0, CredConstants DEF C!GotIsKept
<1> HIDE DEF n
<1>2. /\ v2' \in [C!Askers -> {"idle", "get", "wait", "terminal", "read", "asking", "lock",
         "decrypting", "over"}]
      /\ v3' \in [C!Askers -> C!Outcomes \cup {"none"}]
      /\ v2'[a] = at /\ \A b \in C!Askers \ {a} : v2'[b] = v2[b]
      /\ v3'[a] = what /\ \A b \in C!Askers \ {a} : v3'[b] = v3[b]
  BY <1>0 DEF C!TypeOK
<1>3. C!TypeOK'
  <2>1. v7' \in C!Askers \cup {C!Nobody} /\ v11' \subseteq C!Askers /\ v10' \in BOOLEAN
    BY <1>0 DEF C!TypeOK
  <2>2. v4' \cap v5' = {} /\ v4' \cup v5' \cup v6' \subseteq OfCredentials.Names
    BY <1>0 DEF C!TypeOK
  <2> QED
    BY <1>2, <2>1, <2>2 DEF C!TypeOK
<1>4. \A b \in C!Askers \ {a} : (b \in C!Reading' <=> b \in C!Reading)
      /\ (b \in C!Begun' <=> b \in C!Begun)
  BY <1>2 DEF C!Reading, C!Begun
<1>5. /\ a \in C!Reading' <=> at \in {"terminal", "read", "asking", "lock", "decrypting"}
      /\ a \in C!Begun' <=> at \in {"asking", "lock", "decrypting"}
      /\ C!Reading' \subseteq C!Askers /\ C!Reading \subseteq C!Askers
      /\ C!Begun' \subseteq C!Askers /\ C!Begun \subseteq C!Askers /\ C!Begun \subseteq C!Reading
  BY <1>2 DEF C!Reading, C!Begun
<1>6. C!ReaderIsOne'
  <2>1. ASSUME a \in C!Reading', NEW b \in C!Reading, b # a PROVE C!NameOf(b) # n
    BY <1>0, <1>1, <1>5, <2>1 DEF C!ReaderIsOne
  <2>2. ASSUME a \in C!Reading' PROVE n \in v6' /\ n \notin v4 \cup v5
    BY <1>0, <1>1, <1>5, <2>2 DEF C!ReaderIsOne
  <2>3. ASSUME NEW b \in C!Reading' PROVE C!NameOf(b) \in v6' /\ C!NameOf(b) \notin v4' \cup v5'
    <3>1. CASE b = a
      BY <1>1, <2>2, <2>3, <3>1
    <3>2. CASE b # a
      BY <1>0, <1>4, <1>5, <2>3, <3>2 DEF C!ReaderIsOne
    <3> QED
      BY <3>1, <3>2
  <2>4. ASSUME NEW b \in C!Reading', NEW c \in C!Reading', C!NameOf(b) = C!NameOf(c) PROVE b = c
    <3>1. CASE b # a /\ c # a
      BY <1>0, <1>4, <1>5, <2>4, <3>1 DEF C!ReaderIsOne
    <3>2. CASE b = a \/ c = a
      BY <1>1, <1>4, <1>5, <2>1, <2>4, <3>2
    <3> QED
      BY <3>1, <3>2
  <2> QED
    BY <2>3, <2>4 DEF C!ReaderIsOne
<1>7. C!TerminalIsHeld'
  <2>1. ASSUME NEW b \in C!Askers, v2'[b] = "read" \/ b \in C!Begun', C!interactive(C!NameOf(b))'
        PROVE  v7' = b
    <3>0. C!interactive(C!NameOf(b))
      BY <2>1 DEF C!interactive
    <3>1. CASE b = a
      BY <1>2, <1>5, <2>1, <3>0, <3>1
    <3>2. CASE b # a
      <4>1. v7 = b
        BY <1>0, <1>2, <1>4, <2>1, <3>0, <3>2 DEF C!TerminalIsHeld
      <4> QED
        BY <1>1, <4>1
    <3> QED
      BY <3>1, <3>2
  <2>2. v10' => \A b \in C!Askers : v2'[b] \in {"idle", "over"}
        \/ (b \in OfCredentials.Names /\ ~C!interactive(b)')
    <3> SUFFICES ASSUME v10', NEW b \in C!Askers
                 PROVE  v2'[b] \in {"idle", "over"}
                        \/ (b \in OfCredentials.Names /\ ~C!interactive(b)')
      OBVIOUS
    <3>1. v10 /\ (C!interactive(b)' <=> C!interactive(b))
      BY DEF C!interactive
    <3>2. CASE b = a
      BY <1>2, <3>1, <3>2
    <3>3. CASE b # a
      BY <1>0, <1>2, <3>1, <3>3 DEF C!TerminalIsHeld
    <3> QED
      BY <3>2, <3>3
  <2> QED
    BY <2>1, <2>2 DEF C!TerminalIsHeld
<1>8. C!ReadsAreCounted'
  <2>1. \A m \in OfCredentials.Names : v13[m] \in Nat /\ v12[m] \in Nat /\ v12[m] <= 1 + v13[m]
        /\ v13'[m] = v13[m]
    BY <1>0 DEF C!ReadsAreCounted
  <2>2. v13' \in [OfCredentials.Names -> Nat]
    BY <1>0 DEF C!ReadsAreCounted
  <2>3. CASE v12' = v12 /\ (a \in C!Begun <=> at \in {"asking", "lock", "decrypting"})
    <3>1. C!Begun' = C!Begun
      BY <1>4, <1>5, <2>3
    <3> QED
      BY <1>0, <2>1, <2>2, <2>3, <3>1 DEF C!ReadsAreCounted
  <2>4. CASE /\ v12'[C!NameOf(a)] = v12[C!NameOf(a)] + 1 /\ at \in {"asking", "lock"}
             /\ a \in C!Reading \ C!Begun
    <3>1. \A b \in C!Begun : C!NameOf(b) # n
      BY <1>0, <1>1, <1>5, <2>4 DEF C!ReaderIsOne
    <3>2. v12[n] <= v13[n]
      BY <1>0, <1>1, <2>4, <3>1 DEF C!ReadsAreCounted, C!ReaderIsOne
    <3>3. v12'[n] <= 1 + v13'[n]
      BY <1>1, <2>1, <2>4, <3>2
    <3>4. \A m \in OfCredentials.Names : v12'[m] <= 1 + v13'[m]
      BY <1>1, <2>1, <3>3
    <3>5. ASSUME NEW m \in OfCredentials.Names \ (v4' \cup v5'), \A b \in C!Begun' : C!NameOf(b) # m
          PROVE  v12'[m] <= v13'[m]
      <4>1. m # n /\ \A b \in C!Begun : C!NameOf(b) # m
        BY <1>1, <1>4, <1>5, <2>4, <3>5
      <4> QED
        BY <1>0, <1>1, <2>1, <4>1 DEF C!ReadsAreCounted
    <3> QED
      BY <2>2, <3>4, <3>5 DEF C!ReadsAreCounted
  <2> QED
    BY <2>3, <2>4
<1>9. C!GotIsKept'
  <2>1. \A b \in C!Askers : v3'[b] # "none" => v2'[b] = "over"
    BY <1>0, <1>2 DEF C!GotIsKept
  <2>2. \A b \in C!Askers : v3'[b] = "password" => C!NameOf(b) \in v4'
    BY <1>0, <1>2 DEF C!GotIsKept
  <2>3. \A b \in C!Askers \ v11' : v3'[b] = "failed" => C!NameOf(b) \in v5'
    BY <1>0, <1>2 DEF C!GotIsKept
  <2>4. \A b \in C!Askers : v3'[b] = "not_read" => b \in v11'
    BY <1>0, <1>2 DEF C!GotIsKept
  <2>5. ASSUME NEW m \in v5' PROVE \E b \in C!Askers : C!NameOf(b) = m /\ v3'[b] = "failed"
    <3>1. PICK b \in C!Askers : C!NameOf(b) = m /\ v3[b] = "failed"
      BY <1>0 DEF C!GotIsKept
    <3> QED
      BY <1>1, <1>2, <3>1
  <2> QED
    BY <2>1, <2>2, <2>3, <2>4, <2>5 DEF C!GotIsKept
<1> QED
  BY <1>3, <1>6, <1>7, <1>8, <1>9 DEF C!Inv

\* Contexts end, or the prefetch is over.
LEMMA CredEnds ==
  ASSUME C!Inv, v11 \subseteq v11', v11' \subseteq C!Askers, v10' \in BOOLEAN,
         v10' => v10,
         UNCHANGED <<v1, v2, v3, C!kept, C!locks, v12, v13>>
  PROVE  C!Inv'
<1>0. C!TypeOK /\ C!ReaderIsOne /\ C!TerminalIsHeld /\ C!ReadsAreCounted /\ C!GotIsKept
  BY DEF C!Inv
<1>1. /\ v2' = v2 /\ v3' = v3 /\ v4' = v4 /\ v5' = v5 /\ v6' = v6
      /\ v7' = v7 /\ v8' = v8
  BY DEF C!kept, C!locks
<1>2. C!Reading' = C!Reading /\ C!Begun' = C!Begun
  BY <1>1 DEF C!Reading, C!Begun
<1>3. C!TypeOK'
  BY <1>0, <1>1 DEF C!TypeOK
<1>4. C!ReaderIsOne'
  BY <1>0, <1>1, <1>2 DEF C!ReaderIsOne
<1>5. C!TerminalIsHeld'
  <2>1. \A b \in C!Askers : (v2'[b] = "read" \/ b \in C!Begun') /\ C!interactive(C!NameOf(b))'
        => v7' = b
    BY <1>0, <1>1, <1>2 DEF C!TerminalIsHeld, C!interactive
  <2>2. v10' => \A b \in C!Askers : v2'[b] \in {"idle", "over"}
        \/ (b \in OfCredentials.Names /\ ~C!interactive(b)')
    BY <1>0, <1>1 DEF C!TerminalIsHeld, C!interactive
  <2> QED
    BY <2>1, <2>2 DEF C!TerminalIsHeld
<1>6. C!ReadsAreCounted'
  BY <1>0, <1>1, <1>2 DEF C!ReadsAreCounted
<1>7. C!GotIsKept'
  BY <1>0, <1>1 DEF C!GotIsKept
<1> QED
  BY <1>3, <1>4, <1>5, <1>6, <1>7 DEF C!Inv

LEMMA CredStep == C!Inv /\ [C!Next]_(C!vars) => C!Inv'
<1> SUFFICES ASSUME C!Inv, [C!Next]_(C!vars) PROVE C!Inv'
  OBVIOUS
<1>0. C!TypeOK /\ C!ReaderIsOne /\ C!TerminalIsHeld /\ C!ReadsAreCounted /\ C!GotIsKept
  BY DEF C!Inv
<1>1. CASE C!PrefetchOver
  BY <1>1, <1>0, CredEnds DEF C!PrefetchOver, C!TypeOK
<1>2. CASE C!Interrupt
  BY <1>2, <1>0, CredEnds DEF C!Interrupt, C!TypeOK
<1>3. ASSUME NEW a \in C!Askers, C!GiveUp(a) PROVE C!Inv'
  BY <1>3, <1>0, CredEnds DEF C!GiveUp, C!TypeOK, C!Askers
<1>4. CASE UNCHANGED C!vars
  <2>1. UNCHANGED <<v1, v2, v3, C!kept, C!locks, v12, v13>> /\ v11' = v11 /\ v10' = v10
    BY <1>4 DEF C!vars, C!kept, C!locks
  <2> QED
    BY <1>0, <2>1, CredEnds DEF C!TypeOK
<1>5. ASSUME NEW a \in C!Askers, C!Step(a) PROVE C!Inv'
  <2> DEFINE n == C!NameOf(a)
  <2>1. UNCHANGED v1 /\ C!Moves(a)
    BY <1>5 DEF C!Step
  <2>2. n \in OfCredentials.Names /\ C!Nobody \notin C!Askers /\ n = C!NameOf(a)
    BY CredConstants
  <2> HIDE DEF n
  <2>3. /\ v6 \subseteq OfCredentials.Names /\ v3[a] \in C!Outcomes \cup {"none"}
        /\ v8 \in C!Askers \cup {C!Nobody}
        /\ v12 \in [OfCredentials.Names -> Nat]
        /\ v2 \in [C!Askers -> {"idle", "get", "wait", "terminal", "read", "asking", "lock",
           "decrypting", "over"}]
        /\ v3 \in [C!Askers -> C!Outcomes \cup {"none"}]
    BY <1>0 DEF C!TypeOK, C!ReadsAreCounted
  <2>4. v2[a] # "over" => v3[a] = "none" /\ v3 = [v3 EXCEPT ![a] = "none"]
    BY <1>0, <2>3 DEF C!GotIsKept
  <2>5. v10 => v2[a] \in {"idle", "over"} \/ (a \in OfCredentials.Names /\ ~C!interactive(a))
    BY <1>0 DEF C!TerminalIsHeld
  <2>6. C!interactive(C!NameOf(a)) /\ (v2[a] = "read" \/ a \in C!Begun) => v7 = a
    BY <1>0 DEF C!TerminalIsHeld
  <2>7. /\ a \in C!Reading <=> v2[a] \in {"terminal", "read", "asking", "lock", "decrypting"}
        /\ a \in C!Begun <=> v2[a] \in {"asking", "lock", "decrypting"}
    BY DEF C!Reading, C!Begun
  <2>8. a \in C!Reading => n \in v6
    BY <1>0, <2>2 DEF C!ReaderIsOne
  <2>10. CASE C!Get(a)
    <3>1. v2[a] = "get" /\ UNCHANGED <<v4, v5, v7, v8, v9, v10, v11, v12, v13>>
      BY <2>10 DEF C!Get, C!locks
    <3>2. CASE a \in v11 /\ C!Answered(a, "not_read") /\ UNCHANGED v6
      BY <2>1, <2>3, <2>4, <2>5, <2>7, <3>1, <3>2, CredGo DEF C!Answered, C!Go, C!Outcomes
    <3>3. CASE a \notin v11 /\ n \in v4 /\ C!Answered(a, "password") /\ UNCHANGED v6
      BY <2>1, <2>2, <2>3, <2>4, <2>5, <2>7, <3>1, <3>3, CredGo DEF C!Answered, C!Go, C!Outcomes
    <3>4. CASE a \notin v11 /\ n \in v5 /\ C!Answered(a, "failed") /\ UNCHANGED v6
      BY <2>1, <2>2, <2>3, <2>4, <2>5, <2>7, <3>1, <3>4, CredGo DEF C!Answered, C!Go, C!Outcomes
    <3>5. CASE /\ a \notin v11 /\ n \notin v4 \cup v5 /\ n \in v6
               /\ C!Go(a, "wait") /\ UNCHANGED <<v3, v6>>
      BY <2>1, <2>2, <2>3, <2>4, <2>5, <2>7, <3>1, <3>5, CredGo DEF C!Go
    <3>6. CASE /\ a \notin v11 /\ n \notin v4 \cup v5 \cup v6
               /\ v6' = v6 \cup {n}
               /\ C!Go(a, IF C!interactive(n) THEN "terminal" ELSE "read")
               /\ UNCHANGED v3
      <4>0. /\ a \notin C!Reading /\ a \notin C!Begun /\ C!NameOf(a) \in v6'
            /\ v6' \in SUBSET OfCredentials.Names /\ v6 \subseteq v6'
            /\ C!NameOf(a) \notin v6 \cup v4 \cup v5
            /\ \A m \in OfCredentials.Names \ {C!NameOf(a)} : m \in v6' => m \in v6
            /\ v3' = [v3 EXCEPT ![a] = "none"]
            /\ v10 => a \in OfCredentials.Names /\ ~C!interactive(a)
            /\ v12' = v12 /\ v7' = v7
        BY <2>2, <2>3, <2>4, <2>5, <2>7, <3>1, <3>6
      <4>1. CASE C!interactive(n)
        <5>1. v2' = [v2 EXCEPT ![a] = "terminal"]
          BY <3>6, <4>1 DEF C!Go
        <5> QED
          BY <2>1, <2>3, <3>1, <4>0, <5>1, CredGo
      <4>2. CASE ~C!interactive(n)
        <5>1. v2' = [v2 EXCEPT ![a] = "read"] /\ ~C!interactive(C!NameOf(a))
          BY <2>2, <3>6, <4>2 DEF C!Go
        <5> QED
          BY <2>1, <2>3, <3>1, <4>0, <5>1, CredGo
      <4> QED
        BY <4>1, <4>2
    <3> QED
      BY <2>10, <3>2, <3>3, <3>4, <3>5, <3>6 DEF C!Get, n
  <2>11. CASE C!StopsWaiting(a)
    <3>1. v2[a] = "wait" /\ UNCHANGED <<v4, v5, v6, v7, v8, v10, v11, v12, v13>>
      BY <2>11 DEF C!StopsWaiting, C!kept, C!locks
    <3>2. CASE C!Go(a, "get") /\ UNCHANGED v3
      BY <2>1, <2>2, <2>3, <2>4, <2>5, <2>7, <3>1, <3>2, CredGo DEF C!Go
    <3>3. CASE a \in v11 /\ C!Answered(a, "not_read")
      BY <2>1, <2>2, <2>3, <2>4, <2>5, <2>7, <3>1, <3>3, CredGo DEF C!Answered, C!Go, C!Outcomes
    <3> QED
      BY <2>11, <3>2, <3>3 DEF C!StopsWaiting
  <2>12. CASE C!TakeTerminal(a)
    <3>1. v2[a] = "terminal" /\ v7 = C!Nobody /\ UNCHANGED <<v8, v10, v11, v12>>
      BY <2>12 DEF C!TakeTerminal
    <3>2. CASE a \in v11 /\ C!ReadOver(a, "not_read")
      BY <2>1, <2>3, <2>7, <3>1, <3>2, CredReadOver DEF C!Outcomes
    <3>3. CASE v7' = a /\ C!Go(a, "read") /\ UNCHANGED <<v3, v4, v5, v6, v13>>
      BY <2>1, <2>2, <2>3, <2>4, <2>5, <2>7, <2>8, <3>1, <3>3, CredGo DEF C!Go
    <3> QED
      BY <2>12, <3>2, <3>3 DEF C!TakeTerminal, C!kept
  <2>13. CASE C!Begin(a)
    <3>1. /\ v2[a] = "read" /\ v12' = [v12 EXCEPT ![n] = @ + 1]
          /\ UNCHANGED <<v3, v4, v5, v6, v7, v8, v10, v11, v13>>
      BY <2>13, <2>2 DEF C!Begin, C!kept, C!locks
    <3>2. /\ v12' \in [OfCredentials.Names -> Nat] /\ v12'[n] = v12[n] + 1
          /\ \A m \in OfCredentials.Names \ {n} : v12'[m] = v12[m]
      BY <2>2, <2>3, <3>1
    <3>3. PICK at \in {"lock", "asking"} : v2' = [v2 EXCEPT ![a] = at]
      BY <2>13 DEF C!Begin, C!Go
    <3>4. /\ a \in C!Reading \ C!Begun /\ C!NameOf(a) \in v6 /\ v3' = [v3 EXCEPT ![a] = "none"]
          /\ v6' \in SUBSET OfCredentials.Names /\ (C!interactive(C!NameOf(a)) => v7' = a)
      BY <2>2, <2>3, <2>4, <2>6, <2>7, <2>8, <3>1
    <3>5. /\ v12' \in [OfCredentials.Names -> Nat] /\ v12'[C!NameOf(a)] = v12[C!NameOf(a)] + 1
          /\ \A m \in OfCredentials.Names \ {C!NameOf(a)} : v12'[m] = v12[m]
      BY <2>2, <3>2
    <3>6. v10 => a \in OfCredentials.Names /\ ~C!interactive(a)
      BY <2>5, <3>1
    <3>7. CASE at = "lock"
      BY <2>1, <2>3, <3>1, <3>3, <3>4, <3>5, <3>6, <3>7, CredGo
    <3>8. CASE at = "asking"
      BY <2>1, <2>3, <3>1, <3>3, <3>4, <3>5, <3>6, <3>8, CredGo
    <3> QED
      BY <3>7, <3>8
  <2>14. CASE C!Read(a)
    BY <2>14, <2>1, <2>3, <2>7, CredReadOver DEF C!Read, C!Outcome, C!Outcomes
  <2>15. CASE C!Lock(a)
    <3>1. /\ v2[a] = "lock" /\ v8' = a /\ C!Go(a, "decrypting")
          /\ UNCHANGED <<v3, v4, v5, v6, v7, v10, v11, v12, v13>>
      BY <2>15 DEF C!Lock, C!kept
    <3> QED
      BY <2>1, <2>2, <2>3, <2>4, <2>5, <2>6, <2>7, <2>8, <3>1, CredGo DEF C!Go
  <2>16. CASE C!Decrypt(a)
    <3>1. v2[a] = "decrypting" /\ v8' = C!Nobody /\ UNCHANGED <<v10, v11, v12>>
      BY <2>16 DEF C!Decrypt
    <3>2. PICK what \in {"password"} \cup C!Outcome(a) : C!ReadOver(a, what)
      BY <2>16 DEF C!Decrypt
    <3>3. what \in C!Outcomes /\ (what = "not_read" => a \in v11)
      BY <3>2 DEF C!Outcome, C!Outcomes
    <3> QED
      BY <2>1, <2>7, <3>1, <3>2, <3>3, CredReadOver
  <2>17. CASE C!Work(a)
    <3>1. /\ v2[a] = "idle" /\ ~v10 /\ C!Go(a, "get")
          /\ UNCHANGED <<v3, v4, v5, v6, v7, v8, v10, v11, v12, v13>>
      BY <2>17 DEF C!Work, C!kept, C!locks
    <3> QED
      BY <2>1, <2>2, <2>3, <2>4, <2>7, <3>1, CredGo DEF C!Go
  <2> QED
    BY <2>1, <2>10, <2>11, <2>12, <2>13, <2>14, <2>15, <2>16, <2>17 DEF C!Moves
<1> QED
  BY <1>1, <1>2, <1>3, <1>4, <1>5 DEF C!Next

LEMMA CredPromises == C!Inv => C!TypeOK /\ C!OneAnswer /\ C!AskedOnce
<1> SUFFICES ASSUME C!Inv PROVE C!TypeOK /\ C!OneAnswer /\ C!AskedOnce
  OBVIOUS
<1>0. C!TypeOK /\ C!ReaderIsOne /\ C!TerminalIsHeld /\ C!ReadsAreCounted /\ C!GotIsKept
  BY DEF C!Inv
<1>1. C!OneAnswer
  <2>1. ASSUME NEW a \in C!Askers \ v11, NEW b \in C!Askers \ v11,
               C!NameOf(a) = C!NameOf(b) /\ {v3[a], v3[b]} \subseteq C!Outcomes
        PROVE  v3[a] = v3[b]
    <3>1. v4 \cap v5 = {}
      BY <1>0 DEF C!TypeOK
    <3> QED
      BY <1>0, <2>1, <3>1 DEF C!GotIsKept, C!Outcomes
  <2> QED
    BY <1>0, <2>1 DEF C!OneAnswer, C!GotIsKept
<1>2. C!AskedOnce
  <2>1. \A a, b \in C!Uses : a = b
    BY <1>0 DEF C!Uses, C!TerminalIsHeld, C!Begun
  <2>2. \A a, b \in C!Reading : C!NameOf(a) = C!NameOf(b) => a = b
    BY <1>0 DEF C!ReaderIsOne
  <2>3. \A n \in OfCredentials.Names : v12[n] <= 1 + v13[n]
    BY <1>0 DEF C!ReadsAreCounted
  <2>4. ASSUME v10, NEW a \in C!Askers, v2[a] \in {"asking", "decrypting"}
        PROVE  v1 \/ OfCredentials.Kind[C!NameOf(a)] = "env"
    <3>1. a \in OfCredentials.Names /\ ~C!interactive(a) /\ C!NameOf(a) = a
      BY <1>0, <2>4 DEF C!TerminalIsHeld, C!NameOf
    <3>2. OfCredentials.Kind[a] \in {"env", "command", "age", "sops", "prompt"}
      BY <3>1, CredAssumed DEF C!CredentialsConstants
    <3> QED
      BY <3>1, <3>2 DEF C!interactive
  <2> QED
    BY <2>1, <2>2, <2>3, <2>4 DEF C!AskedOnce
<1> QED
  BY <1>0, <1>1, <1>2

\* A step of the whole is one of the component, or of another scene.
LEMMA CredScene ==
  ASSUME [Next]_vars
  PROVE  /\ scene' = scene
         /\ scene = "credentials" => [C!Next]_(C!vars)
BY DEF Next, vars, C!vars

\* The invariant of the component is one of the whole.
LEMMA CredAlways == Spec => [](scene = "credentials" => C!Inv)
<1>1. Init => (scene = "credentials" => C!Inv)
  BY CredBegins DEF Init
<1>2. (scene = "credentials" => C!Inv) /\ [Next]_vars => (scene = "credentials" => C!Inv)'
  BY CredScene, CredStep
<1> QED
  BY <1>1, <1>2, PTL DEF Spec

(***************************************************************************)
(* The files of the DHCP server.  The parser is where its frames say       *)
(* (PlaceInv); a file is passed over only when the parse is over, and a    *)
(* read is canceled only with the worker that reads (FetchInv); so no such *)
(* answer is kept for the others (AnswerInv).                              *)
(*                                                                         *)
(* The registers: v1 layout, v2 pc, v3 answer, v4 ended, v5 reader, v6     *)
(* memo, v7 frames, v8 files, v9 hosts, v10 fetch, v11 stopped, v12 disk,  *)
(* v13 failures.                                                           *)
(***************************************************************************)
LEMMA DhcpAssumed == D!DhcpFetchConstants
BY SharedReadsAssumption DEF SharedReadsConstants

\* The sets of D that are finite, and how many elements they have.
LEMMA DhcpSizes ==
  \A S : (D!IsFiniteSet(S) <=> IsFiniteSet(S)) /\ D!Cardinality(S) = Cardinality(S)
BY DEF D!IsFiniteSet, D!Cardinality, IsFiniteSet, Cardinality

LEMMA DhcpEmptySet ==
  /\ D!IsFiniteSet({}) /\ D!Cardinality({}) = 0
  /\ \A S : D!IsFiniteSet(S) => (D!Cardinality(S) = 0 <=> S = {})
BY FS_EmptySet, DhcpSizes

LEMMA DhcpCardinalityType == \A S : D!IsFiniteSet(S) => D!Cardinality(S) \in Nat
BY FS_CardinalityType, DhcpSizes

LEMMA DhcpSubset ==
  ASSUME NEW S, D!IsFiniteSet(S), NEW T \in SUBSET S
  PROVE  /\ D!IsFiniteSet(T) /\ D!Cardinality(T) <= D!Cardinality(S)
         /\ D!Cardinality(S) = D!Cardinality(T) => S = T
BY FS_Subset, DhcpSizes

LEMMA DhcpAddElement ==
  ASSUME NEW S, NEW x, D!IsFiniteSet(S)
  PROVE  /\ D!IsFiniteSet(S \cup {x})
         /\ D!Cardinality(S \cup {x}) =
              IF x \in S THEN D!Cardinality(S) ELSE D!Cardinality(S) + 1
<1>1. IsFiniteSet(S)
  BY DhcpSizes
<1>2. /\ IsFiniteSet(S \cup {x})
      /\ Cardinality(S \cup {x}) = IF x \in S THEN Cardinality(S) ELSE Cardinality(S) + 1
  BY <1>1, FS_AddElement
<1> QED
  BY <1>2, DhcpSizes, Zenon

Frames == [file : OfDhcp.Files, at : Nat \ {0}]
States == {"none", "queued", "reading", "ok", "failed", "canceled", "stopped"}
Places == {"ask", "open", "parse", "stop", "over"}

LEMMA DhcpConstants ==
  /\ D!Nobody \notin OfDhcp.Workers /\ D!IsFiniteSet(OfDhcp.Files) /\ OfDhcp.Main \in OfDhcp.Files
  /\ OfDhcp.prefetchers \in Nat /\ OfDhcp.prefetchers > 0 /\ OfDhcp.maxFiles \in Nat
  /\ OfDhcp.maxFiles > 0
  /\ OfDhcp.maxDepth \in Nat /\ OfDhcp.maxDepth > 0 /\ OfDhcp.Failures \in Nat
BY DhcpAssumed DEF D!DhcpFetchConstants, D!Nobody

\* Fewer reads, or one more where there is a place, are not too many.
LEMMA DhcpPlaces ==
  ASSUME NEW R \in SUBSET OfDhcp.Files, NEW S \in SUBSET OfDhcp.Files,
         D!Cardinality(R) <= OfDhcp.prefetchers,
         \/ S \subseteq R
         \/ D!Cardinality(R) < OfDhcp.prefetchers /\ \E f \in OfDhcp.Files : S = R \cup {f}
  PROVE  D!Cardinality(S) <= OfDhcp.prefetchers
<1>1. D!IsFiniteSet(R)
  BY DhcpConstants, DhcpSubset
<1>2. D!Cardinality(R) \in Nat
  BY <1>1, DhcpCardinalityType
<1>3. CASE S \subseteq R
  <2>1. D!Cardinality(S) \in Nat /\ D!Cardinality(S) <= D!Cardinality(R)
    BY <1>1, <1>3, DhcpSubset, DhcpCardinalityType
  <2> QED
    BY <1>2, <2>1, DhcpConstants
<1>4. CASE D!Cardinality(R) < OfDhcp.prefetchers /\ \E f \in OfDhcp.Files : S = R \cup {f}
  <2>1. PICK f \in OfDhcp.Files : S = R \cup {f}
    BY <1>4
  <2>2. D!Cardinality(S) = D!Cardinality(R) \/ D!Cardinality(S) = D!Cardinality(R) + 1
    BY <1>1, <2>1, DhcpAddElement
  <2> QED
    BY <1>2, <1>4, <2>2, DhcpConstants
<1> QED
  BY <1>3, <1>4

LEMMA DhcpBegins == D!Init => D!Inv
<1> SUFFICES ASSUME D!Init PROVE D!Inv
  OBVIOUS
<1>1. D!Nobody \notin OfDhcp.Workers /\ OfDhcp.Main \in OfDhcp.Files
  BY DhcpConstants
<1>2. D!TypeOK
  <2>1. D!Reading = {}
    BY DEF D!Reading, D!Init, D!Unread
  <2>2. D!Cardinality(D!Reading) <= OfDhcp.prefetchers
    <3>1. D!Cardinality({}) = 0
      BY DhcpEmptySet
    <3> QED
      BY <2>1, <3>1, DhcpConstants
  <2>3. Len(v7) <= OfDhcp.maxDepth + 2
    <3>1. v7 = <<>> /\ Len(<<>>) = 0
      BY DEF D!Init
    <3> QED
      BY <3>1, DhcpConstants
  <2>4. v8 <= OfDhcp.maxFiles + 1
    BY DhcpConstants DEF D!Init
  <2>5. /\ v2 \in [OfDhcp.Workers -> Places] /\ v10 \in [OfDhcp.Files -> States]
        /\ \A w \in OfDhcp.Workers : v2[w] \in {"open", "parse", "stop"} <=> v5 = w
        /\ v12 \subseteq OfDhcp.Files
    BY <1>1 DEF D!Init, D!Unread, Places, States
  <2> QED
    BY <2>2, <2>3, <2>4, <2>5 DEF D!TypeOK, Places, States
<1>3. D!PlaceInv
  <2>1. <<>> \in Seq([file : OfDhcp.Files, at : Nat \ {0}])
    OBVIOUS
  <2> QED
    BY <2>1 DEF D!PlaceInv, D!Init
<1>4. D!FetchInv
  BY DEF D!FetchInv, D!Init, D!Unread
<1>5. D!AnswerInv
  BY DEF D!AnswerInv, D!Init, D!None
<1> QED
  BY <1>2, <1>3, <1>4, <1>5 DEF D!Inv

\* The layout, the frames and the statement the parser has come to.
LEMMA DhcpFrames ==
  ASSUME D!PlaceInv, v7 # <<>>
  PROVE  /\ Len(v7) \in Nat /\ Len(v7) >= 1 /\ D!Top \in Frames
         /\ ~D!AtEnd /\ D!Statement.what = "include" => D!Statement.of \in OfDhcp.Files
         /\ D!Past(v7) \in Seq(Frames) /\ Len(D!Past(v7)) = Len(v7)
<1> DEFINE n == Len(v7)
<1>1. v7 \in Seq(Frames) /\ v1 \in OfDhcp.Layouts
  BY DEF D!PlaceInv, Frames
<1>2. n \in Nat /\ n >= 1 /\ DOMAIN v7 = 1..n /\ \A i \in 1..n : v7[i] \in Frames
  BY <1>1
<1> HIDE DEF n
<1>3. n \in 1..n
  BY <1>2
<1>4. D!Top \in Frames
  BY <1>2, <1>3 DEF D!Top, n
<1>5. ASSUME ~D!AtEnd, D!Statement.what = "include" PROVE D!Statement.of \in OfDhcp.Files
  <2> DEFINE s == v1[D!Top.file]  i == D!Top.at
  <2>1. /\ D!Top.file \in OfDhcp.Files /\ i \in Nat \ {0}
    BY <1>4 DEF Frames
  <2>2. /\ Len(s) \in Nat /\ DOMAIN s = 1..Len(s)
        /\ \A j \in DOMAIN s : s[j].what = "include" => s[j].of \in OfDhcp.Files
    BY <1>1, <2>1, DhcpAssumed DEF D!DhcpFetchConstants
  <2>3. ~(i > Len(s)) /\ s[i].what = "include" /\ D!Statement.of = s[i].of
    BY <1>5 DEF D!AtEnd, D!Statement
  <2> HIDE DEF s, i
  <2>4. i \in DOMAIN s
    BY <2>1, <2>2, <2>3
  <2> QED
    BY <2>2, <2>3, <2>4
<1>6. D!Past(v7) \in Seq(Frames) /\ Len(D!Past(v7)) = n
  <2> DEFINE g == [v7[n] EXCEPT !.at = @ + 1]
             ff == [v7 EXCEPT ![n] = g]
  <2>1. D!Past(v7) = ff
    BY DEF D!Past, n
  <2>2. g \in Frames
    BY <1>2, <1>3 DEF Frames
  <2> HIDE DEF g
  <2>3. ff \in Seq(Frames) /\ Len(ff) = n
    BY <1>1, <1>2, <1>3, <2>2
  <2> QED
    BY <2>1, <2>3
<1> QED
  BY <1>2, <1>4, <1>5, <1>6 DEF n

\* What a step of the parser keeps.
LEMMA DhcpParse ==
  ASSUME D!Inv, NEW w \in OfDhcp.Workers, v2[w] = "parse",
         UNCHANGED <<v1, v4, v5, v6, v12, v13>>,
         v7' \in Seq(Frames), Len(v7') <= OfDhcp.maxDepth + 2,
         v8' \in Nat, v8' <= OfDhcp.maxFiles + 1,
         v10' \in [OfDhcp.Files -> States], D!Reading' \subseteq D!Reading,
         \A f \in OfDhcp.Files : v10'[f] \in {"stopped", "canceled"} => v10'[f] = v10[f],
         \/ UNCHANGED <<v2, v3, v11>>
         \/ \E r : D!Over(w, r) /\ r.what \in D!Results /\ (r.what = "canceled" => w \in v4)
  PROVE  D!Inv'
<1>0. D!TypeOK /\ D!PlaceInv /\ D!FetchInv /\ D!AnswerInv
  BY DEF D!Inv
<1>1. /\ D!Nobody \notin OfDhcp.Workers /\ v5 = w /\ ~v11
      /\ \A v \in OfDhcp.Workers : v2[v] \in {"open", "parse", "stop"} <=> v5 = v
  BY <1>0, DhcpConstants DEF D!TypeOK, D!FetchInv
<1>2. PICK moved \in BOOLEAN :
        /\ moved = FALSE => UNCHANGED <<v2, v3, v11>>
        /\ moved = TRUE
           => \E r : D!Over(w, r) /\ r.what \in D!Results /\ (r.what = "canceled" => w \in v4)
  OBVIOUS
<1>3. /\ v2' \in [OfDhcp.Workers -> Places] /\ v2'[w] \in {"parse", "stop"}
      /\ DOMAIN v3' = OfDhcp.Workers
      /\ \A v \in OfDhcp.Workers \ {w} : v2'[v] = v2[v] /\ v3'[v] = v3[v]
  <2>1. v2 \in [OfDhcp.Workers -> Places] /\ DOMAIN v3 = OfDhcp.Workers
    BY <1>0 DEF D!TypeOK, D!PlaceInv, Places
  <2>2. CASE UNCHANGED <<v2, v3, v11>>
    BY <2>1, <2>2
  <2>3. CASE \E r : D!Over(w, r) /\ r.what \in D!Results /\ (r.what = "canceled" => w \in v4)
    <3>1. PICK r : v2' = [v2 EXCEPT ![w] = "stop"] /\ v3' = [v3 EXCEPT ![w] = r]
      BY <2>3 DEF D!Over
    <3> QED
      BY <2>1, <3>1 DEF Places
  <2> QED
    BY <2>2, <2>3
<1>4. D!TypeOK'
  <2>1. D!Cardinality(D!Reading') <= OfDhcp.prefetchers
    BY <1>0, DhcpPlaces DEF D!TypeOK, D!Reading
  <2>2. \A v \in OfDhcp.Workers : v2'[v] \in {"open", "parse", "stop"} <=> v5' = v
    BY <1>1, <1>3
  <2> QED
    BY <1>0, <1>3, <2>1, <2>2 DEF D!TypeOK, Places, States
<1>5. D!PlaceInv'
  <2>1. \A v \in OfDhcp.Workers : v2'[v] = "open" => v7' = <<>>
    BY <1>1, <1>3
  <2> QED
    BY <1>0, <1>3, <2>1 DEF D!PlaceInv, Frames
<1>6. D!FetchInv'
  <2>1. \A f \in OfDhcp.Files : v10[f] # "stopped" /\ v10'[f] # "stopped"
    BY <1>0, <1>1 DEF D!FetchInv
  <2>2. v11' \in BOOLEAN /\ \A v \in OfDhcp.Workers : v2'[v] \in {"open", "parse"} => ~v11'
    <3>1. CASE UNCHANGED <<v2, v3, v11>>
      BY <1>0, <3>1 DEF D!FetchInv
    <3>2. CASE \E r : D!Over(w, r) /\ r.what \in D!Results /\ (r.what = "canceled" => w \in v4)
      <4>1. v11' = TRUE /\ v2' = [v2 EXCEPT ![w] = "stop"] /\ v2 \in [OfDhcp.Workers -> Places]
        BY <1>0, <3>2 DEF D!Over, D!TypeOK, Places
      <4>2. \A v \in OfDhcp.Workers : v2'[v] \notin {"open", "parse"}
        BY <1>1, <4>1
      <4> QED
        BY <4>1, <4>2
    <3> QED
      BY <3>1, <3>2
  <2>3. \A f \in OfDhcp.Files : v10'[f] = "canceled" /\ v5' # D!Nobody => v5' \in v4'
    BY <1>0 DEF D!FetchInv
  <2> QED
    BY <2>1, <2>2, <2>3 DEF D!FetchInv
<1>7. D!AnswerInv'
  <2>1. v3'[w].what = "canceled" => w \in v4
    <3>1. CASE UNCHANGED <<v2, v3, v11>>
      BY <1>0, <3>1 DEF D!AnswerInv
    <3>2. CASE \E r : D!Over(w, r) /\ r.what \in D!Results /\ (r.what = "canceled" => w \in v4)
      BY <1>0, <3>2 DEF D!Over, D!PlaceInv
    <3> QED
      BY <3>1, <3>2
  <2>2. v2'[w] \in {"stop", "over"} => v3'[w].what \in D!Results
    <3>1. CASE UNCHANGED <<v2, v3, v11>>
      BY <1>0, <3>1 DEF D!AnswerInv
    <3>2. CASE \E r : D!Over(w, r) /\ r.what \in D!Results /\ (r.what = "canceled" => w \in v4)
      BY <1>0, <3>2 DEF D!Over, D!PlaceInv
    <3> QED
      BY <3>1, <3>2
  <2> QED
    BY <1>0, <1>3, <2>1, <2>2 DEF D!AnswerInv
<1> QED
  BY <1>4, <1>5, <1>6, <1>7 DEF D!Inv

\* A read is taken up, passed over or ends.
LEMMA DhcpFetches ==
  ASSUME D!Inv, UNCHANGED <<v1, v2, v3, v4, v5, v6, D!parser, v11>>,
         NEW f \in OfDhcp.Files, NEW s \in States, v10' = [v10 EXCEPT ![f] = s],
         s = "reading" => D!Cardinality(D!Reading) < OfDhcp.prefetchers,
         s = "stopped" => v11, s = "canceled" => v5 \in v4,
         v12' \in SUBSET OfDhcp.Files, v13' \in Nat
  PROVE  D!Inv'
<1>0. D!TypeOK /\ D!PlaceInv /\ D!FetchInv /\ D!AnswerInv
  BY DEF D!Inv
<1>1. v7' = v7 /\ v8' = v8
  BY DEF D!parser
<1>2. /\ v10' \in [OfDhcp.Files -> States] /\ v10'[f] = s
      /\ \A g \in OfDhcp.Files \ {f} : v10'[g] = v10[g]
  BY <1>0 DEF D!TypeOK, States
<1>3. D!TypeOK'
  <2>1. D!Reading' \subseteq D!Reading
        \/ (D!Cardinality(D!Reading) < OfDhcp.prefetchers /\ D!Reading' = D!Reading \cup {f})
    <3>1. CASE s = "reading"
      BY <1>2, <3>1 DEF D!Reading
    <3>2. CASE s # "reading"
      BY <1>2, <3>2 DEF D!Reading
    <3> QED
      BY <3>1, <3>2
  <2>2. D!Reading \subseteq OfDhcp.Files /\ D!Reading' \subseteq OfDhcp.Files
    BY DEF D!Reading
  <2>3. D!Cardinality(D!Reading') <= OfDhcp.prefetchers
    BY <1>0, <2>1, <2>2, DhcpPlaces DEF D!TypeOK
  <2> QED
    BY <1>0, <1>1, <1>2, <2>3 DEF D!TypeOK, States
<1>4. D!PlaceInv'
  BY <1>0, <1>1 DEF D!PlaceInv
<1>5. D!FetchInv'
  BY <1>0, <1>2 DEF D!FetchInv
<1>6. D!AnswerInv'
  BY <1>0 DEF D!AnswerInv
<1> QED
  BY <1>3, <1>4, <1>5, <1>6 DEF D!Inv

\* The reader returns: the next one may ask.
LEMMA DhcpReturns ==
  ASSUME D!Inv, NEW w \in OfDhcp.Workers, v2[w] \in {"open", "stop"}, NEW r, r.what \in D!Results,
         r.what = "canceled" => w \in v4, D!Return(w, r),
         UNCHANGED <<v1, v4, v7, v8, v9, v10, v11>>,
         v12' \in SUBSET OfDhcp.Files, v13' \in Nat
  PROVE  D!Inv'
<1>0. D!TypeOK /\ D!PlaceInv /\ D!FetchInv /\ D!AnswerInv
  BY DEF D!Inv
<1>1. /\ D!Nobody \notin OfDhcp.Workers /\ v5 = w
      /\ \A v \in OfDhcp.Workers : v2[v] \in {"open", "parse", "stop"} <=> v5 = v
  BY <1>0, DhcpConstants DEF D!TypeOK
<1>2. /\ v2' = [v2 EXCEPT ![w] = "over"] /\ v3' = [v3 EXCEPT ![w] = r]
      /\ v6' = IF D!Kept(w, r) THEN r ELSE v6
      /\ v5' = D!Nobody
  BY DEF D!Return
<1>3. /\ v2' \in [OfDhcp.Workers -> Places] /\ v2'[w] = "over" /\ v3'[w] = r
      /\ DOMAIN v3' = OfDhcp.Workers
      /\ \A v \in OfDhcp.Workers \ {w} : v2'[v] = v2[v] /\ v3'[v] = v3[v]
  BY <1>0, <1>2 DEF D!TypeOK, D!PlaceInv, Places
<1>4. \A v \in OfDhcp.Workers : v2'[v] \notin {"open", "parse", "stop"}
  BY <1>1, <1>3
<1>5. D!TypeOK'
  <2>1. D!Reading' = D!Reading
    BY DEF D!Reading
  <2>2. \A v \in OfDhcp.Workers : v2'[v] \in {"open", "parse", "stop"} <=> v5' = v
    BY <1>1, <1>2, <1>4
  <2>3. v2' \in [OfDhcp.Workers -> {"ask", "open", "parse", "stop", "over"}]
    BY <1>3 DEF Places
  <2>4. D!Cardinality(D!Reading') <= OfDhcp.prefetchers
    BY <1>0, <2>1 DEF D!TypeOK
  <2> QED
    BY <1>0, <2>2, <2>3, <2>4 DEF D!TypeOK
<1>6. D!PlaceInv'
  BY <1>0, <1>3, <1>4 DEF D!PlaceInv
<1>7. D!FetchInv'
  BY <1>0, <1>2, <1>4 DEF D!FetchInv
<1>8. D!AnswerInv'
  <2>1. v6' = D!None \/ v6'.what \in D!Results \ {"canceled"}
    <3>1. CASE D!Kept(w, r)
      <4>1. r.what # "canceled"
        BY <3>1 DEF D!Kept
      <4> QED
        BY <1>2, <3>1, <4>1
    <3>2. CASE ~D!Kept(w, r)
      BY <1>0, <1>2, <3>2 DEF D!AnswerInv
    <3> QED
      BY <3>1, <3>2
  <2> QED
    BY <1>0, <1>3, <2>1 DEF D!AnswerInv
<1> QED
  BY <1>5, <1>6, <1>7, <1>8 DEF D!Inv

\* RemoteFile.
LEMMA DhcpRemote ==
  ASSUME D!Inv, NEW f \in OfDhcp.Files, NEW how, D!RemoteFile(f, how)
  PROVE  /\ v12' \in SUBSET OfDhcp.Files /\ v13' \in Nat
         /\ how \in {"ok", "failed", "canceled"} /\ (how = "canceled" => v5 \in v4)
<1>1. v12 \subseteq OfDhcp.Files /\ v13 \in Nat
  BY DEF D!Inv, D!TypeOK, D!PlaceInv
<1>2. /\ how \in {"ok", "failed", "canceled"} /\ (how = "canceled" => v5 \in v4)
  BY DEF D!RemoteFile, D!Outcomes
<1>3. v12' \in SUBSET OfDhcp.Files
  BY <1>1 DEF D!RemoteFile
<1>4. v13' \in Nat
  BY <1>1 DEF D!RemoteFile
<1> QED
  BY <1>2, <1>3, <1>4

\* Files are queued ahead of the parser.
LEMMA DhcpQueues ==
  ASSUME D!Inv, NEW S,
         v10' = [g \in OfDhcp.Files |-> IF v10[g] = "none" /\ g \in S THEN "queued" ELSE v10[g]]
  PROVE  /\ v10' \in [OfDhcp.Files -> States] /\ D!Reading' = D!Reading
         /\ \A f \in OfDhcp.Files : v10'[f] \in {"stopped", "canceled"} => v10'[f] = v10[f]
<1>1. v10 \in [OfDhcp.Files -> States]
  BY DEF D!Inv, D!TypeOK, States
<1>2. v10' \in [OfDhcp.Files -> States]
  BY <1>1 DEF States
<1>3. \A g \in OfDhcp.Files : v10'[g] = IF v10[g] = "none" /\ g \in S THEN "queued" ELSE v10[g]
  OBVIOUS
<1> QED
  BY <1>2, <1>3 DEF D!Reading

LEMMA DhcpOpen ==
  ASSUME D!Inv, NEW w \in OfDhcp.Workers, D!Open(w)
  PROVE  D!Inv'
<1>0. D!TypeOK /\ D!PlaceInv /\ D!FetchInv /\ D!AnswerInv
  BY DEF D!Inv
<1>1. /\ D!Nobody \notin OfDhcp.Workers /\ OfDhcp.Main \in OfDhcp.Files /\ v5 = w /\ ~v11
      /\ v7 = <<>>
      /\ \A v \in OfDhcp.Workers : v2[v] \in {"open", "parse", "stop"} <=> v5 = v
  BY <1>0, DhcpConstants DEF D!TypeOK, D!FetchInv, D!PlaceInv, D!Open
<1>2. PICK how \in D!Outcomes(OfDhcp.Main) :
        /\ D!RemoteFile(OfDhcp.Main, how)
        /\ IF how = "ok"
           THEN /\ D!Enter(OfDhcp.Main, 1) /\ v2' = [v2 EXCEPT ![w] = "parse"]
                /\ UNCHANGED <<v3, v6, v5>>
           ELSE /\ D!Return(w, D!Error(how)) /\ UNCHANGED <<v7, v8, v10>>
  BY DEF D!Open
<1>3. v2[w] = "open" /\ UNCHANGED <<v1, v4, v9, v11>>
  BY DEF D!Open
<1>4. /\ v12' \in SUBSET OfDhcp.Files /\ v13' \in Nat
      /\ how \in {"ok", "failed", "canceled"} /\ (how = "canceled" => v5 \in v4)
  BY <1>1, <1>2, DhcpRemote
<1>5. CASE how # "ok"
  <2>1. D!Error(how).what = how
    BY DEF D!Error
  <2>2. D!Error(how).what \in D!Results /\ (D!Error(how).what = "canceled" => w \in v4)
    BY <1>1, <1>4, <2>1 DEF D!Results
  <2> QED
    BY <1>2, <1>3, <1>4, <1>5, <2>2, DhcpReturns
<1>6. CASE how = "ok"
  <2>1. /\ v7' = Append(v7, [file |-> OfDhcp.Main, at |-> 1]) /\ v8' = 1
        /\ v2' = [v2 EXCEPT ![w] = "parse"] /\ UNCHANGED <<v3, v6, v5>>
        /\ \E S : v10'
           = [g \in OfDhcp.Files |-> IF v10[g] = "none" /\ g \in S THEN "queued" ELSE v10[g]]
    BY <1>2, <1>6 DEF D!Enter
  <2>2. /\ v10' \in [OfDhcp.Files -> States] /\ D!Reading' = D!Reading
        /\ \A f \in OfDhcp.Files : v10'[f] \in {"stopped", "canceled"} => v10'[f] = v10[f]
    BY <2>1, DhcpQueues
  <2>3. v7' \in Seq(Frames) /\ Len(v7') = 1
    <3>1. v7' = <<[file |-> OfDhcp.Main, at |-> 1]>>
      BY <1>1, <2>1
    <3>2. [file |-> OfDhcp.Main, at |-> 1] \in Frames
      BY <1>1 DEF Frames
    <3> QED
      BY <3>1, <3>2
  <2>4. /\ v2' \in [OfDhcp.Workers -> Places] /\ v2'[w] = "parse"
        /\ \A v \in OfDhcp.Workers \ {w} : v2'[v] = v2[v]
    BY <1>0, <2>1 DEF D!TypeOK, Places
  <2>5. D!TypeOK'
    <3>1. \A v \in OfDhcp.Workers : v2'[v] \in {"open", "parse", "stop"} <=> v5' = v
      BY <1>1, <2>1, <2>4
    <3>2. v8' <= OfDhcp.maxFiles + 1 /\ Len(v7') <= OfDhcp.maxDepth + 2
      BY <2>1, <2>3, DhcpConstants
    <3>3. D!Cardinality(D!Reading') <= OfDhcp.prefetchers
      BY <1>0, <2>2 DEF D!TypeOK
    <3> QED
      BY <1>0, <1>4, <2>2, <2>4, <3>1, <3>2, <3>3 DEF D!TypeOK, Places, States
  <2>6. D!PlaceInv'
    <3>1. \A v \in OfDhcp.Workers : v2'[v] # "open"
      BY <1>1, <2>4
    <3> QED
      BY <1>0, <1>3, <1>4, <2>1, <2>3, <3>1 DEF D!PlaceInv, Frames
  <2>7. D!FetchInv'
    BY <1>0, <1>1, <1>3, <2>1, <2>2 DEF D!FetchInv
  <2>8. D!AnswerInv'
    BY <1>0, <1>3, <2>1, <2>4 DEF D!AnswerInv
  <2> QED
    BY <2>5, <2>6, <2>7, <2>8 DEF D!Inv
<1> QED
  BY <1>5, <1>6

LEMMA DhcpAsk ==
  ASSUME D!Inv, NEW w \in OfDhcp.Workers, D!Ask(w)
  PROVE  D!Inv'
<1>0. D!TypeOK /\ D!PlaceInv /\ D!FetchInv /\ D!AnswerInv
  BY DEF D!Inv
<1>1. /\ D!Nobody \notin OfDhcp.Workers /\ v5 = D!Nobody /\ v2[w] = "ask"
      /\ \A v \in OfDhcp.Workers : v2[v] \notin {"open", "parse", "stop"}
      /\ UNCHANGED <<v1, v4, v6, v12, v13>>
  BY <1>0, DhcpConstants DEF D!TypeOK, D!Ask
<1>2. CASE v6 # D!None
  <2>1. /\ v2' = [v2 EXCEPT ![w] = "over"] /\ v3' = [v3 EXCEPT ![w] = v6]
        /\ UNCHANGED <<v5, v7, v8, v9, v10, v11>>
    BY <1>2 DEF D!Ask, D!parser
  <2>2. /\ v2' \in [OfDhcp.Workers -> Places] /\ v2'[w] = "over"
        /\ \A v \in OfDhcp.Workers \ {w} : v2'[v] = v2[v]
        /\ DOMAIN v3' = OfDhcp.Workers /\ v3'[w] = v6
        /\ \A v \in OfDhcp.Workers \ {w} : v3'[v] = v3[v]
    BY <1>0, <2>1 DEF D!TypeOK, D!PlaceInv, Places
  <2>3. D!TypeOK'
    <3>1. D!Reading' = D!Reading
      BY <2>1 DEF D!Reading
    <3>2. \A v \in OfDhcp.Workers : v2'[v] \in {"open", "parse", "stop"} <=> v5' = v
      BY <1>1, <2>1, <2>2
    <3>3. D!Cardinality(D!Reading') <= OfDhcp.prefetchers
      BY <1>0, <3>1 DEF D!TypeOK
    <3>4. v2' \in [OfDhcp.Workers -> {"ask", "open", "parse", "stop", "over"}]
      BY <2>2 DEF Places
    <3> QED
      BY <1>0, <1>1, <2>1, <3>2, <3>3, <3>4 DEF D!TypeOK
  <2>4. D!PlaceInv'
    BY <1>0, <1>1, <2>1, <2>2 DEF D!PlaceInv
  <2>5. D!FetchInv'
    BY <1>0, <1>1, <2>1, <2>2 DEF D!FetchInv
  <2>6. D!AnswerInv'
    BY <1>0, <1>1, <1>2, <2>2 DEF D!AnswerInv
  <2> QED
    BY <2>3, <2>4, <2>5, <2>6 DEF D!Inv
<1>3. CASE v6 = D!None
  <2>1. /\ v5' = w /\ v2' = [v2 EXCEPT ![w] = "open"]
        /\ v7' = <<>> /\ v8' = 1 /\ v9' = <<>>
        /\ v10' = D!Unread /\ v11' = FALSE /\ v3' = v3
    BY <1>3 DEF D!Ask
  <2>2. /\ v2' \in [OfDhcp.Workers -> Places] /\ v2'[w] = "open"
        /\ \A v \in OfDhcp.Workers \ {w} : v2'[v] = v2[v]
    BY <1>0, <2>1 DEF D!TypeOK, Places
  <2>3. v10' \in [OfDhcp.Files -> States] /\ \A f \in OfDhcp.Files : v10'[f] = "none"
    BY <2>1 DEF D!Unread, States
  <2>4. D!TypeOK'
    <3>1. D!Reading' = {}
      BY <2>3 DEF D!Reading
    <3>2. \A v \in OfDhcp.Workers : v2'[v] \in {"open", "parse", "stop"} <=> v5' = v
      BY <1>1, <2>1, <2>2
    <3>3. D!Cardinality(D!Reading') <= OfDhcp.prefetchers
      <4>1. D!Cardinality({}) = 0
        BY DhcpEmptySet
      <4> QED
        BY <3>1, <4>1, DhcpConstants
    <3>4. v2' \in [OfDhcp.Workers -> {"ask", "open", "parse", "stop", "over"}]
      BY <2>2 DEF Places
    <3>5. v8' <= OfDhcp.maxFiles + 1
      BY <2>1, DhcpConstants
    <3>6. Len(v7') <= OfDhcp.maxDepth + 2
      <4>1. Len(<<>>) = 0
        OBVIOUS
      <4> QED
        BY <2>1, <4>1, DhcpConstants
    <3> QED
      BY <1>0, <1>1, <2>3, <3>2, <3>3, <3>4, <3>5, <3>6 DEF D!TypeOK, States
  <2>5. D!PlaceInv'
    <3>1. <<>> \in Seq([file : OfDhcp.Files, at : Nat \ {0}])
      OBVIOUS
    <3> QED
      BY <1>0, <1>1, <2>1, <3>1 DEF D!PlaceInv
  <2>6. D!FetchInv'
    BY <2>1, <2>3 DEF D!FetchInv
  <2>7. D!AnswerInv'
    BY <1>0, <1>1, <2>1, <2>2 DEF D!AnswerInv
  <2> QED
    BY <2>4, <2>5, <2>6, <2>7 DEF D!Inv
<1> QED
  BY <1>2, <1>3

LEMMA DhcpParser ==
  ASSUME D!Inv, NEW w \in OfDhcp.Workers,
         D!Declare(w) \/ D!Refused(w) \/ D!FileOver(w) \/ D!include(w)
  PROVE  D!Inv'
<1>0. D!TypeOK /\ D!PlaceInv /\ D!FetchInv /\ D!AnswerInv
  BY DEF D!Inv
<1>1. /\ v2[w] = "parse" /\ v7 # <<>>
      /\ UNCHANGED <<v1, v4, v5, v6, v12, v13>>
  BY DEF D!Declare, D!Refused, D!FileOver, D!include, D!Parse
<1>2. /\ Len(v7) \in Nat /\ Len(v7) >= 1
      /\ ~D!AtEnd /\ D!Statement.what = "include" => D!Statement.of \in OfDhcp.Files
      /\ D!Past(v7) \in Seq(Frames) /\ Len(D!Past(v7)) = Len(v7)
  BY <1>0, <1>1, DhcpFrames
<1>3. /\ v7 \in Seq(Frames) /\ Len(v7) <= OfDhcp.maxDepth + 2 /\ v8 \in Nat
      /\ v8 <= OfDhcp.maxFiles + 1
      /\ v10 \in [OfDhcp.Files -> States]
  BY <1>0 DEF D!TypeOK, D!PlaceInv, Frames, States
<1>4. v5 = w /\ ~v11
  BY <1>0, <1>1 DEF D!TypeOK, D!FetchInv
<1>5. v10' = v10 => D!Reading' = D!Reading
  BY DEF D!Reading
<1>6. CASE D!Declare(w)
  <2>1. v7' = D!Past(v7) /\ UNCHANGED <<v2, v3, v8, v10, v11>>
    BY <1>6 DEF D!Declare
  <2> QED
    BY <1>1, <1>2, <1>3, <1>5, <2>1, DhcpParse
<1>7. CASE D!Refused(w)
  <2>1. D!Over(w, D!Error("not_valid")) /\ UNCHANGED <<v7, v8, v10>>
    BY <1>7 DEF D!Refused, D!parser
  <2>2. D!Error("not_valid").what = "not_valid"
    BY DEF D!Error
  <2>3. "not_valid" \in D!Results
    BY DEF D!Results
  <2> QED
    BY <1>1, <1>3, <1>5, <2>1, <2>2, <2>3, DhcpParse
<1>8. CASE D!FileOver(w)
  <2>1. /\ v7' = SubSeq(v7, 1, Len(v7) - 1) /\ UNCHANGED <<v8, v10>>
        /\ D!Over(w, D!Parsed(v9)) \/ UNCHANGED <<v2, v3, v11>>
    BY <1>8 DEF D!FileOver
  <2>2. v7' \in Seq(Frames) /\ Len(v7') = Len(v7) - 1
    BY <1>2, <1>3, <2>1
  <2>3. D!Parsed(v9).what = "ok"
    BY DEF D!Parsed
  <2>4. "ok" \in D!Results
    BY DEF D!Results
  <2>5. Len(v7') <= OfDhcp.maxDepth + 2
    BY <1>2, <1>3, <2>2, DhcpConstants
  <2> QED
    BY <1>1, <1>3, <1>5, <2>1, <2>2, <2>3, <2>4, <2>5, DhcpParse
<1>9. CASE D!include(w)
  <2> DEFINE f == D!Statement.of
             e == D!IncludeError(f, D!Chain, v8 + 1, Len(v7) - 1)
  <2>1. f \in OfDhcp.Files /\ f = D!Statement.of
    BY <1>2, <1>9 DEF D!include
  <2>2. CASE e # "none"
    <3>1. D!Over(w, D!Error(e)) /\ UNCHANGED <<v7, v8, v10>>
      BY <1>9, <2>2 DEF D!include, D!parser
    <3>2. e \in {"includes_itself", "too_many_files", "too_deep"} /\ D!Error(e).what = e
      BY <2>2 DEF D!IncludeError, D!Error
    <3>3. e \in D!Results /\ e # "canceled"
      BY <3>2 DEF D!Results
    <3> HIDE DEF e
    <3> QED
      BY <1>1, <1>3, <1>5, <3>1, <3>2, <3>3, DhcpParse
  <2>3. CASE e = "none"
    <3>1. v8 + 1 <= OfDhcp.maxFiles /\ Len(v7) - 1 <= OfDhcp.maxDepth
      <4>1. ~(v8 + 1 > OfDhcp.maxFiles) /\ ~(Len(v7) - 1 > OfDhcp.maxDepth)
        BY <2>3 DEF D!IncludeError
      <4> QED
        BY <4>1, <1>2, <1>3, DhcpConstants
    <3>2. v10[f] \notin {"queued", "reading"}
      BY <1>9, <2>3 DEF D!include
    <3>3. \/ /\ v10[f] = "none"
             /\ v10' = [v10 EXCEPT ![f] = "queued"]
             /\ UNCHANGED <<v2, v3, v7, v8, v11>>
          \/ /\ v10[f] # "none" /\ D!Seen(f) = "ok"
             /\ v10' = [g \in OfDhcp.Files |->
                  IF v10[g] = "none" /\ g \in D!includes(f, D!Chain, OfDhcp.maxFiles - v8 - 1)
                  THEN "queued" ELSE v10[g]]
             /\ v7' = Append(D!Past(v7), [file |-> f, at |-> 1])
             /\ v8' = v8 + 1 /\ UNCHANGED <<v2, v3, v11>>
          \/ /\ v10[f] # "none" /\ D!Seen(f) # "ok"
             /\ D!Over(w, D!Error(D!Seen(f))) /\ UNCHANGED <<v7, v8, v10>>
      BY <1>9, <2>3 DEF D!include
    <3> HIDE DEF e, f
    <3>4. CASE /\ v10[f] = "none"
               /\ v10' = [v10 EXCEPT ![f] = "queued"]
               /\ UNCHANGED <<v2, v3, v7, v8, v11>>
      <4>1. v10' \in [OfDhcp.Files -> States]
            /\ \A g \in OfDhcp.Files : v10'[g] = IF g = f THEN "queued" ELSE v10[g]
        BY <1>3, <2>1, <3>4 DEF States
      <4>2. D!Reading' \subseteq D!Reading
        BY <4>1 DEF D!Reading
      <4> QED
        BY <1>1, <1>3, <3>4, <4>1, <4>2, DhcpParse
    <3>5. CASE /\ v10[f] # "none" /\ D!Seen(f) = "ok"
               /\ v10' = [g \in OfDhcp.Files |->
                    IF v10[g] = "none" /\ g \in D!includes(f, D!Chain, OfDhcp.maxFiles - v8 - 1)
                    THEN "queued" ELSE v10[g]]
               /\ v7' = Append(D!Past(v7), [file |-> f, at |-> 1])
               /\ v8' = v8 + 1 /\ UNCHANGED <<v2, v3, v11>>
      <4>1. /\ v10' \in [OfDhcp.Files -> States] /\ D!Reading' = D!Reading
            /\ \A g \in OfDhcp.Files : v10'[g] \in {"stopped", "canceled"} => v10'[g] = v10[g]
        BY <3>5, DhcpQueues
      <4>2. [file |-> f, at |-> 1] \in Frames
        BY <2>1 DEF Frames
      <4>3. v7' \in Seq(Frames) /\ Len(v7') = Len(v7) + 1
        BY <1>2, <3>5, <4>2
      <4>4. Len(v7') <= OfDhcp.maxDepth + 2 /\ v8' \in Nat /\ v8' <= OfDhcp.maxFiles + 1
        BY <1>2, <1>3, <3>1, <3>5, <4>3, DhcpConstants
      <4> QED
        BY <1>1, <3>5, <4>1, <4>3, <4>4, DhcpParse
    <3>6. CASE /\ v10[f] # "none" /\ D!Seen(f) # "ok"
               /\ D!Over(w, D!Error(D!Seen(f))) /\ UNCHANGED <<v7, v8, v10>>
      <4>1. v10[f] \in {"failed", "canceled"}
        BY <1>0, <1>3, <1>4, <2>1, <3>2, <3>6 DEF States, D!Seen, D!FetchInv
      <4>2. D!Error(D!Seen(f)).what = v10[f]
        BY DEF D!Error, D!Seen
      <4>3. v10[f] = "canceled" => w \in v4
        BY <1>0, <1>4, <2>1, DhcpConstants DEF D!FetchInv
      <4>4. D!Error(D!Seen(f)).what \in D!Results
            /\ (D!Error(D!Seen(f)).what = "canceled" => w \in v4)
        BY <4>1, <4>2, <4>3 DEF D!Results
      <4> QED
        BY <1>1, <1>3, <1>5, <3>6, <4>4, DhcpParse
    <3> QED
      BY <3>3, <3>4, <3>5, <3>6
  <2> QED
    BY <2>2, <2>3
<1> QED
  BY <1>6, <1>7, <1>8, <1>9

LEMMA DhcpStep == D!Inv /\ [D!Next]_(D!vars) => D!Inv'
<1> SUFFICES ASSUME D!Inv, [D!Next]_(D!vars) PROVE D!Inv'
  OBVIOUS
<1>0. D!TypeOK /\ D!PlaceInv /\ D!FetchInv /\ D!AnswerInv
  BY DEF D!Inv
<1>1. ASSUME NEW w \in OfDhcp.Workers, D!Step(w) PROVE D!Inv'
  <2>1. CASE D!StopOver(w)
    <3>1. /\ v2[w] = "stop" /\ D!Return(w, v3[w])
          /\ UNCHANGED <<v1, v4, v7, v8, v9, v10, v11, v12, v13>>
      BY <2>1 DEF D!StopOver, D!parser
    <3>2. v3[w].what \in D!Results /\ (v3[w].what = "canceled" => w \in v4)
      BY <1>0, <3>1 DEF D!AnswerInv
    <3>3. v12' \in SUBSET OfDhcp.Files /\ v13' \in Nat
      BY <1>0, <3>1 DEF D!TypeOK, D!PlaceInv
    <3> QED
      BY <3>1, <3>2, <3>3, DhcpReturns
  <2> QED
    BY <1>1, <2>1, DhcpAsk, DhcpOpen, DhcpParser DEF D!Step
<1>2. ASSUME NEW w \in OfDhcp.Workers, D!GiveUp(w) PROVE D!Inv'
  <2>1. /\ v4' = v4 \cup {w}
        /\ UNCHANGED <<v1, v2, v3, v5, v6, v7, v8, v9, v10, v11, v12, v13>>
    BY <1>2 DEF D!GiveUp, D!parser
  <2>2. D!Reading' = D!Reading
    BY <2>1 DEF D!Reading
  <2>3. D!TypeOK'
    BY <1>0, <2>1, <2>2 DEF D!TypeOK
  <2>4. D!PlaceInv'
    BY <1>0, <2>1 DEF D!PlaceInv
  <2>5. D!FetchInv'
    BY <1>0, <2>1 DEF D!FetchInv
  <2>6. D!AnswerInv'
    BY <1>0, <2>1 DEF D!AnswerInv
  <2> QED
    BY <2>3, <2>4, <2>5, <2>6 DEF D!Inv
<1>3. ASSUME NEW f \in OfDhcp.Files, D!Slot(f) PROVE D!Inv'
  <2>1. v12' \in SUBSET OfDhcp.Files /\ v13' \in Nat
    BY <1>0, <1>3 DEF D!Slot, D!TypeOK, D!PlaceInv
  <2>2. CASE v11
    BY <1>3, <2>1, <2>2, DhcpFetches DEF D!Slot, States
  <2>3. CASE ~v11
    BY <1>3, <2>1, <2>3, DhcpFetches DEF D!Slot, States
  <2> QED
    BY <2>2, <2>3
<1>4. ASSUME NEW f \in OfDhcp.Files, D!Read(f) PROVE D!Inv'
  <2>1. PICK how \in D!Outcomes(f) : D!RemoteFile(f, how) /\ v10' = [v10 EXCEPT ![f] = how]
    BY <1>4 DEF D!Read
  <2>2. /\ v12' \in SUBSET OfDhcp.Files /\ v13' \in Nat
        /\ how \in {"ok", "failed", "canceled"} /\ (how = "canceled" => v5 \in v4)
    BY <2>1, DhcpRemote
  <2>3. UNCHANGED <<v1, v2, v3, v4, v5, v6, D!parser, v11>> /\ how \in States
    BY <1>4, <2>2 DEF D!Read, States
  <2> QED
    BY <2>1, <2>2, <2>3, DhcpFetches
<1>5. CASE UNCHANGED D!vars
  <2>1. UNCHANGED <<v1, v2, v3, v4, v5, v6, v7, v8, v9, v10, v11, v12, v13>>
    BY <1>5 DEF D!vars
  <2>2. D!Reading' = D!Reading
    BY <2>1 DEF D!Reading
  <2>3. D!TypeOK'
    BY <1>0, <2>1, <2>2 DEF D!TypeOK
  <2>4. D!PlaceInv'
    BY <1>0, <2>1 DEF D!PlaceInv
  <2>5. D!FetchInv'
    BY <1>0, <2>1 DEF D!FetchInv
  <2>6. D!AnswerInv'
    BY <1>0, <2>1 DEF D!AnswerInv
  <2> QED
    BY <2>3, <2>4, <2>5, <2>6 DEF D!Inv
<1> QED
  BY <1>1, <1>2, <1>3, <1>4, <1>5 DEF D!Next

LEMMA DhcpPromises == D!Inv => D!TypeOK /\ D!KeptIsAnAnswer
<1> SUFFICES ASSUME D!Inv PROVE D!TypeOK /\ D!KeptIsAnAnswer
  OBVIOUS
<1>1. D!TypeOK /\ D!AnswerInv
  BY DEF D!Inv
<1>2. v6.what \in (D!Results \ {"canceled"}) \cup {"none"}
  <2>1. D!None.what = "none"
    BY DEF D!None
  <2> QED
    BY <1>1, <2>1 DEF D!AnswerInv
<1> QED
  BY <1>1, <1>2 DEF D!AnswerInv, D!KeptIsAnAnswer

\* A step of the whole is one of the component, or of another scene.
LEMMA DhcpScene ==
  ASSUME [Next]_vars
  PROVE  /\ scene' = scene
         /\ scene = "dhcp" => [D!Next]_(D!vars)
BY DEF Next, vars, D!vars

\* The invariant of the component is one of the whole.
LEMMA DhcpAlways == Spec => [](scene = "dhcp" => D!Inv)
<1>1. Init => (scene = "dhcp" => D!Inv)
  BY DhcpBegins DEF Init
<1>2. (scene = "dhcp" => D!Inv) /\ [Next]_vars => (scene = "dhcp" => D!Inv)'
  BY DhcpScene, DhcpStep
<1> QED
  BY <1>1, <1>2, PTL DEF Spec

(***************************************************************************)
(* Node groups.  An asker is at a place of its walk through the sources    *)
(* that says what it has found (SoundInv) and whose command it runs        *)
(* (FlightInv, PlaceInv); what is kept is an answer of the source          *)
(* (KeptInv); a union and the groups of a node wait for those they asked   *)
(* and miss none (PoolInv, UnionInv, GroupsInv).                           *)
(*                                                                         *)
(* The registers: v1 asker, v2 kept, v3 flights, v4 held, v5 disk, v6      *)
(* interrupted, v7 defines, v8 wasAbsent, v9 changes.                      *)
(***************************************************************************)
LEMMA LookAssumed == L!LookupsConstants
BY SharedReadsAssumption DEF SharedReadsConstants

\* The sets of L that are finite, and how many elements they have.
LEMMA LookSizes ==
  \A S : (L!IsFiniteSet(S) <=> IsFiniteSet(S)) /\ L!Cardinality(S) = Cardinality(S)
BY DEF L!IsFiniteSet, L!Cardinality, IsFiniteSet, Cardinality

LEMMA LookEmptySet ==
  /\ L!IsFiniteSet({}) /\ L!Cardinality({}) = 0
  /\ \A S : L!IsFiniteSet(S) => (L!Cardinality(S) = 0 <=> S = {})
BY FS_EmptySet, LookSizes

LEMMA LookCardinalityType == \A S : L!IsFiniteSet(S) => L!Cardinality(S) \in Nat
BY FS_CardinalityType, LookSizes

LEMMA LookSubset ==
  ASSUME NEW S, L!IsFiniteSet(S), NEW T \in SUBSET S
  PROVE  /\ L!IsFiniteSet(T) /\ L!Cardinality(T) <= L!Cardinality(S)
         /\ L!Cardinality(S) = L!Cardinality(T) => S = T
BY FS_Subset, LookSizes

LEMMA LookAddElement ==
  ASSUME NEW S, NEW x, L!IsFiniteSet(S)
  PROVE  /\ L!IsFiniteSet(S \cup {x})
         /\ L!Cardinality(S \cup {x}) =
              IF x \in S THEN L!Cardinality(S) ELSE L!Cardinality(S) + 1
<1>1. IsFiniteSet(S)
  BY LookSizes
<1>2. /\ IsFiniteSet(S \cup {x})
      /\ Cardinality(S \cup {x}) = IF x \in S THEN Cardinality(S) ELSE Cardinality(S) + 1
  BY <1>1, FS_AddElement
<1> QED
  BY <1>2, LookSizes, Zenon

LEMMA LookSingleton ==
  /\ \A x : L!IsFiniteSet({x}) /\ L!Cardinality({x}) = 1
  /\ \A S : L!IsFiniteSet(S) => (L!Cardinality(S) = 1 <=> \E x : S = {x})
BY FS_Singleton, LookSizes

LEMMA LookProduct ==
  ASSUME NEW S, L!IsFiniteSet(S), NEW T, L!IsFiniteSet(T)
  PROVE  L!IsFiniteSet(S \X T)
BY FS_Product, LookSizes

LEMMA LookUnion ==
  ASSUME NEW S, L!IsFiniteSet(S), NEW T, L!IsFiniteSet(T)
  PROVE  L!IsFiniteSet(S \cup T)
BY FS_Union, LookSizes

\* What is assumed of the constants.
LEMMA LookConstants ==
  /\ OfGroups.Order \in Seq(L!Sources) /\ Len(OfGroups.Order) \in Nat \ {0}
  /\ DOMAIN OfGroups.Order = 1..Len(OfGroups.Order)
  /\ \A i \in DOMAIN OfGroups.Order : OfGroups.Order[i] \in L!Sources
  /\ \A i, j \in DOMAIN OfGroups.Order : OfGroups.Order[i] = OfGroups.Order[j] => i = j
  /\ OfGroups.Limit \in Nat \ {0} /\ L!IsFiniteSet(L!Askers)
  /\ OfGroups.Callers \cap L!Children = {} /\ L!Bare \notin L!Sources
  /\ OfGroups.Static \subseteq L!Sources /\ OfGroups.Listing \subseteq L!Sources
  /\ OfGroups.Alls \subseteq L!Sources /\ OfGroups.Cached \subseteq L!Sources
  /\ OfGroups.Static \cap (OfGroups.Listing \cup OfGroups.Alls \cup OfGroups.Cached) = {}
  /\ \A s \in L!Sources \ OfGroups.Static : OfGroups.Path[s] \in Seq(Nat) \ {<<>>}
  /\ OfGroups.Fickle \subseteq (L!Sources \ OfGroups.Static) \X OfGroups.Groups
<1>1. OfGroups.Order \in Seq(L!Sources) /\ OfGroups.Order # <<>>
  BY LookAssumed DEF L!LookupsConstants
<1>2. Len(OfGroups.Order) \in Nat \ {0} /\ DOMAIN OfGroups.Order = 1..Len(OfGroups.Order)
  BY <1>1, EmptySeq, LenProperties
<1>3. \A i \in DOMAIN OfGroups.Order : OfGroups.Order[i] \in L!Sources
  BY <1>1, <1>2
<1>4. L!IsFiniteSet(OfGroups.Callers) /\ L!IsFiniteSet(OfGroups.Groups)
  BY LookAssumed DEF L!LookupsConstants
<1>5. L!IsFiniteSet(L!Children)
  BY <1>4, LookProduct DEF L!Children
<1>6. L!IsFiniteSet(L!Askers)
  BY <1>4, <1>5, LookUnion DEF L!Askers
<1> QED
  BY <1>1, <1>2, <1>3, <1>6, LookAssumed DEF L!LookupsConstants

\* The stacks of lookups, which are one within another at most.
LEMMA LookStacks ==
  ASSUME NEW k, NEW l
  PROVE  /\ Append(<<>>, k) = <<k>> /\ Len(<<k>>) = 1 /\ L!Last(<<k>>) = k /\ L!Front(<<k>>) = <<>>
         /\ Append(<<k>>, l) = <<k, l>> /\ Len(<<k, l>>) = 2 /\ L!Last(<<k, l>>) = l
         /\ L!Front(<<k, l>>) = <<k>> /\ Len(<<>>) = 0
         /\ <<k>> # <<>> /\ <<k, l>> # <<>> /\ \A m : <<k, l>> # <<m>>
<1> DEFINE S == {k, l}
<1>0. /\ <<>> \in Seq(S) /\ <<k>> \in Seq(S) /\ <<k, l>> \in Seq(S) /\ k \in S /\ l \in S
      /\ Len(<<>>) = 0 /\ Len(<<k>>) = 1 /\ Len(<<k, l>>) = 2
      /\ <<k>>[1] = k /\ <<k, l>>[1] = k /\ <<k, l>>[2] = l
  OBVIOUS
<1> HIDE DEF S
<1>1. Append(<<>>, k) = <<k>> /\ Append(<<k>>, l) = <<k, l>>
  <2>1. /\ Append(<<>>, k) \in Seq(S) /\ Len(Append(<<>>, k)) = 1 /\ Append(<<>>, k)[1] = k
    BY <1>0, AppendProperties
  <2>2. /\ Append(<<k>>, l) \in Seq(S) /\ Len(Append(<<k>>, l)) = 2
        /\ Append(<<k>>, l)[1] = k /\ Append(<<k>>, l)[2] = l
    BY <1>0, AppendProperties
  <2>3. Append(<<>>, k) = <<k>>
    BY <1>0, <2>1, SeqEqual
  <2>4. Append(<<k>>, l) = <<k, l>>
    <3> DEFINE t == Append(<<k>>, l)
    <3>1. \A i \in 1..Len(t) : t[i] = <<k, l>>[i]
      BY <1>0, <2>2
    <3> HIDE DEF t
    <3> QED
      BY <1>0, <2>2, <3>1, SeqEqual DEF t
  <2> QED
    BY <2>3, <2>4
<1>2. Len(<<k>>) = 1 /\ L!Last(<<k>>) = k /\ Len(<<k, l>>) = 2 /\ L!Last(<<k, l>>) = l
      /\ Len(<<>>) = 0
  BY <1>0 DEF L!Last
<1>3. L!Front(<<k>>) = <<>> /\ L!Front(<<k, l>>) = <<k>>
  <2>1. L!Front(<<k>>) = <<>>
    BY <1>0, SubSeqEmpty DEF L!Front
  <2>2. L!Front(<<k, l>>) = SubSeq(<<k, l>>, 1, 1)
    BY <1>0 DEF L!Front
  <2>3. /\ SubSeq(<<k, l>>, 1, 1) \in Seq(S) /\ Len(SubSeq(<<k, l>>, 1, 1)) = 1
        /\ SubSeq(<<k, l>>, 1, 1)[1] = k
    BY <1>0, SubSeqProperties
  <2>4. SubSeq(<<k, l>>, 1, 1) = <<k>>
    <3> DEFINE t == SubSeq(<<k, l>>, 1, 1)
    <3>1. t \in Seq(S) /\ Len(t) = 1 /\ t[1] = k
      BY <2>3
    <3> HIDE DEF t
    <3>2. t = <<k>>
      BY <1>0, <3>1, SeqEqual
    <3> QED
      BY <3>2 DEF t
  <2> QED
    BY <2>1, <2>2, <2>4
<1>4. <<k>> # <<>> /\ <<k, l>> # <<>> /\ \A m : Len(<<m>>) = 1
  BY <1>2
<1> QED
  BY <1>1, <1>2, <1>3, <1>4

LEMMA LookFlown ==
  ASSUME NEW x, NEW k, NEW l
  PROVE  /\ x.stack = <<>> => L!Flown(x) = {}
         /\ x.stack = <<k>> /\ x.pc \in {"ask", "wait"} => L!Flown(x) = {}
         /\ x.stack = <<k>> /\ x.pc \notin {"ask", "wait"} => L!Flown(x) = {k}
         /\ x.stack = <<k, l>> /\ x.pc \in {"ask", "wait"} => L!Flown(x) = {k}
         /\ x.stack = <<k, l>> /\ x.pc \notin {"ask", "wait"} => L!Flown(x) = {k, l}
<1> DEFINE n == IF x.pc \in {"ask", "wait"} THEN Len(x.stack) - 1 ELSE Len(x.stack)
<1>1. L!Flown(x) = {x.stack[i] : i \in 1..n}
  BY DEF L!Flown
<1>2. Len(<<>>) = 0 /\ Len(<<k>>) = 1 /\ Len(<<k, l>>) = 2 /\ <<k>>[1] = k /\ <<k, l>>[1] = k
      /\ <<k, l>>[2] = l
  OBVIOUS
<1>3. /\ x.pc \in {"ask", "wait"} => n = Len(x.stack) - 1
      /\ x.pc \notin {"ask", "wait"} => n = Len(x.stack)
  OBVIOUS
<1> HIDE DEF n
<1>4. ASSUME x.stack = <<>> PROVE L!Flown(x) = {}
  <2>1. n = 0 \/ n = 0 - 1
    BY <1>2, <1>3, <1>4
  <2> QED
    BY <2>1, <1>1
<1>5. ASSUME x.stack = <<k>>, x.pc \in {"ask", "wait"} PROVE L!Flown(x) = {}
  <2>1. n = 0
    BY <1>2, <1>3, <1>5
  <2> QED
    BY <2>1, <1>1
<1>6. ASSUME x.stack = <<k>>, x.pc \notin {"ask", "wait"} PROVE L!Flown(x) = {k}
  <2>1. n = 1
    BY <1>2, <1>3, <1>6
  <2>2. 1..n = {1}
    BY <2>1
  <2> QED
    BY <2>2, <1>1, <1>2, <1>6
<1>7. ASSUME x.stack = <<k, l>>, x.pc \in {"ask", "wait"} PROVE L!Flown(x) = {k}
  <2>1. n = 1
    BY <1>2, <1>3, <1>7
  <2>2. 1..n = {1}
    BY <2>1
  <2> QED
    BY <2>2, <1>1, <1>2, <1>7
<1>8. ASSUME x.stack = <<k, l>>, x.pc \notin {"ask", "wait"} PROVE L!Flown(x) = {k, l}
  <2>1. n = 2
    BY <1>2, <1>3, <1>8
  <2>2. 1..n = {1, 2}
    BY <2>1
  <2> QED
    BY <2>2, <1>1, <1>2, <1>8
<1> QED
  BY <1>4, <1>5, <1>6, <1>7, <1>8

\* The keys of an asker.
LEMMA LookGoal ==
  ASSUME NEW a \in L!Askers, NEW x \in L!AskerStates, L!Aims(a, x),
         x.pc # "idle" \/ a \in OfGroups.Callers
  PROVE  /\ L!Goal(x) \in L!Keys /\ L!ListingOf(L!Goal(x)) \in L!Keys
            /\ (L!Nests(L!Goal(x)) => L!ListingOf(L!Goal(x)) # L!Goal(x))
         /\ L!ListingOf(L!Goal(x)).source = L!Goal(x).source
         /\ L!Goal(x).kind = "map" => L!ListingOf(L!Goal(x)).kind = "fresh_list"
         /\ L!Goal(x).kind # "map" => L!ListingOf(L!Goal(x)).kind = "list"
         /\ x.op.kind = "expr" =>
              /\ L!Goal(x).kind = "map" /\ L!Goal(x).source = L!SourceOf(x)
              /\ L!Goal(x).group = x.op.refs[x.ref].group
              /\ x.ref \in DOMAIN x.op.refs /\ x.op.refs[x.ref] \in L!Refs
              /\ x.op.refs[x.ref].source = L!Bare => L!SourceOf(x) = OfGroups.Order[x.at]
              /\ x.op.refs[x.ref].source # L!Bare => L!SourceOf(x) = x.op.refs[x.ref].source
         /\ x.op.kind = "all" => L!Goal(x) = L!cacheKey(x.op.source, "all", L!NoGroup)
         /\ x.op.kind = "groups_of"
            => L!Goal(x) = L!cacheKey(OfGroups.Order[x.at], "list", L!NoGroup)
         /\ x.op.kind \in {"expr", "all", "groups_of"}
<1>0. x.op \in L!Operations /\ x.op.refs \in Seq(L!Refs)
      /\ x.op.kind \in {"expr", "all", "groups_of"}
  BY DEF L!AskerStates, L!Operations
<1>1. DOMAIN x.op.refs = 1..Len(x.op.refs) /\ Len(x.op.refs) \in Nat
  BY <1>0, LenProperties
<1>2. OfGroups.Order[x.at] \in L!Sources
  BY LookConstants DEF L!Aims
<1>3. CASE x.op.kind = "expr"
  <2>1. x.ref \in DOMAIN x.op.refs
    BY <1>1, <1>3 DEF L!Aims, L!Askers
  <2>2. x.op.refs[x.ref] \in L!Refs
    BY <1>0, <1>1, <2>1
  <2>3. /\ x.op.refs[x.ref].source = L!Bare => L!SourceOf(x) = OfGroups.Order[x.at]
        /\ x.op.refs[x.ref].source # L!Bare => L!SourceOf(x) = x.op.refs[x.ref].source
    BY DEF L!SourceOf
  <2>4. L!SourceOf(x) \in L!Sources /\ x.op.refs[x.ref].group \in OfGroups.Groups
    BY <1>2, <2>2, <2>3 DEF L!Refs
  <2>5. L!Goal(x) = L!cacheKey(L!SourceOf(x), "map", x.op.refs[x.ref].group)
    BY <1>3 DEF L!Goal
  <2> QED
    BY <1>3, <2>1, <2>2, <2>3, <2>4, <2>5 DEF L!ListingOf, L!cacheKey, L!Keys, L!Nests
<1>4. CASE x.op.kind = "all"
  <2>1. L!Goal(x) = L!cacheKey(x.op.source, "all", L!NoGroup) /\ x.op.source \in L!Sources
    BY <1>4 DEF L!Goal, L!Aims
  <2> QED
    BY <1>4, <2>1 DEF L!ListingOf, L!cacheKey, L!Keys, L!Nests
<1>5. CASE x.op.kind = "groups_of"
  <2>1. L!Goal(x) = L!cacheKey(OfGroups.Order[x.at], "list", L!NoGroup)
    BY <1>5 DEF L!Goal
  <2> QED
    BY <1>5, <2>1, <1>2 DEF L!ListingOf, L!cacheKey, L!Keys, L!Nests
<1> QED
  BY <1>0, <1>3, <1>4, <1>5

\* The answers that are errors, and the one that is none.
LEMMA LookErrors ==
  /\ \A what \in L!Errors : L!Error(what) \in L!Answers /\ L!Error(what).what = what
     /\ L!Error(what).names = {}
  /\ L!NoAnswer \in L!Answers /\ L!NoAnswer.what = "none"
  /\ \A names \in SUBSET OfGroups.Groups : L!Listed(names) \in L!Answers
     /\ L!Listed(names).what = "ok" /\ L!Listed(names).names = names
  /\ \A s \in L!Sources : L!Found(s) \in L!Answers /\ L!Found(s).what = "ok" /\ L!Found(s).from = s
BY DEF L!NoAnswer, L!Error, L!Answer, L!Answers, L!Errors, L!Listed, L!Found

\* What was said stays so, while more is kept and more was absent.
LEMMA LookMore ==
  ASSUME NEW x, NEW K, NEW M, NEW W, NEW V, W \subseteq V,
         \A k \in DOMAIN K : k \in DOMAIN M /\ M[k] = K[k]
  PROVE  /\ \A k, r : L!IsTrue(k, r, W) => L!IsTrue(k, r, V)
         /\ \A k, r : L!Stands(k, r, K, W) => L!Stands(k, r, M, V)
         /\ L!Told(x, K, W) => L!Told(x, M, V)
         /\ \A a : L!Sound(a, x, K, W) => L!Sound(a, x, M, V)
<1>1. \A k, r : L!IsTrue(k, r, W) => L!IsTrue(k, r, V)
  BY DEF L!IsTrue
<1>2. \A k, r : L!Stands(k, r, K, W) => L!Stands(k, r, M, V)
  BY <1>1 DEF L!Stands
<1>3. L!IsAnswered(x, W) => L!IsAnswered(x, V)
  BY DEF L!IsAnswered
<1>4. L!Told(x, K, W) => L!Told(x, M, V)
  BY <1>2, <1>3 DEF L!Told
<1> QED
  BY <1>1, <1>2, <1>4 DEF L!Sound

\* The fields of an asker that was told an answer.
LEMMA LookReturned ==
  ASSUME NEW x \in L!AskerStates, NEW r
  PROVE  LET y == L!Returned(x, r) IN
         /\ y.pc = "ret" /\ y.ret = r /\ y.stack = L!Front(x.stack) /\ y.op = x.op /\ y.ref = x.ref
         /\ y.at = x.at /\ y.first = x.first /\ y.found = x.found /\ y.lost = x.lost
         /\ Len(x.stack) > 1 => y.err = x.err
         /\ ~(Len(x.stack) > 1) => y.err = L!NoAnswer
         /\ r \in L!Answers /\ L!Front(x.stack) \in Seq(L!Keys) => y \in L!AskerStates
         /\ L!Goal(y) = L!Goal(x) /\ L!SourceOf(y) = L!SourceOf(x) /\ (L!Single(y) <=> L!Single(x))
<1> DEFINE y == L!Returned(x, r)
<1>1. L!NoAnswer \in L!Answers
  BY LookErrors
<1>2. /\ y.pc = "ret" /\ y.ret = r /\ y.stack = L!Front(x.stack) /\ y.op = x.op /\ y.ref = x.ref
      /\ y.at = x.at /\ y.first = x.first /\ y.found = x.found /\ y.lost = x.lost
      /\ Len(x.stack) > 1 => y.err = x.err
      /\ ~(Len(x.stack) > 1) => y.err = L!NoAnswer
  BY DEF L!Returned, L!AskerStates
<1>3. r \in L!Answers /\ L!Front(x.stack) \in Seq(L!Keys) => y \in L!AskerStates
  <2> SUFFICES ASSUME r \in L!Answers, L!Front(x.stack) \in Seq(L!Keys) PROVE y \in L!AskerStates
    OBVIOUS
  <2> DEFINE e == IF Len(x.stack) > 1 THEN x.err ELSE L!NoAnswer
  <2>1. e \in L!Answers
    BY <1>1 DEF L!AskerStates
  <2>2. y = [x EXCEPT !.pc = "ret", !.ret = r, !.err = e, !.stack = L!Front(x.stack)]
    BY DEF L!Returned, L!AskerStates
  <2> HIDE DEF e, y
  <2> QED
    BY <2>1, <2>2 DEF L!AskerStates, L!PCs
<1>4. L!SourceOf(y) = L!SourceOf(x)
  BY <1>2 DEF L!SourceOf
<1>5. L!Goal(y) = L!Goal(x) /\ (L!Single(y) <=> L!Single(x))
  BY <1>2, <1>4 DEF L!Goal, L!Single
<1> QED
  BY <1>2, <1>3, <1>4, <1>5

\* An asker that is told what it asked for is sound.
LEMMA LookTold ==
  ASSUME NEW a \in L!Askers, NEW x \in L!AskerStates, NEW r, NEW K, NEW W, L!Sound(a, x, K, W),
         x.stack # <<>>, L!Stands(L!Last(x.stack), r, K, W)
  PROVE  /\ L!Returned(x, r) \in L!AskerStates /\ L!Sound(a, L!Returned(x, r), K, W)
         /\ L!Flown(L!Returned(x, r)) = L!Flown(x) \ {L!Last(x.stack)}
<1> DEFINE y == L!Returned(x, r)
           k == L!Goal(x)
<1>0. L!Aims(a, x) /\ L!Nested(x) /\ L!Told(x, K, W) /\ r \in L!Answers /\ r.what # "none"
  BY DEF L!Sound, L!Stands, L!IsTrue
<1>1. x.pc \in L!Looking \cup {"ret", "pool"}
  BY <1>0 DEF L!Nested
<1>2. /\ k \in L!Keys /\ L!ListingOf(k) \in L!Keys /\ (L!Nests(k) => L!ListingOf(k) # k)
  BY <1>0, <1>1, LookGoal DEF L!Looking
<1>3. /\ y.pc = "ret" /\ y.ret = r /\ y.stack = L!Front(x.stack) /\ y.op = x.op /\ y.ref = x.ref
      /\ y.at = x.at /\ (Len(x.stack) > 1 => y.err = x.err)
      /\ r \in L!Answers /\ L!Front(x.stack) \in Seq(L!Keys) => y \in L!AskerStates
      /\ L!Goal(y) = k /\ (L!Single(y) <=> L!Single(x))
  BY LookReturned
<1> HIDE DEF y, k
<1>4. \/ /\ x.stack = <<k>> /\ L!Last(x.stack) = k /\ y.stack = <<>>
      \/ /\ x.stack = <<k, L!ListingOf(k)>> /\ L!Last(x.stack) = L!ListingOf(k) /\ y.stack = <<k>>
         /\ L!Nests(k) /\ Len(x.stack) = 2 /\ x.pc \in L!Looking
  <2>1. CASE x.stack = <<k>>
    BY <1>3, <2>1, LookStacks
  <2>2. CASE x.stack = <<k, L!ListingOf(k)>> /\ L!Nests(k) /\ x.pc \in L!Looking
    <3>1. /\ L!Last(<<k, L!ListingOf(k)>>) = L!ListingOf(k)
          /\ L!Front(<<k, L!ListingOf(k)>>) = <<k>>
          /\ Len(<<k, L!ListingOf(k)>>) = 2
      BY LookStacks
    <3> QED
      BY <1>3, <2>2, <3>1
  <2>3. \/ x.stack = <<k>>
        \/ x.stack = <<k, L!ListingOf(k)>> /\ L!Nests(k) /\ x.pc \in L!Looking
    BY <1>0 DEF L!Nested, k
  <2> QED
    BY <2>1, <2>2, <2>3
<1>5. y \in L!AskerStates
  <2>1. <<>> \in Seq(L!Keys) /\ <<k>> \in Seq(L!Keys)
    BY <1>2
  <2> QED
    BY <1>0, <1>3, <1>4, <2>1
<1>6. L!Aims(a, y)
  BY <1>0, <1>1, <1>3 DEF L!Aims, L!Looking
<1>7. L!Nested(y)
  BY <1>3, <1>4 DEF L!Nested, L!Looking
<1>8. L!Told(y, K, W)
  <2>1. y.stack = <<>> => L!Stands(k, r, K, W)
    BY <1>4, LookStacks
  <2>2. y.stack # <<>> => L!Stands(L!ListingOf(k), r, K, W)
    BY <1>4
  <2>3. y.op.kind = "expr" /\ (Len(y.stack) = 2 \/ y.stack # <<>>)
        => y.err.what \in {"failed", "canceled"}
    <3>1. y.stack = <<>> => Len(y.stack) # 2
      BY LookStacks
    <3>2. y.stack # <<>> => Len(x.stack) = 2
      BY <1>4
    <3>3. Len(x.stack) = 2 => y.err = x.err
      BY <1>3
    <3>4. x.op.kind = "expr" /\ Len(x.stack) = 2 => x.err.what \in {"failed", "canceled"}
      BY <1>0 DEF L!Told
    <3> QED
      BY <1>3, <3>1, <3>2, <3>3, <3>4
  <2> QED
    BY <1>0, <1>3, <2>1, <2>2, <2>3 DEF L!Told
<1>9. L!Flown(y) = L!Flown(x) \ {L!Last(x.stack)}
  <2>1. CASE x.stack = <<k>> /\ y.stack = <<>> /\ L!Last(x.stack) = k
    <3>1. L!Flown(y) = {} /\ L!Flown(x) \subseteq {k}
      BY <2>1, LookFlown
    <3> QED
      BY <2>1, <3>1
  <2>2. CASE x.stack = <<k, L!ListingOf(k)>> /\ y.stack = <<k>>
             /\ L!Last(x.stack) = L!ListingOf(k) /\ L!Nests(k)
    <3>1. L!Flown(y) = {k} /\ L!Flown(x) \in {{k}, {k, L!ListingOf(k)}}
      BY <2>2, <1>3, LookFlown
    <3> QED
      BY <2>2, <3>1, <1>2
  <2> QED
    BY <1>4, <2>1, <2>2
<1> QED
  BY <1>5, <1>6, <1>7, <1>8, <1>9 DEF y, L!Sound

\* What a step of an asker leaves as it is.
Same(x, y) ==
  y.op = x.op /\ y.ref = x.ref /\ y.at = x.at /\ y.first = x.first /\ y.found = x.found
    /\ y.lost = x.lost

FliesNot(y) == L!Flown(y) = {}
FliesFor(y, k) == L!Flown(y) = {k}

\* An asker that asks for what it is after.
LEMMA LookAsks ==
  ASSUME NEW a \in L!Askers, NEW x \in L!AskerStates, NEW K, NEW W,
         L!Aims(a, [x EXCEPT !.pc = "ask"]),
         x.stack = <<>>,
         L!Single(x) /\ x.op.refs[1].source = L!Bare =>
           \A i \in 1..(x.at - 1) : <<OfGroups.Order[i], x.op.refs[1].group>> \in W
  PROVE  LET y == L!Asking(x, L!Goal(x)) IN
         /\ y \in L!AskerStates /\ L!Sound(a, y, K, W) /\ FliesNot(y) /\ y.pc = "ask" /\ Same(x, y)
<1> DEFINE y == L!Asking(x, L!Goal(x))
           z == [x EXCEPT !.pc = "ask"]
<1>1. L!NoAnswer \in L!Answers
  BY LookErrors
<1>2. /\ y.pc = "ask" /\ y.ret = L!NoAnswer /\ y.stack = Append(x.stack, L!Goal(x)) /\ y.op = x.op
      /\ y.ref = x.ref /\ y.at = x.at /\ y.first = x.first /\ y.found = x.found /\ y.lost = x.lost
      /\ z \in L!AskerStates /\ z.pc = "ask" /\ z.op = x.op /\ z.ref = x.ref /\ z.at = x.at
      /\ y.stack \in Seq(L!Keys) => y \in L!AskerStates
  BY <1>1 DEF L!Asking, L!AskerStates, L!PCs
<1> HIDE DEF y, z
<1>3. L!SourceOf(y) = L!SourceOf(x) /\ L!SourceOf(z) = L!SourceOf(x)
  BY <1>2 DEF L!SourceOf
<1>4. L!Goal(y) = L!Goal(x) /\ L!Goal(z) = L!Goal(x) /\ (L!Single(y) <=> L!Single(x))
  BY <1>2, <1>3 DEF L!Goal, L!Single
<1>5. L!Aims(a, z)
  BY DEF z
<1>6. L!Goal(x) \in L!Keys
  BY <1>2, <1>4, <1>5, LookGoal
<1>7. y.stack = <<L!Goal(x)>>
  BY <1>2, LookStacks
<1>8. y \in L!AskerStates
  BY <1>2, <1>6, <1>7
<1>9. L!Aims(a, y)
  BY <1>2, <1>5 DEF L!Aims
<1>10. L!Nested(y)
  BY <1>2, <1>4, <1>7 DEF L!Nested, L!Looking
<1>11. L!Told(y, K, W)
  <2>1. Len(y.stack) # 2
    BY <1>7, LookStacks
  <2> QED
    BY <1>2, <1>4, <2>1 DEF L!Told
<1>12. L!Flown(y) = {}
  BY <1>2, <1>7, LookFlown
<1> QED
  BY <1>2, <1>4, <1>7, <1>8, <1>9, <1>10, <1>11, <1>12 DEF y, L!Sound, FliesNot, Same

\* A lookup that needs a listing asks for it.
AsksForListing(x, e) == [L!Asking(x, L!ListingOf(L!Goal(x))) EXCEPT !.err = e]

LEMMA LookNests ==
  ASSUME NEW a \in L!Askers, NEW x \in L!AskerStates, NEW K, NEW W, NEW e \in L!Answers,
         L!Sound(a, x, K, W), x.stack = <<L!Goal(x)>>, x.pc \in L!Looking \ {"wait"},
           L!Nests(L!Goal(x)),
         x.op.kind = "expr" => e.what \in {"failed", "canceled"}
  PROVE  LET y == AsksForListing(x, e) IN
         /\ y \in L!AskerStates /\ L!Sound(a, y, K, W) /\ FliesFor(y, L!Goal(x)) /\ y.pc = "ask"
         /\ Same(x, y)
<1> DEFINE y == AsksForListing(x, e)
<1>0. L!Aims(a, x) /\ L!Told(x, K, W)
  BY DEF L!Sound
<1>1. L!NoAnswer \in L!Answers
  BY LookErrors
<1>2. /\ y.pc = "ask" /\ y.ret = L!NoAnswer /\ y.stack = Append(x.stack, L!ListingOf(L!Goal(x)))
      /\ y.err = e /\ y.op = x.op
      /\ y.ref = x.ref /\ y.at = x.at /\ y.first = x.first /\ y.found = x.found /\ y.lost = x.lost
      /\ y.stack \in Seq(L!Keys) => y \in L!AskerStates
  BY <1>1 DEF AsksForListing, L!Asking, L!AskerStates, L!PCs
<1> HIDE DEF y
<1>3. L!SourceOf(y) = L!SourceOf(x)
  BY <1>2 DEF L!SourceOf
<1>4. L!Goal(y) = L!Goal(x) /\ (L!Single(y) <=> L!Single(x))
  BY <1>2, <1>3 DEF L!Goal, L!Single
<1>6. L!Goal(x) \in L!Keys /\ L!ListingOf(L!Goal(x)) \in L!Keys
  BY <1>0, LookGoal DEF L!Looking
<1>7. y.stack = <<L!Goal(x), L!ListingOf(L!Goal(x))>>
  BY <1>2, LookStacks
<1>8. y \in L!AskerStates
  BY <1>2, <1>6, <1>7
<1>9. L!Aims(a, y)
  BY <1>0, <1>2 DEF L!Aims, L!Looking
<1>10. L!Nested(y)
  BY <1>2, <1>4, <1>7 DEF L!Nested, L!Looking
<1>11. L!Told(y, K, W)
  BY <1>0, <1>2, <1>4 DEF L!Told
<1>12. L!Flown(y) = {L!Goal(x)}
  BY <1>2, <1>7, LookFlown
<1> QED
  BY <1>2, <1>8, <1>9, <1>10, <1>11, <1>12 DEF y, L!Sound, FliesFor, Same

\* One step of a lookup under way.
LEMMA LookMoves ==
  ASSUME NEW a \in L!Askers, NEW x \in L!AskerStates, NEW K, NEW W, L!Sound(a, x, K, W),
         x.pc \in L!Looking, NEW p \in L!Looking
  PROVE  LET y == [x EXCEPT !.pc = p] IN
         /\ y \in L!AskerStates /\ L!Sound(a, y, K, W)
         /\ (x.pc \in {"ask", "wait"} <=> p \in {"ask", "wait"}) => L!Flown(y) = L!Flown(x)
         /\ x.pc = "ask" /\ p = "place" => L!Flown(y) = L!Flown(x) \cup {L!Last(x.stack)}
         /\ y.pc = p /\ y.stack = x.stack /\ y.op = x.op /\ y.ref = x.ref /\ y.at = x.at
         /\ y.first = x.first /\ y.found = x.found /\ y.lost = x.lost
<1> DEFINE y == [x EXCEPT !.pc = p]
<1>0. L!Aims(a, x) /\ L!Told(x, K, W) /\ L!Nested(x)
  BY DEF L!Sound
<1>2. /\ y.pc = p /\ y.ret = x.ret /\ y.stack = x.stack /\ y.err = x.err /\ y.op = x.op
      /\ y.ref = x.ref /\ y.at = x.at /\ y.first = x.first /\ y.found = x.found /\ y.lost = x.lost
      /\ y \in L!AskerStates
  BY DEF L!AskerStates, L!PCs, L!Looking
<1> HIDE DEF y
<1>3. L!SourceOf(y) = L!SourceOf(x)
  BY <1>2 DEF L!SourceOf
<1>4. L!Goal(y) = L!Goal(x) /\ (L!Single(y) <=> L!Single(x))
  BY <1>2, <1>3 DEF L!Goal, L!Single
<1>5. L!Aims(a, y)
  BY <1>0, <1>2 DEF L!Aims, L!Looking
<1>6. L!Nested(y)
  BY <1>0, <1>2, <1>4 DEF L!Nested, L!Looking
<1>7. L!Told(y, K, W)
  BY <1>0, <1>2, <1>4 DEF L!Told, L!Looking
<1>8. ASSUME x.pc \in {"ask", "wait"} <=> p \in {"ask", "wait"} PROVE L!Flown(y) = L!Flown(x)
  BY <1>2, <1>8 DEF L!Flown
<1>9. ASSUME x.pc = "ask", p = "place" PROVE L!Flown(y) = L!Flown(x) \cup {L!Last(x.stack)}
  <2>1. CASE x.stack = <<L!Goal(x)>>
    <3>1. L!Flown(x) = {} /\ L!Flown(y) = {L!Goal(x)} /\ L!Last(x.stack) = L!Goal(x)
      BY <1>2, <1>9, <2>1, LookFlown, LookStacks
    <3> QED
      BY <3>1
  <2>2. CASE x.stack = <<L!Goal(x), L!ListingOf(L!Goal(x))>>
    <3>0. x.pc \in {"ask", "wait"} /\ y.pc \notin {"ask", "wait"} /\ y.stack = x.stack
      BY <1>2, <1>9
    <3>1. /\ L!Flown(x) = {L!Goal(x)} /\ L!Flown(y) = {L!Goal(x), L!ListingOf(L!Goal(x))}
      BY <3>0, <2>2, LookFlown
    <3>2. L!Last(<<L!Goal(x), L!ListingOf(L!Goal(x))>>) = L!ListingOf(L!Goal(x))
      BY LookStacks
    <3>3. L!Last(x.stack) = L!ListingOf(L!Goal(x))
      BY <2>2, <3>2
    <3> QED
      BY <3>1, <3>3
  <2> QED
    BY <1>0, <1>9, <2>1, <2>2 DEF L!Nested, L!Looking
<1> QED
  BY <1>2, <1>5, <1>6, <1>7, <1>8, <1>9 DEF y, L!Sound

\* A step of an asker that works; and what is kept when more is.
Works(x, y) == Same(x, y) /\ (y = x \/ {x.pc, y.pc} \subseteq L!Looking \cup {"ret"})
Keeping(K, M) == \A k \in DOMAIN K : k \in DOMAIN M /\ M[k] = K[k]

LEMMA LookAskers ==
  /\ \A c \in OfGroups.Callers : c \in L!Askers
  /\ \A c \in OfGroups.Callers : \A g \in OfGroups.Groups : <<c, g>> \in L!Children
     /\ L!Parent(<<c, g>>) = c
  /\ \A a \in L!Children : a \in L!Askers /\ a \notin OfGroups.Callers
  /\ \A a \in L!Children : L!Parent(a) \in OfGroups.Callers /\ a[2] \in OfGroups.Groups
     /\ a = <<L!Parent(a), a[2]>>
<1>1. /\ \A c \in OfGroups.Callers : c \in L!Askers
      /\ \A c \in OfGroups.Callers : \A g \in OfGroups.Groups : <<c, g>> \in L!Children
         /\ L!Parent(<<c, g>>) = c
  BY DEF L!Askers, L!Children, L!Parent
<1>2. /\ \A a \in L!Children : a \in L!Askers
      /\ \A a \in L!Children : L!Parent(a) \in OfGroups.Callers /\ a[2] \in OfGroups.Groups
         /\ a = <<L!Parent(a), a[2]>>
  BY DEF L!Askers, L!Children, L!Parent
<1> QED
  BY <1>1, <1>2, LookConstants

\* What askers that work leave as it is.
LEMMA LookWorks ==
  ASSUME L!Inv, \A a \in L!Askers : Works(v1[a], v1'[a]),
         v6' = v6, v7' = v7, v8' = v8, Keeping(v2, v2')
  PROVE  L!PoolInv' /\ L!UnionInv' /\ L!GroupsInv'
<1>0. L!PoolInv /\ L!UnionInv /\ L!GroupsInv
  BY DEF L!Inv
<1>1. \A a \in L!Askers : /\ Same(v1[a], v1'[a])
                          /\ v1[a].pc \in {"idle", "over", "pool", "ready", "source"}
                             => v1'[a] = v1[a]
                          /\ v1'[a].pc \in {"idle", "over", "pool", "ready", "source"}
                             => v1'[a] = v1[a]
                          /\ v1'[a].pc \in L!Looking \cup {"ret"}
                             => v1[a].pc \in L!Looking \cup {"ret"}
  BY DEF Works, L!Looking
<1>2. L!PoolInv'
  <2> SUFFICES ASSUME NEW a \in L!Children
               PROVE  /\ \/ v1'[a].pc \in {"idle", "over"} \/ v1'[L!Parent(a)].pc = "pool"
                         \/ v1'[a].pc = "ready" /\ v6'
                      /\ L!Single(v1'[L!Parent(a)]) => v1'[a].pc = "idle"
    BY DEF L!PoolInv
  <2>1. a \in L!Askers /\ L!Parent(a) \in L!Askers
    BY LookAskers
  <2>2. L!Single(v1'[L!Parent(a)]) => L!Single(v1[L!Parent(a)])
    BY <1>1, <2>1 DEF L!Single, Same
  <2> QED
    BY <1>0, <1>1, <2>1, <2>2 DEF L!PoolInv
<1>3. L!UnionInv'
  <2>1. \A c \in OfGroups.Callers : v1'[c].first = L!NoAnswer
        \/ v1'[c].first.what \notin {"ok", "none"}
    BY <1>0, <1>1, LookAskers DEF L!UnionInv, Same
  <2>2. ASSUME NEW c \in OfGroups.Callers, v1'[c].pc = "pool", v1'[c].op.kind = "all",
               NEW s, s = v1'[c].op.source, NEW list, list = L!cacheKey(s, "list", L!NoGroup)
        PROVE  /\ s \in OfGroups.Static => L!Items(c)' = {g \in OfGroups.Groups : <<s, g>> \in v7'}
               /\ s \notin OfGroups.Static => list \in DOMAIN v2' /\ L!Items(c)' = v2'[list].names
               /\ \A g \in OfGroups.Groups : v1'[<<c, g>>].pc = "over"
                  /\ v1'[<<c, g>>].ret.what # "ok"
                                      => v1'[c].first # L!NoAnswer
    <3>1. v1'[c] = v1[c]
      BY <1>1, <2>2, LookAskers
    <3>2. \A g \in OfGroups.Groups : /\ v1'[<<c, g>>].pc = "idle" <=> v1[<<c, g>>].pc = "idle"
                                     /\ v1'[<<c, g>>].pc = "over" => v1'[<<c, g>>] = v1[<<c, g>>]
      BY <1>1, LookAskers
    <3>3. L!Items(c)' = L!Items(c)
      BY <3>2 DEF L!Items
    <3>5. /\ s \in OfGroups.Static => L!Items(c) = L!Has(s)
          /\ s \notin OfGroups.Static => list \in DOMAIN v2 /\ L!Items(c) = v2[list].names
          /\ \A g \in OfGroups.Groups : v1[<<c, g>>].pc = "over" /\ v1[<<c, g>>].ret.what # "ok"
                                 => v1[c].first # L!NoAnswer
      BY <1>0, <2>2, <3>1 DEF L!UnionInv
    <3>6. list \in DOMAIN v2 => list \in DOMAIN v2' /\ v2'[list] = v2[list]
      BY DEF Keeping
    <3>7. /\ s \in OfGroups.Static => L!Items(c)' = {g \in OfGroups.Groups : <<s, g>> \in v7'}
          /\ s \notin OfGroups.Static => list \in DOMAIN v2' /\ L!Items(c)' = v2'[list].names
      BY <3>3, <3>5, <3>6 DEF L!Has
    <3>8. \A g \in OfGroups.Groups : v1'[<<c, g>>].pc = "over" /\ v1'[<<c, g>>].ret.what # "ok"
                              => v1'[c].first # L!NoAnswer
      BY <3>1, <3>2, <3>5
    <3> QED
      BY <3>7, <3>8
  <2> QED
    BY <2>1, <2>2 DEF L!UnionInv, L!Has
<1>4. L!GroupsInv'
  <2> SUFFICES ASSUME NEW c \in OfGroups.Callers, v1'[c].op.kind = "groups_of"
               PROVE  LET x == v1'[c] IN
                /\ ~x.lost => \A i \in 1..(x.at - 1) : L!Shown(OfGroups.Order[i], x.found, v8')
                /\ ~x.lost /\ x.pc = "over"
                   => L!Shown(OfGroups.Order[x.at], x.found, v8') /\ x.at = Len(OfGroups.Order)
                /\ x.pc = "pool"
                   => L!Shown(OfGroups.Order[x.at], {OfGroups.Order[x.at]} \X L!Items(c)', v8')
                /\ x.pc \in L!Looking \cup {"ret"} => OfGroups.Order[x.at] \in OfGroups.Listing
    BY DEF L!GroupsInv
  <2>1. c \in L!Askers /\ \A g \in OfGroups.Groups : <<c, g>> \in L!Askers
    BY LookAskers
  <2>2. L!Items(c)' = L!Items(c)
    BY <1>1, <2>1 DEF L!Items
  <2>3. /\ ~v1[c].lost => \A i \in 1..(v1[c].at - 1) : L!Shown(OfGroups.Order[i], v1[c].found, v8)
        /\ ~v1[c].lost /\ v1[c].pc = "over" =>
             L!Shown(OfGroups.Order[v1[c].at], v1[c].found, v8) /\ v1[c].at = Len(OfGroups.Order)
        /\ v1[c].pc = "pool"
           => L!Shown(OfGroups.Order[v1[c].at], {OfGroups.Order[v1[c].at]} \X L!Items(c), v8)
        /\ v1[c].pc \in L!Looking \cup {"ret"} => OfGroups.Order[v1[c].at] \in OfGroups.Listing
    BY <1>0, <1>1, <2>1 DEF L!GroupsInv, Same
  <2> QED
    BY <1>1, <2>1, <2>2, <2>3 DEF Same
<1> QED
  BY <1>2, <1>3, <1>4

\* The flights that are over with an answer.
LEMMA LookLanded ==
  ASSUME L!FlightInv, NEW k, v3' = v3 \ {k}, DOMAIN v2' \subseteq DOMAIN v2 \cup {k},
         \A a \in L!Askers : L!Flown(v1'[a]) = L!Flown(v1[a]) \ {k}
  PROVE  L!FlightInv'
<1> DEFINE F(a) == L!Flown(v1[a])
           G(a) == L!Flown(v1'[a])
<1>1. \A a \in L!Askers : G(a) = F(a) \ {k}
  OBVIOUS
<1>2. /\ \A a \in L!Askers : F(a) \subseteq v3
      /\ \A j \in v3 : j \notin DOMAIN v2 /\ \E a \in L!Askers : j \in F(a)
      /\ \A a, b \in L!Askers : F(a) \cap F(b) # {} => a = b
  BY DEF L!FlightInv
<1> HIDE DEF F, G
<1>3. /\ \A a \in L!Askers : G(a) \subseteq v3'
      /\ \A j \in v3' : j \notin DOMAIN v2' /\ \E a \in L!Askers : j \in G(a)
      /\ \A a, b \in L!Askers : G(a) \cap G(b) # {} => a = b
  BY <1>1, <1>2
<1> QED
  BY <1>3 DEF L!FlightInv, G

LEMMA LookStays ==
  ASSUME L!FlightInv, v3' = v3, v2' = v2,
         \A a \in L!Askers : L!Flown(v1'[a]) = L!Flown(v1[a])
  PROVE  L!FlightInv'
BY DEF L!FlightInv

\* A flight that begins.
LEMMA LookTakesOff ==
  ASSUME L!FlightInv, NEW k, k \notin v3, k \notin DOMAIN v2, v3' = v3 \cup {k},
         v2' = v2, NEW a \in L!Askers, L!Flown(v1'[a]) = L!Flown(v1[a]) \cup {k},
         \A b \in L!Askers \ {a} : L!Flown(v1'[b]) = L!Flown(v1[b])
  PROVE  L!FlightInv'
<1> DEFINE F(b) == L!Flown(v1[b])
           G(b) == L!Flown(v1'[b])
<1>1. G(a) = F(a) \cup {k} /\ \A b \in L!Askers \ {a} : G(b) = F(b)
  OBVIOUS
<1>2. /\ \A b \in L!Askers : F(b) \subseteq v3
      /\ \A j \in v3 : j \notin DOMAIN v2 /\ \E b \in L!Askers : j \in F(b)
      /\ \A b, c \in L!Askers : F(b) \cap F(c) # {} => b = c
  BY DEF L!FlightInv
<1> HIDE DEF F, G
<1>3. /\ \A b \in L!Askers : G(b) \subseteq v3'
      /\ \A j \in v3' : j \notin DOMAIN v2' /\ \E b \in L!Askers : j \in G(b)
      /\ \A b, c \in L!Askers : G(b) \cap G(c) # {} => b = c
  BY <1>1, <1>2
<1> QED
  BY <1>3 DEF L!FlightInv, G

\* The places of askers that take none.
LEMMA LookPlaces ==
  ASSUME L!PlaceInv, L!Values, \A a \in L!Askers : v4'[a] \in SUBSET v4[a],
         \A a \in L!Askers : v4'[a] # L!NoHost => v1'[a].pc \in {"place", "run"},
         \A a \in L!Askers : v1'[a].pc \in {"place", "run"} => v1'[a] = v1[a] /\ v4'[a] = v4[a]
  PROVE  L!PlaceInv'
<1>1. \A a \in L!Askers : v1'[a].pc \in {"place", "run"} => 
        L!KeyOf(a)' = L!KeyOf(a) /\ L!KeyOf(a).source \notin OfGroups.Static
          /\ (L!KeyOf(a).kind = "all" => L!KeyOf(a).source \in OfGroups.Alls)
  BY DEF L!PlaceInv, L!KeyOf
<1>2. \A a \in L!Askers : v1'[a].pc = "place" => L!On(L!KeyOf(a)'.source) \ v4'[a] # {}
  BY <1>1 DEF L!PlaceInv
<1>3. ASSUME NEW h \in L!Hosts PROVE L!Cardinality(L!Holding(h)') <= OfGroups.Limit
  <2>1. L!Holding(h)' \subseteq L!Holding(h)
    BY DEF L!Holding
  <2>2. L!IsFiniteSet(L!Holding(h))
    BY LookConstants, LookSubset DEF L!Holding
  <2>3. L!Cardinality(L!Holding(h)') <= L!Cardinality(L!Holding(h))
        /\ L!Cardinality(L!Holding(h)) \in Nat
        /\ L!Cardinality(L!Holding(h)') \in Nat
    BY <2>1, <2>2, LookSubset, LookCardinalityType
  <2>4. L!Cardinality(L!Holding(h)) <= OfGroups.Limit /\ OfGroups.Limit \in Nat
    BY LookConstants DEF L!PlaceInv
  <2> QED
    BY <2>3, <2>4
<1> QED
  BY <1>1, <1>2, <1>3 DEF L!PlaceInv, L!Hosts

\* What is kept, with one answer more.
LEMMA LookWith ==
  ASSUME NEW f, NEW k, NEW r
  PROVE  /\ DOMAIN L!With(f, k, r) = DOMAIN f \cup {k} /\ L!With(f, k, r)[k] = r
         /\ \A j \in DOMAIN f \ {k} : L!With(f, k, r)[j] = f[j]
BY DEF L!With

LEMMA LookKeeps ==
  ASSUME NEW k, NEW r, v2' = IF L!Keeps(r) THEN L!With(v2, k, r) ELSE v2, k \notin DOMAIN v2
  PROVE  /\ DOMAIN v2' \subseteq DOMAIN v2 \cup {k} /\ (k \in DOMAIN v2' => v2'[k] = r)
         /\ \A j \in DOMAIN v2 : j \in DOMAIN v2' /\ v2'[j] = v2[j]
         /\ L!Keeps(r) => k \in DOMAIN v2'
BY DEF L!With

Landed(k, x, y) == L!Flown(y) = L!Flown(x) \ {k}

\* Those who wait for an answer are told it, and it is kept when it stands.
LEMMA LookSettles ==
  ASSUME NEW was \in [L!Askers -> L!AskerStates], NEW a \in L!Askers, NEW k \in L!Keys, NEW r,
         L!SettleIn(was, a, k, r),
         \A b \in L!Askers : L!Sound(b, was[b], v2, v8),
         \A j \in DOMAIN v2 : L!IsTrue(j, v2[j], v8), DOMAIN v2 \subseteq L!Keys,
         was[a].stack # <<>>, L!Last(was[a].stack) = k, L!IsTrue(k, r, v8), k \notin DOMAIN v2,
         \A b \in L!Askers \ {a} : k \notin L!Flown(was[b]), v8' = v8
  PROVE  /\ v1' \in [L!Askers -> L!AskerStates]
         /\ \A b \in L!Askers : /\ L!Sound(b, v1'[b], v2', v8')
                                /\ Landed(k, was[b], v1'[b])
                                /\ \/ v1'[b] = was[b] /\ b # a
                                   \/ (b = a \/ was[b].pc = "wait") /\ v1'[b].pc = "ret"
                                      /\ Same(was[b], v1'[b])
         /\ v3' = v3 \ {k} /\ DOMAIN v2' \subseteq DOMAIN v2 \cup {k} /\ Keeping(v2, v2')
         /\ \A j \in DOMAIN v2' : L!IsTrue(j, v2'[j], v8')
         /\ k \in DOMAIN v2' => v2'[k] = r
<1> DEFINE told(b) == b = a \/ (was[b].pc = "wait" /\ L!Last(was[b].stack) = k)
<1>1. /\ v1' = [b \in L!Askers |-> IF told(b) THEN L!Returned(was[b], r) ELSE was[b]]
      /\ v2' = IF L!Keeps(r) THEN L!With(v2, k, r) ELSE v2
      /\ v3' = v3 \ {k}
  BY DEF L!SettleIn, L!Settled
<1>2. \A b \in L!Askers : /\ told(b) => v1'[b] = L!Returned(was[b], r)
                          /\ ~told(b) => v1'[b] = was[b]
  BY <1>1
<1>3. DOMAIN v2' \subseteq DOMAIN v2 \cup {k} /\ (k \in DOMAIN v2' => v2'[k] = r)
      /\ \A j \in DOMAIN v2 : j \in DOMAIN v2' /\ v2'[j] = v2[j]
  BY <1>1, LookKeeps
<1>4. L!Keeps(r) => k \in DOMAIN v2'
  BY <1>1, LookKeeps
<1>5. \A j \in DOMAIN v2' : L!IsTrue(j, v2'[j], v8')
  BY <1>3
<1>6. L!Stands(k, r, v2', v8)
  BY <1>3, <1>4 DEF L!Stands, L!Keeps
<1>7. ASSUME NEW b \in L!Askers
      PROVE  /\ v1'[b] \in L!AskerStates
             /\ L!Sound(b, v1'[b], v2', v8')
             /\ Landed(k, was[b], v1'[b])
             /\ \/ v1'[b] = was[b] /\ b # a
                \/ (b = a \/ was[b].pc = "wait") /\ v1'[b].pc = "ret" /\ Same(was[b], v1'[b])
  <2>1. L!Sound(b, was[b], v2', v8)
    BY <1>3, LookMore
  <2>2. CASE told(b)
    <3>1. L!Last(was[b].stack) = k /\ was[b].stack # <<>>
      <4>1. CASE b = a
        BY <4>1
      <4>2. CASE was[b].pc = "wait" /\ L!Last(was[b].stack) = k
        <5>1. L!Nested(was[b])
          BY <2>1 DEF L!Sound
        <5>2. was[b].stack # <<>>
          BY <4>2, <5>1, LookStacks DEF L!Nested, L!Looking
        <5> QED
          BY <4>2, <5>2
      <4> QED
        BY <2>2, <4>1, <4>2
    <3>2. /\ L!Returned(was[b], r) \in L!AskerStates /\ L!Sound(b, L!Returned(was[b], r), v2', v8)
          /\ L!Flown(L!Returned(was[b], r)) = L!Flown(was[b]) \ {L!Last(was[b].stack)}
      BY <1>6, <2>1, <3>1, LookTold
    <3>3. L!Returned(was[b], r).pc = "ret" /\ Same(was[b], L!Returned(was[b], r))
      BY LookReturned DEF Same
    <3> QED
      BY <1>2, <2>2, <3>1, <3>2, <3>3 DEF Landed
  <2>3. CASE ~told(b)
    <3>1. v1'[b] = was[b] /\ b # a
      BY <1>2, <2>3
    <3>2. k \notin L!Flown(was[b])
      BY <3>1
    <3> QED
      BY <2>1, <3>1, <3>2 DEF Landed
  <2> QED
    BY <2>2, <2>3
<1>8. v1' \in [L!Askers -> L!AskerStates]
  <2>1. v1' = [b \in L!Askers |-> v1'[b]]
    BY <1>1
  <2> QED
    BY <1>7, <2>1
<1> QED
  BY <1>1, <1>3, <1>5, <1>7, <1>8 DEF Keeping

\* The unions that are kept, when one answer more may be.
LEMMA LookUnions ==
  ASSUME L!UnionIsWhole, Keeping(v2, v2'), NEW k, DOMAIN v2' \subseteq DOMAIN v2 \cup {k},
         \A s \in OfGroups.Static : L!Has(s)' = L!Has(s),
         k \in DOMAIN v2' /\ k \notin DOMAIN v2 /\ k.kind = "all" /\ v2'[k].what = "ok"
           /\ k.source \notin OfGroups.Alls =>
           IF k.source \in OfGroups.Static THEN v2'[k].names = L!Has(k.source)
           ELSE /\ L!cacheKey(k.source, "list", L!NoGroup) \in DOMAIN v2
                /\ v2'[k].names = v2[L!cacheKey(k.source, "list", L!NoGroup)].names
  PROVE  L!UnionIsWhole'
<1> SUFFICES ASSUME NEW j, j \in DOMAIN v2', j.kind = "all", v2'[j].what = "ok",
                    j.source \notin OfGroups.Alls
             PROVE  IF j.source \in OfGroups.Static THEN v2'[j].names = L!Has(j.source)'
                    ELSE /\ L!cacheKey(j.source, "list", L!NoGroup) \in DOMAIN v2'
                         /\ v2'[j].names = v2'[L!cacheKey(j.source, "list", L!NoGroup)].names
  BY DEF L!UnionIsWhole
<1> DEFINE l == L!cacheKey(j.source, "list", L!NoGroup)
<1>1. IF j.source \in OfGroups.Static THEN v2'[j].names = L!Has(j.source)
      ELSE l \in DOMAIN v2 /\ v2'[j].names = v2[l].names
  BY DEF L!UnionIsWhole, Keeping
<1>2. l \in DOMAIN v2 => l \in DOMAIN v2' /\ v2'[l] = v2[l]
  BY DEF Keeping
<1>3. j.source \in OfGroups.Static => L!Has(j.source)' = L!Has(j.source)
  OBVIOUS
<1> QED
  BY <1>1, <1>2, <1>3

\* One asker has its answer, and those who wait for it.
LEMMA LookAnswered ==
  ASSUME L!Inv, NEW a \in L!Askers, NEW k, k = L!KeyOf(a), NEW r, L!Settle(a, k, r),
         v1[a].pc \in L!Looking \cup {"ret"}, v1[a].stack # <<>>, k \in L!Keys, k \notin DOMAIN v2,
         k \notin v3 \/ k \in L!Flown(v1[a]),
         L!IsTrue(k, r, v8), k.kind = "all" /\ r.what = "ok" => k.source \in OfGroups.Alls,
         v4' = [v4 EXCEPT ![a] = L!NoHost], UNCHANGED <<v6, L!world>>,
         DOMAIN v5' \subseteq L!Keys,
         \A j \in DOMAIN v5' : L!IsTrue(j, v5'[j], v8)
           /\ (j.kind = "all" => j.source \in OfGroups.Alls)
  PROVE  L!Inv'
<1>0. L!Values /\ L!SoundInv /\ L!KeptInv /\ L!FlightInv /\ L!PlaceInv /\ L!PoolInv
      /\ L!UnionInv /\ L!GroupsInv /\ L!UnionIsWhole
  BY DEF L!Inv
<1>1. v1 \in [L!Askers -> L!AskerStates] /\ DOMAIN v2 \subseteq L!Keys
      /\ v4 \in [L!Askers -> SUBSET L!Hosts]
  BY <1>0 DEF L!Values
<1>2. \A b \in L!Askers \ {a} : k \notin L!Flown(v1[b])
  BY <1>0 DEF L!FlightInv
<1>3. L!SettleIn(v1, a, k, r) /\ L!Last(v1[a].stack) = k /\ v8' = v8 /\ v7' = v7
      /\ v6' = v6 /\ v9' = v9
  BY DEF L!Settle, L!KeyOf, L!world
<1>4. /\ v1' \in [L!Askers -> L!AskerStates]
      /\ \A b \in L!Askers : /\ L!Sound(b, v1'[b], v2', v8')
                             /\ Landed(k, v1[b], v1'[b])
                             /\ \/ v1'[b] = v1[b] /\ b # a
                                \/ (b = a \/ v1[b].pc = "wait") /\ v1'[b].pc = "ret"
                                   /\ Same(v1[b], v1'[b])
      /\ v3' = v3 \ {k} /\ DOMAIN v2' \subseteq DOMAIN v2 \cup {k} /\ Keeping(v2, v2')
      /\ \A j \in DOMAIN v2' : L!IsTrue(j, v2'[j], v8')
      /\ k \in DOMAIN v2' => v2'[k] = r
  <2>1. \A b \in L!Askers : L!Sound(b, v1[b], v2, v8)
    BY <1>0 DEF L!SoundInv
  <2>2. \A j \in DOMAIN v2 : L!IsTrue(j, v2[j], v8)
    BY <1>0 DEF L!KeptInv
  <2> QED
    BY <1>1, <1>2, <1>3, <2>1, <2>2, LookSettles
<1>5. L!Values'
  <2>1. v4' \in [L!Askers -> SUBSET L!Hosts]
    BY <1>1 DEF L!NoHost
  <2> QED
    BY <1>0, <1>1, <1>3, <1>4, <2>1 DEF L!Values
<1>6. L!SoundInv' /\ L!KeptInv'
  BY <1>3, <1>4 DEF L!SoundInv, L!KeptInv
<1>7. L!FlightInv'
  BY <1>0, <1>4, LookLanded DEF Landed
<1>8. L!PlaceInv'
  <2>1. \A b \in L!Askers : v4'[b] = IF b = a THEN L!NoHost ELSE v4[b]
    BY <1>1
  <2>2. \A b \in L!Askers : v4'[b] \in SUBSET v4[b]
    BY <1>1, <2>1 DEF L!NoHost
  <2>3. \A b \in L!Askers : v4'[b] # L!NoHost => v1'[b].pc \in {"place", "run"}
    BY <1>0, <1>4, <2>1 DEF L!PlaceInv
  <2>4. \A b \in L!Askers : v1'[b].pc \in {"place", "run"} => v1'[b] = v1[b] /\ v4'[b] = v4[b]
    BY <1>4, <2>1
  <2> QED
    BY <1>0, <2>2, <2>3, <2>4, LookPlaces
<1>9. L!PoolInv' /\ L!UnionInv' /\ L!GroupsInv'
  <2>1. \A b \in L!Askers : Works(v1[b], v1'[b])
    BY <1>4 DEF Works, Same, L!Looking
  <2> QED
    BY <1>3, <1>4, <2>1, LookWorks
<1>10. L!UnionIsWhole'
  <2>1. \A s \in OfGroups.Static : L!Has(s)' = L!Has(s)
    BY <1>3 DEF L!Has
  <2>2. ~(k \in DOMAIN v2' /\ k \notin DOMAIN v2 /\ k.kind = "all" /\ v2'[k].what = "ok"
        /\ k.source \notin OfGroups.Alls)
    BY <1>4
  <2> QED
    BY <1>0, <1>4, <2>1, <2>2, LookUnions
<1> QED
  BY <1>5, <1>6, <1>7, <1>8, <1>9, <1>10 DEF L!Inv

\* What an asker that looks something up looks up.
LEMMA LookKey ==
  ASSUME L!Inv, NEW a \in L!Askers,
         v1[a].pc \in L!Looking \/ (v1[a].pc = "ret" /\ v1[a].stack # <<>>)
  PROVE  LET x == v1[a]  k == L!KeyOf(a) IN
         /\ x \in L!AskerStates /\ L!Sound(a, x, v2, v8) /\ x.stack # <<>> /\ k \in L!Keys
         /\ \/ x.stack = <<L!Goal(x)>> /\ k = L!Goal(x)
            \/ /\ x.stack = <<L!Goal(x), L!ListingOf(L!Goal(x))>> /\ k = L!ListingOf(L!Goal(x))
                  /\ k.kind \in {"list", "fresh_list"}
               /\ L!Nests(L!Goal(x)) /\ x.pc \in L!Looking
         /\ x.pc \notin {"ask", "wait"} => k \in L!Flown(x) /\ k \in v3 /\ k \notin DOMAIN v2
         /\ k.kind = "map"
            => k = L!Goal(x) /\ x.stack = <<k>> /\ x.op.kind = "expr" /\ k.group \in OfGroups.Groups
         /\ k.kind = "all"
            => k = L!Goal(x) /\ x.stack = <<k>> /\ x.op.kind = "all" /\ k.source = x.op.source
              /\ a \in OfGroups.Callers
         /\ x.pc = "ret" =>
                            /\ k = L!Goal(x) /\ L!Nests(L!Goal(x))
                            /\ L!Stands(L!ListingOf(L!Goal(x)), x.ret, v2, v8)
                            /\ x.op.kind = "expr" => x.err.what \in {"failed", "canceled"}
<1> DEFINE x == v1[a]
           g == L!Goal(x)
           l == L!ListingOf(g)
<1>1. x \in L!AskerStates /\ L!Sound(a, x, v2, v8)
  BY DEF L!Inv, L!Values, L!SoundInv
<1>2. L!Aims(a, x) /\ L!Nested(x) /\ L!Told(x, v2, v8)
  BY <1>1 DEF L!Sound
<1>3. x.pc # "idle" /\ x.pc \in L!Looking \cup {"ret"} /\ x.pc # "pool"
      /\ (x.pc = "ret" => x.stack # <<>>)
  BY DEF L!Looking
<1>4. /\ g \in L!Keys /\ l \in L!Keys /\ (L!Nests(g) => l # g)
      /\ g.kind = "map" => l.kind = "fresh_list"
      /\ g.kind # "map" => l.kind = "list"
      /\ x.op.kind = "expr" =>
           /\ g.kind = "map" /\ g.group = x.op.refs[x.ref].group
           /\ x.op.refs[x.ref] \in L!Refs
      /\ x.op.kind = "all" => g = L!cacheKey(x.op.source, "all", L!NoGroup)
      /\ x.op.kind = "groups_of" => g = L!cacheKey(OfGroups.Order[x.at], "list", L!NoGroup)
      /\ x.op.kind \in {"expr", "all", "groups_of"}
  BY <1>1, <1>2, <1>3, LookGoal
<1> HIDE DEF x, g, l
<1>5. \/ x.stack = <<g>>
      \/ x.stack = <<g, l>> /\ L!Nests(g) /\ x.pc \in L!Looking
  BY <1>2, <1>3 DEF L!Nested, g, l
<1>6. \/ x.stack = <<g>> /\ L!Last(x.stack) = g
      \/ x.stack = <<g, l>> /\ L!Last(x.stack) = l /\ L!Nests(g) /\ x.pc \in L!Looking
  <2>1. L!Last(<<g>>) = g /\ L!Last(<<g, l>>) = l
    BY LookStacks
  <2> QED
    BY <1>5, <2>1
<1>7. x.stack # <<>>
  BY <1>5, LookStacks
<1>8. ASSUME x.pc \notin {"ask", "wait"}
      PROVE  L!Last(x.stack) \in L!Flown(x) /\ L!Last(x.stack) \in v3
             /\ L!Last(x.stack) \notin DOMAIN v2
  <2>1. CASE x.stack = <<g>> /\ L!Last(x.stack) = g
    <3>1. L!Flown(x) = {g}
      BY <1>8, <2>1, LookFlown
    <3> QED
      BY <2>1, <3>1 DEF L!Inv, L!FlightInv, x
  <2>2. CASE x.stack = <<g, l>> /\ L!Last(x.stack) = l
    <3>1. L!Flown(x) = {g, l}
      BY <1>8, <2>2, LookFlown
    <3> QED
      BY <2>2, <3>1 DEF L!Inv, L!FlightInv, x
  <2> QED
    BY <1>6, <2>1, <2>2
<1>9. /\ g.kind = "map" => x.op.kind = "expr" /\ g.group \in OfGroups.Groups
      /\ g.kind = "all" => x.op.kind = "all" /\ g.source = x.op.source
      /\ x.op.kind = "expr" => g.kind = "map"
      /\ x.op.kind = "all" => g.kind = "all"
      /\ x.op.kind = "all" => a \in OfGroups.Callers
      /\ l.kind \in {"list", "fresh_list"}
  BY <1>2, <1>4 DEF L!cacheKey, L!Refs, L!Aims, L!Askers
<1>10. x.pc = "ret" => /\ L!Last(x.stack) = g /\ L!Nests(g) /\ L!Stands(l, x.ret, v2, v8)
                       /\ x.op.kind = "expr" => x.err.what \in {"failed", "canceled"}
  <2>1. x.pc = "ret" => x.pc \notin L!Looking
    BY DEF L!Looking
  <2>2. x.pc = "ret" => x.stack = <<g>> /\ L!Nests(g)
    BY <1>2, <1>3, <1>5, <2>1, LookStacks DEF L!Nested, g
  <2> QED
    BY <1>2, <1>6, <1>7, <2>1, <2>2 DEF L!Told, g, l
<1>11. /\ x.stack = <<g, l>> => L!Last(x.stack).kind \in {"list", "fresh_list"}
       /\ L!Last(x.stack) \in {g, l} /\ (L!Last(x.stack).kind = "map" => L!Last(x.stack) = g)
       /\ L!Last(x.stack).kind = "all" => L!Last(x.stack) = g
       /\ L!Last(x.stack).kind \in {"map", "all"} => x.stack = <<g>>
  <2>1. L!Last(<<g, l>>) = l
    BY LookStacks
  <2> QED
    BY <1>6, <1>9, <2>1
<1> QED
  BY <1>1, <1>4, <1>6, <1>7, <1>8, <1>9, <1>10, <1>11 DEF L!KeyOf, x, g, l

\* A step of one asker that works, with nothing kept.
LEMMA LookOne ==
  ASSUME L!Inv, NEW a \in L!Askers, NEW y \in L!AskerStates, v1' = [v1 EXCEPT ![a] = y],
         L!Sound(a, y, v2, v8), Works(v1[a], y), UNCHANGED <<v2, v6, L!world>>,
         DOMAIN v5' \subseteq L!Keys,
         \A j \in DOMAIN v5' : L!IsTrue(j, v5'[j], v8)
           /\ (j.kind = "all" => j.source \in OfGroups.Alls),
         v4' \in [L!Askers -> SUBSET L!Hosts], v3' \subseteq L!Keys, L!FlightInv', L!PlaceInv'
  PROVE  L!Inv'
<1>0. L!Values /\ L!SoundInv /\ L!KeptInv /\ L!UnionIsWhole
  BY DEF L!Inv
<1>1. v1 \in [L!Askers -> L!AskerStates]
  BY <1>0 DEF L!Values
<1>2. /\ v1' \in [L!Askers -> L!AskerStates] /\ v1'[a] = y
      /\ \A b \in L!Askers \ {a} : v1'[b] = v1[b]
  BY <1>1
<1>3. v8' = v8 /\ v7' = v7 /\ v6' = v6 /\ v9' = v9 /\ v2' = v2
  BY DEF L!world
<1>4. L!Values'
  BY <1>0, <1>2, <1>3 DEF L!Values
<1>5. L!SoundInv' /\ L!KeptInv'
  BY <1>0, <1>2, <1>3 DEF L!SoundInv, L!KeptInv
<1>6. L!PoolInv' /\ L!UnionInv' /\ L!GroupsInv'
  <2>1. \A b \in L!Askers : Works(v1[b], v1'[b])
    BY <1>2 DEF Works, Same
  <2> QED
    BY <1>3, <2>1, LookWorks DEF Keeping
<1>7. L!UnionIsWhole'
  BY <1>0, <1>3 DEF L!UnionIsWhole, L!Has
<1> QED
  BY <1>4, <1>5, <1>6, <1>7 DEF L!Inv

LEMMA LookDisk ==
  ASSUME L!Inv
  PROVE  /\ DOMAIN v5 \subseteq L!Keys /\ v4 \in [L!Askers -> SUBSET L!Hosts]
         /\ \A j \in DOMAIN v5 : L!IsTrue(j, v5[j], v8)
            /\ (j.kind = "all" => j.source \in OfGroups.Alls)
         /\ \A a \in L!Askers : v4[a] # L!NoHost => v1[a].pc \in {"place", "run"}
         /\ v3 \subseteq L!Keys
         /\ \A j \in v3 : j \notin DOMAIN v2
BY DEF L!Inv, L!Values, L!KeptInv, L!PlaceInv, L!FlightInv

LEMMA LookFromMemory ==
  ASSUME L!Inv, NEW a \in L!Askers, L!FromMemory(a)
  PROVE  L!Inv'
<1> DEFINE x == v1[a]
           k == L!KeyOf(a)
           y == L!Returned(x, v2[k])
<1>1. /\ x.pc = "ask" /\ k \in DOMAIN v2 /\ v1' = [v1 EXCEPT ![a] = y]
      /\ UNCHANGED <<v2, v3, v4, v5, v6, L!world>>
  BY DEF L!FromMemory
<1>2. x \in L!AskerStates /\ L!Sound(a, x, v2, v8) /\ x.stack # <<>> /\ k = L!Last(x.stack)
  BY <1>1, LookKey DEF L!Looking, L!KeyOf
<1>3. L!Stands(k, v2[k], v2, v8)
  BY <1>1 DEF L!Stands, L!Inv, L!KeptInv
<1> DEFINE r == v2[k]
<1> HIDE DEF x, k, r
<1>4. y \in L!AskerStates /\ L!Sound(a, y, v2, v8) /\ L!Flown(y) = L!Flown(x) \ {k}
  <2>1. L!Stands(L!Last(x.stack), r, v2, v8)
    BY <1>2, <1>3 DEF r
  <2>2. y = L!Returned(x, r)
    BY DEF r
  <2> QED
    BY <1>2, <2>1, <2>2, LookTold
<1>5. y.pc = "ret" /\ Same(x, y)
  BY <1>2, LookReturned DEF Same
<1> USE DEF x, k
<1>6. L!Flown(y) = L!Flown(x)
  BY <1>1, <1>4 DEF L!Inv, L!FlightInv
<1>7. v1 \in [L!Askers -> L!AskerStates]
  BY DEF L!Inv, L!Values
<1> HIDE DEF y, k
<1>8. v1'[a] = y /\ \A b \in L!Askers \ {a} : v1'[b] = v1[b]
  BY <1>1, <1>7
<1>9. L!FlightInv'
  <2>1. \A b \in L!Askers : L!Flown(v1'[b]) = L!Flown(v1[b])
    BY <1>6, <1>8
  <2> QED
    BY <1>1, <2>1, LookStays DEF L!Inv
<1>10. L!PlaceInv'
  <2>1. /\ \A b \in L!Askers : v4'[b] \in SUBSET v4[b]
        /\ \A b \in L!Askers : v4'[b] # L!NoHost => v1'[b].pc \in {"place", "run"}
        /\ \A b \in L!Askers : v1'[b].pc \in {"place", "run"} => v1'[b] = v1[b] /\ v4'[b] = v4[b]
    BY <1>1, <1>5, <1>8, LookDisk
  <2> QED
    BY <2>1, LookPlaces DEF L!Inv
<1>11. Works(x, y)
  BY <1>1, <1>5 DEF Works, L!Looking
<1> QED
  BY <1>1, <1>4, <1>9, <1>10, <1>11, LookDisk, LookOne

LEMMA LookWait ==
  ASSUME L!Inv, NEW a \in L!Askers, L!Wait(a)
  PROVE  L!Inv'
<1> DEFINE x == v1[a]
           y == [x EXCEPT !.pc = "wait"]
<1>1. /\ x.pc = "ask" /\ v1' = [v1 EXCEPT ![a] = y]
      /\ UNCHANGED <<v2, v3, v4, v5, v6, L!world>>
  BY DEF L!Wait
<1>2. x \in L!AskerStates /\ L!Sound(a, x, v2, v8)
  BY <1>1, LookKey DEF L!Looking
<1>4. y \in L!AskerStates /\ L!Sound(a, y, v2, v8) /\ L!Flown(y) = L!Flown(x) /\ y.pc = "wait"
      /\ Same(x, y)
  BY <1>1, <1>2, LookMoves DEF L!Looking, Same
<1>7. v1 \in [L!Askers -> L!AskerStates]
  BY DEF L!Inv, L!Values
<1> HIDE DEF y
<1>8. v1'[a] = y /\ \A b \in L!Askers \ {a} : v1'[b] = v1[b]
  BY <1>1, <1>7
<1>9. L!FlightInv'
  <2>1. \A b \in L!Askers : L!Flown(v1'[b]) = L!Flown(v1[b])
    BY <1>4, <1>8
  <2> QED
    BY <1>1, <2>1, LookStays DEF L!Inv
<1>10. L!PlaceInv'
  <2>1. /\ \A b \in L!Askers : v4'[b] \in SUBSET v4[b]
        /\ \A b \in L!Askers : v4'[b] # L!NoHost => v1'[b].pc \in {"place", "run"}
        /\ \A b \in L!Askers : v1'[b].pc \in {"place", "run"} => v1'[b] = v1[b] /\ v4'[b] = v4[b]
    BY <1>1, <1>4, <1>8, LookDisk
  <2> QED
    BY <2>1, LookPlaces DEF L!Inv
<1>11. Works(x, y)
  BY <1>1, <1>4 DEF Works, L!Looking
<1> QED
  BY <1>1, <1>4, <1>9, <1>10, <1>11, LookDisk, LookOne

\* What the configuration or a file says at once is so.
LEMMA LookKnown ==
  ASSUME L!Inv, NEW k \in L!Keys, NEW r \in L!Known(k),
         k.kind = "map" => k.group \in OfGroups.Groups
  PROVE  L!IsTrue(k, r, v8) /\ (k.kind = "all" /\ r.what = "ok" => k.source \in OfGroups.Alls)
<1>0. L!Pairs \ v7 \subseteq v8 /\ k.source \in L!Sources
  BY DEF L!Inv, L!Values, L!Keys
<1>1. CASE k.kind = "map" /\ k.source \in OfGroups.Static
  <2>1. r = IF k.group \in L!Has(k.source) THEN L!Found(k.source) ELSE L!Error("not_defined")
    BY <1>1 DEF L!Known
  <2>2. CASE k.group \in L!Has(k.source) /\ r = L!Found(k.source)
    <3>1. r \in L!Answers /\ r.what = "ok" /\ r.from = k.source
      BY <1>0, <2>2, LookErrors
    <3> QED
      BY <1>1, <3>1 DEF L!IsTrue
  <2>3. CASE k.group \notin L!Has(k.source) /\ r = L!Error("not_defined")
    <3>1. r \in L!Answers /\ r.what = "not_defined"
      BY <2>3, LookErrors DEF L!Errors
    <3>2. <<k.source, k.group>> \in v8
      BY <1>0, <1>1, <2>3 DEF L!Has, L!Pairs
    <3> QED
      BY <1>1, <3>1, <3>2 DEF L!IsTrue
  <2> QED
    BY <2>1, <2>2, <2>3
<1>2. CASE ~(k.kind = "map" /\ k.source \in OfGroups.Static) /\ k.source \notin OfGroups.Static
           /\ L!OnDisk(k)
  <2>1. r = v5[k]
    BY <1>2 DEF L!Known
  <2> QED
    BY <1>2, <2>1, LookDisk DEF L!OnDisk
<1>3. CASE
           /\ ~(k.kind = "map" /\ k.source \in OfGroups.Static)
           /\ ~(k.source \notin OfGroups.Static /\ L!OnDisk(k))
           /\ k.kind = "all"
           /\ k.source \notin OfGroups.Static \cup OfGroups.Listing \cup OfGroups.Alls
  <2>1. r = L!Error("cannot_list")
    BY <1>3 DEF L!Known
  <2>2. r \in L!Answers /\ r.what = "cannot_list"
    BY <2>1, LookErrors DEF L!Errors
  <2> QED
    BY <1>3, <2>2 DEF L!IsTrue
<1> QED
  BY <1>1, <1>2, <1>3 DEF L!Known

LEMMA LookAtOnce ==
  ASSUME L!Inv, NEW a \in L!Askers, L!AtOnce(a)
  PROVE  L!Inv'
<1> DEFINE k == L!KeyOf(a)
<1>1. /\ v1[a].pc = "ask" /\ k \notin DOMAIN v2 /\ k \notin v3
      /\ UNCHANGED <<v4, v5, v6, L!world>>
  BY DEF L!AtOnce, L!Fly, L!Waits
<1>2. PICK r \in L!Known(k) : L!Settle(a, k, r)
  BY DEF L!AtOnce
<1>3. v1[a].stack # <<>> /\ k \in L!Keys /\ (k.kind = "map" => k.group \in OfGroups.Groups)
  BY <1>1, LookKey DEF L!Looking
<1>4. L!IsTrue(k, r, v8) /\ (k.kind = "all" /\ r.what = "ok" => k.source \in OfGroups.Alls)
  BY <1>3, LookKnown
<1>5. v4' = [v4 EXCEPT ![a] = L!NoHost]
  BY <1>1, LookDisk
<1>6. k = L!KeyOf(a)
  OBVIOUS
<1> HIDE DEF k
<1> QED
  BY <1>1, <1>2, <1>3, <1>4, <1>5, <1>6, LookDisk, LookAnswered DEF L!Looking

LEMMA LookDecide ==
  ASSUME L!Inv, NEW a \in L!Askers, L!Decide(a)
  PROVE  L!Inv'
<1> DEFINE x == v1[a]
           k == L!KeyOf(a)
           r == IF x.ret.what = "ok"
             /\ k.group \notin x.ret.names THEN L!Error("not_defined") ELSE x.err
<1>1. /\ x.pc = "ret" /\ x.stack # <<>> /\ k.kind = "map" /\ L!Settle(a, k, r)
      /\ UNCHANGED <<v4, v5, v6, L!world>>
  BY DEF L!Decide
<1>2. /\ x \in L!AskerStates /\ k \in L!Keys /\ k \in L!Flown(x) /\ k \notin DOMAIN v2
      /\ k = L!Goal(x) /\ x.op.kind = "expr" /\ k.group \in OfGroups.Groups
      /\ L!Stands(L!ListingOf(L!Goal(x)), x.ret, v2, v8) /\ x.err.what \in {"failed", "canceled"}
  BY <1>1, LookKey
<1>3. L!IsTrue(k, r, v8)
  <2>1. CASE x.ret.what = "ok" /\ k.group \notin x.ret.names
    <3>1. r \in L!Answers /\ r.what = "not_defined"
      BY <2>1, LookErrors DEF L!Errors
    <3>2. L!ListingOf(k).kind = "fresh_list" /\ L!ListingOf(k).source = k.source
      BY <1>1 DEF L!ListingOf, L!cacheKey
    <3>3. {k.source} \X (OfGroups.Groups \ x.ret.names) \subseteq v8
      BY <1>2, <2>1, <3>2 DEF L!Stands, L!IsTrue
    <3>4. <<k.source, k.group>> \in v8
      BY <1>2, <2>1, <3>3
    <3> QED
      BY <1>1, <3>1, <3>4 DEF L!IsTrue
  <2>2. CASE ~(x.ret.what = "ok" /\ k.group \notin x.ret.names)
    <3>1. r \in L!Answers /\ r.what \in {"failed", "canceled"}
      BY <1>2, <2>2 DEF L!AskerStates
    <3> QED
      BY <1>1, <3>1 DEF L!IsTrue
  <2> QED
    BY <2>1, <2>2
<1>5. v4' = [v4 EXCEPT ![a] = L!NoHost]
  BY <1>1, LookDisk
<1>6. k = L!KeyOf(a)
  OBVIOUS
<1> HIDE DEF k, r
<1> QED
  BY <1>1, <1>2, <1>3, <1>5, <1>6, LookDisk, LookAnswered

LEMMA LookUnionFails ==
  ASSUME L!Inv, NEW a \in L!Askers, L!Union(a), v1[a].ret.what # "ok"
  PROVE  L!Inv'
<1> DEFINE x == v1[a]
           k == L!KeyOf(a)
           r == x.ret
<1>1. /\ x.pc = "ret" /\ x.stack # <<>> /\ k.kind = "all" /\ L!Settle(a, k, r)
      /\ UNCHANGED <<v4, v5, v6, L!world>>
  BY DEF L!Union
<1>2. /\ k \in L!Keys /\ k \in L!Flown(x) /\ k \notin DOMAIN v2
      /\ L!Stands(L!ListingOf(L!Goal(x)), r, v2, v8)
  BY <1>1, LookKey
<1>3. L!IsTrue(k, r, v8)
  BY <1>1, <1>2 DEF L!Stands, L!IsTrue
<1>5. v4' = [v4 EXCEPT ![a] = L!NoHost]
  BY <1>1, LookDisk
<1>6. k = L!KeyOf(a) /\ r.what # "ok"
  OBVIOUS
<1> HIDE DEF k, r
<1> QED
  BY <1>1, <1>2, <1>3, <1>5, <1>6, LookDisk, LookAnswered

LEMMA LookFiles ==
  ASSUME NEW k, NEW r, v5' = L!With(v5, k, r) \/ v5' = v5
  PROVE  \A j \in DOMAIN v5' : (j = k /\ v5'[j] = r) \/ (j \in DOMAIN v5 /\ v5'[j] = v5[j])
BY DEF L!With

\* A command that is over: its answer is kept, or its source's groups are
\* listed first.
LEMMA LookCommandOver ==
  ASSUME L!Inv, NEW a \in L!Askers, v1[a].pc \in {"place", "run"}, NEW r, L!CommandOver(a, r),
         L!IsTrue(L!KeyOf(a), r, v8), r.what \in {"ok", "failed", "no_transport", "canceled"}
  PROVE  L!Inv'
<1> DEFINE x == v1[a]
           k == L!KeyOf(a)
<1>1. /\ v4' = [v4 EXCEPT ![a] = L!NoHost] /\ UNCHANGED <<v6, L!world>>
      /\ v5' = IF r.what = "ok" /\ k.source \in OfGroups.Cached
         /\ k.kind # "fresh_list" THEN L!With(v5, k, r) ELSE v5
      /\ \/ L!Settle(a, k, r)
         \/ /\ L!ListsAgain(k, r) /\ UNCHANGED <<v2, v3>>
            /\ v1' = [v1 EXCEPT ![a] =
                 [L!Asking(@, L!cacheKey(k.source, "fresh_list", L!NoGroup)) EXCEPT !.err = r]]
  BY DEF L!CommandOver
<1>2. /\ x \in L!AskerStates /\ L!Sound(a, x, v2, v8) /\ x.stack # <<>> /\ k \in L!Keys
      /\ k \in L!Flown(x) /\ k \notin DOMAIN v2
      /\ k.kind = "map" => k = L!Goal(x) /\ x.stack = <<k>> /\ x.op.kind = "expr"
  BY LookKey DEF L!Looking
<1>3. k.kind = "all" => k.source \in OfGroups.Alls
  BY DEF L!Inv, L!PlaceInv
<1>4. /\ DOMAIN v5' \subseteq L!Keys
      /\ \A j \in DOMAIN v5' : L!IsTrue(j, v5'[j], v8)
         /\ (j.kind = "all" => j.source \in OfGroups.Alls)
  <2>1. \A j \in DOMAIN v5' : (j = k /\ v5'[j] = r) \/ (j \in DOMAIN v5 /\ v5'[j] = v5[j])
    BY <1>1, LookFiles
  <2> QED
    BY <1>2, <1>3, <2>1, LookDisk
<1>5. CASE L!Settle(a, k, r)
  <2>1. k = L!KeyOf(a)
    OBVIOUS
  <2> HIDE DEF k
  <2> QED
    BY <1>1, <1>2, <1>3, <1>4, <1>5, <2>1, LookAnswered DEF L!Looking
<1>6. CASE /\ L!ListsAgain(k, r) /\ UNCHANGED <<v2, v3>>
           /\ v1' = [v1 EXCEPT ![a] =
                [L!Asking(@, L!cacheKey(k.source, "fresh_list", L!NoGroup)) EXCEPT !.err = r]]
  <2> DEFINE y == AsksForListing(x, r)
  <2>1. k.kind = "map" /\ r.what \in {"failed", "canceled"} /\ k.source \in OfGroups.Listing
    BY <1>6 DEF L!ListsAgain
  <2>2. L!ListingOf(L!Goal(x)) = L!cacheKey(k.source, "fresh_list", L!NoGroup)
        /\ L!Nests(L!Goal(x)) /\ x.stack = <<L!Goal(x)>>
    BY <1>2, <2>1 DEF L!ListingOf, L!Nests
  <2>3. v1' = [v1 EXCEPT ![a] = y]
    BY <1>6, <2>2 DEF AsksForListing
  <2>4. r \in L!Answers
    BY DEF L!IsTrue
  <2>5. x.pc \in L!Looking \ {"wait"}
    BY DEF L!Looking
  <2>6. y \in L!AskerStates /\ L!Sound(a, y, v2, v8) /\ FliesFor(y, L!Goal(x)) /\ y.pc = "ask"
        /\ Same(x, y)
    BY <1>2, <2>1, <2>2, <2>4, <2>5, LookNests
  <2>7. L!Flown(x) = {L!Goal(x)}
    BY <2>2, LookFlown
  <2>8. v1 \in [L!Askers -> L!AskerStates] /\ v4 \in [L!Askers -> SUBSET L!Hosts]
    BY DEF L!Inv, L!Values
  <2> HIDE DEF y, k
  <2>9. v1'[a] = y /\ \A b \in L!Askers \ {a} : v1'[b] = v1[b]
    BY <2>3, <2>8
  <2>10. L!FlightInv'
    <3>1. \A b \in L!Askers : L!Flown(v1'[b]) = L!Flown(v1[b])
      BY <2>6, <2>7, <2>9 DEF FliesFor
    <3> QED
      BY <1>6, <3>1, LookStays DEF L!Inv
  <2>11. \A b \in L!Askers : v4'[b] = IF b = a THEN L!NoHost ELSE v4[b]
    BY <1>1, <2>8
  <2>12. L!PlaceInv'
    <3>1. /\ \A b \in L!Askers : v4'[b] \in SUBSET v4[b]
          /\ \A b \in L!Askers : v4'[b] # L!NoHost => v1'[b].pc \in {"place", "run"}
          /\ \A b \in L!Askers : v1'[b].pc \in {"place", "run"} => v1'[b] = v1[b] /\ v4'[b] = v4[b]
      BY <2>6, <2>9, <2>11, LookDisk DEF L!NoHost
    <3> QED
      BY <3>1, LookPlaces DEF L!Inv
  <2>13. Works(x, y)
    BY <2>6 DEF Works, L!Looking
  <2>14. v4' \in [L!Askers -> SUBSET L!Hosts]
    BY <1>1, <2>8 DEF L!NoHost
  <2> QED
    BY <1>1, <1>4, <1>6, <2>3, <2>6, <2>10, <2>12, <2>13, <2>14, LookDisk, LookOne
<1> QED
  BY <1>1, <1>5, <1>6

LEMMA LookRuns ==
  ASSUME L!Inv, NEW a \in L!Askers, L!Run(a) \/ L!NotAcquired(a)
  PROVE  L!Inv'
<1> DEFINE k == L!KeyOf(a)
<1>1. v1[a].pc \in {"place", "run"}
  BY DEF L!Run, L!NotAcquired
<1>2. k \in L!Keys /\ (k.kind = "map" => k.group \in OfGroups.Groups)
  BY <1>1, LookKey DEF L!Looking
<1>3. k.source \in L!Sources /\ L!Pairs \ v7 \subseteq v8
  BY <1>2 DEF L!Keys, L!Inv, L!Values
<1>4. ASSUME NEW what \in {"failed", "no_transport", "canceled"},
             L!CommandOver(a, L!Error(what)) PROVE L!Inv'
  <2> DEFINE r == L!Error(what)
  <2>1. r \in L!Answers /\ r.what = what
    BY <1>4, LookErrors DEF L!Errors
  <2>2. L!IsTrue(k, r, v8)
    BY <2>1 DEF L!IsTrue
  <2> HIDE DEF r
  <2>3. L!CommandOver(a, r)
    BY <1>4 DEF r
  <2> QED
    BY <1>1, <2>1, <2>2, <2>3, LookCommandOver
<1>5. ASSUME k.kind = "map", L!CommandOver(a, L!Found(k.source)) PROVE L!Inv'
  <2> DEFINE r == L!Found(k.source)
  <2>1. r \in L!Answers /\ r.what = "ok" /\ r.from = k.source
    BY <1>3, LookErrors
  <2>2. L!IsTrue(k, r, v8)
    BY <1>5, <2>1 DEF L!IsTrue
  <2> HIDE DEF r
  <2>3. L!CommandOver(a, r)
    BY <1>5 DEF r
  <2> QED
    BY <1>1, <2>1, <2>2, <2>3, LookCommandOver
<1>6. ASSUME k.kind # "map", L!CommandOver(a, L!Listed(L!Has(k.source))) PROVE L!Inv'
  <2> DEFINE r == L!Listed(L!Has(k.source))
  <2>0. L!Has(k.source) \in SUBSET OfGroups.Groups
    BY DEF L!Has
  <2>1. r \in L!Answers /\ r.what = "ok" /\ r.names = L!Has(k.source)
    BY <2>0, LookErrors
  <2>2. {k.source} \X (OfGroups.Groups \ r.names) \subseteq v8
    BY <1>3, <2>1 DEF L!Has, L!Pairs
  <2>3. L!IsTrue(k, r, v8)
    BY <1>6, <2>1, <2>2 DEF L!IsTrue
  <2> HIDE DEF r
  <2>4. L!CommandOver(a, r)
    BY <1>6 DEF r
  <2> QED
    BY <1>1, <2>1, <2>3, <2>4, LookCommandOver
<1>7. \/ \E what \in {"failed", "no_transport", "canceled"} : L!CommandOver(a, L!Error(what))
      \/ k.kind = "map" /\ L!CommandOver(a, L!Found(k.source))
      \/ k.kind # "map" /\ L!CommandOver(a, L!Listed(L!Has(k.source)))
  BY DEF L!Run, L!NotAcquired
<1> QED
  BY <1>4, <1>5, <1>6, <1>7

\* The hosts of a source whose command is run.
LEMMA LookHosts ==
  ASSUME NEW s \in L!Sources \ OfGroups.Static
  PROVE  L!On(s) # {} /\ L!On(s) \subseteq L!Hosts /\ L!On(s) \subseteq Nat
<1>1. OfGroups.Path[s] \in Seq(Nat) /\ OfGroups.Path[s] # <<>>
  BY LookConstants
<1>2. Len(OfGroups.Path[s]) \in Nat \ {0}
      /\ \A i \in 1..Len(OfGroups.Path[s]) : OfGroups.Path[s][i] \in Nat
  BY <1>1, EmptySeq, LenProperties, ElementOfSeq
<1>3. L!On(s) # {} /\ L!On(s) \subseteq Nat
  <2>1. 1 \in 1..Len(OfGroups.Path[s])
    BY <1>2
  <2> QED
    BY <1>2, <2>1 DEF L!On
<1> QED
  BY <1>3 DEF L!Hosts

\* A step of one asker that begins its flight.
LEMMA LookFinds ==
  ASSUME L!Inv, NEW a \in L!Askers, v1[a].pc = "ask", NEW k, k = L!KeyOf(a), k \notin DOMAIN v2,
         k \notin v3,
         NEW y \in L!AskerStates, v1' = [v1 EXCEPT ![a] = y], L!Sound(a, y, v2, v8),
         Works(v1[a], y), y.pc \in {"ask", "place"}, L!Flown(y) = L!Flown(v1[a]) \cup {k},
         y.pc = "place"
           => L!Last(y.stack) = k /\ k.source \notin OfGroups.Static
             /\ (k.kind = "all" => k.source \in OfGroups.Alls),
         v3' = v3 \cup {k}, UNCHANGED <<v2, v4, v5, v6, L!world>>
  PROVE  L!Inv'
<1>1. v1 \in [L!Askers -> L!AskerStates]
  BY DEF L!Inv, L!Values
<1>2. v1'[a] = y /\ \A b \in L!Askers \ {a} : v1'[b] = v1[b]
  BY <1>1
<1>3. k \in L!Keys
  BY LookKey DEF L!Looking
<1>4. L!FlightInv'
  <2>1. \A b \in L!Askers \ {a} : L!Flown(v1'[b]) = L!Flown(v1[b])
    BY <1>2
  <2>2. L!Flown(v1'[a]) = L!Flown(v1[a]) \cup {k}
    BY <1>2
  <2> QED
    BY <2>1, <2>2, LookTakesOff DEF L!Inv
<1>5. v4[a] = L!NoHost
  BY LookDisk
<1>6. L!PlaceInv'
  <2>0. L!PlaceInv
    BY DEF L!Inv
  <2>1. \A b \in L!Askers : v4'[b] # L!NoHost => v1'[b].pc \in {"place", "run"}
    BY <1>2, <1>5, LookDisk
  <2>2. \A b \in L!Askers \ {a} : L!KeyOf(b)' = L!KeyOf(b) /\ v4'[b] = v4[b]
    BY <1>2 DEF L!KeyOf
  <2>3. y.pc = "place" => L!KeyOf(a)' = k
    BY <1>2 DEF L!KeyOf
  <2>4. \A b \in L!Askers : v1'[b].pc \in {"place", "run"} =>
          L!KeyOf(b)'.source \notin OfGroups.Static
            /\ (L!KeyOf(b)'.kind = "all" => L!KeyOf(b)'.source \in OfGroups.Alls)
    BY <1>2, <2>0, <2>2, <2>3 DEF L!PlaceInv
  <2>5. y.pc = "place" => L!On(k.source) \ v4'[a] # {}
    <3>1. k.source \in L!Sources
      BY <1>3 DEF L!Keys
    <3> QED
      BY <1>5, <3>1, LookHosts DEF L!NoHost
  <2>6. \A b \in L!Askers : v1'[b].pc = "place" => L!On(L!KeyOf(b)'.source) \ v4'[b] # {}
    BY <1>2, <2>0, <2>2, <2>3, <2>5 DEF L!PlaceInv
  <2>7. \A h \in L!Hosts : L!Cardinality(L!Holding(h)') <= OfGroups.Limit
    BY <2>0 DEF L!PlaceInv, L!Holding
  <2> QED
    BY <2>1, <2>4, <2>6, <2>7 DEF L!PlaceInv, L!Hosts
<1>7. v3' \subseteq L!Keys
  BY <1>3, LookDisk
<1> QED
  BY <1>4, <1>6, <1>7, LookDisk, LookOne

LEMMA LookFind ==
  ASSUME L!Inv, NEW a \in L!Askers, L!Find(a),
         L!KeyOf(a).kind = "all" => L!KeyOf(a).source \notin OfGroups.Static
  PROVE  L!Inv'
<1> DEFINE x == v1[a]
           k == L!KeyOf(a)
<1>1. /\ x.pc = "ask" /\ k \notin DOMAIN v2 /\ k \notin v3 /\ L!Known(k) = {}
      /\ v3' = v3 \cup {k} /\ UNCHANGED <<v2, v4, v5, v6, L!world>>
      /\ v1' = IF k.kind # "all" \/ k.source \in OfGroups.Alls THEN [v1 EXCEPT ![a].pc = "place"]
               ELSE IF k.source \in OfGroups.Static THEN L!Pooled(a, k.source, L!Has(k.source))
               ELSE [v1 EXCEPT ![a] = L!Asking(@, L!cacheKey(k.source, "list", L!NoGroup))]
  BY DEF L!Find, L!Fly, L!Waits
<1>2. /\ x \in L!AskerStates /\ L!Sound(a, x, v2, v8) /\ k \in L!Keys
      /\ \/ x.stack = <<L!Goal(x)>> /\ k = L!Goal(x)
         \/ k.kind \in {"list", "fresh_list"} /\ L!Nests(L!Goal(x)) /\ k = L!ListingOf(L!Goal(x))
      /\ k.kind = "map" => k.group \in OfGroups.Groups
      /\ k.kind = "all" => k = L!Goal(x) /\ x.stack = <<k>> /\ x.op.kind = "all"
      /\ L!Last(x.stack) = k
  BY <1>1, LookKey DEF L!Looking, L!KeyOf
<1>3. CASE k.kind # "all" \/ k.source \in OfGroups.Alls
  <2> DEFINE y == [x EXCEPT !.pc = "place"]
  <2>1. k.source \notin OfGroups.Static /\ (k.kind = "all" => k.source \in OfGroups.Alls)
    <3>1. CASE k.kind = "all"
      BY <1>3, <3>1, LookConstants
    <3>2. CASE k.kind = "map"
      BY <1>1, <3>2 DEF L!Known
    <3>3. CASE k.kind \in {"list", "fresh_list"} /\ L!Nests(L!Goal(x)) /\ k = L!ListingOf(L!Goal(x))
      <4>1. L!Goal(x).source \in OfGroups.Listing /\ k.source = L!Goal(x).source
        BY <3>3 DEF L!Nests, L!ListingOf, L!cacheKey
      <4> QED
        BY <3>3, <4>1, LookConstants
    <3>4. CASE k.kind \in {"list", "fresh_list"} /\ k = L!Goal(x)
      <4>1. L!Aims(a, x)
        BY <1>2 DEF L!Sound
      <4>2. /\ x.op.kind = "expr" => L!Goal(x).kind = "map"
            /\ x.op.kind = "all" => L!Goal(x).kind = "all"
            /\ x.op.kind \in {"expr", "all", "groups_of"}
            /\ x.op.kind = "groups_of" => L!Goal(x).source = OfGroups.Order[x.at]
        BY <1>1, <1>2, <4>1, LookGoal DEF L!cacheKey
      <4>3. x.op.kind = "groups_of" /\ k.source = OfGroups.Order[x.at]
        BY <3>4, <4>2
      <4>4. a \in OfGroups.Callers
        BY <4>1, <4>3 DEF L!Aims, L!Askers
      <4>5. OfGroups.Order[x.at] \in OfGroups.Listing
        BY <1>1, <4>3, <4>4 DEF L!Inv, L!GroupsInv, L!Looking
      <4> QED
        BY <3>4, <4>3, <4>5, LookConstants
    <3>5. k.kind \in {"map", "list", "fresh_list", "all"}
      BY <1>2 DEF L!Keys
    <3> QED
      BY <1>2, <3>1, <3>2, <3>3, <3>4, <3>5
  <2>2. /\ y \in L!AskerStates /\ L!Sound(a, y, v2, v8) /\ L!Flown(y) = L!Flown(x) \cup {k}
        /\ y.pc = "place" /\ y.stack = x.stack /\ Same(x, y)
    <3>1. y \in L!AskerStates /\ L!Sound(a, y, v2, v8) /\ y.pc = "place" /\ y.stack = x.stack
          /\ Same(x, y)
      BY <1>1, <1>2, LookMoves DEF L!Looking, Same
    <3>2. L!Flown(y) = L!Flown(x) \cup {L!Last(x.stack)}
      BY <1>1, <1>2, LookMoves DEF L!Looking
    <3> QED
      BY <1>2, <3>1, <3>2
  <2>3. v1' = [v1 EXCEPT ![a] = y]
    BY <1>1, <1>3
  <2>4. Works(x, y) /\ k = L!KeyOf(a)
    BY <1>1, <2>2 DEF Works, L!Looking
  <2> HIDE DEF y, k
  <2> QED
    BY <1>1, <1>2, <2>1, <2>2, <2>3, <2>4, LookFinds
<1>4. CASE ~(k.kind # "all" \/ k.source \in OfGroups.Alls)
  <2> DEFINE y == AsksForListing(x, x.err)
  <2>1. k.kind = "all" /\ k.source \notin OfGroups.Static /\ k.source \notin OfGroups.Alls
        /\ k.source \in OfGroups.Listing
    BY <1>1, <1>4 DEF L!Known
  <2>2. v1' = [v1 EXCEPT ![a] = L!Asking(@, L!cacheKey(k.source, "list", L!NoGroup))]
    BY <1>1, <1>4, <2>1
  <2>3. L!ListingOf(L!Goal(x)) = L!cacheKey(k.source, "list", L!NoGroup) /\ L!Nests(L!Goal(x))
        /\ x.stack = <<L!Goal(x)>>
    BY <1>2, <2>1 DEF L!ListingOf, L!Nests
  <2>4. y = L!Asking(x, L!ListingOf(L!Goal(x)))
    BY <1>2 DEF AsksForListing, L!Asking, L!AskerStates
  <2>5. v1' = [v1 EXCEPT ![a] = y]
    BY <2>2, <2>3, <2>4
  <2>6. x.pc \in L!Looking \ {"wait"} /\ x.err \in L!Answers /\ ~(x.op.kind = "expr")
    BY <1>1, <1>2, <2>1 DEF L!Looking, L!AskerStates
  <2>7. y \in L!AskerStates /\ L!Sound(a, y, v2, v8) /\ FliesFor(y, L!Goal(x)) /\ y.pc = "ask"
        /\ Same(x, y)
    BY <1>2, <2>3, <2>6, LookNests
  <2>8. L!Flown(x) = {}
    BY <1>1, <2>3, LookFlown
  <2>9. L!Flown(y) = L!Flown(x) \cup {k}
    BY <1>2, <2>1, <2>7, <2>8 DEF FliesFor
  <2>10. Works(x, y) /\ k = L!KeyOf(a)
    BY <1>1, <2>7 DEF Works, L!Looking
  <2> HIDE DEF y, k
  <2> QED
    BY <1>1, <1>2, <2>1, <2>5, <2>7, <2>9, <2>10, LookFinds
<1> QED
  BY <1>3, <1>4

\* One place more.
LEMMA LookLeast ==
  ASSUME NEW want, want \subseteq Nat, want # {}
  PROVE  \E h \in want : \A i \in want : h <= i
<1> DEFINE R == OpToRel(<, Nat)
<1>1. IsWellFoundedOn(R, Nat)
  BY NatLessThanWellFounded
<1>2. \A i, j \in Nat : i < j => <<i, j>> \in R
  BY DEF OpToRel
<1> HIDE DEF R
<1>3. PICK h \in want : \A i \in want : ~(<<i, h>> \in R)
  BY <1>1, WFMin, Zenon
<1>4. ASSUME NEW i \in want PROVE h <= i
  <2>1. h \in Nat /\ i \in Nat
    OBVIOUS
  <2>2. ~(i < h)
    BY <1>2, <1>3, <2>1, Zenon
  <2> QED
    BY <2>1, <2>2
<1> QED
  BY <1>4

LEMMA LookAcquire ==
  ASSUME L!Inv, NEW a \in L!Askers, L!Acquire(a)
  PROVE  L!Inv'
<1> DEFINE x == v1[a]
           k == L!KeyOf(a)
           want == L!On(k.source) \ v4[a]
           h == L!NextPlace(k.source, want)
           p == IF want = {h} THEN "run" ELSE "place"
           y == [x EXCEPT !.pc = p]
<1>1. /\ x.pc = "place" /\ L!Cardinality(L!Holding(h)) < OfGroups.Limit
      /\ v4' = [v4 EXCEPT ![a] = @ \cup {h}] /\ v1' = [v1 EXCEPT ![a] = y]
      /\ UNCHANGED <<v2, v3, v5, v6, L!world>>
  BY DEF L!Acquire
<1>2. x \in L!AskerStates /\ L!Sound(a, x, v2, v8) /\ k \in L!Keys
  BY <1>1, LookKey DEF L!Looking
<1>3. want # {} /\ k.source \in L!Sources \ OfGroups.Static
  BY <1>1, <1>2 DEF L!Inv, L!PlaceInv, L!Keys
<1>4. h \in want /\ h \in L!Hosts
  <2>1. want \subseteq Nat /\ want \subseteq L!Hosts
    BY <1>3, LookHosts
  <2>2. \E i \in want : \A j \in want : i <= j
    BY <1>3, <2>1, LookLeast
  <2>3. h \in want
    BY <2>2 DEF L!NextPlace
  <2> QED
    BY <2>1, <2>3
<1>5. p \in {"run", "place"} /\ (p = "place" => want # {h})
  OBVIOUS
<1> HIDE DEF h, p
<1>6. /\ y \in L!AskerStates /\ L!Sound(a, y, v2, v8) /\ L!Flown(y) = L!Flown(x)
      /\ y.pc = p /\ y.stack = x.stack /\ Same(x, y)
  <2>1. p \in L!Looking /\ x.pc \in L!Looking /\ ~(x.pc \in {"ask", "wait"})
        /\ ~(p \in {"ask", "wait"})
    BY <1>1, <1>5 DEF L!Looking
  <2>2. y \in L!AskerStates /\ L!Sound(a, y, v2, v8) /\ y.pc = p /\ y.stack = x.stack /\ Same(x, y)
    BY <1>2, <2>1, LookMoves DEF Same
  <2>3. L!Flown(y) = L!Flown(x)
    BY <1>2, <2>1, LookMoves
  <2> QED
    BY <2>2, <2>3
<1> HIDE DEF y
<1>7. v1 \in [L!Askers -> L!AskerStates] /\ v4 \in [L!Askers -> SUBSET L!Hosts]
  BY DEF L!Inv, L!Values
<1>8. /\ v1'[a] = y /\ v4'[a] = v4[a] \cup {h}
      /\ \A b \in L!Askers \ {a} : v1'[b] = v1[b] /\ v4'[b] = v4[b]
  BY <1>1, <1>7
<1>9. v4' \in [L!Askers -> SUBSET L!Hosts]
  BY <1>1, <1>4, <1>7
<1>10. L!FlightInv'
  <2>1. \A b \in L!Askers : L!Flown(v1'[b]) = L!Flown(v1[b])
    BY <1>6, <1>8
  <2> QED
    BY <1>1, <2>1, LookStays DEF L!Inv
<1>11. \A b \in L!Askers : L!KeyOf(b)' = L!KeyOf(b)
       /\ (v1'[b].pc \in {"place", "run"} <=> v1[b].pc \in {"place", "run"})
  BY <1>1, <1>5, <1>6, <1>8 DEF L!KeyOf
<1>12. ASSUME NEW i \in L!Hosts PROVE L!Cardinality(L!Holding(i)') <= OfGroups.Limit
  <2>1. L!Cardinality(L!Holding(i)) <= OfGroups.Limit /\ OfGroups.Limit \in Nat
        /\ L!IsFiniteSet(L!Askers)
    BY LookConstants DEF L!Inv, L!PlaceInv
  <2>2. L!IsFiniteSet(L!Holding(i)) /\ L!Cardinality(L!Holding(i)) \in Nat
    BY <2>1, LookSubset, LookCardinalityType DEF L!Holding
  <2>3. CASE i = h
    <3>1. L!Holding(i)' = L!Holding(i) \cup {a} /\ a \notin L!Holding(i)
      BY <1>4, <1>8, <2>3 DEF L!Holding
    <3>2. L!Cardinality(L!Holding(i)') = L!Cardinality(L!Holding(i)) + 1
      BY <2>2, <3>1, LookAddElement
    <3> QED
      BY <1>1, <2>1, <2>2, <2>3, <3>2
  <2>4. CASE i # h
    <3>1. L!Holding(i)' = L!Holding(i)
      BY <1>8, <2>4 DEF L!Holding
    <3> QED
      BY <2>1, <3>1
  <2> QED
    BY <2>3, <2>4
<1>13. L!PlaceInv'
  <2>1. \A b \in L!Askers : v4'[b] # L!NoHost => v1'[b].pc \in {"place", "run"}
    BY <1>1, <1>8, <1>11, LookDisk
  <2>2. \A b \in L!Askers : v1'[b].pc \in {"place", "run"} =>
          L!KeyOf(b)'.source \notin OfGroups.Static
            /\ (L!KeyOf(b)'.kind = "all" => L!KeyOf(b)'.source \in OfGroups.Alls)
    BY <1>11 DEF L!Inv, L!PlaceInv
  <2>3. y.pc = "place" => L!On(k.source) \ v4'[a] # {}
    BY <1>4, <1>5, <1>6, <1>8
  <2>4. \A b \in L!Askers : v1'[b].pc = "place" => L!On(L!KeyOf(b)'.source) \ v4'[b] # {}
    BY <1>8, <1>11, <2>3 DEF L!Inv, L!PlaceInv
  <2> QED
    BY <1>12, <2>1, <2>2, <2>4 DEF L!PlaceInv, L!Hosts
<1>14. Works(x, y)
  BY <1>1, <1>5, <1>6 DEF Works, L!Looking
<1> QED
  BY <1>1, <1>6, <1>9, <1>10, <1>13, <1>14, LookDisk, LookOne

\* The children of a pool as it starts, and as nobody reads them any more.
LEMMA LookFresh ==
  ASSUME NEW b \in L!Children, NEW K, NEW W
  PROVE  /\ LET y == L!Asker(L!NoOp, "idle") IN
              /\ y \in L!AskerStates /\ y.pc = "idle" /\ y.stack = <<>> /\ L!Sound(b, y, K, W)
              /\ FliesNot(y)
         /\ \A r \in L!Refs : r.group = b[2] =>
              LET y == L!Asker(L!Op("expr", <<r>>, L!Bare), "ready") IN
              /\ y \in L!AskerStates /\ y.pc = "ready" /\ y.stack = <<>> /\ L!Sound(b, y, K, W)
              /\ FliesNot(y)
<1>1. L!NoAnswer \in L!Answers /\ 1 \in DOMAIN OfGroups.Order /\ b \notin OfGroups.Callers
  BY LookErrors, LookConstants, LookAskers
<1>2. /\ <<>> \in Seq(L!Refs) /\ <<>> \in Seq(L!Keys)
      /\ \A r \in L!Refs : <<r>> \in Seq(L!Refs) /\ Len(<<r>>) = 1 /\ <<r>>[1] = r
  OBVIOUS
<1>3. ASSUME NEW refs \in Seq(L!Refs), NEW p \in {"idle", "ready"}, NEW y,
             y = L!Asker(L!Op("expr", refs, L!Bare), p),
             p = "ready" => Len(refs) = 1 /\ refs[1].group = b[2]
      PROVE  y \in L!AskerStates /\ y.pc = p /\ y.stack = <<>> /\ L!Sound(b, y, K, W) /\ FliesNot(y)
  <2>1. /\ y.op = L!Op("expr", refs, L!Bare) /\ y.pc = p /\ y.ref = 1 /\ y.at = 1 /\ y.stack = <<>>
        /\ y.ret = L!NoAnswer /\ y.op.kind = "expr" /\ y.op.refs = refs
    BY <1>3 DEF L!Asker, L!Op
  <2>2. L!Op("expr", refs, L!Bare) \in L!Operations
    BY DEF L!Op, L!Operations
  <2>3. y \in L!AskerStates
    BY <1>1, <1>2, <1>3, <2>2 DEF L!Asker, L!AskerStates, L!PCs
  <2>4. L!Aims(b, y)
    BY <1>1, <1>3, <2>1 DEF L!Aims
  <2>5. L!Nested(y)
    BY <2>1 DEF L!Nested, L!Looking
  <2>6. Len(y.stack) # 2
    BY <2>1, LookStacks
  <2>7. \A i \in 1..(y.at - 1) : FALSE
    BY <2>1
  <2>8. L!Told(y, K, W)
    BY <2>1, <2>6, <2>7 DEF L!Told
  <2>9. FliesNot(y)
    BY <2>1, LookFlown DEF FliesNot
  <2> QED
    BY <2>1, <2>3, <2>4, <2>5, <2>8, <2>9 DEF L!Sound
<1>4. L!NoOp = L!Op("expr", <<>>, L!Bare)
  BY DEF L!NoOp
<1>5. LET y == L!Asker(L!NoOp, "idle") IN
        y \in L!AskerStates /\ y.pc = "idle" /\ y.stack = <<>> /\ L!Sound(b, y, K, W) /\ FliesNot(y)
  BY <1>2, <1>3, <1>4
<1>6. ASSUME NEW r \in L!Refs, r.group = b[2]
      PROVE  LET y == L!Asker(L!Op("expr", <<r>>, L!Bare), "ready") IN
             y \in L!AskerStates /\ y.pc = "ready" /\ y.stack = <<>> /\ L!Sound(b, y, K, W)
               /\ FliesNot(y)
  BY <1>2, <1>3, <1>6
<1> QED
  BY <1>5, <1>6

\* A child whose parent waits for no pool has nothing under way.
LEMMA LookResting ==
  ASSUME L!Inv, NEW a \in L!Children, v1[a].pc \in {"idle", "over", "ready"}
  PROVE  v1[a].stack = <<>> /\ FliesNot(v1[a]) /\ v4[a] = L!NoHost
<1>1. a \in L!Askers
  BY LookAskers
<1>2. L!Nested(v1[a])
  BY <1>1 DEF L!Inv, L!SoundInv, L!Sound
<1>3. v1[a].stack = <<>>
  BY <1>2 DEF L!Nested, L!Looking
<1>4. FliesNot(v1[a])
  BY <1>3, LookFlown DEF FliesNot
<1> QED
  BY <1>1, <1>3, <1>4, LookDisk

NamesOf(refs) == {r.group : r \in refs}

LEMMA LookStarted ==
  ASSUME L!Inv, NEW c \in OfGroups.Callers, NEW refs, refs \subseteq L!Refs,
         v1' = L!Started(c, refs), v1[c].pc # "pool"
  PROVE  /\ v1'[c] = [v1[c] EXCEPT !.pc = "pool", !.first = L!NoAnswer]
         /\ \A b \in L!Askers : b \notin L!Children \/ L!Parent(b) # c => b = c \/ v1'[b] = v1[b]
         /\ \A b \in L!Children : L!Parent(b) = c =>
              /\ v1'[b] \in L!AskerStates /\ L!Sound(b, v1'[b], v2, v8)
              /\ FliesNot(v1'[b]) /\ FliesNot(v1[b]) /\ v4[b] = L!NoHost
              /\ v1'[b].pc \in {"idle", "ready"}
              /\ (v1'[b].pc = "idle" <=> b[2] \notin NamesOf(refs))
<1>1. c \in L!Askers /\ c \notin L!Children
  BY LookAskers, LookConstants
<1>2. v1'[c] = [v1[c] EXCEPT !.pc = "pool", !.first = L!NoAnswer]
  BY <1>1 DEF L!Started
<1>3. \A b \in L!Askers : b \notin L!Children \/ L!Parent(b) # c => b = c \/ v1'[b] = v1[b]
  BY DEF L!Started
<1>4. ASSUME NEW b \in L!Children, L!Parent(b) = c
      PROVE  /\ v1'[b] \in L!AskerStates /\ L!Sound(b, v1'[b], v2, v8)
             /\ FliesNot(v1'[b]) /\ FliesNot(v1[b]) /\ v4[b] = L!NoHost
             /\ v1'[b].pc \in {"idle", "ready"}
             /\ (v1'[b].pc = "idle" <=> b[2] \notin NamesOf(refs))
  <2>1. b \in L!Askers /\ b # c
    BY <1>1, LookAskers
  <2>2. v1[b].pc \in {"idle", "over", "ready"}
    BY <1>4 DEF L!Inv, L!PoolInv
  <2>3. FliesNot(v1[b]) /\ v4[b] = L!NoHost
    BY <2>2, LookResting
  <2>4. CASE b[2] \in NamesOf(refs)
    <3> DEFINE r == CHOOSE r \in refs : r.group = b[2]
    <3>1. \E q \in refs : q.group = b[2]
      BY <2>4 DEF NamesOf
    <3>2. r \in refs /\ r.group = b[2]
      BY <3>1
    <3>3. v1'[b] = L!Asker(L!Op("expr", <<r>>, L!Bare), "ready")
      BY <1>4, <2>1, <3>1 DEF L!Started
    <3> HIDE DEF r
    <3>4. r \in L!Refs
      BY <3>2
    <3> QED
      BY <2>3, <2>4, <3>2, <3>3, <3>4, LookFresh
  <2>5. CASE b[2] \notin NamesOf(refs)
    <3>1. ~\E q \in refs : q.group = b[2]
      BY <2>5 DEF NamesOf
    <3>2. v1'[b] = L!Asker(L!NoOp, "idle")
      BY <1>4, <2>1, <3>1 DEF L!Started
    <3> QED
      BY <2>3, <2>5, <3>2, LookFresh
  <2> QED
    BY <2>4, <2>5
<1> QED
  BY <1>2, <1>3, <1>4

\* A caller starts a pool.
LEMMA LookStarts ==
  ASSUME L!Inv, NEW c \in OfGroups.Callers, NEW refs, refs \subseteq L!Refs,
         v1' = L!Started(c, refs),
         v1[c].pc \notin {"pool", "place", "run"}, ~L!Single(v1[c]),
         L!Sound(c, [v1[c] EXCEPT !.pc = "pool", !.first = L!NoAnswer], v2, v8),
         UNCHANGED <<v2, v4, v5, v6, L!world>>, v3' \subseteq L!Keys, L!FlightInv',
         NEW s, s = v1[c].op.source, NEW list, list = L!cacheKey(s, "list", L!NoGroup),
         v1[c].op.kind = "all" => /\ s \in OfGroups.Static => NamesOf(refs) = L!Has(s)
                                  /\ s \notin OfGroups.Static
                                     => list \in DOMAIN v2 /\ NamesOf(refs) = v2[list].names,
         v1[c].op.kind = "groups_of" =>
           L!Shown(OfGroups.Order[v1[c].at], {OfGroups.Order[v1[c].at]} \X NamesOf(refs), v8)
  PROVE  L!Inv'
<1> DEFINE x == v1[c]
           y == [x EXCEPT !.pc = "pool", !.first = L!NoAnswer]
<1>0. /\ L!Values /\ L!SoundInv /\ L!KeptInv /\ L!PlaceInv /\ L!PoolInv /\ L!UnionInv
      /\ L!GroupsInv /\ L!UnionIsWhole
      /\ v1 \in [L!Askers -> L!AskerStates]
  BY DEF L!Inv, L!Values
<1>1. /\ v8' = v8 /\ v7' = v7 /\ v6' = v6 /\ v9' = v9
      /\ v2' = v2 /\ v4' = v4 /\ v5' = v5
  BY DEF L!world
<1>2. /\ v1'[c] = y
      /\ \A b \in L!Askers : b \notin L!Children \/ L!Parent(b) # c => b = c \/ v1'[b] = v1[b]
      /\ \A b \in L!Children : L!Parent(b) = c =>
           /\ v1'[b] \in L!AskerStates /\ L!Sound(b, v1'[b], v2, v8)
           /\ v4[b] = L!NoHost
           /\ v1'[b].pc \in {"idle", "ready"} /\ (v1'[b].pc = "idle" <=> b[2] \notin NamesOf(refs))
  BY LookStarted
<1>3. c \in L!Askers /\ c \notin L!Children
  BY LookAskers, LookConstants
<1>4. /\ y \in L!AskerStates /\ y.pc = "pool" /\ y.first = L!NoAnswer /\ y.op = x.op /\ y.at = x.at
      /\ y.found = x.found /\ y.lost = x.lost
  <2>1. x \in L!AskerStates /\ L!NoAnswer \in L!Answers
    BY <1>0, <1>3, LookErrors
  <2> HIDE DEF x
  <2> QED
    BY <2>1 DEF L!AskerStates, L!PCs
<1>5. L!Sound(c, y, v2, v8)
  OBVIOUS
<1> HIDE DEF y
<1>6. L!Values'
  <2>1. v1' = [b \in L!Askers |-> v1'[b]]
    BY DEF L!Started
  <2>2. \A b \in L!Askers : v1'[b] \in L!AskerStates
    BY <1>0, <1>2, <1>4
  <2>3. v1' \in [L!Askers -> L!AskerStates]
    BY <2>1, <2>2
  <2> QED
    BY <1>0, <1>1, <2>3 DEF L!Values
<1>7. L!SoundInv' /\ L!KeptInv'
  <2>1. \A b \in L!Askers : L!Sound(b, v1'[b], v2, v8)
    BY <1>0, <1>2, <1>5 DEF L!SoundInv
  <2> QED
    BY <1>0, <1>1, <2>1 DEF L!SoundInv, L!KeptInv
<1>8. L!PlaceInv'
  <2>1. v4[c] = L!NoHost
    BY <1>3, LookDisk
  <2>2. \A b \in L!Askers : v1'[b].pc \in {"place", "run"} => v1'[b] = v1[b]
    BY <1>2, <1>4
  <2>3. \A b \in L!Askers : v4'[b] # L!NoHost => v1'[b].pc \in {"place", "run"}
    BY <1>1, <1>2, <2>1, LookDisk
  <2> QED
    BY <1>0, <1>1, <2>2, <2>3, LookPlaces
<1>9. L!PoolInv'
  <2> SUFFICES ASSUME NEW a \in L!Children
               PROVE  /\ \/ v1'[a].pc \in {"idle", "over"} \/ v1'[L!Parent(a)].pc = "pool"
                         \/ v1'[a].pc = "ready" /\ v6'
                      /\ L!Single(v1'[L!Parent(a)]) => v1'[a].pc = "idle"
    BY DEF L!PoolInv
  <2>1. CASE L!Parent(a) = c
    <3>1. v1'[L!Parent(a)].pc = "pool" /\ ~L!Single(v1'[L!Parent(a)])
      BY <1>2, <1>4, <2>1 DEF L!Single
    <3> QED
      BY <3>1
  <2>2. CASE L!Parent(a) # c
    <3>1. a \in L!Askers /\ L!Parent(a) \in L!Askers /\ L!Parent(a) \notin L!Children /\ a # c
      BY <1>3, LookAskers, LookConstants
    <3>2. v1'[a] = v1[a] /\ v1'[L!Parent(a)] = v1[L!Parent(a)]
      BY <1>2, <2>2, <3>1
    <3> QED
      BY <1>0, <1>1, <3>2 DEF L!PoolInv
  <2> QED
    BY <2>1, <2>2
<1>10. L!Items(c)' = NamesOf(refs) \cap OfGroups.Groups
  <2>1. \A g \in OfGroups.Groups : v1'[<<c, g>>].pc = "idle" <=> g \notin NamesOf(refs)
    BY <1>2, LookAskers
  <2> QED
    BY <2>1 DEF L!Items
<1>11. NamesOf(refs) \subseteq OfGroups.Groups
  BY DEF NamesOf, L!Refs
<1>12. ASSUME NEW d \in OfGroups.Callers \ {c} PROVE v1'[d] = v1[d]
              /\ \A g \in OfGroups.Groups : v1'[<<d, g>>] = v1[<<d, g>>]
  <2>1. d \in L!Askers /\ d \notin L!Children
        /\ \A g \in OfGroups.Groups : <<d, g>> \in L!Askers /\ L!Parent(<<d, g>>) # c
           /\ <<d, g>> # c
    BY <1>3, LookAskers, LookConstants
  <2> QED
    BY <1>2, <2>1
<1>13. \A d \in OfGroups.Callers \ {c} : L!Items(d)' = L!Items(d)
  BY <1>12 DEF L!Items
<1>14. L!UnionInv'
  <2>1. \A d \in OfGroups.Callers : v1'[d].first = L!NoAnswer
        \/ v1'[d].first.what \notin {"ok", "none"}
    BY <1>0, <1>2, <1>4, <1>12 DEF L!UnionInv
  <2>2. ASSUME NEW d \in OfGroups.Callers, v1'[d].pc = "pool", v1'[d].op.kind = "all",
               NEW z, z = v1'[d].op.source, NEW l, l = L!cacheKey(z, "list", L!NoGroup)
        PROVE  /\ z \in OfGroups.Static => L!Items(d)' = {g \in OfGroups.Groups : <<z, g>> \in v7'}
               /\ z \notin OfGroups.Static => l \in DOMAIN v2' /\ L!Items(d)' = v2'[l].names
               /\ \A g \in OfGroups.Groups : v1'[<<d, g>>].pc = "over"
                  /\ v1'[<<d, g>>].ret.what # "ok"
                                      => v1'[d].first # L!NoAnswer
    <3>1. CASE d = c
      <4>1. z = s /\ l = list /\ x.op.kind = "all"
        BY <1>2, <1>4, <2>2, <3>1
      <4>2. L!Items(c)' = NamesOf(refs)
        BY <1>10, <1>11
      <4>3. \A g \in OfGroups.Groups : v1'[<<c, g>>].pc # "over"
        BY <1>2, LookAskers
      <4> QED
        BY <1>1, <3>1, <4>1, <4>2, <4>3 DEF L!Has
    <3>2. CASE d # c
      BY <1>0, <1>1, <1>12, <1>13, <2>2, <3>2 DEF L!UnionInv, L!Has
    <3> QED
      BY <3>1, <3>2
  <2> QED
    BY <2>1, <2>2 DEF L!UnionInv, L!Has
<1>15. L!GroupsInv'
  <2> SUFFICES ASSUME NEW d \in OfGroups.Callers, v1'[d].op.kind = "groups_of"
               PROVE  LET q == v1'[d] IN
                /\ ~q.lost => \A i \in 1..(q.at - 1) : L!Shown(OfGroups.Order[i], q.found, v8')
                /\ ~q.lost /\ q.pc = "over"
                   => L!Shown(OfGroups.Order[q.at], q.found, v8') /\ q.at = Len(OfGroups.Order)
                /\ q.pc = "pool"
                   => L!Shown(OfGroups.Order[q.at], {OfGroups.Order[q.at]} \X L!Items(d)', v8')
                /\ q.pc \in L!Looking \cup {"ret"} => OfGroups.Order[q.at] \in OfGroups.Listing
    BY DEF L!GroupsInv
  <2>1. CASE d = c
    <3>1. x.op.kind = "groups_of" /\ L!Items(c)' = NamesOf(refs)
      BY <1>2, <1>4, <1>10, <1>11, <2>1
    <3>2. ~x.lost => \A i \in 1..(x.at - 1) : L!Shown(OfGroups.Order[i], x.found, v8)
      BY <1>0, <3>1 DEF L!GroupsInv
    <3> QED
      BY <1>1, <1>2, <1>4, <2>1, <3>1, <3>2 DEF L!Looking
  <2>2. CASE d # c
    <3>1. v1'[d] = v1[d] /\ L!Items(d)' = L!Items(d)
      BY <1>12, <1>13, <2>2
    <3> QED
      BY <1>0, <1>1, <3>1 DEF L!GroupsInv
  <2> QED
    BY <2>1, <2>2
<1>16. L!UnionIsWhole'
  BY <1>0, <1>1 DEF L!UnionIsWhole, L!Has
<1> QED
  BY <1>6, <1>7, <1>8, <1>9, <1>14, <1>15, <1>16 DEF L!Inv

\* The groups a pool is started for.
LEMMA LookNames ==
  ASSUME NEW c \in OfGroups.Callers, NEW s \in L!Sources, NEW names, names \subseteq OfGroups.Groups
  PROVE  /\ L!Pooled(c, s, names) = L!Started(c, {L!GroupRef(s, g) : g \in names})
         /\ {L!GroupRef(s, g) : g \in names} \subseteq L!Refs
         /\ NamesOf({L!GroupRef(s, g) : g \in names}) = names
<1>1. \A g \in names : L!GroupRef(s, g) \in L!Refs /\ L!GroupRef(s, g).group = g
  BY DEF L!GroupRef, L!Refs
<1> QED
  BY <1>1 DEF L!Pooled, NamesOf

\* A caller that waits for its pool is sound.
LEMMA LookPools ==
  ASSUME NEW c \in OfGroups.Callers, NEW x \in L!AskerStates, NEW K, NEW W, L!Sound(c, x, K, W),
         x.pc # "over",
         \/ x.stack = <<>> /\ x.op.kind # "all"
         \/ x.stack = <<L!Goal(x)>> /\ x.op.kind = "all"
            /\ x.op.source \in (OfGroups.Static \cup OfGroups.Listing) \ OfGroups.Alls
  PROVE  LET y == [x EXCEPT !.pc = "pool", !.first = L!NoAnswer] IN
         /\ L!Sound(c, y, K, W)
         /\ x.stack = <<>> => FliesNot(y)
         /\ x.stack # <<>> => FliesFor(y, L!Goal(x))
<1> DEFINE y == [x EXCEPT !.pc = "pool", !.first = L!NoAnswer]
<1>0. L!Aims(c, x) /\ L!Told(x, K, W)
  BY DEF L!Sound
<1>1. /\ y.pc = "pool" /\ y.op = x.op /\ y.ref = x.ref /\ y.at = x.at /\ y.stack = x.stack
      /\ y.err = x.err
      /\ y.ret = x.ret
  BY DEF L!AskerStates
<1> HIDE DEF y
<1>2. L!SourceOf(y) = L!SourceOf(x)
  BY <1>1 DEF L!SourceOf
<1>3. L!Goal(y) = L!Goal(x) /\ (L!Single(y) <=> L!Single(x))
  BY <1>1, <1>2 DEF L!Goal, L!Single
<1>4. c \notin L!Children
  BY LookConstants
<1>5. L!Aims(c, y)
  BY <1>0, <1>1, <1>4 DEF L!Aims
<1>6. L!Nested(y)
  BY <1>1, <1>3 DEF L!Nested, L!Looking
<1>7. L!Told(y, K, W)
  <2>1. y.op.kind = "expr" => Len(y.stack) # 2
    <3>1. Len(<<>>) = 0
      OBVIOUS
    <3>2. y.op.kind = "expr" => y.stack = <<>>
      BY <1>1
    <3> QED
      BY <3>1, <3>2
  <2> QED
    BY <1>0, <1>1, <1>3, <2>1 DEF L!Told
<1>8. x.stack = <<>> => FliesNot(y)
  BY <1>1, LookFlown DEF FliesNot
<1>9. x.stack # <<>> => FliesFor(y, L!Goal(x))
  BY <1>1, LookFlown DEF FliesFor
<1> QED
  BY <1>5, <1>6, <1>7, <1>8, <1>9 DEF L!Sound, y

\* The flights of the others, when a caller starts a pool.
LEMMA LookOthers ==
  ASSUME L!Inv, NEW c \in OfGroups.Callers, NEW refs, refs \subseteq L!Refs,
         v1' = L!Started(c, refs), v1[c].pc # "pool"
  PROVE  \A b \in L!Askers \ {c} : L!Flown(v1'[b]) = L!Flown(v1[b])
<1>1. /\ \A b \in L!Askers : b \notin L!Children \/ L!Parent(b) # c => b = c \/ v1'[b] = v1[b]
      /\ \A b \in L!Children : L!Parent(b) = c => FliesNot(v1'[b]) /\ FliesNot(v1[b])
  BY LookStarted
<1> QED
  BY <1>1 DEF FliesNot

LEMMA LookStartsFlights ==
  ASSUME L!Inv, NEW c \in OfGroups.Callers, NEW refs, refs \subseteq L!Refs,
         v1' = L!Started(c, refs), v1[c].pc # "pool",
         NEW y, y = [v1[c] EXCEPT !.pc = "pool", !.first = L!NoAnswer], v2' = v2,
         \/ L!Flown(y) = L!Flown(v1[c]) /\ v3' = v3
         \/ \E k : /\ k \notin v3 /\ k \notin DOMAIN v2 /\ v3' = v3 \cup {k}
                   /\ L!Flown(y) = L!Flown(v1[c]) \cup {k}
  PROVE  L!FlightInv'
<1>1. v1'[c] = y /\ c \in L!Askers /\ L!FlightInv
  BY LookStarted, LookAskers DEF L!Inv
<1>2. \A b \in L!Askers \ {c} : L!Flown(v1'[b]) = L!Flown(v1[b])
  BY LookOthers
<1>3. CASE L!Flown(y) = L!Flown(v1[c]) /\ v3' = v3
  <2>1. \A b \in L!Askers : L!Flown(v1'[b]) = L!Flown(v1[b])
    BY <1>1, <1>2, <1>3
  <2> QED
    BY <1>1, <1>3, <2>1, LookStays
<1>4. ASSUME NEW k, k \notin v3, k \notin DOMAIN v2, v3' = v3 \cup {k},
             L!Flown(y) = L!Flown(v1[c]) \cup {k}
      PROVE  L!FlightInv'
  <2>1. L!Flown(v1'[c]) = L!Flown(v1[c]) \cup {k}
    BY <1>1, <1>4
  <2> QED
    BY <1>1, <1>2, <1>4, <2>1, LookTakesOff
<1> QED
  BY <1>3, <1>4

\* A source's groups are written down: their union needs no listing.
LEMMA LookFindStatic ==
  ASSUME L!Inv, NEW a \in L!Askers, L!Find(a), L!KeyOf(a).kind = "all",
         L!KeyOf(a).source \in OfGroups.Static
  PROVE  L!Inv'
<1> DEFINE x == v1[a]
           k == L!KeyOf(a)
           names == L!Has(k.source)
           refs == {L!GroupRef(k.source, g) : g \in names}
           y == [x EXCEPT !.pc = "pool", !.first = L!NoAnswer]
<1>1. /\ x.pc = "ask" /\ k \notin DOMAIN v2 /\ k \notin v3
      /\ v3' = v3 \cup {k} /\ UNCHANGED <<v2, v4, v5, v6, L!world>>
      /\ k.source \notin OfGroups.Alls /\ k.source \in L!Sources
      /\ v1' = L!Pooled(a, k.source, names)
  BY LookConstants DEF L!Find, L!Fly, L!Waits
<1>2. /\ x \in L!AskerStates /\ L!Sound(a, x, v2, v8) /\ k \in L!Keys
      /\ k = L!Goal(x) /\ x.stack = <<k>> /\ x.op.kind = "all" /\ k.source = x.op.source
      /\ a \in OfGroups.Callers
  BY <1>1, LookKey DEF L!Looking
<1>3. names \subseteq OfGroups.Groups
  BY DEF L!Has
<1>4. v1' = L!Started(a, refs) /\ refs \subseteq L!Refs /\ NamesOf(refs) = names
  BY <1>1, <1>2, <1>3, LookNames
<1>5. /\ L!Sound(a, y, v2, v8)
      /\ FliesFor(y, L!Goal(x))
  <2>1. x.stack # <<>> /\ x.pc # "over" /\ x.stack = <<L!Goal(x)>>
        /\ x.op.source \in (OfGroups.Static \cup OfGroups.Listing) \ OfGroups.Alls
    BY <1>1, <1>2, LookStacks
  <2> QED
    BY <1>2, <2>1, LookPools
<1>6. L!Flown(x) = {}
  BY <1>1, <1>2, LookFlown
<1>7. L!Flown(y) = L!Flown(x) \cup {k}
  BY <1>2, <1>5, <1>6 DEF FliesFor
<1> HIDE DEF refs, y
<1>8. L!FlightInv'
  <2>1. y = [x EXCEPT !.pc = "pool", !.first = L!NoAnswer]
    BY DEF y
  <2>2. x.pc # "pool" /\ v2' = v2
    BY <1>1
  <2> HIDE DEF k, x, names
  <2>3. \E j : /\ j \notin v3 /\ j \notin DOMAIN v2 /\ v3' = v3 \cup {j}
               /\ L!Flown(y) = L!Flown(x) \cup {j}
    BY <1>1, <1>7
  <2> QED
    BY <1>2, <1>4, <2>1, <2>2, <2>3, LookStartsFlights DEF x
<1>9. v3' \subseteq L!Keys
  BY <1>1, <1>2, LookDisk
<1>10. ~L!Single(x) /\ x.pc \notin {"pool", "place", "run"} /\ ~(x.op.kind = "groups_of")
  BY <1>1, <1>2 DEF L!Single
<1>11. /\ x.op.source \in OfGroups.Static => NamesOf(refs) = L!Has(x.op.source)
       /\ x.op.source \in OfGroups.Static
  BY <1>2, <1>4
<1>12. L!Sound(a, [x EXCEPT !.pc = "pool", !.first = L!NoAnswer], v2, v8)
  BY <1>5 DEF y
<1> QED
  BY <1>1, <1>2, <1>4, <1>8, <1>9, <1>10, <1>11, <1>12, LookStarts

LEMMA LookUnionStarts ==
  ASSUME L!Inv, NEW c \in OfGroups.Callers, L!Union(c), v1[c].ret.what = "ok"
  PROVE  L!Inv'
<1> DEFINE x == v1[c]
           k == L!KeyOf(c)
           names == x.ret.names
           refs == {L!GroupRef(k.source, g) : g \in names}
           y == [x EXCEPT !.pc = "pool", !.first = L!NoAnswer]
           list == L!cacheKey(x.op.source, "list", L!NoGroup)
<1>0. c \in L!Askers
  BY LookAskers
<1>1. /\ x.pc = "ret" /\ x.stack # <<>> /\ k.kind = "all"
      /\ UNCHANGED <<v2, v3, v4, v5, v6, L!world>>
      /\ v1' = L!Pooled(c, k.source, names)
  BY DEF L!Union
<1>2. /\ x \in L!AskerStates /\ L!Sound(c, x, v2, v8) /\ k \in L!Keys
      /\ k = L!Goal(x) /\ x.stack = <<k>> /\ x.op.kind = "all" /\ k.source = x.op.source
      /\ L!Nests(L!Goal(x)) /\ L!Stands(L!ListingOf(L!Goal(x)), x.ret, v2, v8)
  BY <1>0, <1>1, LookKey
<1>3. names \subseteq OfGroups.Groups /\ k.source \in L!Sources
  BY <1>2 DEF L!AskerStates, L!Answers, L!Keys
<1>4. v1' = L!Started(c, refs) /\ refs \subseteq L!Refs /\ NamesOf(refs) = names
  BY <1>1, <1>3, LookNames
<1>5. x.op.source \in OfGroups.Listing /\ x.op.source \notin OfGroups.Alls
      /\ x.op.source \notin OfGroups.Static
  BY <1>1, <1>2, LookConstants DEF L!Nests
<1>6. list \in DOMAIN v2 /\ v2[list] = x.ret
  BY <1>1, <1>2 DEF L!Stands, L!ListingOf
<1>7. L!Sound(c, y, v2, v8) /\ FliesFor(y, L!Goal(x))
  <2>1. x.stack # <<>> /\ x.pc # "over" /\ x.stack = <<L!Goal(x)>>
        /\ x.op.source \in (OfGroups.Static \cup OfGroups.Listing) \ OfGroups.Alls
    BY <1>1, <1>2, <1>5, LookStacks
  <2> QED
    BY <1>2, <2>1, LookPools
<1>8. L!Flown(x) = {L!Goal(x)}
  BY <1>1, <1>2, LookFlown
<1>9. L!Flown(y) = L!Flown(x)
  BY <1>7, <1>8 DEF FliesFor
<1> HIDE DEF refs, y, list
<1>10. L!FlightInv'
  <2>1. y = [x EXCEPT !.pc = "pool", !.first = L!NoAnswer]
    BY DEF y
  <2>2. x.pc # "pool" /\ v2' = v2 /\ v3' = v3
    BY <1>1
  <2> QED
    BY <1>4, <1>9, <2>1, <2>2, LookStartsFlights
<1>11. v3' \subseteq L!Keys
  BY <1>1, LookDisk
<1>12. ~L!Single(x) /\ x.pc \notin {"pool", "place", "run"} /\ ~(x.op.kind = "groups_of")
  BY <1>1, <1>2 DEF L!Single
<1>13. NamesOf(refs) = v2[list].names /\ list = L!cacheKey(x.op.source, "list", L!NoGroup)
  BY <1>4, <1>6 DEF list
<1>14. L!Sound(c, [x EXCEPT !.pc = "pool", !.first = L!NoAnswer], v2, v8)
  BY <1>7 DEF y
<1> QED
  BY <1>1, <1>4, <1>5, <1>6, <1>10, <1>11, <1>12, <1>13, <1>14, LookStarts

\* A caller that goes on by itself: what its children are doing is as it was.
LEMMA LookAlone ==
  ASSUME L!Inv, NEW c \in OfGroups.Callers, NEW y \in L!AskerStates, v1' = [v1 EXCEPT ![c] = y],
         L!Sound(c, y, v2, v8), y.op = v1[c].op, y.first = v1[c].first,
         y.pc \notin {"pool", "place", "run"}, v1[c].pc \notin {"place", "run"},
         L!Flown(y) = L!Flown(v1[c]),
         v1[c].pc = "pool" =>
           \A g \in OfGroups.Groups : v1[<<c, g>>].pc \in {"idle", "over"}
             \/ (v1[<<c, g>>].pc = "ready" /\ v6),
         y.op.kind = "groups_of" =>
           /\ ~y.lost => \A i \in 1..(y.at - 1) : L!Shown(OfGroups.Order[i], y.found, v8)
           /\ ~y.lost /\ y.pc = "over"
              => L!Shown(OfGroups.Order[y.at], y.found, v8) /\ y.at = Len(OfGroups.Order)
           /\ y.pc \in L!Looking \cup {"ret"} => OfGroups.Order[y.at] \in OfGroups.Listing,
         UNCHANGED <<v2, v3, v4, v5, v6, L!world>>
  PROVE  L!Inv'
<1> DEFINE x == v1[c]
<1>0. /\ L!Values /\ L!SoundInv /\ L!KeptInv /\ L!FlightInv /\ L!PlaceInv /\ L!PoolInv
      /\ L!UnionInv /\ L!GroupsInv /\ L!UnionIsWhole
      /\ v1 \in [L!Askers -> L!AskerStates]
  BY DEF L!Inv, L!Values
<1>1. /\ v8' = v8 /\ v7' = v7 /\ v6' = v6 /\ v9' = v9
      /\ v2' = v2 /\ v4' = v4 /\ v5' = v5 /\ v3' = v3
  BY DEF L!world
<1>2. c \in L!Askers /\ c \notin L!Children
  BY LookAskers, LookConstants
<1>3. /\ v1' \in [L!Askers -> L!AskerStates] /\ v1'[c] = y
      /\ \A b \in L!Askers \ {c} : v1'[b] = v1[b]
  BY <1>0, <1>2
<1>4. L!Values'
  BY <1>0, <1>1, <1>3 DEF L!Values
<1>5. L!SoundInv' /\ L!KeptInv'
  BY <1>0, <1>1, <1>3 DEF L!SoundInv, L!KeptInv
<1>6. L!FlightInv'
  <2>1. \A b \in L!Askers : L!Flown(v1'[b]) = L!Flown(v1[b])
    BY <1>3
  <2> QED
    BY <1>0, <1>1, <2>1, LookStays
<1>7. L!PlaceInv'
  <2>1. v4[c] = L!NoHost
    BY <1>2, LookDisk
  <2>2. \A b \in L!Askers : v1'[b].pc \in {"place", "run"} => v1'[b] = v1[b]
    BY <1>3
  <2>3. \A b \in L!Askers : v4'[b] # L!NoHost => v1'[b].pc \in {"place", "run"}
    BY <1>1, <1>3, <2>1, LookDisk
  <2> QED
    BY <1>0, <1>1, <2>2, <2>3, LookPlaces
<1>8. \A d \in OfGroups.Callers : \A g \in OfGroups.Groups : v1'[<<d, g>>] = v1[<<d, g>>]
  <2>1. ASSUME NEW d \in OfGroups.Callers,
               NEW g \in OfGroups.Groups PROVE <<d, g>> \in L!Askers /\ <<d, g>> # c
    <3>1. <<d, g>> \in L!Children
      BY LookAskers
    <3> QED
      BY <3>1, LookAskers
  <2> QED
    BY <1>3, <2>1
<1>9. \A d \in OfGroups.Callers : L!Items(d)' = L!Items(d)
  BY <1>8 DEF L!Items
<1>10. L!PoolInv'
  <2> SUFFICES ASSUME NEW a \in L!Children
               PROVE  /\ \/ v1'[a].pc \in {"idle", "over"} \/ v1'[L!Parent(a)].pc = "pool"
                         \/ v1'[a].pc = "ready" /\ v6'
                      /\ L!Single(v1'[L!Parent(a)]) => v1'[a].pc = "idle"
    BY DEF L!PoolInv
  <2>1. v1'[a] = v1[a] /\ a = <<L!Parent(a), a[2]>> /\ a[2] \in OfGroups.Groups
        /\ L!Parent(a) \in OfGroups.Callers
    BY <1>8, LookAskers
  <2>2. CASE L!Parent(a) = c
    <3>1. L!Single(v1'[c]) <=> L!Single(v1[c])
      BY <1>3 DEF L!Single
    <3>2. v1[a].pc \in {"idle", "over"} \/ (v1[a].pc = "ready" /\ v6)
      BY <1>0, <2>1, <2>2 DEF L!PoolInv
    <3> QED
      BY <1>0, <1>1, <2>1, <2>2, <3>1, <3>2 DEF L!PoolInv
  <2>3. CASE L!Parent(a) # c
    <3>1. v1'[L!Parent(a)] = v1[L!Parent(a)]
      BY <1>3, <2>1, <2>3, LookAskers
    <3> QED
      BY <1>0, <1>1, <2>1, <3>1 DEF L!PoolInv
  <2> QED
    BY <2>2, <2>3
<1>11. \A d \in OfGroups.Callers \ {c} : v1'[d] = v1[d]
  BY <1>3, LookAskers
<1>12. L!UnionInv'
  <2>1. \A d \in OfGroups.Callers : v1'[d].first = L!NoAnswer
        \/ v1'[d].first.what \notin {"ok", "none"}
    BY <1>0, <1>3, <1>11 DEF L!UnionInv
  <2>2. ASSUME NEW d \in OfGroups.Callers, v1'[d].pc = "pool", v1'[d].op.kind = "all",
               NEW z, z = v1'[d].op.source, NEW l, l = L!cacheKey(z, "list", L!NoGroup)
        PROVE  /\ z \in OfGroups.Static => L!Items(d)' = {g \in OfGroups.Groups : <<z, g>> \in v7'}
               /\ z \notin OfGroups.Static => l \in DOMAIN v2' /\ L!Items(d)' = v2'[l].names
               /\ \A g \in OfGroups.Groups : v1'[<<d, g>>].pc = "over"
                  /\ v1'[<<d, g>>].ret.what # "ok"
                                      => v1'[d].first # L!NoAnswer
    <3>1. v1'[d] = v1[d]
      BY <1>3, <1>11, <2>2
    <3> QED
      BY <1>0, <1>1, <1>8, <1>9, <2>2, <3>1 DEF L!UnionInv, L!Has
  <2> QED
    BY <2>1, <2>2 DEF L!UnionInv, L!Has
<1>13. L!GroupsInv'
  <2> SUFFICES ASSUME NEW d \in OfGroups.Callers, v1'[d].op.kind = "groups_of"
               PROVE  LET q == v1'[d] IN
                /\ ~q.lost => \A i \in 1..(q.at - 1) : L!Shown(OfGroups.Order[i], q.found, v8')
                /\ ~q.lost /\ q.pc = "over"
                   => L!Shown(OfGroups.Order[q.at], q.found, v8') /\ q.at = Len(OfGroups.Order)
                /\ q.pc = "pool"
                   => L!Shown(OfGroups.Order[q.at], {OfGroups.Order[q.at]} \X L!Items(d)', v8')
                /\ q.pc \in L!Looking \cup {"ret"} => OfGroups.Order[q.at] \in OfGroups.Listing
    BY DEF L!GroupsInv
  <2>1. CASE d = c
    BY <1>1, <1>3, <2>1
  <2>2. CASE d # c
    <3>1. v1'[d] = v1[d] /\ L!Items(d)' = L!Items(d)
      BY <1>9, <1>11, <2>2
    <3> QED
      BY <1>0, <1>1, <3>1 DEF L!GroupsInv
  <2> QED
    BY <2>1, <2>2
<1>14. L!UnionIsWhole'
  BY <1>0, <1>1 DEF L!UnionIsWhole, L!Has
<1> QED
  BY <1>4, <1>5, <1>6, <1>7, <1>10, <1>12, <1>13, <1>14 DEF L!Inv

\* An asker of an expression comes to a reference.
LEMMA LookResolves ==
  ASSUME L!Inv, NEW a \in L!Askers, NEW z \in L!AskerStates, L!Aims(a, [z EXCEPT !.pc = "ask"]),
         z.stack = <<>>,
         z.op.kind = "expr", z.op = v1[a].op,
         L!Single(z) /\ z.op.refs[1].source = L!Bare =>
           \A i \in 1..(z.at - 1) : <<OfGroups.Order[i], z.op.refs[1].group>> \in v8
  PROVE  LET y == L!Resolve(a, z) IN
         /\ y \in L!AskerStates /\ L!Sound(a, y, v2, v8) /\ FliesNot(y)
         /\ y.op = z.op /\ y.first = z.first /\ y.pc \in {"ask", "ret"}
<1>1. CASE L!InBatch(a, z) # {}
  <2> DEFINE b == CHOOSE b \in L!InBatch(a, z) : TRUE
             y == [z EXCEPT !.pc = "ret", !.at = Len(OfGroups.Order), !.ret = v1[b].ret]
  <2>1. b \in L!InBatch(a, z)
    BY <1>1
  <2>2. L!Resolve(a, z) = y
    BY <1>1 DEF L!Resolve
  <2> HIDE DEF b
  <2>3. a \in OfGroups.Callers /\ b \in L!Children /\ L!Parent(b) = a /\ v1[b].pc = "over"
    BY <2>1 DEF L!InBatch, L!Looked, L!ItemsOf
  <2>4. ~L!Single(z)
    BY <2>3 DEF L!Inv, L!PoolInv, L!Single
  <2>5. v1[b] \in L!AskerStates /\ L!Aims(b, v1[b]) /\ L!Told(v1[b], v2, v8)
    BY <2>3, LookAskers DEF L!Inv, L!Values, L!SoundInv, L!Sound
  <2>6. v1[b].ret \in L!Answers /\ v1[b].ret.what # "none"
    BY <2>3, <2>5 DEF L!Aims, L!Told, L!AskerStates
  <2>7. Len(OfGroups.Order) \in Nat \ {0} /\ Len(OfGroups.Order) \in DOMAIN OfGroups.Order
    BY LookConstants
  <2>8. /\ y \in L!AskerStates /\ y.pc = "ret" /\ y.op = z.op /\ y.first = z.first
        /\ y.stack = <<>> /\ y.at \in DOMAIN OfGroups.Order
        /\ y.ref = z.ref /\ y.ret = v1[b].ret
    BY <2>6, <2>7 DEF L!AskerStates, L!PCs
  <2>9. L!Aims(a, [z EXCEPT !.pc = "ask"]) /\ a \notin L!Children
    BY <2>3, LookConstants
  <2> HIDE DEF y
  <2>10. L!Aims(a, y)
    <3> DEFINE q == [z EXCEPT !.pc = "ask"]
    <3>1. q.op = z.op /\ q.ref = z.ref /\ q.pc = "ask"
      BY DEF L!AskerStates
    <3>2. L!Aims(a, q)
      OBVIOUS
    <3> HIDE DEF q
    <3> QED
      BY <2>8, <2>9, <3>1, <3>2 DEF L!Aims
  <2>11. L!Nested(y)
    BY <2>8 DEF L!Nested, L!Looking
  <2>12. L!Told(y, v2, v8)
    <3>1. Len(<<>>) = 0
      OBVIOUS
    <3>2. Len(y.stack) # 2 /\ ~L!Single(y) /\ y.op.kind = "expr" /\ y.ret.what # "none"
      BY <2>4, <2>6, <2>8, <3>1 DEF L!Single
    <3> QED
      BY <2>8, <3>2 DEF L!Told
  <2>13. FliesNot(y)
    BY <2>8, LookFlown DEF FliesNot
  <2> QED
    BY <2>2, <2>8, <2>10, <2>11, <2>12, <2>13 DEF L!Sound
<1>2. CASE ~(L!InBatch(a, z) # {})
  <2>1. L!Resolve(a, z) = L!Asking(z, L!Goal(z))
    BY <1>2 DEF L!Resolve, L!Goal
  <2>2. LET y == L!Asking(z, L!Goal(z)) IN
        y \in L!AskerStates /\ L!Sound(a, y, v2, v8) /\ FliesNot(y) /\ y.pc = "ask" /\ Same(z, y)
    BY LookAsks
  <2> QED
    BY <2>1, <2>2 DEF Same
<1> QED
  BY <1>1, <1>2

\* What an asker of an expression does with an answer.
After(a, x) ==
  IF L!GoesOn(x.ret) /\ x.op.refs[x.ref].source = L!Bare /\ x.at < Len(OfGroups.Order)
  THEN L!Resolve(a, [x EXCEPT !.at = @ + 1])
  ELSE IF x.ret.what = "ok" /\ x.ref < Len(x.op.refs)
  THEN L!Resolve(a, [x EXCEPT !.at = 1, !.ref = @ + 1])
  ELSE L!Over(x, x.ret)

LEMMA LookIsAnswered ==
  ASSUME NEW a \in L!Askers, NEW x \in L!AskerStates, NEW K, NEW W, L!Sound(a, x, K, W),
         L!Single(x),
         x.pc = "ret", x.stack = <<>>,
         ~(x.ret.what = "not_defined" /\ x.op.refs[x.ref].source = L!Bare
           /\ x.at < Len(OfGroups.Order))
  PROVE  L!IsAnswered(x, W)
<1> DEFINE ref == x.op.refs[1]
<1>1. L!Aims(a, x) /\ L!Told(x, K, W) /\ x.op.kind = "expr" /\ Len(x.op.refs) = 1
  BY DEF L!Sound, L!Single
<1>2. /\ L!Goal(x).kind = "map" /\ L!Goal(x).source = L!SourceOf(x)
      /\ L!Goal(x).group = x.op.refs[x.ref].group
      /\ L!Goal(x) \in L!Keys
      /\ x.op.refs[x.ref] \in L!Refs
      /\ x.op.refs[x.ref].source = L!Bare => L!SourceOf(x) = OfGroups.Order[x.at]
      /\ x.op.refs[x.ref].source # L!Bare => L!SourceOf(x) = x.op.refs[x.ref].source
  BY <1>1, LookGoal
<1>3. x.ref = 1
  <2>1. x.op.refs \in Seq(L!Refs)
    BY DEF L!AskerStates, L!Operations
  <2>2. DOMAIN x.op.refs = 1..1
    BY <1>1, <2>1, LenProperties
  <2> QED
    BY <1>1, <2>2 DEF L!Aims, L!Askers
<1>4. L!IsTrue(L!Goal(x), x.ret, W)
  BY <1>1 DEF L!Told, L!Stands
<1>5. x.at \in DOMAIN OfGroups.Order /\ DOMAIN OfGroups.Order = 1..Len(OfGroups.Order)
      /\ Len(OfGroups.Order) \in Nat
  BY <1>1, LookConstants DEF L!Aims
<1>6. /\ ref \in L!Refs /\ L!Goal(x).group = ref.group
      /\ ref.source = L!Bare => L!Goal(x).source = OfGroups.Order[x.at]
      /\ ref.source # L!Bare => L!Goal(x).source = ref.source
  BY <1>2, <1>3
<1>7. x.ret.what = "ok" => x.ret.from = L!Goal(x).source
  BY <1>2, <1>4 DEF L!IsTrue
<1>8. x.ret.what = "not_defined" => <<L!Goal(x).source, ref.group>> \in W
  BY <1>2, <1>4, <1>6 DEF L!IsTrue
<1>9. ref.source = L!Bare => \A i \in 1..(x.at - 1) : <<OfGroups.Order[i], ref.group>> \in W
  BY <1>1 DEF L!Told
<1>10. ASSUME x.ret.what = "ok"
       PROVE  x.ret.from \in L!Sources /\ ref.source \in {L!Bare, x.ret.from}
  <2>1. L!Goal(x).source \in L!Sources
    BY <1>2 DEF L!Keys
  <2> QED
    BY <1>6, <1>7, <1>10, <2>1
<1>11. ASSUME x.ret.what = "ok", ref.source = L!Bare
       PROVE  L!Before(x.ret.from) \X {ref.group} \subseteq W
  <2>1. x.ret.from = OfGroups.Order[x.at]
    BY <1>6, <1>7, <1>11
  <2>2. ASSUME NEW s \in L!Before(x.ret.from) PROVE <<s, ref.group>> \in W
    <3>1. PICK i \in DOMAIN OfGroups.Order : s = OfGroups.Order[i]
          /\ \E j \in DOMAIN OfGroups.Order : i < j /\ OfGroups.Order[j] = OfGroups.Order[x.at]
      BY <2>1, <2>2 DEF L!Before
    <3>2. i < x.at
      BY <1>5, <3>1, LookConstants
    <3>3. i \in 1..(x.at - 1)
      BY <1>5, <3>1, <3>2
    <3> QED
      BY <1>9, <1>11, <3>1, <3>3
  <2> QED
    BY <2>2
<1>12. ASSUME x.ret.what = "not_defined", ref.source = L!Bare
       PROVE  L!Sources \X {ref.group} \subseteq W
  <2>1. x.at = Len(OfGroups.Order)
    BY <1>3, <1>5, <1>12
  <2>2. ASSUME NEW s \in L!Sources PROVE <<s, ref.group>> \in W
    <3>1. PICK i \in 1..Len(OfGroups.Order) : s = OfGroups.Order[i]
      BY DEF L!Sources
    <3>2. CASE i = x.at
      BY <1>6, <1>8, <1>12, <3>1, <3>2
    <3>3. CASE i # x.at
      <4>1. i <= x.at /\ x.at \in Nat /\ i \in Nat /\ i >= 1
        BY <1>5, <2>1, <3>1
      <4>2. i \in 1..(x.at - 1)
        BY <3>3, <4>1
      <4> QED
        BY <1>9, <1>12, <3>1, <4>2
    <3> QED
      BY <3>2, <3>3
  <2> QED
    BY <2>2
<1>13. ASSUME x.ret.what = "not_defined", ref.source # L!Bare
       PROVE  {ref.source} \X {ref.group} \subseteq W
  BY <1>6, <1>8, <1>13
<1> QED
  BY <1>10, <1>11, <1>12, <1>13 DEF L!IsAnswered

LEMMA LookAfter ==
  ASSUME L!Inv, NEW a \in L!Askers, v1[a].pc = "ret", v1[a].stack = <<>>, v1[a].op.kind = "expr"
  PROVE  LET x == v1[a]  y == After(a, x) IN
         /\ y \in L!AskerStates /\ L!Sound(a, y, v2, v8) /\ FliesNot(y) /\ FliesNot(x)
         /\ y.op = x.op /\ y.first = x.first /\ y.pc \in {"ask", "ret", "over"}
         /\ y.pc = "over" => y.ret = x.ret
         /\ x.ret \in L!Answers /\ x.ret.what # "none"
<1> DEFINE x == v1[a]
           y == After(a, x)
<1>1. /\ x \in L!AskerStates /\ L!Sound(a, x, v2, v8) /\ L!Aims(a, x) /\ L!Told(x, v2, v8)
      /\ x.pc = "ret" /\ x.stack = <<>> /\ x.op.kind = "expr" /\ x.op = v1[a].op
  BY DEF L!Inv, L!Values, L!SoundInv, L!Sound
<1> HIDE DEF x
<1>2. x.ret \in L!Answers /\ x.ret.what # "none"
  BY <1>1 DEF L!AskerStates, L!Told
<1>3. x.op.refs \in Seq(L!Refs) /\ DOMAIN x.op.refs = 1..Len(x.op.refs) /\ Len(x.op.refs) \in Nat
  <2>1. x.op.refs \in Seq(L!Refs)
    BY <1>1 DEF L!AskerStates, L!Operations
  <2> QED
    BY <2>1, LenProperties
<1>4. x.at \in 1..Len(OfGroups.Order) /\ Len(OfGroups.Order) \in Nat
      /\ DOMAIN OfGroups.Order = 1..Len(OfGroups.Order) /\ x.ref \in Nat \ {0}
  BY <1>1, LookConstants DEF L!Aims, L!AskerStates
<1>5. /\ L!Goal(x).kind = "map" /\ L!Goal(x).source = L!SourceOf(x)
      /\ L!Goal(x).group = x.op.refs[x.ref].group
      /\ x.ref \in DOMAIN x.op.refs
      /\ x.op.refs[x.ref].source = L!Bare => L!SourceOf(x) = OfGroups.Order[x.at]
  BY <1>1, LookGoal
<1>6. FliesNot(x)
  BY <1>1, LookFlown DEF FliesNot
<1>7. L!Single(x) => L!Stands(L!Goal(x), x.ret, v2, v8)
  BY <1>1 DEF L!Told
<1>8. CASE L!GoesOn(x.ret) /\ x.op.refs[x.ref].source = L!Bare /\ x.at < Len(OfGroups.Order)
  <2> DEFINE z == [x EXCEPT !.at = x.at + 1]
             q == [z EXCEPT !.pc = "ask"]
  <2>1. y = L!Resolve(a, z)
    BY <1>1, <1>8 DEF After, L!AskerStates
  <2>2. /\ z \in L!AskerStates /\ z.op = x.op /\ z.first = x.first /\ z.stack = <<>>
        /\ z.at = x.at + 1 /\ z.ref = x.ref
    BY <1>1, <1>4 DEF L!AskerStates
  <2>3. q.op = x.op /\ q.ref = x.ref /\ q.at = x.at + 1 /\ q.pc = "ask"
    BY <1>1, <1>4 DEF L!AskerStates
  <2> HIDE DEF q
  <2>4. L!Aims(a, q)
    BY <1>1, <1>4, <1>8, <2>3 DEF L!Aims
  <2>5. ASSUME L!Single(z), z.op.refs[1].source = L!Bare, NEW i \in 1..(z.at - 1)
        PROVE  <<OfGroups.Order[i], z.op.refs[1].group>> \in v8
    <3>1. L!Single(x) /\ x.op.refs[1].source = L!Bare /\ Len(x.op.refs) = 1
      BY <2>2, <2>5 DEF L!Single
    <3>2. x.ref = 1
      BY <1>3, <1>5, <3>1
    <3>3. CASE i = x.at
      <4>1. L!IsTrue(L!Goal(x), x.ret, v8) /\ x.ret.what = "not_defined"
        BY <1>7, <1>8, <3>1 DEF L!Stands, L!GoesOn
      <4>2. <<L!Goal(x).source, L!Goal(x).group>> \in v8
        BY <1>5, <4>1 DEF L!IsTrue
      <4> QED
        BY <1>5, <2>2, <3>1, <3>2, <3>3, <4>2
    <3>4. CASE i # x.at
      <4>1. i \in 1..(x.at - 1)
        BY <1>4, <2>2, <3>4
      <4> QED
        BY <1>1, <2>2, <3>1, <4>1 DEF L!Told
    <3> QED
      BY <3>3, <3>4
  <2>6. z.op.kind = "expr" /\ z.op = v1[a].op
    BY <1>1, <2>2
  <2> HIDE DEF z, y
  <2>7. L!Aims(a, [z EXCEPT !.pc = "ask"])
    BY <2>4 DEF q
  <2>8. LET w == L!Resolve(a, z) IN
        /\ w \in L!AskerStates /\ L!Sound(a, w, v2, v8) /\ FliesNot(w)
        /\ w.op = z.op /\ w.first = z.first /\ w.pc \in {"ask", "ret"}
    BY <2>2, <2>5, <2>6, <2>7, LookResolves
  <2> QED
    BY <1>2, <1>6, <2>1, <2>2, <2>8 DEF x, y
<1>9. CASE /\ ~(L!GoesOn(x.ret) /\ x.op.refs[x.ref].source = L!Bare /\ x.at < Len(OfGroups.Order))
           /\ x.ret.what = "ok" /\ x.ref < Len(x.op.refs)
  <2> DEFINE z == [x EXCEPT !.at = 1, !.ref = x.ref + 1]
             q == [z EXCEPT !.pc = "ask"]
  <2>1. y = L!Resolve(a, z)
    BY <1>1, <1>9 DEF After, L!AskerStates
  <2>20. z \in L!AskerStates /\ z.op = x.op /\ z.first = x.first /\ z.stack = <<>> /\ z.at = 1
         /\ z.ref = x.ref + 1
    <3> DEFINE w == [x EXCEPT !.at = 1]
               r == x.ref + 1
    <3>1. w \in L!AskerStates /\ w.op = x.op /\ w.first = x.first /\ w.stack = x.stack
          /\ w.at = 1 /\ w.ref = x.ref
      BY <1>1 DEF L!AskerStates
    <3>2. z = [w EXCEPT !.ref = r]
      OBVIOUS
    <3>0. r \in Nat \ {0}
      BY <1>4
    <3> HIDE DEF w, z, r
    <3>3. z \in L!AskerStates /\ z.op = w.op /\ z.first = w.first /\ z.stack = w.stack
          /\ z.at = w.at /\ z.ref = r
      BY <3>0, <3>1, <3>2 DEF L!AskerStates
    <3> QED
      BY <1>1, <3>1, <3>3 DEF r
  <2>3. q.op = x.op /\ q.ref = x.ref + 1 /\ q.at = 1 /\ q.pc = "ask"
    <3>1. q = [z EXCEPT !.pc = "ask"]
      OBVIOUS
    <3> HIDE DEF q, z
    <3> QED
      BY <2>20, <3>1 DEF L!AskerStates
  <2>40. x.ref < Len(x.op.refs)
    BY <1>9
  <2>4. Len(x.op.refs) # 1 /\ x.ref + 1 \in DOMAIN x.op.refs
    <3> DEFINE n == Len(x.op.refs)
               r == x.ref
    <3>1. n \in Nat /\ r \in Nat /\ r # 0 /\ r < n /\ DOMAIN x.op.refs = 1..n
      BY <1>3, <1>4, <2>40
    <3> HIDE DEF n, r
    <3>2. n # 1 /\ r + 1 \in 1..n
      BY <3>1
    <3> QED
      BY <3>1, <3>2 DEF n, r
  <2> HIDE DEF q
  <2>5. L!Aims(a, q)
    <3>1. a \notin L!Children
      BY <1>1, <2>4 DEF L!Aims
    <3> QED
      BY <1>1, <1>4, <2>3, <2>4, <3>1 DEF L!Aims
  <2>6. z.op.kind = "expr" /\ z.op = v1[a].op /\ ~L!Single(z)
    BY <1>1, <2>20, <2>4 DEF L!Single
  <2> HIDE DEF z, y
  <2>7. L!Aims(a, [z EXCEPT !.pc = "ask"])
    BY <2>5 DEF q
  <2>8. LET w == L!Resolve(a, z) IN
        /\ w \in L!AskerStates /\ L!Sound(a, w, v2, v8) /\ FliesNot(w)
        /\ w.op = z.op /\ w.first = z.first /\ w.pc \in {"ask", "ret"}
    BY <2>20, <2>6, <2>7, LookResolves
  <2> QED
    BY <1>2, <1>6, <2>1, <2>20, <2>8 DEF x, y
<1>10. CASE
            /\ ~(L!GoesOn(x.ret) /\ x.op.refs[x.ref].source = L!Bare /\ x.at < Len(OfGroups.Order))
            /\ ~(x.ret.what = "ok" /\ x.ref < Len(x.op.refs))
  <2>1. y = [x EXCEPT !.pc = "over", !.ret = x.ret]
    BY <1>10 DEF After, L!Over
  <2>2. /\ y \in L!AskerStates /\ y.op = x.op /\ y.first = x.first /\ y.pc = "over" /\ y.ret = x.ret
        /\ y.stack = <<>> /\ y.ref = x.ref /\ y.at = x.at
    BY <1>1, <2>1 DEF L!AskerStates, L!PCs
  <2> HIDE DEF y
  <2>3. L!Aims(a, y)
    BY <1>1, <2>2 DEF L!Aims
  <2>4. L!Nested(y)
    BY <2>2 DEF L!Nested, L!Looking
  <2>5. L!Single(x) => L!IsAnswered(x, v8)
    BY <1>1, <1>10, LookIsAnswered DEF L!GoesOn
  <2>6. L!Single(y) <=> L!Single(x)
    BY <2>2 DEF L!Single
  <2>7. L!Single(y) => L!IsAnswered(y, v8)
    BY <2>2, <2>5, <2>6 DEF L!IsAnswered
  <2>8. L!Told(y, v2, v8)
    <3>1. Len(<<>>) = 0
      OBVIOUS
    <3>2. Len(y.stack) # 2
      BY <2>2, <3>1
    <3> QED
      BY <1>1, <1>2, <2>2, <2>6, <2>7, <3>2 DEF L!Told
  <2>9. FliesNot(y)
    BY <2>2, LookFlown DEF FliesNot
  <2> QED
    BY <1>2, <1>6, <2>2, <2>3, <2>4, <2>8, <2>9 DEF L!Sound, x, y
<1> QED
  BY <1>8, <1>9, <1>10

\* The first failure of a union is noted.
LEMMA LookFirst ==
  ASSUME NEW a, NEW x \in L!AskerStates, NEW f \in L!Answers, NEW K, NEW W, L!Sound(a, x, K, W)
  PROVE  LET y == [x EXCEPT !.first = f] IN
         /\ y \in L!AskerStates /\ L!Sound(a, y, K, W) /\ L!Flown(y) = L!Flown(x)
         /\ y.pc = x.pc /\ y.op = x.op /\ y.at = x.at /\ y.found = x.found /\ y.lost = x.lost
         /\ y.first = f
         /\ y.stack = x.stack
<1> DEFINE y == [x EXCEPT !.first = f]
<1>1. /\ y \in L!AskerStates
      /\ y.pc = x.pc /\ y.op = x.op /\ y.at = x.at /\ y.found = x.found /\ y.lost = x.lost
      /\ y.first = f
      /\ y.stack = x.stack /\ y.ref = x.ref /\ y.ret = x.ret /\ y.err = x.err
  BY DEF L!AskerStates
<1>2. L!Aims(a, x) /\ L!Nested(x) /\ L!Told(x, K, W)
  BY DEF L!Sound
<1> HIDE DEF y
<1>3. L!SourceOf(y) = L!SourceOf(x) /\ (L!Single(y) <=> L!Single(x)) /\ L!Flown(y) = L!Flown(x)
  BY <1>1 DEF L!SourceOf, L!Single, L!Flown
<1>4. L!Goal(y) = L!Goal(x)
  BY <1>1, <1>3 DEF L!Goal
<1>5. L!Aims(a, y)
  BY <1>1, <1>2 DEF L!Aims
<1>6. L!Nested(y)
  BY <1>1, <1>2, <1>4 DEF L!Nested
<1>7. L!IsAnswered(x, W) => L!IsAnswered(y, W)
  BY <1>1 DEF L!IsAnswered
<1>8. L!Told(y, K, W)
  BY <1>1, <1>2, <1>3, <1>4, <1>7 DEF L!Told
<1> QED
  BY <1>1, <1>3, <1>5, <1>6, <1>8 DEF L!Sound, y

\* A child that goes on by itself, and tells its union when it failed.
LEMMA LookChild ==
  ASSUME L!Inv, NEW a \in L!Children, NEW y \in L!AskerStates, L!Sound(a, y, v2, v8),
         FliesNot(y), FliesNot(v1[a]), v1[a].pc \in {"ready", "ret"},
           y.pc \in {"ask", "ret", "over"},
         v1[L!Parent(a)].pc = "pool",
         NEW f \in L!Answers, f = v1[L!Parent(a)].first \/ f.what \notin {"ok", "none"},
         f = L!NoAnswer => v1[L!Parent(a)].first = L!NoAnswer,
         y.pc = "over" /\ y.ret.what # "ok" /\ v1[L!Parent(a)].op.kind = "all" => f # L!NoAnswer,
         v1' = [b \in L!Askers |-> IF b = a THEN y
                                   ELSE IF b
                                     = L!Parent(a) THEN [v1[b] EXCEPT !.first = f] ELSE v1[b]],
         UNCHANGED <<v2, v3, v4, v5, v6, L!world>>
  PROVE  L!Inv'
<1> DEFINE p == L!Parent(a)
           z == [v1[p] EXCEPT !.first = f]
<1>0. /\ L!Values /\ L!SoundInv /\ L!KeptInv /\ L!FlightInv /\ L!PlaceInv /\ L!PoolInv
      /\ L!UnionInv /\ L!GroupsInv /\ L!UnionIsWhole
      /\ v1 \in [L!Askers -> L!AskerStates]
  BY DEF L!Inv, L!Values
<1>1. /\ v8' = v8 /\ v7' = v7 /\ v6' = v6 /\ v9' = v9
      /\ v2' = v2 /\ v4' = v4 /\ v5' = v5 /\ v3' = v3
  BY DEF L!world
<1>2. /\ a \in L!Askers /\ a \notin OfGroups.Callers /\ p \in OfGroups.Callers /\ p \in L!Askers
      /\ p \notin L!Children /\ a # p
      /\ a = <<p, a[2]>> /\ a[2] \in OfGroups.Groups
  BY LookAskers, LookConstants
<1>3. /\ z \in L!AskerStates /\ L!Sound(p, z, v2, v8) /\ L!Flown(z) = L!Flown(v1[p])
      /\ z.pc = "pool" /\ z.op = v1[p].op /\ z.at = v1[p].at /\ z.found = v1[p].found
      /\ z.lost = v1[p].lost /\ z.first = f
  <2>1. v1[p] \in L!AskerStates /\ L!Sound(p, v1[p], v2, v8)
    BY <1>0, <1>2 DEF L!SoundInv
  <2> QED
    BY <2>1, LookFirst
<1>4. v1'[a] = y /\ v1'[p] = z
  BY <1>2
<1>5. \A b \in L!Askers \ {a, p} : v1'[b] = v1[b]
  OBVIOUS
<1> HIDE DEF p, z
<1>6. L!Values'
  <2>1. v1' = [b \in L!Askers |-> v1'[b]]
    OBVIOUS
  <2>2. \A b \in L!Askers : v1'[b] \in L!AskerStates
    BY <1>0, <1>3, <1>4, <1>5
  <2>3. v1' \in [L!Askers -> L!AskerStates]
    BY <2>1, <2>2
  <2> QED
    BY <1>0, <1>1, <2>3 DEF L!Values
<1>7. L!SoundInv' /\ L!KeptInv'
  <2>1. \A b \in L!Askers : L!Sound(b, v1'[b], v2, v8)
    BY <1>0, <1>3, <1>4, <1>5 DEF L!SoundInv
  <2> QED
    BY <1>0, <1>1, <2>1 DEF L!SoundInv, L!KeptInv
<1>8. L!FlightInv'
  <2>1. \A b \in L!Askers : L!Flown(v1'[b]) = L!Flown(v1[b])
    BY <1>3, <1>4, <1>5 DEF FliesNot
  <2> QED
    BY <1>0, <1>1, <2>1, LookStays
<1>9. L!PlaceInv'
  <2>1. v4[a] = L!NoHost /\ v4[p] = L!NoHost
    BY <1>2, LookDisk DEF p
  <2>2. \A b \in L!Askers : v1'[b].pc \in {"place", "run"} => v1'[b] = v1[b]
    BY <1>3, <1>4, <1>5
  <2>3. \A b \in L!Askers : v4'[b] # L!NoHost => v1'[b].pc \in {"place", "run"}
    BY <1>1, <1>5, <2>1, LookDisk
  <2> QED
    BY <1>0, <1>1, <2>2, <2>3, LookPlaces
<1>10. \A b \in L!Children : b \in L!Askers /\ b # p /\ L!Parent(b) \in OfGroups.Callers
       /\ L!Parent(b) \in L!Askers /\ L!Parent(b) # a
  BY <1>2, LookAskers
<1>11. L!PoolInv'
  <2> SUFFICES ASSUME NEW b \in L!Children
               PROVE  /\ \/ v1'[b].pc \in {"idle", "over"} \/ v1'[L!Parent(b)].pc = "pool"
                         \/ v1'[b].pc = "ready" /\ v6'
                      /\ L!Single(v1'[L!Parent(b)]) => v1'[b].pc = "idle"
    BY DEF L!PoolInv
  <2>1. CASE L!Parent(b) = p
    <3>1. ~L!Single(v1[p])
      BY <1>0, <1>2 DEF L!PoolInv, p
    <3>2. ~L!Single(z)
      BY <1>3, <3>1 DEF L!Single
    <3> QED
      BY <1>3, <1>4, <2>1, <3>2
  <2>2. CASE L!Parent(b) # p
    <3>1. b # a
      BY <2>2 DEF p
    <3>2. v1'[b] = v1[b] /\ v1'[L!Parent(b)] = v1[L!Parent(b)]
      BY <1>5, <1>10, <2>2, <3>1
    <3> QED
      BY <1>0, <1>1, <3>2 DEF L!PoolInv
  <2> QED
    BY <2>1, <2>2
<1>12. ASSUME NEW d \in OfGroups.Callers,
              NEW g \in OfGroups.Groups PROVE <<d, g>> = a \/ v1'[<<d, g>>] = v1[<<d, g>>]
  <2> DEFINE b == <<d, g>>
  <2>1. b \in L!Children
    BY LookAskers
  <2> HIDE DEF b
  <2>2. b \in L!Askers /\ b # p
    BY <1>10, <2>1
  <2>3. b = a \/ v1'[b] = v1[b]
    BY <1>5, <2>2
  <2> QED
    BY <2>3 DEF b
<1>13. \A d \in OfGroups.Callers : L!Items(d)' = L!Items(d)
  <2>1. v1[a].pc # "idle" /\ v1'[a].pc # "idle"
    BY <1>4
  <2>2. \A d \in OfGroups.Callers : \A g \in OfGroups.Groups : v1'[<<d, g>>].pc = "idle"
        <=> v1[<<d, g>>].pc = "idle"
    BY <1>12, <2>1
  <2> QED
    BY <2>2 DEF L!Items
<1>14. \A d \in OfGroups.Callers : d = p \/ v1'[d] = v1[d]
  BY <1>2, <1>5, LookAskers
<1>15. L!UnionInv'
  <2>1. \A d \in OfGroups.Callers : v1'[d].first = L!NoAnswer
        \/ v1'[d].first.what \notin {"ok", "none"}
    BY <1>0, <1>2, <1>3, <1>4, <1>14 DEF L!UnionInv, p
  <2>2. ASSUME NEW d \in OfGroups.Callers, v1'[d].pc = "pool", v1'[d].op.kind = "all",
               NEW s, s = v1'[d].op.source, NEW l, l = L!cacheKey(s, "list", L!NoGroup)
        PROVE  /\ s \in OfGroups.Static => L!Items(d)' = {g \in OfGroups.Groups : <<s, g>> \in v7'}
               /\ s \notin OfGroups.Static => l \in DOMAIN v2' /\ L!Items(d)' = v2'[l].names
               /\ \A g \in OfGroups.Groups : v1'[<<d, g>>].pc = "over"
                  /\ v1'[<<d, g>>].ret.what # "ok"
                                      => v1'[d].first # L!NoAnswer
    <3>1. v1[d].pc = "pool" /\ v1[d].op = v1'[d].op
      BY <1>3, <1>4, <1>14, <2>2 DEF p
    <3>2. /\ s \in OfGroups.Static => L!Items(d) = L!Has(s)
          /\ s \notin OfGroups.Static => l \in DOMAIN v2 /\ L!Items(d) = v2[l].names
          /\ \A g \in OfGroups.Groups : v1[<<d, g>>].pc = "over" /\ v1[<<d, g>>].ret.what # "ok"
             => v1[d].first # L!NoAnswer
      BY <1>0, <2>2, <3>1 DEF L!UnionInv
    <3>3. L!Items(d)' = L!Items(d)
      BY <1>13
    <3>4. ASSUME NEW g \in OfGroups.Groups, v1'[<<d, g>>].pc = "over", v1'[<<d, g>>].ret.what # "ok"
          PROVE  v1'[d].first # L!NoAnswer
      <4>1. CASE <<d, g>> = a
        <5>1. d = p
          BY <1>2, <4>1
        <5> QED
          BY <1>3, <1>4, <2>2, <3>1, <3>4, <4>1, <5>1 DEF p
      <4>2. CASE <<d, g>> # a
        <5>1. v1'[<<d, g>>] = v1[<<d, g>>]
          BY <1>12, <4>2
        <5>2. v1[d].first # L!NoAnswer
          BY <3>2, <3>4, <5>1
        <5> QED
          BY <1>3, <1>4, <1>14, <5>2 DEF p
      <4> QED
        BY <4>1, <4>2
    <3> QED
      BY <1>1, <3>2, <3>3, <3>4 DEF L!Has
  <2> QED
    BY <2>1, <2>2 DEF L!UnionInv, L!Has
<1>16. L!GroupsInv'
  <2> SUFFICES ASSUME NEW d \in OfGroups.Callers, v1'[d].op.kind = "groups_of"
               PROVE  LET q == v1'[d] IN
                /\ ~q.lost => \A i \in 1..(q.at - 1) : L!Shown(OfGroups.Order[i], q.found, v8')
                /\ ~q.lost /\ q.pc = "over"
                   => L!Shown(OfGroups.Order[q.at], q.found, v8') /\ q.at = Len(OfGroups.Order)
                /\ q.pc = "pool"
                   => L!Shown(OfGroups.Order[q.at], {OfGroups.Order[q.at]} \X L!Items(d)', v8')
                /\ q.pc \in L!Looking \cup {"ret"} => OfGroups.Order[q.at] \in OfGroups.Listing
    BY DEF L!GroupsInv
  <2>1. /\ v1'[d].op = v1[d].op /\ v1'[d].lost = v1[d].lost /\ v1'[d].at = v1[d].at
        /\ v1'[d].found = v1[d].found /\ v1'[d].pc = v1[d].pc
    <3>1. v1'[p].pc = v1[p].pc
      BY <1>3, <1>4 DEF p
    <3> QED
      BY <1>3, <1>4, <1>14, <3>1
  <2>2. L!Items(d)' = L!Items(d)
    BY <1>13
  <2> QED
    BY <1>0, <1>1, <2>1, <2>2 DEF L!GroupsInv
<1>17. L!UnionIsWhole'
  BY <1>0, <1>1 DEF L!UnionIsWhole, L!Has
<1> QED
  BY <1>6, <1>7, <1>8, <1>9, <1>11, <1>15, <1>16, <1>17 DEF L!Inv

\* An asker of an expression that comes to its first reference.
LEMMA LookReady ==
  ASSUME L!Inv, NEW a \in L!Askers, v1[a].stack = <<>>, v1[a].op.kind = "expr",
         a \in OfGroups.Callers \/ v1[a].pc # "idle"
  PROVE  LET x == v1[a]  y == L!Resolve(a, x) IN
         /\ y \in L!AskerStates /\ L!Sound(a, y, v2, v8) /\ FliesNot(y) /\ FliesNot(x)
         /\ y.op = x.op /\ y.first = x.first /\ y.pc \in {"ask", "ret"}
<1> DEFINE x == v1[a]
           q == [x EXCEPT !.pc = "ask"]
<1>1. x \in L!AskerStates /\ L!Aims(a, x) /\ L!Told(x, v2, v8) /\ x.op = v1[a].op
      /\ x.stack = <<>> /\ x.op.kind = "expr"
  BY DEF L!Inv, L!Values, L!SoundInv, L!Sound
<1>2. q.op = x.op /\ q.ref = x.ref /\ q.at = x.at /\ q.pc = "ask"
  BY <1>1 DEF L!AskerStates
<1>3. a \in OfGroups.Callers => a \notin L!Children
  BY LookConstants
<1>4. a \in OfGroups.Callers \/ x.pc # "idle"
  OBVIOUS
<1>5. L!Single(x) /\ x.op.refs[1].source = L!Bare
      => \A i \in 1..(x.at - 1) : <<OfGroups.Order[i], x.op.refs[1].group>> \in v8
  BY <1>1 DEF L!Told
<1>6. FliesNot(x)
  BY <1>1, LookFlown DEF FliesNot
<1> HIDE DEF x, q
<1>7. L!Aims(a, q)
  BY <1>1, <1>2, <1>3, <1>4 DEF L!Aims
<1>8. L!Aims(a, [x EXCEPT !.pc = "ask"])
  BY <1>7 DEF q
<1>9. LET y == L!Resolve(a, x) IN
      /\ y \in L!AskerStates /\ L!Sound(a, y, v2, v8) /\ FliesNot(y)
      /\ y.op = x.op /\ y.first = x.first /\ y.pc \in {"ask", "ret"}
  BY <1>1, <1>5, <1>8, LookResolves
<1> QED
  BY <1>6, <1>9 DEF x

LEMMA LookStartItem ==
  ASSUME L!Inv, NEW a, L!StartItem(a)
  PROVE  L!Inv'
<1> DEFINE x == v1[a]
           y == L!Resolve(a, x)
           p == L!Parent(a)
           f == v1[p].first
<1>1. /\ a \in L!Children /\ x.pc = "ready" /\ ~L!Ended(a) /\ v1' = [v1 EXCEPT ![a] = y]
      /\ UNCHANGED <<v2, v3, v4, v5, v6, L!world>>
  BY DEF L!StartItem
<1>2. a \in L!Askers /\ a \notin OfGroups.Callers /\ p \in OfGroups.Callers /\ p \in L!Askers
      /\ a # p
  BY <1>1, LookAskers
<1>3. v1[p].pc = "pool"
  BY <1>1 DEF L!Inv, L!PoolInv, L!Ended
<1>4. x.stack = <<>> /\ FliesNot(x)
  BY <1>1, LookResting
<1>5. x.op.kind = "expr"
  BY <1>1, <1>2 DEF L!Inv, L!SoundInv, L!Sound, L!Aims
<1>6. y \in L!AskerStates /\ L!Sound(a, y, v2, v8) /\ FliesNot(y) /\ y.pc \in {"ask", "ret"}
  BY <1>1, <1>2, <1>4, <1>5, LookReady
<1> HIDE DEF y
<1>7. v1 \in [L!Askers -> L!AskerStates] /\ f \in L!Answers
  BY <1>2 DEF L!Inv, L!Values, L!AskerStates
<1>8. [v1[p] EXCEPT !.first = f] = v1[p]
  <2> DEFINE z == v1[p]
  <2>1. z \in L!AskerStates
    BY <1>2, <1>7
  <2> HIDE DEF z
  <2>2. [z EXCEPT !.first = z.first] = z
    BY <2>1 DEF L!AskerStates
  <2> QED
    BY <2>2 DEF z
<1>9. v1' = [b \in L!Askers |-> IF b = a THEN y ELSE IF b = p THEN [v1[b] EXCEPT !.first
      = f] ELSE v1[b]]
  BY <1>1, <1>7, <1>8
<1>10. f = v1[p].first /\ y.pc # "over" /\ y.pc \in {"ask", "ret", "over"}
       /\ x.pc \in {"ready", "ret"}
  BY <1>1, <1>6
<1> HIDE DEF f
<1> QED
  BY <1>1, <1>3, <1>4, <1>6, <1>7, <1>9, <1>10, LookChild

\* An asker of an expression has an answer.
LEMMA LookResolvedChild ==
  ASSUME L!Inv, NEW a \in L!Children, L!Resolved(a)
  PROVE  L!Inv'
<1> DEFINE x == v1[a]
           y == After(a, x)
           p == L!Parent(a)
           stops == L!UnionOf(a) /\ y.pc = "over" /\ y.ret.what # "ok"
           f == IF stops /\ v1[p].first = L!NoAnswer THEN x.ret ELSE v1[p].first
<1>1. /\ x.pc = "ret" /\ x.stack = <<>> /\ x.op.kind = "expr"
      /\ v1' = [b \in L!Askers |->
           IF b = a THEN y
           ELSE IF stops /\ b = p /\ v1[b].first = L!NoAnswer THEN [v1[b] EXCEPT !.first = x.ret]
           ELSE v1[b]]
      /\ UNCHANGED <<v2, v3, v4, v5, v6, L!world>>
  BY DEF L!Resolved, After
<1>2. a \in L!Askers /\ a \notin OfGroups.Callers /\ p \in OfGroups.Callers /\ p \in L!Askers
      /\ a # p
  BY LookAskers
<1>3. /\ y \in L!AskerStates /\ L!Sound(a, y, v2, v8) /\ FliesNot(y) /\ FliesNot(x)
      /\ y.pc \in {"ask", "ret", "over"} /\ (y.pc = "over" => y.ret = x.ret)
      /\ x.ret \in L!Answers /\ x.ret.what # "none"
  BY <1>1, <1>2, LookAfter
<1>4. v1[p].pc = "pool"
  BY <1>1 DEF L!Inv, L!PoolInv
<1>5. v1[p] \in L!AskerStates /\ L!Nested(v1[p])
  BY <1>2 DEF L!Inv, L!Values, L!SoundInv, L!Sound
<1>6. v1[p].op.kind = "all" => L!UnionOf(a)
  BY <1>4, <1>5, LookStacks DEF L!Nested, L!UnionOf
<1>7. L!NoAnswer.what = "none"
  BY LookErrors
<1>8. /\ f \in L!Answers
      /\ f = v1[p].first \/ f.what \notin {"ok", "none"}
      /\ f = L!NoAnswer => v1[p].first = L!NoAnswer
      /\ y.pc = "over" /\ y.ret.what # "ok" /\ v1[p].op.kind = "all" => f # L!NoAnswer
  <2>1. v1[p].first \in L!Answers
    BY <1>5 DEF L!AskerStates
  <2> HIDE DEF x, y, p
  <2> QED
    BY <1>3, <1>6, <1>7, <2>1
<1>9. stops /\ v1[p].first = L!NoAnswer => f = x.ret
  OBVIOUS
<1>10. ~(stops /\ v1[p].first = L!NoAnswer) => f = v1[p].first
  OBVIOUS
<1>11. [v1[p] EXCEPT !.first = v1[p].first] = v1[p]
  <2> DEFINE z == v1[p]
  <2>1. z \in L!AskerStates
    BY <1>5
  <2> HIDE DEF z
  <2>2. [z EXCEPT !.first = z.first] = z
    BY <2>1 DEF L!AskerStates
  <2> QED
    BY <2>2 DEF z
<1>12. v1' = [b \in L!Askers |-> IF b = a THEN y ELSE IF b = p THEN [v1[b] EXCEPT !.first
       = f] ELSE v1[b]]
  <2> HIDE DEF y, f, stops
  <2>1. CASE stops /\ v1[p].first = L!NoAnswer
    BY <1>1, <1>9, <2>1
  <2>2. CASE ~(stops /\ v1[p].first = L!NoAnswer)
    BY <1>1, <1>10, <1>11, <2>2
  <2> QED
    BY <2>1, <2>2
<1>13. x.pc \in {"ready", "ret"}
  BY <1>1
<1> HIDE DEF f, y, stops
<1> QED
  BY <1>1, <1>3, <1>4, <1>8, <1>12, <1>13, LookChild

LEMMA LookResolvedCaller ==
  ASSUME L!Inv, NEW c \in OfGroups.Callers, L!Resolved(c)
  PROVE  L!Inv'
<1> DEFINE x == v1[c]
           y == After(c, x)
<1>1. c \in L!Askers /\ c \notin L!Children
  BY LookAskers, LookConstants
<1>2. /\ x.pc = "ret" /\ x.stack = <<>> /\ x.op.kind = "expr"
      /\ v1' = [b \in L!Askers |-> IF b = c THEN y ELSE v1[b]]
      /\ UNCHANGED <<v2, v3, v4, v5, v6, L!world>>
  BY <1>1 DEF L!Resolved, After
<1>3. /\ y \in L!AskerStates /\ L!Sound(c, y, v2, v8) /\ FliesNot(y) /\ FliesNot(x)
      /\ y.op = x.op /\ y.first = x.first /\ y.pc \in {"ask", "ret", "over"}
  BY <1>1, <1>2, LookAfter
<1> HIDE DEF y
<1>4. v1' = [v1 EXCEPT ![c] = y]
  BY <1>2 DEF L!Inv, L!Values
<1>5. L!Flown(y) = L!Flown(x)
  BY <1>3 DEF FliesNot
<1>6. y.op.kind # "groups_of" /\ y.pc \notin {"pool", "place", "run"}
      /\ x.pc \notin {"pool", "place", "run"}
  BY <1>2, <1>3
<1> QED
  BY <1>2, <1>3, <1>4, <1>5, <1>6, LookAlone

\* The items of a pool that is over.
LEMMA LookAllOver ==
  ASSUME L!Inv, NEW c \in OfGroups.Callers, L!AllOver(c), NEW g \in OfGroups.Groups
  PROVE  LET b == <<c, g>> IN
         /\ v1[b].pc \in {"idle", "over"} \/ (v1[b].pc = "ready" /\ L!Ended(b))
         /\ v1[b].stack = <<>> /\ FliesNot(v1[b]) /\ v4[b] = L!NoHost
<1> DEFINE b == <<c, g>>
<1>1. b \in L!Children /\ L!Parent(b) = c
  BY LookAskers
<1> HIDE DEF b
<1>2. v1[b].pc # "idle" => b \in L!ItemsOf(c)
  BY <1>1 DEF L!ItemsOf
<1>3. v1[b].pc \in {"idle", "over"} \/ (v1[b].pc = "ready" /\ L!Ended(b))
  BY <1>2 DEF L!AllOver
<1> QED
  BY <1>1, <1>3, LookResting DEF b

LEMMA LookPrefetchOver ==
  ASSUME L!Inv, NEW c \in OfGroups.Callers, L!PrefetchOver(c)
  PROVE  L!Inv'
<1> DEFINE x == v1[c]
           y == L!Resolve(c, x)
<1>1. /\ x.pc = "pool" /\ x.stack = <<>> /\ x.op.kind = "expr" /\ L!AllOver(c)
      /\ v1' = [v1 EXCEPT ![c] = y]
      /\ UNCHANGED <<v2, v3, v4, v5, v6, L!world>>
  BY DEF L!PrefetchOver
<1>2. c \in L!Askers
  BY LookAskers
<1>3. /\ y \in L!AskerStates /\ L!Sound(c, y, v2, v8) /\ FliesNot(y) /\ FliesNot(x)
      /\ y.op = x.op /\ y.first = x.first /\ y.pc \in {"ask", "ret"}
  BY <1>1, <1>2, LookReady
<1>4. \A g \in OfGroups.Groups : v1[<<c, g>>].pc \in {"idle", "over"}
      \/ (v1[<<c, g>>].pc = "ready" /\ v6)
  <2> SUFFICES ASSUME NEW g \in OfGroups.Groups
               PROVE  v1[<<c, g>>].pc \in {"idle", "over"} \/ (v1[<<c, g>>].pc = "ready" /\ v6)
    OBVIOUS
  <2>1. L!Parent(<<c, g>>) = c
    BY LookAskers
  <2>2. L!Ended(<<c, g>>) => v6
    BY <1>1, <2>1 DEF L!Ended, L!UnionOf
  <2> QED
    BY <1>1, <2>2, LookAllOver
<1> HIDE DEF y
<1>5. L!Flown(y) = L!Flown(x)
  BY <1>3 DEF FliesNot
<1>6. y.op.kind # "groups_of" /\ y.pc \notin {"pool", "place", "run"}
      /\ x.pc \notin {"place", "run"}
  BY <1>1, <1>3
<1> QED
  BY <1>1, <1>3, <1>4, <1>5, <1>6, LookAlone

\* A call as it stands, and what it would ask for.
LEMMA LookCall ==
  ASSUME L!Inv, NEW c \in OfGroups.Callers, v1[c].stack = <<>>
  PROVE  LET x == v1[c]  y == L!Asking(x, L!Goal(x)) IN
         /\ c \in L!Askers /\ c \notin L!Children /\ x \in L!AskerStates
         /\ L!Sound(c, x, v2, v8) /\ L!Aims(c, x) /\ L!Nested(x) /\ L!Told(x, v2, v8)
         /\ FliesNot(x) /\ x.op.kind \in {"expr", "all", "groups_of"}
         /\ y \in L!AskerStates /\ L!Sound(c, y, v2, v8) /\ FliesNot(y) /\ y.pc = "ask"
         /\ Same(x, y)
<1> DEFINE x == v1[c]
           q == [x EXCEPT !.pc = "ask"]
<1>1. c \in L!Askers /\ c \notin L!Children
  BY LookAskers, LookConstants
<1>2. x \in L!AskerStates /\ L!Sound(c, x, v2, v8) /\ x.stack = <<>>
  BY <1>1 DEF L!Inv, L!Values, L!SoundInv
<1> HIDE DEF x
<1>3. L!Aims(c, x) /\ L!Nested(x) /\ L!Told(x, v2, v8)
  BY <1>2 DEF L!Sound
<1>4. x.op.kind \in {"expr", "all", "groups_of"}
  BY <1>2 DEF L!AskerStates, L!Operations
<1>5. FliesNot(x)
  BY <1>2, LookFlown DEF FliesNot
<1>6. q.op = x.op /\ q.ref = x.ref /\ q.at = x.at /\ q.pc = "ask"
  BY <1>2 DEF L!AskerStates
<1> HIDE DEF q
<1>7. L!Aims(c, q)
  BY <1>1, <1>3, <1>6 DEF L!Aims
<1>8. L!Aims(c, [x EXCEPT !.pc = "ask"])
  BY <1>7 DEF q
<1>9. L!Single(x) /\ x.op.refs[1].source = L!Bare
      => \A i \in 1..(x.at - 1) : <<OfGroups.Order[i], x.op.refs[1].group>> \in v8
  BY <1>3 DEF L!Told
<1>10. LET y == L!Asking(x, L!Goal(x)) IN
       y \in L!AskerStates /\ L!Sound(c, y, v2, v8) /\ FliesNot(y) /\ y.pc = "ask" /\ Same(x, y)
  BY <1>1, <1>2, <1>8, <1>9, LookAsks
<1> QED
  BY <1>1, <1>2, <1>3, <1>4, <1>5, <1>10 DEF x

\* A call that moves on with nothing under way.
LEMMA LookOn ==
  ASSUME NEW c \in OfGroups.Callers, NEW x \in L!AskerStates, NEW y \in L!AskerStates, NEW K,
         NEW W, L!Sound(c, x, K, W),
         x.stack = <<>>, y.stack = <<>>, y.op = x.op, y.ref = x.ref, y.pc \in {"source", "over"},
           y.at \in DOMAIN OfGroups.Order,
         y.pc = "source" => y.op.kind = "groups_of", y.op.kind # "expr",
         y.op.kind # "groups_of" => y.ret.what # "none"
  PROVE  L!Sound(c, y, K, W) /\ FliesNot(y)
<1>1. c \notin L!Children /\ L!Aims(c, x)
  BY LookConstants DEF L!Sound
<1>2. L!Aims(c, y)
  BY <1>1 DEF L!Aims
<1>3. L!Nested(y)
  BY DEF L!Nested, L!Looking
<1>4. Len(y.stack) # 2
  BY LookStacks
<1>5. L!Told(y, K, W)
  BY <1>4 DEF L!Told, L!Single
<1>6. FliesNot(y)
  BY LookFlown DEF FliesNot
<1> QED
  BY <1>2, <1>3, <1>5, <1>6 DEF L!Sound

LEMMA LookAllAnswered ==
  ASSUME L!Inv, NEW c \in OfGroups.Callers, L!AllAnswered(c)
  PROVE  L!Inv'
<1> DEFINE x == v1[c]
           y == L!Over(x, x.ret)
<1>1. /\ x.pc = "ret" /\ x.stack = <<>> /\ x.op.kind = "all" /\ v1' = [v1 EXCEPT ![c] = y]
      /\ UNCHANGED <<v2, v3, v4, v5, v6, L!world>>
  BY DEF L!AllAnswered
<1>2. /\ c \in L!Askers /\ x \in L!AskerStates /\ L!Sound(c, x, v2, v8) /\ FliesNot(x)
      /\ L!Aims(c, x) /\ L!Told(x, v2, v8)
  BY <1>1, LookCall
<1>3. /\ y \in L!AskerStates /\ y.op = x.op /\ y.ref = x.ref /\ y.at = x.at /\ y.stack = x.stack
      /\ y.pc = "over"
      /\ y.ret = x.ret /\ y.first = x.first
  BY <1>2 DEF L!Over, L!AskerStates, L!PCs
<1> HIDE DEF y
<1>4. L!Sound(c, y, v2, v8) /\ FliesNot(y)
  <2>1. y.at \in DOMAIN OfGroups.Order /\ y.ret.what # "none"
    BY <1>1, <1>2, <1>3 DEF L!Aims, L!Told
  <2> QED
    BY <1>1, <1>2, <1>3, <2>1, LookOn
<1>5. L!Flown(y) = L!Flown(x)
  BY <1>2, <1>4 DEF FliesNot
<1> QED
  BY <1>1, <1>3, <1>4, <1>5, LookAlone

\* GroupsOf comes to the next source, or is over.
Nexts(x, y) ==
  /\ y.op = x.op /\ y.ref = x.ref /\ y.first = x.first /\ y.stack = x.stack
  /\ x.at < Len(OfGroups.Order) => y.pc = "source" /\ y.at = x.at + 1
  /\ ~(x.at < Len(OfGroups.Order)) => y.pc = "over" /\ y.at = x.at

LEMMA LookNexts ==
  ASSUME NEW x \in L!AskerStates
  PROVE  LET z == L!NextSource(x) IN z \in L!AskerStates /\ Nexts(x, z) /\ z.found = x.found
         /\ z.lost = x.lost
<1> DEFINE z == L!NextSource(x)
<1>1. CASE x.at < Len(OfGroups.Order)
  <2> DEFINE n == x.at + 1
  <2>1. n \in Nat \ {0} /\ z = [x EXCEPT !.pc = "source", !.at = n]
    BY <1>1 DEF L!NextSource, L!AskerStates
  <2> HIDE DEF n, z
  <2>2. z \in L!AskerStates
    BY <2>1 DEF L!AskerStates, L!PCs
  <2>3. /\ z.op = x.op /\ z.ref = x.ref /\ z.first = x.first /\ z.stack = x.stack
        /\ z.pc = "source" /\ z.at = n /\ z.found = x.found /\ z.lost = x.lost
    BY <2>1 DEF L!AskerStates
  <2> QED
    BY <1>1, <2>2, <2>3 DEF n, z, Nexts
<1>2. CASE ~(x.at < Len(OfGroups.Order))
  <2>1. z = [x EXCEPT !.pc = "over"]
    BY <1>2 DEF L!NextSource
  <2> HIDE DEF z
  <2>2. z \in L!AskerStates
    BY <2>1 DEF L!AskerStates, L!PCs
  <2>3. /\ z.op = x.op /\ z.ref = x.ref /\ z.first = x.first /\ z.stack = x.stack
        /\ z.pc = "over" /\ z.at = x.at /\ z.found = x.found /\ z.lost = x.lost
    BY <2>1 DEF L!AskerStates
  <2> QED
    BY <1>2, <2>2, <2>3 DEF z, Nexts
<1> QED
  BY <1>1, <1>2

LEMMA LookNextSource ==
  ASSUME L!Inv, NEW c \in OfGroups.Callers, v1[c].stack = <<>>, v1[c].op.kind = "groups_of",
         NEW y \in L!AskerStates, Nexts(v1[c], y), v1[c].found \subseteq y.found,
         ~y.lost => ~v1[c].lost /\ L!Shown(OfGroups.Order[v1[c].at], y.found, v8)
  PROVE  /\ L!Sound(c, y, v2, v8) /\ FliesNot(y)
         /\ y.op = v1[c].op /\ y.first = v1[c].first /\ y.pc \in {"source", "over"}
         /\ ~y.lost => \A i \in 1..(y.at - 1) : L!Shown(OfGroups.Order[i], y.found, v8)
         /\ ~y.lost /\ y.pc = "over"
            => L!Shown(OfGroups.Order[y.at], y.found, v8) /\ y.at = Len(OfGroups.Order)
<1> DEFINE x == v1[c]
<1>1. /\ c \in L!Askers /\ x \in L!AskerStates /\ L!Sound(c, x, v2, v8) /\ L!Aims(c, x)
      /\ x.stack = <<>> /\ x.op.kind = "groups_of"
  BY LookCall
<1>2. ~x.lost => \A i \in 1..(x.at - 1) : L!Shown(OfGroups.Order[i], x.found, v8)
  BY DEF L!Inv, L!GroupsInv
<1>3. /\ x.at \in Nat \ {0} /\ x.at <= Len(OfGroups.Order) /\ Len(OfGroups.Order) \in Nat
      /\ DOMAIN OfGroups.Order = 1..Len(OfGroups.Order)
  BY <1>1, LookConstants DEF L!Aims, L!AskerStates
<1>4. \A s : L!Shown(s, x.found, v8) => L!Shown(s, y.found, v8)
  BY DEF L!Shown
<1>5. Nexts(x, y) /\ (~y.lost => ~x.lost /\ L!Shown(OfGroups.Order[x.at], y.found, v8))
  OBVIOUS
<1> HIDE DEF x
<1>6. y.op = x.op /\ y.ref = x.ref /\ y.stack = <<>> /\ y.first = x.first /\ y.op.kind = "groups_of"
  BY <1>1, <1>5 DEF Nexts
<1>7. y.pc \in {"source", "over"} /\ y.at \in DOMAIN OfGroups.Order
  <2>1. x.at < Len(OfGroups.Order) => x.at + 1 \in 1..Len(OfGroups.Order)
    BY <1>3
  <2>2. x.at \in 1..Len(OfGroups.Order)
    BY <1>3
  <2> QED
    BY <1>3, <1>5, <2>1, <2>2 DEF Nexts
<1>8. L!Sound(c, y, v2, v8) /\ FliesNot(y)
  <2>1. y.op.kind # "expr" /\ (y.op.kind # "groups_of" => y.ret.what # "none")
    BY <1>6
  <2> QED
    BY <1>1, <1>6, <1>7, <2>1, LookOn
<1>9. ASSUME ~y.lost, NEW i \in 1..(y.at - 1)
      PROVE  L!Shown(OfGroups.Order[i], y.found, v8)
  <2>1. ~x.lost /\ L!Shown(OfGroups.Order[x.at], y.found, v8)
    BY <1>5, <1>9
  <2>2. i = x.at \/ i \in 1..(x.at - 1)
    <3>1. y.at = x.at \/ y.at = x.at + 1
      BY <1>5 DEF Nexts
    <3> QED
      BY <1>3, <3>1
  <2>3. CASE i = x.at
    BY <2>1, <2>3
  <2>4. CASE i \in 1..(x.at - 1)
    BY <1>2, <1>4, <2>1, <2>4
  <2> QED
    BY <2>2, <2>3, <2>4
<1>10. ASSUME ~y.lost, y.pc = "over"
       PROVE  L!Shown(OfGroups.Order[y.at], y.found, v8) /\ y.at = Len(OfGroups.Order)
  <2>1. ~(x.at < Len(OfGroups.Order)) /\ y.at = x.at
    BY <1>5, <1>10 DEF Nexts
  <2>2. y.at = Len(OfGroups.Order)
    BY <1>3, <2>1
  <2> QED
    BY <1>5, <1>10, <2>1, <2>2
<1> QED
  BY <1>6, <1>7, <1>8, <1>9, <1>10 DEF x

\* GroupsOf goes on to the next source without a pool.
LEMMA LookGoesOn ==
  ASSUME L!Inv, NEW c \in OfGroups.Callers, v1[c].stack = <<>>, v1[c].op.kind = "groups_of",
         v1[c].pc \in {"source", "ret"},
         NEW y \in L!AskerStates, Nexts(v1[c], y), v1[c].found \subseteq y.found,
         ~y.lost => ~v1[c].lost /\ L!Shown(OfGroups.Order[v1[c].at], y.found, v8),
         v1' = [v1 EXCEPT ![c] = y],
         UNCHANGED <<v2, v3, v4, v5, v6, L!world>>
  PROVE  L!Inv'
<1>1. FliesNot(v1[c])
  BY LookCall
<1>2. /\ L!Sound(c, y, v2, v8) /\ FliesNot(y)
      /\ y.op = v1[c].op /\ y.first = v1[c].first /\ y.pc \in {"source", "over"}
      /\ ~y.lost => \A i \in 1..(y.at - 1) : L!Shown(OfGroups.Order[i], y.found, v8)
      /\ ~y.lost /\ y.pc = "over"
         => L!Shown(OfGroups.Order[y.at], y.found, v8) /\ y.at = Len(OfGroups.Order)
  BY LookNextSource
<1>3. L!Flown(y) = L!Flown(v1[c])
  BY <1>1, <1>2 DEF FliesNot
<1>4. y.pc \notin L!Looking \cup {"ret"}
  BY <1>2 DEF L!Looking
<1> QED
  BY <1>2, <1>3, <1>4, LookAlone

\* GroupsOf starts a pool for the groups of a source.
LEMMA LookStartsGroups ==
  ASSUME L!Inv, NEW c \in OfGroups.Callers, v1[c].stack = <<>>, v1[c].op.kind = "groups_of",
         v1[c].pc \in {"source", "ret"}, NEW s \in L!Sources, s = OfGroups.Order[v1[c].at],
         NEW names, names \subseteq OfGroups.Groups, L!Shown(s, {s} \X names, v8),
           v1' = L!Pooled(c, s, names),
         UNCHANGED <<v2, v3, v4, v5, v6, L!world>>
  PROVE  L!Inv'
<1> DEFINE x == v1[c]
           refs == {L!GroupRef(s, g) : g \in names}
           y == [x EXCEPT !.pc = "pool", !.first = L!NoAnswer]
<1>1. v1' = L!Started(c, refs) /\ refs \subseteq L!Refs /\ NamesOf(refs) = names
  BY LookNames
<1>2. x \in L!AskerStates /\ L!Sound(c, x, v2, v8) /\ FliesNot(x) /\ x.op.kind = "groups_of"
      /\ x.stack = <<>>
  BY LookCall
<1>3. L!Sound(c, y, v2, v8) /\ FliesNot(y)
  <2>1. x.pc # "over" /\ x.op.kind # "all"
    BY <1>2
  <2> QED
    BY <1>2, <2>1, LookPools
<1>4. L!Flown(y) = L!Flown(x)
  BY <1>2, <1>3 DEF FliesNot
<1>5. ~L!Single(x) /\ x.pc \notin {"pool", "place", "run"} /\ ~(x.op.kind = "all")
  BY <1>2 DEF L!Single
<1> HIDE DEF refs, y
<1>6. L!FlightInv'
  <2>1. y = [x EXCEPT !.pc = "pool", !.first = L!NoAnswer] /\ v2' = v2 /\ v3' = v3
    BY DEF y
  <2> QED
    BY <1>1, <1>4, <1>5, <2>1, LookStartsFlights
<1>7. v3' \subseteq L!Keys
  BY LookDisk
<1>8. L!Sound(c, [x EXCEPT !.pc = "pool", !.first = L!NoAnswer], v2, v8)
  BY <1>3 DEF y
<1>9. L!Shown(OfGroups.Order[x.at], {OfGroups.Order[x.at]} \X NamesOf(refs), v8)
  BY <1>1
<1> QED
  BY <1>1, <1>5, <1>6, <1>7, <1>8, <1>9, LookStarts

LEMMA LookgroupsIn ==
  ASSUME L!Inv, NEW c \in OfGroups.Callers, L!groupsIn(c)
  PROVE  L!Inv'
<1> DEFINE x == v1[c]
           s == OfGroups.Order[x.at]
<1>1. x.pc = "source" /\ UNCHANGED <<v2, v3, v4, v5, v6, L!world>>
  BY DEF L!groupsIn
<1>2. c \in L!Askers /\ x \in L!AskerStates /\ L!Aims(c, x) /\ L!Nested(x) 
  BY LookAskers DEF L!Inv, L!Values, L!SoundInv, L!Sound
<1>3. x.op.kind = "groups_of" /\ x.stack = <<>>
  BY <1>1, <1>2 DEF L!Aims, L!Nested, L!Looking
<1>4. s \in L!Sources
  BY <1>2, LookConstants DEF L!Aims
<1>5. CASE s \in OfGroups.Static /\ v1' = L!Pooled(c, s, L!Has(s))
  <2>1. L!Has(s) \subseteq OfGroups.Groups
    BY DEF L!Has
  <2>2. L!Pairs \ v7 \subseteq v8
    BY DEF L!Inv, L!Values
  <2>3. L!Shown(s, {s} \X L!Has(s), v8)
    BY <1>4, <2>2 DEF L!Shown, L!Has, L!Pairs
  <2> QED
    BY <1>1, <1>3, <1>4, <1>5, <2>1, <2>3, LookStartsGroups
<1>6. CASE s \in OfGroups.Listing
           /\ v1' = [v1 EXCEPT ![c] = L!Asking(x, L!cacheKey(s, "list", L!NoGroup))]
  <2> DEFINE y == L!Asking(x, L!Goal(x))
  <2>1. v1' = [v1 EXCEPT ![c] = y]
    BY <1>3, <1>6 DEF L!Goal
  <2>2. /\ FliesNot(x) /\ y \in L!AskerStates /\ L!Sound(c, y, v2, v8) /\ FliesNot(y)
        /\ y.pc = "ask" /\ Same(x, y)
    BY <1>3, LookCall
  <2> HIDE DEF y
  <2>3. /\ ~x.lost => \A i \in 1..(x.at - 1) : L!Shown(OfGroups.Order[i], x.found, v8)
    BY <1>3 DEF L!Inv, L!GroupsInv
  <2>4. /\ ~y.lost => \A i \in 1..(y.at - 1) : L!Shown(OfGroups.Order[i], y.found, v8)
        /\ y.pc \in L!Looking \cup {"ret"} => OfGroups.Order[y.at] \in OfGroups.Listing
    BY <1>6, <2>2, <2>3 DEF Same
  <2>5. L!Flown(y) = L!Flown(x) /\ y.op = x.op /\ y.first = x.first
    BY <2>2 DEF FliesNot, Same
  <2> QED
    BY <1>1, <2>1, <2>2, <2>4, <2>5, LookAlone
<1>7. CASE s \notin OfGroups.Static /\ s \notin OfGroups.Listing
           /\ v1' = [v1 EXCEPT ![c] = L!NextSource(x)]
  <2> DEFINE z == L!NextSource(x)
  <2>1. z \in L!AskerStates /\ Nexts(x, z) /\ z.found = x.found /\ z.lost = x.lost
    BY <1>2, LookNexts
  <2>2. L!Shown(s, z.found, v8)
    BY <1>7 DEF L!Shown
  <2>3. v1' = [v1 EXCEPT ![c] = z]
    BY <1>7
  <2> HIDE DEF z
  <2> QED
    BY <1>1, <1>3, <2>1, <2>2, <2>3, LookGoesOn
<1> QED
  BY <1>5, <1>6, <1>7 DEF L!groupsIn

LEMMA LookGroupsListed ==
  ASSUME L!Inv, NEW c \in OfGroups.Callers, L!GroupsListed(c)
  PROVE  L!Inv'
<1> DEFINE x == v1[c]
           s == OfGroups.Order[x.at]
<1>1. /\ x.pc = "ret" /\ x.stack = <<>> /\ x.op.kind = "groups_of"
      /\ UNCHANGED <<v2, v3, v4, v5, v6, L!world>>
  BY DEF L!GroupsListed
<1>2. /\ x \in L!AskerStates /\ L!Aims(c, x) /\ L!Told(x, v2, v8)
  BY <1>1, LookCall
<1>3. s \in L!Sources
  BY <1>2, LookConstants DEF L!Aims
<1>4. CASE x.ret.what = "ok" /\ v1' = L!Pooled(c, s, x.ret.names)
  <2> DEFINE names == x.ret.names
  <2>1. names \subseteq OfGroups.Groups
    BY <1>2 DEF L!AskerStates, L!Answers
  <2>2. L!IsTrue(L!Goal(x), x.ret, v8) /\ L!Goal(x) = L!cacheKey(s, "list", L!NoGroup)
    BY <1>1, <1>2 DEF L!Told, L!Stands, L!Goal
  <2>3. L!Goal(x).kind = "list" /\ L!Goal(x).source = s
    BY <2>2 DEF L!cacheKey
  <2>4. s \notin OfGroups.Cached => {s} \X (OfGroups.Groups \ names) \subseteq v8
    BY <1>4, <2>2, <2>3 DEF L!IsTrue
  <2> HIDE DEF names, s
  <2>5. L!Shown(s, {s} \X names, v8)
    BY <2>1, <2>4 DEF L!Shown
  <2> QED
    BY <1>1, <1>3, <1>4, <2>1, <2>5, LookStartsGroups DEF names, s
<1>5. CASE v1' = [v1 EXCEPT ![c] = [L!NextSource(x) EXCEPT !.lost = TRUE]]
  <2> DEFINE z == L!NextSource(x)
             y == [z EXCEPT !.lost = TRUE]
  <2>1. z \in L!AskerStates /\ Nexts(x, z) /\ z.found = x.found
    BY <1>2, LookNexts
  <2>2. v1' = [v1 EXCEPT ![c] = y]
    BY <1>5
  <2> HIDE DEF z
  <2>3. y \in L!AskerStates /\ y.found = x.found /\ y.lost = TRUE
    BY <2>1 DEF L!AskerStates
  <2>4. y.op = z.op /\ y.ref = z.ref /\ y.first = z.first /\ y.stack = z.stack /\ y.pc = z.pc
        /\ y.at = z.at
    BY <2>1 DEF L!AskerStates
  <2>5. Nexts(x, y)
    BY <2>1, <2>4 DEF Nexts
  <2> HIDE DEF y
  <2> QED
    BY <1>1, <2>2, <2>3, <2>5, LookGoesOn
<1> QED
  BY <1>4, <1>5 DEF L!GroupsListed

\* A caller of an expression starts a pool for the groups it names.
LEMMA LookPrefetches ==
  ASSUME L!Inv, NEW c \in OfGroups.Callers, v1[c].stack = <<>>, v1[c].op.kind = "expr",
         v1[c].pc = "idle",
         Len(v1[c].op.refs) >= 2, NEW refs, refs = {v1[c].op.refs[i] : i \in 1..Len(v1[c].op.refs)},
         v1' = L!Started(c, refs), UNCHANGED <<v2, v3, v4, v5, v6, L!world>>
  PROVE  L!Inv'
<1> DEFINE x == v1[c]
           y == [x EXCEPT !.pc = "pool", !.first = L!NoAnswer]
<1>1. x \in L!AskerStates /\ L!Sound(c, x, v2, v8) /\ FliesNot(x) /\ x.op.kind = "expr"
      /\ x.stack = <<>>
  BY LookCall
<1>2. x.op.refs \in Seq(L!Refs)
  BY <1>1 DEF L!AskerStates, L!Operations
<1>3. refs \subseteq L!Refs
  <2> DEFINE s == x.op.refs
  <2>1. s \in Seq(L!Refs) /\ refs = {s[i] : i \in 1..Len(s)}
    BY <1>2
  <2> HIDE DEF s
  <2>2. \A i \in 1..Len(s) : s[i] \in L!Refs
    BY <2>1
  <2> QED
    BY <2>1, <2>2
<1>4. L!Sound(c, y, v2, v8) /\ FliesNot(y)
  <2>1. x.pc # "over" /\ x.op.kind # "all"
    BY <1>1
  <2> QED
    BY <1>1, <2>1, LookPools
<1>5. L!Flown(y) = L!Flown(x)
  BY <1>1, <1>4 DEF FliesNot
<1>6. ~L!Single(x)
  <2>1. Len(x.op.refs) \in Nat
    BY <1>2, LenProperties
  <2> QED
    BY <2>1 DEF L!Single
<1>7. x.pc \notin {"pool", "place", "run"} /\ ~(x.op.kind = "all") /\ ~(x.op.kind = "groups_of")
  BY <1>1
<1> HIDE DEF y
<1>8. L!FlightInv'
  <2>1. y = [x EXCEPT !.pc = "pool", !.first = L!NoAnswer] /\ v2' = v2 /\ v3' = v3
    BY DEF y
  <2> QED
    BY <1>3, <1>5, <1>7, <2>1, LookStartsFlights
<1>9. v3' \subseteq L!Keys
  BY LookDisk
<1>10. L!Sound(c, [x EXCEPT !.pc = "pool", !.first = L!NoAnswer], v2, v8)
  BY <1>4 DEF y
<1> QED
  BY <1>3, <1>6, <1>7, <1>8, <1>9, <1>10, LookStarts

LEMMA LookBegin ==
  ASSUME L!Inv, NEW c \in OfGroups.Callers, L!Begin(c)
  PROVE  L!Inv'
<1> DEFINE x == v1[c]
<1>1. x.pc = "idle" /\ UNCHANGED <<v2, v3, v4, v5, v6, L!world>>
  BY DEF L!Begin
<1>2. x.stack = <<>>
  BY <1>1, LookAskers DEF L!Inv, L!SoundInv, L!Sound, L!Nested, L!Looking
<1>3. /\ c \in L!Askers /\ x \in L!AskerStates /\ L!Sound(c, x, v2, v8) /\ FliesNot(x)
      /\ L!Aims(c, x)
      /\ LET y == L!Asking(x, L!Goal(x)) IN
         y \in L!AskerStates /\ L!Sound(c, y, v2, v8) /\ FliesNot(y) /\ y.pc = "ask" /\ Same(x, y)
  BY <1>2, LookCall
<1>4. CASE /\ x.op.kind = "all"
           /\ v1' = [v1 EXCEPT ![c] = L!Asking(x, L!cacheKey(x.op.source, "all", L!NoGroup))]
  <2> DEFINE y == L!Asking(x, L!Goal(x))
  <2>1. v1' = [v1 EXCEPT ![c] = y]
    BY <1>4 DEF L!Goal
  <2>2. /\ y \in L!AskerStates /\ L!Sound(c, y, v2, v8) /\ FliesNot(y) /\ y.pc = "ask" /\ Same(x, y)
    BY <1>3
  <2> HIDE DEF y
  <2>3. L!Flown(y) = L!Flown(x) /\ y.op = x.op /\ y.first = x.first /\ y.op.kind # "groups_of"
    BY <1>3, <1>4, <2>2 DEF FliesNot, Same
  <2> QED
    BY <1>1, <2>1, <2>2, <2>3, LookAlone
<1>5. CASE x.op.kind = "groups_of" /\ v1' = [v1 EXCEPT ![c].pc = "source"]
  <2> DEFINE y == [x EXCEPT !.pc = "source"]
  <2>1. v1' = [v1 EXCEPT ![c] = y]
    BY <1>5
  <2>2. /\ y \in L!AskerStates /\ y.pc = "source" /\ y.op = x.op /\ y.ref = x.ref /\ y.at = x.at
        /\ y.stack = x.stack /\ y.first = x.first /\ y.found = x.found /\ y.lost = x.lost
    <3> HIDE DEF x
    <3> QED
      BY <1>3 DEF L!AskerStates, L!PCs
  <2> HIDE DEF y
  <2>3. L!Sound(c, y, v2, v8) /\ FliesNot(y)
    <3>1. y.stack = <<>> /\ y.at \in DOMAIN OfGroups.Order /\ y.op.kind # "expr"
          /\ y.op.kind = "groups_of"
      BY <1>2, <1>3, <1>5, <2>2 DEF L!Aims
    <3> QED
      BY <1>2, <1>3, <2>2, <3>1, LookOn
  <2>4. ~x.lost => \A i \in 1..(x.at - 1) : L!Shown(OfGroups.Order[i], x.found, v8)
    BY <1>5 DEF L!Inv, L!GroupsInv
  <2>5. ~y.lost => \A i \in 1..(y.at - 1) : L!Shown(OfGroups.Order[i], y.found, v8)
    BY <2>2, <2>4
  <2>6. L!Flown(y) = L!Flown(x) /\ y.pc \notin L!Looking \cup {"ret"}
    BY <1>3, <2>2, <2>3 DEF FliesNot, L!Looking
  <2> QED
    BY <1>1, <2>1, <2>2, <2>3, <2>5, <2>6, LookAlone
<1>6. CASE x.op.kind = "expr" /\ v1' = [v1 EXCEPT ![c] = L!Resolve(c, x)]
  <2> DEFINE y == L!Resolve(c, x)
  <2>1. /\ y \in L!AskerStates /\ L!Sound(c, y, v2, v8) /\ FliesNot(y)
        /\ y.op = x.op /\ y.first = x.first /\ y.pc \in {"ask", "ret"}
    BY <1>2, <1>3, <1>6, LookReady
  <2>2. v1' = [v1 EXCEPT ![c] = y]
    BY <1>6
  <2> HIDE DEF y
  <2>3. L!Flown(y) = L!Flown(x) /\ y.op.kind # "groups_of"
    BY <1>3, <1>6, <2>1 DEF FliesNot
  <2> QED
    BY <1>1, <2>1, <2>2, <2>3, LookAlone
<1>7. CASE /\ x.op.kind = "expr" /\ Len(x.op.refs) >= 2
           /\ v1' = L!Started(c, {x.op.refs[i] : i \in 1..Len(x.op.refs)})
  BY <1>1, <1>2, <1>7, LookPrefetches
<1> QED
  BY <1>4, <1>5, <1>6, <1>7 DEF L!Begin

\* Nobody reads the children of a pool once they are over.
LEMMA LookCleared ==
  ASSUME L!Inv, NEW c \in OfGroups.Callers,
         \A b \in L!Children : L!Parent(b) = c => v1'[b].pc = "idle",
         \A b \in L!Askers \ {c} : (b \in L!Children => L!Parent(b) # c) => Works(v1[b], v1'[b]),
         v1'[c].op = v1[c].op, v1'[c].pc # "pool",
         v1'[c].first = L!NoAnswer \/ v1'[c].first.what \notin {"ok", "none"},
         NEW y, y = v1'[c],
         y.op.kind = "groups_of" =>
           /\ ~y.lost => \A i \in 1..(y.at - 1) : L!Shown(OfGroups.Order[i], y.found, v8)
           /\ ~y.lost /\ y.pc = "over"
              => L!Shown(OfGroups.Order[y.at], y.found, v8) /\ y.at = Len(OfGroups.Order)
           /\ y.pc \in L!Looking \cup {"ret"} => OfGroups.Order[y.at] \in OfGroups.Listing,
         v6' = v6, v7' = v7, v8' = v8, Keeping(v2, v2')
  PROVE  L!PoolInv' /\ L!UnionInv' /\ L!GroupsInv'
<1>0. L!PoolInv /\ L!UnionInv /\ L!GroupsInv
  BY DEF L!Inv
<1>1. c \in L!Askers /\ c \notin L!Children
  BY LookAskers, LookConstants
<1>2. ASSUME NEW b \in L!Askers, Works(v1[b], v1'[b])
      PROVE  /\ Same(v1[b], v1'[b])
             /\ v1[b].pc \in {"idle", "over", "pool", "ready", "source"} => v1'[b] = v1[b]
             /\ v1'[b].pc \in {"idle", "over", "pool", "ready", "source"} => v1'[b] = v1[b]
             /\ v1'[b].pc \in L!Looking \cup {"ret"} => v1[b].pc \in L!Looking \cup {"ret"}
  BY <1>2 DEF Works, L!Looking
<1>3. ASSUME NEW d \in OfGroups.Callers \ {c}
      PROVE  d \in L!Askers /\ Works(v1[d], v1'[d])
             /\ \A g \in OfGroups.Groups : <<d, g>> \in L!Askers
                /\ Works(v1[<<d, g>>], v1'[<<d, g>>])
  <2>1. d \in L!Askers /\ d \notin L!Children
    BY LookAskers, LookConstants
  <2>2. ASSUME NEW g \in OfGroups.Groups PROVE <<d, g>> \in L!Askers
               /\ Works(v1[<<d, g>>], v1'[<<d, g>>])
    <3>1. <<d, g>> \in L!Askers /\ L!Parent(<<d, g>>) = d /\ <<d, g>> \in L!Children
      BY LookAskers
    <3> QED
      BY <1>1, <3>1
  <2> QED
    BY <2>1, <2>2
<1>4. \A d \in OfGroups.Callers \ {c} : L!Items(d)' = L!Items(d)
  <2> SUFFICES ASSUME NEW d \in OfGroups.Callers \ {c} PROVE L!Items(d)' = L!Items(d)
    OBVIOUS
  <2>1. \A g \in OfGroups.Groups : v1'[<<d, g>>].pc = "idle" <=> v1[<<d, g>>].pc = "idle"
    BY <1>2, <1>3
  <2> QED
    BY <2>1 DEF L!Items
<1>5. L!PoolInv'
  <2> SUFFICES ASSUME NEW a \in L!Children
               PROVE  /\ \/ v1'[a].pc \in {"idle", "over"} \/ v1'[L!Parent(a)].pc = "pool"
                         \/ v1'[a].pc = "ready" /\ v6'
                      /\ L!Single(v1'[L!Parent(a)]) => v1'[a].pc = "idle"
    BY DEF L!PoolInv
  <2>1. CASE L!Parent(a) = c
    BY <2>1
  <2>2. CASE L!Parent(a) # c
    <3>1. a \in L!Askers /\ L!Parent(a) \in OfGroups.Callers \ {c} /\ a # c
      BY <1>1, <2>2, LookAskers
    <3>2. Works(v1[a], v1'[a]) /\ Works(v1[L!Parent(a)], v1'[L!Parent(a)])
          /\ L!Parent(a) \in L!Askers
      BY <1>3, <2>2, <3>1
    <3>3. L!Single(v1'[L!Parent(a)]) => L!Single(v1[L!Parent(a)])
      BY <1>2, <3>2 DEF L!Single, Same
    <3> QED
      BY <1>0, <1>2, <3>1, <3>2, <3>3 DEF L!PoolInv
  <2> QED
    BY <2>1, <2>2
<1>6. L!UnionInv'
  <2>1. \A d \in OfGroups.Callers : v1'[d].first = L!NoAnswer
        \/ v1'[d].first.what \notin {"ok", "none"}
    BY <1>0, <1>2, <1>3 DEF L!UnionInv, Same
  <2>2. ASSUME NEW d \in OfGroups.Callers, v1'[d].pc = "pool", v1'[d].op.kind = "all",
               NEW s, s = v1'[d].op.source, NEW list, list = L!cacheKey(s, "list", L!NoGroup)
        PROVE  /\ s \in OfGroups.Static => L!Items(d)' = {g \in OfGroups.Groups : <<s, g>> \in v7'}
               /\ s \notin OfGroups.Static => list \in DOMAIN v2' /\ L!Items(d)' = v2'[list].names
               /\ \A g \in OfGroups.Groups : v1'[<<d, g>>].pc = "over"
                  /\ v1'[<<d, g>>].ret.what # "ok"
                                      => v1'[d].first # L!NoAnswer
    <3>0. d \in OfGroups.Callers \ {c}
      BY <2>2
    <3>1. v1'[d] = v1[d]
      BY <1>2, <1>3, <2>2, <3>0
    <3>2. \A g \in OfGroups.Groups : v1'[<<d, g>>].pc = "over" => v1'[<<d, g>>] = v1[<<d, g>>]
      BY <1>2, <1>3, <3>0
    <3>3. L!Items(d)' = L!Items(d)
      BY <1>4, <3>0
    <3>5. /\ s \in OfGroups.Static => L!Items(d) = L!Has(s)
          /\ s \notin OfGroups.Static => list \in DOMAIN v2 /\ L!Items(d) = v2[list].names
          /\ \A g \in OfGroups.Groups : v1[<<d, g>>].pc = "over" /\ v1[<<d, g>>].ret.what # "ok"
                                 => v1[d].first # L!NoAnswer
      BY <1>0, <2>2, <3>1 DEF L!UnionInv
    <3>6. list \in DOMAIN v2 => list \in DOMAIN v2' /\ v2'[list] = v2[list]
      BY DEF Keeping
    <3>7. /\ s \in OfGroups.Static => L!Items(d)' = {g \in OfGroups.Groups : <<s, g>> \in v7'}
          /\ s \notin OfGroups.Static => list \in DOMAIN v2' /\ L!Items(d)' = v2'[list].names
      BY <3>3, <3>5, <3>6 DEF L!Has
    <3>8. \A g \in OfGroups.Groups : v1'[<<d, g>>].pc = "over" /\ v1'[<<d, g>>].ret.what # "ok"
                              => v1'[d].first # L!NoAnswer
      BY <3>1, <3>2, <3>5
    <3> QED
      BY <3>7, <3>8
  <2> QED
    BY <2>1, <2>2 DEF L!UnionInv, L!Has
<1>7. L!GroupsInv'
  <2> SUFFICES ASSUME NEW d \in OfGroups.Callers, v1'[d].op.kind = "groups_of"
               PROVE  LET x == v1'[d] IN
                /\ ~x.lost => \A i \in 1..(x.at - 1) : L!Shown(OfGroups.Order[i], x.found, v8')
                /\ ~x.lost /\ x.pc = "over"
                   => L!Shown(OfGroups.Order[x.at], x.found, v8') /\ x.at = Len(OfGroups.Order)
                /\ x.pc = "pool"
                   => L!Shown(OfGroups.Order[x.at], {OfGroups.Order[x.at]} \X L!Items(d)', v8')
                /\ x.pc \in L!Looking \cup {"ret"} => OfGroups.Order[x.at] \in OfGroups.Listing
    BY DEF L!GroupsInv
  <2>1. CASE d = c
    BY <2>1
  <2>2. CASE d # c
    <3>1. d \in L!Askers /\ Works(v1[d], v1'[d]) /\ L!Items(d)' = L!Items(d)
      BY <1>3, <1>4, <2>2
    <3>2. Same(v1[d], v1'[d])
      BY <3>1 DEF Works
    <3>3. /\ ~v1[d].lost => \A i \in 1..(v1[d].at - 1) : L!Shown(OfGroups.Order[i], v1[d].found, v8)
          /\ ~v1[d].lost /\ v1[d].pc = "over" =>
               L!Shown(OfGroups.Order[v1[d].at], v1[d].found, v8) /\ v1[d].at = Len(OfGroups.Order)
          /\ v1[d].pc = "pool"
             => L!Shown(OfGroups.Order[v1[d].at], {OfGroups.Order[v1[d].at]} \X L!Items(d), v8)
          /\ v1[d].pc \in L!Looking \cup {"ret"} => OfGroups.Order[v1[d].at] \in OfGroups.Listing
      BY <1>0, <3>2 DEF L!GroupsInv, Same
    <3> QED
      BY <1>2, <3>1, <3>2, <3>3 DEF Same
  <2> QED
    BY <2>1, <2>2
<1> QED
  BY <1>5, <1>6, <1>7

LEMMA LookReads ==
  ASSUME NEW z \in L!AskerStates, NEW found \in SUBSET L!Pairs, NEW lost
  PROVE  LET y == [z EXCEPT !.found = found, !.lost = lost] IN
         /\ lost \in BOOLEAN => y \in L!AskerStates
         /\ y.found = found /\ y.lost = lost
         /\ \A x : Nexts(x, z) => Nexts(x, y)
<1> DEFINE y == [z EXCEPT !.found = found, !.lost = lost]
<1>1. lost \in BOOLEAN => y \in L!AskerStates
  BY DEF L!AskerStates
<1>2. y.found = found /\ y.lost = lost
  BY DEF L!AskerStates
<1>3. y.op = z.op /\ y.ref = z.ref /\ y.first = z.first /\ y.stack = z.stack /\ y.pc = z.pc
      /\ y.at = z.at
  BY DEF L!AskerStates
<1> HIDE DEF y
<1>4. \A x : Nexts(x, z) => Nexts(x, y)
  BY <1>3 DEF Nexts
<1> QED
  BY <1>1, <1>2, <1>4 DEF y

\* The children of a pool that is over, as nobody reads them any more.
LEMMA LookClearedChildren ==
  ASSUME L!Inv, NEW c \in OfGroups.Callers, L!AllOver(c), NEW b \in L!Children, L!Parent(b) = c
  PROVE  LET z == L!Cleared(c)[b] IN
         /\ z \in L!AskerStates /\ z.pc = "idle" /\ z.stack = <<>> /\ L!Sound(b, z, v2, v8)
         /\ FliesNot(z) /\ FliesNot(v1[b]) /\ v4[b] = L!NoHost
<1>1. b \in L!Askers /\ b = <<c, b[2]>> /\ b[2] \in OfGroups.Groups
  BY LookAskers
<1>2. L!Cleared(c)[b] = L!Asker(L!NoOp, "idle")
  BY <1>1 DEF L!Cleared
<1>3. FliesNot(v1[b]) /\ v4[b] = L!NoHost
  BY <1>1, LookAllOver
<1> QED
  BY <1>2, <1>3, LookFresh

LEMMA LookReadGroups ==
  ASSUME L!Inv, NEW c \in OfGroups.Callers, L!ReadGroups(c)
  PROVE  L!Inv'
<1> DEFINE x == v1[c]
           s == OfGroups.Order[x.at]
           read == {a \in L!Looked(c) : v1[a].ret.what = "ok"}
           z == L!NextSource(x)
           found == x.found \cup {<<s, a[2]>> : a \in read}
           lost == x.lost \/ L!Lost(c, read)
           y == [z EXCEPT !.found = found, !.lost = lost]
<1>0. /\ L!Values /\ L!SoundInv /\ L!KeptInv /\ L!FlightInv /\ L!PlaceInv /\ L!PoolInv
      /\ L!UnionInv /\ L!GroupsInv /\ L!UnionIsWhole
      /\ v1 \in [L!Askers -> L!AskerStates]
  BY DEF L!Inv, L!Values
<1>1. /\ x.pc = "pool" /\ x.op.kind = "groups_of" /\ L!AllOver(c)
      /\ UNCHANGED <<v2, v3, v4, v5, v6, L!world>>
  BY DEF L!ReadGroups
<1>2. v1' = [L!Cleared(c) EXCEPT ![c] = y]
  BY Zenon DEF L!ReadGroups
<1>3. /\ v8' = v8 /\ v7' = v7 /\ v6' = v6 /\ v9' = v9
      /\ v2' = v2 /\ v4' = v4 /\ v5' = v5 /\ v3' = v3
  BY <1>1 DEF L!world
<1>4. c \in L!Askers /\ c \notin L!Children /\ x \in L!AskerStates /\ L!Aims(c, x) /\ L!Nested(x)
  BY <1>0, LookAskers, LookConstants DEF L!SoundInv, L!Sound
<1>45. z \in L!AskerStates /\ Nexts(x, z) /\ z.found = x.found /\ z.lost = x.lost
  BY <1>4, LookNexts
<1> HIDE DEF z
<1>5. x.stack = <<>> /\ FliesNot(x)
  <2>1. x.stack = <<>>
    BY <1>1, <1>4 DEF L!Nested, L!Looking
  <2> QED
    BY <2>1, LookFlown DEF FliesNot
<1>6. s \in L!Sources /\ \A a \in read : a \in L!Children /\ a[2] \in OfGroups.Groups
  BY <1>4, LookConstants, LookAskers DEF L!Aims, L!Looked, L!ItemsOf
<1>7. found \in SUBSET L!Pairs /\ x.found \subseteq found
  <2>1. x.found \subseteq L!Pairs /\ z.found = x.found
    BY <1>4, <1>45 DEF L!AskerStates
  <2>2. \A a \in read : <<s, a[2]>> \in L!Pairs
    BY <1>6 DEF L!Pairs
  <2> QED
    BY <2>1, <2>2
<1>8. ~lost => ~x.lost /\ L!Shown(s, found, v8)
  <2> SUFFICES ASSUME ~lost PROVE ~x.lost /\ L!Shown(s, found, v8)
    OBVIOUS
  <2>1. ~x.lost /\ read = L!ItemsOf(c)
    BY <1>45 DEF L!Lost
  <2>2. L!Shown(s, {s} \X L!Items(c), v8)
    BY <1>0, <1>1 DEF L!GroupsInv
  <2>3. \A g \in L!Items(c) : <<s, g>> \in found
    <3> SUFFICES ASSUME NEW g \in L!Items(c) PROVE <<s, g>> \in found
      OBVIOUS
    <3>1. <<c, g>> \in L!ItemsOf(c) /\ <<c, g>>[2] = g
      BY LookAskers DEF L!Items, L!ItemsOf
    <3>2. <<c, g>> \in read
      BY <2>1, <3>1
    <3> HIDE DEF read
    <3> QED
      BY <3>1, <3>2
  <2> HIDE DEF found, s
  <2>4. L!Shown(s, found, v8)
    BY <2>2, <2>3 DEF L!Shown
  <2> QED
    BY <2>1, <2>4
<1>9. lost \in {TRUE, FALSE}
  OBVIOUS
<1> HIDE DEF found, lost
<1>10. /\ y \in L!AskerStates /\ Nexts(x, y) /\ y.found = found /\ y.lost = lost
  <2>1. lost \in BOOLEAN => y \in L!AskerStates
    BY <1>7, <1>45, LookReads, Zenon
  <2>2. y.found = found
    BY <1>45 DEF L!AskerStates
  <2>6. y.lost = lost
    BY <1>45 DEF L!AskerStates
  <2>3. Nexts(x, y)
    BY <1>7, <1>45, LookReads, Zenon
  <2>4. lost \in BOOLEAN
    BY <1>9, Zenon
  <2>5. y \in L!AskerStates
    BY <2>1, <2>4, Zenon
  <2> QED
    BY <2>2, <2>3, <2>5, <2>6, Zenon
<1> HIDE DEF y, read
<1>11. /\ L!Sound(c, y, v2, v8) /\ FliesNot(y)
       /\ y.op = x.op /\ y.first = x.first /\ y.pc \in {"source", "over"}
       /\ ~y.lost => \A i \in 1..(y.at - 1) : L!Shown(OfGroups.Order[i], y.found, v8)
       /\ ~y.lost /\ y.pc = "over"
          => L!Shown(OfGroups.Order[y.at], y.found, v8) /\ y.at = Len(OfGroups.Order)
  <2>1. x.found \subseteq y.found /\ (~y.lost => ~x.lost /\ L!Shown(s, y.found, v8))
    BY <1>7, <1>8, <1>10
  <2> QED
    BY <1>1, <1>5, <1>10, <2>1, LookNextSource
<1>12. /\ v1'[c] = y
       /\ \A b \in L!Askers \ {c} : v1'[b] = L!Cleared(c)[b]
       /\ \A b \in L!Askers \ {c} : (b \in L!Children => L!Parent(b) # c) => v1'[b] = v1[b]
  BY <1>2, <1>4 DEF L!Cleared
<1>13. \A b \in L!Children : L!Parent(b) = c =>
         /\ b \in L!Askers /\ b # c
         /\ v1'[b] \in L!AskerStates /\ v1'[b].pc = "idle" /\ L!Sound(b, v1'[b], v2, v8)
         /\ FliesNot(v1'[b]) /\ FliesNot(v1[b]) /\ v4[b] = L!NoHost
  BY <1>1, <1>4, <1>12, LookAskers, LookClearedChildren
<1>14. L!Values'
  <2>1. v1' = [b \in L!Askers |-> v1'[b]]
    BY <1>2 DEF L!Cleared
  <2>2. \A b \in L!Askers : v1'[b] \in L!AskerStates
    BY <1>0, <1>10, <1>12, <1>13
  <2>3. v1' \in [L!Askers -> L!AskerStates]
    BY <2>1, <2>2
  <2> QED
    BY <1>0, <1>3, <2>3 DEF L!Values
<1>15. L!SoundInv' /\ L!KeptInv'
  <2>1. \A b \in L!Askers : L!Sound(b, v1'[b], v2, v8)
    BY <1>0, <1>11, <1>12, <1>13 DEF L!SoundInv
  <2> QED
    BY <1>0, <1>3, <2>1 DEF L!SoundInv, L!KeptInv
<1>16. L!FlightInv'
  <2>1. \A b \in L!Askers : L!Flown(v1'[b]) = L!Flown(v1[b])
    BY <1>5, <1>11, <1>12, <1>13 DEF FliesNot
  <2> QED
    BY <1>0, <1>3, <2>1, LookStays
<1>17. L!PlaceInv'
  <2>1. v4[c] = L!NoHost
    BY <1>1, <1>4, LookDisk
  <2>2. \A b \in L!Askers : v1'[b].pc \in {"place", "run"} => v1'[b] = v1[b]
    BY <1>11, <1>12, <1>13
  <2>3. \A b \in L!Askers : v4'[b] # L!NoHost => v1'[b].pc \in {"place", "run"}
    BY <1>3, <1>12, <1>13, <2>1, LookDisk
  <2> QED
    BY <1>0, <1>3, <2>2, <2>3, LookPlaces
<1>18. L!PoolInv' /\ L!UnionInv' /\ L!GroupsInv'
  <2>1. \A b \in L!Askers \ {c} : (b \in L!Children => L!Parent(b) # c) => Works(v1[b], v1'[b])
    BY <1>12 DEF Works, Same
  <2>2. v1'[c].op = v1[c].op /\ v1'[c].pc # "pool" /\ y = v1'[c]
    BY <1>11, <1>12
  <2>3. v1'[c].first = L!NoAnswer \/ v1'[c].first.what \notin {"ok", "none"}
    BY <1>0, <1>11, <1>12 DEF L!UnionInv
  <2>4. y.pc \notin L!Looking \cup {"ret"}
    BY <1>11 DEF L!Looking
  <2>5. Keeping(v2, v2') /\ \A b \in L!Children : L!Parent(b) = c => v1'[b].pc = "idle"
    BY <1>3, <1>13 DEF Keeping
  <2>6. y.op.kind = "groups_of" =>
           /\ ~y.lost => \A i \in 1..(y.at - 1) : L!Shown(OfGroups.Order[i], y.found, v8)
           /\ ~y.lost /\ y.pc = "over"
              => L!Shown(OfGroups.Order[y.at], y.found, v8) /\ y.at = Len(OfGroups.Order)
           /\ y.pc \in L!Looking \cup {"ret"} => OfGroups.Order[y.at] \in OfGroups.Listing
    BY <1>11, <2>4
  <2> QED
    BY <1>3, <2>1, <2>2, <2>3, <2>5, <2>6, LookCleared
<1>19. L!UnionIsWhole'
  BY <1>0, <1>3 DEF L!UnionIsWhole, L!Has
<1> QED
  BY <1>14, <1>15, <1>16, <1>17, <1>18, <1>19 DEF L!Inv

\* The answer of a union of groups is so, and is of all of them.
LEMMA LookUnionOver ==
  ASSUME L!Inv, NEW c \in OfGroups.Callers, L!UnionOver(c)
  PROVE  L!Inv'
<1> DEFINE x == v1[c]
           k == L!KeyOf(c)
           was == L!Cleared(c)
           s == x.op.source
           list == L!cacheKey(s, "list", L!NoGroup)
           names == {a[2] : a \in {b \in L!Looked(c) : v1[b].ret.what = "ok"}}
           r == IF x.first # L!NoAnswer THEN x.first
                ELSE IF v6 THEN L!Error("canceled")
                ELSE L!Listed(names)
<1>0. /\ L!Values /\ L!SoundInv /\ L!KeptInv /\ L!FlightInv /\ L!PlaceInv /\ L!PoolInv
      /\ L!UnionInv /\ L!GroupsInv /\ L!UnionIsWhole
      /\ v1 \in [L!Askers -> L!AskerStates] /\ DOMAIN v2 \subseteq L!Keys
  BY DEF L!Inv, L!Values
<1>1. /\ x.pc = "pool" /\ x.stack # <<>> /\ L!AllOver(c) /\ L!SettleIn(was, c, k, r)
      /\ UNCHANGED <<v4, v5, v6, L!world>>
  BY DEF L!UnionOver
<1>2. /\ v8' = v8 /\ v7' = v7 /\ v6' = v6 /\ v9' = v9
      /\ v4' = v4 /\ v5' = v5
  BY <1>1 DEF L!world
<1>3. c \in L!Askers /\ c \notin L!Children /\ x \in L!AskerStates /\ L!Aims(c, x) /\ L!Nested(x)
  BY <1>0, LookAskers, LookConstants DEF L!SoundInv, L!Sound
<1>4. /\ x.stack = <<L!Goal(x)>> /\ x.op.kind = "all"
      /\ s \in (OfGroups.Static \cup OfGroups.Listing) \ OfGroups.Alls /\ k = L!Goal(x)
      /\ k = L!cacheKey(s, "all", L!NoGroup) /\ k \in L!Keys
  <2>1. x.stack = <<L!Goal(x)>> /\ x.op.kind = "all"
        /\ s \in (OfGroups.Static \cup OfGroups.Listing) \ OfGroups.Alls
    BY <1>1, <1>3 DEF L!Nested, L!Looking
  <2>2. k = L!Goal(x)
    BY <2>1, LookStacks DEF L!KeyOf
  <2>3. L!Goal(x) \in L!Keys /\ L!Goal(x) = L!cacheKey(s, "all", L!NoGroup)
    BY <1>1, <1>3, <2>1, LookGoal
  <2> QED
    BY <2>1, <2>2, <2>3
<1>5. k.kind = "all" /\ k.source = s
  BY <1>4 DEF L!cacheKey
<1>6. L!Flown(x) = {k}
  BY <1>1, <1>4, LookFlown
<1>7. k \in v3 /\ k \notin DOMAIN v2 /\ \A b \in L!Askers \ {c} : k \notin L!Flown(v1[b])
  BY <1>0, <1>3, <1>6 DEF L!FlightInv
<1>8. names \subseteq OfGroups.Groups
  BY LookAskers DEF L!Looked, L!ItemsOf
<1> HIDE DEF names
<1>9. L!IsTrue(k, r, v8)
  <2>1. CASE x.first # L!NoAnswer
    <3>1. r = x.first /\ x.first \in L!Answers /\ x.first.what # "none"
      BY <1>0, <1>3, <2>1 DEF L!UnionInv, L!AskerStates
    <3> QED
      BY <1>5, <3>1 DEF L!IsTrue
  <2>2. CASE x.first = L!NoAnswer /\ v6
    <3>1. r = L!Error("canceled") /\ r \in L!Answers /\ r.what = "canceled"
      BY <2>2, LookErrors DEF L!Errors
    <3> QED
      BY <1>5, <3>1 DEF L!IsTrue
  <2>3. CASE x.first = L!NoAnswer /\ ~v6
    <3>1. r = L!Listed(names)
      BY <2>3
    <3>2. r \in L!Answers /\ r.what = "ok"
      BY <1>8, <3>1 DEF L!Listed, L!Answer, L!Answers
    <3> QED
      BY <1>5, <3>2 DEF L!IsTrue
  <2> QED
    BY <2>1, <2>2, <2>3
<1>10. r.what = "ok" => IF s \in OfGroups.Static THEN r.names = L!Has(s)
                        ELSE list \in DOMAIN v2 /\ r.names = v2[list].names
  <2> SUFFICES ASSUME r.what = "ok"
               PROVE  IF s \in OfGroups.Static THEN r.names = L!Has(s)
                      ELSE list \in DOMAIN v2 /\ r.names = v2[list].names
    OBVIOUS
  <2>1. x.first = L!NoAnswer /\ ~v6 /\ r = L!Listed(names)
    <3>1. x.first = L!NoAnswer
      BY <1>0 DEF L!UnionInv
    <3>2. ~v6
      BY <3>1, LookErrors DEF L!Errors
    <3> QED
      BY <3>1, <3>2
  <2>2. \A g \in OfGroups.Groups : v1[<<c, g>>].pc # "idle"
        => v1[<<c, g>>].pc = "over" /\ v1[<<c, g>>].ret.what = "ok"
    <3> SUFFICES ASSUME NEW g \in OfGroups.Groups, v1[<<c, g>>].pc # "idle"
                 PROVE  v1[<<c, g>>].pc = "over" /\ v1[<<c, g>>].ret.what = "ok"
      OBVIOUS
    <3>1. L!Parent(<<c, g>>) = c
      BY LookAskers
    <3>2. ~L!Ended(<<c, g>>)
      BY <2>1, <3>1 DEF L!Ended
    <3>3. v1[<<c, g>>].pc = "over"
      BY <1>1, <3>2, LookAllOver
    <3> QED
      BY <1>0, <1>1, <1>4, <2>1, <3>3 DEF L!UnionInv
  <2>3. names = L!Items(c)
    <3>1. ASSUME NEW g \in L!Items(c) PROVE g \in names
      <4>1. g \in OfGroups.Groups /\ v1[<<c, g>>].pc = "over" /\ v1[<<c, g>>].ret.what = "ok"
            /\ <<c, g>>[2] = g
        BY <2>2, <3>1 DEF L!Items
      <4>2. <<c, g>> \in {b \in L!Looked(c) : v1[b].ret.what = "ok"}
        BY <4>1, LookAskers DEF L!Looked, L!ItemsOf
      <4> QED
        BY <4>1, <4>2 DEF names
    <3>2. ASSUME NEW g \in names PROVE g \in L!Items(c)
      <4>1. PICK a \in L!Looked(c) : g = a[2]
        BY <3>2 DEF names
      <4>2. a \in L!Children /\ L!Parent(a) = c /\ v1[a].pc # "idle"
        BY <4>1 DEF L!Looked, L!ItemsOf
      <4>3. a = <<c, g>> /\ g \in OfGroups.Groups
        BY <4>1, <4>2, LookAskers
      <4> QED
        BY <4>2, <4>3 DEF L!Items
    <3> QED
      BY <3>1, <3>2
  <2>4. r.names = L!Items(c)
    BY <2>1, <2>3 DEF L!Listed, L!Answer
  <2> QED
    BY <1>0, <1>1, <1>4, <2>4 DEF L!UnionInv
<1> HIDE DEF r
<1>11. /\ was[c] = x
       /\ \A b \in L!Askers : (b \in L!Children => L!Parent(b) # c) => was[b] = v1[b]
  BY <1>3 DEF L!Cleared
<1>12. \A b \in L!Children : L!Parent(b) = c =>
         /\ was[b] \in L!AskerStates /\ was[b].pc = "idle" /\ L!Sound(b, was[b], v2, v8)
         /\ FliesNot(was[b]) /\ FliesNot(v1[b]) /\ v4[b] = L!NoHost
  BY <1>1, LookClearedChildren
<1>13. was \in [L!Askers -> L!AskerStates]
  <2>1. was = [b \in L!Askers |-> was[b]]
    BY DEF L!Cleared
  <2>2. \A b \in L!Askers : was[b] \in L!AskerStates
    BY <1>0, <1>11, <1>12
  <2> QED
    BY <2>1, <2>2
<1> HIDE DEF was
<1>14. \A b \in L!Askers : L!Sound(b, was[b], v2, v8) /\ L!Flown(was[b]) = L!Flown(v1[b])
  BY <1>0, <1>11, <1>12 DEF L!SoundInv, FliesNot
<1>15. /\ v1' \in [L!Askers -> L!AskerStates]
       /\ \A b \in L!Askers : /\ L!Sound(b, v1'[b], v2', v8')
                              /\ Landed(k, was[b], v1'[b])
                              /\ \/ v1'[b] = was[b] /\ b # c
                                 \/ (b = c \/ was[b].pc = "wait") /\ v1'[b].pc = "ret"
                                    /\ Same(was[b], v1'[b])
       /\ v3' = v3 \ {k} /\ DOMAIN v2' \subseteq DOMAIN v2 \cup {k} /\ Keeping(v2, v2')
       /\ \A j \in DOMAIN v2' : L!IsTrue(j, v2'[j], v8')
       /\ k \in DOMAIN v2' => v2'[k] = r
  <2>1. L!Last(was[c].stack) = k /\ was[c].stack # <<>>
    BY <1>1, <1>11 DEF L!KeyOf
  <2>2. \A b \in L!Askers \ {c} : k \notin L!Flown(was[b])
    BY <1>7, <1>14
  <2>3. \A j \in DOMAIN v2 : L!IsTrue(j, v2[j], v8)
    BY <1>0 DEF L!KeptInv
  <2>4. \A b \in L!Askers : L!Sound(b, was[b], v2, v8)
    BY <1>14
  <2> HIDE DEF k
  <2> QED
    BY <1>0, <1>1, <1>2, <1>3, <1>4, <1>7, <1>9, <1>13, <2>1, <2>2, <2>3, <2>4, LookSettles
<1>16. L!Values'
  BY <1>0, <1>2, <1>4, <1>15 DEF L!Values
<1>17. L!SoundInv' /\ L!KeptInv'
  BY <1>0, <1>2, <1>15 DEF L!SoundInv, L!KeptInv
<1>18. L!FlightInv'
  <2>1. \A b \in L!Askers : L!Flown(v1'[b]) = L!Flown(v1[b]) \ {k}
    BY <1>14, <1>15 DEF Landed
  <2> QED
    BY <1>0, <1>15, <2>1, LookLanded
<1>19. \A b \in L!Children : L!Parent(b) = c
       => b \in L!Askers /\ v1'[b].pc = "idle" /\ v4[b] = L!NoHost
  BY <1>3, <1>12, <1>15, LookAskers
<1>20. v1'[c].pc = "ret" /\ Same(x, v1'[c])
  BY <1>3, <1>11, <1>15
<1>21. \A b \in L!Askers \ {c} : (b \in L!Children => L!Parent(b) # c) =>
         Works(v1[b], v1'[b]) /\ (v1'[b] = v1[b] \/ v1'[b].pc = "ret")
  BY <1>11, <1>15 DEF Works, Same, L!Looking
<1>22. L!PlaceInv'
  <2>1. v4[c] = L!NoHost
    BY <1>1, <1>3, LookDisk
  <2>2. \A b \in L!Askers : v1'[b].pc \in {"place", "run"} => v1'[b] = v1[b]
    BY <1>19, <1>20, <1>21
  <2>3. \A b \in L!Askers : v4'[b] # L!NoHost => v1'[b].pc \in {"place", "run"}
    <3> SUFFICES ASSUME NEW b \in L!Askers, v4'[b] # L!NoHost PROVE v1'[b].pc \in {"place", "run"}
      OBVIOUS
    <3>1. v4[b] # L!NoHost /\ b # c /\ (b \in L!Children => L!Parent(b) # c)
      BY <1>2, <1>19, <2>1
    <3>2. v1[b].pc \in {"place", "run"}
      BY <3>1, LookDisk
    <3>3. \/ v1'[b] = was[b]
          \/ was[b].pc = "wait"
      BY <1>15, <3>1
    <3>4. was[b] = v1[b]
      BY <1>11, <3>1
    <3> QED
      BY <3>2, <3>3, <3>4
  <2> QED
    BY <1>0, <1>2, <2>2, <2>3, LookPlaces
<1>23. L!PoolInv' /\ L!UnionInv' /\ L!GroupsInv'
  <2> DEFINE y == v1'[c]
  <2>1. v1'[c].op = v1[c].op /\ v1'[c].pc # "pool" /\ y.op.kind # "groups_of" /\ y = v1'[c]
    BY <1>4, <1>20 DEF Same
  <2>2. v1'[c].first = L!NoAnswer \/ v1'[c].first.what \notin {"ok", "none"}
    BY <1>0, <1>20 DEF L!UnionInv, Same
  <2>3. \A b \in L!Children : L!Parent(b) = c => v1'[b].pc = "idle"
    BY <1>19
  <2>4. \A b \in L!Askers \ {c} : (b \in L!Children => L!Parent(b) # c) => Works(v1[b], v1'[b])
    BY <1>21
  <2> HIDE DEF y
  <2> QED
    BY <1>2, <1>15, <2>1, <2>2, <2>3, <2>4, LookCleared
<1>24. L!UnionIsWhole'
  <2>1. \A z \in OfGroups.Static : L!Has(z)' = L!Has(z)
    BY <1>2 DEF L!Has
  <2>2. k \in DOMAIN v2' /\ k \notin DOMAIN v2 /\ k.kind = "all" /\ v2'[k].what = "ok"
        /\ k.source \notin OfGroups.Alls =>
           IF k.source \in OfGroups.Static THEN v2'[k].names = L!Has(k.source)
           ELSE /\ L!cacheKey(k.source, "list", L!NoGroup) \in DOMAIN v2
                /\ v2'[k].names = v2[L!cacheKey(k.source, "list", L!NoGroup)].names
    BY <1>5, <1>10, <1>15
  <2> HIDE DEF k
  <2> QED
    BY <1>0, <1>15, <2>1, <2>2, LookUnions
<1> QED
  BY <1>16, <1>17, <1>18, <1>22, <1>23, <1>24 DEF L!Inv

LEMMA LookInterrupt ==
  ASSUME L!Inv, L!Interrupt
  PROVE  L!Inv'
<1>0. /\ L!Values /\ L!SoundInv /\ L!KeptInv /\ L!FlightInv /\ L!PlaceInv /\ L!PoolInv
      /\ L!UnionInv /\ L!GroupsInv /\ L!UnionIsWhole
  BY DEF L!Inv
<1>1. /\ v6' = TRUE /\ v1' = v1 /\ v2' = v2 /\ v3' = v3 /\ v4' = v4 /\ v5' = v5
      /\ v7' = v7 /\ v8' = v8 /\ v9' = v9
  BY DEF L!Interrupt, L!world
<1>2. L!Values' /\ L!SoundInv' /\ L!KeptInv' /\ L!FlightInv'
  BY <1>0, <1>1 DEF L!Values, L!SoundInv, L!KeptInv, L!FlightInv
<1>3. L!PlaceInv'
  BY <1>0, <1>1 DEF L!PlaceInv, L!KeyOf, L!Holding
<1>4. L!PoolInv'
  BY <1>0, <1>1 DEF L!PoolInv
<1>5. \A c \in OfGroups.Callers : L!Items(c)' = L!Items(c)
  BY <1>1 DEF L!Items
<1>6. \A s : L!Has(s)' = L!Has(s)
  BY <1>1 DEF L!Has
<1>7. L!UnionInv' /\ L!GroupsInv' /\ L!UnionIsWhole'
  BY <1>0, <1>1, <1>5, <1>6 DEF L!UnionInv, L!GroupsInv, L!UnionIsWhole
<1> QED
  BY <1>2, <1>3, <1>4, <1>7 DEF L!Inv

\* What comes to be not defined is what may be said of it.
LEMMA LookChange ==
  ASSUME L!Inv, NEW p \in OfGroups.Fickle, L!Change(p)
  PROVE  L!Inv'
<1>0. /\ L!Values /\ L!SoundInv /\ L!KeptInv /\ L!FlightInv /\ L!PlaceInv /\ L!PoolInv
      /\ L!UnionInv /\ L!GroupsInv /\ L!UnionIsWhole
  BY DEF L!Inv
<1>1. /\ v6' = v6 /\ v1' = v1 /\ v2' = v2 /\ v3' = v3 /\ v4' = v4
      /\ v5' = v5 /\ v9' = v9 + 1
      /\ v7' = (IF p \in v7 THEN v7 \ {p} ELSE v7 \cup {p})
      /\ v8' = v8 \cup (L!Pairs \ v7')
  BY DEF L!Change
<1>2. p \in (L!Sources \ OfGroups.Static) \X OfGroups.Groups
  BY LookConstants
<1>3. p[1] \notin OfGroups.Static /\ p \in L!Pairs
  BY <1>2 DEF L!Pairs
<1>4. \A s \in OfGroups.Static : L!Has(s)' = L!Has(s)
  <2> SUFFICES ASSUME NEW s \in OfGroups.Static PROVE L!Has(s)' = L!Has(s)
    OBVIOUS
  <2>1. \A g : <<s, g>> # p
    BY <1>3
  <2>2. \A g : <<s, g>> \in v7' <=> <<s, g>> \in v7
    BY <1>1, <2>1
  <2> QED
    BY <2>2 DEF L!Has
<1>5. v8 \subseteq v8'
  BY <1>1
<1>6. L!Values'
  <2>1. v7' \subseteq L!Pairs /\ v8' \subseteq L!Pairs /\ L!Pairs \ v7' \subseteq v8'
    BY <1>0, <1>1, <1>3 DEF L!Values
  <2>2. v9' \in Nat
    BY <1>0, <1>1 DEF L!Values
  <2>3. v6' \in BOOLEAN
    BY <1>0, <1>1, Zenon DEF L!Values
  <2> QED
    BY <1>0, <1>1, <2>1, <2>2, <2>3, Zenon DEF L!Values
<1>7. \A k \in DOMAIN v2 : k \in DOMAIN v2' /\ v2'[k] = v2[k]
  BY <1>1
<1>8. /\ \A k, r : L!IsTrue(k, r, v8) => L!IsTrue(k, r, v8')
      /\ \A x, a : L!Sound(a, x, v2, v8) => L!Sound(a, x, v2', v8')
  BY <1>5, <1>7, LookMore
<1>9. L!SoundInv' /\ L!KeptInv'
  BY <1>0, <1>1, <1>8 DEF L!SoundInv, L!KeptInv
<1>10. L!FlightInv' /\ L!PlaceInv' /\ L!PoolInv'
  BY <1>0, <1>1 DEF L!FlightInv, L!PlaceInv, L!PoolInv, L!KeyOf, L!Holding
<1>11. \A c \in OfGroups.Callers : L!Items(c)' = L!Items(c)
  BY <1>1 DEF L!Items
<1>12. L!UnionInv' /\ L!UnionIsWhole'
  BY <1>0, <1>1, <1>4, <1>11 DEF L!UnionInv, L!UnionIsWhole
<1>13. \A s, found : L!Shown(s, found, v8) => L!Shown(s, found, v8')
  BY <1>5 DEF L!Shown
<1>14. L!GroupsInv'
  <2> SUFFICES ASSUME NEW d \in OfGroups.Callers, v1'[d].op.kind = "groups_of"
               PROVE  LET q == v1'[d] IN
                /\ ~q.lost => \A i \in 1..(q.at - 1) : L!Shown(OfGroups.Order[i], q.found, v8')
                /\ ~q.lost /\ q.pc = "over"
                   => L!Shown(OfGroups.Order[q.at], q.found, v8') /\ q.at = Len(OfGroups.Order)
                /\ q.pc = "pool"
                   => L!Shown(OfGroups.Order[q.at], {OfGroups.Order[q.at]} \X L!Items(d)', v8')
                /\ q.pc \in L!Looking \cup {"ret"} => OfGroups.Order[q.at] \in OfGroups.Listing
    BY DEF L!GroupsInv
  <2>1. v1'[d] = v1[d] /\ L!Items(d)' = L!Items(d)
    BY <1>1, <1>11
  <2> QED
    BY <1>0, <1>13, <2>1 DEF L!GroupsInv
<1> QED
  BY <1>6, <1>9, <1>10, <1>12, <1>14 DEF L!Inv

\* The file an earlier command left.
LEMMA LookOld ==
  ASSUME NEW s, NEW names
  PROVE  \A k \in DOMAIN L!OldListing(s, names) :
           k = L!cacheKey(s, "list", L!NoGroup) /\ L!OldListing(s, names)[k] = L!Listed(names)
<1> DEFINE e == <<>>
           k == L!cacheKey(s, "list", L!NoGroup)
           f == L!With(e, k, L!Listed(names))
<1>1. DOMAIN e = {}
  OBVIOUS
<1> HIDE DEF e, k
<1>2. f = [j \in DOMAIN e \cup {k} |-> IF j = k THEN L!Listed(names) ELSE e[j]]
  BY DEF L!With
<1>3. \A j \in DOMAIN f : j = k /\ f[j] = L!Listed(names)
  BY <1>1, <1>2
<1>4. L!OldListing(s, names) = f
  BY DEF L!OldListing, e, k
<1> HIDE DEF f
<1> QED
  BY <1>3, <1>4 DEF k

\* Before the first call.
LEMMA LookBegins ==
  ASSUME L!Init
  PROVE  L!Inv
<1>1. PICK do \in OfGroups.Ops : v1
      = [a \in L!Askers |-> L!Asker(IF a \in OfGroups.Callers THEN do[a] ELSE L!NoOp, "idle")]
  BY DEF L!Init
<1>2. /\ v2 = <<>> /\ v3 = {} /\ v4 = [a \in L!Askers |-> L!NoHost]
      /\ v5 \in {<<>>}
         \cup {L!OldListing(s, names) : s \in OfGroups.Cached \cap OfGroups.Listing,
           names \in OfGroups.Old}
      /\ v6 = FALSE /\ v9 = 0 /\ v7 \in OfGroups.Begins /\ v8 = L!Pairs \ v7
  BY DEF L!Init
<1>3. DOMAIN v2 = {}
  BY <1>2
<1>4. \A c \in OfGroups.Callers : /\ do[c] \in L!Operations
                                  /\ do[c].kind = "expr" => do[c].refs # <<>>
                                  /\ do[c].kind = "all" => do[c].source \in L!Sources
  BY LookAssumed DEF L!LookupsConstants
<1>5. ASSUME NEW c \in OfGroups.Callers
      PROVE  LET y == v1[c] IN
             y \in L!AskerStates /\ y.pc = "idle" /\ L!Sound(c, y, v2, v8) /\ FliesNot(y)
               /\ y.at = 1
             /\ y.first = L!NoAnswer
  <2> DEFINE y == v1[c]
             op == do[c]
  <2>1. y = L!Asker(op, "idle") /\ c \notin L!Children
    BY <1>1, LookAskers, LookConstants
  <2>2. op \in L!Operations /\ (op.kind = "expr" => op.refs # <<>>)
        /\ (op.kind = "all" => op.source \in L!Sources)
    BY <1>4
  <2> HIDE DEF y, op
  <2>3. L!NoAnswer \in L!Answers /\ <<>> \in Seq(L!Keys) /\ Len(<<>>) = 0
    BY LookErrors
  <2>4. /\ y.op = op /\ y.pc = "idle" /\ y.ref = 1 /\ y.at = 1 /\ y.stack = <<>>
        /\ y.ret = L!NoAnswer
        /\ y.first = L!NoAnswer
    BY <2>1 DEF L!Asker
  <2>5. y \in L!AskerStates
    BY <2>1, <2>2, <2>3 DEF L!Asker, L!AskerStates, L!PCs
  <2>6. y.op.kind = "expr" => y.ref \in DOMAIN y.op.refs
    <3> SUFFICES ASSUME op.kind = "expr" PROVE 1 \in DOMAIN op.refs
      BY <2>4
    <3>1. op.refs \in Seq(L!Refs) /\ op.refs # <<>>
      BY <2>2 DEF L!Operations
    <3>2. Len(op.refs) \in Nat \ {0} /\ DOMAIN op.refs = 1..Len(op.refs)
      BY <3>1, EmptySeq, LenProperties
    <3> QED
      BY <3>2
  <2>7. 1 \in DOMAIN OfGroups.Order
    BY LookConstants
  <2>8. L!Aims(c, y)
    BY <2>1, <2>2, <2>4, <2>6, <2>7 DEF L!Aims
  <2>9. L!Nested(y)
    BY <2>4 DEF L!Nested, L!Looking
  <2>10. \A i \in 1..(y.at - 1) : FALSE
    BY <2>4
  <2>11. L!Told(y, v2, v8)
    BY <2>3, <2>4, <2>10 DEF L!Told
  <2>12. FliesNot(y)
    BY <2>4, LookFlown DEF FliesNot
  <2> QED
    BY <2>4, <2>5, <2>8, <2>9, <2>11, <2>12 DEF L!Sound, y
<1>6. ASSUME NEW b \in L!Children
      PROVE  LET y == v1[b] IN
             y \in L!AskerStates /\ y.pc = "idle" /\ L!Sound(b, y, v2, v8) /\ FliesNot(y)
  <2>1. v1[b] = L!Asker(L!NoOp, "idle")
    BY <1>1, LookAskers
  <2> QED
    BY <2>1, LookFresh
<1>7. \A a \in L!Askers : a \in OfGroups.Callers \/ a \in L!Children
  BY DEF L!Askers
<1>8. \A a \in L!Askers : v1[a] \in L!AskerStates /\ v1[a].pc = "idle"
      /\ L!Sound(a, v1[a], v2, v8) /\ FliesNot(v1[a])
  BY <1>5, <1>6, <1>7
<1>9. ASSUME NEW k \in DOMAIN v5
      PROVE  k \in L!Keys /\ L!IsTrue(k, v5[k], v8)
             /\ (k.kind = "all" => k.source \in OfGroups.Alls)
  <2>1. PICK s \in OfGroups.Cached \cap OfGroups.Listing,
        names \in OfGroups.Old : v5 = L!OldListing(s, names)
    BY <1>2, <1>9
  <2>2. k = L!cacheKey(s, "list", L!NoGroup) /\ v5[k] = L!Listed(names)
    BY <1>9, <2>1, LookOld
  <2>3. s \in L!Sources /\ s \in OfGroups.Cached /\ names \subseteq OfGroups.Groups
    BY LookConstants, LookAssumed DEF L!LookupsConstants
  <2>4. k \in L!Keys /\ k.kind = "list" /\ k.source = s
    BY <2>2, <2>3 DEF L!cacheKey, L!Keys
  <2>5. L!Listed(names) \in L!Answers /\ L!Listed(names).what = "ok"
    BY <2>3 DEF L!Listed, L!Answer, L!Answers
  <2> QED
    BY <2>2, <2>3, <2>4, <2>5 DEF L!IsTrue
<1>10. L!Values
  <2>1. v1 \in [L!Askers -> L!AskerStates]
    <3>1. v1 = [a \in L!Askers |-> v1[a]]
      BY <1>1
    <3> QED
      BY <1>8, <3>1
  <2>2. v4 \in [L!Askers -> SUBSET L!Hosts]
    BY <1>2 DEF L!NoHost
  <2>3. v7 \subseteq L!Pairs
    BY <1>2, LookAssumed DEF L!LookupsConstants
  <2>4. DOMAIN v5 \subseteq L!Keys
    BY <1>9
  <2>5. v6 \in BOOLEAN /\ v9 \in Nat
    BY <1>2
  <2>6. v8 \subseteq L!Pairs /\ L!Pairs \ v7 \subseteq v8 /\ v3 \subseteq L!Keys
        /\ DOMAIN v2 \subseteq L!Keys
    BY <1>2, <1>3
  <2> QED
    BY <2>1, <2>2, <2>3, <2>4, <2>5, <2>6 DEF L!Values
<1>11. L!SoundInv /\ L!KeptInv
  BY <1>3, <1>8, <1>9 DEF L!SoundInv, L!KeptInv
<1>12. L!FlightInv
  BY <1>2, <1>8 DEF L!FlightInv, FliesNot
<1>13. L!PlaceInv
  <2>1. \A h \in L!Hosts : L!Cardinality(L!Holding(h)) <= OfGroups.Limit
    <3> SUFFICES ASSUME NEW h \in L!Hosts PROVE L!Cardinality(L!Holding(h)) <= OfGroups.Limit
      OBVIOUS
    <3>1. L!Holding(h) = {}
      BY <1>2 DEF L!Holding, L!NoHost
    <3>2. L!Cardinality(L!Holding(h)) = 0
      BY <3>1, LookEmptySet
    <3> QED
      BY <3>2, LookConstants
  <2>2. \A a \in L!Askers : v4[a] = L!NoHost
    BY <1>2
  <2> QED
    BY <1>8, <2>1, <2>2 DEF L!PlaceInv
<1>14. L!PoolInv
  BY <1>6 DEF L!PoolInv
<1>15. L!UnionInv /\ L!UnionIsWhole
  BY <1>3, <1>5 DEF L!UnionInv, L!UnionIsWhole
<1>16. L!GroupsInv
  <2> SUFFICES ASSUME NEW c \in OfGroups.Callers, v1[c].op.kind = "groups_of"
               PROVE  LET x == v1[c] IN
                /\ ~x.lost => \A i \in 1..(x.at - 1) : L!Shown(OfGroups.Order[i], x.found, v8)
                /\ ~x.lost /\ x.pc = "over"
                   => L!Shown(OfGroups.Order[x.at], x.found, v8) /\ x.at = Len(OfGroups.Order)
                /\ x.pc = "pool"
                   => L!Shown(OfGroups.Order[x.at], {OfGroups.Order[x.at]} \X L!Items(c), v8)
                /\ x.pc \in L!Looking \cup {"ret"} => OfGroups.Order[x.at] \in OfGroups.Listing
    BY DEF L!GroupsInv
  <2>1. v1[c].at = 1 /\ v1[c].pc = "idle"
    BY <1>5
  <2>2. \A i \in 1..(v1[c].at - 1) : FALSE
    BY <2>1
  <2> QED
    BY <2>1, <2>2 DEF L!Looking
<1> QED
  BY <1>10, <1>11, <1>12, <1>13, <1>14, <1>15, <1>16 DEF L!Inv

\* A step of an asker, and of a caller.
LEMMA LookSteps ==
  ASSUME L!Inv, NEW a \in L!Askers, L!Step(a)
  PROVE  L!Inv'
<1>1. CASE L!FromMemory(a)
  BY <1>1, LookFromMemory
<1>2. CASE L!Wait(a)
  BY <1>2, LookWait
<1>3. CASE L!AtOnce(a)
  BY <1>3, LookAtOnce
<1>4. CASE L!Find(a)
  BY <1>4, LookFind, LookFindStatic
<1>5. CASE L!Acquire(a)
  BY <1>5, LookAcquire
<1>6. CASE L!NotAcquired(a) \/ L!Run(a)
  BY <1>6, LookRuns
<1>7. CASE L!Decide(a)
  BY <1>7, LookDecide
<1>8. CASE L!Resolved(a)
  <2>1. a \in OfGroups.Callers \/ a \in L!Children
    BY DEF L!Askers
  <2> QED
    BY <1>8, <2>1, LookResolvedChild, LookResolvedCaller
<1>9. CASE L!StartItem(a)
  BY <1>9, LookStartItem
<1> QED
  BY <1>1, <1>2, <1>3, <1>4, <1>5, <1>6, <1>7, <1>8, <1>9 DEF L!Step

LEMMA LookCalls ==
  ASSUME L!Inv, NEW c \in OfGroups.Callers, L!Call(c)
  PROVE  L!Inv'
<1>1. CASE L!Begin(c)
  BY <1>1, LookBegin
<1>2. CASE L!Union(c)
  BY <1>2, LookAskers, LookUnionFails, LookUnionStarts
<1>3. CASE L!UnionOver(c)
  BY <1>3, LookUnionOver
<1>4. CASE L!PrefetchOver(c)
  BY <1>4, LookPrefetchOver
<1>5. CASE L!AllAnswered(c)
  BY <1>5, LookAllAnswered
<1>6. CASE L!groupsIn(c)
  BY <1>6, LookgroupsIn
<1>7. CASE L!GroupsListed(c)
  BY <1>7, LookGroupsListed
<1>8. CASE L!ReadGroups(c)
  BY <1>8, LookReadGroups
<1> QED
  BY <1>1, <1>2, <1>3, <1>4, <1>5, <1>6, <1>7, <1>8 DEF L!Call

LEMMA LookStep ==
  ASSUME L!Inv, [L!Next]_(L!vars)
  PROVE  L!Inv'
<1>1. CASE \E a \in L!Askers : L!Step(a)
  BY <1>1, LookSteps
<1>2. CASE \E c \in OfGroups.Callers : L!Call(c)
  BY <1>2, LookCalls
<1>3. CASE L!Interrupt
  BY <1>3, LookInterrupt
<1>4. CASE \E p \in OfGroups.Fickle : L!Change(p)
  BY <1>4, LookChange
<1>5. CASE UNCHANGED L!vars
  <2>1. /\ v1' = v1 /\ v2' = v2 /\ v3' = v3 /\ v4' = v4 /\ v5' = v5
        /\ v6' = v6 /\ v7' = v7 /\ v8' = v8 /\ v9' = v9
    BY <1>5 DEF L!vars
  <2>2. L!Values' /\ L!SoundInv' /\ L!KeptInv' /\ L!FlightInv' /\ L!PlaceInv' /\ L!PoolInv'
    BY <2>1 DEF L!Inv, L!Values, L!SoundInv, L!KeptInv, L!FlightInv, L!PlaceInv, L!PoolInv,
       L!KeyOf, L!Holding
  <2>3. L!UnionInv' /\ L!GroupsInv' /\ L!UnionIsWhole'
    BY <2>1 DEF L!Inv, L!UnionInv, L!GroupsInv, L!UnionIsWhole, L!Items, L!Has
  <2> QED
    BY <2>2, <2>3 DEF L!Inv
<1> QED
  BY <1>1, <1>2, <1>3, <1>4, <1>5 DEF L!Next

\* The invariant says what is promised.
LEMMA LookPromises ==
  ASSUME L!Inv
  PROVE  L!TypeOK /\ L!AnswerIsTrue /\ L!GroupsOfIsWhole /\ L!UnionIsWhole /\ L!OneCommand
<1>0. /\ L!Values /\ L!SoundInv /\ L!KeptInv /\ L!FlightInv /\ L!PlaceInv /\ L!PoolInv
      /\ L!UnionInv /\ L!GroupsInv /\ L!UnionIsWhole
      /\ v1 \in [L!Askers -> L!AskerStates]
  BY DEF L!Inv, L!Values
<1>1. ASSUME NEW a \in L!Askers
      PROVE  /\ v1[a].pc \in {"idle", "ready", "ask", "wait", "place", "run",
                              "ret", "pool", "source", "over"}
             /\ v1[a].stack \in Seq(L!Keys) /\ Len(v1[a].stack) <= 2
             /\ v1[a].ret \in L!Answers /\ v1[a].found \subseteq L!Pairs
  <2>1. v1[a] \in L!AskerStates /\ L!Nested(v1[a])
    BY <1>0 DEF L!SoundInv, L!Sound
  <2>2. Len(v1[a].stack) \in {0, 1, 2}
    BY <2>1, LookStacks DEF L!Nested
  <2>3. Len(v1[a].stack) <= 2
    <3> DEFINE n == Len(v1[a].stack)
    <3>1. n = 0 \/ n = 1 \/ n = 2
      BY <2>2
    <3> HIDE DEF n
    <3>2. n <= 2
      BY <3>1
    <3> QED
      BY <3>2 DEF n
  <2> QED
    BY <2>1, <2>3 DEF L!AskerStates, L!PCs
<1>2. ASSUME NEW k \in v3
      PROVE  L!Cardinality({a \in L!Askers : k \in L!Flown(v1[a])}) = 1
  <2>1. PICK a \in L!Askers : k \in L!Flown(v1[a])
    BY <1>0 DEF L!FlightInv
  <2>2. \A b \in L!Askers : k \in L!Flown(v1[b]) => b = a
    BY <1>0, <2>1 DEF L!FlightInv
  <2>3. {b \in L!Askers : k \in L!Flown(v1[b])} = {a}
    BY <2>1, <2>2
  <2> QED
    BY <2>3, LookSingleton
<1>3. L!TypeOK
  BY <1>0, <1>1, <1>2 DEF L!TypeOK, L!Values, L!Hosts
<1>4. L!AnswerIsTrue
  BY <1>0 DEF L!AnswerIsTrue, L!SoundInv, L!Sound, L!Told
<1>5. L!GroupsOfIsWhole
  <2> SUFFICES ASSUME NEW c \in OfGroups.Callers, v1[c].pc = "over", v1[c].op.kind = "groups_of",
                      ~v1[c].lost,
                      NEW s \in (OfGroups.Static \cup OfGroups.Listing) \ OfGroups.Cached,
                        NEW g \in OfGroups.Groups
               PROVE  <<s, g>> \in v1[c].found \cup v8
    BY DEF L!GroupsOfIsWhole
  <2>1. s \in L!Sources
    BY LookConstants
  <2>2. PICK i \in 1..Len(OfGroups.Order) : OfGroups.Order[i] = s
    BY <2>1 DEF L!Sources
  <2>3. /\ \A j \in 1..(v1[c].at - 1) : L!Shown(OfGroups.Order[j], v1[c].found, v8)
        /\ L!Shown(OfGroups.Order[v1[c].at], v1[c].found, v8) /\ v1[c].at = Len(OfGroups.Order)
    BY <1>0 DEF L!GroupsInv
  <2>4. L!Shown(s, v1[c].found, v8)
    <3> DEFINE n == Len(OfGroups.Order)
    <3>1. n \in Nat /\ i \in 1..n
      BY LookConstants
    <3> HIDE DEF n
    <3>2. i = n \/ i \in 1..(n - 1)
      BY <3>1
    <3> QED
      BY <2>2, <2>3, <3>2 DEF n
  <2> QED
    BY <2>4 DEF L!Shown
<1>6. L!OneCommand
  <2>1. ASSUME NEW a \in L!Askers, v1[a].pc \in {"place", "run"}
        PROVE  L!KeyOf(a) \notin DOMAIN v2 /\ L!KeyOf(a) \in L!Flown(v1[a])
    BY <2>1, LookKey DEF L!Looking
  <2>2. \A a, b \in L!Askers : v1[a].pc \in {"place", "run"} =>
          /\ L!KeyOf(a) \notin DOMAIN v2
          /\ v1[b].pc \in {"place", "run"} /\ a # b => L!KeyOf(a) # L!KeyOf(b)
    BY <1>0, <2>1 DEF L!FlightInv
  <2>3. \A h \in L!Hosts : L!Cardinality(L!Holding(h)) <= OfGroups.Limit
    BY <1>0 DEF L!PlaceInv
  <2>4. \A a \in L!Askers : v4[a] # L!NoHost => v1[a].pc \in {"place", "run"}
    BY <1>0 DEF L!PlaceInv
  <2> QED
    BY <2>2, <2>3, <2>4 DEF L!OneCommand, L!Hosts
<1> QED
  BY <1>0, <1>3, <1>4, <1>5, <1>6

\* A step of the whole is one of the component, or of another scene.
LEMMA LookScene ==
  ASSUME [Next]_vars
  PROVE  /\ scene' = scene
         /\ scene = "groups" => [L!Next]_(L!vars)
BY DEF Next, vars, L!vars

\* The invariant of the component is one of the whole.
LEMMA LookAlways == Spec => [](scene = "groups" => L!Inv)
<1>1. Init => (scene = "groups" => L!Inv)
  BY LookBegins DEF Init
<1>2. (scene = "groups" => L!Inv) /\ [Next]_vars => (scene = "groups" => L!Inv)'
  BY LookScene, LookStep
<1> QED
  BY <1>1, <1>2, PTL DEF Spec

(***************************************************************************)
(* What many callers read together.                                        *)
(***************************************************************************)

\* The state of every component has its type: among it that a DHCP parse counts
\* and nests no more files than it may, and that no more are read at a time than
\* there are places.  (dhcp.fetch, dhcp.include)
THEOREM SharedTypes == Spec => []TypeOK
<1>1. Init => scene \in {"groups", "credentials", "dhcp"}
  BY DEF Init
<1>2. scene \in {"groups", "credentials", "dhcp"} /\ [Next]_vars
      => (scene \in {"groups", "credentials", "dhcp"})'
  BY LookScene
<1>3. /\ scene \in {"groups", "credentials", "dhcp"}
      /\ scene = "groups" => L!Inv
      /\ scene = "credentials" => C!Inv
      /\ scene = "dhcp" => D!Inv
      => TypeOK
  BY LookPromises, CredPromises, DhcpPromises DEF TypeOK
<1> QED
  BY <1>1, <1>2, <1>3, LookAlways, CredAlways, DhcpAlways, PTL DEF Spec

\* Whatever is shared is an answer its source gave while it was asked, and the
\* whole of it: of a lookup that follows, sits out and retries the flights of
\* others, of the passwords of a fan-out, and of a parse whose worker gave up.
\* (groups.lookup, credentials.Get, app.dhcpHosts)
THEOREM SharedAnswersAreTrue == Spec => []SharedIsTrue
<1>1. /\ scene = "groups" => L!Inv
      /\ scene = "credentials" => C!Inv
      /\ scene = "dhcp" => D!Inv
      => SharedIsTrue
  BY LookPromises, CredPromises, DhcpPromises DEF SharedIsTrue
<1> QED
  BY <1>1, LookAlways, CredAlways, DhcpAlways, PTL

\* One command runs for an answer at a time, and the user is asked for a password
\* once, one question after another.  (groups.lookup, credentials.read)
THEOREM EachIsAskedOnce == Spec => []AskedOnce
<1>1. /\ scene = "groups" => L!Inv
      /\ scene = "credentials" => C!Inv
      => AskedOnce
  BY LookPromises, CredPromises DEF AskedOnce
<1> QED
  BY <1>1, LookAlways, CredAlways, PTL
===============================================================================
