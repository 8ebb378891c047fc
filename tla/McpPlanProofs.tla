--------------------------- MODULE McpPlanProofs ---------------------------
(***************************************************************************)
(* Proofs about McpPlan, for any number of plans, calls, places, questions,*)
(* edits and restarts: the type invariant, with the bound on the calls     *)
(* that hold a place, and that a plan is applied at most once.             *)
(*                                                                         *)
(* planStore.take is the only place where the runs of one plan are told    *)
(* apart.  So the invariant follows what comes after it: a run past take   *)
(* has used its plan (UsedInv), no other run of its plan is past take      *)
(* (OneInv), and nothing was sent for the plan before (FirstInv).          *)
(***************************************************************************)
EXTENDS McpPlan, FiniteSetTheorems, TLAPS

(***************************************************************************)
(* The invariant of the types.                                             *)
(***************************************************************************)
Shape ==
  /\ confirm \in {"elicit", "approval"} /\ config \in Configs
  /\ edits \in 0 .. MaxEdits /\ stops \in 0 .. MaxStops
  /\ plan \in [Plans -> PlanType]
  /\ stored \subseteq Plans /\ expired \subseteq Plans
  /\ call \in [Calls -> CallType] /\ cancelled \subseteq Calls
  /\ questions \in Seq(QuestionType)
  /\ answers \in [1 .. MaxQuestions -> AnswerType]
  /\ goneAhead \in [1 .. MaxQuestions -> Nat]
  /\ audit \in [Plans -> SUBSET {"planned", "applying", "applied", "failed"}]
  /\ sent \in [Plans -> Seq(SentType)]

\* The runs past get: their plan was in the store.
PastGet == {"reread", "confirm", "ssh", "take", "record", "send", "close"}

\* A plan exists with its targets; it is stored only while it is not used; the
\* run that makes it is the only one to know it until it is stored; and what is
\* past get is an apply_plan.
PlansInv ==
  /\ \A c \in Calls : call[c].pc \in PastGet \cup {"get"} => call[c].tool = "apply_plan"
  /\ \A p \in Plans : plan[p] = NoPlan \/ plan[p].targets # {}
  /\ \A p \in stored : plan[p].targets # {} /\ ~plan[p].used
  /\ \A c \in Calls :
       call[c].pc \in PastGet \cup {"note"} => plan[call[c].plan].targets # {}
  /\ \A c \in Calls : call[c].pc = "note" =>
       /\ call[c].plan \notin stored /\ ~plan[call[c].plan].used
       /\ \A d \in Calls : call[d].pc \in PastGet \cup {"note"} /\ call[d].plan = call[c].plan
                             => d = c

PlacesInv == Cardinality(Placed) <= MaxCalls

\* Every run that may ask has a question left to put.
AskInv == Len(questions) + Cardinality(MayAsk) <= MaxQuestions

TypeInv == Shape /\ PlansInv /\ PlacesInv /\ AskInv

LEMMA Finite ==
  /\ \A S \in SUBSET Calls : IsFiniteSet(S) /\ Cardinality(S) \in Nat
  /\ \A T \in Selections : Cardinality(T) \in Nat
<1>1. IsFiniteSet(Calls) /\ IsFiniteSet(Hosts) /\ Selections \subseteq SUBSET Hosts
  BY PlanAssumption, GateAssumption
<1>2. ASSUME NEW S \in SUBSET Calls PROVE IsFiniteSet(S) /\ Cardinality(S) \in Nat
  BY <1>1, FS_Subset, FS_CardinalityType
<1>3. ASSUME NEW T \in Selections PROVE Cardinality(T) \in Nat
  BY <1>1, FS_Subset, FS_CardinalityType
<1> QED
  BY <1>2, <1>3

\* A set of runs of which none came, or one, counts no more, or one more.
LEMMA Counted ==
  ASSUME NEW S \in SUBSET Calls, NEW T \in SUBSET Calls, NEW c \in Calls
  PROVE  /\ T \subseteq S => Cardinality(T) <= Cardinality(S)
         /\ T \subseteq S \cup {c} => Cardinality(T) <= Cardinality(S) + 1
         /\ T \subseteq S \ {c} /\ c \in S => Cardinality(T) <= Cardinality(S) - 1
<1>1. ASSUME T \subseteq S PROVE Cardinality(T) <= Cardinality(S)
  BY <1>1, Finite, FS_Subset
<1>2. ASSUME T \subseteq S \cup {c} PROVE Cardinality(T) <= Cardinality(S) + 1
  <2>1. IsFiniteSet(S \cup {c}) /\ Cardinality(S \cup {c}) <= Cardinality(S) + 1
    BY Finite, FS_AddElement
  <2> QED
    BY <1>2, <2>1, Finite, FS_Subset, FS_CardinalityType
<1>3. ASSUME T \subseteq S \ {c}, c \in S PROVE Cardinality(T) <= Cardinality(S) - 1
  <2>1. IsFiniteSet(S \ {c}) /\ Cardinality(S \ {c}) = Cardinality(S) - 1
    BY <1>3, Finite, FS_RemoveElement
  <2> QED
    BY <1>3, <2>1, Finite, FS_Subset, FS_CardinalityType
<1> QED
  BY <1>1, <1>2, <1>3

LEMMA Defaults ==
  /\ SomeConfig \in Configs /\ SomePlan \in Plans
  /\ SomeConfig.cluster \in Clusters /\ SomeConfig.login \in Logins
  /\ NoPlan \in PlanType /\ Idle \in CallType
<1>1. SomeConfig \in Configs /\ SomePlan \in Plans
  BY PlanAssumption DEF SomeConfig, SomePlan
<1>2. SomeConfig.cluster \in Clusters /\ SomeConfig.login \in Logins
  BY <1>1 DEF Clusters, Logins
<1>3. 0 \in 0 .. MaxQuestions
  BY PlanAssumption
<1>4. NoPlan \in PlanType
  BY <1>1, <1>2, <1>3 DEF NoPlan, PlanType
<1>5. Idle \in CallType
  BY <1>1, <1>3 DEF Idle, CallType, Steps
<1> QED
  BY <1>1, <1>2, <1>4, <1>5

LEMMA TypeInit == Init => TypeInv
<1> SUFFICES ASSUME Init PROVE TypeInv
  OBVIOUS
<1>1. Shape
  <2>1. answers \in [1 .. MaxQuestions -> AnswerType]
    BY DEF Init, NoAnswer, AnswerType
  <2>2. /\ plan \in [Plans -> PlanType] /\ call \in [Calls -> CallType]
        /\ sent \in [Plans -> Seq(SentType)] /\ questions \in Seq(QuestionType)
    BY Defaults DEF Init
  <2> QED
    BY <2>1, <2>2, PlanAssumption DEF Init, Shape
<1>2. PlansInv
  BY DEF Init, PlansInv, Idle, PastGet
<1>3. Placed = {} /\ MayAsk = {}
  BY DEF Init, Placed, MayAsk, Idle
<1>4. PlacesInv /\ AskInv
  BY <1>3, FS_EmptySet, PlanAssumption DEF PlacesInv, AskInv, Init
<1> QED
  BY <1>1, <1>2, <1>4 DEF TypeInv

(***************************************************************************)
(* Each action keeps the shape of the state.                               *)
(***************************************************************************)
\* The questions put are as many as they may be, and none is left for a run
\* that may not ask.
LEMMA Room ==
  ASSUME TypeInv
  PROVE  /\ Len(questions) \in 0 .. MaxQuestions
         /\ MayAsk # {} => Len(questions) + 1 <= MaxQuestions
<1>1. MayAsk \in SUBSET Calls
  BY DEF MayAsk
<1>2. Len(questions) \in Nat /\ Cardinality(MayAsk) \in Nat
  BY <1>1, Finite DEF TypeInv, Shape
<1>3. ASSUME MayAsk # {} PROVE Cardinality(MayAsk) >= 1
  BY <1>1, <1>2, <1>3, Finite, FS_EmptySet
<1> QED
  BY <1>2, <1>3, PlanAssumption DEF TypeInv, AskInv

\* A run that goes on to another step.
LEMMA MovedShape ==
  ASSUME call \in [Calls -> CallType], NEW c \in Calls, NEW pc \in Steps, Moved(c, pc)
  PROVE  call' \in [Calls -> CallType]
<1>1. [call[c] EXCEPT !.pc = pc] \in CallType
  BY DEF CallType
<1> QED
  BY <1>1 DEF Moved

LEMMA EndedShape ==
  ASSUME Shape, NEW c \in Calls, Ended(c)
  PROVE  call' \in [Calls -> CallType] /\ cancelled' \subseteq Calls
  BY Defaults DEF Shape, Ended

\* The parts of the state an action leaves alone keep their shape.
LEMMA ShapeNext == TypeInv /\ [Next]_vars => Shape'
<1> SUFFICES ASSUME TypeInv, [Next]_vars PROVE Shape'
  OBVIOUS
<1> USE DEF TypeInv, Shape, world, people, memory, record
<1>1. CASE Edit
  BY <1>1, PlanAssumption DEF Edit
<1>2. CASE Stop
  BY <1>2, Defaults, PlanAssumption DEF Stop
<1>3. ASSUME NEW p \in Plans, Expire(p) PROVE Shape'
  BY <1>3 DEF Expire
<1>4. ASSUME NEW q \in 1 .. MaxQuestions, Answer(q) PROVE Shape'
  <2>1. questions[q] \in QuestionType
    BY <1>4 DEF Answer
  <2>2. answers' \in [1 .. MaxQuestions -> AnswerType]
    BY <1>4, <2>1 DEF Answer, AnswerType, QuestionType, NoAnswer, Form
  <2> QED
    BY <1>4, <2>2 DEF Answer
<1>5. ASSUME NEW c \in Calls, Arrive(c) PROVE Shape'
  <2>1. CASE call' = [call EXCEPT ![c] = [Idle EXCEPT !.pc = "wait"]]
    <3>1. [Idle EXCEPT !.pc = "wait"] \in CallType
      BY Defaults DEF CallType, Steps
    <3> QED
      BY <1>5, <2>1, <3>1 DEF Arrive
  <2>2. ASSUME NEW p \in Plans, NEW q \in 0 .. Len(questions),
               call' = [call EXCEPT ![c] = [Idle EXCEPT !.pc = "wait", !.tool = "apply_plan",
                                                        !.plan = p, !.reply = q]]
        PROVE  Shape'
    <3>1. q \in 0 .. MaxQuestions
      BY Room, PlanAssumption
    <3>2. [Idle EXCEPT !.pc = "wait", !.tool = "apply_plan", !.plan = p, !.reply = q] \in CallType
      BY <3>1, Defaults DEF CallType, Steps
    <3> QED
      BY <1>5, <2>2, <3>2 DEF Arrive
  <2> QED
    BY <1>5, <2>1, <2>2 DEF Arrive
<1>6. ASSUME NEW c \in Calls, Cancel(c) PROVE Shape'
  BY <1>6 DEF Cancel
<1>7. ASSUME NEW c \in Calls, Place(c) PROVE Shape'
  <2>1. call' \in [Calls -> CallType]
    <3>1. [call[c] EXCEPT !.pc = IF call[c].tool = "apply_plan" THEN "get" ELSE "prepare",
                          !.late = call[c].plan \in expired] \in CallType
      <4>1. (IF call[c].tool = "apply_plan" THEN "get" ELSE "prepare") \in Steps
        BY DEF Steps
      <4>2. (call[c].plan \in expired) \in BOOLEAN
        OBVIOUS
      <4>3. \A pc \in Steps, late \in BOOLEAN :
              [call[c] EXCEPT !.pc = pc, !.late = late] \in CallType
        BY DEF CallType
      <4> QED
        BY <4>1, <4>2, <4>3, Zenon
    <3> QED
      BY <1>7, <3>1 DEF Place
  <2> QED
    BY <1>7, <2>1 DEF Place
<1>8. ASSUME NEW c \in Calls, TurnAway(c) \/ Refuse(c) PROVE Shape'
  BY <1>8, EndedShape DEF TurnAway, Refuse
<1>9. ASSUME NEW c \in Calls, Prepare(c) PROVE Shape'
  <2>1. config.cluster \in Clusters /\ config.login \in Logins
    BY DEF Clusters, Logins
  <2>2. PICK p \in Plans, T \in Selections :
           /\ plan' = [plan EXCEPT ![p] = [NoPlan EXCEPT !.targets = T,
                                             !.cluster = config.cluster, !.login = config.login]]
           /\ call' = [call EXCEPT ![c] = [@ EXCEPT !.pc = "note", !.plan = p]]
    BY <1>9 DEF Prepare
  <2>3. [NoPlan EXCEPT !.targets = T, !.cluster = config.cluster, !.login = config.login] \in PlanType
    BY <2>1, Defaults DEF PlanType
  <2>4. call' \in [Calls -> CallType]
    <3>1. [call[c] EXCEPT !.pc = "note", !.plan = p] \in CallType
      BY DEF CallType, Steps
    <3> QED
      BY <2>2, <3>1
  <2> QED
    BY <1>9, <2>2, <2>3, <2>4 DEF Prepare
<1>10. ASSUME NEW c \in Calls, Note(c) PROVE Shape'
  <2>1. call[c].plan \in Plans
    BY DEF CallType
  <2>2. stored' \subseteq Plans
    BY <1>10, <2>1 DEF Note, Pruned
  <2>3. audit' \in [Plans -> SUBSET {"planned", "applying", "applied", "failed"}]
    BY <1>10, <2>1 DEF Note
  <2> QED
    BY <1>10, <2>2, <2>3, EndedShape DEF Note
<1>11. ASSUME NEW c \in Calls, Get(c) PROVE Shape'
  BY <1>11, EndedShape, MovedShape DEF Get, Pruned, Steps
<1>12. ASSUME NEW c \in Calls, Reread(c) PROVE Shape'
  <2>1. call' \in [Calls -> CallType]
    <3>1. [call[c] EXCEPT !.pc = IF confirm = "elicit" THEN "confirm" ELSE "ssh",
                          !.saw = config] \in CallType
      BY DEF CallType, Steps
    <3> QED
      BY <1>12, <3>1 DEF Reread
  <2> QED
    BY <1>12, <2>1 DEF Reread
<1>13. ASSUME NEW c \in Calls, Ask(c) PROVE Shape'
  <2> DEFINE p == call[c].plan
             preview == Preview(call[c].saw, plan[p].targets)
             q == [plan |-> p, cluster |-> call[c].saw.cluster, targets |-> preview.targets,
                   count |-> preview.count, countRequired |-> preview.countRequired]
  <2>1. p \in Plans /\ call[c].saw \in Configs
    BY DEF CallType
  <2>2. plan[p].targets \in Selections
    BY <1>13, <2>1 DEF Ask, PlansInv, PastGet, PlanType
  <2>3. q \in QuestionType
    BY <2>1, <2>2, Finite DEF QuestionType, Preview, Clusters
  <2>4. questions' = Append(questions, q) /\ Len(questions') = Len(questions) + 1
    BY <1>13, <2>3 DEF Ask
  <2>5. Len(questions') \in 0 .. MaxQuestions
    <3>1. c \in MayAsk
      BY <1>13 DEF Ask, MayAsk, PlansInv, PastGet
    <3> QED
      BY <3>1, <2>4, Room, PlanAssumption
  <2>6. [plan[p] EXCEPT !.asked = Len(questions')] \in PlanType
    BY <2>1, <2>5 DEF PlanType
  <2>7. plan' = [plan EXCEPT ![p] = [@ EXCEPT !.asked = Len(questions')]]
    BY <1>13 DEF Ask
  <2>8. call' \in [Calls -> CallType] /\ cancelled' \subseteq Calls
    BY <1>13, EndedShape DEF Ask, Asked
  <2>9. questions' \in Seq(QuestionType) /\ plan' \in [Plans -> PlanType]
    BY <2>1, <2>3, <2>4, <2>6, <2>7
  <2> QED
    BY <1>13, <2>8, <2>9 DEF Ask
<1>14. ASSUME NEW c \in Calls, Judge(c) PROVE Shape'
  <2> DEFINE p == call[c].plan
             q == call[c].reply
  <2>1. p \in Plans /\ q \in 1 .. MaxQuestions
    BY <1>14 DEF Judge, CallType
  <2>2. plan' \in [Plans -> PlanType]
    <3>1. plan[p] \in PlanType /\ 0 \in 0 .. MaxQuestions
      BY <2>1, PlanAssumption
    <3>2. [plan[p] EXCEPT !.asked = 0] \in PlanType
      BY <3>1 DEF PlanType
    <3> QED
      BY <1>14, <2>1, <3>2 DEF Judge, Answered
  <2>3. [call[c] EXCEPT !.pc = "ssh", !.by = q] \in CallType
    BY <2>1 DEF CallType, Steps
  <2>4. \/ /\ call' = [call EXCEPT ![c] = [@ EXCEPT !.pc = "ssh", !.by = q]]
           /\ goneAhead' = [goneAhead EXCEPT ![q] = @ + 1]
           /\ UNCHANGED cancelled
        \/ Ended(c) /\ UNCHANGED goneAhead
    BY <1>14 DEF Judge
  <2>5. /\ call' \in [Calls -> CallType] /\ cancelled' \subseteq Calls
        /\ goneAhead' \in [1 .. MaxQuestions -> Nat]
    <3>1. CASE Ended(c) /\ UNCHANGED goneAhead
      BY <3>1, EndedShape
    <3>2. CASE /\ call' = [call EXCEPT ![c] = [@ EXCEPT !.pc = "ssh", !.by = q]]
               /\ goneAhead' = [goneAhead EXCEPT ![q] = @ + 1]
               /\ UNCHANGED cancelled
      <4>1. goneAhead[q] + 1 \in Nat
        BY <2>1
      <4> QED
        BY <2>1, <2>3, <3>2, <4>1
    <3> QED
      BY <2>4, <3>1, <3>2
  <2> QED
    BY <1>14, <2>2, <2>5 DEF Judge
<1>15. ASSUME NEW c \in Calls, Ssh(c) PROVE Shape'
  BY <1>15, MovedShape DEF Ssh, Steps
<1>16. ASSUME NEW c \in Calls, Take(c) PROVE Shape'
  <2> DEFINE p == call[c].plan
  <2>1. p \in Plans
    BY DEF CallType
  <2>2. [plan[p] EXCEPT !.used = TRUE] \in PlanType
    BY <2>1 DEF PlanType
  <2>3. CASE Fresh(p)
    BY <1>16, <2>1, <2>2, <2>3, MovedShape DEF Take, Left, Steps
  <2>4. CASE ~Fresh(p)
    BY <1>16, <2>4, EndedShape DEF Take
  <2> QED
    BY <2>3, <2>4
<1>17. ASSUME NEW c \in Calls, Record(c) PROVE Shape'
  <2>1. call[c].plan \in Plans
    BY DEF CallType
  <2>2. audit' \in [Plans -> SUBSET {"planned", "applying", "applied", "failed"}]
    BY <1>17, <2>1 DEF Record
  <2> QED
    BY <1>17, <2>2, MovedShape, EndedShape DEF Record, Unrecorded, Steps
<1>18. ASSUME NEW c \in Calls, Send(c) PROVE Shape'
  <2> DEFINE p == call[c].plan
             s == [cluster |-> call[c].saw.cluster,
                   commands |-> Commands(call[c].saw, plan[p].targets),
                   gate |-> call[c].saw, by |-> call[c].by, late |-> call[c].late]
  <2>1. p \in Plans /\ call[c] \in CallType /\ plan[p] \in PlanType
    BY DEF CallType
  <2>2. plan[p].targets \in Selections
    BY <1>18, <2>1 DEF Send, PlansInv, PastGet, PlanType
  <2>3. s \in SentType
    BY <2>1, <2>2 DEF SentType, CallType, Commands, Clusters, Logins
  <2>4. sent' = [sent EXCEPT ![p] = Append(@, s)]
    BY <1>18 DEF Send, Wanted
  <2>5. sent' \in [Plans -> Seq(SentType)]
    BY <2>1, <2>3, <2>4
  <2> QED
    BY <1>18, <2>5, MovedShape DEF Send, Steps
<1>19. ASSUME NEW c \in Calls, Close(c) PROVE Shape'
  <2>1. call[c].plan \in Plans
    BY DEF CallType
  <2>2. audit' \in [Plans -> SUBSET {"planned", "applying", "applied", "failed"}]
    <3>1. ASSUME NEW outcome \in {"applied", "failed"},
                 audit' = [audit EXCEPT ![call[c].plan] = @ \cup {outcome}]
          PROVE  audit' \in [Plans -> SUBSET {"planned", "applying", "applied", "failed"}]
      BY <2>1, <3>1
    <3> QED
      BY <1>19, <3>1 DEF Close
  <2> QED
    BY <1>19, <2>2, EndedShape DEF Close
<1>20. CASE UNCHANGED vars
  BY <1>20 DEF vars
<1> QED
  BY <1>1, <1>2, <1>3, <1>4, <1>5, <1>6, <1>7, <1>8, <1>9, <1>10, <1>11, <1>12, <1>13, <1>14,
     <1>15, <1>16, <1>17, <1>18, <1>19, <1>20 DEF Next, Handle

(***************************************************************************)
(* Each action keeps what is said of the plans.                            *)
(***************************************************************************)
\* A step of one run that makes no plan, stores none, and uses one only when it
\* takes it out of the store and no run is making it.
LEMMA PlansStep ==
  ASSUME TypeInv, NEW c \in Calls, NEW r \in CallType,
         call' = [call EXCEPT ![c] = r],
         stored' \subseteq stored,
         \A p \in Plans :
           \/ plan'[p] = plan[p]
           \/ /\ plan[p].targets # {} /\ plan'[p].targets = plan[p].targets
              /\ plan'[p].used =>
                   \/ plan[p].used
                   \/ p \notin stored' /\ \A d \in Calls : call[d].pc = "note" => call[d].plan # p,
         r.pc # "note",
         r.pc \in PastGet \cup {"get"} => r.tool = "apply_plan",
         r.pc \in PastGet => /\ r.plan = call[c].plan
                             /\ call[c].pc \in PastGet \/ r.plan \in stored
  PROVE  PlansInv'
<1> USE DEF TypeInv, Shape
<1>1. \A d \in Calls : call'[d] = IF d = c THEN r ELSE call[d]
  OBVIOUS
<1>2. \A d \in Calls : call[d].plan \in Plans
  BY DEF CallType
<1>3. r.plan \in Plans
  BY DEF CallType
<1>4. \A p \in Plans : plan'[p] = NoPlan \/ plan'[p].targets # {}
  BY DEF PlansInv
<1>5. \A p \in stored' : plan'[p].targets # {} /\ ~plan'[p].used
  BY DEF PlansInv
<1>6. \A d \in Calls : call'[d].pc \in PastGet \cup {"note"} => plan'[call'[d].plan].targets # {}
  <2>1. \A x \in Plans : plan[x].targets # {} => plan'[x].targets # {}
    OBVIOUS
  <2>2. \A d \in Calls : call[d].pc \in PastGet \cup {"note"} => plan'[call[d].plan].targets # {}
    BY <1>2, <2>1 DEF PlansInv
  <2>3. r.pc \in PastGet => plan'[r.plan].targets # {}
    <3>1. ASSUME r.pc \in PastGet, r.plan \in stored PROVE plan'[r.plan].targets # {}
      BY <1>3, <2>1, <3>1 DEF PlansInv
    <3> QED
      BY <2>2, <3>1
  <2> QED
    BY <1>1, <2>2, <2>3
<1>7. \A d \in Calls : call'[d].pc \in PastGet \cup {"get"} => call'[d].tool = "apply_plan"
  BY <1>1 DEF PlansInv
<1>8. ASSUME NEW d \in Calls, call'[d].pc = "note"
      PROVE  /\ call'[d].plan \notin stored' /\ ~plan'[call'[d].plan].used
             /\ \A e \in Calls :
                  call'[e].pc \in PastGet \cup {"note"} /\ call'[e].plan = call'[d].plan => e = d
  <2>1. d # c /\ call[d].pc = "note" /\ call'[d] = call[d]
    BY <1>1, <1>8
  <2>2. call'[d].plan \notin stored' /\ ~plan'[call'[d].plan].used
    BY <1>2, <2>1 DEF PlansInv
  <2>3. ASSUME NEW e \in Calls, call'[e].pc \in PastGet \cup {"note"}, call'[e].plan = call'[d].plan
        PROVE  e = d
    <3>1. CASE e = c
      <4>1. r.plan = call[d].plan /\ r.pc \in PastGet
        BY <1>1, <2>1, <2>3, <3>1
      <4>2. call[c].pc \in PastGet /\ call[c].plan = call[d].plan
        BY <2>1, <4>1 DEF PlansInv
      <4> QED
        BY <2>1, <3>1, <4>2 DEF PlansInv
    <3>2. CASE e # c
      BY <1>1, <2>1, <2>3, <3>2 DEF PlansInv
    <3> QED
      BY <3>1, <3>2
  <2> QED
    BY <2>2, <2>3
<1> QED
  BY <1>4, <1>5, <1>6, <1>7, <1>8 DEF PlansInv

LEMMA PlansEnded ==
  ASSUME TypeInv, NEW c \in Calls, Ended(c), stored' \subseteq stored, UNCHANGED plan
  PROVE  PlansInv'
<1>1. Idle \in CallType /\ Idle.pc = "idle"
  BY Defaults DEF Idle
<1> QED
  BY <1>1, PlansStep DEF Ended, PastGet

LEMMA PlansNext == TypeInv /\ [Next]_vars => PlansInv'
<1> SUFFICES ASSUME TypeInv, [Next]_vars PROVE PlansInv'
  OBVIOUS
<1> USE DEF world, people, memory, record
<1>0. call \in [Calls -> CallType] /\ plan \in [Plans -> PlanType] /\ stored \subseteq Plans
  BY DEF TypeInv, Shape
<1>a. \A c \in Calls, r \in CallType :
        /\ call' = [call EXCEPT ![c] = r] /\ UNCHANGED <<plan, stored>>
        /\ r.pc # "note" /\ (r.pc \in PastGet \cup {"get"} => r.tool = "apply_plan")
        /\ r.pc \in PastGet => r.plan = call[c].plan /\ (call[c].pc \in PastGet \/ r.plan \in stored)
        => PlansInv'
  BY PlansStep
<1>b. ASSUME NEW c \in Calls, call[c].pc \in PastGet, NEW pc \in PastGet, Moved(c, pc),
             UNCHANGED memory
      PROVE  PlansInv'
  <2> DEFINE r == [call[c] EXCEPT !.pc = pc]
  <2>1. r \in CallType /\ r.pc = pc /\ r.plan = call[c].plan /\ r.tool = call[c].tool
    BY <1>0 DEF CallType, PastGet, Steps
  <2>2. call[c].tool = "apply_plan"
    BY <1>b DEF TypeInv, PlansInv
  <2>3. pc # "note"
    BY DEF PastGet
  <2> QED
    BY <1>a, <1>b, <2>1, <2>2, <2>3 DEF Moved
<1>1. CASE UNCHANGED <<call, memory>>
  BY <1>1 DEF TypeInv, PlansInv
<1>2. CASE Stop
  <2>1. \A c \in Calls : call'[c] = Idle /\ Idle.pc \notin PastGet \cup {"get", "note"}
    BY <1>2 DEF Stop, Idle, PastGet
  <2>2. stored' = {} /\ plan' = plan
    BY <1>2 DEF Stop
  <2> QED
    BY <2>1, <2>2 DEF TypeInv, PlansInv
<1>5. ASSUME NEW c \in Calls, Arrive(c) PROVE PlansInv'
  <2>1. PICK r \in CallType : call' = [call EXCEPT ![c] = r] /\ r.pc = "wait"
    <3>1. CASE call' = [call EXCEPT ![c] = [Idle EXCEPT !.pc = "wait"]]
      <4>1. [Idle EXCEPT !.pc = "wait"] \in CallType
        BY Defaults DEF CallType, Steps
      <4>2. [Idle EXCEPT !.pc = "wait"].pc = "wait"
        BY DEF Idle
      <4> QED
        BY <3>1, <4>1, <4>2
    <3>2. ASSUME NEW p \in Plans, NEW q \in 0 .. Len(questions),
                 call' = [call EXCEPT ![c] = [Idle EXCEPT !.pc = "wait", !.tool = "apply_plan",
                                                          !.plan = p, !.reply = q]]
          PROVE  \E r \in CallType : call' = [call EXCEPT ![c] = r] /\ r.pc = "wait"
      <4>1. q \in 0 .. MaxQuestions
        BY Room, PlanAssumption
      <4>2. [Idle EXCEPT !.pc = "wait", !.tool = "apply_plan", !.plan = p, !.reply = q] \in CallType
        BY <4>1, Defaults DEF CallType, Steps
      <4>3. [Idle EXCEPT !.pc = "wait", !.tool = "apply_plan", !.plan = p, !.reply = q].pc = "wait"
        BY DEF Idle
      <4> QED
        BY <3>2, <4>2, <4>3
    <3> QED
      BY <1>5, <3>1, <3>2 DEF Arrive
  <2> QED
    BY <1>5, <1>a, <2>1 DEF Arrive, PastGet
<1>7. ASSUME NEW c \in Calls, Place(c) PROVE PlansInv'
  <2> DEFINE r == [call[c] EXCEPT
                     !.pc = IF call[c].tool = "apply_plan" THEN "get" ELSE "prepare",
                     !.late = call[c].plan \in expired]
  <2>1. call' \in [Calls -> CallType] /\ call' = [call EXCEPT ![c] = r] /\ UNCHANGED memory
    BY <1>7, ShapeNext DEF Place, Shape
  <2>2. r \in CallType
    BY <1>0, <2>1
  <2>3. /\ r.tool = call[c].tool
        /\ r.pc = IF call[c].tool = "apply_plan" THEN "get" ELSE "prepare"
    BY <1>0 DEF CallType
  <2> QED
    <3>1. r.pc # "note" /\ r.pc \notin PastGet /\ (r.pc = "get" => r.tool = "apply_plan")
      BY <2>3 DEF PastGet
    <3> HIDE DEF r
    <3> QED
      BY <1>a, <2>1, <2>2, <3>1 DEF memory
<1>8. ASSUME NEW c \in Calls, TurnAway(c) \/ Refuse(c) PROVE PlansInv'
  BY <1>8, PlansEnded DEF TurnAway, Refuse
<1>9. ASSUME NEW c \in Calls, Prepare(c) PROVE PlansInv'
  <2>1. PICK p \in Plans, T \in Selections :
           /\ plan[p] = NoPlan /\ T # {}
           /\ plan' = [plan EXCEPT ![p] = [NoPlan EXCEPT !.targets = T,
                                             !.cluster = config.cluster, !.login = config.login]]
           /\ call' = [call EXCEPT ![c] = [@ EXCEPT !.pc = "note", !.plan = p]]
    BY <1>9 DEF Prepare, Check
  <2>2. plan[p].targets = {} /\ ~plan[p].used
    BY <2>1 DEF NoPlan
  <2>3. plan'[p].targets = T /\ ~plan'[p].used
    BY <1>0, <2>1 DEF NoPlan
  <2>4. \A x \in Plans : x # p => plan'[x] = plan[x]
    BY <1>0, <2>1
  <2>5. /\ call'[c].pc = "note" /\ call'[c].plan = p
        /\ \A d \in Calls : d # c => call'[d] = call[d]
    BY <1>0, <2>1 DEF CallType
  <2>6. /\ p \notin stored /\ stored' = stored
        /\ \A d \in Calls : call[d].pc \in PastGet \cup {"note"} => call[d].plan # p
    BY <1>9, <2>2 DEF Prepare, TypeInv, PlansInv
  <2>7. \A d \in Calls : call[d].plan \in Plans
    BY <1>0 DEF CallType
  <2>8. ASSUME NEW d \in Calls, call'[d].pc = "note"
        PROVE  /\ call'[d].plan \notin stored' /\ ~plan'[call'[d].plan].used
               /\ \A e \in Calls :
                    call'[e].pc \in PastGet \cup {"note"} /\ call'[e].plan = call'[d].plan => e = d
    <3>1. CASE d = c
      BY <2>3, <2>5, <2>6, <3>1
    <3>2. CASE d # c
      <4>1. call'[d] = call[d] /\ call[d].plan # p /\ plan'[call[d].plan] = plan[call[d].plan]
        BY <2>4, <2>5, <2>6, <2>7, <2>8, <3>2
      <4> QED
        BY <2>5, <2>6, <2>8, <3>2, <4>1 DEF TypeInv, PlansInv
    <3> QED
      BY <3>1, <3>2
  <2>9. \A d \in Calls : call'[d].pc \in PastGet \cup {"note"} => plan'[call'[d].plan].targets # {}
    BY <2>1, <2>3, <2>4, <2>5, <2>6, <2>7 DEF TypeInv, PlansInv
  <2>10. \A d \in Calls : call'[d].pc \in PastGet \cup {"get"} => call'[d].tool = "apply_plan"
    BY <2>5 DEF TypeInv, PlansInv, PastGet
  <2>11. /\ \A x \in Plans : plan'[x] = NoPlan \/ plan'[x].targets # {}
         /\ \A x \in stored' : plan'[x].targets # {} /\ ~plan'[x].used
    BY <1>0, <2>1, <2>3, <2>4, <2>6 DEF TypeInv, PlansInv
  <2> QED
    BY <2>8, <2>9, <2>10, <2>11 DEF PlansInv
<1>10. ASSUME NEW c \in Calls, Note(c) PROVE PlansInv'
  <2> DEFINE p == call[c].plan
  <2>1. /\ plan' = plan /\ stored' \subseteq stored \cup {p}
        /\ call' = [call EXCEPT ![c] = Idle] /\ call[c].pc = "note"
    BY <1>10 DEF Note, Pruned, Ended
  <2>2. \A d \in Calls : call'[d] = IF d = c THEN Idle ELSE call[d]
    BY <1>0, <2>1
  <2>3. Idle.pc \notin PastGet \cup {"get", "note"}
    BY DEF Idle, PastGet
  <2>4. \A d \in Calls : d # c /\ call[d].pc = "note" => call[d].plan # p
    BY <2>1 DEF TypeInv, PlansInv
  <2>5. plan[p].targets # {} /\ ~plan[p].used
    BY <2>1 DEF TypeInv, PlansInv
  <2> HIDE DEF p
  <2> QED
    BY <2>1, <2>2, <2>3, <2>4, <2>5 DEF TypeInv, PlansInv
<1>11. ASSUME NEW c \in Calls, Get(c) PROVE PlansInv'
  <2>1. CASE Held(call[c].plan)
    <3> DEFINE r == [call[c] EXCEPT !.pc = "reread"]
    <3>1. r \in CallType /\ r.pc = "reread" /\ r.plan = call[c].plan /\ r.tool = call[c].tool
      BY <1>0 DEF CallType, Steps
    <3>2. call' = [call EXCEPT ![c] = r] /\ stored' \subseteq stored /\ UNCHANGED plan
      BY <1>11, <2>1 DEF Get, Moved, Pruned
    <3>3. call[c].tool = "apply_plan" /\ call[c].plan \in stored
      BY <1>11, <2>1 DEF Get, Held, Pruned, TypeInv, PlansInv
    <3> QED
      BY <3>1, <3>2, <3>3, PlansStep
  <2>2. CASE ~Held(call[c].plan)
    BY <1>11, <2>2, PlansEnded DEF Get, Pruned
  <2> QED
    BY <2>1, <2>2
<1>12. ASSUME NEW c \in Calls, Reread(c) PROVE PlansInv'
  <2> DEFINE r == [call[c] EXCEPT !.pc = IF confirm = "elicit" THEN "confirm" ELSE "ssh",
                                  !.saw = config]
  <2>1. call' \in [Calls -> CallType] /\ call' = [call EXCEPT ![c] = r] /\ UNCHANGED memory
    BY <1>12, ShapeNext DEF Reread, Shape
  <2>2. r \in CallType
    BY <1>0, <2>1
  <2>3. /\ r.tool = call[c].tool /\ r.plan = call[c].plan
        /\ r.pc \in {"confirm", "ssh"}
    BY <1>0 DEF CallType
  <2>4. call[c].tool = "apply_plan" /\ call[c].pc \in PastGet
    BY <1>12 DEF Reread, TypeInv, PlansInv, PastGet
  <2> QED
    BY <1>a, <2>1, <2>2, <2>3, <2>4
<1>13. ASSUME NEW c \in Calls, Ask(c) PROVE PlansInv'
  <2> DEFINE p == call[c].plan
  <2>1. p \in Plans /\ call[c].pc \in PastGet
    BY <1>0, <1>13 DEF Ask, CallType, PastGet
  <2>2. plan[p].targets # {}
    BY <2>1 DEF TypeInv, PlansInv
  <2>3. /\ plan' = [plan EXCEPT ![p] = [@ EXCEPT !.asked = Len(questions')]]
        /\ call' = [call EXCEPT ![c] = Idle] /\ UNCHANGED stored
    BY <1>13 DEF Ask, Asked, Ended
  <2>4. \A x \in Plans : plan'[x] = plan[x] \/ (/\ plan[x].targets # {}
                                                /\ plan'[x].targets = plan[x].targets
                                                /\ plan'[x].used = plan[x].used)
    BY <1>0, <2>1, <2>2, <2>3 DEF PlanType
  <2>5. Idle \in CallType /\ Idle.pc = "idle"
    BY Defaults DEF Idle
  <2> QED
    BY <2>3, <2>4, <2>5, PlansStep DEF PastGet
<1>14. ASSUME NEW c \in Calls, Judge(c) PROVE PlansInv'
  <2> DEFINE p == call[c].plan
             r == [call[c] EXCEPT !.pc = "ssh", !.by = call[c].reply]
  <2>1. p \in Plans /\ call[c].pc \in PastGet
    BY <1>0, <1>14 DEF Judge, CallType, PastGet
  <2>2. plan[p].targets # {} /\ call[c].tool = "apply_plan"
    BY <2>1 DEF TypeInv, PlansInv
  <2>3. /\ plan' = [plan EXCEPT ![p] = [@ EXCEPT !.asked = 0]] /\ UNCHANGED stored
        /\ call' = [call EXCEPT ![c] = Idle] \/ call' = [call EXCEPT ![c] = r]
    BY <1>14 DEF Judge, Answered, Ended
  <2>4. \A x \in Plans : plan'[x] = plan[x] \/ (/\ plan[x].targets # {}
                                                /\ plan'[x].targets = plan[x].targets
                                                /\ plan'[x].used = plan[x].used)
    BY <1>0, <2>1, <2>2, <2>3 DEF PlanType
  <2>5. Idle \in CallType /\ Idle.pc = "idle"
    BY Defaults DEF Idle
  <2>6. r \in CallType /\ r.pc = "ssh" /\ r.tool = call[c].tool /\ r.plan = p
    BY <1>0 DEF CallType, Steps
  <2> QED
    BY <2>1, <2>2, <2>3, <2>4, <2>5, <2>6, PlansStep DEF PastGet
<1>15. ASSUME NEW c \in Calls, Ssh(c) PROVE PlansInv'
  BY <1>15, <1>b DEF Ssh, PastGet
<1>16. ASSUME NEW c \in Calls, Take(c) PROVE PlansInv'
  <2> DEFINE p == call[c].plan
             r == [call[c] EXCEPT !.pc = "record"]
  <2>1. p \in Plans /\ call[c].pc \in PastGet
    BY <1>0, <1>16 DEF Take, CallType, PastGet
  <2>2. CASE Fresh(p)
    <3>1. plan[p].targets # {} /\ call[c].tool = "apply_plan"
      BY <2>1 DEF TypeInv, PlansInv
    <3>2. /\ plan' = [plan EXCEPT ![p] = [@ EXCEPT !.used = TRUE]] /\ stored' = stored \ {p}
          /\ call' = [call EXCEPT ![c] = r]
      BY <1>16, <2>2 DEF Take, Moved, Left
    <3>3. \A d \in Calls : call[d].pc = "note" => call[d].plan # p
      BY <2>1 DEF TypeInv, PlansInv, PastGet
    <3>4. \A x \in Plans : plan'[x] = plan[x] \/ (/\ x = p /\ plan[x].targets # {}
                                                  /\ plan'[x].targets = plan[x].targets)
      BY <1>0, <2>1, <3>1, <3>2 DEF PlanType
    <3>5. r \in CallType /\ r.pc = "record" /\ r.tool = call[c].tool /\ r.plan = p
      BY <1>0 DEF CallType, Steps
    <3> QED
      BY <2>1, <3>1, <3>2, <3>3, <3>4, <3>5, PlansStep DEF PastGet
  <2>3. CASE ~Fresh(p)
    BY <1>16, <2>3, PlansEnded DEF Take
  <2> QED
    BY <2>2, <2>3
<1>17. ASSUME NEW c \in Calls, Record(c) PROVE PlansInv'
  BY <1>17, <1>b, PlansEnded DEF Record, Unrecorded, PastGet
<1>18. ASSUME NEW c \in Calls, Send(c) PROVE PlansInv'
  BY <1>18, <1>b DEF Send, PastGet
<1>19. ASSUME NEW c \in Calls, Close(c) PROVE PlansInv'
  BY <1>19, PlansEnded DEF Close
<1> QED
  BY <1>1, <1>2, <1>5, <1>7, <1>8, <1>9, <1>10, <1>11, <1>12, <1>13, <1>14,
     <1>15, <1>16, <1>17, <1>18, <1>19 DEF Next, Handle, vars, Edit, Expire, Answer, Cancel

(***************************************************************************)
(* Each action keeps the bounds on places and on questions.                *)
(***************************************************************************)
\* A step after which no more runs hold a place, or may ask, than before.
LEMMA FewerStep ==
  ASSUME TypeInv, Placed' \subseteq Placed, MayAsk' \subseteq MayAsk, UNCHANGED questions
  PROVE  PlacesInv' /\ AskInv'
<1>1. /\ Placed \in SUBSET Calls /\ Placed' \in SUBSET Calls
      /\ MayAsk \in SUBSET Calls /\ MayAsk' \in SUBSET Calls
  BY DEF Placed, MayAsk
<1>2. Cardinality(Placed') <= Cardinality(Placed) /\ Cardinality(MayAsk') <= Cardinality(MayAsk)
  BY <1>1, Finite, FS_Subset
<1>3. Len(questions) \in Nat
  BY DEF TypeInv, Shape
<1> QED
  BY <1>1, <1>2, <1>3, Finite, PlanAssumption DEF TypeInv, PlacesInv, AskInv

\* A run that goes from one step to the next keeps its place.
LEMMA OnStep ==
  ASSUME TypeInv, NEW c \in Calls, NEW r \in CallType,
         call' = [call EXCEPT ![c] = r], UNCHANGED questions,
         r.pc \in {"idle", "wait"} \/ call[c].pc \notin {"idle", "wait"},
         \/ r.pc = "idle"
         \/ call[c].pc # "idle" /\ r.tool = call[c].tool /\ r.reply = call[c].reply
         \/ r.tool = "plan_change"
  PROVE  PlacesInv' /\ AskInv'
<1>1. \A d \in Calls : call'[d] = IF d = c THEN r ELSE call[d]
  BY DEF TypeInv, Shape
<1>2. Placed' \subseteq Placed
  BY <1>1 DEF Placed
<1>3. MayAsk' \subseteq MayAsk
  BY <1>1 DEF MayAsk
<1> QED
  BY <1>2, <1>3, FewerStep

LEMMA CountNext == TypeInv /\ [Next]_vars => PlacesInv' /\ AskInv'
<1> SUFFICES ASSUME TypeInv, [Next]_vars PROVE PlacesInv' /\ AskInv'
  OBVIOUS
<1> USE DEF world, people, memory, record
<1>0. call \in [Calls -> CallType]
  BY DEF TypeInv, Shape
<1>a. ASSUME NEW c \in Calls, Ended(c), UNCHANGED questions PROVE PlacesInv' /\ AskInv'
  BY <1>a, Defaults, OnStep DEF Ended, Idle
<1>b. ASSUME NEW c \in Calls, NEW pc \in Steps \ {"idle", "wait"}, call[c].pc \notin {"idle", "wait"},
             Moved(c, pc), UNCHANGED questions
      PROVE  PlacesInv' /\ AskInv'
  <2> DEFINE r == [call[c] EXCEPT !.pc = pc]
  <2>1. r \in CallType /\ r.tool = call[c].tool /\ r.reply = call[c].reply
    BY <1>0 DEF CallType
  <2> QED
    BY <1>b, <2>1, OnStep DEF Moved
<1>1. CASE UNCHANGED <<call, questions>>
  BY <1>1, FewerStep DEF Placed, MayAsk
<1>2. CASE Stop
  <2>1. Placed' = {} /\ MayAsk' = {}
    BY <1>2 DEF Stop, Placed, MayAsk, Idle
  <2> QED
    BY <1>2, <2>1, FewerStep DEF Stop
<1>c. /\ Placed \in SUBSET Calls /\ Placed' \in SUBSET Calls
      /\ MayAsk \in SUBSET Calls /\ MayAsk' \in SUBSET Calls
  BY DEF Placed, MayAsk
<1>d. /\ Cardinality(Placed) \in Nat /\ Cardinality(Placed') \in Nat
      /\ Cardinality(MayAsk) \in Nat /\ Cardinality(MayAsk') \in Nat /\ Len(questions) \in Nat
  BY <1>c, Finite DEF TypeInv, Shape
<1>5. ASSUME NEW c \in Calls, Arrive(c) PROVE PlacesInv' /\ AskInv'
  <2>1. CASE call' = [call EXCEPT ![c] = [Idle EXCEPT !.pc = "wait"]]
    <3>1. /\ [Idle EXCEPT !.pc = "wait"] \in CallType
          /\ [Idle EXCEPT !.pc = "wait"].pc = "wait"
          /\ [Idle EXCEPT !.pc = "wait"].tool = "plan_change"
      BY Defaults DEF CallType, Steps, Idle
    <3> QED
      BY <1>5, <2>1, <3>1, OnStep DEF Arrive
  <2>2. ASSUME NEW p \in Plans, NEW q \in 0 .. Len(questions),
               IF q = 0 THEN Len(questions) + Cardinality(MayAsk) < MaxQuestions
                        ELSE answers[q] # NoAnswer,
               call' = [call EXCEPT ![c] = [Idle EXCEPT !.pc = "wait", !.tool = "apply_plan",
                                                        !.plan = p, !.reply = q]]
        PROVE  PlacesInv' /\ AskInv'
    <3>1. /\ call'[c].pc = "wait" /\ call'[c].reply = q /\ call[c].pc = "idle"
          /\ \A d \in Calls : d # c => call'[d] = call[d]
      BY <1>0, <1>5, <2>2 DEF Arrive, Idle
    <3>2. Placed' \subseteq Placed
      BY <3>1 DEF Placed
    <3>3. CASE q = 0
      <4>1. MayAsk' \subseteq MayAsk \cup {c}
        BY <3>1 DEF MayAsk
      <4>2. Cardinality(MayAsk') <= Cardinality(MayAsk) + 1
        BY <1>c, <4>1, Counted
      <4>3. Cardinality(Placed') <= Cardinality(Placed)
        BY <1>c, <3>2, Counted
      <4>4. UNCHANGED questions /\ Len(questions) + Cardinality(MayAsk) < MaxQuestions
        BY <1>5, <2>2, <3>3 DEF Arrive
      <4>5. Len(questions') = Len(questions) /\ Cardinality(Placed) <= MaxCalls
        BY <4>4 DEF TypeInv, PlacesInv
      <4>6. Cardinality(Placed') <= MaxCalls
        BY <1>d, <4>3, <4>5, PlanAssumption
      <4>7. Len(questions') + Cardinality(MayAsk') <= MaxQuestions
        BY <1>d, <4>2, <4>4, <4>5, PlanAssumption
      <4> QED
        BY <4>6, <4>7 DEF PlacesInv, AskInv
    <3>4. CASE q # 0
      <4>1. MayAsk' \subseteq MayAsk
        BY <3>1, <3>4 DEF MayAsk
      <4> QED
        BY <1>5, <3>2, <4>1, FewerStep DEF Arrive
    <3> QED
      BY <3>3, <3>4
  <2> QED
    BY <1>5, <2>1, <2>2 DEF Arrive
<1>7. ASSUME NEW c \in Calls, Place(c) PROVE PlacesInv' /\ AskInv'
  <2>1. /\ call[c].pc = "wait" /\ call'[c].tool = call[c].tool /\ call'[c].reply = call[c].reply
        /\ \A d \in Calls : d # c => call'[d] = call[d]
    BY <1>0, <1>7 DEF Place, CallType
  <2>2. MayAsk' \subseteq MayAsk /\ Placed' \subseteq Placed \cup {c}
    BY <2>1 DEF MayAsk, Placed
  <2>3. /\ Cardinality(MayAsk') <= Cardinality(MayAsk)
        /\ Cardinality(Placed') <= Cardinality(Placed) + 1
    BY <1>c, <2>2, Counted
  <2>4. Cardinality(Placed) < MaxCalls
    BY <1>7 DEF Place, Free
  <2> QED
    BY <1>7, <1>d, <2>3, <2>4, PlanAssumption DEF Place, TypeInv, PlacesInv, AskInv
<1>8. ASSUME NEW c \in Calls, TurnAway(c) \/ Refuse(c) PROVE PlacesInv' /\ AskInv'
  BY <1>8, <1>a DEF TurnAway, Refuse
<1>9. ASSUME NEW c \in Calls, Prepare(c) PROVE PlacesInv' /\ AskInv'
  <2>1. PICK p \in Plans : call' = [call EXCEPT ![c] = [@ EXCEPT !.pc = "note", !.plan = p]]
    BY <1>9 DEF Prepare
  <2> DEFINE r == [call[c] EXCEPT !.pc = "note", !.plan = p]
  <2>2. r \in CallType /\ r.tool = call[c].tool /\ r.reply = call[c].reply
    BY <1>0 DEF CallType, Steps
  <2> QED
    BY <1>9, <2>1, <2>2, OnStep DEF Prepare
<1>10. ASSUME NEW c \in Calls, Note(c) PROVE PlacesInv' /\ AskInv'
  BY <1>10, <1>a DEF Note
<1>11. ASSUME NEW c \in Calls, Get(c) PROVE PlacesInv' /\ AskInv'
  BY <1>11, <1>a, <1>b DEF Get, Steps
<1>12. ASSUME NEW c \in Calls, Reread(c) PROVE PlacesInv' /\ AskInv'
  <2> DEFINE r == [call[c] EXCEPT !.pc = IF confirm = "elicit" THEN "confirm" ELSE "ssh",
                                  !.saw = config]
  <2>1. call' \in [Calls -> CallType] /\ call' = [call EXCEPT ![c] = r] /\ UNCHANGED questions
    BY <1>12, ShapeNext DEF Reread, Shape
  <2>2. r \in CallType /\ r.tool = call[c].tool /\ r.reply = call[c].reply
    BY <1>0, <2>1 DEF CallType
  <2> QED
    BY <1>12, <2>1, <2>2, OnStep DEF Reread
<1>13. ASSUME NEW c \in Calls, Ask(c) PROVE PlacesInv' /\ AskInv'
  <2>1. c \in MayAsk /\ call' = [call EXCEPT ![c] = Idle]
    BY <1>13 DEF Ask, MayAsk, Asked, Ended, TypeInv, PlansInv, PastGet
  <2>2. call'[c].pc = "idle" /\ \A d \in Calls : d # c => call'[d] = call[d]
    BY <1>0, <2>1 DEF Idle
  <2>3. MayAsk' \subseteq MayAsk \ {c} /\ Placed' \subseteq Placed
    BY <2>2 DEF MayAsk, Placed
  <2>4. /\ Cardinality(MayAsk') <= Cardinality(MayAsk) - 1
        /\ Cardinality(Placed') <= Cardinality(Placed)
    BY <1>c, <2>1, <2>3, Counted
  <2>5. Len(questions') = Len(questions) + 1
    <3>1. questions \in Seq(QuestionType) /\ \E q : questions' = Append(questions, q)
      BY <1>13 DEF Ask, TypeInv, Shape
    <3>2. questions' \in Seq(QuestionType)
      BY ShapeNext DEF Shape
    <3> QED
      BY <3>1, <3>2
  <2> QED
    BY <1>d, <2>4, <2>5, PlanAssumption DEF TypeInv, PlacesInv, AskInv
<1>14. ASSUME NEW c \in Calls, Judge(c) PROVE PlacesInv' /\ AskInv'
  <2>1. CASE Ended(c)
    BY <1>14, <1>a, <2>1 DEF Judge
  <2>2. CASE call' = [call EXCEPT ![c] = [@ EXCEPT !.pc = "ssh", !.by = call[c].reply]]
    <3> DEFINE r == [call[c] EXCEPT !.pc = "ssh", !.by = call[c].reply]
    <3>1. r \in CallType /\ r.tool = call[c].tool /\ r.reply = call[c].reply
      BY <1>0 DEF CallType, Steps
    <3> QED
      BY <1>14, <2>2, <3>1, OnStep DEF Judge
  <2> QED
    BY <1>14, <2>1, <2>2 DEF Judge
<1>15. ASSUME NEW c \in Calls, Ssh(c) PROVE PlacesInv' /\ AskInv'
  BY <1>15, <1>b DEF Ssh, Steps
<1>16. ASSUME NEW c \in Calls, Take(c) PROVE PlacesInv' /\ AskInv'
  BY <1>16, <1>a, <1>b DEF Take, Steps
<1>17. ASSUME NEW c \in Calls, Record(c) PROVE PlacesInv' /\ AskInv'
  BY <1>17, <1>a, <1>b DEF Record, Unrecorded, Steps
<1>18. ASSUME NEW c \in Calls, Send(c) PROVE PlacesInv' /\ AskInv'
  BY <1>18, <1>b DEF Send, Steps
<1>19. ASSUME NEW c \in Calls, Close(c) PROVE PlacesInv' /\ AskInv'
  BY <1>19, <1>a DEF Close
<1> QED
  BY <1>1, <1>2, <1>5, <1>7, <1>8, <1>9, <1>10, <1>11, <1>12, <1>13, <1>14,
     <1>15, <1>16, <1>17, <1>18, <1>19 DEF Next, Handle, vars, Edit, Expire, Answer, Cancel

\* The invariant of the types holds in every state.
LEMMA TypeInvariant == Spec => []TypeInv
<1>1. Init => TypeInv
  BY TypeInit
<1>2. TypeInv /\ [Next]_vars => TypeInv'
  BY ShapeNext, PlansNext, CountNext DEF TypeInv
<1> QED
  BY <1>1, <1>2, PTL DEF Spec

\* The state of the server keeps its types, no more runs hold a place than there
\* are places, and only plans that were made and are not used are stored.
THEOREM TypeCorrect == Spec => []TypeOK
<1>1. TypeInv => TypeOK
  <2> SUFFICES ASSUME TypeInv PROVE TypeOK
    OBVIOUS
  <2>1. Len(questions) <= MaxQuestions
    BY Room, PlanAssumption
  <2> QED
    BY <2>1 DEF TypeInv, Shape, PlansInv, PlacesInv, TypeOK
<1> QED
  BY <1>1, TypeInvariant, PTL

(***************************************************************************)
(* A plan is applied at most once.                                         *)
(***************************************************************************)
\* The runs that have taken their plan and have not sent it.
Taken(c) == call[c].pc \in {"record", "send"}

UsedInv ==
  /\ \A c \in Calls : Taken(c) => plan[call[c].plan].used
  /\ \A p \in Plans : sent[p] # <<>> => plan[p].used

OneInv ==
  \A c, d \in Calls : Taken(c) /\ Taken(d) /\ call[c].plan = call[d].plan => c = d

FirstInv == \A c \in Calls : Taken(c) => sent[call[c].plan] = <<>>

OnceInv == UsedInv /\ OneInv /\ FirstInv /\ AppliedAtMostOnce

\* A step in which no run takes a plan and nothing is sent.
LEMMA Quiet ==
  ASSUME TypeInv, OnceInv, UNCHANGED sent,
         \A p \in Plans : plan[p].used => plan'[p].used,
         \A c \in Calls : Taken(c)' => Taken(c) /\ call'[c].plan = call[c].plan
  PROVE  OnceInv'
<1>1. \A c \in Calls : call[c].plan \in Plans
  BY DEF TypeInv, Shape, CallType
<1>2. UsedInv'
  BY <1>1 DEF OnceInv, UsedInv
<1>3. OneInv'
  BY DEF OnceInv, OneInv
<1>4. FirstInv'
  BY DEF OnceInv, FirstInv
<1>5. AppliedAtMostOnce'
  BY DEF OnceInv, AppliedAtMostOnce
<1> QED
  BY <1>2, <1>3, <1>4, <1>5 DEF OnceInv

LEMMA OnceNext == TypeInv /\ OnceInv /\ [Next]_vars => OnceInv'
<1> SUFFICES ASSUME TypeInv, OnceInv, [Next]_vars PROVE OnceInv'
  OBVIOUS
<1> USE DEF world, people, memory, record
<1>0. /\ call \in [Calls -> CallType] /\ plan \in [Plans -> PlanType]
      /\ sent \in [Plans -> Seq(SentType)]
  BY DEF TypeInv, Shape
<1>a. ASSUME NEW c \in Calls, NEW r \in CallType, call' = [call EXCEPT ![c] = r], UNCHANGED sent,
             \A p \in Plans : plan[p].used => plan'[p].used,
             r.pc \in {"record", "send"} => Taken(c) /\ r.plan = call[c].plan
      PROVE  OnceInv'
  <2>1. \A d \in Calls : call'[d] = IF d = c THEN r ELSE call[d]
    BY <1>0, <1>a
  <2>2. \A d \in Calls : Taken(d)' => Taken(d) /\ call'[d].plan = call[d].plan
    BY <1>a, <2>1 DEF Taken
  <2> QED
    BY <1>a, <2>2, Quiet
<1>b. ASSUME NEW c \in Calls, Ended(c), UNCHANGED sent,
             \A p \in Plans : plan[p].used => plan'[p].used
      PROVE  OnceInv'
  BY <1>a, <1>b, Defaults DEF Ended, Idle
<1>c. ASSUME NEW c \in Calls, NEW pc \in Steps \ {"record", "send"}, Moved(c, pc), UNCHANGED sent,
             \A p \in Plans : plan[p].used => plan'[p].used
      PROVE  OnceInv'
  <2> DEFINE r == [call[c] EXCEPT !.pc = pc]
  <2>1. r \in CallType /\ r.pc = pc
    BY <1>0 DEF CallType
  <2> QED
    BY <1>a, <1>c, <2>1 DEF Moved
<1>1. CASE UNCHANGED <<call, plan, sent>>
  BY <1>1, Quiet DEF Taken
<1>2. CASE Stop
  <2>1. \A c \in Calls : ~Taken(c)'
    BY <1>2 DEF Stop, Taken, Idle
  <2> QED
    BY <1>2, <2>1, Quiet DEF Stop
<1>3. ASSUME NEW c \in Calls, Arrive(c) PROVE OnceInv'
  <2>1. \A d \in Calls : Taken(d)' => Taken(d) /\ call'[d].plan = call[d].plan
    <3>1. call'[c].pc = "wait" /\ \A d \in Calls : d # c => call'[d] = call[d]
      BY <1>0, <1>3 DEF Arrive, Idle
    <3> QED
      BY <3>1 DEF Taken
  <2> QED
    BY <1>3, <2>1, Quiet DEF Arrive
<1>4. ASSUME NEW c \in Calls, Place(c) PROVE OnceInv'
  <2>1. call'[c].pc \in {"get", "prepare"} /\ \A d \in Calls : d # c => call'[d] = call[d]
    BY <1>0, <1>4 DEF Place, CallType
  <2>2. \A d \in Calls : Taken(d)' => Taken(d) /\ call'[d].plan = call[d].plan
    BY <2>1 DEF Taken
  <2> QED
    BY <1>4, <2>2, Quiet DEF Place
<1>5. ASSUME NEW c \in Calls, TurnAway(c) \/ Refuse(c) \/ Note(c) \/ Close(c) PROVE OnceInv'
  BY <1>5, <1>b DEF TurnAway, Refuse, Note, Close
<1>6. ASSUME NEW c \in Calls, Prepare(c) PROVE OnceInv'
  <2>1. PICK p \in Plans :
          /\ plan[p] = NoPlan
          /\ \E T : plan' = [plan EXCEPT ![p] = [NoPlan EXCEPT !.targets = T, !.cluster = config.cluster,
                                                               !.login = config.login]]
          /\ call' = [call EXCEPT ![c] = [@ EXCEPT !.pc = "note", !.plan = p]]
    BY <1>6 DEF Prepare
  <2> DEFINE r == [call[c] EXCEPT !.pc = "note", !.plan = p]
  <2>2. r \in CallType /\ r.pc = "note"
    BY <1>0 DEF CallType, Steps
  <2>3. \A x \in Plans : plan[x].used => plan'[x].used
    <3>1. ~plan[p].used /\ \A x \in Plans : x # p => plan'[x] = plan[x]
      BY <1>0, <2>1 DEF NoPlan
    <3> QED
      BY <3>1
  <2> QED
    BY <1>6, <1>a, <2>1, <2>2, <2>3 DEF Prepare
<1>7. ASSUME NEW c \in Calls, Get(c) PROVE OnceInv'
  BY <1>7, <1>b, <1>c DEF Get, Steps
<1>8. ASSUME NEW c \in Calls, Reread(c) PROVE OnceInv'
  <2>1. call'[c].pc \in {"confirm", "ssh"} /\ \A d \in Calls : d # c => call'[d] = call[d]
    BY <1>0, <1>8 DEF Reread, CallType
  <2>2. \A d \in Calls : Taken(d)' => Taken(d) /\ call'[d].plan = call[d].plan
    BY <2>1 DEF Taken
  <2> QED
    BY <1>8, <2>2, Quiet DEF Reread
<1>9. ASSUME NEW c \in Calls, Ask(c) PROVE OnceInv'
  <2>1. \A x \in Plans : plan'[x].used = plan[x].used
    BY <1>0, <1>9 DEF Ask, PlanType
  <2> QED
    BY <1>9, <1>b, <2>1 DEF Ask, Asked
<1>10. ASSUME NEW c \in Calls, Judge(c) PROVE OnceInv'
  <2>1. \A x \in Plans : plan'[x].used = plan[x].used
    BY <1>0, <1>10 DEF Judge, PlanType
  <2>2. CASE Ended(c)
    BY <1>10, <1>b, <2>1, <2>2 DEF Judge
  <2>3. CASE call' = [call EXCEPT ![c] = [@ EXCEPT !.pc = "ssh", !.by = call[c].reply]]
    <3> DEFINE r == [call[c] EXCEPT !.pc = "ssh", !.by = call[c].reply]
    <3>1. r \in CallType /\ r.pc = "ssh"
      BY <1>0 DEF CallType, Steps
    <3> QED
      BY <1>10, <1>a, <2>1, <2>3, <3>1 DEF Judge
  <2> QED
    BY <1>10, <2>2, <2>3 DEF Judge
<1>11. ASSUME NEW c \in Calls, Ssh(c) PROVE OnceInv'
  BY <1>11, <1>c DEF Ssh, Steps
<1>12. ASSUME NEW c \in Calls, Take(c) PROVE OnceInv'
  <2> DEFINE p == call[c].plan
  <2>0. p \in Plans
    BY <1>0 DEF CallType
  <2>1. CASE Fresh(p)
    <3>1. /\ plan' = [plan EXCEPT ![p] = [@ EXCEPT !.used = TRUE]]
          /\ call' = [call EXCEPT ![c] = [@ EXCEPT !.pc = "record"]] /\ UNCHANGED sent
      BY <1>12, <2>1 DEF Take, Moved, Left
    <3>2. plan'[p].used /\ \A x \in Plans : plan[x].used => plan'[x].used
      BY <1>0, <2>0, <3>1 DEF PlanType
    <3>3. Taken(c)' /\ call'[c].plan = p /\ \A d \in Calls : d # c => call'[d] = call[d]
      BY <1>0, <3>1 DEF Taken, CallType
    <3>4. \A d \in Calls : Taken(d) => call[d].plan # p
      BY <2>1 DEF Fresh, OnceInv, UsedInv
    <3>5. sent[p] = <<>>
      BY <2>0, <2>1 DEF Fresh, OnceInv, UsedInv
    <3>6. \A d \in Calls : d # c => (Taken(d)' <=> Taken(d)) /\ call'[d].plan = call[d].plan
      BY <3>3 DEF Taken
    <3>7. UsedInv'
      <4>1. \A d \in Calls : call[d].plan \in Plans
        BY <1>0 DEF CallType
      <4> QED
        BY <3>1, <3>2, <3>3, <3>6, <4>1 DEF OnceInv, UsedInv
    <3>8. OneInv'
      BY <3>3, <3>4, <3>6 DEF OnceInv, OneInv
    <3>9. FirstInv'
      BY <3>1, <3>3, <3>5, <3>6 DEF OnceInv, FirstInv
    <3> QED
      BY <3>1, <3>7, <3>8, <3>9 DEF OnceInv, AppliedAtMostOnce
  <2>2. CASE ~Fresh(p)
    BY <1>12, <1>b, <2>2 DEF Take
  <2> QED
    BY <2>1, <2>2
<1>13. ASSUME NEW c \in Calls, Record(c) PROVE OnceInv'
  <2>1. CASE Ended(c)
    BY <1>13, <1>b, <2>1 DEF Record
  <2>2. CASE Moved(c, "send")
    <3> DEFINE r == [call[c] EXCEPT !.pc = "send"]
    <3>1. r \in CallType /\ r.plan = call[c].plan
      BY <1>0 DEF CallType, Steps
    <3> QED
      BY <1>13, <1>a, <2>2, <3>1 DEF Record, Moved, Taken
  <2> QED
    BY <1>13, <2>1, <2>2 DEF Record, Unrecorded
<1>14. ASSUME NEW c \in Calls, Send(c) PROVE OnceInv'
  <2> DEFINE p == call[c].plan
  <2>1. Taken(c) /\ p \in Plans
    BY <1>0, <1>14 DEF Send, Taken, CallType
  <2>2. sent[p] = <<>> /\ plan[p].used
    BY <2>1 DEF OnceInv, FirstInv, UsedInv
  <2>3. ~Taken(c)' /\ \A d \in Calls : d # c => call'[d] = call[d]
    BY <1>0, <1>14 DEF Send, Moved, Taken, CallType
  <2>4. \A d \in Calls : Taken(d)' => Taken(d) /\ call'[d] = call[d] /\ call[d].plan # p
    <3>1. \A d \in Calls : Taken(d)' => Taken(d) /\ call'[d] = call[d] /\ d # c
      BY <2>3 DEF Taken
    <3> QED
      BY <2>1, <3>1 DEF OnceInv, OneInv
  <2>5. PICK s : sent' = [sent EXCEPT ![p] = Append(@, s)] /\ UNCHANGED plan
    BY <1>14 DEF Send, Wanted
  <2>6. /\ \A x \in Plans : x # p => sent'[x] = sent[x]
        /\ sent'[p] = Append(<<>>, s)
    BY <1>0, <2>1, <2>2, <2>5
  <2>7. sent'[p] = <<s>>
    BY <2>6
  <2>8. UsedInv'
    BY <2>2, <2>4, <2>5, <2>6 DEF OnceInv, UsedInv
  <2>9. OneInv'
    BY <2>4 DEF OnceInv, OneInv
  <2>10. FirstInv'
    <3>1. \A d \in Calls : call[d].plan \in Plans
      BY <1>0 DEF CallType
    <3> QED
      BY <2>4, <2>6, <3>1 DEF OnceInv, FirstInv
  <2>11. AppliedAtMostOnce'
    <3> SUFFICES ASSUME NEW x \in Plans PROVE Len(sent'[x]) <= 1
      BY DEF AppliedAtMostOnce
    <3>1. CASE x = p
      <4>1. sent'[x] = <<s>>
        BY <2>7, <3>1
      <4> QED
        BY <4>1
    <3>2. CASE x # p
      BY <2>6, <3>2 DEF OnceInv, AppliedAtMostOnce
    <3> QED
      BY <3>1, <3>2
  <2> QED
    BY <2>8, <2>9, <2>10, <2>11 DEF OnceInv
<1> QED
  BY <1>1, <1>2, <1>3, <1>4, <1>5, <1>6, <1>7, <1>8, <1>9, <1>10, <1>11, <1>12, <1>13, <1>14
  DEF Next, Handle, vars, Edit, Expire, Answer, Cancel

\* A plan is applied at most once, whatever runs race for it, whatever answers
\* are brought back twice, and however often the server is stopped.
THEOREM AppliedOnce == Spec => []AppliedAtMostOnce
<1>1. Init => OnceInv
  BY DEF Init, OnceInv, UsedInv, OneInv, FirstInv, AppliedAtMostOnce, Taken, Idle
<1>2. TypeInv /\ OnceInv /\ [Next]_vars => OnceInv'
  BY OnceNext
<1>3. OnceInv => AppliedAtMostOnce
  BY DEF OnceInv
<1> QED
  BY <1>1, <1>2, <1>3, TypeInvariant, PTL DEF Spec

(***************************************************************************)
(* One answer confirms one attempt, and what is sent is what was shown,    *)
(* confirmed and in time.                                                  *)
(*                                                                         *)
(* What a plan showed and what was asked and answered never change again   *)
(* (Kept); a run goes from step to step with what it read (Onward).  So    *)
(* each run carries along what the steps before it made sure of: its plan  *)
(* stands under the configuration it read (ReadInv), and the answer it     *)
(* goes ahead on is a yes to a question about this plan (YesInv).  What is *)
(* sent takes both over (SentInv).                                         *)
(***************************************************************************)
(***************************************************************************)
(* How a run goes on in one step.                                          *)
(***************************************************************************)
\* The runs that go on with the configuration they read.
PastRead == {"confirm", "ssh", "take", "record", "send"}

Same(c) ==
  /\ call'[c].plan = call[c].plan /\ call'[c].saw = call[c].saw
  /\ call'[c].by = call[c].by /\ call'[c].late = call[c].late

StartsGet(c) == call'[c].pc = "get" /\ (call'[c].late => call'[c].plan \in expired)

Gets(c) ==
  /\ call[c].pc = "get" /\ call'[c].pc = "reread" /\ Same(c)
  /\ call[c].plan \notin expired

Rereads(c) ==
  /\ call[c].pc = "reread" /\ call'[c].pc = (IF confirm = "elicit" THEN "confirm" ELSE "ssh")
  /\ call'[c].plan = call[c].plan /\ call'[c].late = call[c].late
  /\ Stands(call[c].plan, call'[c].saw)

Agrees(c) ==
  LET p == call[c].plan
      q == call[c].reply
  IN
  /\ call[c].pc = "confirm" /\ call'[c].pc = "ssh"
  /\ call'[c].plan = p /\ call'[c].late = call[c].late /\ call'[c].saw = call[c].saw
  /\ call'[c].by = q /\ q # 0 /\ plan[p].asked = q
  /\ Accept(Preview(call[c].saw, plan[p].targets), answers[q])

GoesOn(c) ==
  /\ call[c].pc \in {"ssh", "take", "record"} /\ call'[c].pc \in {"take", "record", "send"}
  /\ Same(c)

Onward(c) ==
  \/ call'[c] = call[c]
  \/ call'[c].pc \in {"idle", "wait", "prepare", "note", "close"}
  \/ StartsGet(c) \/ Gets(c) \/ Rereads(c) \/ Agrees(c) \/ GoesOn(c)

LEMMA OnwardNext == TypeInv /\ [Next]_vars => \A c \in Calls : Onward(c)
<1> SUFFICES ASSUME TypeInv, [Next]_vars PROVE \A c \in Calls : Onward(c)
  OBVIOUS
<1> USE DEF world, people, memory, record
<1>0. call \in [Calls -> CallType]
  BY DEF TypeInv, Shape
<1>a. ASSUME NEW c \in Calls, \A d \in Calls : d # c => call'[d] = call[d], Onward(c)
      PROVE  \A d \in Calls : Onward(d)
  BY <1>a DEF Onward
<1>b. ASSUME NEW c \in Calls, Ended(c) PROVE \A d \in Calls : Onward(d)
  <2>1. call'[c] = Idle /\ \A d \in Calls : d # c => call'[d] = call[d]
    BY <1>0, <1>b DEF Ended
  <2>2. Onward(c)
    BY <2>1 DEF Onward, Idle
  <2> QED
    BY <1>a, <2>1, <2>2
<1>c. ASSUME NEW c \in Calls, NEW pc \in Steps, Moved(c, pc)
      PROVE  /\ call'[c].pc = pc /\ Same(c)
             /\ \A d \in Calls : d # c => call'[d] = call[d]
  BY <1>0, <1>c DEF Moved, CallType, Same
<1>1. CASE UNCHANGED call
  BY <1>1 DEF Onward
<1>2. CASE Stop
  BY <1>2 DEF Stop, Onward, Idle
<1>3. ASSUME NEW c \in Calls, Arrive(c) PROVE \A d \in Calls : Onward(d)
  <2>1. call'[c].pc = "wait" /\ \A d \in Calls : d # c => call'[d] = call[d]
    BY <1>0, <1>3 DEF Arrive, Idle
  <2> QED
    BY <1>a, <2>1 DEF Onward
<1>4. ASSUME NEW c \in Calls, Place(c) PROVE \A d \in Calls : Onward(d)
  <2>1. /\ call'[c].pc \in {"get", "prepare"} /\ call'[c].plan = call[c].plan
        /\ call'[c].late = (call[c].plan \in expired)
        /\ \A d \in Calls : d # c => call'[d] = call[d]
    BY <1>0, <1>4 DEF Place, CallType
  <2>2. Onward(c)
    BY <2>1 DEF Onward, StartsGet
  <2> QED
    BY <1>a, <2>1, <2>2
<1>5. ASSUME NEW c \in Calls, TurnAway(c) \/ Refuse(c) \/ Note(c) \/ Close(c) \/ Ask(c)
      PROVE  \A d \in Calls : Onward(d)
  BY <1>5, <1>b DEF TurnAway, Refuse, Note, Close, Ask, Asked
<1>6. ASSUME NEW c \in Calls, Prepare(c) PROVE \A d \in Calls : Onward(d)
  <2>1. call'[c].pc = "note" /\ \A d \in Calls : d # c => call'[d] = call[d]
    BY <1>0, <1>6 DEF Prepare, CallType
  <2> QED
    BY <1>a, <2>1 DEF Onward
<1>7. ASSUME NEW c \in Calls, Get(c) PROVE \A d \in Calls : Onward(d)
  <2>1. CASE Moved(c, "reread")
    <3>1. Gets(c) \/ Ended(c)
      BY <1>7, <1>c, <2>1 DEF Get, Gets, Held, Pruned, Steps
    <3>2. ASSUME Gets(c) PROVE \A d \in Calls : Onward(d)
      <4>1. \A d \in Calls : d # c => call'[d] = call[d]
        BY <1>c, <2>1 DEF Steps
      <4> QED
        BY <1>a, <3>2, <4>1 DEF Onward
    <3> QED
      BY <1>b, <3>1, <3>2
  <2> QED
    BY <1>7, <1>b, <2>1 DEF Get
<1>8. ASSUME NEW c \in Calls, Reread(c) PROVE \A d \in Calls : Onward(d)
  <2>1. /\ call'[c].pc = (IF confirm = "elicit" THEN "confirm" ELSE "ssh")
        /\ call'[c].plan = call[c].plan /\ call'[c].late = call[c].late /\ call'[c].saw = config
        /\ \A d \in Calls : d # c => call'[d] = call[d]
    BY <1>0, <1>8 DEF Reread, CallType
  <2>2. Rereads(c)
    BY <1>8, <2>1 DEF Reread, Rereads
  <2> QED
    BY <1>a, <2>1, <2>2 DEF Onward
<1>9. ASSUME NEW c \in Calls, Judge(c) PROVE \A d \in Calls : Onward(d)
  <2> DEFINE p == call[c].plan
             q == call[c].reply
  <2>1. CASE Ended(c)
    BY <1>b, <2>1
  <2>2. CASE ~Ended(c)
    <3>1. /\ call' = [call EXCEPT ![c] = [@ EXCEPT !.pc = "ssh", !.by = q]]
          /\ call[c].pc = "confirm" /\ q # 0 /\ plan[p].asked = q
          /\ Accept(Preview(call[c].saw, plan[p].targets), answers[q])
      BY <1>9, <2>2 DEF Judge
    <3>2. /\ call'[c].pc = "ssh" /\ call'[c].by = q
          /\ call'[c].plan = p /\ call'[c].saw = call[c].saw /\ call'[c].late = call[c].late
          /\ \A d \in Calls : d # c => call'[d] = call[d]
      BY <1>0, <3>1 DEF CallType
    <3>3. Agrees(c)
      BY <3>1, <3>2 DEF Agrees
    <3> QED
      BY <1>a, <3>2, <3>3 DEF Onward
  <2> QED
    BY <2>1, <2>2
<1>10. ASSUME NEW c \in Calls, NEW pc \in {"take", "record", "send"}, Moved(c, pc),
              call[c].pc \in {"ssh", "take", "record"}
       PROVE  \A d \in Calls : Onward(d)
  <2>1. GoesOn(c) /\ \A d \in Calls : d # c => call'[d] = call[d]
    BY <1>c, <1>10 DEF GoesOn, Steps
  <2> QED
    BY <1>a, <2>1 DEF Onward
<1>11. ASSUME NEW c \in Calls, Ssh(c) \/ Take(c) \/ Record(c) PROVE \A d \in Calls : Onward(d)
  BY <1>11, <1>b, <1>10 DEF Ssh, Take, Record, Unrecorded
<1>12. ASSUME NEW c \in Calls, Send(c) PROVE \A d \in Calls : Onward(d)
  <2>1. call'[c].pc = "close" /\ \A d \in Calls : d # c => call'[d] = call[d]
    BY <1>c, <1>12 DEF Send, Steps
  <2> QED
    BY <1>a, <2>1 DEF Onward
<1> QED
  BY <1>1, <1>2, <1>3, <1>4, <1>5, <1>6, <1>7, <1>8, <1>9, <1>11, <1>12
  DEF Next, Handle, vars, Edit, Expire, Answer, Cancel

(***************************************************************************)
(* What never changes again.                                               *)
(***************************************************************************)
\* What a plan that exists showed, the questions put, and the answers given.
Kept ==
  /\ UNCHANGED confirm /\ expired \subseteq expired'
  /\ \A p \in Plans : plan[p].targets # {} =>
       /\ plan'[p].targets = plan[p].targets /\ plan'[p].cluster = plan[p].cluster
       /\ plan'[p].login = plan[p].login
  /\ questions' \in Seq(QuestionType) /\ Len(questions) <= Len(questions')
  /\ \A q \in 1 .. Len(questions) : questions'[q] = questions[q]
  /\ \A q \in 1 .. MaxQuestions : answers[q].action = "accept" => answers'[q] = answers[q]

LEMMA KeptNext == TypeInv /\ [Next]_vars => Kept
<1> SUFFICES ASSUME TypeInv, [Next]_vars PROVE Kept
  OBVIOUS
<1> USE DEF world, people, memory, record
<1>0. /\ plan \in [Plans -> PlanType] /\ questions \in Seq(QuestionType)
      /\ answers \in [1 .. MaxQuestions -> AnswerType] /\ call \in [Calls -> CallType]
  BY DEF TypeInv, Shape
<1>1. UNCHANGED confirm /\ expired \subseteq expired'
  BY DEF Next, Handle, vars, Edit, Stop, Expire, Answer, Arrive, Cancel, Place, TurnAway, Refuse,
         Prepare, Note, Get, Reread, Ask, Judge, Ssh, Take, Record, Send, Close
<1>2. ASSUME NEW p \in Plans, plan[p].targets # {}
      PROVE  /\ plan'[p].targets = plan[p].targets /\ plan'[p].cluster = plan[p].cluster
             /\ plan'[p].login = plan[p].login
  <2>1. CASE UNCHANGED plan
    BY <2>1
  <2>2. ASSUME NEW c \in Calls, Prepare(c) PROVE plan'[p] = plan[p]
    BY <1>0, <1>2, <2>2 DEF Prepare, NoPlan
  <2>3. ASSUME NEW c \in Calls, Ask(c) \/ Judge(c) \/ Take(c)
        PROVE  /\ plan'[p].targets = plan[p].targets /\ plan'[p].cluster = plan[p].cluster
               /\ plan'[p].login = plan[p].login
    <3>1. \/ UNCHANGED plan
          \/ \E x \in Plans : \E n : plan' = [plan EXCEPT ![x] = [@ EXCEPT !.asked = n]]
          \/ \E x \in Plans : plan' = [plan EXCEPT ![x] = [@ EXCEPT !.used = TRUE]]
      <4>1. call[c].plan \in Plans
        BY <1>0 DEF CallType
      <4> QED
        BY <2>3, <4>1 DEF Ask, Judge, Take
    <3> QED
      BY <1>0, <3>1 DEF PlanType
  <2> QED
    BY <2>1, <2>2, <2>3 DEF Next, Handle, vars, Edit, Stop, Expire, Answer, Arrive, Cancel, Place,
         TurnAway, Refuse, Note, Get, Reread, Ssh, Record, Send, Close
<1>3. /\ Len(questions) <= Len(questions')
      /\ \A q \in 1 .. Len(questions) : questions'[q] = questions[q]
  <2>1. UNCHANGED questions \/ \E c \in Calls : Ask(c)
    BY DEF Next, Handle, vars, Edit, Stop, Expire, Answer, Arrive, Cancel, Place, TurnAway, Refuse,
           Prepare, Note, Get, Reread, Judge, Ssh, Take, Record, Send, Close
  <2>2. ASSUME NEW c \in Calls, Ask(c)
        PROVE  /\ Len(questions) <= Len(questions')
               /\ \A q \in 1 .. Len(questions) : questions'[q] = questions[q]
    <3>1. PICK q : questions' = Append(questions, q)
      BY <2>2 DEF Ask
    <3> QED
      BY <1>0, <3>1
  <2> QED
    BY <1>0, <2>1, <2>2
<1>4. ASSUME NEW q \in 1 .. MaxQuestions, answers[q].action = "accept"
      PROVE  answers'[q] = answers[q]
  <2>1. UNCHANGED answers \/ \E x \in 1 .. MaxQuestions : Answer(x)
    BY DEF Next, Handle, vars, Edit, Stop, Expire, Arrive, Cancel, Place, TurnAway, Refuse,
           Prepare, Note, Get, Reread, Ask, Judge, Ssh, Take, Record, Send, Close
  <2>2. ASSUME NEW x \in 1 .. MaxQuestions, Answer(x) PROVE answers'[q] = answers[q]
    BY <1>0, <1>4, <2>2 DEF Answer, NoAnswer
  <2> QED
    BY <2>1, <2>2
<1>5. questions' \in Seq(QuestionType)
  BY ShapeNext DEF Shape
<1> QED
  BY <1>1, <1>2, <1>3, <1>4, <1>5 DEF Kept

(***************************************************************************)
(* One answer confirms one attempt.                                        *)
(***************************************************************************)
\* An open question is about its plan, to which it names the cluster and the
\* hosts; one that was gone ahead on is open no more.
AskedInv ==
  \A p \in Plans : plan[p].asked # 0 =>
    /\ plan[p].targets # {}
    /\ plan[p].asked <= Len(questions)
    /\ questions[plan[p].asked].plan = p
    /\ questions[plan[p].asked].cluster = plan[p].cluster
    /\ questions[plan[p].asked].targets = plan[p].targets

AheadInv ==
  \A q \in 1 .. MaxQuestions : goneAhead[q] # 0 =>
    /\ goneAhead[q] = 1 /\ q <= Len(questions)
    /\ \A p \in Plans : plan[p].asked # q

\* A plan stands under the configuration read by a run that goes on with it.
ReadInv ==
  \A c \in Calls :
    /\ call[c].pc \in PastRead => Stands(call[c].plan, call[c].saw)
    /\ call[c].pc \in PastRead \cup {"reread"} => ~call[c].late
    /\ call[c].pc = "get" /\ call[c].late => call[c].plan \in expired

LEMMA StandsOn ==
  ASSUME TypeInv, Kept, NEW p \in Plans, NEW g \in Configs, Stands(p, g)
  PROVE  Stands(p, g)'
<1>1. plan[p].targets # {}
  BY DEF Stands, Check
<1>2. /\ plan'[p].targets = plan[p].targets /\ plan'[p].cluster = plan[p].cluster
      /\ plan'[p].login = plan[p].login
  BY <1>1 DEF Kept
<1> QED
  BY <1>2 DEF Stands, Commands

LEMMA ReadNext == TypeInv /\ ReadInv /\ [Next]_vars => ReadInv'
<1> SUFFICES ASSUME TypeInv, ReadInv, [Next]_vars, NEW c \in Calls
             PROVE  /\ call'[c].pc \in PastRead => Stands(call[c].plan, call[c].saw)'
                    /\ call'[c].pc \in PastRead \cup {"reread"} => ~call'[c].late
                    /\ call'[c].pc = "get" /\ call'[c].late => call'[c].plan \in expired'
  BY DEF ReadInv
<1>0. /\ call[c] \in CallType /\ call'[c] \in CallType
      /\ Kept /\ Onward(c)
  BY ShapeNext, KeptNext, OnwardNext DEF TypeInv, Shape
<1>a. /\ call[c].plan \in Plans /\ call[c].saw \in Configs
      /\ call'[c].plan \in Plans /\ call'[c].saw \in Configs
  BY <1>0 DEF CallType
<1>b. call[c].pc \in PastRead => Stands(call[c].plan, call[c].saw)
  BY DEF ReadInv
<1>c. /\ call[c].pc \in PastRead \cup {"reread"} => ~call[c].late
      /\ call[c].pc = "get" /\ call[c].late => call[c].plan \in expired
  BY DEF ReadInv
<1>1. ASSUME call'[c].pc \in PastRead, ~Rereads(c) PROVE Stands(call[c].plan, call[c].saw)'
  <2>1. /\ call[c].pc \in PastRead
        /\ call'[c].plan = call[c].plan /\ call'[c].saw = call[c].saw
    BY <1>0, <1>1 DEF Onward, StartsGet, Gets, Agrees, GoesOn, Same, PastRead
  <2>2. Stands(call[c].plan, call[c].saw)
    BY <1>b, <2>1
  <2>3. \A p \in Plans, g \in Configs : Stands(p, g) => Stands(p, g)'
    BY <1>0, StandsOn
  <2> QED
    BY <1>a, <2>1, <2>2, <2>3
<1>2. ASSUME Rereads(c) PROVE Stands(call[c].plan, call[c].saw)'
  <2>1. Stands(call'[c].plan, call'[c].saw)
    BY <1>2 DEF Rereads
  <2>2. \A p \in Plans, g \in Configs : Stands(p, g) => Stands(p, g)'
    BY <1>0, StandsOn
  <2> QED
    BY <1>a, <2>1, <2>2
<1>3. call'[c].pc \in PastRead \cup {"reread"} => ~call'[c].late
  BY <1>0, <1>c DEF Onward, StartsGet, Gets, Rereads, Agrees, GoesOn, Same, PastRead
<1>4. call'[c].pc = "get" /\ call'[c].late => call'[c].plan \in expired'
  BY <1>0, <1>c DEF Onward, StartsGet, Gets, Rereads, Agrees, GoesOn, Kept
<1> QED
  BY <1>1, <1>2, <1>3, <1>4

LEMMA AskedNext == TypeInv /\ ReadInv /\ AskedInv /\ [Next]_vars => AskedInv'
<1> SUFFICES ASSUME TypeInv, ReadInv, AskedInv, [Next]_vars PROVE AskedInv'
  OBVIOUS
<1> USE DEF world, people, memory, record
<1>0. /\ plan \in [Plans -> PlanType] /\ plan' \in [Plans -> PlanType]
      /\ questions \in Seq(QuestionType) /\ questions' \in Seq(QuestionType)
      /\ call \in [Calls -> CallType] /\ Kept
  BY ShapeNext, KeptNext DEF TypeInv, Shape
<1>1. ASSUME NEW p \in Plans, plan'[p].asked = plan[p].asked \/ plan'[p].asked = 0,
             plan'[p].asked # 0
      PROVE  /\ plan'[p].targets # {}
             /\ plan'[p].asked <= Len(questions')
             /\ questions'[plan'[p].asked].plan = p
             /\ questions'[plan'[p].asked].cluster = plan'[p].cluster
             /\ questions'[plan'[p].asked].targets = plan'[p].targets
  <2> DEFINE q == plan[p].asked
  <2>1. plan'[p].asked = q /\ q # 0 /\ q \in Nat
    BY <1>0, <1>1, PlanAssumption DEF PlanType
  <2>2. /\ plan[p].targets # {} /\ q <= Len(questions)
        /\ questions[q].plan = p /\ questions[q].cluster = plan[p].cluster
        /\ questions[q].targets = plan[p].targets
    BY <2>1 DEF AskedInv
  <2>3. questions'[q] = questions[q] /\ q <= Len(questions')
    BY <1>0, <2>1, <2>2 DEF Kept
  <2>4. plan'[p].targets = plan[p].targets /\ plan'[p].cluster = plan[p].cluster
    BY <1>0, <2>2 DEF Kept
  <2> QED
    BY <2>1, <2>2, <2>3, <2>4
<1>2. ASSUME NEW c \in Calls, Ask(c) PROVE AskedInv'
  <2> DEFINE p == call[c].plan
             n == Len(questions) + 1
  <2>1. p \in Plans /\ call[c].saw \in Configs
    BY <1>0 DEF CallType
  <2>2. /\ questions' = Append(questions, [plan |-> p, cluster |-> call[c].saw.cluster,
                            targets |-> plan[p].targets,
                            count |-> Cardinality(plan[p].targets),
                            countRequired |-> Cardinality(plan[p].targets) > call[c].saw.above])
        /\ plan' = [plan EXCEPT ![p] = [@ EXCEPT !.asked = Len(questions')]]
        /\ call[c].pc = "confirm"
    BY <1>2 DEF Ask, Preview
  <2>3. Len(questions') = n /\ questions'[n].plan = p /\ questions'[n].targets = plan[p].targets
        /\ questions'[n].cluster = call[c].saw.cluster
    BY <1>0, <2>2
  <2>4. Stands(p, call[c].saw)
    BY <2>2 DEF ReadInv, PastRead
  <2>5. plan[p].targets # {} /\ call[c].saw.cluster = plan[p].cluster
    BY <2>4 DEF Stands, Check
  <2>6. /\ plan'[p].asked = n /\ plan'[p].targets = plan[p].targets
        /\ plan'[p].cluster = plan[p].cluster
        /\ \A x \in Plans : x # p => plan'[x] = plan[x]
    BY <1>0, <2>1, <2>2, <2>3 DEF PlanType
  <2>7. ASSUME NEW x \in Plans, x # p PROVE plan'[x].asked = plan[x].asked
    BY <2>6, <2>7
  <2>8. plan'[p].targets # {} /\ plan'[p].asked <= Len(questions')
    BY <1>0, <2>3, <2>5, <2>6
  <2>9. ASSUME NEW x \in Plans, plan'[x].asked # 0
        PROVE  /\ plan'[x].targets # {}
               /\ plan'[x].asked <= Len(questions')
               /\ questions'[plan'[x].asked].plan = x
               /\ questions'[plan'[x].asked].cluster = plan'[x].cluster
               /\ questions'[plan'[x].asked].targets = plan'[x].targets
    <3>1. CASE x = p
      BY <2>3, <2>5, <2>6, <2>8, <3>1
    <3>2. CASE x # p
      BY <1>1, <2>7, <2>9, <3>2
    <3> QED
      BY <3>1, <3>2
  <2> QED
    BY <2>9 DEF AskedInv
<1>3. ASSUME NEW c \in Calls, Prepare(c), NEW p \in Plans PROVE plan'[p].asked = plan[p].asked
  BY <1>0, <1>3 DEF Prepare, NoPlan
<1>4. ASSUME NEW c \in Calls, Judge(c) \/ Take(c), NEW p \in Plans
      PROVE  plan'[p].asked = plan[p].asked \/ plan'[p].asked = 0
  <2>1. \/ UNCHANGED plan
        \/ plan' = [plan EXCEPT ![call[c].plan] = [@ EXCEPT !.asked = 0]]
        \/ plan' = [plan EXCEPT ![call[c].plan] = [@ EXCEPT !.used = TRUE]]
    BY <1>4 DEF Judge, Answered, Take
  <2>2. CASE plan' = [plan EXCEPT ![call[c].plan] = [@ EXCEPT !.asked = 0]]
    BY <1>0, <2>2 DEF PlanType
  <2>3. CASE plan' = [plan EXCEPT ![call[c].plan] = [@ EXCEPT !.used = TRUE]]
    BY <1>0, <2>3 DEF PlanType
  <2> QED
    BY <2>1, <2>2, <2>3
<1>5. CASE UNCHANGED plan
  BY <1>1, <1>5 DEF AskedInv
<1> QED
  BY <1>1, <1>2, <1>3, <1>4, <1>5 DEF AskedInv, Next, Handle, vars, Edit, Stop, Expire, Answer,
     Arrive, Cancel, Place, TurnAway, Refuse, Note, Get, Reread, Ssh, Record, Send, Close

LEMMA AheadNext == TypeInv /\ AskedInv /\ AheadInv /\ [Next]_vars => AheadInv'
<1> SUFFICES ASSUME TypeInv, AskedInv, AheadInv, [Next]_vars PROVE AheadInv'
  OBVIOUS
<1> USE DEF world, people, memory, record
<1>0. /\ plan \in [Plans -> PlanType] /\ questions \in Seq(QuestionType)
      /\ questions' \in Seq(QuestionType)
      /\ goneAhead \in [1 .. MaxQuestions -> Nat] /\ call \in [Calls -> CallType] /\ Kept
  BY ShapeNext, KeptNext DEF TypeInv, Shape
<1>1. ASSUME UNCHANGED goneAhead,
             \A p \in Plans : \/ plan'[p].asked \in {plan[p].asked, 0}
                              \/ plan'[p].asked > Len(questions)
      PROVE  AheadInv'
  <2> SUFFICES ASSUME NEW q \in 1 .. MaxQuestions, goneAhead[q] # 0
               PROVE  /\ goneAhead[q] = 1 /\ q <= Len(questions')
                      /\ \A p \in Plans : plan'[p].asked # q
    BY <1>1 DEF AheadInv
  <2>1. goneAhead[q] = 1 /\ q <= Len(questions) /\ \A p \in Plans : plan[p].asked # q
    BY DEF AheadInv
  <2>2. q <= Len(questions')
    BY <1>0, <2>1 DEF Kept
  <2>3. ASSUME NEW p \in Plans PROVE plan'[p].asked # q
    <3>1. plan[p].asked # q /\ q # 0 /\ ~(q > Len(questions))
      BY <1>0, <2>1
    <3> QED
      BY <1>1, <3>1
  <2> QED
    BY <2>1, <2>2, <2>3
<1>2. ASSUME NEW c \in Calls, Ask(c) PROVE AheadInv'
  <2>1. Len(questions') > Len(questions)
    <3>1. PICK x : questions' = Append(questions, x)
      BY <1>2 DEF Ask
    <3> QED
      BY <1>0, <3>1
  <2>2. plan' = [plan EXCEPT ![call[c].plan] = [@ EXCEPT !.asked = Len(questions')]]
    BY <1>2 DEF Ask
  <2>3. \A p \in Plans : plan'[p].asked = plan[p].asked \/ plan'[p].asked = Len(questions')
    BY <1>0, <2>2 DEF PlanType
  <2> QED
    BY <1>1, <1>2, <2>1, <2>3 DEF Ask
<1>3. ASSUME NEW c \in Calls, Prepare(c) PROVE AheadInv'
  <2>1. \A p \in Plans : plan'[p].asked = plan[p].asked
    BY <1>0, <1>3 DEF Prepare, NoPlan
  <2> QED
    BY <1>1, <1>3, <2>1 DEF Prepare
<1>4. ASSUME NEW c \in Calls, Take(c) PROVE AheadInv'
  <2>1. UNCHANGED plan \/ plan' = [plan EXCEPT ![call[c].plan] = [@ EXCEPT !.used = TRUE]]
    BY <1>4 DEF Take
  <2>2. \A p \in Plans : plan'[p].asked = plan[p].asked
    BY <1>0, <2>1 DEF PlanType
  <2> QED
    BY <1>1, <1>4, <2>2 DEF Take
<1>5. ASSUME NEW c \in Calls, Judge(c) PROVE AheadInv'
  <2> DEFINE p == call[c].plan
             q == call[c].reply
  <2>1. p \in Plans /\ q \in 0 .. MaxQuestions
    BY <1>0 DEF CallType
  <2>2. /\ plan' = [plan EXCEPT ![p] = [@ EXCEPT !.asked = 0]] /\ UNCHANGED questions
    BY <1>5 DEF Judge, Answered
  <2>3. plan'[p].asked = 0 /\ \A x \in Plans : x # p => plan'[x] = plan[x]
    BY <1>0, <2>1, <2>2 DEF PlanType
  <2>4. CASE UNCHANGED goneAhead
    <3>1. \A x \in Plans : plan'[x].asked \in {plan[x].asked, 0}
      BY <2>3
    <3> QED
      BY <1>1, <2>4, <3>1
  <2>5. CASE ~UNCHANGED goneAhead
    <3>1. /\ q # 0 /\ plan[p].asked = q
          /\ goneAhead' = [goneAhead EXCEPT ![q] = @ + 1]
      BY <1>5, <2>5 DEF Judge
    <3>2. q \in 1 .. MaxQuestions /\ q <= Len(questions) /\ questions[q].plan = p
      BY <2>1, <3>1, PlanAssumption DEF AskedInv
    <3>3. goneAhead[q] = 0
      BY <2>1, <3>1, <3>2 DEF AheadInv
    <3>4. goneAhead'[q] = 1 /\ \A x \in 1 .. MaxQuestions : x # q => goneAhead'[x] = goneAhead[x]
      BY <1>0, <3>1, <3>2, <3>3
    <3>5. \A x \in Plans : plan'[x].asked # q
      BY <2>1, <2>3, <3>2 DEF AskedInv
    <3>6. ASSUME NEW x \in 1 .. MaxQuestions, x # q, goneAhead'[x] # 0
          PROVE  /\ goneAhead'[x] = 1 /\ x <= Len(questions')
                 /\ \A y \in Plans : plan'[y].asked # x
      <4>1. goneAhead[x] = 1 /\ x <= Len(questions) /\ \A y \in Plans : plan[y].asked # x
        BY <3>4, <3>6 DEF AheadInv
      <4> QED
        BY <2>2, <2>3, <3>4, <3>6, <4>1
    <3> QED
      BY <2>2, <3>2, <3>4, <3>5, <3>6 DEF AheadInv
  <2> QED
    BY <2>4, <2>5
<1>6. CASE UNCHANGED <<plan, goneAhead>>
  BY <1>1, <1>6
<1> QED
  BY <1>2, <1>3, <1>4, <1>5, <1>6 DEF Next, Handle, vars, Edit, Stop, Expire, Answer,
     Arrive, Cancel, Place, TurnAway, Refuse, Note, Get, Reread, Ssh, Record, Send, Close

AnswersInv == ReadInv /\ AskedInv /\ AheadInv

LEMMA AnswersInvariant == Spec => []AnswersInv
<1>1. Init => AnswersInv
  BY DEF Init, AnswersInv, ReadInv, AskedInv, AheadInv, Idle, NoPlan, PastRead
<1>2. TypeInv /\ AnswersInv /\ [Next]_vars => AnswersInv'
  BY ReadNext, AskedNext, AheadNext DEF AnswersInv
<1> QED
  BY <1>1, <1>2, TypeInvariant, PTL DEF Spec

\* One answer confirms one attempt, however often it is brought back, in whatever
\* order, and also when the attempt it confirmed comes to nothing.
THEOREM OneAnswer == Spec => []OneAnswerOneAttempt
<1>1. TypeInv /\ AnswersInv => OneAnswerOneAttempt
  BY DEF TypeInv, Shape, AnswersInv, AheadInv, OneAnswerOneAttempt
<1> QED
  BY <1>1, TypeInvariant, AnswersInvariant, PTL

(***************************************************************************)
(* What is sent was shown, confirmed and is in time.                       *)
(***************************************************************************)
\* The answer to a question is a yes, by the rule of a configuration, to what a
\* plan does in its cluster.
Confirmed(p, g, q) ==
  /\ q \in 1 .. Len(questions)
  /\ questions[q].plan = p /\ questions[q].cluster = g.cluster
  /\ questions[q].targets = plan[p].targets
  /\ Accept(Preview(g, plan[p].targets), answers[q])

YesInv ==
  confirm = "elicit" =>
    \A c \in Calls : call[c].pc \in PastRead \ {"confirm"} =>
      Confirmed(call[c].plan, call[c].saw, call[c].by)

\* What was sent keeps to its plan, and the plan stands under the configuration
\* it was sent under.
Agreed(p, s) ==
  /\ s.commands = Commands(s.gate, plan[p].targets) /\ s.cluster = s.gate.cluster
  /\ Stands(p, s.gate) /\ ~s.late
  /\ confirm = "elicit" => Confirmed(p, s.gate, s.by)

SentInv == \A p \in Plans : \A i \in DOMAIN sent[p] : Agreed(p, sent[p][i])

LEMMA ConfirmedOn ==
  ASSUME TypeInv, Kept, NEW p \in Plans, NEW g \in Configs, NEW q \in 0 .. MaxQuestions,
         plan[p].targets # {}, Confirmed(p, g, q)
  PROVE  Confirmed(p, g, q)'
<1>1. plan'[p].targets = plan[p].targets
  BY DEF Kept
<1>2. Len(questions) \in Nat /\ Len(questions) <= MaxQuestions
  BY Room, PlanAssumption
<1>3. q \in 1 .. Len(questions) /\ q \in 1 .. MaxQuestions
  BY <1>2, PlanAssumption DEF Confirmed
<1>4. questions'[q] = questions[q]
  BY <1>3 DEF Kept
<1>5. answers'[q] = answers[q]
  BY <1>3 DEF Kept, Confirmed, Accept
<1>6. Len(questions') \in Nat /\ Len(questions) <= Len(questions')
  <2>1. Len(questions) <= Len(questions')
    BY DEF Kept
  <2> QED
    BY <1>2, <2>1
<1> QED
  BY <1>1, <1>3, <1>4, <1>5, <1>6 DEF Confirmed, Preview

LEMMA YesNext == TypeInv /\ AnswersInv /\ YesInv /\ [Next]_vars => YesInv'
<1> SUFFICES ASSUME TypeInv, AnswersInv, YesInv, [Next]_vars, confirm' = "elicit",
                    NEW c \in Calls, call'[c].pc \in PastRead \ {"confirm"}
             PROVE  Confirmed(call[c].plan, call[c].saw, call[c].by)'
  BY DEF YesInv
<1>0. /\ call[c] \in CallType /\ call'[c] \in CallType /\ plan \in [Plans -> PlanType]
      /\ Kept /\ Onward(c) /\ confirm = "elicit"
  BY ShapeNext, KeptNext, OnwardNext DEF TypeInv, Shape, Kept
<1>1. /\ call[c].plan \in Plans /\ call[c].saw \in Configs /\ call[c].by \in 0 .. MaxQuestions
      /\ call'[c].plan \in Plans /\ call'[c].saw \in Configs /\ call'[c].by \in 0 .. MaxQuestions
  BY <1>0 DEF CallType
<1>2. \A p \in Plans, g \in Configs, q \in 0 .. MaxQuestions :
        plan[p].targets # {} /\ Confirmed(p, g, q) => Confirmed(p, g, q)'
  BY <1>0, ConfirmedOn
<1>3. call[c].pc \in PastRead
  BY <1>0 DEF Onward, StartsGet, Gets, Rereads, Agrees, GoesOn, PastRead
<1>4. plan[call[c].plan].targets # {} /\ call[c].saw.cluster = plan[call[c].plan].cluster
  BY <1>3 DEF AnswersInv, ReadInv, Stands, Check
<1>5. CASE Agrees(c)
  <2>1. PICK p \in Plans, g \in Configs, q \in 0 .. MaxQuestions :
          /\ p = call[c].plan /\ g = call[c].saw /\ q = call[c].reply
          /\ call'[c].plan = p /\ call'[c].saw = g /\ call'[c].by = q
    BY <1>0, <1>1, <1>5 DEF Agrees, CallType
  <2>2. q # 0 /\ plan[p].asked = q /\ Accept(Preview(g, plan[p].targets), answers[q])
    BY <1>5, <2>1 DEF Agrees
  <2>3. /\ q <= Len(questions) /\ questions[q].plan = p
        /\ questions[q].cluster = plan[p].cluster /\ questions[q].targets = plan[p].targets
    BY <2>2 DEF AnswersInv, AskedInv
  <2>4. Confirmed(p, g, q)
    <3>1. q \in 1 .. Len(questions)
      BY <2>2, <2>3, Room, PlanAssumption
    <3> QED
      BY <1>4, <2>1, <2>2, <2>3, <3>1 DEF Confirmed
  <2>5. Confirmed(p, g, q)'
    BY <1>2, <1>4, <2>1, <2>4
  <2> QED
    BY <2>1, <2>5
<1>6. CASE ~Agrees(c)
  <2>1. /\ call[c].pc \in PastRead \ {"confirm"}
        /\ call'[c].plan = call[c].plan /\ call'[c].saw = call[c].saw /\ call'[c].by = call[c].by
    BY <1>0, <1>6 DEF Onward, StartsGet, Gets, Rereads, GoesOn, Same, PastRead
  <2>2. PICK p \in Plans, g \in Configs, q \in 0 .. MaxQuestions :
          /\ p = call[c].plan /\ g = call[c].saw /\ q = call[c].by
          /\ call'[c].plan = p /\ call'[c].saw = g /\ call'[c].by = q
    BY <1>1, <2>1
  <2>3. Confirmed(p, g, q)
    BY <1>0, <2>1, <2>2 DEF YesInv
  <2>4. Confirmed(p, g, q)'
    BY <1>2, <1>4, <2>2, <2>3
  <2> QED
    BY <2>2, <2>4
<1> QED
  BY <1>5, <1>6

LEMMA AgreedOn ==
  ASSUME TypeInv, Kept, NEW p \in Plans, NEW s \in SentType, Agreed(p, s)
  PROVE  Agreed(p, s)'
<1>1. s.gate \in Configs /\ s.by \in 0 .. MaxQuestions
  BY DEF SentType
<1>2. plan[p].targets # {} /\ Stands(p, s.gate)
  BY DEF Agreed, Stands, Check
<1>3. Stands(p, s.gate)'
  BY <1>1, <1>2, StandsOn
<1>4. plan'[p].targets = plan[p].targets /\ confirm' = confirm
  BY <1>2 DEF Kept
<1>5. confirm = "elicit" => Confirmed(p, s.gate, s.by)'
  BY <1>1, <1>2, ConfirmedOn DEF Agreed
<1> QED
  BY <1>3, <1>4, <1>5 DEF Agreed, Commands

LEMMA SentNext == TypeInv /\ AnswersInv /\ YesInv /\ SentInv /\ [Next]_vars => SentInv'
<1> SUFFICES ASSUME TypeInv, AnswersInv, YesInv, SentInv, [Next]_vars PROVE SentInv'
  OBVIOUS
<1> USE DEF world, people, memory, record
<1>0. /\ call \in [Calls -> CallType] /\ sent \in [Plans -> Seq(SentType)]
      /\ sent' \in [Plans -> Seq(SentType)] /\ plan \in [Plans -> PlanType] /\ Kept
  BY ShapeNext, KeptNext DEF TypeInv, Shape
<1>1. \A p \in Plans : \A i \in DOMAIN sent[p] : sent[p][i] \in SentType /\ Agreed(p, sent[p][i])
  BY <1>0 DEF SentInv
<1>2. \A p \in Plans, s \in SentType : Agreed(p, s) => Agreed(p, s)'
  BY <1>0, AgreedOn
<1>3. ASSUME NEW p \in Plans, NEW i \in DOMAIN sent'[p],
             \/ i \in DOMAIN sent[p] /\ sent'[p][i] = sent[p][i]
             \/ \E s \in SentType : Agreed(p, s) /\ sent'[p][i] = s
      PROVE  Agreed(p, sent[p][i])'
  <2>1. PICK s \in SentType : Agreed(p, s) /\ sent'[p][i] = s
    BY <1>1, <1>3
  <2>2. Agreed(p, s)'
    BY <1>2, <2>1
  <2> QED
    BY <2>1, <2>2
<1>4. CASE UNCHANGED sent
  BY <1>3, <1>4 DEF SentInv
<1>5. ASSUME NEW c \in Calls, Send(c) PROVE SentInv'
  <2>1. PICK x \in Plans, g \in Configs : x = call[c].plan /\ g = call[c].saw
    BY <1>0 DEF CallType
  <2> DEFINE s == [cluster |-> g.cluster, commands |-> Commands(g, plan[x].targets),
                   gate |-> g, by |-> call[c].by, late |-> call[c].late]
  <2>2. /\ call[c].by \in 0 .. MaxQuestions /\ call[c].late \in BOOLEAN /\ call[c].pc = "send"
        /\ sent' = [sent EXCEPT ![x] = Append(@, s)]
    BY <1>0, <1>5, <2>1 DEF CallType, Send, Wanted
  <2>3. Stands(x, g) /\ ~call[c].late
    BY <2>1, <2>2 DEF AnswersInv, ReadInv, PastRead
  <2>4. confirm = "elicit" => Confirmed(x, g, call[c].by)
    BY <2>1, <2>2 DEF YesInv, PastRead
  <2>5. Agreed(x, s)
    BY <2>3, <2>4 DEF Agreed
  <2>6. s \in SentType
    <3>1. plan[x].targets \in Selections
      BY <1>0, <2>3 DEF Stands, Check, PlanType
    <3>2. Commands(g, plan[x].targets) \in [login : Logins, nodes : Selections]
      BY <3>1 DEF Commands, Logins
    <3> QED
      BY <2>2, <3>2 DEF SentType, Clusters
  <2>7. ASSUME NEW p \in Plans, NEW i \in DOMAIN sent'[p]
        PROVE  \/ i \in DOMAIN sent[p] /\ sent'[p][i] = sent[p][i]
               \/ \E r \in SentType : Agreed(p, r) /\ sent'[p][i] = r
    <3>1. CASE p # x
      BY <1>0, <2>2, <2>7, <3>1
    <3>2. CASE p = x
      <4>1. sent'[p] = Append(sent[p], s) /\ sent[p] \in Seq(SentType)
        BY <1>0, <2>2, <3>2
      <4>2. CASE i \in DOMAIN sent[p]
        BY <2>6, <4>1, <4>2
      <4>3. CASE i \notin DOMAIN sent[p]
        <5>1. sent'[p][i] = s
          BY <2>6, <2>7, <4>1, <4>3
        <5> QED
          BY <2>5, <2>6, <3>2, <5>1
      <4> QED
        BY <4>2, <4>3
    <3> QED
      BY <3>1, <3>2
  <2> QED
    BY <1>3, <2>7 DEF SentInv
<1> QED
  BY <1>4, <1>5 DEF Next, Handle, vars, Edit, Stop, Expire, Answer, Arrive, Cancel, Place, TurnAway,
     Refuse, Prepare, Note, Get, Reread, Ask, Judge, Ssh, Take, Record, Close

LEMMA AgreedIsMeant ==
  ASSUME TypeInv, SentInv
  PROVE  SentAsAgreed
<1>1. ASSUME NEW p \in Plans, NEW i \in DOMAIN sent[p] PROVE Agreed(p, sent[p][i])
  BY DEF SentInv
<1>2. ShownIsSent
  <2> SUFFICES ASSUME NEW p \in Plans, NEW i \in DOMAIN sent[p]
               PROVE  LET s == sent[p][i] IN
                      /\ s.cluster = plan[p].cluster
                      /\ s.commands = Commands(plan[p], plan[p].targets)
                      /\ \A t \in s.commands.nodes :
                           t \in s.gate.known /\ \A h \in s.gate.protected : Short[h] # Short[t]
    BY DEF ShownIsSent
  <2> DEFINE s == sent[p][i]
  <2>1. /\ s.commands = Commands(s.gate, plan[p].targets) /\ s.cluster = s.gate.cluster
        /\ Stands(p, s.gate)
    BY <1>1 DEF Agreed
  <2>2. s.commands.nodes = plan[p].targets
    BY <2>1 DEF Commands
  <2>3. /\ s.gate.cluster = plan[p].cluster
        /\ plan[p].targets \subseteq s.gate.known /\ ProtectedIn(s.gate, plan[p].targets) = {}
        /\ Commands(s.gate, plan[p].targets) = Commands(plan[p], plan[p].targets)
    BY <2>1 DEF Stands, Check
  <2>4. \A t \in plan[p].targets : \A h \in s.gate.protected : Short[h] # Short[t]
    BY <2>3 DEF ProtectedIn
  <2>5. \A t \in s.commands.nodes :
          t \in s.gate.known /\ \A h \in s.gate.protected : Short[h] # Short[t]
    BY <2>2, <2>3, <2>4, Zenon
  <2>6. s.cluster = plan[p].cluster /\ s.commands = Commands(plan[p], plan[p].targets)
    BY <2>1, <2>3, Zenon
  <2> QED
    BY <2>5, <2>6
<1>3. SentIsConfirmed
  <2> SUFFICES ASSUME confirm = "elicit", NEW p \in Plans, NEW i \in DOMAIN sent[p]
               PROVE  LET s == sent[p][i] IN
                      /\ s.by # 0
                      /\ questions[s.by].plan = p
                      /\ questions[s.by].cluster = s.cluster
                      /\ questions[s.by].targets = s.commands.nodes
                      /\ answers[s.by].action = "accept"
                      /\ IF Cardinality(s.commands.nodes) > s.gate.above
                         THEN answers[s.by].form = "count" /\ answers[s.by].n = Cardinality(s.commands.nodes)
                         ELSE answers[s.by].form = "confirm" /\ answers[s.by].n = 1
    BY DEF SentIsConfirmed
  <2> DEFINE s == sent[p][i]
  <2>1. /\ s.commands = Commands(s.gate, plan[p].targets) /\ s.cluster = s.gate.cluster
        /\ Confirmed(p, s.gate, s.by)
    BY <1>1 DEF Agreed
  <2>2. s.commands.nodes = plan[p].targets
    BY <2>1 DEF Commands
  <2>3. /\ s.by \in 1 .. Len(questions)
        /\ questions[s.by].plan = p /\ questions[s.by].cluster = s.cluster
        /\ questions[s.by].targets = s.commands.nodes
        /\ Accept(Preview(s.gate, s.commands.nodes), answers[s.by])
    BY <2>1, <2>2, Zenon DEF Confirmed
  <2>4. Cardinality(s.commands.nodes) > s.gate.above =>
          answers[s.by].form = "count" /\ answers[s.by].n = Cardinality(s.commands.nodes)
    BY <2>3 DEF Accept, Preview, Form
  <2>5. ~(Cardinality(s.commands.nodes) > s.gate.above) =>
          answers[s.by].form = "confirm" /\ answers[s.by].n = 1
    BY <2>3 DEF Accept, Preview, Form
  <2>6. s.by # 0 /\ answers[s.by].action = "accept"
    BY <2>3 DEF Accept
  <2> QED
    BY <2>3, <2>4, <2>5, <2>6
<1>4. ExpiredIsNotSent
  BY <1>1 DEF Agreed, ExpiredIsNotSent
<1> QED
  BY <1>2, <1>3, <1>4 DEF SentAsAgreed

\* What is sent is what the plan showed; it was confirmed, where the server asks,
\* on a question about this plan by a yes under the rule in force; and no run that
\* began after its plan had expired sends anything.
THEOREM Agreement == Spec => []SentAsAgreed
<1>1. Init => YesInv /\ SentInv
  BY DEF Init, YesInv, SentInv, Idle, PastRead
<1>2. TypeInv /\ AnswersInv /\ YesInv /\ SentInv /\ [Next]_vars => YesInv' /\ SentInv'
  BY YesNext, SentNext
<1>3. TypeInv /\ SentInv => SentAsAgreed
  BY AgreedIsMeant
<1> QED
  BY <1>1, <1>2, <1>3, TypeInvariant, AnswersInvariant, PTL DEF Spec

(***************************************************************************)
(* What is sent is recorded.                                               *)
(***************************************************************************)
\* A plan is stored, and gone on with, once the log has it; it is sent once the
\* log says that it is being applied, and how it ended is written after that.
LoggedInv ==
  /\ \A p \in stored : "planned" \in audit[p]
  /\ \A c \in Calls : call[c].pc \in PastGet => "planned" \in audit[call[c].plan]
  /\ \A c \in Calls : call[c].pc \in {"send", "close"} => "applying" \in audit[call[c].plan]
  /\ \A c \in Calls : call[c].pc = "close" => sent[call[c].plan] # <<>>

RecordInv == LoggedInv /\ SentIsRecorded

\* A run goes on with the plan it had, which it found in the store.
Carries(c) ==
  call'[c].pc \in PastGet =>
    /\ call'[c].plan = call[c].plan
    /\ \/ call[c].pc \in PastGet
       \/ call[c].pc = "get" /\ call[c].plan \in stored
    /\ call'[c].pc = "close" => call[c].pc \in {"send", "close"}
    /\ call'[c].pc = "send" => call[c].pc \in {"record", "send"}

LEMMA Carried == TypeInv /\ [Next]_vars => \A c \in Calls : Carries(c)
<1> SUFFICES ASSUME TypeInv, [Next]_vars PROVE \A c \in Calls : Carries(c)
  OBVIOUS
<1> USE DEF world, people, memory, record
<1>0. call \in [Calls -> CallType]
  BY DEF TypeInv, Shape
<1>a. ASSUME NEW c \in Calls, \A d \in Calls : d # c => call'[d] = call[d], Carries(c)
      PROVE  \A d \in Calls : Carries(d)
  BY <1>a DEF Carries
<1>b. ASSUME NEW c \in Calls, \A d \in Calls : d # c => call'[d] = call[d],
             call'[c].pc \notin PastGet
      PROVE  \A d \in Calls : Carries(d)
  BY <1>b DEF Carries
<1>c. ASSUME NEW c \in Calls, Ended(c) PROVE \A d \in Calls : Carries(d)
  BY <1>0, <1>b, <1>c DEF Ended, Idle, PastGet
<1>d. ASSUME NEW c \in Calls, NEW pc \in Steps, Moved(c, pc)
      PROVE  /\ call'[c].pc = pc /\ call'[c].plan = call[c].plan
             /\ \A d \in Calls : d # c => call'[d] = call[d]
  BY <1>0, <1>d DEF Moved, CallType
<1>1. CASE UNCHANGED call
  BY <1>1 DEF Carries
<1>2. CASE Stop
  BY <1>2 DEF Stop, Carries, Idle, PastGet
<1>3. ASSUME NEW c \in Calls, Arrive(c) \/ Place(c) \/ Prepare(c) PROVE \A d \in Calls : Carries(d)
  <2>1. \A d \in Calls : d # c => call'[d] = call[d]
    BY <1>0, <1>3 DEF Arrive, Place, Prepare
  <2>2. CASE Arrive(c)
    <3>1. call'[c].pc = "wait"
      BY <1>0, <2>2 DEF Arrive, Idle
    <3> QED
      BY <1>b, <2>1, <3>1 DEF PastGet
  <2>3. CASE Place(c)
    <3>1. call'[c].pc \in {"get", "prepare"}
      BY <1>0, <2>3 DEF Place, CallType
    <3> QED
      BY <1>b, <2>1, <3>1 DEF PastGet
  <2>4. CASE Prepare(c)
    <3>1. call'[c].pc = "note"
      BY <1>0, <2>4 DEF Prepare, CallType
    <3> QED
      BY <1>b, <2>1, <3>1 DEF PastGet
  <2> QED
    BY <1>3, <2>2, <2>3, <2>4
<1>4. ASSUME NEW c \in Calls, TurnAway(c) \/ Refuse(c) \/ Note(c) \/ Close(c) \/ Ask(c)
      PROVE  \A d \in Calls : Carries(d)
  BY <1>4, <1>c DEF TurnAway, Refuse, Note, Close, Ask, Asked
<1>5. ASSUME NEW c \in Calls, Get(c) PROVE \A d \in Calls : Carries(d)
  <2>1. CASE Ended(c)
    BY <1>c, <2>1
  <2>2. CASE ~Ended(c)
    <3>1. Moved(c, "reread") /\ call[c].pc = "get" /\ call[c].plan \in stored
      BY <1>5, <2>2 DEF Get, Held, Pruned
    <3>2. /\ call'[c].pc = "reread" /\ call'[c].plan = call[c].plan
          /\ \A d \in Calls : d # c => call'[d] = call[d]
      BY <1>d, <3>1 DEF Steps
    <3> QED
      BY <1>a, <3>1, <3>2 DEF Carries
  <2> QED
    BY <2>1, <2>2
<1>6. ASSUME NEW c \in Calls, Reread(c) PROVE \A d \in Calls : Carries(d)
  <2>1. /\ call[c].pc = "reread" /\ call'[c].pc \in {"confirm", "ssh"} /\ call'[c].plan = call[c].plan
        /\ \A d \in Calls : d # c => call'[d] = call[d]
    BY <1>0, <1>6 DEF Reread, CallType
  <2> QED
    BY <1>a, <2>1 DEF Carries, PastGet
<1>7. ASSUME NEW c \in Calls, Judge(c) PROVE \A d \in Calls : Carries(d)
  <2>1. CASE Ended(c)
    BY <1>c, <2>1
  <2>2. CASE ~Ended(c)
    <3>1. /\ call' = [call EXCEPT ![c] = [@ EXCEPT !.pc = "ssh", !.by = call[c].reply]]
          /\ call[c].pc = "confirm"
      BY <1>7, <2>2 DEF Judge
    <3>2. /\ call'[c].pc = "ssh" /\ call'[c].plan = call[c].plan
          /\ \A d \in Calls : d # c => call'[d] = call[d]
      BY <1>0, <3>1 DEF CallType
    <3> QED
      BY <1>a, <3>1, <3>2 DEF Carries, PastGet
  <2> QED
    BY <2>1, <2>2
<1>8. ASSUME NEW c \in Calls, NEW pc \in Steps, Moved(c, pc), call[c].pc \in PastGet,
             pc = "close" => call[c].pc = "send", pc = "send" => call[c].pc = "record"
      PROVE  \A d \in Calls : Carries(d)
  <2>1. /\ call'[c].pc = pc /\ call'[c].plan = call[c].plan
        /\ \A d \in Calls : d # c => call'[d] = call[d]
    BY <1>d, <1>8
  <2> QED
    BY <1>a, <1>8, <2>1 DEF Carries
<1>9. ASSUME NEW c \in Calls, Ssh(c) \/ Take(c) \/ Record(c) \/ Send(c)
      PROVE  \A d \in Calls : Carries(d)
  <2>1. \/ Ended(c)
        \/ \E pc \in Steps :
             /\ Moved(c, pc) /\ call[c].pc \in PastGet
             /\ pc = "close" => call[c].pc = "send"
             /\ pc = "send" => call[c].pc = "record"
    <3>1. {"take", "record", "send", "close"} \subseteq Steps
      BY DEF Steps
    <3> QED
      BY <1>9, <3>1 DEF Ssh, Take, Record, Unrecorded, Send, PastGet
  <2> QED
    BY <1>c, <1>8, <2>1
<1> QED
  BY <1>1, <1>2, <1>3, <1>4, <1>5, <1>6, <1>7, <1>9
  DEF Next, Handle, vars, Edit, Expire, Answer, Cancel

LEMMA RecordNext == TypeInv /\ RecordInv /\ [Next]_vars => RecordInv'
<1> SUFFICES ASSUME TypeInv, RecordInv, [Next]_vars PROVE RecordInv'
  OBVIOUS
<1> USE DEF world, people, memory, record
<1>0. /\ call \in [Calls -> CallType] /\ sent \in [Plans -> Seq(SentType)]
      /\ stored \subseteq Plans
      /\ audit \in [Plans -> SUBSET {"planned", "applying", "applied", "failed"}]
      /\ \A c \in Calls : Carries(c)
  BY Carried DEF TypeInv, Shape
<1>a. \A c \in Calls : call[c].plan \in Plans
  BY <1>0 DEF CallType
\* A step that leaves the log and what was sent alone.
<1>1. ASSUME stored' \subseteq stored, UNCHANGED <<audit, sent>>,
             \A c \in Calls : call'[c].pc = "send" => call[c].pc = "send",
             \A c \in Calls : call'[c].pc = "close" => call[c].pc = "close"
      PROVE  RecordInv'
  <2>1. LoggedInv'
    BY <1>0, <1>1 DEF RecordInv, LoggedInv, Carries, PastGet
  <2> QED
    BY <1>1, <2>1 DEF RecordInv, SentIsRecorded
<1>2. ASSUME NEW c \in Calls, Record(c) PROVE RecordInv'
  <2> DEFINE p == call[c].plan
  <2>1. CASE UNCHANGED audit /\ Ended(c)
    <3>1. call'[c].pc = "idle" /\ \A d \in Calls : d # c => call'[d] = call[d]
      BY <1>0, <2>1 DEF Ended, Idle
    <3> QED
      BY <1>1, <1>2, <2>1, <3>1 DEF Record
  <2>2. CASE audit' = [audit EXCEPT ![p] = @ \cup {"applying"}] /\ Moved(c, "send")
    <3>1. /\ call'[c].pc = "send" /\ call'[c].plan = p
          /\ \A d \in Calls : d # c => call'[d] = call[d]
      BY <1>0, <2>2 DEF Moved, CallType
    <3>2. /\ audit'[p] = audit[p] \cup {"applying"}
          /\ \A x \in Plans : x # p => audit'[x] = audit[x]
      BY <1>0, <1>a, <2>2
    <3>3. UNCHANGED <<sent, stored>> /\ call[c].pc = "record"
      BY <1>2 DEF Record
    <3>4. LoggedInv'
      <4>1. \A x \in Plans : audit[x] \subseteq audit'[x]
        BY <3>2
      <4>2. \A x \in stored' : "planned" \in audit'[x]
        BY <1>0, <3>3, <4>1 DEF RecordInv, LoggedInv
      <4>3. ASSUME NEW d \in Calls, call'[d].pc \in PastGet PROVE "planned" \in audit'[call'[d].plan]
        BY <1>0, <1>a, <3>1, <3>3, <4>1, <4>3 DEF RecordInv, LoggedInv, PastGet
      <4>4. ASSUME NEW d \in Calls, call'[d].pc \in {"send", "close"}
            PROVE  "applying" \in audit'[call'[d].plan]
        <5>1. CASE d = c
          BY <3>1, <3>2, <5>1
        <5>2. CASE d # c
          BY <1>a, <3>1, <4>1, <4>4, <5>2 DEF RecordInv, LoggedInv
        <5> QED
          BY <5>1, <5>2
      <4>5. ASSUME NEW d \in Calls, call'[d].pc = "close" PROVE sent'[call'[d].plan] # <<>>
        BY <3>1, <3>3, <4>5 DEF RecordInv, LoggedInv
      <4> QED
        BY <4>2, <4>3, <4>4, <4>5 DEF LoggedInv
    <3>5. SentIsRecorded'
      BY <3>2, <3>3 DEF RecordInv, SentIsRecorded
    <3> QED
      BY <3>4, <3>5 DEF RecordInv
  <2> QED
    BY <1>2, <2>1, <2>2 DEF Record, Unrecorded
<1>3. ASSUME NEW c \in Calls, Send(c) PROVE RecordInv'
  <2> DEFINE p == call[c].plan
  <2>1. /\ call'[c].pc = "close" /\ call'[c].plan = p /\ call[c].pc = "send"
        /\ \A d \in Calls : d # c => call'[d] = call[d]
    BY <1>0, <1>3 DEF Send, Moved, CallType
  <2>2. PICK s : sent' = [sent EXCEPT ![p] = Append(@, s)]
    BY <1>3 DEF Send, Wanted
  <2>3. /\ sent'[p] # <<>> /\ \A x \in Plans : x # p => sent'[x] = sent[x]
    <3>1. sent[p] \in Seq(SentType) /\ sent'[p] = Append(sent[p], s)
      BY <1>0, <1>a, <2>2
    <3>2. sent[p] \in Seq(SentType \cup {s}) /\ s \in SentType \cup {s}
      BY <3>1
    <3>3. Len(sent'[p]) = Len(sent[p]) + 1 /\ Len(sent[p]) \in Nat
      BY <3>1, <3>2
    <3>4. \A x \in Plans : x # p => sent'[x] = sent[x]
      BY <1>0, <1>a, <2>2
    <3> QED
      BY <3>3, <3>4
  <2>4. UNCHANGED <<audit, stored>> /\ {"planned", "applying"} \subseteq audit[p]
    BY <1>3, <2>1 DEF Send, RecordInv, LoggedInv, PastGet
  <2>5. LoggedInv'
    BY <1>0, <1>a, <2>1, <2>3, <2>4 DEF RecordInv, LoggedInv, PastGet
  <2>6. SentIsRecorded'
    BY <2>3, <2>4 DEF RecordInv, SentIsRecorded
  <2> QED
    BY <2>5, <2>6 DEF RecordInv
<1>4. ASSUME NEW c \in Calls, Note(c) \/ Close(c) PROVE RecordInv'
  <2> DEFINE p == call[c].plan
  <2>1. call'[c].pc = "idle" /\ \A d \in Calls : d # c => call'[d] = call[d]
    BY <1>0, <1>4 DEF Note, Close, Ended, Idle
  <2>2. /\ UNCHANGED sent
        /\ \A x \in Plans : audit[x] \subseteq audit'[x]
        /\ \/ stored' \subseteq stored
           \/ stored' \subseteq stored \cup {p} /\ "planned" \in audit'[p]
    BY <1>0, <1>a, <1>4 DEF Note, Close, Pruned
  <2>3. LoggedInv'
    BY <1>0, <1>a, <2>1, <2>2 DEF RecordInv, LoggedInv, PastGet
  <2>4. \A x \in Plans : audit'[x] \cap {"applied", "failed"} # {} => sent[x] # <<>>
    <3>1. CASE Note(c)
      BY <1>0, <1>a, <3>1 DEF Note, RecordInv, SentIsRecorded
    <3>2. CASE Close(c)
      <4>1. sent[p] # <<>>
        BY <3>2 DEF Close, RecordInv, LoggedInv
      <4>2. \A x \in Plans : x # p => audit'[x] = audit[x]
        BY <1>0, <1>a, <3>2 DEF Close
      <4> QED
        BY <4>1, <4>2 DEF RecordInv, SentIsRecorded
    <3> QED
      BY <1>4, <3>1, <3>2
  <2>5. SentIsRecorded'
    BY <2>2, <2>4 DEF RecordInv, SentIsRecorded
  <2> QED
    BY <2>3, <2>5 DEF RecordInv
<1>5. ASSUME NEW c \in Calls,
             \/ TurnAway(c) \/ Refuse(c) \/ Prepare(c) \/ Get(c) \/ Reread(c) \/ Ask(c) \/ Judge(c)
             \/ Ssh(c) \/ Take(c) \/ Arrive(c) \/ Place(c)
      PROVE  RecordInv'
  <2>1. stored' \subseteq stored /\ UNCHANGED <<audit, sent>>
    BY <1>5 DEF TurnAway, Refuse, Prepare, Get, Reread, Ask, Judge, Ssh, Take, Arrive, Place, Pruned, Left
  <2>2. \A d \in Calls : call'[d].pc = "close" => call[d].pc = "close"
    <3>1. ASSUME NEW d \in Calls, call'[d].pc = "close", call[d].pc # "close" PROVE FALSE
      <4>1. call[d].pc = "send" /\ call' # call
        BY <1>0, <3>1 DEF Carries, PastGet
      <4>2. d # c
        BY <1>5, <4>1 DEF TurnAway, Refuse, Prepare, Get, Reread, Ask, Judge, Ssh, Take, Arrive, Place
      <4>3. call'[d] = call[d]
        BY <1>0, <1>5, <4>2 DEF TurnAway, Refuse, Prepare, Get, Reread, Ask, Asked, Judge, Ssh, Take,
           Arrive, Place, Moved, Ended
      <4> QED
        BY <3>1, <4>3
    <3> QED
      BY <3>1
  <2>3. \A d \in Calls : call'[d].pc = "send" => call[d].pc = "send"
    <3>1. ASSUME NEW d \in Calls, call'[d].pc = "send", call[d].pc # "send" PROVE FALSE
      <4>1. call[d].pc = "record"
        BY <1>0, <3>1 DEF Carries, PastGet
      <4>2. d # c
        BY <1>5, <4>1 DEF TurnAway, Refuse, Prepare, Get, Reread, Ask, Judge, Ssh, Take, Arrive, Place
      <4>3. call'[d] = call[d]
        BY <1>0, <1>5, <4>2 DEF TurnAway, Refuse, Prepare, Get, Reread, Ask, Asked, Judge, Ssh, Take,
           Arrive, Place, Moved, Ended
      <4> QED
        BY <3>1, <4>3
    <3> QED
      BY <3>1
  <2> QED
    BY <1>1, <2>1, <2>2, <2>3
<1>6. CASE Stop
  BY <1>1, <1>6 DEF Stop, Idle
<1>7. CASE UNCHANGED <<call, stored, audit, sent>>
  BY <1>1, <1>7
<1> QED
  BY <1>2, <1>3, <1>4, <1>5, <1>6, <1>7 DEF Next, Handle, vars, Edit, Expire, Answer, Cancel

\* Of every change that was sent, the log says that it was planned and that it was
\* being applied, also after a stop; how it ended is said only of what was sent.
THEOREM Recorded == Spec => []SentIsRecorded
<1>1. Init => RecordInv
  BY DEF Init, RecordInv, LoggedInv, SentIsRecorded, Idle, PastGet
<1>2. TypeInv /\ RecordInv /\ [Next]_vars => RecordInv'
  BY RecordNext
<1>3. RecordInv => SentIsRecorded
  BY DEF RecordInv
<1> QED
  BY <1>1, <1>2, <1>3, TypeInvariant, PTL DEF Spec
=============================================================================
