--------------------------- MODULE ReinstallProofs ---------------------------
(***************************************************************************)
(* Proofs about Reinstall, for every set of nodes and every fan-out.       *)
(***************************************************************************)
EXTENDS Reinstall, TLAPS

USE DEF FanOuts, Ended, Requests, Steps

\* A script asked for a set of nodes has the type of a script.
LEMMA AskedType == ASSUME NEW T \in SUBSET Nodes PROVE Asked(T) \in Scripts
  BY DEF Asked, Scripts

\* So has a script that said one more line.
LEMMA SaidType ==
  ASSUME NEW s \in Scripts, NEW n \in Nodes, NEW good \in BOOLEAN
  PROVE  Said(s, n, good) \in Scripts
<1>1. CASE good
  BY <1>1 DEF Said, Scripts
<1>2. CASE ~good
  BY <1>2 DEF Said, Scripts
<1> QED
  BY <1>1, <1>2

\* Disarming asks for the removal of links of nodes of the plan.
LEMMA DisarmType ==
  ASSUME NEW left \in SUBSET Nodes, NEW bl, NEW bo, Disarm(left, bl, bo)
  PROVE  /\ remove' \in Scripts
         /\ pc' \in {"clear", "unlink", "done"}
         /\ failed' = TRUE
         /\ req' \in [Nodes -> {"idle", "queued"}]
<1>1. {n \in left : Linked(bl[n])} \in SUBSET Nodes
  OBVIOUS
<1>2. remove' = Asked({n \in left : Linked(bl[n])})
  BY DEF Disarm
<1> QED
  BY <1>1, <1>2, AskedType, Zenon DEF Disarm, FanOut

LEMMA TypeOKInit == Init => TypeOK
<1> SUFFICES ASSUME Init PROVE TypeOK
  OBVIOUS
<1>1. write \in Scripts /\ remove \in Scripts
  BY AskedType DEF Init
<1>2. /\ adrift \subseteq Nodes \X FanOuts
      /\ late \subseteq Nodes \X (FanOuts \cup {"link"})
  BY DEF Init
<1>3. /\ bootLink \in [Nodes -> LinkStates]
      /\ bootOnce \in [Nodes -> OnceStates]
      /\ reset \in [Nodes -> ResetStates]
  BY DEF Init, LinkStates, OnceStates, ResetStates
<1> QED
  BY <1>1, <1>2, <1>3 DEF Init, TypeOK

LEMMA TypeOKCommand == TypeOK /\ Command => TypeOK'
<1> SUFFICES ASSUME TypeOK, Command PROVE TypeOK'
  OBVIOUS
<1> USE DEF TypeOK, command, world
<1>1. CASE WriteStart
  BY <1>1 DEF WriteStart, Scripts
<1>2. CASE \E okSeen, failSeen \in SUBSET Nodes : WriteRead(okSeen, failSeen)
  <2> PICK okSeen \in SUBSET Nodes, failSeen \in SUBSET Nodes : WriteRead(okSeen, failSeen)
    BY <1>2
  <2>1. write' \in Scripts
    BY DEF WriteRead, SessionEnds, Scripts
  <2>2. bootLink' \in [Nodes -> LinkStates]
    BY DEF WriteRead, LinkResults, LinkStates
  <2>3. pc' \in Steps /\ req' \in [Nodes -> Requests] /\ failed' \in BOOLEAN
    BY DEF WriteRead, Disarm, FanOut
  <2>4. remove' \in Scripts
    <3>1. CASE okSeen = Nodes
      BY <3>1 DEF WriteRead
    <3>2. CASE okSeen # Nodes
      BY <3>2, DisarmType DEF WriteRead
    <3> QED
      BY <3>1, <3>2
  <2> QED
    BY <2>1, <2>2, <2>3, <2>4 DEF WriteRead
<1>3. ASSUME NEW n \in Nodes, Send(n) \/ NotSent(n) PROVE TypeOK'
  BY <1>3 DEF Send, NotSent
<1>4. CASE OnceOver
  <2>1. bootOnce' \in [Nodes -> OnceStates]
    <3>1. \A n \in Nodes : StepOutcome(req[n], "set") \in OnceStates
      BY <1>4 DEF OnceOver, FanOutOver, OnceStates, StepOutcome
    <3> QED
      BY <1>4, <3>1 DEF OnceOver
  <2>2. pc' \in Steps /\ req' \in [Nodes -> Requests] /\ failed' \in BOOLEAN
    BY <1>4 DEF OnceOver, Disarm, FanOut
  <2>3. remove' \in Scripts
    <3>1. CASE \A n \in Nodes : req[n] = "ok"
      BY <1>4, <3>1 DEF OnceOver
    <3>2. CASE ~\A n \in Nodes : req[n] = "ok"
      BY <1>4, <3>2, DisarmType DEF OnceOver
    <3> QED
      BY <3>1, <3>2
  <2> QED
    BY <1>4, <2>1, <2>2, <2>3 DEF OnceOver
<1>5. CASE Forget
  BY <1>5 DEF Forget, FanOut
<1>6. CASE ForgetFails
  BY <1>6, DisarmType DEF ForgetFails
<1>7. CASE ResetOver
  <2>1. reset' \in [Nodes -> ResetStates]
    <3>1. \A n \in Nodes : StepOutcome(req[n], "sent") \in ResetStates
      BY <1>7 DEF ResetOver, FanOutOver, ResetStates, StepOutcome
    <3> QED
      BY <1>7, <3>1 DEF ResetOver
  <2>2. pc' \in Steps /\ req' \in [Nodes -> Requests] /\ failed' \in BOOLEAN
    BY <1>7 DEF ResetOver, Disarm, FanOut
  <2>3. remove' \in Scripts
    <3>1. CASE \A n \in Nodes : req[n] = "ok"
      BY <1>7, <3>1 DEF ResetOver
    <3>2. CASE ~\A n \in Nodes : req[n] = "ok"
      BY <1>7, <3>2, DisarmType DEF ResetOver
    <3> QED
      BY <3>1, <3>2
  <2> QED
    BY <1>7, <2>1, <2>2, <2>3 DEF ResetOver
<1>8. CASE ClearOver
  BY <1>8 DEF ClearOver, FanOut, OnceStates
<1>9. CASE RemoveStart
  BY <1>9 DEF RemoveStart, Scripts
<1>10. CASE \E okSeen, failSeen \in SUBSET Nodes : RemoveRead(okSeen, failSeen)
  <2> PICK okSeen \in SUBSET Nodes, failSeen \in SUBSET Nodes : RemoveRead(okSeen, failSeen)
    BY <1>10
  <2>1. remove' \in Scripts
    BY DEF RemoveRead, SessionEnds, Scripts
  <2>2. bootLink' \in [Nodes -> LinkStates]
    BY DEF RemoveRead, LinkStates
  <2> QED
    BY <2>1, <2>2 DEF RemoveRead
<1> QED
  BY <1>1, <1>2, <1>3, <1>4, <1>5, <1>6, <1>7, <1>8, <1>9, <1>10 DEF Command

LEMMA TypeOKReplies == TypeOK /\ Replies => TypeOK'
<1> SUFFICES ASSUME TypeOK, NEW n \in Nodes, Answer(n) \/ Unreachable(n) \/ Fails(n)
             PROVE TypeOK'
  BY DEF Replies
<1> USE DEF TypeOK, command, world
<1>1. CASE Answer(n)
  BY <1>1 DEF Answer
<1>2. CASE Unreachable(n)
  BY <1>2 DEF Unreachable
<1>3. CASE Fails(n)
  <2>1. adrift' \subseteq Nodes \X FanOuts
    <3>1. <<n, pc>> \in Nodes \X FanOuts
      BY <1>3 DEF Fails
    <3>2. adrift' = adrift \/ adrift' = adrift \cup {<<n, pc>>}
      BY <1>3 DEF Fails
    <3>3. adrift \subseteq Nodes \X FanOuts
      OBVIOUS
    <3> HIDE DEF TypeOK, FanOuts
    <3> QED
      BY <3>1, <3>2, <3>3
  <2>2. req' \in [Nodes -> Requests]
    BY <1>3 DEF Fails
  <2> QED
    BY <1>3, <2>1, <2>2 DEF Fails
<1> QED
  BY <1>1, <1>2, <1>3

LEMMA TypeOKOutside == TypeOK /\ Outside => TypeOK'
<1> SUFFICES ASSUME TypeOK, Outside PROVE TypeOK'
  OBVIOUS
<1> USE DEF TypeOK, command, world
<1>1. ASSUME NEW n \in Nodes, NEW good \in BOOLEAN, WriteRecord(n, good) PROVE TypeOK'
  <2>1. write' \in Scripts
    BY <1>1, SaidType DEF WriteRecord
  <2>2. link' \in [Nodes -> BOOLEAN]
    BY <1>1 DEF WriteRecord
  <2>3. late' \subseteq Nodes \X (FanOuts \cup {"link"})
    <3>1. <<n, "link">> \in Nodes \X (FanOuts \cup {"link"})
      OBVIOUS
    <3>2. late' = late \/ late' = late \cup {<<n, "link">>}
      BY <1>1 DEF WriteRecord
    <3>3. late \subseteq Nodes \X (FanOuts \cup {"link"})
      OBVIOUS
    <3> HIDE DEF TypeOK, FanOuts
    <3> QED
      BY <3>1, <3>2, <3>3
  <2> QED
    BY <1>1, <2>1, <2>2, <2>3 DEF WriteRecord
<1>2. ASSUME NEW n \in Nodes, NEW good \in BOOLEAN, RemoveRecord(n, good) PROVE TypeOK'
  <2>1. remove' \in Scripts
    BY <1>2, SaidType DEF RemoveRecord
  <2> QED
    BY <1>2, <2>1 DEF RemoveRecord
<1>3. ASSUME NEW n \in Nodes, Carry(n) PROVE TypeOK'
  BY <1>3 DEF Carry, CarriedOut
<1>4. ASSUME NEW n \in Nodes, Restart(n) PROVE TypeOK'
  BY <1>4 DEF Restart
<1>5. ASSUME NEW n \in Nodes, Boot(n) PROVE TypeOK'
  <2>1. override' \in [Nodes -> BOOLEAN]
    BY <1>5 DEF Boot
  <2>2. machine' \in [Nodes -> {"old", "booting", "installing"}]
    BY <1>5 DEF Boot
  <2>3. link' \in [Nodes -> BOOLEAN]
    BY <1>5 DEF Boot
  <2> QED
    BY <1>5, <2>1, <2>2, <2>3 DEF Boot
<1>6. ASSUME NEW n \in Nodes, NEW op \in FanOuts, CarryLate(n, op) PROVE TypeOK'
  <2>1. override' \in [Nodes -> BOOLEAN]
    BY <1>6 DEF CarryLate, CarriedOut
  <2>2. machine' \in [Nodes -> {"old", "booting", "installing"}]
    BY <1>6 DEF CarryLate, CarriedOut
  <2>3. /\ adrift' \subseteq Nodes \X FanOuts
        /\ late' \subseteq Nodes \X (FanOuts \cup {"link"})
    <3>1. <<n, op>> \in Nodes \X (FanOuts \cup {"link"})
      OBVIOUS
    <3>2. adrift' = adrift \ {<<n, op>>} /\ late' = late \cup {<<n, op>>}
      BY <1>6 DEF CarryLate
    <3>3. /\ adrift \subseteq Nodes \X FanOuts
          /\ late \subseteq Nodes \X (FanOuts \cup {"link"})
      OBVIOUS
    <3> HIDE DEF TypeOK, FanOuts
    <3> QED
      BY <3>1, <3>2, <3>3
  <2> QED
    BY <1>6, <2>1, <2>2, <2>3 DEF CarryLate
<1> HIDE DEF TypeOK, command, world, FanOuts
<1> QED
  BY <1>1, <1>2, <1>3, <1>4, <1>5, <1>6 DEF Outside

LEMMA TypeOKNext == TypeOK /\ [Next]_vars => TypeOK'
<1> SUFFICES ASSUME TypeOK, [Next]_vars PROVE TypeOK'
  OBVIOUS
<1>1. CASE Interrupt
  BY <1>1 DEF Interrupt, TypeOK, world
<1>2. CASE UNCHANGED vars
  BY <1>2 DEF vars, TypeOK
<1> QED
  BY <1>1, <1>2, TypeOKCommand, TypeOKReplies, TypeOKOutside DEF Next

\* The state of the command, its requests and the world keeps its type.
THEOREM TypeCorrect == Spec => []TypeOK
  BY TypeOKInit, TypeOKNext, PTL DEF Spec

(***************************************************************************)
(* Why what is armed is reported.  The report is made of the replies the   *)
(* command saw, so the invariant follows each change from the moment the   *)
(* other side makes it to the moment its reply is recorded.                *)
(***************************************************************************)
\* The first script runs with a reader during its step only, and says one
\* line for each record.
WriteInv ==
  /\ write.at = "running" => pc = "links"
  /\ write.ok \cap write.fail = {}
  /\ write.todo \cap (write.ok \cup write.fail) = {}

\* A link on the PXE host was said to be set, or is reported as set or
\* unknown, or was written by a script nobody read any more.
LinkInv ==
  \A n \in Nodes : link[n] =>
    \/ <<n, "link">> \in late
    \/ pc = "links" /\ n \in write.ok
    \/ pc # "links" /\ Linked(bootLink[n])

\* The second script starts when it is its turn, and a link it said to be
\* removed is gone.
RemoveInv ==
  /\ pc \notin {"unlink", "done"} => remove.at = "asked" /\ remove.ok = {}
  /\ \A n \in remove.ok : link[n] => <<n, "link">> \in late

\* An override a processor holds was asked for by a request that is under way
\* or was not proved to have failed, or is reported.
OnceInv ==
  \A n \in Nodes : override[n] =>
    \/ <<n, "once">> \in late
    \/ pc = "once" /\ req[n] \in {"carried", "ok", "failed"}
    \/ pc \notin {"links", "once"} /\ Overridden(bootOnce[n])

\* A processor that cleared its override holds none.
ClearInv ==
  \A n \in Nodes :
    pc = "clear" /\ req[n] \in {"carried", "ok"} /\ override[n] => <<n, "once">> \in late

Inv == TypeOK /\ WriteInv /\ LinkInv /\ RemoveInv /\ OnceInv /\ ClearInv

LEMMA InvInit == Init => Inv
<1> SUFFICES ASSUME Init PROVE Inv
  OBVIOUS
<1>1. /\ write.at = "asked" /\ write.ok = {} /\ write.fail = {}
      /\ remove.at = "asked" /\ remove.ok = {}
  BY DEF Init, Asked
<1>2. WriteInv /\ RemoveInv
  BY <1>1 DEF WriteInv, RemoveInv
<1>3. LinkInv /\ OnceInv /\ ClearInv
  BY DEF Init, LinkInv, OnceInv, ClearInv
<1> QED
  BY <1>2, <1>3, TypeOKInit DEF Inv

\* The steps of the fan-out touch the requests and the processors only.
LEMMA InvFanOut ==
  ASSUME Inv, NEW n \in Nodes,
         Send(n) \/ NotSent(n) \/ Answer(n) \/ Unreachable(n) \/ Fails(n) \/ Carry(n)
  PROVE  WriteInv' /\ LinkInv' /\ RemoveInv' /\ OnceInv' /\ ClearInv'
<1> USE DEF Inv, command, world
<1>1. /\ UNCHANGED <<pc, write, remove, link, late, bootLink, bootOnce>>
      /\ req \in [Nodes -> Requests]
  BY DEF Send, NotSent, Answer, Unreachable, Fails, Carry, TypeOK
<1>2. WriteInv' /\ LinkInv' /\ RemoveInv'
  BY <1>1 DEF WriteInv, LinkInv, RemoveInv
<1>3. CASE Send(n) \/ NotSent(n) \/ Answer(n) \/ Unreachable(n) \/ Fails(n)
  <2>1. override' = override
    BY <1>3 DEF Send, NotSent, Answer, Unreachable, Fails
  <2>2. OnceInv'
    BY <1>1, <1>3, <2>1 DEF Send, NotSent, Answer, Unreachable, Fails, OnceInv
  <2>3. ClearInv'
    BY <1>1, <1>3, <2>1 DEF Send, NotSent, Answer, Unreachable, Fails, ClearInv
  <2> QED
    BY <1>2, <2>2, <2>3
<1>4. CASE Carry(n)
  <2>1. /\ pc \in FanOuts /\ req[n] = "flying"
        /\ req' = [req EXCEPT ![n] = "carried"]
        /\ override' = IF pc = "reset" THEN override
                       ELSE [override EXCEPT ![n] = pc = "once"]
        /\ override \in [Nodes -> BOOLEAN]
    BY <1>4 DEF Carry, CarriedOut, TypeOK
  <2>2. OnceInv'
    BY <1>1, <2>1 DEF OnceInv
  <2>3. ClearInv'
    BY <1>1, <2>1 DEF ClearInv
  <2> QED
    BY <1>2, <2>2, <2>3
<1> QED
  BY <1>3, <1>4

\* Disarming starts from what is recorded: nothing is dropped from the report.
LEMMA InvDisarm ==
  ASSUME Inv, NEW left \in SUBSET Nodes, Disarm(left, bootLink', bootOnce'),
         pc \in {"links", "once", "keys", "reset"},
         UNCHANGED <<link, override, late>>,
         write'.ok = write.ok, write'.fail = write.fail, write'.todo = write.todo,
         write'.at # "running",
         \A n \in Nodes : link[n] => Linked(bootLink'[n]) \/ <<n, "link">> \in late,
         \A n \in Nodes : override[n] => Overridden(bootOnce'[n]) \/ <<n, "once">> \in late
  PROVE  WriteInv' /\ LinkInv' /\ RemoveInv' /\ OnceInv' /\ ClearInv'
<1> USE DEF Inv
<1>1. pc' \in {"clear", "unlink", "done"} /\ req' \in [Nodes -> {"idle", "queued"}]
  BY DisarmType
<1>2. remove'.ok = {} /\ remove'.at = "asked"
  BY DEF Disarm, Asked
<1>3. WriteInv'
  BY DEF WriteInv
<1>4. LinkInv'
  BY <1>1 DEF LinkInv
<1>5. RemoveInv'
  BY <1>2 DEF RemoveInv
<1>6. OnceInv'
  BY <1>1 DEF OnceInv
<1>7. ClearInv'
  BY <1>1 DEF ClearInv
<1> QED
  BY <1>3, <1>4, <1>5, <1>6, <1>7

\* The end of a session leaves the records of the script as they were.
LEMMA SessionEndsKeeps ==
  ASSUME NEW s \in Scripts, NEW t, NEW okSeen, NEW failSeen,
         SessionEnds(s, t, okSeen, failSeen)
  PROVE  /\ t.ok = s.ok /\ t.fail = s.fail /\ t.todo = s.todo
         /\ t.at \in {"adrift", "over"}
         /\ okSeen \subseteq s.ok /\ failSeen \subseteq s.fail
  BY DEF SessionEnds, Scripts

LEMMA InvWriteRead ==
  ASSUME Inv, NEW okSeen, NEW failSeen, WriteRead(okSeen, failSeen)
  PROVE  WriteInv' /\ LinkInv' /\ RemoveInv' /\ OnceInv' /\ ClearInv'
<1> USE DEF Inv, world
<1>1. /\ pc = "links" /\ bootLink' = LinkResults(okSeen, failSeen, "set")
      /\ UNCHANGED <<bootOnce, link, override, late>>
  BY DEF WriteRead
<1>2. /\ write'.ok = write.ok /\ write'.fail = write.fail /\ write'.todo = write.todo
      /\ write'.at \in {"adrift", "over"}
      /\ okSeen \subseteq write.ok /\ failSeen \subseteq write.fail
  BY SessionEndsKeeps DEF WriteRead, TypeOK
<1>3. \A n \in Nodes : link[n] => Linked(bootLink'[n]) \/ <<n, "link">> \in late
  BY <1>1, <1>2 DEF LinkInv, WriteInv, LinkResults, Linked
<1>4. \A n \in Nodes : override[n] => <<n, "once">> \in late
  BY <1>1 DEF OnceInv
<1>5. CASE okSeen = Nodes
  <2>1. /\ pc' = "once" /\ req' = [n \in Nodes |-> "queued"] /\ remove' = remove
    BY <1>5 DEF WriteRead, FanOut
  <2>2. WriteInv'
    BY <1>2 DEF WriteInv
  <2>3. LinkInv'
    BY <1>1, <1>3, <2>1 DEF LinkInv
  <2>4. RemoveInv'
    BY <1>1, <2>1 DEF RemoveInv
  <2>5. OnceInv' /\ ClearInv'
    BY <1>1, <1>4, <2>1 DEF OnceInv, ClearInv
  <2> QED
    BY <2>2, <2>3, <2>4, <2>5
<1>6. CASE okSeen # Nodes
  <2>1. Disarm(Nodes, bootLink', bootOnce')
    BY <1>1, <1>6 DEF WriteRead
  <2> QED
    BY <1>1, <1>2, <1>3, <1>4, <2>1, InvDisarm
<1> QED
  BY <1>5, <1>6

LEMMA InvOnceOver ==
  ASSUME Inv, OnceOver
  PROVE  WriteInv' /\ LinkInv' /\ RemoveInv' /\ OnceInv' /\ ClearInv'
<1> USE DEF Inv, world
<1>1. /\ pc = "once" /\ \A n \in Nodes : req[n] \in Ended
      /\ bootOnce' = [n \in Nodes |-> StepOutcome(req[n], "set")]
      /\ UNCHANGED <<bootLink, write, link, override, late>>
  BY DEF OnceOver, FanOutOver
<1>2. write.at # "running"
  BY <1>1 DEF WriteInv
<1>3. \A n \in Nodes : link[n] => Linked(bootLink'[n]) \/ <<n, "link">> \in late
  BY <1>1 DEF LinkInv
<1>4. \A n \in Nodes : override[n] => Overridden(bootOnce'[n]) \/ <<n, "once">> \in late
  BY <1>1 DEF OnceInv, StepOutcome, Overridden
<1>5. CASE \A n \in Nodes : req[n] = "ok"
  <2>1. pc' \in {"keys", "done", "reset"} /\ remove' = remove
    BY <1>5 DEF OnceOver
  <2>2. WriteInv'
    BY <1>1, <1>2 DEF WriteInv
  <2>3. LinkInv'
    BY <1>1, <1>3, <2>1 DEF LinkInv
  <2>4. RemoveInv'
    BY <1>1, <2>1 DEF RemoveInv
  <2>5. OnceInv' /\ ClearInv'
    BY <1>1, <1>4, <2>1 DEF OnceInv, ClearInv
  <2> QED
    BY <2>2, <2>3, <2>4, <2>5
<1>6. CASE ~\A n \in Nodes : req[n] = "ok"
  <2>1. Disarm(Nodes, bootLink', bootOnce')
    BY <1>1, <1>6 DEF OnceOver
  <2> QED
    BY <1>1, <1>2, <1>3, <1>4, <2>1, InvDisarm
<1> QED
  BY <1>5, <1>6

\* From the host keys on, what is armed is reported already.
LEMMA ReportedSoFar ==
  ASSUME Inv, pc \in {"keys", "reset"}
  PROVE  /\ write.at # "running"
         /\ \A n \in Nodes : link[n] => Linked(bootLink[n]) \/ <<n, "link">> \in late
         /\ \A n \in Nodes : override[n] => Overridden(bootOnce[n]) \/ <<n, "once">> \in late
  BY DEF Inv, WriteInv, LinkInv, OnceInv

LEMMA InvForget ==
  ASSUME Inv, Forget \/ ForgetFails
  PROVE  WriteInv' /\ LinkInv' /\ RemoveInv' /\ OnceInv' /\ ClearInv'
<1> USE DEF Inv, world
<1>1. /\ pc = "keys"
      /\ UNCHANGED <<bootLink, bootOnce, write, link, override, late>>
  BY DEF Forget, ForgetFails
<1>2. CASE Forget
  <2>1. pc' \in {"done", "reset"} /\ remove' = remove
    BY <1>2 DEF Forget
  <2>2. WriteInv' /\ RemoveInv'
    BY <1>1, <2>1, ReportedSoFar DEF WriteInv, RemoveInv
  <2>3. LinkInv' /\ OnceInv' /\ ClearInv'
    BY <1>1, <2>1 DEF LinkInv, OnceInv, ClearInv
  <2> QED
    BY <2>2, <2>3
<1>3. CASE ForgetFails
  <2>1. Disarm(Nodes, bootLink', bootOnce')
    BY <1>1, <1>3 DEF ForgetFails
  <2> QED
    BY <1>1, <2>1, ReportedSoFar, InvDisarm
<1> QED
  BY <1>2, <1>3

LEMMA InvResetOver ==
  ASSUME Inv, ResetOver
  PROVE  WriteInv' /\ LinkInv' /\ RemoveInv' /\ OnceInv' /\ ClearInv'
<1> USE DEF Inv, world
<1>1. /\ pc = "reset"
      /\ UNCHANGED <<bootLink, bootOnce, write, link, override, late>>
  BY DEF ResetOver
<1>2. CASE \A n \in Nodes : req[n] = "ok"
  <2>1. pc' = "done" /\ remove' = remove
    BY <1>2 DEF ResetOver
  <2>2. WriteInv' /\ RemoveInv'
    BY <1>1, <2>1, ReportedSoFar DEF WriteInv, RemoveInv
  <2>3. LinkInv' /\ OnceInv' /\ ClearInv'
    BY <1>1, <2>1 DEF LinkInv, OnceInv, ClearInv
  <2> QED
    BY <2>2, <2>3
<1>3. CASE ~\A n \in Nodes : req[n] = "ok"
  <2>1. Disarm({n \in Nodes : req[n] # "ok"}, bootLink', bootOnce')
    BY <1>1, <1>3 DEF ResetOver
  <2> QED
    BY <1>1, <2>1, ReportedSoFar, InvDisarm
<1> QED
  BY <1>2, <1>3

LEMMA InvClearOver ==
  ASSUME Inv, ClearOver
  PROVE  WriteInv' /\ LinkInv' /\ RemoveInv' /\ OnceInv' /\ ClearInv'
<1> USE DEF Inv, world
<1>1. /\ pc = "clear" /\ pc' \in {"unlink", "done"}
      /\ bootOnce' = [n \in Nodes |-> IF req[n] = "ok" THEN "cleared" ELSE bootOnce[n]]
      /\ UNCHANGED <<bootLink, write, remove, link, override, late>>
  BY DEF ClearOver
<1>2. WriteInv' /\ LinkInv' /\ RemoveInv' /\ ClearInv'
  BY <1>1 DEF WriteInv, LinkInv, RemoveInv, ClearInv
<1>3. OnceInv'
  BY <1>1 DEF OnceInv, ClearInv
<1> QED
  BY <1>2, <1>3

LEMMA InvScriptStart ==
  ASSUME Inv, WriteStart \/ RemoveStart
  PROVE  WriteInv' /\ LinkInv' /\ RemoveInv' /\ OnceInv' /\ ClearInv'
<1> USE DEF Inv, command, world
<1>1. /\ UNCHANGED <<pc, req, bootLink, bootOnce, link, override, late>>
      /\ write.ok = write'.ok /\ write.fail = write'.fail /\ write.todo = write'.todo
      /\ write' = write \/ (pc = "links" /\ write'.at = "running")
      /\ remove.ok = remove'.ok
      /\ remove' = remove \/ pc = "unlink"
  BY DEF WriteStart, RemoveStart, TypeOK, Scripts
<1>2. WriteInv' /\ LinkInv' /\ RemoveInv'
  BY <1>1 DEF WriteInv, LinkInv, RemoveInv
<1>3. OnceInv' /\ ClearInv'
  BY <1>1 DEF OnceInv, ClearInv
<1> QED
  BY <1>2, <1>3

LEMMA InvRemoveRead ==
  ASSUME Inv, NEW okSeen, NEW failSeen, RemoveRead(okSeen, failSeen)
  PROVE  WriteInv' /\ LinkInv' /\ RemoveInv' /\ OnceInv' /\ ClearInv'
<1> USE DEF Inv, world
<1>1. /\ pc = "unlink" /\ pc' = "done"
      /\ bootLink' = [n \in Nodes |-> IF n \in okSeen THEN "removed" ELSE bootLink[n]]
      /\ UNCHANGED <<bootOnce, req, write, link, override, late>>
  BY DEF RemoveRead
<1>2. remove'.ok = remove.ok /\ okSeen \subseteq remove.ok
  BY SessionEndsKeeps DEF RemoveRead, TypeOK
<1>3. WriteInv' /\ RemoveInv' /\ OnceInv' /\ ClearInv'
  BY <1>1, <1>2 DEF WriteInv, RemoveInv, OnceInv, ClearInv
<1>4. LinkInv'
  BY <1>1, <1>2 DEF LinkInv, RemoveInv
<1> QED
  BY <1>3, <1>4

\* A record of the first script: a link is written before its line is said.
LEMMA InvWriteRecord ==
  ASSUME Inv, NEW n \in Nodes, NEW good \in BOOLEAN, WriteRecord(n, good)
  PROVE  WriteInv' /\ LinkInv' /\ RemoveInv' /\ OnceInv' /\ ClearInv'
<1> USE DEF Inv, command
<1>1. /\ UNCHANGED <<pc, req, bootLink, bootOnce, remove, override>>
      /\ write.at \in {"running", "adrift"} /\ n \in write.todo
      /\ link' = IF good THEN [link EXCEPT ![n] = TRUE] ELSE link
      /\ late' = IF good /\ write.at = "adrift" THEN late \cup {<<n, "link">>} ELSE late
      /\ link \in [Nodes -> BOOLEAN]
  BY DEF WriteRecord, TypeOK
<1>2. /\ write'.at = write.at
      /\ write'.todo = write.todo \ {n}
      /\ write'.ok = IF good THEN write.ok \cup {n} ELSE write.ok
      /\ write'.fail = IF good THEN write.fail ELSE write.fail \cup {n}
  BY DEF WriteRecord, Said, TypeOK, Scripts
<1>3. late \subseteq late'
  BY <1>1
<1>4. WriteInv'
  BY <1>1, <1>2 DEF WriteInv
<1>5. LinkInv'
  <2> SUFFICES ASSUME NEW m \in Nodes, link'[m]
               PROVE  \/ <<m, "link">> \in late'
                      \/ pc = "links" /\ m \in write'.ok
                      \/ pc # "links" /\ Linked(bootLink[m])
    BY <1>1 DEF LinkInv
  <2>1. CASE m = n /\ good
    BY <1>1, <1>2, <2>1 DEF WriteInv
  <2>2. CASE ~(m = n /\ good)
    BY <1>1, <1>2, <1>3, <2>2 DEF LinkInv
  <2> QED
    BY <2>1, <2>2
<1>6. RemoveInv'
  <2>1. CASE write.at = "running"
    BY <1>1, <2>1 DEF RemoveInv, WriteInv
  <2>2. CASE write.at = "adrift"
    BY <1>1, <1>3, <2>2 DEF RemoveInv
  <2> QED
    BY <1>1, <2>1, <2>2
<1>7. OnceInv' /\ ClearInv'
  BY <1>1, <1>3 DEF OnceInv, ClearInv
<1> QED
  BY <1>4, <1>5, <1>6, <1>7

\* A record of the second script: a link is gone before its line is said.
LEMMA InvRemoveRecord ==
  ASSUME Inv, NEW n \in Nodes, NEW good \in BOOLEAN, RemoveRecord(n, good)
  PROVE  WriteInv' /\ LinkInv' /\ RemoveInv' /\ OnceInv' /\ ClearInv'
<1> USE DEF Inv, command
<1>1. /\ UNCHANGED <<pc, req, bootLink, bootOnce, write, override, late>>
      /\ remove.at \in {"running", "adrift"}
      /\ link' = [link EXCEPT ![n] = FALSE] \/ (~good /\ link' = link)
      /\ link \in [Nodes -> BOOLEAN]
  BY DEF RemoveRecord, TypeOK
<1>2. /\ remove'.at = remove.at
      /\ remove'.ok = IF good THEN remove.ok \cup {n} ELSE remove.ok
  BY DEF RemoveRecord, Said, TypeOK, Scripts
<1>3. \A m \in Nodes : link'[m] => link[m]
  BY <1>1
<1>4. WriteInv' /\ OnceInv' /\ ClearInv'
  BY <1>1 DEF WriteInv, OnceInv, ClearInv
<1>5. LinkInv'
  BY <1>1, <1>3 DEF LinkInv
<1>6. RemoveInv'
  <2>1. remove.ok \subseteq Nodes
    BY DEF TypeOK, Scripts
  <2>2. good => ~link'[n]
    BY <1>1
  <2>3. \A m \in remove'.ok : link'[m] => <<m, "link">> \in late'
    BY <1>1, <1>2, <1>3, <2>1, <2>2 DEF RemoveInv
  <2>4. pc' \in {"unlink", "done"}
    BY <1>1 DEF RemoveInv
  <2> QED
    BY <2>3, <2>4 DEF RemoveInv
<1> QED
  BY <1>4, <1>5, <1>6

\* Machines only use up what is armed; what is carried out late is kept in
\* late.
LEMMA InvWorld ==
  ASSUME Inv, NEW n \in Nodes, NEW op \in FanOuts,
         Restart(n) \/ Boot(n) \/ CarryLate(n, op)
  PROVE  WriteInv' /\ LinkInv' /\ RemoveInv' /\ OnceInv' /\ ClearInv'
<1> USE DEF Inv, command
<1>1. /\ UNCHANGED <<pc, req, bootLink, bootOnce, write, remove>>
      /\ late \subseteq late'
      /\ \A m \in Nodes : link'[m] => link[m]
  BY DEF Restart, Boot, CarryLate, TypeOK
<1>2. \A m \in Nodes : override'[m] => override[m] \/ <<m, "once">> \in late'
  <2>1. CASE Restart(n) \/ Boot(n)
    BY <2>1 DEF Restart, Boot, TypeOK
  <2>2. CASE CarryLate(n, op)
    BY <2>2 DEF CarryLate, CarriedOut, TypeOK
  <2> QED
    BY <2>1, <2>2
<1>3. WriteInv' /\ LinkInv'
  BY <1>1 DEF WriteInv, LinkInv
<1>4. RemoveInv'
  <2>1. remove.ok \subseteq Nodes
    BY DEF TypeOK, Scripts
  <2>2. \A m \in remove.ok : link'[m] => <<m, "link">> \in late'
    BY <1>1, <2>1 DEF RemoveInv
  <2>3. pc' = pc /\ remove' = remove
    BY <1>1
  <2> QED
    BY <2>2, <2>3 DEF RemoveInv
<1>5. OnceInv'
  BY <1>1, <1>2 DEF OnceInv
<1>6. ClearInv'
  BY <1>1, <1>2 DEF ClearInv
<1> QED
  BY <1>3, <1>4, <1>5, <1>6

LEMMA InvNext == Inv /\ [Next]_vars => Inv'
<1> SUFFICES ASSUME Inv, [Next]_vars PROVE Inv'
  OBVIOUS
<1>1. TypeOK'
  BY TypeOKNext DEF Inv
<1>2. CASE Interrupt
  <2>1. UNCHANGED <<pc, req, bootLink, bootOnce, write, remove, link, override, late>>
    BY <1>2 DEF Interrupt, world
  <2> QED
    BY <1>1, <2>1 DEF Inv, WriteInv, LinkInv, RemoveInv, OnceInv, ClearInv
<1>3. CASE Command
  <2>1. WriteInv' /\ LinkInv' /\ RemoveInv' /\ OnceInv' /\ ClearInv'
    BY <1>3, InvFanOut, InvWriteRead, InvOnceOver, InvForget, InvResetOver,
       InvClearOver, InvScriptStart, InvRemoveRead DEF Command
  <2> QED
    BY <1>1, <2>1 DEF Inv
<1>4. CASE Replies
  BY <1>1, <1>4, InvFanOut DEF Replies, Inv
<1>5. CASE Outside
  <2>1. WriteInv' /\ LinkInv' /\ RemoveInv' /\ OnceInv' /\ ClearInv'
    BY <1>5, InvWriteRecord, InvRemoveRecord, InvFanOut, InvWorld DEF Outside
  <2> QED
    BY <1>1, <2>1 DEF Inv
<1>6. CASE UNCHANGED vars
  <2>1. UNCHANGED <<pc, req, bootLink, bootOnce, write, remove, link, override, late>>
    BY <1>6 DEF vars
  <2> QED
    BY <1>1, <2>1 DEF Inv, WriteInv, LinkInv, RemoveInv, OnceInv, ClearInv
<1> QED
  BY <1>2, <1>3, <1>4, <1>5, <1>6 DEF Next

\* Whatever is lost, interrupted or restarted: when the command ends, each
\* link and each override that is still there is in its report.
THEOREM NothingArmedUnreported == Spec => []ArmedIsReported
<1>1. Inv => ArmedIsReported
  BY DEF Inv, LinkInv, OnceInv, ArmedIsReported
<1> QED
  BY <1>1, InvInit, InvNext, PTL DEF Spec

HIDE DEF FanOuts, Ended, Requests, Steps

(***************************************************************************)
(* Nothing irreversible comes before every machine is armed, and what the  *)
(* command says at its end is true of the machines.                        *)
(*                                                                         *)
(* The command goes from step to step on what it was told (StepInv) and    *)
(* leaves nothing adrift behind on the way to the resets (AdriftInv).  So  *)
(* a link that was set and an override that was carried out are still      *)
(* there when the resets come, or the machine has used them (ArmInv), and  *)
(* nothing takes them from a machine that was reset (GoodInv).             *)
(***************************************************************************)
\* The steps on the way to the resets.
Before == {"links", "once", "keys"}

StepInv ==
  /\ pc \in Before \cup {"reset"} => ~failed /\ \A n \in Nodes : reset[n] = ""
  /\ pc \in {"once", "keys", "reset"} => \A n \in Nodes : bootLink[n] = "set"
  /\ pc \in {"keys", "reset"} => \A n \in Nodes : bootOnce[n] = "set"
  /\ pc \in Before => keys
  /\ pc = "keys" => ~opt.keepKeys
  /\ pc = "reset" => ~opt.noReset /\ keys = opt.keepKeys
  /\ pc \in {"clear", "unlink"} => failed
  /\ pc = "done" /\ ~failed =>
       /\ keys = opt.keepKeys
       /\ \A n \in Nodes :
            IF opt.noReset THEN reset[n] = "" /\ bootLink[n] = "set" /\ bootOnce[n] = "set"
                           ELSE reset[n] = "sent"

\* No node is disarmed before the resets are over, and none that was reset.
LeftInv ==
  /\ pc \in Before \cup {"reset"} => remove.todo = {}
  /\ \A n \in Nodes : reset[n] = "sent" =>
       /\ pc \in {"clear", "unlink", "done"} /\ n \notin remove.todo
       /\ pc = "clear" => req[n] = "idle"

\* What is adrift was asked of a node that failed at the step the command is in,
\* or that was not reset.
AdriftInv ==
  \A n \in Nodes, op \in FanOuts : <<n, op>> \in adrift =>
    /\ pc \notin {"links", "keys"}
    /\ pc = "once" => op = "once" /\ req[n] = "failed"
    /\ pc = "reset" => op = "reset" /\ req[n] = "failed"
    /\ reset[n] # "sent"

\* A link that was set is there, or its machine took it; a machine that is
\* about to be reset is armed.
LinkedNow(n) == link[n] \/ machine[n] = "installing"

ArmInv ==
  \A n \in Nodes :
    /\ pc = "links" /\ n \in write.ok => LinkedNow(n)
    /\ pc = "once" => LinkedNow(n)
    /\ pc = "once" /\ req[n] \in {"carried", "ok"} => ArmedNow(n)
    /\ pc = "keys" => ArmedNow(n)
    /\ pc = "reset" /\ req[n] \in {"queued", "flying"} => ArmedNow(n)

\* A machine that was reset installs, or will when it boots.
Good(n) ==
  \/ machine[n] = "installing"
  \/ machine[n] = "booting" /\ link[n] /\ override[n]

GoodInv ==
  \A n \in Nodes \ Restless :
    /\ pc \in Before => machine[n] = "old"
    /\ pc = "reset" /\ req[n] \in {"queued", "flying"} => machine[n] = "old"
    /\ pc = "reset" /\ req[n] \in {"carried", "ok"} => Good(n)
    /\ reset[n] = "sent" => Good(n)

ReportInv == StepInv /\ LeftInv /\ AdriftInv /\ ArmInv /\ GoodInv

LEMMA ReportInit == Init => ReportInv
<1> SUFFICES ASSUME Init PROVE ReportInv
  OBVIOUS
<1>1. write.ok = {} /\ remove.todo = {}
  BY DEF Init, Asked
<1> QED
  BY <1>1 DEF Init, ReportInv, StepInv, LeftInv, AdriftInv, ArmInv, GoodInv, Before, ArmedNow

(***************************************************************************)
(* The fan-outs.                                                           *)
(***************************************************************************)
\* A node that was reset has no request under way.
LEMMA NotReset ==
  ASSUME ReportInv, NEW n \in Nodes, pc \in FanOuts, req[n] # "idle"
  PROVE  reset[n] # "sent"
  BY DEF ReportInv, LeftInv, FanOuts

LEMMA ReportFanOut ==
  ASSUME Inv, ReportInv, NEW n \in Nodes,
         Send(n) \/ NotSent(n) \/ Answer(n) \/ Unreachable(n) \/ Fails(n)
  PROVE  ReportInv'
<1> USE DEF command, world
<1>1. /\ UNCHANGED <<pc, opt, failed, bootLink, bootOnce, reset, write, remove, link, override,
                     machine, keys>>
      /\ pc \in FanOuts /\ req \in [Nodes -> Requests]
  BY DEF Send, NotSent, Answer, Unreachable, Fails, Inv, TypeOK
<1>2. /\ req[n] # "idle" /\ \A m \in Nodes : m # n => req'[m] = req[m]
      /\ req'[n] \in {"carried", "ok"} => req[n] = "carried"
      /\ req'[n] \in {"queued", "flying"} => req[n] \in {"queued", "flying"}
      /\ req[n] # "failed"
  BY <1>1 DEF Send, NotSent, Answer, Unreachable, Fails
<1>3. reset[n] # "sent"
  BY <1>1, <1>2, NotReset
<1>4. StepInv'
  BY <1>1 DEF ReportInv, StepInv
<1>5. LeftInv'
  BY <1>1, <1>2, <1>3 DEF ReportInv, LeftInv
<1>6. ArmInv'
  BY <1>1, <1>2 DEF ReportInv, ArmInv, ArmedNow, LinkedNow
<1>7. GoodInv'
  BY <1>1, <1>2 DEF ReportInv, GoodInv, Good
<1>8. AdriftInv'
  <2>1. \/ adrift' = adrift
        \/ adrift' = adrift \cup {<<n, pc>>} /\ req'[n] = "failed"
    BY <1>1 DEF Send, NotSent, Answer, Unreachable, Fails
  <2> SUFFICES ASSUME NEW m \in Nodes, NEW op \in FanOuts, <<m, op>> \in adrift'
               PROVE  /\ pc \notin {"links", "keys"}
                      /\ pc = "once" => op = "once" /\ req'[m] = "failed"
                      /\ pc = "reset" => op = "reset" /\ req'[m] = "failed"
                      /\ reset[m] # "sent"
    BY <1>1 DEF AdriftInv
  <2>2. CASE <<m, op>> \in adrift
    <3>1. m = n => pc \notin {"once", "reset"}
      BY <1>2, <2>2 DEF ReportInv, AdriftInv
    <3> QED
      BY <1>2, <2>2, <3>1 DEF ReportInv, AdriftInv
  <2>3. CASE <<m, op>> \notin adrift
    <3>1. m = n /\ op = pc /\ req'[n] = "failed"
      BY <2>1, <2>3
    <3> QED
      BY <1>1, <1>3, <3>1 DEF FanOuts
  <2> QED
    BY <2>2, <2>3
<1> QED
  BY <1>4, <1>5, <1>6, <1>7, <1>8 DEF ReportInv

LEMMA ReportCarry ==
  ASSUME Inv, ReportInv, NEW n \in Nodes, Carry(n)
  PROVE  ReportInv'
<1> USE DEF command, world
<1>1. /\ UNCHANGED <<pc, opt, failed, bootLink, bootOnce, reset, write, remove, link, keys, adrift>>
      /\ pc \in FanOuts /\ req[n] = "flying"
      /\ req'[n] = "carried" /\ \A m \in Nodes : m # n => req'[m] = req[m]
      /\ pc # "reset" => UNCHANGED machine
      /\ pc = "reset" => UNCHANGED override /\ machine'[n] = "booting"
      /\ pc = "once" => override'[n]
      /\ \A m \in Nodes : m # n => machine'[m] = machine[m] /\ override'[m] = override[m]
  BY DEF Carry, CarriedOut, Inv, TypeOK
<1>2. reset[n] # "sent"
  BY <1>1, NotReset
<1>3. StepInv' /\ LeftInv'
  BY <1>1, <1>2 DEF ReportInv, StepInv, LeftInv
<1>4. AdriftInv'
  BY <1>1 DEF ReportInv, AdriftInv
<1>5. ArmInv'
  BY <1>1 DEF ReportInv, ArmInv, ArmedNow, LinkedNow, FanOuts
<1>6. GoodInv'
  <2> SUFFICES ASSUME NEW m \in Nodes \ Restless
               PROVE  /\ pc \in Before => machine'[m] = "old"
                      /\ pc = "reset" /\ req'[m] \in {"queued", "flying"} => machine'[m] = "old"
                      /\ pc = "reset" /\ req'[m] \in {"carried", "ok"} => Good(m)'
                      /\ reset[m] = "sent" => Good(m)'
    BY <1>1 DEF GoodInv
  <2>1. CASE m # n
    BY <1>1, <2>1 DEF ReportInv, GoodInv, Good
  <2>2. CASE m = n
    <3>1. pc = "reset" => machine[n] = "old" /\ ArmedNow(n)
      BY <1>1, <2>2 DEF ReportInv, GoodInv, ArmInv
    <3>2. pc = "reset" => Good(n)'
      BY <1>1, <3>1 DEF ArmedNow, Good
    <3> QED
      BY <1>1, <1>2, <2>2, <3>2 DEF ReportInv, GoodInv, Before
  <2> QED
    BY <2>1, <2>2
<1> QED
  BY <1>3, <1>4, <1>5, <1>6 DEF ReportInv

(***************************************************************************)
(* The world.                                                              *)
(***************************************************************************)
LEMMA ReportScripts ==
  ASSUME Inv, ReportInv, NEW n \in Nodes, NEW good \in BOOLEAN,
         WriteRecord(n, good) \/ RemoveRecord(n, good)
  PROVE  ReportInv'
<1> USE DEF command, world
<1>1. /\ UNCHANGED <<pc, opt, failed, bootLink, bootOnce, reset, req, override, machine, keys, adrift>>
      /\ link \in [Nodes -> BOOLEAN] /\ write \in Scripts /\ remove \in Scripts
  BY DEF WriteRecord, RemoveRecord, Inv, TypeOK
<1>2. StepInv' /\ AdriftInv'
  BY <1>1 DEF ReportInv, StepInv, AdriftInv
<1>3. CASE WriteRecord(n, good)
  <2>1. /\ UNCHANGED remove /\ \A m \in Nodes : link[m] => link'[m]
        /\ \A m \in Nodes : m \in write'.ok => m \in write.ok \/ link'[m]
    BY <1>1, <1>3 DEF WriteRecord, Said, Scripts
  <2>2. LeftInv'
    BY <1>1, <2>1 DEF ReportInv, LeftInv
  <2>3. ArmInv'
    BY <1>1, <2>1 DEF ReportInv, ArmInv, ArmedNow, LinkedNow
  <2>4. GoodInv'
    BY <1>1, <2>1 DEF ReportInv, GoodInv, Good
  <2> QED
    BY <1>2, <2>2, <2>3, <2>4 DEF ReportInv
<1>4. CASE RemoveRecord(n, good)
  <2>1. /\ UNCHANGED write /\ remove'.todo \subseteq remove.todo
        /\ \A m \in Nodes : m # n => link'[m] = link[m]
        /\ n \in remove.todo /\ remove.at # "asked"
    BY <1>1, <1>4 DEF RemoveRecord, Said, Scripts
  <2>2. pc \in {"unlink", "done"} /\ reset[n] # "sent"
    BY <2>1 DEF Inv, RemoveInv, ReportInv, LeftInv
  <2>3. LeftInv'
    BY <1>1, <2>1 DEF ReportInv, LeftInv
  <2>4. ArmInv'
    BY <1>1, <2>2 DEF ArmInv
  <2>5. GoodInv'
    BY <1>1, <2>1, <2>2 DEF ReportInv, GoodInv, Good, Before
  <2> QED
    BY <1>2, <2>3, <2>4, <2>5 DEF ReportInv
<1> QED
  BY <1>3, <1>4

LEMMA ReportMachines ==
  ASSUME Inv, ReportInv, NEW n \in Nodes, Restart(n) \/ Boot(n)
  PROVE  ReportInv'
<1> USE DEF command, world
<1>1. /\ UNCHANGED <<pc, opt, failed, bootLink, bootOnce, reset, req, write, remove, keys, adrift>>
      /\ link \in [Nodes -> BOOLEAN] /\ override \in [Nodes -> BOOLEAN]
      /\ machine \in [Nodes -> {"old", "booting", "installing"}]
  BY DEF Restart, Boot, Inv, TypeOK
<1>2. StepInv' /\ LeftInv' /\ AdriftInv'
  BY <1>1 DEF ReportInv, StepInv, LeftInv, AdriftInv
<1>3. /\ \A m \in Nodes : m # n => /\ link'[m] = link[m] /\ override'[m] = override[m]
                                   /\ machine'[m] = machine[m]
      /\ machine[n] # "installing"
      /\ machine[n] = "old" => n \in Restless
      /\ link[n] /\ override[n] =>
           machine'[n] = "installing" \/ (link'[n] /\ override'[n] /\ machine[n] = "old")
      /\ link[n] => machine'[n] = "installing" \/ link'[n]
  BY <1>1 DEF Restart, Boot
<1>4. ArmInv'
  BY <1>1, <1>3 DEF ReportInv, ArmInv, ArmedNow, LinkedNow
<1>5. GoodInv'
  BY <1>1, <1>3 DEF ReportInv, GoodInv, Good
<1> QED
  BY <1>2, <1>4, <1>5 DEF ReportInv

LEMMA ReportLate ==
  ASSUME Inv, ReportInv, NEW n \in Nodes, NEW op \in FanOuts, CarryLate(n, op)
  PROVE  ReportInv'
<1> USE DEF command, world
<1>1. /\ UNCHANGED <<pc, opt, failed, bootLink, bootOnce, reset, req, write, remove, link, keys>>
      /\ <<n, op>> \in adrift /\ adrift' \subseteq adrift
      /\ \A m \in Nodes : m # n => override'[m] = override[m] /\ machine'[m] = machine[m]
      /\ op = "once" => override'[n] /\ UNCHANGED machine
  BY DEF CarryLate, CarriedOut, Inv, TypeOK
<1>2. StepInv' /\ LeftInv' /\ AdriftInv'
  BY <1>1 DEF ReportInv, StepInv, LeftInv, AdriftInv
<1>3. /\ pc \notin {"links", "keys"} /\ reset[n] # "sent"
      /\ pc = "once" => op = "once" /\ req[n] = "failed"
      /\ pc = "reset" => req[n] = "failed"
  BY <1>1 DEF ReportInv, AdriftInv
<1>4. ArmInv'
  BY <1>1, <1>3 DEF ReportInv, ArmInv, ArmedNow, LinkedNow
<1>5. GoodInv'
  BY <1>1, <1>3 DEF ReportInv, GoodInv, Good, Before
<1> QED
  BY <1>2, <1>4, <1>5 DEF ReportInv

(***************************************************************************)
(* The command.                                                            *)
(***************************************************************************)
LEMMA NoPair ==
  ASSUME NEW A, NEW B, NEW S \in SUBSET (A \X B), \A a \in A, b \in B : <<a, b>> \notin S
  PROVE  S = {}
<1> SUFFICES ASSUME NEW s \in S PROVE FALSE
  OBVIOUS
<1>1. PICK a \in A, b \in B : s = <<a, b>>
  OBVIOUS
<1> QED
  BY <1>1

\* Disarming some nodes that were not reset.
LEMMA ReportDisarm ==
  ASSUME Inv, ReportInv, NEW left \in SUBSET Nodes, Disarm(left, bootLink', bootOnce'),
         UNCHANGED <<opt, keys, link, override, machine, adrift>>,
         \A n \in Nodes : reset'[n] = "sent" => n \notin left,
         \A n, op : <<n, op>> \in adrift => reset'[n] # "sent",
         \A n \in Nodes \ Restless : reset'[n] = "sent" => Good(n)
  PROVE  ReportInv'
<1>1. /\ pc' \in {"clear", "unlink", "done"} /\ failed'
      /\ \A n \in Nodes : n \notin left => req'[n] = "idle"
      /\ remove'.todo \subseteq left
  BY DEF Disarm, FanOut, Asked
<1>2. StepInv' /\ LeftInv' /\ AdriftInv' /\ ArmInv'
  BY <1>1 DEF StepInv, LeftInv, AdriftInv, ArmInv, Before
<1>3. GoodInv'
  BY <1>1 DEF GoodInv, Good, Before
<1> QED
  BY <1>2, <1>3 DEF ReportInv

LEMMA ReportWriteRead ==
  ASSUME Inv, ReportInv, NEW okSeen \in SUBSET Nodes, NEW failSeen \in SUBSET Nodes,
         WriteRead(okSeen, failSeen)
  PROVE  ReportInv'
<1> USE DEF command, world
<1>1. /\ pc = "links" /\ okSeen \subseteq write.ok
      /\ UNCHANGED <<opt, bootOnce, reset, link, override, machine, keys, adrift>>
      /\ bootLink' = LinkResults(okSeen, failSeen, "set")
  BY DEF WriteRead, SessionEnds
<1>2. \A n \in Nodes : reset[n] = "" /\ \A op \in FanOuts : <<n, op>> \notin adrift
  BY <1>1 DEF ReportInv, StepInv, AdriftInv, Before
<1>3. CASE okSeen = Nodes
  <2>1. /\ pc' = "once" /\ req' = [n \in Nodes |-> "queued"] /\ UNCHANGED <<failed, remove>>
        /\ \A n \in Nodes : bootLink'[n] = "set"
    BY <1>1, <1>3 DEF WriteRead, FanOut, LinkResults
  <2>2. StepInv'
    BY <1>1, <2>1 DEF ReportInv, StepInv, Before
  <2>3. LeftInv' /\ AdriftInv'
    BY <1>1, <1>2, <2>1 DEF ReportInv, LeftInv, AdriftInv, Before
  <2>4. ArmInv'
    BY <1>1, <1>3, <2>1 DEF ReportInv, ArmInv, LinkedNow, ArmedNow
  <2>5. GoodInv'
    BY <1>1, <1>2, <2>1 DEF ReportInv, GoodInv, Before
  <2> QED
    BY <2>2, <2>3, <2>4, <2>5 DEF ReportInv
<1>4. CASE okSeen # Nodes
  <2>1. Disarm(Nodes, bootLink', bootOnce') /\ adrift = {}
    <3>1. adrift \subseteq Nodes \X FanOuts
      BY DEF Inv, TypeOK
    <3>2. adrift = {}
      BY <1>2, <3>1, NoPair
    <3> QED
      BY <1>1, <1>4, <3>2 DEF WriteRead
  <2> QED
    BY <1>1, <1>2, <2>1, ReportDisarm
<1> QED
  BY <1>3, <1>4

LEMMA ReportOnceOver == ASSUME Inv, ReportInv, OnceOver PROVE ReportInv'
<1> USE DEF command, world
<1>1. /\ pc = "once" /\ UNCHANGED <<opt, bootLink, reset, link, override, machine, keys, adrift>>
      /\ bootOnce' = [n \in Nodes |-> StepOutcome(req[n], "set")]
      /\ \A n \in Nodes : reset[n] = ""
  BY DEF OnceOver, ReportInv, StepInv, Before
<1>2. CASE \A n \in Nodes : req[n] = "ok"
  <2>1. /\ UNCHANGED <<failed, remove>> /\ \A n \in Nodes : bootOnce'[n] = "set"
        /\ \/ pc' = "keys" /\ ~opt.keepKeys
           \/ pc' = "done" /\ opt.keepKeys /\ opt.noReset
           \/ pc' = "reset" /\ opt.keepKeys /\ ~opt.noReset
    BY <1>1, <1>2 DEF OnceOver, StepOutcome
  <2>2. adrift = {}
    <3>1. adrift \subseteq Nodes \X FanOuts
      BY DEF Inv, TypeOK
    <3>2. \A n \in Nodes, op \in FanOuts : <<n, op>> \notin adrift
      BY <1>1, <1>2 DEF ReportInv, AdriftInv
    <3> QED
      BY <3>1, <3>2, NoPair
  <2>3. \A n \in Nodes : ArmedNow(n)
    BY <1>1, <1>2 DEF ReportInv, ArmInv
  <2>4. opt \in [keepKeys : BOOLEAN, noReset : BOOLEAN] /\ keys \in BOOLEAN
    BY DEF Inv, TypeOK
  <2>5. StepInv'
    BY <1>1, <2>1, <2>4 DEF ReportInv, StepInv, Before
  <2>6. LeftInv' /\ AdriftInv'
    BY <1>1, <2>1, <2>2 DEF ReportInv, LeftInv, AdriftInv, Before
  <2>7. ArmInv'
    BY <1>1, <2>1, <2>3 DEF ArmInv, ArmedNow
  <2>8. GoodInv'
    <3>1. \A n \in Nodes : req'[n] \in {"idle", "queued"}
      BY <1>2 DEF OnceOver, FanOut
    <3> QED
      BY <1>1, <2>1, <3>1 DEF ReportInv, GoodInv, Before
  <2> QED
    BY <2>5, <2>6, <2>7, <2>8 DEF ReportInv
<1>3. CASE ~\A n \in Nodes : req[n] = "ok"
  <2>1. Disarm(Nodes, bootLink', bootOnce')
    BY <1>1, <1>3 DEF OnceOver
  <2>2. \A n, op : <<n, op>> \in adrift => reset'[n] # "sent"
    <3>1. adrift \subseteq Nodes \X FanOuts
      BY DEF Inv, TypeOK
    <3> QED
      BY <1>1, <3>1
  <2> QED
    BY <1>1, <2>1, <2>2, ReportDisarm
<1> QED
  BY <1>2, <1>3

LEMMA ReportForget == ASSUME Inv, ReportInv, Forget \/ ForgetFails PROVE ReportInv'
<1> USE DEF command, world
<1>1. /\ pc = "keys" /\ UNCHANGED <<opt, bootLink, bootOnce, reset, link, override, machine, adrift>>
      /\ \A n \in Nodes : reset[n] = "" /\ ArmedNow(n)
  BY DEF Forget, ForgetFails, ReportInv, StepInv, ArmInv, Before
<1>2. adrift = {}
  <2>1. adrift \subseteq Nodes \X FanOuts
    BY DEF Inv, TypeOK
  <2>2. \A n \in Nodes, op \in FanOuts : <<n, op>> \notin adrift
    BY <1>1 DEF ReportInv, AdriftInv
  <2> QED
    BY <2>1, <2>2, NoPair
<1>3. CASE Forget
  <2>1. /\ UNCHANGED <<failed, remove>> /\ keys' = FALSE /\ ~opt.keepKeys
        /\ \/ pc' = "done" /\ opt.noReset
           \/ pc' = "reset" /\ ~opt.noReset
        /\ \A n \in Nodes : req'[n] \in {"idle", "queued"}
    BY <1>1, <1>3 DEF Forget, FanOut, ReportInv, StepInv
  <2>2. opt \in [keepKeys : BOOLEAN, noReset : BOOLEAN]
    BY DEF Inv, TypeOK
  <2>3. StepInv'
    BY <1>1, <2>1, <2>2 DEF ReportInv, StepInv, Before
  <2>4. LeftInv' /\ AdriftInv'
    BY <1>1, <1>2, <2>1 DEF ReportInv, LeftInv, AdriftInv, Before
  <2>5. ArmInv'
    BY <1>1, <2>1 DEF ArmInv, ArmedNow
  <2>6. GoodInv'
    BY <1>1, <2>1 DEF ReportInv, GoodInv, Before
  <2> QED
    BY <2>3, <2>4, <2>5, <2>6 DEF ReportInv
<1>4. CASE ForgetFails
  <2>1. Disarm(Nodes, bootLink', bootOnce') /\ UNCHANGED keys
    BY <1>1, <1>4 DEF ForgetFails
  <2> QED
    BY <1>1, <1>2, <2>1, ReportDisarm
<1> QED
  BY <1>3, <1>4

LEMMA ReportResetOver == ASSUME Inv, ReportInv, ResetOver PROVE ReportInv'
<1> USE DEF command, world
<1>1. /\ pc = "reset" /\ UNCHANGED <<opt, bootLink, bootOnce, link, override, machine, keys, adrift>>
      /\ \A n \in Nodes : reset'[n] = StepOutcome(req[n], "sent") /\ req[n] \in Ended
      /\ ~failed /\ ~opt.noReset /\ keys = opt.keepKeys
  BY DEF ResetOver, FanOutOver, ReportInv, StepInv, Before
<1>2. \A n \in Nodes : reset'[n] = "sent" <=> req[n] = "ok"
  BY <1>1 DEF StepOutcome, Ended
<1>3. \A n \in Nodes, op \in FanOuts : <<n, op>> \in adrift => reset'[n] # "sent"
  BY <1>1, <1>2 DEF ReportInv, AdriftInv
<1>4. \A n \in Nodes \ Restless : reset'[n] = "sent" => Good(n)
  BY <1>1, <1>2 DEF ReportInv, GoodInv
<1>5. CASE \A n \in Nodes : req[n] = "ok"
  <2>1. pc' = "done" /\ UNCHANGED <<failed, remove>>
    BY <1>5 DEF ResetOver
  <2>2. StepInv' /\ AdriftInv' /\ ArmInv'
    BY <1>1, <1>2, <1>3, <1>5, <2>1 DEF StepInv, AdriftInv, ArmInv, Before
  <2>3. LeftInv'
    BY <1>1, <2>1 DEF ReportInv, LeftInv, Before
  <2>4. GoodInv'
    BY <1>1, <1>4, <2>1 DEF GoodInv, Good, Before
  <2> QED
    BY <2>2, <2>3, <2>4 DEF ReportInv
<1>6. CASE ~\A n \in Nodes : req[n] = "ok"
  <2> DEFINE left == {n \in Nodes : req[n] # "ok"}
  <2>1. left \in SUBSET Nodes /\ Disarm(left, bootLink', bootOnce')
    BY <1>1, <1>6 DEF ResetOver
  <2>2. \A n, op : <<n, op>> \in adrift => reset'[n] # "sent"
    <3>1. adrift \subseteq Nodes \X FanOuts
      BY DEF Inv, TypeOK
    <3> QED
      BY <1>3, <3>1
  <2> QED
    BY <1>1, <1>2, <1>4, <2>1, <2>2, ReportDisarm
<1> QED
  BY <1>5, <1>6

LEMMA ReportDisarmed ==
  ASSUME Inv, ReportInv, NEW okSeen \in SUBSET Nodes, NEW failSeen \in SUBSET Nodes,
         ClearOver \/ RemoveRead(okSeen, failSeen)
  PROVE  ReportInv'
<1> USE DEF command, world
<1>1. /\ pc \in {"clear", "unlink"} /\ pc' \in {"unlink", "done"} /\ failed /\ failed'
      /\ UNCHANGED <<opt, reset, link, override, machine, keys, adrift>>
      /\ remove'.todo = remove.todo
  BY DEF ClearOver, RemoveRead, SessionEnds, ReportInv, StepInv, Inv, TypeOK, Scripts
<1>2. StepInv' /\ ArmInv'
  BY <1>1 DEF StepInv, ArmInv, Before
<1>3. LeftInv' /\ AdriftInv'
  BY <1>1 DEF ReportInv, LeftInv, AdriftInv, Before
<1>4. GoodInv'
  BY <1>1 DEF ReportInv, GoodInv, Good, Before
<1> QED
  BY <1>2, <1>3, <1>4 DEF ReportInv

LEMMA ReportStart ==
  ASSUME Inv, ReportInv, WriteStart \/ RemoveStart \/ Interrupt \/ UNCHANGED vars
  PROVE  ReportInv'
<1>1. /\ UNCHANGED <<pc, opt, failed, bootLink, bootOnce, reset, req, link, override, machine, keys,
                     adrift>>
      /\ write'.ok = write.ok /\ remove'.todo = remove.todo
  BY DEF WriteStart, RemoveStart, Interrupt, vars, command, world, Inv, TypeOK, Scripts
<1>2. StepInv' /\ LeftInv' /\ AdriftInv'
  BY <1>1 DEF ReportInv, StepInv, LeftInv, AdriftInv
<1>3. ArmInv' /\ GoodInv'
  BY <1>1 DEF ReportInv, ArmInv, ArmedNow, LinkedNow, GoodInv, Good
<1> QED
  BY <1>2, <1>3 DEF ReportInv

LEMMA ReportNext == Inv /\ ReportInv /\ [Next]_vars => ReportInv'
<1> SUFFICES ASSUME Inv, ReportInv, [Next]_vars PROVE ReportInv'
  OBVIOUS
<1>1. CASE Command
  BY <1>1, ReportStart, ReportWriteRead, ReportFanOut, ReportOnceOver, ReportForget, ReportResetOver,
     ReportDisarmed DEF Command
<1>2. CASE Replies
  BY <1>2, ReportFanOut DEF Replies
<1>3. CASE Outside
  BY <1>3, ReportScripts, ReportCarry, ReportMachines, ReportLate DEF Outside
<1> QED
  BY <1>1, <1>2, <1>3, ReportStart DEF Next

LEMMA ReportInvariant == Spec => [](Inv /\ ReportInv)
<1>1. Init => Inv /\ ReportInv
  BY InvInit, ReportInit
<1>2. Inv /\ ReportInv /\ [Next]_vars => Inv' /\ ReportInv'
  BY InvNext, ReportNext
<1> QED
  BY <1>1, <1>2, PTL DEF Spec

(***************************************************************************)
(* The theorems.                                                           *)
(***************************************************************************)
\* What the command says at its end is true: a node it reports as reinstalling
\* installs, or will when it boots, and a command that reports success left no
\* node, and no host key, behind.
THEOREM ReportTrue == Spec => []ReportIsTrue
<1>1. Inv /\ ReportInv => ReportIsTrue
  <2> SUFFICES ASSUME Inv, ReportInv PROVE ReportIsTrue
    OBVIOUS
  <2>1. ReinstallingIsTrue
    BY DEF ReportInv, GoodInv, Good, ReinstallingIsTrue
  <2>2. SuccessIsWhole
    BY DEF ReportInv, StepInv, SuccessIsWhole, State, Linked
  <2> QED
    BY <2>1, <2>2 DEF ReportIsTrue
<1> QED
  BY <1>1, ReportInvariant, PTL

\* No host key goes, and no machine is reset in time, before every machine is
\* armed.
THEOREM ArmedFirst == Spec => OnlyOnceArmed
<1>1. Inv /\ ReportInv /\ [Next]_vars => [KeysGoLast /\ ResetFindsArmed]_vars
  <2> SUFFICES ASSUME Inv, ReportInv, Next PROVE KeysGoLast /\ ResetFindsArmed
    OBVIOUS
  <2>1. KeysGoLast
    <3> SUFFICES ASSUME keys' # keys PROVE \A n \in Nodes : ArmedNow(n)
      BY DEF KeysGoLast
    <3>1. Forget
      BY DEF Next, Interrupt, Command, Replies, Outside, WriteStart, WriteRead, Send, NotSent, OnceOver,
         ForgetFails, ResetOver, ClearOver, RemoveStart, RemoveRead, Answer, Unreachable, Fails,
         WriteRecord, RemoveRecord, Carry, Restart, Boot, CarryLate, world
    <3> QED
      BY <3>1 DEF Forget, ReportInv, ArmInv
  <2>2. ResetFindsArmed
    <3> SUFFICES ASSUME NEW n \in Nodes, pc = "reset", req[n] = "flying"
                 PROVE  /\ ArmedNow(n)
                        /\ opt.keepKeys \/ ~keys
                        /\ \A m \in Nodes : bootLink[m] = "set" /\ bootOnce[m] = "set"
      BY DEF ResetFindsArmed
    <3>1. opt \in [keepKeys : BOOLEAN, noReset : BOOLEAN] /\ keys \in BOOLEAN
      BY DEF Inv, TypeOK
    <3> QED
      BY <3>1 DEF ReportInv, StepInv, ArmInv
  <2> QED
    BY <2>1, <2>2
<1> QED
  BY <1>1, ReportInvariant, PTL DEF OnlyOnceArmed, Spec
=============================================================================
