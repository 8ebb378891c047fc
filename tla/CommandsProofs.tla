---------------------------- MODULE CommandsProofs ---------------------------
(***************************************************************************)
(* Proofs about Commands, one component after another: what an ssh session *)
(* reports, what is added to the accounts, which tunnel is up, which nodes *)
(* Slurm changes, and what is in the host key file.                        *)
(*                                                                         *)
(* Every section proves that the invariant of its component holds when its *)
(* scene begins and is kept by every step, and from it the property of the *)
(* whole.  The components are those of Commands, whose registers stand for *)
(* their variables: the heading of a section says which.                   *)
(***************************************************************************)
EXTENDS Commands, WellFoundedInduction, FiniteSetTheorems, TLAPS

(***************************************************************************)
(* An ssh session.  What was told to end is held up no longer than its     *)
(* grace, whoever reads its output, so the time of a command bounds the    *)
(* time of its session (TimeInv); the exit code ssh ends with says what    *)
(* became of the remote command or that it is not known (CodeInv).         *)
(*                                                                         *)
(* The registers: v1 age, v2 ssh, v3 code, v4 lost, v5 quiet, v6 told, v7  *)
(* wait, v8 expired, v9 held, v10 long, v11 remote, v12 born, v13 status,  *)
(* v14 result, v15 interrupted.                                            *)
(***************************************************************************)
\* What is assumed of the constants, by name.
LEMMA SessionAmounts ==
  /\ OfSession.Timeout \in Nat /\ OfSession.Grace \in Nat /\ OfSession.Reach \in Nat
  /\ OfSession.Timeout > 0 /\ OfSession.Grace > 0 /\ OfSession.Reach > 0
  /\ \A s \in OfSession.Statuses : s \in 0..255
BY CommandsConstants DEF CommandsConstants, Session!SessionConstants

\* The invariant holds when ssh is started.
LEMMA SessionBegins == Session!Init => Session!Inv
<1> SUFFICES ASSUME Session!Init PROVE Session!Inv
  OBVIOUS
<1>1. Session!TypeOK
  BY DEF Session!Init, Session!TypeOK, Session!Never
<1>2. Session!Values
  BY DEF Session!Init, Session!Values
<1>3. Session!ToldInv
  BY DEF Session!Init, Session!ToldInv, Session!Ongoing
<1>4. Session!TimeInv
  BY SessionAmounts DEF Session!Init, Session!TimeInv, Session!Deadline
<1>5. Session!CommandInv
  BY DEF Session!Init, Session!CommandInv, Session!Heard
<1>6. Session!CodeInv
  BY DEF Session!Init, Session!CodeInv, Session!Ongoing
<1>7. Session!ResultIsTrue
  BY DEF Session!Init, Session!ResultIsTrue
<1> QED BY <1>1, <1>2, <1>3, <1>4, <1>5, <1>6, <1>7 DEF Session!Inv

\* The node is reached, and the command begins.
LEMMA SessionReached ==
  ASSUME Session!Inv, Session!Reached
  PROVE  Session!Inv'
<1>0. Session!TypeOK /\ Session!Values /\ Session!ToldInv /\ Session!TimeInv
      /\ Session!CommandInv /\ Session!CodeInv /\ Session!ResultIsTrue
  BY DEF Session!Inv
<1>1. Session!TypeOK'
  BY <1>0 DEF Session!Reached, Session!TypeOK, Session!Values, Session!stop, Session!answer
<1>2. Session!Values'
  BY <1>0 DEF Session!Reached, Session!Values, Session!stop
<1>3. Session!ToldInv'
  BY <1>0 DEF Session!Reached, Session!ToldInv, Session!Ongoing, Session!stop
<1>4. Session!TimeInv'
  BY <1>0 DEF Session!Reached, Session!TimeInv, Session!stop
<1>5. Session!CommandInv'
  BY <1>0, SessionAmounts DEF Session!Reached, Session!CommandInv, Session!Values, Session!Never
<1>6. Session!CodeInv'
  BY <1>0 DEF Session!Reached, Session!CodeInv, Session!Ongoing, Session!stop
<1>7. Session!ResultIsTrue'
  BY DEF Session!Reached, Session!ResultIsTrue
<1> QED BY <1>1, <1>2, <1>3, <1>4, <1>5, <1>6, <1>7 DEF Session!Inv

\* The command ends by itself.
LEMMA SessionByItself ==
  ASSUME Session!Inv, Session!ByItself
  PROVE  Session!Inv'
<1>0. Session!TypeOK /\ Session!Values /\ Session!ToldInv /\ Session!TimeInv
      /\ Session!CommandInv /\ Session!CodeInv /\ Session!ResultIsTrue
  BY DEF Session!Inv
<1>1. Session!TypeOK'
  BY <1>0 DEF Session!ByItself, Session!Exits, Session!TypeOK, Session!stop, Session!answer
<1>2. Session!Values'
  BY <1>0, SessionAmounts DEF Session!ByItself, Session!Exits, Session!Values, Session!stop
<1>3. Session!ToldInv'
  BY <1>0 DEF Session!ByItself, Session!Exits, Session!ToldInv, Session!Ongoing, Session!stop
<1>4. Session!TimeInv'
  BY <1>0 DEF Session!ByItself, Session!Exits, Session!TimeInv, Session!stop
<1>5. Session!CommandInv'
  BY <1>0, SessionAmounts DEF Session!ByItself, Session!Exits, Session!CommandInv, Session!Values,
     Session!Never
<1>6. Session!CodeInv'
  BY <1>0 DEF Session!ByItself, Session!Exits, Session!CodeInv, Session!Ongoing, Session!stop
<1>7. Session!ResultIsTrue'
  BY DEF Session!ByItself, Session!Exits, Session!ResultIsTrue, Session!Heard
<1> QED BY <1>1, <1>2, <1>3, <1>4, <1>5, <1>6, <1>7 DEF Session!Inv

\* timeout(1) ends the command, or tells it to end.
LEMMA SessionTimeoutStops ==
  ASSUME Session!Inv, Session!TimeoutStops
  PROVE  Session!Inv'
<1>0. Session!TypeOK /\ Session!Values /\ Session!ToldInv /\ Session!TimeInv
      /\ Session!CommandInv /\ Session!CodeInv /\ Session!ResultIsTrue
  BY DEF Session!Inv
<1>1. Session!TypeOK'
  BY <1>0 DEF Session!TimeoutStops, Session!Exits, Session!TypeOK, Session!stop, Session!answer
<1>2. Session!Values'
  BY <1>0 DEF Session!TimeoutStops, Session!Exits, Session!Values, Session!stop
<1>3. Session!ToldInv'
  BY <1>0 DEF Session!TimeoutStops, Session!Exits, Session!ToldInv, Session!Ongoing, Session!stop
<1>4. Session!TimeInv'
  BY <1>0 DEF Session!TimeoutStops, Session!Exits, Session!TimeInv, Session!stop
<1>5. Session!CommandInv'
  BY <1>0, SessionAmounts DEF Session!TimeoutStops, Session!Exits, Session!CommandInv,
     Session!Values, Session!Never
<1>6. Session!CodeInv'
  BY <1>0 DEF Session!TimeoutStops, Session!Exits, Session!CodeInv, Session!Ongoing, Session!stop
<1>7. Session!ResultIsTrue'
  BY DEF Session!TimeoutStops, Session!Exits, Session!ResultIsTrue, Session!Heard
<1> QED BY <1>1, <1>2, <1>3, <1>4, <1>5, <1>6, <1>7 DEF Session!Inv

\* The command ends after it was told to, or is killed.
LEMMA SessionTimeoutKills ==
  ASSUME Session!Inv, Session!TimeoutKills
  PROVE  Session!Inv'
<1>0. Session!TypeOK /\ Session!Values /\ Session!ToldInv /\ Session!TimeInv
      /\ Session!CommandInv /\ Session!CodeInv /\ Session!ResultIsTrue
  BY DEF Session!Inv
<1>1. Session!TypeOK'
  BY <1>0 DEF Session!TimeoutKills, Session!Exits, Session!TypeOK, Session!stop, Session!answer
<1>2. Session!Values'
  BY <1>0 DEF Session!TimeoutKills, Session!Exits, Session!Values, Session!stop
<1>3. Session!ToldInv'
  BY <1>0 DEF Session!TimeoutKills, Session!Exits, Session!ToldInv, Session!Ongoing, Session!stop
<1>4. Session!TimeInv'
  BY <1>0 DEF Session!TimeoutKills, Session!Exits, Session!TimeInv, Session!stop
<1>5. Session!CommandInv'
  BY <1>0 DEF Session!TimeoutKills, Session!Exits, Session!CommandInv, Session!Never
<1>6. Session!CodeInv'
  BY <1>0 DEF Session!TimeoutKills, Session!Exits, Session!CodeInv, Session!Ongoing, Session!stop
<1>7. Session!ResultIsTrue'
  BY DEF Session!TimeoutKills, Session!Exits, Session!ResultIsTrue, Session!Heard
<1> QED BY <1>1, <1>2, <1>3, <1>4, <1>5, <1>6, <1>7 DEF Session!Inv

\* The connection goes quiet.
LEMMA SessionGoesQuiet ==
  ASSUME Session!Inv, Session!GoesQuiet
  PROVE  Session!Inv'
<1>0. Session!TypeOK /\ Session!Values /\ Session!ToldInv /\ Session!TimeInv
      /\ Session!CommandInv /\ Session!CodeInv /\ Session!ResultIsTrue
  BY DEF Session!Inv
<1>1. Session!TypeOK'
  BY <1>0 DEF Session!GoesQuiet, Session!TypeOK, Session!stop, Session!answer, Session!command
<1>2. Session!Values'
  BY <1>0 DEF Session!GoesQuiet, Session!Values, Session!stop, Session!command
<1>3. Session!ToldInv'
  BY <1>0 DEF Session!GoesQuiet, Session!ToldInv, Session!Ongoing, Session!stop
<1>4. Session!TimeInv'
  BY <1>0 DEF Session!GoesQuiet, Session!TimeInv, Session!stop
<1>5. Session!CommandInv'
  BY <1>0 DEF Session!GoesQuiet, Session!CommandInv, Session!Heard, Session!command
<1>6. Session!CodeInv'
  BY <1>0 DEF Session!GoesQuiet, Session!CodeInv, Session!Ongoing, Session!stop
<1>7. Session!ResultIsTrue'
  BY DEF Session!GoesQuiet, Session!ResultIsTrue, Session!Ongoing
<1> QED BY <1>1, <1>2, <1>3, <1>4, <1>5, <1>6, <1>7 DEF Session!Inv

\* ssh ends with the status of the command.
LEMMA SessionAnswered ==
  ASSUME Session!Inv, Session!Answered
  PROVE  Session!Inv'
<1>0. Session!TypeOK /\ Session!Values /\ Session!ToldInv /\ Session!TimeInv
      /\ Session!CommandInv /\ Session!CodeInv /\ Session!ResultIsTrue
  BY DEF Session!Inv
<1>1. Session!TypeOK'
  BY <1>0 DEF Session!Answered, Session!Gone, Session!TypeOK, Session!Values, Session!Heard,
     Session!answer, Session!command
<1>2. Session!Values'
  BY <1>0 DEF Session!Answered, Session!Gone, Session!Values, Session!Never, Session!NoCode,
     Session!Guarded, Session!command
<1>3. Session!ToldInv'
  BY <1>0 DEF Session!Answered, Session!Gone, Session!ToldInv, Session!Values, Session!Never,
     Session!Ongoing
<1>4. Session!TimeInv'
  BY <1>0, SessionAmounts DEF Session!Answered, Session!Gone, Session!TimeInv, Session!Values
<1>5. Session!CommandInv'
  BY <1>0 DEF Session!Answered, Session!Gone, Session!CommandInv, Session!command
<1>6. Session!CodeInv'
  BY <1>0 DEF Session!Answered, Session!Gone, Session!CodeInv, Session!CommandInv,
     Session!Ongoing, Session!Heard, Session!command
<1>7. Session!ResultIsTrue'
  BY DEF Session!Answered, Session!Gone, Session!ResultIsTrue
<1> QED BY <1>1, <1>2, <1>3, <1>4, <1>5, <1>6, <1>7 DEF Session!Inv

\* ssh ends without it.
LEMMA SessionLost ==
  ASSUME Session!Inv, Session!Lost
  PROVE  Session!Inv'
<1>0. Session!TypeOK /\ Session!Values /\ Session!ToldInv /\ Session!TimeInv
      /\ Session!CommandInv /\ Session!CodeInv /\ Session!ResultIsTrue
  BY DEF Session!Inv
<1>1. Session!TypeOK'
  BY <1>0 DEF Session!Lost, Session!Gone, Session!TypeOK, Session!Values, Session!Ongoing,
     Session!answer, Session!command
<1>2. Session!Values'
  BY <1>0 DEF Session!Lost, Session!Gone, Session!Values, Session!ConnectionFailed, Session!command
<1>3. Session!ToldInv'
  BY <1>0 DEF Session!Lost, Session!Gone, Session!ToldInv, Session!Values, Session!Never,
     Session!Ongoing
<1>4. Session!TimeInv'
  BY <1>0, SessionAmounts DEF Session!Lost, Session!Gone, Session!TimeInv, Session!Values
<1>5. Session!CommandInv'
  BY <1>0 DEF Session!Lost, Session!Gone, Session!CommandInv, Session!Heard, Session!command
<1>6. Session!CodeInv'
  BY DEF Session!Lost, Session!Gone, Session!CodeInv, Session!Ongoing
<1>7. Session!ResultIsTrue'
  BY DEF Session!Lost, Session!Gone, Session!ResultIsTrue
<1> QED BY <1>1, <1>2, <1>3, <1>4, <1>5, <1>6, <1>7 DEF Session!Inv

\* ssh ends because it was told to.
LEMMA SessionStops ==
  ASSUME Session!Inv, Session!Stops
  PROVE  Session!Inv'
<1>0. Session!TypeOK /\ Session!Values /\ Session!ToldInv /\ Session!TimeInv
      /\ Session!CommandInv /\ Session!CodeInv /\ Session!ResultIsTrue
  BY DEF Session!Inv
<1>1. Session!TypeOK'
  BY <1>0 DEF Session!Stops, Session!Gone, Session!TypeOK, Session!Values, Session!Ongoing,
     Session!answer, Session!command
<1>2. Session!Values'
  BY <1>0 DEF Session!Stops, Session!Gone, Session!Values, Session!ConnectionFailed, Session!command
<1>3. Session!ToldInv'
  BY <1>0 DEF Session!Stops, Session!Gone, Session!ToldInv
<1>4. Session!TimeInv'
  BY <1>0, SessionAmounts DEF Session!Stops, Session!Gone, Session!TimeInv, Session!Values
<1>5. Session!CommandInv'
  BY <1>0 DEF Session!Stops, Session!Gone, Session!CommandInv, Session!Heard, Session!command
<1>6. Session!CodeInv'
  BY DEF Session!Stops, Session!Gone, Session!CodeInv, Session!Ongoing
<1>7. Session!ResultIsTrue'
  BY DEF Session!Stops, Session!Gone, Session!ResultIsTrue
<1> QED BY <1>1, <1>2, <1>3, <1>4, <1>5, <1>6, <1>7 DEF Session!Inv

\* ssh is killed.
LEMMA SessionKillSsh ==
  ASSUME Session!Inv, Session!KillSsh
  PROVE  Session!Inv'
<1>0. Session!TypeOK /\ Session!Values /\ Session!ToldInv /\ Session!TimeInv
      /\ Session!CommandInv /\ Session!CodeInv /\ Session!ResultIsTrue
  BY DEF Session!Inv
<1>1. Session!TypeOK'
  BY <1>0 DEF Session!KillSsh, Session!Gone, Session!TypeOK, Session!Values, Session!Ongoing,
     Session!answer, Session!command
<1>2. Session!Values'
  BY <1>0 DEF Session!KillSsh, Session!Gone, Session!Values, Session!command
<1>3. Session!ToldInv'
  BY <1>0 DEF Session!KillSsh, Session!Gone, Session!ToldInv, Session!Values, Session!Never,
     Session!Ongoing
<1>4. Session!TimeInv'
  BY <1>0, SessionAmounts DEF Session!KillSsh, Session!Gone, Session!TimeInv, Session!Values
<1>5. Session!CommandInv'
  BY <1>0 DEF Session!KillSsh, Session!Gone, Session!CommandInv, Session!Heard, Session!command
<1>6. Session!CodeInv'
  BY <1>0 DEF Session!KillSsh, Session!Gone, Session!GivenUp, Session!CodeInv, Session!Ongoing,
     Session!ToldInv
<1>7. Session!ResultIsTrue'
  BY DEF Session!KillSsh, Session!Gone, Session!ResultIsTrue
<1> QED BY <1>1, <1>2, <1>3, <1>4, <1>5, <1>6, <1>7 DEF Session!Inv

\* What held the output open lets go of it.
LEMMA SessionRelease ==
  ASSUME Session!Inv, Session!Release
  PROVE  Session!Inv'
<1>0. Session!TypeOK /\ Session!Values /\ Session!ToldInv /\ Session!TimeInv
      /\ Session!CommandInv /\ Session!CodeInv /\ Session!ResultIsTrue
  BY DEF Session!Inv
<1>1. Session!TypeOK'
  BY <1>0 DEF Session!Release, Session!TypeOK, Session!stop, Session!answer, Session!command
<1>2. Session!Values'
  BY <1>0 DEF Session!Release, Session!Values, Session!stop, Session!command
<1>3. Session!ToldInv'
  BY <1>0 DEF Session!Release, Session!ToldInv, Session!Ongoing, Session!stop
<1>4. Session!TimeInv'
  BY <1>0 DEF Session!Release, Session!TimeInv, Session!stop
<1>5. Session!CommandInv'
  BY <1>0 DEF Session!Release, Session!CommandInv, Session!Heard, Session!command
<1>6. Session!CodeInv'
  BY <1>0 DEF Session!Release, Session!CodeInv, Session!Ongoing, Session!stop, Session!command
<1>7. Session!ResultIsTrue'
  BY DEF Session!Release, Session!ResultIsTrue
<1> QED BY <1>1, <1>2, <1>3, <1>4, <1>5, <1>6, <1>7 DEF Session!Inv

\* The deadline is over: ssh is told to stop.
LEMMA SessionExpire ==
  ASSUME Session!Inv, Session!Expire
  PROVE  Session!Inv'
<1>0. Session!TypeOK /\ Session!Values /\ Session!ToldInv /\ Session!TimeInv
      /\ Session!CommandInv /\ Session!CodeInv /\ Session!ResultIsTrue
  BY DEF Session!Inv
<1>1. Session!TypeOK'
  BY <1>0 DEF Session!Expire, Session!Cancel, Session!TypeOK, Session!Values, Session!answer,
     Session!command
<1>2. Session!Values'
  BY <1>0 DEF Session!Expire, Session!Cancel, Session!Values, Session!command
<1>3. Session!ToldInv'
  <2>1. v6' = (v6 \/ Session!Ongoing) /\ v7' = IF Session!Ongoing
        /\ v7 = Session!Never THEN v1 ELSE v7 BY DEF Session!Expire, Session!Cancel
  <2>2. v8' /\ v2' = v2 BY DEF Session!Expire
  <2>3. v1 # Session!Never BY <1>0 DEF Session!Never, Session!Values
  <2> QED BY <1>0, <2>1, <2>2, <2>3 DEF Session!ToldInv, Session!Ongoing
<1>4. Session!TimeInv'
  <2>1. v6' = (v6 \/ Session!Ongoing) /\ v7' = IF Session!Ongoing
        /\ v7 = Session!Never THEN v1 ELSE v7 BY DEF Session!Expire, Session!Cancel
  <2>2. v8' /\ v2' = v2 /\ ~v8 /\ v1 = Session!Deadline(OfSession.Timeout)
        /\ v1' = v1 BY DEF Session!Expire
  <2>3. v1 \in Nat /\ v7 \in Nat \cup {Session!Never} /\ Session!Never \notin Nat
        /\ Session!Deadline(OfSession.Timeout) \in Nat BY <1>0, SessionAmounts DEF Session!Never,
           Session!Values, Session!Deadline
  <2>4. ~Session!Ongoing => v7 # Session!Never BY <1>0 DEF Session!ToldInv
  <2>5. v7' \in Nat /\ v7' <= v1 BY <1>0, <2>1, <2>3, <2>4 DEF Session!TypeOK
  <2>6. v1 <= v7' + OfSession.Grace BY <1>0, <2>1, <2>3, <2>4, SessionAmounts DEF Session!TimeInv
  <2> QED BY <2>2, <2>3, <2>5, <2>6 DEF Session!TimeInv
<1>5. Session!CommandInv'
  BY <1>0 DEF Session!Expire, Session!CommandInv, Session!Heard, Session!command
<1>6. Session!CodeInv'
  <2>1. /\ v1' = v1 /\ v2' = v2 /\ v3' = v3 /\ v5' = v5 /\ v4' = v4
        /\ v9' = v9 /\ v11' = v11 /\ v12' = v12 /\ v13' = v13
    BY DEF Session!Expire, Session!command
  <2>2. v6 => v6'
    BY DEF Session!Expire, Session!Cancel
  <2> QED
    BY <1>0, <2>1, <2>2 DEF Session!CodeInv, Session!Ongoing
<1>7. Session!ResultIsTrue'
  BY DEF Session!Expire, Session!ResultIsTrue
<1> QED BY <1>1, <1>2, <1>3, <1>4, <1>5, <1>6, <1>7 DEF Session!Inv

\* The command line is interrupted.
LEMMA SessionInterrupt ==
  ASSUME Session!Inv, Session!Interrupt
  PROVE  Session!Inv'
<1>0. Session!TypeOK /\ Session!Values /\ Session!ToldInv /\ Session!TimeInv
      /\ Session!CommandInv /\ Session!CodeInv /\ Session!ResultIsTrue
  BY DEF Session!Inv
<1>1. Session!TypeOK'
  BY <1>0 DEF Session!Interrupt, Session!Cancel, Session!TypeOK, Session!Values, Session!answer,
     Session!command
<1>2. Session!Values'
  BY <1>0 DEF Session!Interrupt, Session!Cancel, Session!Values, Session!command
<1>3. Session!ToldInv'
  <2>1. v6' = (v6 \/ Session!Ongoing) /\ v7' = IF Session!Ongoing
        /\ v7 = Session!Never THEN v1 ELSE v7 BY DEF Session!Interrupt, Session!Cancel
  <2>2. v15' /\ v2' = v2 /\ v8' = v8 BY DEF Session!Interrupt
  <2>3. v1 # Session!Never BY <1>0 DEF Session!Never, Session!Values
  <2> QED BY <1>0, <2>1, <2>2, <2>3 DEF Session!ToldInv, Session!Ongoing
<1>4. Session!TimeInv'
  BY <1>0, SessionAmounts DEF Session!Interrupt, Session!Cancel, Session!TimeInv, Session!Values
<1>5. Session!CommandInv'
  BY <1>0 DEF Session!Interrupt, Session!CommandInv, Session!Heard, Session!command
<1>6. Session!CodeInv'
  <2>1. /\ v1' = v1 /\ v2' = v2 /\ v3' = v3 /\ v5' = v5 /\ v4' = v4
        /\ v9' = v9 /\ v11' = v11 /\ v12' = v12 /\ v13' = v13
    BY DEF Session!Interrupt, Session!command
  <2>2. v6 => v6'
    BY DEF Session!Interrupt, Session!Cancel
  <2> QED
    BY <1>0, <2>1, <2>2 DEF Session!CodeInv, Session!Ongoing
<1>7. Session!ResultIsTrue'
  <2>1. (v2' = v2) /\ v14' = v14 /\ v11' = v11 /\ v13' = v13 /\ v3' = v3 /\ v10' = v10
        /\ v9' = v9 /\ v1' = v1
     BY DEF Session!Interrupt, Session!command, Session!answer
  <2>2. v15' BY DEF Session!Interrupt
  <2>3. Session!exit' = Session!exit BY <2>1 DEF Session!exit
  <2> QED BY <1>0, <2>1, <2>2, <2>3 DEF Session!ResultIsTrue, Session!InOrder
<1> QED BY <1>1, <1>2, <1>3, <1>4, <1>5, <1>6, <1>7 DEF Session!Inv

\* The result is made of what ssh and the context say.
LEMMA SessionReturn ==
  ASSUME Session!Inv, Session!Return
  PROVE  Session!Inv'
<1>0. Session!TypeOK /\ Session!Values /\ Session!ToldInv /\ Session!TimeInv
      /\ Session!CommandInv /\ Session!CodeInv /\ Session!ResultIsTrue
  BY DEF Session!Inv
<1>1. Session!TypeOK'
  BY <1>0 DEF Session!Return, Session!TypeOK, Session!Classified, Session!stop, Session!command
<1>2. Session!Values'
  BY <1>0 DEF Session!Return, Session!Values, Session!stop, Session!command
<1>3. Session!ToldInv'
  BY <1>0 DEF Session!Return, Session!ToldInv, Session!Ongoing, Session!stop
<1>4. Session!TimeInv'
  BY <1>0 DEF Session!Return, Session!TimeInv, Session!stop
<1>5. Session!CommandInv'
  BY <1>0 DEF Session!Return, Session!CommandInv, Session!Heard, Session!command
<1>6. Session!CodeInv'
  BY <1>0 DEF Session!Return, Session!CodeInv, Session!Ongoing, Session!stop, Session!command
<1>7. Session!ResultIsTrue'
  <2>1. (v2 = "gone") /\ v14' = Session!Classified(v10') /\ v11' = v11 /\ v13' = v13 /\ v3' = v3
        /\ v9' = v9 /\ v1' = v1 /\ v15' = v15 /\ v5' = v5 /\ v4' = v4 /\ v12' = v12
     BY DEF Session!Return, Session!command, Session!stop
  <2>2. v14' = "ok" => ~Session!RunError /\ ~v10' BY <2>1, Zenon DEF Session!Classified
  <2>3. v14' = "cut_off" => ~Session!RunError /\ v10' BY <2>1, Zenon DEF Session!Classified
  <2>4. v14' = "interrupted" => Session!RunError /\ v15 BY <2>1, Zenon DEF Session!Classified
  <2>5. v14' = "unreachable"
        => Session!RunError /\ ~v15 /\ (v8 \/ v3 \in {0, Session!ConnectionFailed}) BY <2>1,
          Zenon DEF Session!Classified
  <2>6. v14' \in {"exit", "timed_out"}
        => Session!RunError /\ ~v15 /\ ~v8 /\ v3 \notin {0, Session!ConnectionFailed}
          /\ (v14' = "timed_out" <=> Session!timedOut) BY <2>1, Zenon DEF Session!Classified
  <2>7. v14' \in {"ok", "cut_off", "interrupted", "unreachable", "exit", "timed_out"} BY <2>1,
        Zenon DEF Session!Classified
  <2>8. v14' # "none" BY <2>7
  <2>9. ~v4 => v11 = "over" /\ v3 = Session!Guarded(v13) BY <1>0, <2>1 DEF Session!CodeInv,
        Session!Ongoing
  <2>10. v4 => v3 = Session!ConnectionFailed
         \/ (v3 = Session!NoCode /\ v6) BY <1>0 DEF Session!CodeInv
  <2>11. v13 \in 0..255 \cup {Session!Never}
         /\ (v11 = "over" <=> v13 # Session!Never) BY <1>0 DEF Session!Values, Session!CommandInv
  <2>12. v6 => v8 \/ v15 BY <1>0 DEF Session!ToldInv
  <2>13. ASSUME v14' = "ok" PROVE v11 = "over" /\ v13 = 0 /\ ~v10' /\ v9 # "yes"
    <3>1. v3 = 0 /\ ~v6 /\ v9 # "yes" BY <2>2, <2>13 DEF Session!RunError
    <3>2. ~v4 BY <2>10, <3>1 DEF Session!ConnectionFailed
    <3> QED BY <2>2, <2>9, <2>13, <3>1, <3>2 DEF Session!Guarded
  <2>14. ASSUME v14' \in {"exit", "timed_out"} PROVE v11 = "over"
                /\ v13 \notin {0, Session!Never} /\ v3 = Session!Guarded(v13)
    <3>1. ~v4 BY <2>6, <2>10, <2>12, <2>14
    <3>2. v3 # 0 BY <2>6, <2>14
    <3> QED BY <2>9, <2>11, <3>1, <3>2 DEF Session!Guarded, Session!ConnectionFailed
  <2>15. ASSUME Session!InOrder PROVE ~v8 /\ ~v6 /\ v3 # Session!ConnectionFailed
    <3>1. ~v4 /\ ~v5 /\ v9 = "no" /\ ~v15 /\ v12 < OfSession.Reach BY <2>15 DEF Session!InOrder
    <3>2. v1 <= v12 + OfSession.Timeout + OfSession.Grace BY <1>0, <2>1, <3>1 DEF Session!CodeInv,
          Session!Ongoing
    <3>3. v1 \in Nat /\ v12 \in Nat \cup {0 - 1} BY <1>0 DEF Session!Values, Session!Never
    <3>4. ~v8 BY <1>0, <3>1, <3>2, <3>3, SessionAmounts DEF Session!TimeInv, Session!Deadline
    <3> QED BY <2>9, <2>12, <3>1, <3>4 DEF Session!Guarded, Session!ConnectionFailed
  <2>16. Session!InOrder' = Session!InOrder BY <2>1 DEF Session!InOrder
  <2>17. ASSUME Session!InOrder PROVE v14' # "unreachable"
    <3>1. v9 = "no" BY <2>17 DEF Session!InOrder
    <3> QED BY <2>5, <2>15, <2>17, <3>1 DEF Session!RunError
  <2>18. Session!exit' = Session!Transport => v14' \in {"unreachable", "cut_off"}
    <3>1. v14' = "ok" => Session!exit' = 0 BY Zenon DEF Session!exit
    <3>2. v14' = "interrupted" => Session!exit' = 130 BY Zenon DEF Session!exit
    <3>3. v14' \in {"exit", "timed_out"} => Session!exit' = 1 BY Zenon DEF Session!exit
    <3> QED BY <2>7, <3>1, <3>2, <3>3 DEF Session!Transport
  <2>19. Session!exit' = 0 => v14' = "ok"
    <3>1. v14' = "interrupted" => Session!exit' = 130 BY Zenon DEF Session!exit
    <3>2. v14' = "unreachable" => Session!exit' = Session!Transport BY Zenon DEF Session!exit
    <3>3. v14' = "cut_off"
          => Session!exit' = Session!Transport \/ Session!exit' = 1 BY Zenon DEF Session!exit
    <3>4. v14' \in {"exit", "timed_out"} => Session!exit' = 1 BY Zenon DEF Session!exit
    <3> QED BY <2>7, <3>1, <3>2, <3>3, <3>4 DEF Session!Transport
  <2>20. ASSUME Session!InOrder,
                v13 \in {124, 137} PROVE v14' = "timed_out" <=> v1 >= OfSession.Timeout
    <3>1. v3 = v13 BY <2>9, <2>20 DEF Session!InOrder, Session!Guarded, Session!ConnectionFailed
    <3>2. Session!RunError BY <2>20, <3>1 DEF Session!RunError
    <3>3. v3 \notin {0, Session!ConnectionFailed} BY <2>20, <3>1 DEF Session!ConnectionFailed
    <3>4. ~v15 BY <2>20 DEF Session!InOrder
    <3>5. v14' = IF Session!timedOut THEN "timed_out" ELSE "exit" BY <2>1, <2>15, <2>20, <3>2,
          <3>3, <3>4 DEF Session!Classified
    <3> QED BY <2>20, <3>1, <3>5 DEF Session!timedOut
  <2> QED BY <2>1, <2>3, <2>4, <2>13, <2>14, <2>16, <2>17, <2>18, <2>19,
      <2>20 DEF Session!ResultIsTrue
<1> QED BY <1>1, <1>2, <1>3, <1>4, <1>5, <1>6, <1>7 DEF Session!Inv

\* Time goes on when nothing is due.
LEMMA SessionTick ==
  ASSUME Session!Inv, Session!Tick
  PROVE  Session!Inv'
<1>0. Session!TypeOK /\ Session!Values /\ Session!ToldInv /\ Session!TimeInv
      /\ Session!CommandInv /\ Session!CodeInv /\ Session!ResultIsTrue
  BY DEF Session!Inv
<1>1. Session!TypeOK'
  BY <1>0 DEF Session!Tick, Session!TypeOK, Session!Values, Session!stop, Session!answer,
     Session!command
<1>2. Session!Values'
  BY <1>0 DEF Session!Tick, Session!Values, Session!stop, Session!command
<1>3. Session!ToldInv'
  BY <1>0 DEF Session!Tick, Session!ToldInv, Session!Ongoing, Session!stop
<1>4. Session!TimeInv'
  BY <1>0, SessionAmounts DEF Session!Tick, Session!Due, Session!GivenUp, Session!WaitDelay,
     Session!TimeInv, Session!Values, Session!Deadline, Session!stop
<1>5. Session!CommandInv'
  <2>1. v1 \in Nat /\ (v12 \in Nat \cup {Session!Never}) BY <1>0 DEF Session!Values
  <2>2. v11' = v11 /\ v12' = v12 /\ v2' = v2 /\ v1' = v1+1 /\ v13' = v13
        /\ v5' = v5  BY DEF Session!Tick, Session!command
  <2>3. Session!Heard => v12 \in Nat BY <1>0, <2>1 DEF Session!CommandInv, Session!Heard
  <2>4. ASSUME Session!Heard PROVE v1 + 1 <= v12 + OfSession.Timeout + (IF v11
               = "running" THEN 0 ELSE OfSession.Grace)
    BY <1>0, <2>1, <2>3, <2>4, SessionAmounts DEF Session!CommandInv, Session!TypeOK,
       Session!Tick, Session!Due, Session!Never
  <2>. QED BY <1>0, <2>2, <2>4 DEF Session!CommandInv, Session!Heard
<1>6. Session!CodeInv'
  BY <1>0 DEF Session!CodeInv, Session!TypeOK, Session!Tick, Session!Due, Session!stop,
     Session!command, Session!Ongoing
<1>7. Session!ResultIsTrue'
  BY DEF Session!Tick, Session!ResultIsTrue
<1> QED BY <1>1, <1>2, <1>3, <1>4, <1>5, <1>6, <1>7 DEF Session!Inv

\* A step that changes nothing.
LEMMA SessionStands ==
  ASSUME Session!Inv, UNCHANGED Session!vars
  PROVE  Session!Inv'
<1>1. Session!TypeOK' /\ Session!Values' /\ Session!ToldInv' /\ Session!TimeInv'
  BY DEF Session!Inv, Session!vars, Session!TypeOK, Session!Values, Session!ToldInv,
     Session!TimeInv, Session!Ongoing
<1>2. Session!CommandInv' /\ Session!CodeInv'
  BY DEF Session!Inv, Session!vars, Session!CommandInv, Session!CodeInv, Session!Heard,
     Session!Ongoing
<1>3. Session!ResultIsTrue'
  BY Zenon DEF Session!Inv, Session!vars, Session!ResultIsTrue, Session!InOrder, Session!exit
<1> QED BY <1>1, <1>2, <1>3 DEF Session!Inv

\* No step breaks the invariant.
LEMMA SessionStep ==
  ASSUME Session!Inv, [Session!Next]_(Session!vars)
  PROVE  Session!Inv'
BY SessionReached, SessionByItself, SessionTimeoutStops, SessionTimeoutKills, SessionGoesQuiet,
   SessionAnswered, SessionLost, SessionStops, SessionKillSsh, SessionRelease, SessionExpire,
   SessionInterrupt, SessionReturn, SessionTick, SessionStands DEF Session!Next

\* What the invariant promises.
LEMMA SessionKeeps ==
  ASSUME Session!Inv
  PROVE  Session!ResultIsTrue /\ Session!EndsInTime
<1>0. Session!TypeOK /\ Session!Values /\ Session!ToldInv /\ Session!TimeInv /\ Session!ResultIsTrue
  BY DEF Session!Inv
<1>1. v1 <= OfSession.Timeout + OfSession.Reach + 2 * OfSession.Grace
  BY <1>0, SessionAmounts DEF Session!Values, Session!TimeInv, Session!Deadline
<1>2. v6 => v1 <= v7 + OfSession.Grace
  BY <1>0 DEF Session!TimeInv, Session!ToldInv
<1> QED BY <1>0, <1>1, <1>2 DEF Session!EndsInTime

\* A step of the whole is one of the component, or of another scene.
LEMMA SessionScene ==
  ASSUME [Next]_vars
  PROVE  /\ scene' = scene
         /\ scene = "session" => [Session!Next]_(Session!vars)
BY DEF Next, vars, Session!vars

\* The invariant of the component is one of the whole.
LEMMA SessionAlways == Spec => [](scene = "session" => Session!Inv)
<1>1. Init => (scene = "session" => Session!Inv)
  BY SessionBegins DEF Init, Begin
<1>2. (scene = "session" => Session!Inv) /\ [Next]_vars => (scene = "session" => Session!Inv)'
  BY SessionScene, SessionStep
<1> QED
  BY <1>1, <1>2, PTL DEF Spec

\* Whatever ends a session, in whatever order: what is reported of a remote
\* command is what became of it, and the session ends in its time.  (Run,
\* classify)
THEOREM SessionReportsTrue == Spec => []SessionIsTrue
<1>1. (scene = "session" => Session!Inv) => SessionIsTrue
  BY SessionKeeps DEF SessionIsTrue
<1> QED
  BY <1>1, SessionAlways, PTL

(***************************************************************************)
(* The accounts.  A plan is made of what the database holds when it is     *)
(* made, and only adds: what a desk planned on stays there (PlanInv,       *)
(* HereInv); who set the default last is known (ByInv).                    *)
(*                                                                         *)
(* The registers: v1 assoc, v2 default, v3 pc, v4 asked, v5 plan, v6       *)
(* result, v7 by, v8 losses.                                               *)
(***************************************************************************)
\* What is assumed of the constants.
LEMMA AccountAsked ==
  /\ OfAccount.Here \in OfAccount.Clusters /\ Account!NoAccount \notin OfAccount.Accounts
  /\ Account!Nobody \notin OfAccount.Desks
  /\ \A d \in OfAccount.Desks : \A a \in OfAccount.Asked[d] :
       a \in [verb : {"add", "default"}, account : OfAccount.Accounts,
         default : OfAccount.Accounts \cup {Account!NoAccount}]
BY CommandsConstants DEF CommandsConstants, Account!AccountingConstants

\* The invariant holds before anything is typed.
LEMMA AccountBegins == Account!Init => Account!Inv
<1> SUFFICES ASSUME Account!Init PROVE Account!Inv
  OBVIOUS
<1>1. Account!NoPlan \in Account!Plans
  BY DEF Account!NoPlan, Account!Plans
<1>2. Account!TypeOK
  BY <1>1 DEF Account!Init, Account!TypeOK, Account!NoPlan
<1>3. Account!DeskInv
  BY <1>1 DEF Account!Init, Account!DeskInv, Account!Results
<1>4. Account!HereInv
  BY DEF Account!Init, Account!HereInv
<1>5. Account!PlanInv /\ Account!ResultInv
  BY DEF Account!Init, Account!PlanInv, Account!ResultInv
<1>6. Account!ByInv
  BY AccountAsked DEF Account!Init, Account!ByInv
<1> QED
  BY <1>2, <1>3, <1>4, <1>5, <1>6 DEF Account!Inv


\* What a step of one desk may do to what the desks hold.
AccountOfDesk(d) ==
  /\ v3' \in [OfAccount.Desks -> {"idle", "plan", "confirm", "associate", "default", "over"}]
  /\ v4' \in [OfAccount.Desks -> [verb : {"none", "add", "default"},
                                  account : OfAccount.Accounts \cup {Account!NoAccount},
                                  default : OfAccount.Accounts \cup {Account!NoAccount}]]
  /\ v5' \in [OfAccount.Desks -> Account!Plans] /\ v6' \in [OfAccount.Desks -> Account!Results]
  /\ \A e \in OfAccount.Desks : e # d => /\ v3'[e] = v3[e] /\ v4'[e] = v4[e]
                                         /\ v5'[e] = v5[e] /\ v6'[e] = v6[e]
  /\ v4'[d] \in OfAccount.Asked[d] /\ v3[d] # "over"
  /\ v3'[d] # "over" => v6'[d] = "none"

\* What the desk itself must hold for the invariant.
AccountDeskHolds(d) ==
  /\ v3[d] \in {"confirm", "associate", "default"} =>
       IF v4[d].verb = "add" THEN Account!AddPlanned(d) ELSE Account!DefaultPlanned(d)
  /\ v3[d] = "associate" => v4[d].verb = "add"
  /\ v3[d] = "default" /\ v4[d].verb = "add" =>
       {v4[d].account, v5[d].default} \subseteq v1[OfAccount.Here]
  /\ v4[d].verb = "add" => v6[d] # "refused"
  /\ v6[d] \in {"ok", "nothing_to_do"} =>
       v4[d].verb = "default" \/ v4[d].account \in v1[OfAccount.Here]

\* A step of a desk that leaves the database alone.
LEMMA AccountDeskOnly ==
  ASSUME Account!Inv, NEW d \in OfAccount.Desks, UNCHANGED Account!database, AccountOfDesk(d),
         AccountDeskHolds(d)'
  PROVE  Account!Inv'
<1>0. Account!TypeOK /\ Account!DeskInv /\ Account!HereInv /\ Account!PlanInv /\ Account!ByInv
      /\ Account!ResultInv
  BY DEF Account!Inv
<1>1. v1' = v1 /\ v2' = v2 /\ v7' = v7
  BY DEF Account!database
<1>2. Account!DeskInv'
  BY <1>0 DEF Account!DeskInv, AccountOfDesk
<1>3. Account!TypeOK'
  BY <1>0, <1>1 DEF Account!TypeOK, AccountOfDesk, Account!Plans
<1>4. Account!HereInv'
  BY <1>0, <1>1 DEF Account!HereInv
<1>5. Account!PlanInv'
  BY <1>0, <1>1 DEF Account!PlanInv, Account!AddPlanned, Account!DefaultPlanned, AccountOfDesk,
     AccountDeskHolds
<1>6. Account!ByInv'
  BY <1>0, <1>1 DEF Account!ByInv, AccountOfDesk
<1>7. Account!ResultInv'
  BY <1>0, <1>1 DEF Account!ResultInv, AccountOfDesk, AccountDeskHolds
<1> QED
  BY <1>2, <1>3, <1>4, <1>5, <1>6, <1>7 DEF Account!Inv

\* A command is typed.
LEMMA AccountType ==
  ASSUME Account!Inv, NEW d \in OfAccount.Desks, Account!Type(d)
  PROVE  Account!Inv'
<1>1. AccountOfDesk(d)
  BY AccountAsked DEF AccountOfDesk, Account!Type, Account!Go, Account!Inv, Account!TypeOK,
     Account!DeskInv
<1>2. AccountDeskHolds(d)'
  BY AccountAsked DEF AccountDeskHolds, Account!Type, Account!Go, Account!Inv, Account!TypeOK,
     Account!DeskInv
<1> QED
  BY <1>1, <1>2, AccountDeskOnly DEF Account!Type

\* Nothing could be planned.
LEMMA AccountNotPlanned ==
  ASSUME Account!Inv, NEW d \in OfAccount.Desks, Account!NotPlanned(d)
  PROVE  Account!Inv'
<1>1. AccountOfDesk(d)
  BY DEF AccountOfDesk, Account!NotPlanned, Account!Over, Account!Go, Account!Inv, Account!TypeOK,
     Account!DeskInv, Account!Results
<1>2. AccountDeskHolds(d)'
  BY DEF AccountDeskHolds, Account!NotPlanned, Account!Over, Account!Go, Account!Inv,
     Account!TypeOK, Account!DeskInv
<1> QED
  BY <1>1, <1>2, AccountDeskOnly DEF Account!NotPlanned

\* The question is answered.
LEMMA AccountConfirm ==
  ASSUME Account!Inv, NEW d \in OfAccount.Desks, Account!Confirm(d)
  PROVE  Account!Inv'
<1>1. AccountOfDesk(d)
  BY DEF AccountOfDesk, Account!Confirm, Account!Over, Account!Go, Account!Inv, Account!TypeOK,
     Account!DeskInv, Account!Results
<1>2. AccountDeskHolds(d)'
  BY DEF AccountDeskHolds, Account!Confirm, Account!Over, Account!Go, Account!Inv, Account!TypeOK,
     Account!DeskInv, Account!PlanInv, Account!AddPlanned, Account!DefaultPlanned, Account!database
<1> QED
  BY <1>1, <1>2, AccountDeskOnly DEF Account!Confirm

\* The plan of user default.
LEMMA AccountPlanDefault ==
  ASSUME Account!Inv, NEW d \in OfAccount.Desks, Account!PlanDefault(d)
  PROVE  Account!Inv'
<1>0. v4[d] \in OfAccount.Asked[d] /\ v4[d].verb = "default" /\ v4[d].account \in OfAccount.Accounts
  BY AccountAsked DEF Account!PlanDefault, Account!Inv, Account!DeskInv
<1>1. v5'[d] = [Account!NoPlan EXCEPT !.exists = TRUE, !.default = v4[d].account]
  BY DEF Account!PlanDefault, Account!Inv, Account!DeskInv
<1>2. v5'[d] \in Account!Plans /\ v5'[d].exists /\ v5'[d].associate = {}
  BY <1>0, <1>1 DEF Account!NoPlan, Account!Plans
<1>3. AccountOfDesk(d)
  BY <1>0, <1>2 DEF AccountOfDesk, Account!PlanDefault, Account!Go, Account!Inv, Account!TypeOK,
     Account!DeskInv
<1>4. AccountDeskHolds(d)'
  BY <1>0, <1>2 DEF AccountDeskHolds, Account!PlanDefault, Account!Go, Account!Inv,
     Account!TypeOK, Account!DeskInv, Account!DefaultPlanned
<1> QED
  BY <1>3, <1>4, AccountDeskOnly DEF Account!PlanDefault

\* What PlanUserAdd makes of what was asked for.
LEMMA AccountPlanned ==
  ASSUME Account!Inv, NEW d \in OfAccount.Desks, v4[d] \in OfAccount.Asked[d], v4[d].verb = "add",
         NEW p, p = Account!Planned(v4[d])
  PROVE  /\ p \in Account!Plans
         /\ v4[d].account \in p.associate \cup v1[OfAccount.Here]
         /\ p.default \in p.associate \cup v1[OfAccount.Here] \cup {Account!NoAccount}
         /\ IF p.exists THEN v1[OfAccount.Here] # {} ELSE p.default \in p.associate
<1>0. /\ v4[d].account \in OfAccount.Accounts
      /\ v4[d].default \in OfAccount.Accounts \cup {Account!NoAccount}
      /\ v2[OfAccount.Here] \in OfAccount.Accounts \cup {Account!NoAccount}
      /\ v1[OfAccount.Here] \in SUBSET OfAccount.Accounts
      /\ v1[OfAccount.Here] # {} => v2[OfAccount.Here] \in v1[OfAccount.Here]
  BY AccountAsked DEF Account!Inv, Account!TypeOK, Account!HereInv
<1>1. CASE v1[OfAccount.Here] = {}
  BY <1>0, <1>1, AccountAsked DEF Account!Planned, Account!PlanNew, Account!Fallback, Account!Plans
<1>2. CASE v1[OfAccount.Here] # {}
  BY <1>0, <1>2, AccountAsked DEF Account!Planned, Account!PlanExisting, Account!Plans
<1> QED
  BY <1>1, <1>2

\* The plan of user add.
LEMMA AccountPlanUserAdd ==
  ASSUME Account!Inv, NEW d \in OfAccount.Desks, Account!PlanUserAdd(d)
  PROVE  Account!Inv'
<1>0. v4[d] \in OfAccount.Asked[d] /\ v4[d].verb = "add" /\ v6[d] = "none"
  BY DEF Account!PlanUserAdd, Account!Inv, Account!DeskInv
<1>1. v5'[d] = Account!Planned(v4[d]) /\ v5' = [v5 EXCEPT ![d] = v5'[d]]
  BY DEF Account!PlanUserAdd, Account!Inv, Account!DeskInv
<1>2. /\ v5'[d] \in Account!Plans
      /\ v4[d].account \in v5'[d].associate \cup v1[OfAccount.Here]
      /\ v5'[d].default \in v5'[d].associate \cup v1[OfAccount.Here] \cup {Account!NoAccount}
      /\ IF v5'[d].exists THEN v1[OfAccount.Here] # {} ELSE v5'[d].default \in v5'[d].associate
  BY <1>0, <1>1, AccountPlanned
<1>3. AccountOfDesk(d)
  BY <1>0, <1>1, <1>2 DEF AccountOfDesk, Account!PlanUserAdd, Account!Go, Account!Over,
     Account!Inv, Account!TypeOK, Account!DeskInv, Account!Results
<1>4. ASSUME Account!Changes(v5'[d]) PROVE AccountDeskHolds(d)'
  <2>1. v3'[d] = "confirm" /\ v6'[d] = "none" /\ v4' = v4 /\ v1' = v1
    BY <1>0, <1>4 DEF Account!PlanUserAdd, Account!Go, Account!Inv, Account!TypeOK,
       Account!DeskInv, Account!database
  <2>2. Account!AddPlanned(d)'
    BY <1>2, <1>4, <2>1 DEF Account!AddPlanned, Account!Changes
  <2> QED
    BY <1>0, <2>1, <2>2 DEF AccountDeskHolds, Account!AddPlanned, Account!DefaultPlanned
<1>5. ASSUME ~Account!Changes(v5'[d]) PROVE AccountDeskHolds(d)'
  <2>1. v3'[d] = "over" /\ v6'[d] = "nothing_to_do" /\ v4' = v4 /\ v1' = v1
    BY <1>0, <1>5 DEF Account!PlanUserAdd, Account!Over, Account!Go, Account!Inv, Account!TypeOK,
       Account!DeskInv, Account!database
  <2>2. v4[d].account \in v1[OfAccount.Here]
    BY <1>2, <1>5 DEF Account!Changes
  <2> QED
    BY <1>0, <2>1, <2>2 DEF AccountDeskHolds, Account!AddPlanned, Account!DefaultPlanned
<1> QED
  BY <1>3, <1>4, <1>5, AccountDeskOnly DEF Account!PlanUserAdd


\* A step of a desk that changes the database as well.
LEMMA AccountChanges ==
  ASSUME Account!Inv, NEW d \in OfAccount.Desks, AccountOfDesk(d), AccountDeskHolds(d)',
         Account!TypeOK', Account!HereInv',
         v1[OfAccount.Here] \subseteq v1'[OfAccount.Here],
         \/ v2'[OfAccount.Here] = v2[OfAccount.Here] /\ v7' = v7
         \/ v7' = d /\ v3'[d] = "over" /\ v2'[OfAccount.Here] = v5'[d].default
  PROVE  Account!Inv'
<1>0. Account!DeskInv /\ Account!PlanInv /\ Account!ByInv /\ Account!ResultInv /\ v3[d] # "over"
  BY DEF Account!Inv, AccountOfDesk
<1>1. Account!DeskInv'
  BY <1>0 DEF Account!DeskInv, AccountOfDesk
<1>2. Account!PlanInv'
  <2> SUFFICES ASSUME NEW e \in OfAccount.Desks, e # d
               PROVE  /\ v3'[e] \in {"confirm", "associate", "default"} =>
                           IF v4'[e].verb
                             = "add" THEN Account!AddPlanned(e)' ELSE Account!DefaultPlanned(e)'
                      /\ v3'[e] = "associate" => v4'[e].verb = "add"
                      /\ v3'[e] = "default" /\ v4'[e].verb = "add" =>
                           {v4'[e].account, v5'[e].default} \subseteq v1'[OfAccount.Here]
    BY DEF Account!PlanInv, AccountDeskHolds
  <2>1. v3'[e] = v3[e] /\ v4'[e] = v4[e] /\ v5'[e] = v5[e]
    BY DEF AccountOfDesk
  <2>2. Account!AddPlanned(e) => Account!AddPlanned(e)'
    BY <2>1 DEF Account!AddPlanned
  <2>3. Account!DefaultPlanned(e) => Account!DefaultPlanned(e)'
    BY <2>1 DEF Account!DefaultPlanned
  <2> QED
    BY <1>0, <2>1, <2>2, <2>3 DEF Account!PlanInv
<1>3. Account!ByInv'
  BY <1>0 DEF Account!ByInv, AccountOfDesk
<1>4. Account!ResultInv'
  BY <1>0 DEF Account!ResultInv, AccountOfDesk, AccountDeskHolds
<1> QED
  BY <1>1, <1>2, <1>3, <1>4 DEF Account!Inv

\* What one change makes of the default accounts.
LEMMA AccountDefault ==
  ASSUME Account!TypeOK, NEW d \in OfAccount.Desks,
         NEW account \in OfAccount.Accounts \cup {Account!NoAccount},
         Account!SetDefault(d, account)
  PROVE  /\ v2' \in [OfAccount.Clusters -> OfAccount.Accounts \cup {Account!NoAccount}]
         /\ v2'[OfAccount.Here] = account /\ v7' = d
         /\ \A c \in OfAccount.Clusters : c # OfAccount.Here => v2'[c] = v2[c]
  BY AccountAsked DEF Account!SetDefault, Account!Named, Account!TypeOK

\* The associations of a plan are made.
LEMMA AccountAssociate ==
  ASSUME Account!Inv, NEW d \in OfAccount.Desks, v3[d] = "associate", Account!Associate(d), v5' = v5
  PROVE  /\ v1' \in [OfAccount.Clusters -> SUBSET OfAccount.Accounts] /\ Account!HereInv'
         /\ v2' \in [OfAccount.Clusters -> OfAccount.Accounts \cup {Account!NoAccount}]
         /\ v1'[OfAccount.Here] = v1[OfAccount.Here] \cup v5[d].associate
         /\ \/ v2' = v2 /\ v7' = v7
            \/ ~v5[d].exists /\ v7' = d /\ v2'[OfAccount.Here] = v5[d].default
<1>0. Account!TypeOK /\ Account!HereInv /\ Account!AddPlanned(d) /\ v5[d] \in Account!Plans
  BY DEF Account!Inv, Account!PlanInv, Account!DeskInv
<1>1. v5[d].associate \subseteq OfAccount.Accounts
      /\ v5[d].default \in OfAccount.Accounts \cup {Account!NoAccount}
  BY <1>0 DEF Account!Plans
<1>2. /\ v1' \in [OfAccount.Clusters -> SUBSET OfAccount.Accounts]
      /\ v1'[OfAccount.Here] = v1[OfAccount.Here] \cup v5[d].associate
      /\ \A c \in OfAccount.Clusters : c # OfAccount.Here => v1'[c] = v1[c]
  BY <1>0, <1>1, AccountAsked DEF Account!Associate, Account!Named, Account!TypeOK
<1>3. CASE v2' = v2 /\ v7' = v7 /\ (v5[d].exists \/ v1[OfAccount.Here] # {})
  <2>1. v1[OfAccount.Here] # {}
    BY <1>0, <1>3 DEF Account!AddPlanned
  <2>2. Account!HereInv'
    BY <1>0, <1>2, <1>3, <2>1 DEF Account!HereInv
  <2> QED
    BY <1>0, <1>2, <1>3, <2>2 DEF Account!TypeOK
<1>4. CASE ~v5[d].exists /\ Account!SetDefault(d, v5[d].default)
  <2>1. /\ v2' \in [OfAccount.Clusters -> OfAccount.Accounts \cup {Account!NoAccount}]
        /\ v2'[OfAccount.Here] = v5[d].default /\ v7' = d
        /\ \A c \in OfAccount.Clusters : c # OfAccount.Here => v2'[c] = v2[c]
    BY <1>0, <1>1, <1>4, AccountDefault
  <2>2. v5[d].default \in v5[d].associate
    BY <1>0, <1>4 DEF Account!AddPlanned
  <2>3. Account!HereInv'
    BY <1>0, <1>2, <2>1, <2>2 DEF Account!HereInv
  <2> QED
    BY <1>2, <1>4, <2>1, <2>3
<1> QED
  BY <1>3, <1>4 DEF Account!Associate


\* user add changes the database, or fails to.
LEMMA AccountAddUser ==
  ASSUME Account!Inv, NEW d \in OfAccount.Desks, Account!AddUser(d)
  PROVE  Account!Inv'
<1>0. /\ Account!TypeOK /\ Account!DeskInv /\ v3[d] = "associate" /\ v4[d].verb = "add"
      /\ Account!AddPlanned(d)
      /\ v4' = v4 /\ v5' = v5 /\ v4[d] \in OfAccount.Asked[d] /\ v6[d] = "none"
  BY DEF Account!Inv, Account!AddUser, Account!PlanInv, Account!DeskInv
<1>1. \/ v3'[d] = "over" /\ v6'[d] \in {"ok", "failed"}
      \/ v3'[d] = "default" /\ v6' = v6 /\ v5[d].exists /\ Account!Associate(d)
  BY <1>0 DEF Account!AddUser, Account!Over, Account!Go, Account!AfterAssociating, Account!TypeOK,
     Account!DeskInv
<1>2. AccountOfDesk(d)
  BY <1>0 DEF AccountOfDesk, Account!AddUser, Account!Over, Account!Go, Account!TypeOK,
     Account!DeskInv, Account!Results
<1>3. CASE Account!Associate(d) /\ v6'[d] # "refused"
  <2>1. /\ v1' \in [OfAccount.Clusters -> SUBSET OfAccount.Accounts] /\ Account!HereInv'
        /\ v2' \in [OfAccount.Clusters -> OfAccount.Accounts \cup {Account!NoAccount}]
        /\ v1'[OfAccount.Here] = v1[OfAccount.Here] \cup v5[d].associate
        /\ \/ v2' = v2 /\ v7' = v7
           \/ ~v5[d].exists /\ v7' = d /\ v2'[OfAccount.Here] = v5[d].default
    BY <1>0, <1>3, AccountAssociate
  <2>2. Account!TypeOK'
    BY <1>0, <1>2, <2>1 DEF AccountOfDesk, Account!TypeOK
  <2>3. /\ v4[d].account \in v1'[OfAccount.Here]
        /\ v5[d].default \in v1'[OfAccount.Here] \cup {Account!NoAccount}
    BY <1>0, <2>1 DEF Account!AddPlanned
  <2>4. v3'[d] = "default" => v5[d].exists /\ v5[d].default # Account!NoAccount
    BY <1>0, <1>1 DEF Account!AddUser, Account!Over, Account!Go, Account!AfterAssociating,
       Account!TypeOK
  <2>5. v3'[d] = "default" => Account!AddPlanned(d)'
    BY <1>0, <2>1, <2>4 DEF Account!AddPlanned
  <2>6. AccountDeskHolds(d)'
    BY <1>0, <1>1, <1>3, <2>3, <2>4, <2>5 DEF AccountDeskHolds
  <2> QED
    BY <1>0, <1>1, <1>2, <2>1, <2>2, <2>6, AccountChanges
<1>4. CASE UNCHANGED Account!database /\ v3'[d] = "over" /\ v6'[d] = "failed"
  <2>1. AccountDeskHolds(d)'
    BY <1>0, <1>4 DEF AccountDeskHolds
  <2> QED
    BY <1>2, <1>4, <2>1, AccountDeskOnly
<1> QED
  BY <1>0, <1>1, <1>3, <1>4 DEF Account!AddUser, Account!Over, Account!Go, Account!DeskInv,
     Account!TypeOK

\* The default account is set, or is not.
LEMMA AccountSetDefault ==
  ASSUME Account!Inv, NEW d \in OfAccount.Desks, Account!setDefaultAccount(d)
  PROVE  Account!Inv'
<1>0. /\ Account!TypeOK /\ Account!DeskInv /\ Account!HereInv /\ v3[d] = "default" /\ v1' = v1
      /\ v4' = v4
      /\ v5' = v5 /\ v4[d] \in OfAccount.Asked[d] /\ v6[d] = "none"
  BY DEF Account!Inv, Account!setDefaultAccount, Account!DeskInv
<1>1. v4[d].verb = "add" => {v4[d].account, v5[d].default} \subseteq v1[OfAccount.Here]
  BY <1>0 DEF Account!Inv, Account!PlanInv
<1>2. PICK r \in {"ok", "refused", "failed"} :
        /\ v3' = [v3 EXCEPT ![d] = "over"] /\ v6' = [v6 EXCEPT ![d] = r]
        /\ r = "refused" => v5[d].default \notin v1[OfAccount.Here]
  BY DEF Account!setDefaultAccount, Account!Over, Account!Go
<1>3. AccountOfDesk(d) /\ v3'[d] = "over" /\ v6'[d] = r
  BY <1>0, <1>2 DEF AccountOfDesk, Account!TypeOK, Account!DeskInv, Account!Results
<1>4. v4[d].verb \in {"add", "default"}
  BY <1>0, AccountAsked
<1>5. AccountDeskHolds(d)'
  BY <1>0, <1>1, <1>2, <1>3, <1>4 DEF AccountDeskHolds, Account!DeskInv
<1>6. CASE Account!SetDefault(d, v5[d].default) /\ v5[d].default \in v1[OfAccount.Here]
  <2>1. v5[d].default \in OfAccount.Accounts
    BY <1>0, <1>6, AccountAsked DEF Account!TypeOK
  <2>2. /\ v2' \in [OfAccount.Clusters -> OfAccount.Accounts \cup {Account!NoAccount}]
        /\ v2'[OfAccount.Here] = v5[d].default /\ v7' = d
        /\ \A c \in OfAccount.Clusters : c # OfAccount.Here => v2'[c] = v2[c]
    BY <1>0, <1>6, <2>1, AccountDefault
  <2>3. Account!TypeOK' /\ Account!HereInv'
    BY <1>0, <1>3, <1>6, <2>2 DEF Account!TypeOK, AccountOfDesk, Account!HereInv
  <2> QED
    BY <1>0, <1>3, <1>5, <2>2, <2>3, AccountChanges
<1>7. CASE UNCHANGED <<v2, v7>>
  BY <1>0, <1>3, <1>5, <1>7, AccountDeskOnly DEF Account!database
<1> QED
  BY <1>6, <1>7 DEF Account!setDefaultAccount

\* No step breaks the invariant.
LEMMA AccountStep ==
  ASSUME Account!Inv, [Account!Next]_(Account!vars)
  PROVE  Account!Inv'
<1>1. ASSUME UNCHANGED Account!vars PROVE Account!Inv'
  BY <1>1 DEF Account!vars, Account!Inv, Account!TypeOK, Account!DeskInv, Account!HereInv,
     Account!PlanInv, Account!AddPlanned, Account!DefaultPlanned, Account!ByInv, Account!ResultInv
<1> QED
  BY <1>1, AccountType, AccountNotPlanned, AccountConfirm, AccountPlanDefault,
     AccountPlanUserAdd, AccountAddUser, AccountSetDefault DEF Account!Next

\* What the invariant promises.
LEMMA AccountKeeps ==
  ASSUME Account!Inv
  PROVE  Account!AddedAsShown
  BY DEF Account!Inv, Account!HereInv, Account!ResultInv, Account!ByInv, Account!AddedAsShown

\* A step of the whole is one of the component, or of another scene.
LEMMA AccountScene ==
  ASSUME [Next]_vars
  PROVE  /\ scene' = scene
         /\ scene = "account" => [Account!Next]_(Account!vars)
BY DEF Next, vars, Account!vars

\* The invariant of the component is one of the whole.
LEMMA AccountAlways == Spec => [](scene = "account" => Account!Inv)
<1>1. Init => (scene = "account" => Account!Inv)
  BY AccountBegins DEF Init, Begin
<1>2. (scene = "account" => Account!Inv) /\ [Next]_vars => (scene = "account" => Account!Inv)'
  BY AccountScene, AccountStep
<1> QED
  BY <1>1, <1>2, PTL DEF Spec

\* From however many desks: a user keeps a default account it is associated with,
\* gets what the question showed, and is added to no other cluster.  (slurm user
\* add, slurm user default)
THEOREM AddedAsAsked == Spec => []AddedAsShown
<1>1. (scene = "account" => Account!Inv) => AddedAsShown
  BY AccountKeeps DEF AddedAsShown
<1> QED
  BY <1>1, AccountAlways, PTL

(***************************************************************************)
(* A tunnel.  The command that holds the lock is alone with the file and   *)
(* the process it starts.  So what sshuttle has in the foreground is the   *)
(* child of that command, or of one that was killed (ChildInv), and of     *)
(* what was not left behind, the file names what is in the background,     *)
(* unless a process that was slow took the file (FileInv).                 *)
(*                                                                         *)
(* The registers: v1 option, v2 pc, v3 op, v4 typed, v5 lock, v6 file, v7  *)
(* child, v8 proc, v9 signalled, v10 late, v11 left, v12 crashes.          *)
(***************************************************************************)
\* The command that is past the lock is alone.
LEMMA TunnelAlone ==
  ASSUME Tunnel!TunnelConstants, Tunnel!TypeOK, NEW c \in OfTunnel.Terminals,
         NEW d \in OfTunnel.Terminals,
         v2[c] \notin {"idle", "lock"}, v2[d] \notin {"idle", "lock"}
  PROVE  c = d
  BY DEF Tunnel!TypeOK

\* Whoever comes to the background with a profile that may be started is a tunnel.
LEMMA TunnelStarted ==
  ASSUME Tunnel!Args(v1) PROVE Tunnel!Started(v1) = "tunnel"
  BY DEF Tunnel!Args, Tunnel!fixedOption, Tunnel!Fixed, Tunnel!Started

\* Every step keeps the types and who has the lock.
LEMMA TunnelTypes == ASSUME Tunnel!TunnelConstants, Tunnel!Inv,
  [Tunnel!Next]_(Tunnel!vars) PROVE Tunnel!TypeOK'
<1> USE DEF Tunnel!mine, Tunnel!Over, Tunnel!removeStale, Tunnel!None, Tunnel!NoPid, Tunnel!Kinds
<1>t. Tunnel!TypeOK /\ \A p \in OfTunnel.Pids : p # 0
  BY DEF Tunnel!Inv, Tunnel!TunnelConstants
<1>k. Tunnel!Started(v1) \in Tunnel!Kinds
  BY DEF Tunnel!Started
<1>0. CASE UNCHANGED Tunnel!vars
  BY <1>t, <1>0 DEF Tunnel!vars, Tunnel!TypeOK
<1>1. ASSUME NEW c \in OfTunnel.Terminals, Tunnel!Type(c) PROVE Tunnel!TypeOK'
  BY <1>t, <1>1 DEF Tunnel!Type, Tunnel!TypeOK
<1>2. ASSUME NEW c \in OfTunnel.Terminals, Tunnel!TakeLock(c) PROVE Tunnel!TypeOK'
  <2>1. v3[c] \in {"start", "stop"}
    BY <1>2 DEF Tunnel!TakeLock, Tunnel!Inv, Tunnel!VerbInv
  <2> QED
    BY <1>t, <1>2, <2>1 DEF Tunnel!TakeLock, Tunnel!TypeOK, Tunnel!TunnelConstants
<1>3. ASSUME NEW c \in OfTunnel.Terminals, Tunnel!LockTimeout(c) PROVE Tunnel!TypeOK'
  BY <1>t, <1>3 DEF Tunnel!LockTimeout, Tunnel!TypeOK
<1>4. ASSUME NEW c \in OfTunnel.Terminals,
             Tunnel!AlreadyRunning(c) \/ Tunnel!NotRunning(c)
               \/ Tunnel!Stopped(c) PROVE Tunnel!TypeOK'
  BY <1>t, <1>4 DEF Tunnel!AlreadyRunning, Tunnel!NotRunning, Tunnel!Stopped, Tunnel!TypeOK,
     Tunnel!TunnelConstants
<1>5. ASSUME NEW c \in OfTunnel.Terminals, Tunnel!FindsNone(c) PROVE Tunnel!TypeOK'
  BY <1>t, <1>5 DEF Tunnel!FindsNone, Tunnel!TypeOK
<1>6. ASSUME NEW c \in OfTunnel.Terminals, Tunnel!Start(c) PROVE Tunnel!TypeOK'
  BY <1>t, <1>6 DEF Tunnel!Start, Tunnel!TypeOK, Tunnel!TunnelConstants
<1>7. ASSUME NEW c \in OfTunnel.Terminals, Tunnel!Daemonized(c) PROVE Tunnel!TypeOK'
  <2>1. v7[c] \in OfTunnel.Pids
    BY <1>t, <1>7 DEF Tunnel!Daemonized, Tunnel!TypeOK, Tunnel!Inv, Tunnel!ChildInv
  <2>2. v6' \in OfTunnel.Pids \cup {0} /\ v8' \in [OfTunnel.Pids -> Tunnel!Kinds]
    BY <1>t, <1>k, <1>7, <2>1 DEF Tunnel!Daemonized, Tunnel!TypeOK
  <2>3. v2' = [v2 EXCEPT ![c] = "started"] /\ UNCHANGED <<v3, v5, v7, v11>> /\ v2[c] = "wait"
    BY <1>7 DEF Tunnel!Daemonized
  <2> QED
    BY <1>t, <2>2, <2>3 DEF Tunnel!TypeOK
<1>8. ASSUME NEW c \in OfTunnel.Terminals, Tunnel!StartOver(c) PROVE Tunnel!TypeOK'
  BY <1>t, <1>8 DEF Tunnel!StartOver, Tunnel!TypeOK, Tunnel!TunnelConstants
<1>9. ASSUME NEW c \in OfTunnel.Terminals, Tunnel!Signal(c) PROVE Tunnel!TypeOK'
  BY <1>t, <1>9 DEF Tunnel!Signal, Tunnel!running, Tunnel!TypeOK
<1>10. ASSUME NEW c \in OfTunnel.Terminals, Tunnel!Interrupted(c) PROVE Tunnel!TypeOK'
  <2>1. v8' \in [OfTunnel.Pids -> Tunnel!Kinds] /\ v6' \in OfTunnel.Pids \cup {0}
    BY <1>t, <1>10 DEF Tunnel!Interrupted, Tunnel!TypeOK
  <2> QED
    BY <1>t, <1>10, <2>1 DEF Tunnel!Interrupted, Tunnel!TypeOK, Tunnel!TunnelConstants
<1>11. ASSUME NEW c \in OfTunnel.Terminals, Tunnel!Killed(c) PROVE Tunnel!TypeOK'
  <2>1. v11' \subseteq OfTunnel.Pids
    BY <1>t, <1>11 DEF Tunnel!Killed, Tunnel!TypeOK, Tunnel!Inv, Tunnel!ChildInv
  <2> QED
    BY <1>t, <1>11, <2>1 DEF Tunnel!Killed, Tunnel!TypeOK, Tunnel!TunnelConstants
<1>12. ASSUME NEW p \in OfTunnel.Pids, Tunnel!DaemonizedAlone(p) PROVE Tunnel!TypeOK'
  <2>1. /\ v8' \in [OfTunnel.Pids -> Tunnel!Kinds] /\ v6' \in OfTunnel.Pids \cup {0}
        /\ v11' \subseteq OfTunnel.Pids /\ UNCHANGED <<v2, v3, v5, v7>>
    BY <1>t, <1>k, <1>12 DEF Tunnel!DaemonizedAlone, Tunnel!TypeOK
  <2> QED
    BY <1>t, <2>1 DEF Tunnel!TypeOK
<1>13. ASSUME NEW p \in OfTunnel.Pids, Tunnel!Ends(p) \/ Tunnel!Crash(p) PROVE Tunnel!TypeOK'
  BY <1>t, <1>13 DEF Tunnel!Ends, Tunnel!Crash, Tunnel!TypeOK
<1> QED
  BY <1>0, <1>1, <1>2, <1>3, <1>4, <1>5, <1>6, <1>7, <1>8, <1>9, <1>10, <1>11, <1>12, <1>13
     DEF Tunnel!Next, Tunnel!Command

\* Every step keeps what commands do, and with which profile.
LEMMA TunnelVerbs == ASSUME Tunnel!TunnelConstants, Tunnel!Inv,
  [Tunnel!Next]_(Tunnel!vars) PROVE Tunnel!OptionInv' /\ Tunnel!VerbInv'
    /\ v1' \in OfTunnel.Spellings
<1> USE DEF Tunnel!mine, Tunnel!Over, Tunnel!VerbInv
<1>t. /\ Tunnel!TypeOK /\ Tunnel!TypeOK' /\ Tunnel!OptionInv /\ Tunnel!VerbInv
      /\ v1 \in OfTunnel.Spellings
  BY TunnelTypes DEF Tunnel!Inv
<1>0. CASE UNCHANGED Tunnel!vars
  BY <1>t, <1>0 DEF Tunnel!vars, Tunnel!OptionInv
<1>1. ASSUME NEW c \in OfTunnel.Terminals,
             Tunnel!Type(c) PROVE Tunnel!OptionInv' /\ Tunnel!VerbInv' /\ v1' \in OfTunnel.Spellings
  BY <1>t, <1>1 DEF Tunnel!Type, Tunnel!OptionInv, Tunnel!TypeOK
<1>2. ASSUME NEW c \in OfTunnel.Terminals,
             \/ Tunnel!TakeLock(c) \/ Tunnel!LockTimeout(c)
             \/ Tunnel!AlreadyRunning(c) \/ Tunnel!NotRunning(c) \/ Tunnel!Stopped(c)
             \/ Tunnel!StartOver(c) \/ Tunnel!Killed(c) \/ Tunnel!FindsNone(c)
      PROVE  Tunnel!OptionInv' /\ Tunnel!VerbInv' /\ v1' \in OfTunnel.Spellings
  BY <1>t, <1>2 DEF Tunnel!TakeLock, Tunnel!LockTimeout, Tunnel!AlreadyRunning, Tunnel!NotRunning,
     Tunnel!Stopped, Tunnel!StartOver, Tunnel!Killed, Tunnel!FindsNone, Tunnel!OptionInv,
     Tunnel!TypeOK
<1>3. ASSUME NEW c \in OfTunnel.Terminals, Tunnel!Start(c)
      PROVE  Tunnel!OptionInv' /\ Tunnel!VerbInv' /\ v1' \in OfTunnel.Spellings
  <2>1. v3[c] = "start" /\ v2[c] = "stale" /\ v2' = [v2 EXCEPT ![c] = "wait"]
        /\ UNCHANGED <<v1, v3>> /\ Tunnel!Args(v1)
    BY <1>t, <1>3 DEF Tunnel!Start, Tunnel!OptionInv
  <2> QED
    BY <1>t, <2>1 DEF Tunnel!OptionInv, Tunnel!TypeOK
<1>4. ASSUME NEW c \in OfTunnel.Terminals,
             Tunnel!Daemonized(c) \/ Tunnel!Signal(c) \/ Tunnel!Interrupted(c)
      PROVE  Tunnel!OptionInv' /\ Tunnel!VerbInv' /\ v1' \in OfTunnel.Spellings
  <2>1. /\ UNCHANGED <<v1, v3>> /\ v2'[c] \in {"started", "signalled", "idle"}
        /\ v2'[c] = "started" => v2[c] = "wait"
        /\ v2[c] \notin {"idle", "lock"}
        /\ \A d \in OfTunnel.Terminals : d # c => v2'[d] = v2[d]
    BY <1>t, <1>4 DEF Tunnel!Daemonized, Tunnel!Signal, Tunnel!Interrupted, Tunnel!TypeOK
  <2>2. \A p \in OfTunnel.Pids : v8'[p] = "starting" => v8[p] = "starting"
    BY <1>t, <1>4 DEF Tunnel!Daemonized, Tunnel!Signal, Tunnel!Interrupted, Tunnel!TypeOK,
       Tunnel!Started
  <2> QED
    BY <1>t, <2>1, <2>2 DEF Tunnel!OptionInv
<1>5. ASSUME NEW p \in OfTunnel.Pids,
             Tunnel!DaemonizedAlone(p) \/ Tunnel!Ends(p) \/ Tunnel!Crash(p)
      PROVE  Tunnel!OptionInv' /\ Tunnel!VerbInv' /\ v1' \in OfTunnel.Spellings
  <2>1. UNCHANGED <<v1, v2, v3>>
    BY <1>5 DEF Tunnel!DaemonizedAlone, Tunnel!Ends, Tunnel!Crash
  <2>2. \A q \in OfTunnel.Pids : v8'[q] = "starting" => v8[q] = "starting"
    BY <1>t, <1>5 DEF Tunnel!DaemonizedAlone, Tunnel!Ends, Tunnel!Crash, Tunnel!TypeOK,
       Tunnel!Started
  <2> QED
    BY <1>t, <2>1, <2>2 DEF Tunnel!OptionInv
<1> QED
  BY <1>0, <1>1, <1>2, <1>3, <1>4, <1>5 DEF Tunnel!Next, Tunnel!Command

\* Every step keeps: what starts is somebody's child, or was left behind.
LEMMA TunnelChildren == ASSUME Tunnel!TunnelConstants, Tunnel!Inv,
  [Tunnel!Next]_(Tunnel!vars) PROVE Tunnel!ChildInv'
<1> USE DEF Tunnel!mine, Tunnel!Over, Tunnel!removeStale, Tunnel!NoPid
<1>t. Tunnel!TypeOK /\ Tunnel!ChildInv /\ \A p \in OfTunnel.Pids : p # 0
  BY DEF Tunnel!Inv, Tunnel!TunnelConstants
<1>0. CASE UNCHANGED Tunnel!vars
  BY <1>t, <1>0 DEF Tunnel!vars, Tunnel!ChildInv
<1>1. ASSUME NEW c \in OfTunnel.Terminals,
             \/ Tunnel!Type(c) \/ Tunnel!TakeLock(c) \/ Tunnel!LockTimeout(c)
             \/ Tunnel!AlreadyRunning(c) \/ Tunnel!NotRunning(c) \/ Tunnel!Stopped(c)
             \/ Tunnel!FindsNone(c)
      PROVE Tunnel!ChildInv'
  <2>1. /\ UNCHANGED <<v7, v8, v11>> /\ v2[c] \notin {"wait", "started"}
        /\ v2'[c] \in {"idle", "lock", "start", "stop", "stale"}
        /\ \A d \in OfTunnel.Terminals : d # c => v2'[d] = v2[d]
    BY <1>t, <1>1 DEF Tunnel!Type, Tunnel!TakeLock, Tunnel!LockTimeout, Tunnel!AlreadyRunning,
       Tunnel!NotRunning, Tunnel!Stopped, Tunnel!FindsNone, Tunnel!TypeOK, Tunnel!Inv,
       Tunnel!VerbInv
  <2> QED
    BY <1>t, <2>1 DEF Tunnel!ChildInv
<1>3. ASSUME NEW c \in OfTunnel.Terminals, Tunnel!Start(c) PROVE Tunnel!ChildInv'
  <2>1. PICK p \in OfTunnel.Pids : /\ v8[p] = "free"
                                   /\ v8' = [v8 EXCEPT ![p] = "starting"]
                                   /\ v7' = [v7 EXCEPT ![c] = p]
    BY <1>3 DEF Tunnel!Start
  <2>2. v2[c] = "stale" /\ v2' = [v2 EXCEPT ![c] = "wait"] /\ UNCHANGED v11
    BY <1>3 DEF Tunnel!Start
  <2>3. \A d \in OfTunnel.Terminals : d # c => v2[d] \in {"idle", "lock"}
    BY <1>t, <2>2 DEF Tunnel!TypeOK
  <2>4. p \notin v11
    BY <2>1 DEF Tunnel!Inv, Tunnel!LeftInv
  <2> QED
    BY <1>t, <2>1, <2>2, <2>3, <2>4 DEF Tunnel!TypeOK, Tunnel!ChildInv
<1>4. ASSUME NEW c \in OfTunnel.Terminals, Tunnel!Daemonized(c) PROVE Tunnel!ChildInv'
  <2>1. /\ v2[c] = "wait" /\ v2' = [v2 EXCEPT ![c] = "started"] /\ UNCHANGED <<v7, v11>>
        /\ \E kind \in {Tunnel!Started(v1), "free"} : v8' = [v8 EXCEPT ![v7[c]] = kind]
    BY <1>4 DEF Tunnel!Daemonized
  <2>2. \A d \in OfTunnel.Terminals : d # c => v2[d] \in {"idle", "lock"}
    BY <1>t, <2>1 DEF Tunnel!TypeOK
  <2>3. v7[c] \in OfTunnel.Pids /\ Tunnel!Started(v1) # "starting"
    BY <1>t, <2>1 DEF Tunnel!TypeOK, Tunnel!ChildInv, Tunnel!Started
  <2> QED
    BY <1>t, <2>1, <2>2, <2>3 DEF Tunnel!TypeOK, Tunnel!ChildInv
<1>5. ASSUME NEW c \in OfTunnel.Terminals, Tunnel!StartOver(c) PROVE Tunnel!ChildInv'
  <2>1. \A d \in OfTunnel.Terminals : v2[d] # "wait"
    BY <1>t, <1>5 DEF Tunnel!StartOver, Tunnel!TypeOK
  <2> QED
    BY <1>t, <1>5, <2>1 DEF Tunnel!StartOver, Tunnel!TypeOK, Tunnel!ChildInv
<1>6. ASSUME NEW c \in OfTunnel.Terminals, Tunnel!Signal(c) PROVE Tunnel!ChildInv'
  <2>1. \A d \in OfTunnel.Terminals : v2[d] # "wait"
    BY <1>t, <1>6 DEF Tunnel!Signal, Tunnel!TypeOK
  <2> QED
    BY <1>t, <1>6, <2>1 DEF Tunnel!Signal, Tunnel!running, Tunnel!TypeOK, Tunnel!ChildInv
<1>7. ASSUME NEW c \in OfTunnel.Terminals, Tunnel!Interrupted(c) PROVE Tunnel!ChildInv'
  <2>1. \A d \in OfTunnel.Terminals : d # c => v2[d] \in {"idle", "lock"}
    BY <1>t, <1>7 DEF Tunnel!Interrupted, Tunnel!TypeOK
  <2>2. /\ v2' = [v2 EXCEPT ![c] = "idle"] /\ v7' = [v7 EXCEPT ![c] = 0] /\ UNCHANGED v11
        /\ \/ v2[c] = "stale" /\ v8' = v8
           \/ v2[c] = "wait" /\ v8' = [v8 EXCEPT ![v7[c]] = "free"]
    BY <1>7 DEF Tunnel!Interrupted
  <2>3. \A p \in OfTunnel.Pids : v8'[p] = "starting" => p \in v11
    BY <1>t, <2>1, <2>2 DEF Tunnel!TypeOK, Tunnel!ChildInv
  <2> QED
    BY <1>t, <2>1, <2>2, <2>3 DEF Tunnel!TypeOK, Tunnel!ChildInv
<1>8. ASSUME NEW c \in OfTunnel.Terminals, Tunnel!Killed(c) PROVE Tunnel!ChildInv'
  <2>1. \A d \in OfTunnel.Terminals : d # c => v2[d] \in {"idle", "lock"}
    BY <1>t, <1>8 DEF Tunnel!Killed, Tunnel!TypeOK
  <2>2. /\ v2' = [v2 EXCEPT ![c] = "idle"] /\ v7' = [v7 EXCEPT ![c] = 0] /\ UNCHANGED v8
        /\ v11' = IF v2[c] = "wait" THEN v11 \cup {v7[c]} ELSE v11
    BY <1>8 DEF Tunnel!Killed
  <2>3. \A p \in OfTunnel.Pids : v8'[p] = "starting" => p \in v11'
    BY <1>t, <2>1, <2>2 DEF Tunnel!TypeOK, Tunnel!ChildInv
  <2> QED
    BY <1>t, <2>1, <2>2, <2>3 DEF Tunnel!TypeOK, Tunnel!ChildInv
<1>9. ASSUME NEW p \in OfTunnel.Pids, Tunnel!DaemonizedAlone(p) PROVE Tunnel!ChildInv'
  <2>1. /\ UNCHANGED <<v2, v7>> /\ p \in v11 /\ v11 \ {p} \subseteq v11' /\ v11' \subseteq v11
        /\ \E kind \in {Tunnel!Started(v1), "free"} : v8' = [v8 EXCEPT ![p] = kind]
    BY <1>9 DEF Tunnel!DaemonizedAlone
  <2>2. Tunnel!Started(v1) # "starting"
    BY DEF Tunnel!Started
  <2> QED
    BY <1>t, <2>1, <2>2 DEF Tunnel!TypeOK, Tunnel!ChildInv
<1>10. ASSUME NEW p \in OfTunnel.Pids, Tunnel!Ends(p) \/ Tunnel!Crash(p) PROVE Tunnel!ChildInv'
  <2>1. /\ UNCHANGED <<v2, v7>> /\ v8[p] # "starting" /\ v11' = v11 \ {p}
        /\ \E kind \in {"free", "other"} : v8' = [v8 EXCEPT ![p] = kind]
    BY <1>10 DEF Tunnel!Ends, Tunnel!Crash
  <2> QED
    BY <1>t, <2>1 DEF Tunnel!TypeOK, Tunnel!ChildInv
<1> QED
  BY <1>0, <1>1, <1>3, <1>4, <1>5, <1>6, <1>7, <1>8, <1>9, <1>10 DEF Tunnel!Next, Tunnel!Command

\* Every step keeps: what was left behind runs.
LEMMA TunnelLeft == ASSUME Tunnel!TunnelConstants, Tunnel!Inv,
  [Tunnel!Next]_(Tunnel!vars) PROVE Tunnel!LeftInv'
<1> USE DEF Tunnel!mine, Tunnel!NoPid, Tunnel!LeftInv
<1>t. Tunnel!TypeOK /\ Tunnel!ChildInv /\ Tunnel!LeftInv /\ \A p \in OfTunnel.Pids : p # 0
  BY DEF Tunnel!Inv, Tunnel!TunnelConstants
<1>1. ASSUME NEW c \in OfTunnel.Terminals, Tunnel!Start(c) PROVE Tunnel!LeftInv'
  BY <1>t, <1>1 DEF Tunnel!Start, Tunnel!TypeOK
<1>2. ASSUME NEW c \in OfTunnel.Terminals, Tunnel!Daemonized(c) PROVE Tunnel!LeftInv'
  <2>1. v7[c] \notin v11 /\ UNCHANGED v11
    BY <1>t, <1>2 DEF Tunnel!Daemonized, Tunnel!ChildInv
  <2>2. \A p \in OfTunnel.Pids : p # v7[c] => v8'[p] = v8[p]
    BY <1>t, <1>2 DEF Tunnel!Daemonized, Tunnel!TypeOK
  <2> QED
    BY <1>t, <2>1, <2>2 DEF Tunnel!TypeOK
<1>3. ASSUME NEW c \in OfTunnel.Terminals, Tunnel!Signal(c) PROVE Tunnel!LeftInv'
  BY <1>t, <1>3 DEF Tunnel!Signal, Tunnel!TypeOK
<1>4. ASSUME NEW c \in OfTunnel.Terminals, Tunnel!Interrupted(c) PROVE Tunnel!LeftInv'
  <2>1. UNCHANGED v11 /\ (v8' = v8 \/ (v2[c] = "wait" /\ v8' = [v8 EXCEPT ![v7[c]] = "free"]))
    BY <1>4 DEF Tunnel!Interrupted
  <2> QED
    BY <1>t, <2>1 DEF Tunnel!TypeOK, Tunnel!ChildInv
<1>5. ASSUME NEW c \in OfTunnel.Terminals, Tunnel!Killed(c) PROVE Tunnel!LeftInv'
  BY <1>t, <1>5 DEF Tunnel!Killed, Tunnel!TypeOK, Tunnel!ChildInv
<1>6. ASSUME NEW p \in OfTunnel.Pids, Tunnel!DaemonizedAlone(p) PROVE Tunnel!LeftInv'
  <2>1. Tunnel!Started(v1) \in {"tunnel", "lost"}
    BY DEF Tunnel!Started
  <2>2. \/ v8' = [v8 EXCEPT ![p] = Tunnel!Started(v1)] /\ UNCHANGED v11
        \/ v8' = [v8 EXCEPT ![p] = "free"] /\ v11' = v11 \ {p}
    BY <1>6 DEF Tunnel!DaemonizedAlone
  <2> QED
    BY <1>t, <2>1, <2>2 DEF Tunnel!TypeOK
<1>7. ASSUME NEW p \in OfTunnel.Pids, Tunnel!Ends(p) \/ Tunnel!Crash(p) PROVE Tunnel!LeftInv'
  <2>1. v11' = v11 \ {p} /\ \A q \in OfTunnel.Pids : q # p => v8'[q] = v8[q]
    BY <1>t, <1>7 DEF Tunnel!Ends, Tunnel!Crash, Tunnel!TypeOK
  <2> QED
    BY <1>t, <2>1 DEF Tunnel!TypeOK
<1>8. CASE UNCHANGED <<v8, v11>>
  BY <1>t, <1>8
<1> QED
  BY <1>1, <1>2, <1>3, <1>4, <1>5, <1>6, <1>7, <1>8 DEF Tunnel!Next, Tunnel!Command, Tunnel!vars,
     Tunnel!Type, Tunnel!TakeLock, Tunnel!LockTimeout, Tunnel!AlreadyRunning, Tunnel!FindsNone,
     Tunnel!StartOver, Tunnel!NotRunning, Tunnel!Stopped

\* What runs, starts or is in the background and was not left behind.
TunnelOwn == {p \in OfTunnel.Pids \ v11 : v8[p] = "tunnel"}

\* While nothing begins in the background and the file stays.
LEMMA TunnelFileKept ==
  ASSUME Tunnel!Inv, Tunnel!TypeOK', UNCHANGED <<v6, v10>>,
         \A p \in OfTunnel.Pids : v8'[p] \in {"tunnel", "lost", "starting"} => v8'[p] = v8[p],
         TunnelOwn' \subseteq TunnelOwn,
         \A c \in OfTunnel.Terminals : v2'[c] \in {"stale", "wait", "signalled"} =>
           v2[c] \in {"stale", "wait", "signalled"} \/ v10 \/ TunnelOwn' = {}
  PROVE  Tunnel!FileInv'
<1>1. \A p \in OfTunnel.Pids : v8'[p] # "lost" /\ (v8'[p] = "starting" => v6' # p)
  BY DEF Tunnel!Inv, Tunnel!FileInv
<1>2. ~v10' => \A p \in TunnelOwn' : v6' = p
  BY DEF Tunnel!Inv, Tunnel!FileInv, TunnelOwn
<1>3. ASSUME ~v10', NEW c \in OfTunnel.Terminals, v2'[c] \in {"stale", "wait", "signalled"}
      PROVE TunnelOwn' = {}
  <2>1. v2[c] \in {"stale", "wait", "signalled"} => TunnelOwn = {}
    BY <1>3 DEF Tunnel!Inv, Tunnel!FileInv, TunnelOwn
  <2> QED
    BY <1>3, <2>1
<1> QED
  BY <1>1, <1>2, <1>3 DEF Tunnel!FileInv, TunnelOwn

\* When the file is emptied, nothing that was not left is in the background.
LEMMA TunnelFileEmptied ==
  ASSUME Tunnel!TypeOK', Tunnel!TunnelConstants, v6' = 0,
         \A p \in OfTunnel.Pids : v8'[p] # "lost",
         v10' \/ TunnelOwn' = {}
  PROVE  Tunnel!FileInv'
  BY DEF Tunnel!FileInv, Tunnel!TunnelConstants, Tunnel!NoPid, TunnelOwn

\* A file that names no running process: nothing else is in the background.
LEMMA TunnelNoneRuns ==
  ASSUME Tunnel!TunnelConstants, Tunnel!Inv, ~Tunnel!running, ~v10
  PROVE  TunnelOwn = {}
  BY DEF Tunnel!running, Tunnel!runsWith, Tunnel!Inv, Tunnel!FileInv, Tunnel!TunnelConstants,
     Tunnel!NoPid, TunnelOwn

\* Every step keeps: what is in the background is what the file names.
LEMMA TunnelFile == ASSUME Tunnel!TunnelConstants, Tunnel!Inv,
  [Tunnel!Next]_(Tunnel!vars) PROVE Tunnel!FileInv'
<1> USE DEF Tunnel!mine, Tunnel!Over, Tunnel!removeStale, Tunnel!NoPid
<1>t. /\ Tunnel!TypeOK /\ Tunnel!TypeOK' /\ Tunnel!FileInv /\ \A p \in OfTunnel.Pids : p # 0
      /\ \A p \in OfTunnel.Pids : v8[p] # "lost"
  BY TunnelTypes DEF Tunnel!Inv, Tunnel!FileInv, Tunnel!TunnelConstants
<1>n. \A c \in OfTunnel.Terminals : v2[c] \in {"stale", "wait", "signalled"} => v10 \/ TunnelOwn = {}
  BY <1>t DEF Tunnel!FileInv, TunnelOwn
<1>0. CASE UNCHANGED Tunnel!vars
  BY <1>t, <1>0 DEF Tunnel!vars, Tunnel!FileInv
<1>1. ASSUME NEW c \in OfTunnel.Terminals,
             \/ Tunnel!Type(c) \/ Tunnel!TakeLock(c) \/ Tunnel!LockTimeout(c)
             \/ Tunnel!AlreadyRunning(c) \/ Tunnel!StartOver(c)
      PROVE Tunnel!FileInv'
  <2>1. /\ UNCHANGED <<v6, v10, v8, v11>>
        /\ v2'[c] \in {"idle", "lock", "start", "stop"}
        /\ \A d \in OfTunnel.Terminals : d # c => v2'[d] = v2[d]
    BY <1>t, <1>1 DEF Tunnel!Type, Tunnel!TakeLock, Tunnel!LockTimeout, Tunnel!AlreadyRunning,
       Tunnel!StartOver, Tunnel!TypeOK, Tunnel!Inv, Tunnel!VerbInv
  <2>2. TunnelOwn' = TunnelOwn
    BY <2>1 DEF TunnelOwn
  <2> QED
    BY <1>t, <2>1, <2>2, TunnelFileKept
<1>2. ASSUME NEW c \in OfTunnel.Terminals, Tunnel!FindsNone(c) PROVE Tunnel!FileInv'
  <2>1. ~Tunnel!running /\ UNCHANGED <<v6, v10, v8, v11>> /\ v2' = [v2 EXCEPT ![c] = "stale"]
    BY <1>2 DEF Tunnel!FindsNone
  <2>2. TunnelOwn' = TunnelOwn
    BY <2>1 DEF TunnelOwn
  <2>3. v10 \/ TunnelOwn' = {}
    BY <2>1, <2>2, TunnelNoneRuns
  <2> QED
    BY <1>t, <2>1, <2>2, <2>3, TunnelFileKept DEF Tunnel!TypeOK
<1>3. ASSUME NEW c \in OfTunnel.Terminals, Tunnel!Start(c) PROVE Tunnel!FileInv'
  <2>1. PICK p \in OfTunnel.Pids : v8' = [v8 EXCEPT ![p] = "starting"]
    BY <1>3 DEF Tunnel!Start
  <2>2. v2[c] = "stale" /\ UNCHANGED <<v10, v11>> /\ v6' = 0
    BY <1>3 DEF Tunnel!Start
  <2>3. v10' \/ TunnelOwn' = {}
    BY <1>t, <1>n, <2>1, <2>2 DEF Tunnel!TypeOK, TunnelOwn
  <2>4. \A q \in OfTunnel.Pids : v8'[q] # "lost"
    BY <1>t, <2>1 DEF Tunnel!TypeOK
  <2> QED
    BY <1>t, <2>2, <2>3, <2>4, TunnelFileEmptied
<1>4. ASSUME NEW c \in OfTunnel.Terminals, Tunnel!Daemonized(c) PROVE Tunnel!FileInv'
  <2>1. v2[c] = "wait" /\ UNCHANGED <<v10, v11>> /\ v2' = [v2 EXCEPT ![c] = "started"]
    BY <1>4 DEF Tunnel!Daemonized
  <2>2. v7[c] \in OfTunnel.Pids /\ v8[v7[c]] = "starting"
    BY <1>t, <2>1 DEF Tunnel!Inv, Tunnel!ChildInv, Tunnel!TypeOK
  <2>3. Tunnel!Started(v1) = "tunnel"
    BY <2>2, TunnelStarted DEF Tunnel!Inv, Tunnel!OptionInv
  <2>4. \A d \in OfTunnel.Terminals : v2'[d] \notin {"stale", "wait", "signalled"}
    BY <1>t, <2>1 DEF Tunnel!TypeOK
  <2>5. v10 \/ TunnelOwn = {}
    BY <1>n, <2>1
  <2>6. \/ v8' = [v8 EXCEPT ![v7[c]] = "tunnel"] /\ v6' = v7[c]
        \/ v8' = [v8 EXCEPT ![v7[c]] = "free"] /\ v6' = v6
    BY <1>4, <2>3 DEF Tunnel!Daemonized
  <2> QED
    BY <1>t, <2>1, <2>2, <2>4, <2>5, <2>6 DEF Tunnel!TypeOK, Tunnel!FileInv, TunnelOwn
<1>5. ASSUME NEW c \in OfTunnel.Terminals, Tunnel!NotRunning(c) \/ Tunnel!Stopped(c)
      PROVE  Tunnel!FileInv'
  <2>1. v2[c] \in {"stale", "signalled"} /\ UNCHANGED <<v8, v10, v11>> /\ v6' = 0
    BY <1>5 DEF Tunnel!NotRunning, Tunnel!Stopped
  <2>2. v10' \/ TunnelOwn' = {}
    BY <1>n, <2>1 DEF TunnelOwn
  <2> QED
    BY <1>t, <2>1, <2>2, TunnelFileEmptied
<1>6. ASSUME NEW c \in OfTunnel.Terminals, Tunnel!Signal(c) PROVE Tunnel!FileInv'
  <2>1. /\ UNCHANGED <<v6, v10, v11>> /\ v8' = [v8 EXCEPT ![v6] = "ending"]
        /\ v2' = [v2 EXCEPT ![c] = "signalled"] /\ v6 \in OfTunnel.Pids
    BY <1>t, <1>6 DEF Tunnel!Signal, Tunnel!running, Tunnel!TypeOK
  <2>2. v10 \/ TunnelOwn' = {}
    BY <1>t, <2>1 DEF Tunnel!FileInv, Tunnel!TypeOK, TunnelOwn
  <2>3. TunnelOwn' \subseteq TunnelOwn
    BY <1>t, <2>1 DEF Tunnel!TypeOK, TunnelOwn
  <2>4. \A p \in OfTunnel.Pids : v8'[p] \in {"tunnel", "lost", "starting"} => v8'[p] = v8[p]
    BY <1>t, <2>1 DEF Tunnel!TypeOK
  <2>5. \A d \in OfTunnel.Terminals : v2'[d] \in {"stale", "wait", "signalled"} =>
          v2[d] \in {"stale", "wait", "signalled"} \/ v10 \/ TunnelOwn' = {}
    BY <1>t, <2>1, <2>2 DEF Tunnel!TypeOK
  <2> QED
    BY <1>t, <2>1, <2>3, <2>4, <2>5, TunnelFileKept
<1>7. ASSUME NEW c \in OfTunnel.Terminals, Tunnel!Interrupted(c) PROVE Tunnel!FileInv'
  <2>1. UNCHANGED <<v10, v11>> /\ v2' = [v2 EXCEPT ![c] = "idle"]
    BY <1>7 DEF Tunnel!Interrupted
  <2>2. CASE v2[c] = "stale" /\ v6' = 0 /\ v8' = v8
    <3>1. v10' \/ TunnelOwn' = {}
      BY <1>n, <2>1, <2>2 DEF TunnelOwn
    <3> QED
      BY <1>t, <2>2, <3>1, TunnelFileEmptied
  <2>3. CASE v2[c] = "wait" /\ v6' = v6 /\ v8' = [v8 EXCEPT ![v7[c]] = "free"]
    <3>1. TunnelOwn' \subseteq TunnelOwn
      BY <1>t, <2>1, <2>3 DEF Tunnel!TypeOK, TunnelOwn
    <3>2. \A p \in OfTunnel.Pids : v8'[p] \in {"tunnel", "lost", "starting"} => v8'[p] = v8[p]
      BY <1>t, <2>3 DEF Tunnel!TypeOK
    <3>3. \A d \in OfTunnel.Terminals : v2'[d] \in {"stale", "wait", "signalled"} => v2'[d] = v2[d]
      BY <1>t, <2>1 DEF Tunnel!TypeOK
    <3> QED
      BY <1>t, <2>1, <2>3, <3>1, <3>2, <3>3, TunnelFileKept
  <2> QED
    BY <1>7, <2>2, <2>3 DEF Tunnel!Interrupted
<1>8. ASSUME NEW c \in OfTunnel.Terminals, Tunnel!Killed(c) PROVE Tunnel!FileInv'
  <2>1. /\ UNCHANGED <<v6, v8, v10>> /\ v2' = [v2 EXCEPT ![c] = "idle"] /\ v11 \subseteq v11'
    BY <1>8 DEF Tunnel!Killed
  <2>2. TunnelOwn' \subseteq TunnelOwn
    BY <2>1 DEF TunnelOwn
  <2>3. \A d \in OfTunnel.Terminals : v2'[d] \in {"stale", "wait", "signalled"} => v2'[d] = v2[d]
    BY <1>t, <2>1 DEF Tunnel!TypeOK
  <2> QED
    BY <1>t, <2>1, <2>2, <2>3, TunnelFileKept
<1>9. ASSUME NEW p \in OfTunnel.Pids, Tunnel!DaemonizedAlone(p) PROVE Tunnel!FileInv'
  <2>1. p \in v11 /\ v8[p] = "starting" /\ UNCHANGED v2 /\ Tunnel!Started(v1) = "tunnel"
    BY <1>9, TunnelStarted DEF Tunnel!DaemonizedAlone, Tunnel!Inv, Tunnel!OptionInv
  <2>2. CASE /\ v8' = [v8 EXCEPT ![p] = "tunnel"] /\ v6' = p /\ UNCHANGED v11
             /\ v10' = (v10 \/ v6 \notin {p, 0})
    <3>1. TunnelOwn' = TunnelOwn
      BY <1>t, <2>1, <2>2 DEF Tunnel!TypeOK, TunnelOwn
    <3>2. v10' \/ TunnelOwn = {}
      BY <1>t, <2>1, <2>2 DEF Tunnel!FileInv, TunnelOwn
    <3>3. \A q \in OfTunnel.Pids : v8'[q] # "lost" /\ (v8'[q] = "starting" => v6' # q)
      BY <1>t, <2>2 DEF Tunnel!TypeOK
    <3> QED
      BY <3>1, <3>2, <3>3 DEF Tunnel!FileInv, TunnelOwn
  <2>3. CASE v8' = [v8 EXCEPT ![p] = "free"] /\ v11' = v11 \ {p} /\ UNCHANGED <<v6, v10>>
    <3>1. TunnelOwn' \subseteq TunnelOwn
      BY <1>t, <2>3 DEF Tunnel!TypeOK, TunnelOwn
    <3>2. \A q \in OfTunnel.Pids : v8'[q] \in {"tunnel", "lost", "starting"} => v8'[q] = v8[q]
      BY <1>t, <2>3 DEF Tunnel!TypeOK
    <3> QED
      BY <1>t, <2>1, <2>3, <3>1, <3>2, TunnelFileKept
  <2> QED
    BY <1>9, <2>1, <2>2, <2>3 DEF Tunnel!DaemonizedAlone, Tunnel!Takes
<1>10. ASSUME NEW p \in OfTunnel.Pids, Tunnel!Ends(p) PROVE Tunnel!FileInv'
  <2>1. /\ v8[p] = "ending" /\ v8' = [v8 EXCEPT ![p] = "free"] /\ v11' = v11 \ {p}
        /\ v6' = 0 /\ v10' = (v10 \/ v6 \notin {p, 0})
    BY <1>10 DEF Tunnel!Ends, Tunnel!Takes
  <2>2. v10' \/ TunnelOwn' = {}
    BY <1>t, <2>1 DEF Tunnel!TypeOK, Tunnel!FileInv, TunnelOwn
  <2>3. \A q \in OfTunnel.Pids : v8'[q] # "lost"
    BY <1>t, <2>1 DEF Tunnel!TypeOK
  <2> QED
    BY <1>t, <2>1, <2>2, <2>3, TunnelFileEmptied
<1>11. ASSUME NEW p \in OfTunnel.Pids, Tunnel!Crash(p) PROVE Tunnel!FileInv'
  <2>1. /\ UNCHANGED <<v2, v6, v10>> /\ v11' = v11 \ {p}
        /\ \E kind \in {"free", "other"} : v8' = [v8 EXCEPT ![p] = kind]
    BY <1>11 DEF Tunnel!Crash
  <2>2. TunnelOwn' \subseteq TunnelOwn
    BY <1>t, <2>1 DEF Tunnel!TypeOK, TunnelOwn
  <2>3. \A q \in OfTunnel.Pids : v8'[q] \in {"tunnel", "lost", "starting"} => v8'[q] = v8[q]
    BY <1>t, <2>1 DEF Tunnel!TypeOK
  <2> QED
    BY <1>t, <2>1, <2>2, <2>3, TunnelFileKept
<1> QED
  BY <1>0, <1>1, <1>2, <1>3, <1>4, <1>5, <1>6, <1>7, <1>8, <1>9, <1>10, <1>11 DEF Tunnel!Next,
     Tunnel!Command

\* Every step keeps: a signal goes to a tunnel.  The file names no process that
\* starts, whether a command waits for it or not.
LEMMA TunnelSignals ==
  ASSUME Tunnel!TunnelConstants, Tunnel!Inv,
         [Tunnel!Next]_(Tunnel!vars) PROVE v9' \subseteq {"tunnel", "ending"}
<1>1. ASSUME NEW c \in OfTunnel.Terminals, Tunnel!Signal(c) PROVE v9' \subseteq {"tunnel", "ending"}
  <2>1. Tunnel!running /\ v9' = v9 \cup {v8[v6]}
    BY <1>1 DEF Tunnel!Signal
  <2>2. v8[v6] # "starting"
    BY <2>1 DEF Tunnel!running, Tunnel!Inv, Tunnel!TypeOK, Tunnel!FileInv
  <2> QED
    BY <2>1, <2>2 DEF Tunnel!running, Tunnel!runsWith, Tunnel!Inv
<1>2. CASE UNCHANGED v9
  BY <1>2 DEF Tunnel!Inv
<1> QED
  BY <1>1, <1>2 DEF Tunnel!Next, Tunnel!Command, Tunnel!vars, Tunnel!Type, Tunnel!TakeLock,
     Tunnel!LockTimeout, Tunnel!AlreadyRunning, Tunnel!FindsNone, Tunnel!Start,
    Tunnel!Daemonized, Tunnel!StartOver, Tunnel!NotRunning, Tunnel!Stopped, Tunnel!Interrupted,
      Tunnel!Killed, Tunnel!DaemonizedAlone, Tunnel!Ends, Tunnel!Crash

\* The invariant holds at first.
LEMMA TunnelBegins == ASSUME Tunnel!TunnelConstants, Tunnel!Init PROVE Tunnel!Inv
  BY DEF Tunnel!TunnelConstants, Tunnel!Init, Tunnel!Inv, Tunnel!TypeOK, Tunnel!Kinds,
     Tunnel!OptionInv, Tunnel!VerbInv, Tunnel!ChildInv, Tunnel!LeftInv, Tunnel!FileInv,
         Tunnel!None, Tunnel!NoPid

\* Every step keeps the invariant.
LEMMA TunnelStep == ASSUME Tunnel!TunnelConstants, Tunnel!Inv,
  [Tunnel!Next]_(Tunnel!vars) PROVE Tunnel!Inv'
  BY TunnelTypes, TunnelVerbs, TunnelChildren, TunnelLeft, TunnelFile, TunnelSignals DEF Tunnel!Inv

\* The invariant is enough.
LEMMA TunnelKeeps == ASSUME Tunnel!TunnelConstants, Tunnel!Inv PROVE Tunnel!TunnelsAreWhole
<1> DEFINE Own == Tunnel!Up \ v11
<1>1. \A p \in Own : /\ p \in OfTunnel.Pids /\ p \notin v11 /\ v8[p] \in {"starting", "tunnel"}
                     /\ v8[p] = "starting" =>
                          \E c \in OfTunnel.Terminals : v2[c] = "wait" /\ v7[c] = p
                     /\ ~v10 /\ v8[p] = "tunnel" => v6 = p
  BY DEF Tunnel!Inv, Tunnel!FileInv, Tunnel!ChildInv, Tunnel!Up
<1> HIDE DEF Own
<1>2. ~v10 => \A p \in Own : v6 = p \/ \E c \in OfTunnel.Terminals : v7[c] = p
  BY <1>1
<1>3. ASSUME ~v10, NEW p \in Own, NEW q \in Own PROVE p = q
  <2>1. CASE v8[p] = "starting" /\ v8[q] = "starting"
    BY <1>1, <2>1, TunnelAlone DEF Tunnel!Inv
  <2>2. CASE v8[p] = "tunnel" /\ v8[q] = "tunnel"
    BY <1>1, <1>3, <2>2
  <2>3. ASSUME NEW a \in Own, NEW b \in Own, v8[a] = "starting", v8[b] = "tunnel"
        PROVE  FALSE
    BY <1>1, <1>3, <2>3 DEF Tunnel!Inv, Tunnel!FileInv
  <2> QED
    BY <1>1, <2>1, <2>2, <2>3
<1> QED
  BY <1>2, <1>3 DEF Own, Tunnel!Inv, Tunnel!TunnelsAreWhole, Tunnel!OneTunnel, Tunnel!UpIsNamed,
     Tunnel!OnlyTunnelsAreSignalled

\* A step of the whole is one of the component, or of another scene.
LEMMA TunnelScene ==
  ASSUME [Next]_vars
  PROVE  /\ scene' = scene
         /\ scene = "tunnel" => [Tunnel!Next]_(Tunnel!vars)
BY DEF Next, vars, Tunnel!vars

\* The invariant of the component is one of the whole.
LEMMA TunnelAlways == Spec => [](scene = "tunnel" => Tunnel!Inv)
<1>1. Init => (scene = "tunnel" => Tunnel!Inv)
  BY TunnelBegins, CommandsConstants DEF CommandsConstants, Init, Begin
<1>2. (scene = "tunnel" => Tunnel!Inv) /\ [Next]_vars => (scene = "tunnel" => Tunnel!Inv)'
  BY TunnelScene, TunnelStep, CommandsConstants DEF CommandsConstants
<1> QED
  BY <1>1, <1>2, PTL DEF Spec

\* From however many terminals a tunnel is started and stopped, whichever commands
\* are interrupted or killed and whichever tunnels die: only tunnels are signalled;
\* and of the processes whose command was not killed under them, one is up at a
\* time and can be stopped, as long as none that was slow took the file of another.
\* (Start, Stop, running, interruptContext)
THEOREM OneTunnelIsUp == Spec => []TunnelsAreWhole
<1>1. (scene = "tunnel" => Tunnel!Inv) => TunnelsAreWhole
  BY TunnelKeeps, CommandsConstants DEF CommandsConstants, TunnelsAreWhole
<1> QED
  BY <1>1, TunnelAlways, PTL

(***************************************************************************)
(* The nodes of Slurm.  A word that passes the check reads as itself       *)
(* (CheckedInv), so an update reaches what was named; a job is on a node   *)
(* that was checked only when it started since (SeenInv); and a node is as *)
(* the desk that changed it last wanted it (TouchedInv), whatever happens  *)
(* between the desks.                                                      *)
(*                                                                         *)
(* The registers: v1 job, v2 drained, v3 reason, v4 maint, v5 off, v6 pc,  *)
(* v7 cmd, v8 jobs, v9 result, v10 fresh, v11 touched, v12 changed, v13    *)
(* lost, v14 turns.                                                        *)
(***************************************************************************)
\* What is assumed of the constants.
LEMMA SlurmAsked ==
  /\ Slurm!NoReason \notin OfSlurm.Reasons /\ Slurm!Nobody \notin OfSlurm.Desks
  /\ Slurm!Hand \notin OfSlurm.Desks
  /\ \A w \in OfSlurm.Nodes \cup OfSlurm.Words : OfSlurm.Reads[w] \subseteq OfSlurm.Nodes
  /\ \A d \in OfSlurm.Desks : \A c \in OfSlurm.Asked[d] :
       \/ c.verb = "drain" /\ c.named \subseteq OfSlurm.Nodes \cup OfSlurm.Words
          /\ c.why \in OfSlurm.Reasons
       \/ c.verb = "resume" /\ c.named \subseteq OfSlurm.Nodes \cup OfSlurm.Words
          /\ c.why = Slurm!NoReason
       \/ c.verb = "power" /\ c.named \subseteq OfSlurm.Nodes
BY CommandsConstants DEF CommandsConstants, Slurm!SlurmConstants

\* What the parts of the state that sinfo prints say together.
LEMMA SlurmStates ==
  ASSUME NEW n \in OfSlurm.Nodes
  PROVE  /\ v5[n] => Slurm!State(n) = "down"
         /\ ~v5[n] /\ v2[n] => Slurm!State(n) \in {"drained", "draining"}
         /\ ~v5[n] /\ v2[n] /\ v1[n] # "none" => Slurm!State(n) = "draining"
         /\ ~v5[n] /\ ~v2[n] => Slurm!State(n) \in {"allocated", "maint", "completing", "idle"}
         /\ ~v5[n] /\ ~v2[n] /\ v1[n] \in {"running", "completing"} => Slurm!State(n) # "idle"
  BY Zenon DEF Slurm!State

\* A node that counts as free of jobs runs none.
LEMMA SlurmIdle ==
  ASSUME Slurm!TypeOK, Slurm!PowerInv, NEW n \in OfSlurm.Nodes,
         Slurm!classifyState(Slurm!State(n)) = "idle"
  PROVE  v1[n] = "none"
<1>1. Slurm!State(n) \in Slurm!IdleStates
  BY DEF Slurm!classifyState
<1>2. Slurm!State(n) \notin {"draining", "allocated", "maint", "completing"}
  BY <1>1 DEF Slurm!IdleStates
<1>3. v1[n] \in {"none", "running", "completing"}
  BY DEF Slurm!TypeOK
<1> QED
  BY <1>2, <1>3, SlurmStates DEF Slurm!PowerInv

\* The invariant holds before anything is typed.
LEMMA SlurmBegins == Slurm!Init => Slurm!Inv
<1> SUFFICES ASSUME Slurm!Init PROVE Slurm!Inv
  OBVIOUS
<1>1. Slurm!TypeOK
  BY DEF Slurm!Init, Slurm!TypeOK
<1>2. Slurm!Values
  BY DEF Slurm!Init, Slurm!Values, Slurm!NoResult
<1>3. Slurm!PowerInv /\ Slurm!CheckedInv /\ Slurm!SeenInv /\ Slurm!QuietInv
  BY DEF Slurm!Init, Slurm!PowerInv, Slurm!CheckedInv, Slurm!SeenInv, Slurm!QuietInv
<1>4. Slurm!TouchedInv
  BY SlurmAsked DEF Slurm!Init, Slurm!TouchedInv
<1>5. Slurm!JobsAreSeen /\ Slurm!OnlyNamedChange /\ Slurm!ReadBackIsTrue
  BY DEF Slurm!Init, Slurm!JobsAreSeen, Slurm!OnlyNamedChange, Slurm!ReadBackIsTrue
<1> QED
  BY <1>1, <1>2, <1>3, <1>4, <1>5 DEF Slurm!Inv

\* A job starts.
LEMMA SlurmJobStarts ==
  ASSUME Slurm!Inv, NEW n \in OfSlurm.Nodes, Slurm!JobStarts(n)
  PROVE  Slurm!Inv'
<1> USE DEF Slurm!JobStarts, Slurm!Apart, Slurm!Inv
<1>1. Slurm!TypeOK'
  BY DEF Slurm!TypeOK
<1>2. Slurm!Values'
  BY DEF Slurm!Values
<1>3. Slurm!PowerInv' /\ Slurm!CheckedInv' /\ Slurm!SeenInv' /\ Slurm!QuietInv'
  BY DEF Slurm!PowerInv, Slurm!CheckedInv, Slurm!SeenInv, Slurm!QuietInv, Slurm!Values, Slurm!TypeOK
<1>4. Slurm!TouchedInv'
  BY DEF Slurm!TouchedInv
<1>5. Slurm!JobsAreSeen' /\ Slurm!OnlyNamedChange' /\ Slurm!ReadBackIsTrue'
  BY DEF Slurm!JobsAreSeen, Slurm!OnlyNamedChange, Slurm!ReadBackIsTrue, Slurm!Values
<1> QED
  BY <1>1, <1>2, <1>3, <1>4, <1>5

\* A job goes, or a node is put into a reservation.
LEMMA SlurmJobGoes ==
  ASSUME Slurm!Inv, NEW n \in OfSlurm.Nodes, Slurm!JobGoes(n) \/ Slurm!Maintenance(n)
  PROVE  Slurm!Inv'
<1> USE DEF Slurm!JobGoes, Slurm!Maintenance, Slurm!Apart, Slurm!Inv, Slurm!history
<1>1. Slurm!TypeOK'
  BY DEF Slurm!TypeOK
<1>2. Slurm!Values'
  BY DEF Slurm!Values
<1>3. \A m \in OfSlurm.Nodes : v1[m] = "none" => v1'[m] = "none"
  BY DEF Slurm!TypeOK
<1>6. Slurm!PowerInv' /\ Slurm!CheckedInv' /\ Slurm!QuietInv'
  BY <1>3 DEF Slurm!PowerInv, Slurm!CheckedInv, Slurm!QuietInv
<1>7. Slurm!SeenInv'
  <2> SUFFICES ASSUME NEW d \in OfSlurm.Desks, v6[d] \in {"confirm", "cut"}, v7[d].verb = "power",
                      ~v7[d].loseJobs, NEW m \in v7[d].named, v1'[m] # "none"
               PROVE  m \in v10[d]
    BY DEF Slurm!SeenInv
  <2>1. v7[d] \in OfSlurm.Asked[d]
    BY DEF Slurm!Values
  <2>2. m \in OfSlurm.Nodes
    BY <2>1, SlurmAsked
  <2> QED
    BY <1>3, <2>2 DEF Slurm!SeenInv
<1>4. Slurm!TouchedInv'
  BY DEF Slurm!TouchedInv
<1>5. Slurm!JobsAreSeen' /\ Slurm!OnlyNamedChange' /\ Slurm!ReadBackIsTrue'
  BY DEF Slurm!JobsAreSeen, Slurm!OnlyNamedChange, Slurm!ReadBackIsTrue, Slurm!Values
<1> QED
  BY <1>1, <1>2, <1>4, <1>5, <1>6, <1>7

\* Somebody else drains or resumes a node.
LEMMA SlurmByHand ==
  ASSUME Slurm!Inv, NEW n \in OfSlurm.Nodes, Slurm!ByHand(n)
  PROVE  Slurm!Inv'
<1> USE DEF Slurm!ByHand, Slurm!Apart, Slurm!Inv
<1>1. Slurm!TypeOK'
  BY SlurmAsked DEF Slurm!TypeOK, Slurm!Values
<1>2. Slurm!Values'
  <2>1. v2' \in [OfSlurm.Nodes -> BOOLEAN]
    BY DEF Slurm!Values
  <2>2. v3' \in [OfSlurm.Nodes -> OfSlurm.Reasons \cup {Slurm!NoReason}]
    BY DEF Slurm!Values
  <2>3. v11' \in [OfSlurm.Nodes -> OfSlurm.Desks \cup {Slurm!Nobody, Slurm!Hand}]
    BY DEF Slurm!Values
  <2> QED
    BY <2>1, <2>2, <2>3 DEF Slurm!Values
<1>3. Slurm!PowerInv' /\ Slurm!CheckedInv' /\ Slurm!SeenInv' /\ Slurm!QuietInv'
  BY DEF Slurm!PowerInv, Slurm!CheckedInv, Slurm!SeenInv, Slurm!QuietInv
<1>4. Slurm!TouchedInv'
  BY SlurmAsked DEF Slurm!TouchedInv, Slurm!Values
<1>5. Slurm!JobsAreSeen' /\ Slurm!OnlyNamedChange'
  BY DEF Slurm!JobsAreSeen, Slurm!OnlyNamedChange
<1>6. Slurm!ReadBackIsTrue'
  <2>1. /\ \A m \in OfSlurm.Nodes : m # n => v11'[m] = v11[m] /\ v3'[m] = v3[m]
        /\ v11'[n] = Slurm!Hand /\ Slurm!Hand # Slurm!Nobody
    BY DEF Slurm!Values, Slurm!Hand, Slurm!Nobody
  <2>2. \A d \in OfSlurm.Desks : v9[d].what = "failed_read_back"
        => v9[d].done \subseteq OfSlurm.Nodes
    BY DEF Slurm!Values
  <2>7. \A d \in OfSlurm.Desks : v12[d] \subseteq OfSlurm.Nodes
    BY DEF Slurm!Values
  <2>3. v6' = v6 /\ v7' = v7 /\ v9' = v9 /\ v12' = v12 /\ v5' = v5
    OBVIOUS
  <2>4. Slurm!ReadBackIsTrue
    OBVIOUS
  <2> HIDE DEF Slurm!ByHand, Slurm!Apart, Slurm!Inv
  <2> SUFFICES ASSUME NEW d \in OfSlurm.Desks, v6[d] = "over", v9[d].what = "failed_read_back"
               PROVE  /\ \A m \in v9[d].done :
                           v7[d].verb = "drain" /\ v11'[m] = Slurm!Nobody => v3'[m] = v7[d].why
                      /\ \A m \in v12[d] : v11'[m] = d /\ ~v5[m] => m \in v9[d].done
    BY <2>3 DEF Slurm!ReadBackIsTrue
  <2>5. ASSUME NEW m \in v9[d].done, v7[d].verb = "drain", v11'[m] = Slurm!Nobody
        PROVE  v3'[m] = v7[d].why
    <3>1. m \in OfSlurm.Nodes
      BY <2>2, <2>5
    <3>2. m # n
      BY <2>1, <2>5
    <3>3. v11[m] = Slurm!Nobody /\ v3'[m] = v3[m]
      BY <2>1, <2>5, <3>1, <3>2
    <3>4. v3[m] = v7[d].why
      BY <2>4, <2>5, <3>3 DEF Slurm!ReadBackIsTrue
    <3> QED
      BY <3>3, <3>4
  <2>6. ASSUME NEW m \in v12[d], v11'[m] = d, ~v5[m]
        PROVE  m \in v9[d].done
    <3>1. m \in OfSlurm.Nodes
      BY <2>7, <2>6
    <3>2. m # n
      BY <2>1, <2>6, SlurmAsked
    <3>3. v11[m] = d
      BY <2>1, <2>6, <3>1, <3>2
    <3> QED
      BY <2>4, <2>6, <3>3 DEF Slurm!ReadBackIsTrue
  <2> QED
    BY <2>5, <2>6
<1> QED
  BY <1>1, <1>2, <1>3, <1>4, <1>5, <1>6

\* A step of a desk that leaves the nodes and the history alone: what holds of the
\* other desks goes on to hold.
SlurmOfDesk(d) ==
  /\ v6' \in [OfSlurm.Desks -> {"idle", "check", "confirm", "update", "read_back", "cut", "over"}]
  /\ DOMAIN v7' = OfSlurm.Desks /\ DOMAIN v8' = OfSlurm.Desks /\ DOMAIN v9' = OfSlurm.Desks
  /\ \A e \in OfSlurm.Desks : e # d => /\ v6'[e] = v6[e] /\ v7'[e] = v7[e]
                                       /\ v8'[e] = v8[e] /\ v9'[e] = v9[e]
  /\ v7'[d] \in OfSlurm.Asked[d] /\ DOMAIN v8'[d] \subseteq OfSlurm.Nodes

\* What the desk itself must hold.
SlurmDeskHolds(d) ==
  /\ \/ v6[d] \in {"update", "read_back"}
     \/ v6[d] = "confirm" /\ v7[d].verb # "power"
     => v7[d].verb # "power" /\ Slurm!CheckedNodes(v7[d].named)
  /\ v6[d] = "cut" => v7[d].verb = "power"
  /\ v6[d] \in {"confirm", "cut"} /\ v7[d].verb = "power" /\ ~v7[d].loseJobs =>
       \A n \in v7[d].named : v1[n] # "none" => n \in v10[d]
  /\ v6[d] \in {"idle", "check", "confirm"} => v12[d] = {}
  /\ v6[d] \notin {"cut", "over"} => v13[d] = {}
  /\ \A n \in OfSlurm.Nodes : v11[n] = d =>
       n \in v12[d] /\ v3[n] = v7[d].why /\ (v2[n] <=> v7[d].verb = "drain")
  /\ ~v7[d].loseJobs => v13[d] \subseteq v10[d]
  /\ v12[d] \subseteq v7[d].named
  /\ v9[d].what = "failed_read_back" => v9[d].done \subseteq OfSlurm.Nodes
  /\ v6[d] = "over" /\ v9[d].what = "failed_read_back" =>
       /\ \A n \in v9[d].done :
            v7[d].verb = "drain" /\ v11[n] = Slurm!Nobody => v3[n] = v7[d].why
       /\ \A n \in v12[d] : v11[n] = d /\ ~v5[n] => n \in v9[d].done

LEMMA SlurmDeskOnly ==
  ASSUME Slurm!Inv, NEW d \in OfSlurm.Desks, SlurmOfDesk(d), SlurmDeskHolds(d)',
         UNCHANGED Slurm!node,
         v11' = v11, v12' = v12, v13' = v13,
         v10' \in [OfSlurm.Desks -> SUBSET OfSlurm.Nodes],
           \A e \in OfSlurm.Desks : e # d => v10'[e] = v10[e]
  PROVE  Slurm!Inv'
<1>0. /\ Slurm!TypeOK /\ Slurm!Values /\ Slurm!PowerInv /\ Slurm!CheckedInv /\ Slurm!SeenInv
      /\ Slurm!QuietInv /\ Slurm!TouchedInv
      /\ Slurm!JobsAreSeen /\ Slurm!OnlyNamedChange /\ Slurm!ReadBackIsTrue
  BY DEF Slurm!Inv
<1>1. Slurm!TypeOK'
  BY <1>0 DEF Slurm!TypeOK, SlurmOfDesk, Slurm!node
<1>2. Slurm!Values'
  <2>1. \A e \in OfSlurm.Desks : v9'[e].what = "failed_read_back"
        => v9'[e].done \subseteq OfSlurm.Nodes
    BY <1>0 DEF Slurm!Values, SlurmOfDesk, SlurmDeskHolds
  <2> QED
    BY <1>0, <2>1 DEF Slurm!Values, SlurmOfDesk, Slurm!node
<1>3. Slurm!PowerInv' 
  BY <1>0 DEF Slurm!PowerInv, Slurm!node
<1>4. Slurm!CheckedInv'
  BY <1>0 DEF Slurm!CheckedInv, SlurmOfDesk, SlurmDeskHolds
<1>5. Slurm!SeenInv'
  BY <1>0 DEF Slurm!SeenInv, SlurmOfDesk, SlurmDeskHolds, Slurm!node
<1>6. Slurm!QuietInv'
  BY <1>0 DEF Slurm!QuietInv, SlurmOfDesk, SlurmDeskHolds
<1>7. Slurm!TouchedInv'
  BY <1>0 DEF Slurm!TouchedInv, SlurmOfDesk, SlurmDeskHolds, Slurm!node
<1>8. Slurm!JobsAreSeen' /\ Slurm!OnlyNamedChange'
  BY <1>0 DEF Slurm!JobsAreSeen, Slurm!OnlyNamedChange, SlurmOfDesk, SlurmDeskHolds
<1>9. Slurm!ReadBackIsTrue'
  <2> SUFFICES ASSUME NEW e \in OfSlurm.Desks, e # d, v6[e] = "over",
                      v9[e].what = "failed_read_back"
               PROVE  /\ \A m \in v9[e].done :
                           v7[e].verb = "drain" /\ v11[m] = Slurm!Nobody => v3[m] = v7[e].why
                      /\ \A m \in v12[e] : v11[m] = e /\ ~v5[m] => m \in v9[e].done
    BY DEF Slurm!ReadBackIsTrue, SlurmOfDesk, SlurmDeskHolds, Slurm!node
  <2> QED
    BY <1>0 DEF Slurm!ReadBackIsTrue
<1> QED
  BY <1>1, <1>2, <1>3, <1>4, <1>5, <1>6, <1>7, <1>8, <1>9 DEF Slurm!Inv

\* A command is typed.
LEMMA SlurmType ==
  ASSUME Slurm!Inv, NEW d \in OfSlurm.Desks, Slurm!Type(d)
  PROVE  Slurm!Inv'
<1>1. PICK c \in OfSlurm.Asked[d] : v7' = [v7 EXCEPT ![d] = c]
  BY DEF Slurm!Type
<1>2. /\ v6[d] = "idle" /\ v6' = [v6 EXCEPT ![d] = "check"] /\ v9' = v9 /\ v8' = v8
      /\ v10' = v10 /\ v12' = v12 /\ v13' = v13 /\ v11' = v11
      /\ UNCHANGED Slurm!node
  BY DEF Slurm!Type, Slurm!Go, Slurm!history
<1>3. SlurmOfDesk(d)
  BY <1>1, <1>2 DEF SlurmOfDesk, Slurm!Inv, Slurm!TypeOK, Slurm!Values
<1>4. v12[d] = {} /\ v13[d] = {} /\ v6'[d] = "check"
  BY <1>2 DEF Slurm!Inv, Slurm!QuietInv, Slurm!TypeOK
<1>5. \A n \in OfSlurm.Nodes : v11[n] # d
  BY <1>4 DEF Slurm!Inv, Slurm!TouchedInv
<1>6. v9[d].what = "failed_read_back" => v9[d].done \subseteq OfSlurm.Nodes
  BY DEF Slurm!Inv, Slurm!Values
<1>7. SlurmDeskHolds(d)'
  BY <1>2, <1>4, <1>5, <1>6 DEF SlurmDeskHolds
<1> QED
  BY <1>2, <1>3, <1>7, SlurmDeskOnly DEF Slurm!Inv, Slurm!Values

\* What every desk holds.
LEMMA SlurmHolds ==
  ASSUME Slurm!Inv, NEW d \in OfSlurm.Desks
  PROVE  SlurmDeskHolds(d)
<1>1. Slurm!CheckedInv /\ Slurm!SeenInv /\ Slurm!QuietInv /\ Slurm!TouchedInv
  BY DEF Slurm!Inv
<1>2. Slurm!JobsAreSeen /\ Slurm!OnlyNamedChange /\ Slurm!ReadBackIsTrue
  BY DEF Slurm!Inv
<1>3. v9[d].what = "failed_read_back" => v9[d].done \subseteq OfSlurm.Nodes
  BY DEF Slurm!Inv, Slurm!Values
<1> QED
  BY <1>1, <1>2, <1>3 DEF SlurmDeskHolds, Slurm!CheckedInv, Slurm!SeenInv, Slurm!QuietInv,
     Slurm!TouchedInv, Slurm!JobsAreSeen,
     Slurm!OnlyNamedChange, Slurm!ReadBackIsTrue

\* A step of a desk from its check to its question, to the work or to the end, that
\* leaves the nodes and what was changed alone.
LEMMA SlurmGoesOn ==
  ASSUME Slurm!Inv, NEW d \in OfSlurm.Desks, UNCHANGED Slurm!node, UNCHANGED <<v7, v11, v12, v13>>,
         v10' \in [OfSlurm.Desks -> SUBSET OfSlurm.Nodes],
           \A e \in OfSlurm.Desks : e # d => v10'[e] = v10[e],
         v6[d] # "idle",
         NEW at \in {"confirm", "update", "cut", "over"}, Slurm!Go(d, at),
         DOMAIN v8' = OfSlurm.Desks, \A e \in OfSlurm.Desks : e # d => v8'[e] = v8[e],
         DOMAIN v8'[d] \subseteq OfSlurm.Nodes,
         DOMAIN v9' = OfSlurm.Desks, \A e \in OfSlurm.Desks : e # d => v9'[e] = v9[e],
         SlurmDeskHolds(d)'
  PROVE  Slurm!Inv'
<1>1. v7[d] \in OfSlurm.Asked[d]
  BY DEF Slurm!Inv, Slurm!Values
<1>2. v6' = [v6 EXCEPT ![d] = at] /\ v7' = v7
  BY DEF Slurm!Go
<1>3. SlurmOfDesk(d)
  BY <1>1, <1>2 DEF SlurmOfDesk, Slurm!Inv, Slurm!TypeOK, Slurm!Values
<1> QED
  BY <1>3, SlurmDeskOnly

\* The end of a command that has changed nothing.
LEMMA SlurmOver ==
  ASSUME Slurm!Inv, NEW d \in OfSlurm.Desks, UNCHANGED <<Slurm!node, v7, v8, Slurm!history>>,
         v6[d] # "idle", NEW r, r.what # "failed_read_back", Slurm!Over(d, r)
  PROVE  Slurm!Inv'
<1>1. /\ v6' = [v6 EXCEPT ![d] = "over"] /\ v9' = [v9 EXCEPT ![d] = r]
      /\ Slurm!Go(d, "over") /\ v7' = v7 /\ v8' = v8 /\ v10' = v10 /\ v11' = v11
      /\ v12' = v12 /\ v13' = v13
  BY DEF Slurm!Over, Slurm!Go, Slurm!history
<1>2. v10 \in [OfSlurm.Desks -> SUBSET OfSlurm.Nodes] /\ DOMAIN v8 = OfSlurm.Desks
      /\ DOMAIN v9 = OfSlurm.Desks
  BY DEF Slurm!Inv, Slurm!Values
<1>3. DOMAIN v8[d] \subseteq OfSlurm.Nodes /\ DOMAIN v6 = OfSlurm.Desks
  BY DEF Slurm!Inv, Slurm!TypeOK
<1>4. v6'[d] = "over" /\ v9'[d].what # "failed_read_back"
  BY <1>1, <1>2, <1>3
<1>5. SlurmDeskHolds(d)'
  BY <1>1, <1>4, SlurmHolds DEF SlurmDeskHolds, Slurm!node
<1> QED
  BY <1>1, <1>2, <1>3, <1>5, SlurmGoesOn

\* The words of a drain or a resume are checked.
LEMMA SlurmCheckNodes ==
  ASSUME Slurm!Inv, NEW d \in OfSlurm.Desks, Slurm!CheckNodes(d)
  PROVE  Slurm!Inv'
<1>1. CASE ~Slurm!CheckedNodes(v7[d].named)
  <2>1. Slurm!Over(d, Slurm!Said("refused", {}))
        /\ Slurm!Said("refused", {}).what # "failed_read_back"
    BY <1>1 DEF Slurm!CheckNodes, Slurm!Said
  <2> QED
    BY <2>1, SlurmOver DEF Slurm!CheckNodes
<1>2. CASE Slurm!CheckedNodes(v7[d].named)
  <2>1. /\ Slurm!Go(d, "confirm") /\ v9' = v9 /\ v7' = v7 /\ v8' = v8 /\ v10' = v10
        /\ v11' = v11 /\ v12' = v12 /\ v13' = v13 /\ UNCHANGED Slurm!node
        /\ v6[d] = "check" /\ v7[d].verb # "power"
    BY <1>2 DEF Slurm!CheckNodes, Slurm!history
  <2>2. v10 \in [OfSlurm.Desks -> SUBSET OfSlurm.Nodes] /\ DOMAIN v8 = OfSlurm.Desks
        /\ DOMAIN v9 = OfSlurm.Desks
    BY DEF Slurm!Inv, Slurm!Values
  <2>3. DOMAIN v8[d] \subseteq OfSlurm.Nodes /\ DOMAIN v6 = OfSlurm.Desks
    BY DEF Slurm!Inv, Slurm!TypeOK
  <2>4. v6'[d] = "confirm"
    BY <2>1, <2>3 DEF Slurm!Go
  <2>5. SlurmDeskHolds(d)'
    BY <1>2, <2>1, <2>4, SlurmHolds DEF SlurmDeskHolds, Slurm!node
  <2> QED
    BY <2>1, <2>2, <2>3, <2>5, SlurmGoesOn
<1> QED
  BY <1>1, <1>2

\* Slurm cannot be asked.
LEMMA SlurmNotChecked ==
  ASSUME Slurm!Inv, NEW d \in OfSlurm.Desks, Slurm!NotChecked(d)
  PROVE  Slurm!Inv'
<1>1. Slurm!Over(d, Slurm!Said("not_asked", {}))
      /\ Slurm!Said("not_asked", {}).what # "failed_read_back"
  BY DEF Slurm!NotChecked, Slurm!Said
<1> QED
  BY <1>1, SlurmOver DEF Slurm!NotChecked

\* Slurm is asked for the jobs of the nodes.
LEMMA SlurmAsksForJobs ==
  ASSUME Slurm!Inv, NEW d \in OfSlurm.Desks, Slurm!checkSlurmIdle(d)
  PROVE  Slurm!Inv'
<1> DEFINE seen == Slurm!JobCheck(v7[d].named)
<1>1. /\ v7' = v7 /\ v11' = v11 /\ v12' = v12 /\ v13' = v13 /\ UNCHANGED Slurm!node
      /\ v6[d] = "check" /\ v7[d].verb = "power" /\ v10' = [v10 EXCEPT ![d] = {}]
      /\ v8' = [v8 EXCEPT ![d] = seen]
  BY DEF Slurm!checkSlurmIdle
<1>2. /\ v10 \in [OfSlurm.Desks -> SUBSET OfSlurm.Nodes] /\ DOMAIN v8 = OfSlurm.Desks
      /\ DOMAIN v9 = OfSlurm.Desks
      /\ v7[d] \in OfSlurm.Asked[d]
  BY <1>1 DEF Slurm!Inv, Slurm!Values
<1>3. v7[d].named \subseteq OfSlurm.Nodes
  BY <1>1, <1>2, SlurmAsked
<1>4. DOMAIN v8'[d] \subseteq OfSlurm.Nodes /\ DOMAIN v6 = OfSlurm.Desks
  BY <1>1, <1>2, <1>3 DEF Slurm!Inv, Slurm!TypeOK, Slurm!JobCheck
<1>5. v10' \in [OfSlurm.Desks -> SUBSET OfSlurm.Nodes] /\ DOMAIN v8' = OfSlurm.Desks /\ v10'[d] = {}
  BY <1>1, <1>2
<1>6. v13[d] = {} /\ v12[d] = {}
  BY <1>1 DEF Slurm!Inv, Slurm!QuietInv
<1>7. CASE Slurm!Go(d, "confirm") /\ v9' = v9 /\ (v7[d].loseJobs \/ Slurm!Idle(seen))
  <2>1. v6'[d] = "confirm"
    BY <1>4, <1>7 DEF Slurm!Go
  <2>2. ~v7[d].loseJobs => \A n \in v7[d].named : v1[n] = "none"
    <3> SUFFICES ASSUME ~v7[d].loseJobs, NEW n \in v7[d].named
                 PROVE  v1[n] = "none"
      OBVIOUS
    <3>1. seen[n] = "idle"
      BY <1>7 DEF Slurm!Idle, Slurm!JobCheck
    <3>2. Slurm!classifyState(Slurm!State(n)) = "idle"
      BY <3>1 DEF Slurm!JobCheck
    <3> QED
      BY <1>3, <3>2, SlurmIdle DEF Slurm!Inv
  <2>3. SlurmDeskHolds(d)'
    BY <1>1, <1>5, <1>6, <1>7, <2>1, <2>2, SlurmHolds DEF SlurmDeskHolds, Slurm!node
  <2> QED
    BY <1>1, <1>2, <1>4, <1>5, <1>7, <2>3, SlurmGoesOn
<1>8. CASE Slurm!Over(d, Slurm!Said("refused", {}))
  <2>1. v6'[d] = "over" /\ v9'[d].what = "refused" /\ DOMAIN v9' = OfSlurm.Desks
        /\ (\A e \in OfSlurm.Desks : e # d => v9'[e] = v9[e]) /\ Slurm!Go(d, "over")
    BY <1>2, <1>4, <1>8 DEF Slurm!Go, Slurm!Over, Slurm!Said
  <2>3. SlurmDeskHolds(d)'
    BY <1>1, <1>5, <1>6, <2>1, SlurmHolds DEF SlurmDeskHolds, Slurm!node
  <2> QED
    BY <1>1, <1>2, <1>4, <1>5, <2>1, <2>3, SlurmGoesOn
<1> QED
  BY <1>7, <1>8 DEF Slurm!checkSlurmIdle

\* Slurm cannot be asked, and the command may lose jobs.
LEMMA SlurmCheckSkipped ==
  ASSUME Slurm!Inv, NEW d \in OfSlurm.Desks, Slurm!CheckSkipped(d)
  PROVE  Slurm!Inv'
<1>1. /\ v7' = v7 /\ v11' = v11 /\ v12' = v12 /\ v13' = v13 /\ UNCHANGED Slurm!node
      /\ v6[d] = "check" /\ v7[d].verb = "power" /\ v10' = [v10 EXCEPT ![d] = {}]
      /\ v8' = v8 /\ v9' = v9 /\ Slurm!Go(d, "confirm") /\ v7[d].loseJobs
  BY DEF Slurm!CheckSkipped
<1>2. /\ v10 \in [OfSlurm.Desks -> SUBSET OfSlurm.Nodes] /\ DOMAIN v8 = OfSlurm.Desks
      /\ DOMAIN v9 = OfSlurm.Desks
  BY DEF Slurm!Inv, Slurm!Values
<1>3. DOMAIN v8[d] \subseteq OfSlurm.Nodes /\ DOMAIN v6 = OfSlurm.Desks
  BY DEF Slurm!Inv, Slurm!TypeOK
<1>4. v6'[d] = "confirm" /\ v10' \in [OfSlurm.Desks -> SUBSET OfSlurm.Nodes]
  BY <1>1, <1>2, <1>3 DEF Slurm!Go
<1>5. SlurmDeskHolds(d)'
  BY <1>1, <1>4, SlurmHolds DEF SlurmDeskHolds, Slurm!node
<1> QED
  BY <1>1, <1>2, <1>3, <1>4, <1>5, SlurmGoesOn

\* The question is answered.
LEMMA SlurmConfirm ==
  ASSUME Slurm!Inv, NEW d \in OfSlurm.Desks, Slurm!Confirm(d)
  PROVE  Slurm!Inv'
<1>1. CASE Slurm!Over(d, Slurm!Said("declined", {}))
  BY <1>1, SlurmOver DEF Slurm!Confirm, Slurm!Said
<1>2. CASE Slurm!Go(d, IF v7[d].verb = "power" THEN "cut" ELSE "update") /\ v9' = v9
  <2> DEFINE at == IF v7[d].verb = "power" THEN "cut" ELSE "update"
  <2>1. /\ Slurm!Go(d, at) /\ v9' = v9 /\ v7' = v7 /\ v8' = v8 /\ v10' = v10
        /\ v11' = v11 /\ v12' = v12 /\ v13' = v13 /\ UNCHANGED Slurm!node
        /\ v6[d] = "confirm" /\ at \in {"confirm", "update", "cut", "over"}
    BY <1>2 DEF Slurm!Confirm, Slurm!history
  <2>2. v10 \in [OfSlurm.Desks -> SUBSET OfSlurm.Nodes] /\ DOMAIN v8 = OfSlurm.Desks
        /\ DOMAIN v9 = OfSlurm.Desks
    BY DEF Slurm!Inv, Slurm!Values
  <2>3. DOMAIN v8[d] \subseteq OfSlurm.Nodes /\ DOMAIN v6 = OfSlurm.Desks
    BY DEF Slurm!Inv, Slurm!TypeOK
  <2>4. v6'[d] = at
    BY <2>1, <2>3 DEF Slurm!Go
  <2>5. SlurmDeskHolds(d)'
    BY <2>1, <2>4, SlurmHolds DEF SlurmDeskHolds, Slurm!node
  <2> HIDE DEF at
  <2> QED
    BY <2>1, <2>2, <2>3, <2>5, SlurmGoesOn
<1> QED
  BY <1>1, <1>2 DEF Slurm!Confirm

\* The power is off on all of them.
LEMMA SlurmCutOver ==
  ASSUME Slurm!Inv, NEW d \in OfSlurm.Desks, Slurm!CutOver(d)
  PROVE  Slurm!Inv'
<1>1. Slurm!Over(d, Slurm!Said("ok", v7[d].named))
      /\ Slurm!Said("ok", v7[d].named).what # "failed_read_back"
  BY DEF Slurm!CutOver, Slurm!Said
<1> QED
  BY <1>1, SlurmOver DEF Slurm!CutOver

\* What a command that has passed the check names are nodes Slurm lists.
LEMMA SlurmNamed ==
  ASSUME Slurm!Inv, NEW d \in OfSlurm.Desks, v6[d] \in {"update", "read_back"}
  PROVE  /\ v7[d].named \subseteq OfSlurm.Nodes /\ Slurm!ReadAs(v7[d].named) = v7[d].named
         /\ \A n \in v7[d].named : Slurm!Listed(n)
         /\ v7[d].verb # "power" /\ v7[d].why \in OfSlurm.Reasons \cup {Slurm!NoReason}
<1>1. v7[d].verb # "power" /\ Slurm!CheckedNodes(v7[d].named)
  BY DEF Slurm!Inv, Slurm!CheckedInv
<1>2. v7[d] \in OfSlurm.Asked[d]
  BY DEF Slurm!Inv, Slurm!Values
<1>3. v7[d].named \subseteq OfSlurm.Nodes \cup OfSlurm.Words
      /\ v7[d].why \in OfSlurm.Reasons \cup {Slurm!NoReason}
  BY <1>1, <1>2, SlurmAsked
<1>4. Slurm!ReadAs(v7[d].named) \subseteq OfSlurm.Nodes
  BY <1>3, SlurmAsked DEF Slurm!ReadAs
<1> QED
  BY <1>1, <1>3, <1>4 DEF Slurm!CheckedNodes, Slurm!Listed

\* The nodes are read back after an update that failed.
LEMMA SlurmReadBack ==
  ASSUME Slurm!Inv, NEW d \in OfSlurm.Desks, Slurm!readBack(d)
  PROVE  Slurm!Inv'
<1> DEFINE done == {n \in v7[d].named : Slurm!Listed(n) /\ Slurm!Changed(d, n)}
<1>1. CASE Slurm!Over(d, Slurm!Said("failed_not_known", {}))
  BY <1>1, SlurmOver DEF Slurm!readBack, Slurm!Said
<1>2. CASE Slurm!Over(d, Slurm!Said("failed_read_back", done))
  <2>1. /\ v6[d] = "read_back" /\ UNCHANGED Slurm!node /\ v7' = v7 /\ v8' = v8 /\ v10' = v10
        /\ v11' = v11 /\ v12' = v12 /\ v13' = v13 /\ Slurm!Go(d, "over")
        /\ v9' = [v9 EXCEPT ![d] = Slurm!Said("failed_read_back", done)]
    BY <1>2 DEF Slurm!readBack, Slurm!history, Slurm!Over
  <2>2. v10 \in [OfSlurm.Desks -> SUBSET OfSlurm.Nodes] /\ DOMAIN v8 = OfSlurm.Desks
        /\ DOMAIN v9 = OfSlurm.Desks
    BY DEF Slurm!Inv, Slurm!Values
  <2>3. DOMAIN v8[d] \subseteq OfSlurm.Nodes /\ DOMAIN v6 = OfSlurm.Desks
    BY DEF Slurm!Inv, Slurm!TypeOK
  <2>4. v6'[d] = "over" /\ v9'[d].done = done /\ v9'[d].what = "failed_read_back"
    BY <2>1, <2>2, <2>3 DEF Slurm!Go, Slurm!Said
  <2>5. /\ v7[d].named \subseteq OfSlurm.Nodes /\ v7[d].verb # "power"
        /\ \A n \in v7[d].named : Slurm!Listed(n)
    BY <2>1, SlurmNamed
  <2>6. \A n \in done : v7[d].verb = "drain" => v3[n] = v7[d].why
    BY DEF Slurm!Changed, Slurm!DrainedWithReason
  <2>7. ASSUME NEW n \in v12[d], v11[n] = d, ~v5[n]
        PROVE  n \in done
    <3>1. n \in v7[d].named /\ n \in OfSlurm.Nodes
      BY <2>5 DEF Slurm!Inv, Slurm!OnlyNamedChange
    <3>2. v3[n] = v7[d].why /\ (v2[n] <=> v7[d].verb = "drain")
      BY <2>7, <3>1 DEF Slurm!Inv, Slurm!TouchedInv
    <3>3. v2[n] => Slurm!Drain(Slurm!State(n))
      BY <2>7, <3>1, SlurmStates DEF Slurm!Drain
    <3>4. ~v2[n] => ~Slurm!Drain(Slurm!State(n)) /\ Slurm!State(n) # "down"
      <4>1. ~v2[n] => Slurm!State(n) \in {"allocated", "maint", "completing", "idle"}
        BY <2>7, <3>1, SlurmStates
      <4> QED
        BY <4>1 DEF Slurm!Drain
    <3>5. Slurm!Changed(d, n)
      BY <3>2, <3>3, <3>4 DEF Slurm!Changed, Slurm!DrainedWithReason
    <3> QED
      BY <2>5, <3>1, <3>5
  <2>8. done \subseteq OfSlurm.Nodes
    BY <2>5
  <2> HIDE DEF done
  <2>9. SlurmDeskHolds(d)'
    BY <2>1, <2>4, <2>6, <2>7, <2>8, SlurmHolds DEF SlurmDeskHolds, Slurm!node
  <2> QED
    BY <2>1, <2>2, <2>3, <2>9, SlurmGoesOn, <1>2 DEF Slurm!Over
<1> QED
  BY <1>1, <1>2 DEF Slurm!readBack

\* Nodes are changed by a desk.
LEMMA SlurmApply ==
  ASSUME Slurm!Inv, NEW d \in OfSlurm.Desks, v6[d] = "update",
         NEW done \in SUBSET Slurm!ReadAs(v7[d].named),
         Slurm!Apply(d, done), UNCHANGED <<v1, v4, v5, v7, v8, v10, v13, v14>>,
         NEW at \in {"read_back", "over"}, Slurm!Go(d, at),
         DOMAIN v9' = OfSlurm.Desks, \A e \in OfSlurm.Desks : e # d => v9'[e] = v9[e],
         \/ v9'[d].what = "ok"
         \/ at = "read_back" /\ v9' = v9
  PROVE  Slurm!Inv'
<1>0. /\ Slurm!TypeOK /\ Slurm!Values /\ Slurm!PowerInv /\ Slurm!CheckedInv /\ Slurm!SeenInv
      /\ Slurm!QuietInv /\ Slurm!TouchedInv
      /\ Slurm!JobsAreSeen /\ Slurm!OnlyNamedChange /\ Slurm!ReadBackIsTrue
  BY DEF Slurm!Inv
<1>1. /\ v7[d].named \subseteq OfSlurm.Nodes /\ done \subseteq v7[d].named /\ v7[d].verb # "power"
      /\ v7[d].why \in OfSlurm.Reasons \cup {Slurm!NoReason}
  BY SlurmNamed
<1>2. /\ \A n \in OfSlurm.Nodes : n \in done => /\ v2'[n] <=> v7[d].verb = "drain"
                                                /\ v3'[n] = v7[d].why /\ v11'[n] = d
      /\ \A n \in OfSlurm.Nodes : n \notin done => /\ v2'[n] = v2[n]
                                                   /\ v3'[n] = v3[n] /\ v11'[n] = v11[n]
      /\ v12' = [v12 EXCEPT ![d] = @ \cup done]
  BY DEF Slurm!Apply
<1>3. /\ v1' = v1 /\ v4' = v4 /\ v5' = v5 /\ v7' = v7 /\ v8' = v8
      /\ v10' = v10 /\ v13' = v13
  OBVIOUS
<1>4. /\ v6'[d] = at /\ \A e \in OfSlurm.Desks : e # d => v6'[e] = v6[e]
      /\ v6' \in [OfSlurm.Desks -> {"idle", "check", "confirm", "update", "read_back", "cut",
         "over"}]
  BY <1>0 DEF Slurm!TypeOK, Slurm!Go
<1>5. /\ v12' \in [OfSlurm.Desks -> SUBSET OfSlurm.Nodes] /\ v12'[d] = v12[d] \cup done
      /\ \A e \in OfSlurm.Desks : e # d => v12'[e] = v12[e]
  BY <1>0, <1>1, <1>2 DEF Slurm!Values
<1>6. v7[d] \in OfSlurm.Asked[d]
  BY <1>0 DEF Slurm!Values
<1>7. Slurm!TypeOK'
  <2>1. \A n \in OfSlurm.Nodes : v3'[n] = Slurm!NoReason <=> ~v2'[n]
    <3>1. v7[d].why = Slurm!NoReason <=> v7[d].verb # "drain"
      BY <1>1, <1>6, SlurmAsked
    <3> QED
      BY <1>0, <1>2, <3>1 DEF Slurm!TypeOK
  <2> QED
    BY <1>0, <1>3, <1>4, <2>1 DEF Slurm!TypeOK
<1>8. Slurm!Values'
  <2>1. v2' \in [OfSlurm.Nodes -> BOOLEAN]
    BY <1>0 DEF Slurm!Values, Slurm!Apply
  <2>2. v3' \in [OfSlurm.Nodes -> OfSlurm.Reasons \cup {Slurm!NoReason}]
    BY <1>0, <1>1 DEF Slurm!Values, Slurm!Apply
  <2>3. v11' \in [OfSlurm.Nodes -> OfSlurm.Desks \cup {Slurm!Nobody, Slurm!Hand}]
    BY <1>0 DEF Slurm!Values, Slurm!Apply
  <2>4. \A e \in OfSlurm.Desks : v6'[e] # "idle" => v7[e] \in OfSlurm.Asked[e]
    BY <1>0, <1>4, <1>6 DEF Slurm!Values
  <2>5. \A e \in OfSlurm.Desks : v9'[e].what = "failed_read_back"
        => v9'[e].done \subseteq OfSlurm.Nodes
    BY <1>0 DEF Slurm!Values
  <2> QED
    BY <1>0, <1>3, <1>5, <2>1, <2>2, <2>3, <2>4, <2>5 DEF Slurm!Values
<1>9. Slurm!PowerInv'
  BY <1>0, <1>3 DEF Slurm!PowerInv
<1>10. Slurm!CheckedInv'
  BY <1>0, <1>3, <1>4 DEF Slurm!CheckedInv
<1>11. Slurm!SeenInv'
  BY <1>0, <1>3, <1>4 DEF Slurm!SeenInv
<1>12. Slurm!QuietInv'
  BY <1>0, <1>3, <1>4, <1>5 DEF Slurm!QuietInv
<1>13. Slurm!TouchedInv'
  <2> SUFFICES ASSUME NEW e \in OfSlurm.Desks, NEW n \in OfSlurm.Nodes, v11'[n] = e
               PROVE  /\ n \in v12'[e] /\ v3'[n] = v7[e].why
                      /\ v2'[n] <=> v7[e].verb = "drain"
    BY <1>3 DEF Slurm!TouchedInv
  <2>1. CASE n \in done
    BY <1>2, <1>5, <2>1
  <2>2. CASE n \notin done
    <3>1. v11[n] = e /\ v3'[n] = v3[n] /\ v2'[n] = v2[n]
      BY <1>2, <2>2
    <3>2. v12[e] \subseteq v12'[e]
      BY <1>5
    <3> QED
      BY <1>0, <3>1, <3>2 DEF Slurm!TouchedInv
  <2> QED
    BY <2>1, <2>2
<1>14. Slurm!JobsAreSeen'
  BY <1>0, <1>3 DEF Slurm!JobsAreSeen
<1>15. Slurm!OnlyNamedChange'
  BY <1>0, <1>1, <1>3, <1>5 DEF Slurm!OnlyNamedChange
<1>16. Slurm!ReadBackIsTrue'
  <2> SUFFICES ASSUME NEW e \in OfSlurm.Desks, v6'[e] = "over", v9'[e].what = "failed_read_back"
               PROVE  /\ \A n \in v9'[e].done :
                           v7[e].verb = "drain" /\ v11'[n] = Slurm!Nobody => v3'[n] = v7[e].why
                      /\ \A n \in v12'[e] : v11'[n] = e /\ ~v5[n] => n \in v9'[e].done
    BY <1>3 DEF Slurm!ReadBackIsTrue
  <2>1. e # d
    BY <1>4
  <2>2. v6[e] = "over" /\ v9'[e] = v9[e] /\ v12'[e] = v12[e]
    BY <1>4, <1>5, <2>1
  <2>3. v9[e].done \subseteq OfSlurm.Nodes /\ v12[e] \subseteq OfSlurm.Nodes
    BY <1>0, <2>2 DEF Slurm!Values
  <2>4. ASSUME NEW n \in v9[e].done, v7[e].verb = "drain", v11'[n] = Slurm!Nobody
        PROVE  v3'[n] = v7[e].why
    <3>1. n \in OfSlurm.Nodes /\ n \notin done
      BY <1>2, <2>3, <2>4, SlurmAsked
    <3>2. v11[n] = Slurm!Nobody /\ v3'[n] = v3[n]
      BY <1>2, <2>4, <3>1
    <3> QED
      BY <1>0, <2>2, <2>4, <3>2 DEF Slurm!ReadBackIsTrue
  <2>5. ASSUME NEW n \in v12[e], v11'[n] = e, ~v5[n]
        PROVE  n \in v9[e].done
    <3>1. n \in OfSlurm.Nodes /\ n \notin done
      BY <1>2, <2>1, <2>3, <2>5
    <3>2. v11[n] = e
      BY <1>2, <2>5, <3>1
    <3> QED
      BY <1>0, <2>2, <2>5, <3>2 DEF Slurm!ReadBackIsTrue
  <2> QED
    BY <2>2, <2>4, <2>5
<1> QED
  BY <1>7, <1>8, <1>9, <1>10, <1>11, <1>12, <1>13, <1>14, <1>15, <1>16 DEF Slurm!Inv

\* An update, whole or cut short.
LEMMA SlurmUpdate ==
  ASSUME Slurm!Inv, NEW d \in OfSlurm.Desks, Slurm!Update(d)
  PROVE  Slurm!Inv'
<1> DEFINE nodes == Slurm!ReadAs(v7[d].named)
<1>1. /\ v6[d] = "update" /\ UNCHANGED <<v1, v4, v5, v7, v8, v10, v13, v14>>
      /\ DOMAIN v9 = OfSlurm.Desks
  BY DEF Slurm!Update, Slurm!Inv, Slurm!Values
<1>2. CASE Slurm!Apply(d, nodes) /\ Slurm!Over(d, Slurm!Said("ok", v7[d].named))
  <2>1. /\ v9'[d].what = "ok" /\ DOMAIN v9' = OfSlurm.Desks /\ Slurm!Go(d, "over")
        /\ \A e \in OfSlurm.Desks : e # d => v9'[e] = v9[e]
    BY <1>1, <1>2 DEF Slurm!Over, Slurm!Said
  <2> QED
    BY <1>1, <1>2, <2>1, SlurmApply
<1>3. CASE \E done \in SUBSET nodes : Slurm!Apply(d, done) /\ Slurm!Go(d, "read_back")
           /\ UNCHANGED v9
  BY <1>1, <1>3, SlurmApply
<1> QED
  BY <1>2, <1>3 DEF Slurm!Update

\* A power action cuts a node.
LEMMA SlurmCut ==
  ASSUME Slurm!Inv, NEW d \in OfSlurm.Desks, NEW n \in OfSlurm.Nodes, Slurm!Cut(d, n)
  PROVE  Slurm!Inv'
<1>0. /\ Slurm!TypeOK /\ Slurm!Values /\ Slurm!PowerInv /\ Slurm!CheckedInv /\ Slurm!SeenInv
      /\ Slurm!QuietInv /\ Slurm!TouchedInv
      /\ Slurm!JobsAreSeen /\ Slurm!OnlyNamedChange /\ Slurm!ReadBackIsTrue
  BY DEF Slurm!Inv
<1>1. /\ v6[d] = "cut" /\ n \in v7[d].named /\ v5' = [v5 EXCEPT ![n] = TRUE]
      /\ v1' = [v1 EXCEPT ![n] = "none"] /\ v7[d].verb = "power"
      /\ v13' = IF v1[n] # "none" THEN [v13 EXCEPT ![d] = @ \cup {n}] ELSE v13
  BY <1>0 DEF Slurm!Cut, Slurm!CheckedInv
<1>2. /\ v2' = v2 /\ v3' = v3 /\ v4' = v4 /\ v6' = v6 /\ v7' = v7
      /\ v8' = v8 /\ v9' = v9 /\ v10' = v10 /\ v11' = v11
      /\ v12' = v12
  BY DEF Slurm!Cut
<1>3. \A m \in OfSlurm.Nodes : v1[m] = "none" => v1'[m] = "none"
  BY <1>0, <1>1 DEF Slurm!TypeOK
<1>4. /\ \A e \in OfSlurm.Desks : e # d => v13'[e] = v13[e]
      /\ v13'[d] \subseteq v13[d] \cup {n} /\ (v1[n] = "none" => v13'[d] = v13[d])
      /\ v13' \in [OfSlurm.Desks -> SUBSET OfSlurm.Nodes]
  BY <1>0, <1>1 DEF Slurm!Values
<1>5. v5' \in [OfSlurm.Nodes -> BOOLEAN] /\ v5'[n] /\ \A m \in OfSlurm.Nodes : m # n
      => v5'[m] = v5[m]
  BY <1>0, <1>1 DEF Slurm!Values
<1>6. Slurm!TypeOK'
  <2>1. v1' \in [OfSlurm.Nodes -> {"none", "running", "completing"}]
    BY <1>0, <1>1 DEF Slurm!TypeOK
  <2> QED
    BY <1>0, <1>2, <1>4, <2>1 DEF Slurm!TypeOK
<1>7. Slurm!Values'
  BY <1>0, <1>2, <1>4, <1>5 DEF Slurm!Values
<1>8. Slurm!PowerInv'
  BY <1>0, <1>1, <1>3, <1>5 DEF Slurm!PowerInv, Slurm!TypeOK
<1>9. Slurm!CheckedInv'
  BY <1>0, <1>2 DEF Slurm!CheckedInv
<1>10. Slurm!SeenInv'
  <2> SUFFICES ASSUME NEW e \in OfSlurm.Desks, v6[e] \in {"confirm", "cut"}, v7[e].verb = "power",
                      ~v7[e].loseJobs, NEW m \in v7[e].named, v1'[m] # "none"
               PROVE  m \in v10[e]
    BY <1>2 DEF Slurm!SeenInv
  <2>1. v7[e] \in OfSlurm.Asked[e]
    BY <1>0 DEF Slurm!Values
  <2>2. m \in OfSlurm.Nodes
    BY <2>1, SlurmAsked
  <2> QED
    BY <1>0, <1>3, <2>2 DEF Slurm!SeenInv
<1>11. Slurm!QuietInv'
  BY <1>0, <1>1, <1>2, <1>4 DEF Slurm!QuietInv
<1>12. Slurm!TouchedInv' /\ Slurm!OnlyNamedChange'
  BY <1>0, <1>2 DEF Slurm!TouchedInv, Slurm!OnlyNamedChange
<1>13. Slurm!JobsAreSeen'
  <2> SUFFICES ASSUME NEW e \in OfSlurm.Desks, ~v7[e].loseJobs
               PROVE  v13'[e] \subseteq v10[e]
    BY <1>2 DEF Slurm!JobsAreSeen
  <2>1. v13[e] \subseteq v10[e]
    BY <1>0 DEF Slurm!JobsAreSeen
  <2>2. CASE e = d /\ v1[n] # "none"
    BY <1>0, <1>1, <1>4, <2>1, <2>2 DEF Slurm!SeenInv
  <2>3. CASE e # d \/ v1[n] = "none"
    BY <1>4, <2>1, <2>3
  <2> QED
    BY <2>2, <2>3
<1>14. Slurm!ReadBackIsTrue'
  <2>1. \A m \in OfSlurm.Nodes : ~v5'[m] => ~v5[m]
    BY <1>5
  <2>2. \A e \in OfSlurm.Desks : v12[e] \subseteq OfSlurm.Nodes
    BY <1>0 DEF Slurm!Values
  <2> QED
    BY <1>0, <1>2, <2>1, <2>2 DEF Slurm!ReadBackIsTrue
<1> QED
  BY <1>6, <1>7, <1>8, <1>9, <1>10, <1>11, <1>12, <1>13, <1>14 DEF Slurm!Inv

\* Nothing moves.
LEMMA SlurmStays ==
  ASSUME Slurm!Inv, UNCHANGED Slurm!vars
  PROVE  Slurm!Inv'
<1>1. UNCHANGED <<v1, v2, v3, v4, v5, v6, v7, v8, v9>>
  BY DEF Slurm!vars
<1>2. UNCHANGED <<v10, v11, v12, v13>>
  BY DEF Slurm!vars
<1>3. Slurm!TypeOK' /\ Slurm!PowerInv' /\ Slurm!CheckedInv' /\ Slurm!SeenInv'
  BY <1>1, <1>2 DEF Slurm!Inv, Slurm!TypeOK, Slurm!PowerInv, Slurm!CheckedInv, Slurm!SeenInv
<1>4. Slurm!Values'
  BY <1>1, <1>2 DEF Slurm!Inv, Slurm!Values
<1>5. Slurm!QuietInv' /\ Slurm!TouchedInv' /\ Slurm!JobsAreSeen' /\ Slurm!OnlyNamedChange'
  BY <1>1, <1>2 DEF Slurm!Inv, Slurm!QuietInv, Slurm!TouchedInv, Slurm!JobsAreSeen,
     Slurm!OnlyNamedChange
<1>6. Slurm!ReadBackIsTrue'
  BY <1>1, <1>2 DEF Slurm!Inv, Slurm!ReadBackIsTrue
<1> QED
  BY <1>3, <1>4, <1>5, <1>6 DEF Slurm!Inv

\* Every step keeps the invariant.
LEMMA SlurmStep ==
  ASSUME Slurm!Inv, [Slurm!Next]_(Slurm!vars)
  PROVE  Slurm!Inv'
<1>1. CASE UNCHANGED Slurm!vars
  BY <1>1, SlurmStays
<1>2. CASE \E n \in OfSlurm.Nodes : Slurm!JobStarts(n) \/ Slurm!JobGoes(n)
           \/ Slurm!Maintenance(n) \/ Slurm!ByHand(n)
  BY <1>2, SlurmJobStarts, SlurmJobGoes, SlurmByHand
<1>3. CASE \E d \in OfSlurm.Desks : Slurm!Type(d) \/ Slurm!CheckNodes(d) \/ Slurm!NotChecked(d)
           \/ Slurm!checkSlurmIdle(d)
                                    \/ Slurm!CheckSkipped(d) \/ Slurm!Confirm(d)
                                       \/ Slurm!Update(d) \/ Slurm!readBack(d)
                                    \/ Slurm!CutOver(d)
  BY <1>3, SlurmType, SlurmCheckNodes, SlurmNotChecked, SlurmAsksForJobs, SlurmCheckSkipped,
     SlurmConfirm, SlurmUpdate, SlurmReadBack, SlurmCutOver
<1>4. CASE \E d \in OfSlurm.Desks : \E n \in OfSlurm.Nodes : Slurm!Cut(d, n)
  BY <1>4, SlurmCut
<1> QED
  BY <1>1, <1>2, <1>3, <1>4 DEF Slurm!Next

\* A step of the whole is one of the component, or of another scene.
LEMMA SlurmScene ==
  ASSUME [Next]_vars
  PROVE  /\ scene' = scene
         /\ scene = "slurm" => [Slurm!Next]_(Slurm!vars)
BY DEF Next, vars, Slurm!vars

\* The invariant of the component is one of the whole.
LEMMA SlurmAlways == Spec => [](scene = "slurm" => Slurm!Inv)
<1>1. Init => (scene = "slurm" => Slurm!Inv)
  BY SlurmBegins DEF Init, Begin
<1>2. (scene = "slurm" => Slurm!Inv) /\ [Next]_vars => (scene = "slurm" => Slurm!Inv)'
  BY SlurmScene, SlurmStep
<1> QED
  BY <1>1, <1>2, PTL DEF Spec

\* From however many desks, whatever Slurm and other administrators do meanwhile:
\* no job the check could see is cut off, no node changes that was not named, and
\* what is said after an update that failed is so.  (Drain, Resume, CheckJobs)
THEOREM NodesChangeAsNamed == Spec => []NodesAreAsNamed
<1>1. (scene = "slurm" => Slurm!Inv) => NodesAreAsNamed
  BY DEF Slurm!Inv, NodesAreAsNamed
<1> QED
  BY <1>1, SlurmAlways, PTL

(***************************************************************************)
(* The host key file.  Whoever reads or writes it holds its lock           *)
(* (LockInv), so what a command read is the file until it writes           *)
(* (ReadInv).  What it then writes has a line for every line that is left, *)
(* without the names of the hosts it is about, and one for every host that *)
(* is written (Written): putting sequences in order, taking some of their  *)
(* places and joining them loses and doubles nothing.  So what was last    *)
(* written of a host stays while others are written (WrittenIsThere is     *)
(* inductive with these).                                                  *)
(*                                                                         *)
(* The registers: v1 file, v2 lock, v3 offers, v4 cmd, v5 last, v6 rekeys, *)
(* v7 edits.                                                               *)
(***************************************************************************)
\* What is given.
LEMMA HostKeysGiven ==
  /\ OfHostKeys.Names \subseteq Nat
  /\ OfHostKeys.Lower \in [OfHostKeys.Names -> OfHostKeys.Names]
  /\ \A n \in OfHostKeys.Names : OfHostKeys.Lower[OfHostKeys.Lower[n]] = OfHostKeys.Lower[n]
  /\ OfHostKeys.Text \in [HostKeys!Patterns -> Nat]
  /\ HostKeys!IsFiniteSet(OfHostKeys.Hosts) /\ OfHostKeys.Hosts \subseteq OfHostKeys.Names
  /\ \A g, h \in OfHostKeys.Hosts : OfHostKeys.Lower[g] = OfHostKeys.Lower[h] => g = h
  /\ OfHostKeys.Removals \subseteq Seq(OfHostKeys.Names)
  /\ \A f \in OfHostKeys.Files : f = HostKeys!Parse(f.header, f.lines)
     /\ f.header \in Seq(STRING) /\ f.lines \in Seq(HostKeys!Line)
  /\ OfHostKeys.Keys \cap {HostKeys!NoKey, "as_before", "gone"} = {}
BY CommandsConstants DEF CommandsConstants, HostKeys!HostKeysConstants

\* The sets of HostKeys that are finite, and how many elements they have.
LEMMA HostKeysSizes ==
  \A S : (HostKeys!IsFiniteSet(S) <=> IsFiniteSet(S)) /\ HostKeys!Cardinality(S) = Cardinality(S)
BY DEF HostKeys!IsFiniteSet, HostKeys!Cardinality, IsFiniteSet, Cardinality

\* What is in a set stands at one place each, once it is put in order.
LEMMA HostKeysPlaces ==
  ASSUME NEW S, HostKeys!IsFiniteSet(S), NEW order,
         \A i \in S : <<i, i>> \notin order,
         \A i, j, k \in S : <<i, j>> \in order /\ <<j, k>> \in order => <<i, k>> \in order,
         \A i, j \in S : i = j \/ <<i, j>> \in order \/ <<j, i>> \in order
  PROVE  /\ DOMAIN HostKeys!Ranked(S, order) = 1..HostKeys!Cardinality(S)
            /\ HostKeys!Cardinality(S) \in Nat
         /\ \A k \in 1..HostKeys!Cardinality(S) : HostKeys!Ranked(S, order)[k] \in S
         /\ \A i \in S : \E k \in 1..HostKeys!Cardinality(S) : HostKeys!Ranked(S, order)[k] = i
         /\ \A k, l \in 1..HostKeys!Cardinality(S) : HostKeys!Ranked(S, order)[k]
            = HostKeys!Ranked(S, order)[l] => k = l
<1> DEFINE n == HostKeys!Cardinality(S)
           below(i) == {j \in S : <<j, i>> \in order}
           at == [i \in S |-> HostKeys!Cardinality(below(i))]
<1>1. n \in Nat
  BY FS_CardinalityType, HostKeysSizes
<1>2. ASSUME NEW i \in S
      PROVE  HostKeys!IsFiniteSet(below(i)) /\ HostKeys!Cardinality(below(i)) \in 0..(n - 1)
  <2>1. below(i) \in SUBSET S /\ below(i) # S
    OBVIOUS
  <2>2. HostKeys!IsFiniteSet(below(i)) /\ HostKeys!Cardinality(below(i)) \in Nat
    <3>1. HostKeys!IsFiniteSet(below(i))
      BY <2>1, FS_Subset, HostKeysSizes
    <3> HIDE DEF below
    <3> QED
      BY <3>1, FS_CardinalityType, HostKeysSizes
  <2>3. HostKeys!Cardinality(below(i)) <= n /\ HostKeys!Cardinality(below(i)) # n
    BY <2>1, FS_Subset, HostKeysSizes, Zenon
  <2> HIDE DEF below, n
  <2> QED
    BY <1>1, <2>2, <2>3
<1>3. ASSUME NEW i \in S, NEW j \in S, <<i, j>> \in order
      PROVE  HostKeys!Cardinality(below(i)) < HostKeys!Cardinality(below(j))
  <2>1. below(i) \in SUBSET below(j) /\ i \in below(j) /\ i \notin below(i)
    BY <1>3
  <2>2. HostKeys!Cardinality(below(i)) <= HostKeys!Cardinality(below(j))
        /\ HostKeys!Cardinality(below(i)) # HostKeys!Cardinality(below(j))
    BY <2>1, <1>2, FS_Subset, HostKeysSizes, Zenon
  <2>3. HostKeys!Cardinality(below(i)) \in Nat /\ HostKeys!Cardinality(below(j)) \in Nat
    <3> HIDE DEF below, n
    <3> QED
      BY <1>1, <1>2
  <2> HIDE DEF below
  <2> QED
    BY <2>2, <2>3
<1>4. at \in Injection(S, 0..(n - 1))
  <2>1. at \in [S -> 0..(n - 1)]
    BY <1>2
  <2>2. ASSUME NEW i \in S, NEW j \in S,
               HostKeys!Cardinality(below(i)) = HostKeys!Cardinality(below(j)) PROVE i = j
    <3> HIDE DEF below, n
    <3>1. HostKeys!Cardinality(below(i)) \in Nat /\ HostKeys!Cardinality(below(j)) \in Nat
      BY <1>1, <1>2
    <3>2. CASE <<i, j>> \in order
      <4>1. HostKeys!Cardinality(below(i)) < HostKeys!Cardinality(below(j))
        BY <3>2, <1>3
      <4> QED
        BY <4>1, <3>1, <2>2
    <3>3. CASE <<j, i>> \in order
      <4>1. HostKeys!Cardinality(below(j)) < HostKeys!Cardinality(below(i))
        BY <3>3, <1>3
      <4> QED
        BY <4>1, <3>1, <2>2
    <3> QED
      BY <3>2, <3>3
  <2>3. \A i, j \in S : at[i] = at[j] => i = j
    BY <2>2
  <2> HIDE DEF at
  <2> QED
    BY <2>1, <2>3 DEF Injection, IsInjective
<1>5. at \in Surjection(S, 0..(n - 1))
  <2>1. HostKeys!IsFiniteSet(0..(n - 1)) /\ HostKeys!Cardinality(0..(n - 1)) = n
    <3> HIDE DEF n
    <3> QED
      BY <1>1, FS_Interval, HostKeysSizes
  <2> QED
    BY <1>4, <2>1, FS_Injection, HostKeysSizes, Zenon
<1>6. \A k \in 1..n : \E i \in S : HostKeys!Cardinality(below(i)) = k - 1
  <2> TAKE k \in 1..n
  <2>1. k - 1 \in 0..(n - 1)
    BY <1>1
  <2> QED
    BY <1>5, <2>1 DEF Surjection
<1>7. \A k \in 1..n : /\ HostKeys!Ranked(S, order)[k] \in S
                      /\ HostKeys!Cardinality(below(HostKeys!Ranked(S, order)[k])) = k - 1
  BY <1>6 DEF HostKeys!Ranked
<1>8. DOMAIN HostKeys!Ranked(S, order) = 1..n
  BY DEF HostKeys!Ranked
<1>9. \A i \in S : \E k \in 1..n : HostKeys!Ranked(S, order)[k] = i
  <2> TAKE i \in S
  <2> HIDE DEF below
  <2> DEFINE k == HostKeys!Cardinality(below(i)) + 1
  <2>1. HostKeys!Cardinality(below(i)) \in 0..(n - 1)
    BY <1>2
  <2>2. k \in 1..n /\ k - 1 = HostKeys!Cardinality(below(i))
    BY <1>1, <2>1
  <2>3. HostKeys!Ranked(S, order)[k] \in S
        /\ HostKeys!Cardinality(below(HostKeys!Ranked(S, order)[k])) = k - 1
    BY <2>2, <1>7
  <2>4. at[HostKeys!Ranked(S, order)[k]] = at[i]
    BY <2>2, <2>3
  <2>5. HostKeys!Ranked(S, order)[k] = i
    BY <2>3, <2>4, <1>4 DEF Injection, IsInjective
  <2> QED
    BY <2>2, <2>5
<1>10. \A k, l \in 1..n : HostKeys!Ranked(S, order)[k] = HostKeys!Ranked(S, order)[l] => k = l
  <2> TAKE k, l \in 1..n
  <2> HIDE DEF below
  <2>1. HostKeys!Cardinality(below(HostKeys!Ranked(S, order)[k])) = k - 1
        /\ HostKeys!Cardinality(below(HostKeys!Ranked(S, order)[l])) = l - 1
    BY <1>7
  <2> HIDE DEF n
  <2> QED
    BY <2>1, <1>1
<1> QED
  BY <1>1, <1>7, <1>8, <1>9, <1>10

OneToOne(at, D, R) ==
  /\ \A k \in D : at[k] \in R
  /\ \A i \in R : \E k \in D : at[k] = i
  /\ \A k, l \in D : at[k] = at[l] => k = l

\* So with the places of a sequence.
LEMMA SortedPlaces ==
  ASSUME NEW S, S \subseteq Nat, HostKeys!IsFiniteSet(S)
  PROVE  /\ DOMAIN HostKeys!Sorted(S) = 1..HostKeys!Cardinality(S)
            /\ HostKeys!Cardinality(S) \in Nat
         /\ \A k \in 1..HostKeys!Cardinality(S) : HostKeys!Sorted(S)[k] \in S
         /\ \A i \in S : \E k \in 1..HostKeys!Cardinality(S) : HostKeys!Sorted(S)[k] = i
         /\ \A k, l \in 1..HostKeys!Cardinality(S) : HostKeys!Sorted(S)[k]
            = HostKeys!Sorted(S)[l] => k = l
<1> DEFINE order == {p \in S \X S : p[1] < p[2]}
<1>1. \A i, j \in S : <<i, j>> \in order <=> i < j
  OBVIOUS
<1> HIDE DEF order
<1>2. /\ \A i \in S : <<i, i>> \notin order
      /\ \A i, j, k \in S : <<i, j>> \in order /\ <<j, k>> \in order => <<i, k>> \in order
      /\ \A i, j \in S : i = j \/ <<i, j>> \in order \/ <<j, i>> \in order
  BY <1>1
<1>3. HostKeys!Sorted(S) = HostKeys!Ranked(S, order)
  BY DEF HostKeys!Sorted, order
<1>4. /\ DOMAIN HostKeys!Ranked(S, order) = 1..HostKeys!Cardinality(S)
      /\ HostKeys!Cardinality(S) \in Nat
      /\ \A k \in 1..HostKeys!Cardinality(S) : HostKeys!Ranked(S, order)[k] \in S
      /\ \A i \in S : \E k \in 1..HostKeys!Cardinality(S) : HostKeys!Ranked(S, order)[k] = i
      /\ \A k, l \in 1..HostKeys!Cardinality(S) : HostKeys!Ranked(S, order)[k]
         = HostKeys!Ranked(S, order)[l] => k = l
  BY <1>2, HostKeysPlaces, Zenon
<1> QED
  BY <1>3, <1>4, Zenon

\* What is picked of a sequence is what stands at the places.
LEMMA PickedPlaces ==
  ASSUME NEW X, NEW s \in Seq(X), NEW S, S \subseteq DOMAIN s
  PROVE  /\ HostKeys!Picked(s, S) \in Seq(X)
         /\ \A k \in DOMAIN HostKeys!Picked(s, S) : HostKeys!Sorted(S)[k] \in S
            /\ HostKeys!Picked(s, S)[k] = s[HostKeys!Sorted(S)[k]]
         /\ \A i \in S : \E k \in DOMAIN HostKeys!Picked(s, S) : HostKeys!Sorted(S)[k] = i
         /\ \A k, l \in DOMAIN HostKeys!Picked(s, S) : HostKeys!Sorted(S)[k]
            = HostKeys!Sorted(S)[l] => k = l
<1>1. S \subseteq Nat /\ HostKeys!IsFiniteSet(S)
  <2>1. HostKeys!IsFiniteSet(1..Len(s))
    BY FS_Interval, HostKeysSizes
  <2> QED
    BY <2>1, FS_Subset, HostKeysSizes
<1>2. /\ DOMAIN HostKeys!Sorted(S) = 1..HostKeys!Cardinality(S) /\ HostKeys!Cardinality(S) \in Nat
      /\ \A k \in 1..HostKeys!Cardinality(S) : HostKeys!Sorted(S)[k] \in S
      /\ \A i \in S : \E k \in 1..HostKeys!Cardinality(S) : HostKeys!Sorted(S)[k] = i
      /\ \A k, l \in 1..HostKeys!Cardinality(S) : HostKeys!Sorted(S)[k] = HostKeys!Sorted(S)[l]
         => k = l
  BY <1>1, SortedPlaces, Zenon
<1>3. HostKeys!Picked(s, S) = [k \in 1..HostKeys!Cardinality(S) |-> s[HostKeys!Sorted(S)[k]]]
  BY <1>2 DEF HostKeys!Picked
<1>4. \A k \in 1..HostKeys!Cardinality(S) : s[HostKeys!Sorted(S)[k]] \in X
  BY <1>2
<1>5. HostKeys!Picked(s, S) \in Seq(X)
  BY <1>2, <1>3, <1>4
<1> QED
  BY <1>2, <1>3, <1>5

LEMMA PlacesFinite ==
  ASSUME NEW X, NEW ss \in Seq(Seq(X))
  PROVE  HostKeys!IsFiniteSet(UNION {{<<i, j>> : j \in DOMAIN ss[i]} : i \in DOMAIN ss})
<1> DEFINE row(i) == {<<i, j>> : j \in DOMAIN ss[i]}
           rows == [i \in DOMAIN ss |-> row(i)]
           all == {row(i) : i \in DOMAIN ss}
<1>1. HostKeys!IsFiniteSet(DOMAIN ss)
  <2>1. DOMAIN ss = 1..Len(ss) /\ Len(ss) \in Nat
    OBVIOUS
  <2> QED
    BY <2>1, FS_Interval, HostKeysSizes
<1>2. ASSUME NEW i \in DOMAIN ss PROVE HostKeys!IsFiniteSet(row(i))
  <2> DEFINE f == [j \in DOMAIN ss[i] |-> <<i, j>>]
  <2>1. ss[i] \in Seq(X)
    OBVIOUS
  <2>2. DOMAIN ss[i] = 1..Len(ss[i]) /\ Len(ss[i]) \in Nat
    BY <2>1
  <2>3. HostKeys!IsFiniteSet(DOMAIN ss[i])
    BY <2>2, FS_Interval, HostKeysSizes
  <2>4. f \in Surjection(DOMAIN ss[i], row(i))
    BY DEF Surjection
  <2> QED
    BY <2>3, <2>4, FS_Surjection, HostKeysSizes, Zenon
<1>3. HostKeys!IsFiniteSet(all)
  <2>1. rows \in Surjection(DOMAIN ss, all)
    <3> HIDE DEF row
    <3> QED
      BY DEF Surjection
  <2> QED
    BY <1>1, <2>1, FS_Surjection, HostKeysSizes, Zenon
<1>4. \A T \in all : HostKeys!IsFiniteSet(T)
  <2> HIDE DEF row
  <2> QED
    BY <1>2
<1> QED
  BY <1>3, <1>4, FS_UNION, HostKeysSizes, Zenon

\* The place in the sequences of what stands at a place of the joined one.
JoinedFrom(ss, at) ==
  /\ \A k \in DOMAIN HostKeys!Joined(ss) :
       /\ at[k][1] \in DOMAIN ss /\ at[k][2] \in DOMAIN ss[at[k][1]]
       /\ HostKeys!Joined(ss)[k] = ss[at[k][1]][at[k][2]]
  /\ \A i \in DOMAIN ss : \A j \in DOMAIN ss[i] : \E k \in DOMAIN HostKeys!Joined(ss) : at[k]
     = <<i, j>>
  /\ \A k, l \in DOMAIN HostKeys!Joined(ss) : at[k][1] = at[l][1] /\ at[k][2] = at[l][2] => k = l

\* What is joined is what stands in the sequences, each once.
LEMMA JoinedPlaces ==
  ASSUME NEW X, NEW ss \in Seq(Seq(X))
  PROVE  /\ HostKeys!Joined(ss) \in Seq(X)
         /\ \E at : JoinedFrom(ss, at)
<1> DEFINE places == UNION {{<<i, j>> : j \in DOMAIN ss[i]} : i \in DOMAIN ss}
           order == {p \in places \X places : p[1][1] < p[2][1] \/ (p[1][1] = p[2][1]
             /\ p[1][2] < p[2][2])}
           at == HostKeys!Ranked(places, order)
           n == HostKeys!Cardinality(places)
<1>1. \A i \in DOMAIN ss : ss[i] \in Seq(X)
  OBVIOUS
<1>2. \A i \in DOMAIN ss : \A j \in DOMAIN ss[i] : ss[i][j] \in X /\ i \in Nat /\ j \in Nat
  BY <1>1
<1>3. \A p \in places : /\ p = <<p[1], p[2]>> /\ p[1] \in DOMAIN ss /\ p[2] \in DOMAIN ss[p[1]]
                        /\ p[1] \in Nat /\ p[2] \in Nat
  BY <1>2
<1>4. \A p, q \in places : <<p, q>> \in order <=> p[1] < q[1] \/ (p[1] = q[1] /\ p[2] < q[2])
  OBVIOUS
<1>5. \A i \in DOMAIN ss : \A j \in DOMAIN ss[i] : <<i, j>> \in places
  OBVIOUS
<1>6. HostKeys!IsFiniteSet(places)
  BY PlacesFinite
<1>7. HostKeys!Joined(ss) = [k \in DOMAIN at |-> ss[at[k][1]][at[k][2]]]
  BY DEF HostKeys!Joined
<1> HIDE DEF places, order
<1>8. /\ \A p \in places : <<p, p>> \notin order
      /\ \A p, q, r \in places : <<p, q>> \in order /\ <<q, r>> \in order => <<p, r>> \in order
      /\ \A p, q \in places : p = q \/ <<p, q>> \in order \/ <<q, p>> \in order
  <2>1. ASSUME NEW p \in places PROVE <<p, p>> \notin order
    <3>1. p[1] \in Nat /\ p[2] \in Nat
      BY <1>3
    <3>2. <<p, p>> \in order <=> p[1] < p[1] \/ (p[1] = p[1] /\ p[2] < p[2])
      BY <1>4
    <3> QED
      BY <3>1, <3>2
  <2>2. ASSUME NEW p \in places, NEW q \in places, NEW r \in places,
               <<p, q>> \in order, <<q, r>> \in order
        PROVE  <<p, r>> \in order
    <3>1. p[1] \in Nat /\ p[2] \in Nat /\ q[1] \in Nat /\ q[2] \in Nat /\ r[1] \in Nat
          /\ r[2] \in Nat
      BY <1>3
    <3>2. p[1] < q[1] \/ (p[1] = q[1] /\ p[2] < q[2])
      BY <2>2, <1>4
    <3>3. q[1] < r[1] \/ (q[1] = r[1] /\ q[2] < r[2])
      BY <2>2, <1>4
    <3>4. p[1] < r[1] \/ (p[1] = r[1] /\ p[2] < r[2])
      BY <3>1, <3>2, <3>3
    <3> QED
      BY <3>4, <1>4
  <2>3. ASSUME NEW p \in places,
               NEW q \in places PROVE p = q \/ <<p, q>> \in order \/ <<q, p>> \in order
    <3>1. p[1] \in Nat /\ p[2] \in Nat /\ q[1] \in Nat /\ q[2] \in Nat
      BY <1>3
    <3>2. p = <<p[1], p[2]>> /\ q = <<q[1], q[2]>>
      BY <1>3
    <3>3. CASE p[1] = q[1] /\ p[2] = q[2]
      BY <3>2, <3>3, Zenon
    <3>4. CASE ~(p[1] = q[1] /\ p[2] = q[2])
      <4>1. p[1] < q[1] \/ (p[1] = q[1] /\ p[2] < q[2]) \/ q[1] < p[1]
            \/ (q[1] = p[1] /\ q[2] < p[2])
        BY <3>1, <3>4
      <4> QED
        BY <4>1, <1>4
    <3> QED
      BY <3>3, <3>4
  <2> QED
    BY <2>1, <2>2, <2>3
<1>9. /\ DOMAIN at = 1..n /\ n \in Nat
      /\ \A k \in 1..n : at[k] \in places
      /\ \A i \in places : \E k \in 1..n : at[k] = i
      /\ \A k, l \in 1..n : at[k] = at[l] => k = l
  BY <1>6, <1>8, HostKeysPlaces, Zenon
<1> HIDE DEF at, n
<1>10. \A k \in 1..n : ss[at[k][1]][at[k][2]] \in X
  BY <1>2, <1>3, <1>9
<1>11. HostKeys!Joined(ss) \in Seq(X) /\ DOMAIN HostKeys!Joined(ss) = 1..n
  BY <1>7, <1>9, <1>10
<1>12. \A k \in DOMAIN HostKeys!Joined(ss) :
         /\ at[k][1] \in DOMAIN ss /\ at[k][2] \in DOMAIN ss[at[k][1]]
         /\ HostKeys!Joined(ss)[k] = ss[at[k][1]][at[k][2]]
  BY <1>3, <1>7, <1>9, <1>11
<1>13. \A i \in DOMAIN ss : \A j \in DOMAIN ss[i] : \E k \in DOMAIN HostKeys!Joined(ss) : at[k]
       = <<i, j>>
  BY <1>5, <1>9, <1>11
<1>14. \A k, l \in DOMAIN HostKeys!Joined(ss) : at[k][1] = at[l][1] /\ at[k][2] = at[l][2] => k = l
  <2> TAKE k, l \in DOMAIN HostKeys!Joined(ss)
  <2> HAVE at[k][1] = at[l][1] /\ at[k][2] = at[l][2]
  <2>1. at[k] = <<at[k][1], at[k][2]>> /\ at[l] = <<at[l][1], at[l][2]>>
    BY <1>3, <1>9, <1>11
  <2>2. at[k] = at[l]
    BY <2>1, Zenon
  <2> QED
    BY <2>2, <1>9, <1>11
<1>15. JoinedFrom(ss, at)
  BY <1>12, <1>13, <1>14, Zenon DEF JoinedFrom
<1> QED
  BY <1>11, <1>15

\* The order of text.
LEMMA LessIrreflexive ==
  ASSUME NEW s \in Seq(Nat)
  PROVE  ~HostKeys!Less(s, s)
BY DEF HostKeys!Less

LEMMA LessTransitive ==
  ASSUME NEW r \in Seq(Nat), NEW s \in Seq(Nat), NEW t \in Seq(Nat), HostKeys!Less(r, s),
         HostKeys!Less(s, t)
  PROVE  HostKeys!Less(r, t)
<1>1. PICK i \in DOMAIN s : /\ \A j \in 1..(i - 1) : j \in DOMAIN r /\ r[j] = s[j]
                            /\ i \in DOMAIN r => r[i] < s[i]
  BY DEF HostKeys!Less
<1>2. PICK k \in DOMAIN t : /\ \A j \in 1..(k - 1) : j \in DOMAIN s /\ s[j] = t[j]
                            /\ k \in DOMAIN s => s[k] < t[k]
  BY DEF HostKeys!Less
<1>3. /\ DOMAIN r = 1..Len(r) /\ Len(r) \in Nat
      /\ DOMAIN s = 1..Len(s) /\ Len(s) \in Nat
      /\ DOMAIN t = 1..Len(t) /\ Len(t) \in Nat
  OBVIOUS
<1>4. i \in Nat \ {0} /\ k \in Nat \ {0}
  BY <1>3
<1>5. CASE i < k
  <2>1. i \in 1..(k - 1) /\ i \in DOMAIN t
    BY <1>2, <1>3, <1>4, <1>5
  <2>2. \A j \in 1..(i - 1) : j \in DOMAIN r /\ r[j] = t[j]
    <3> TAKE j \in 1..(i - 1)
    <3>1. j \in 1..(k - 1)
      BY <1>4, <1>5
    <3> QED
      BY <3>1, <1>1, <1>2
  <2>3. i \in DOMAIN r => r[i] < t[i]
    BY <1>1, <1>2, <2>1
  <2> QED
    BY <2>1, <2>2, <2>3 DEF HostKeys!Less
<1>6. CASE i = k
  <2>1. \A j \in 1..(i - 1) : j \in DOMAIN r /\ r[j] = t[j]
    BY <1>1, <1>2, <1>6
  <2>2. i \in DOMAIN r => r[i] < t[i]
    <3> HAVE i \in DOMAIN r
    <3>1. r[i] < s[i] /\ s[i] < t[i]
      BY <1>1, <1>2, <1>6
    <3>2. r[i] \in Nat /\ s[i] \in Nat /\ t[i] \in Nat
      BY <1>6
    <3> QED
      BY <3>1, <3>2
  <2> QED
    BY <1>6, <2>1, <2>2 DEF HostKeys!Less
<1>7. CASE k < i
  <2>1. \A j \in 1..(k - 1) : j \in DOMAIN r /\ r[j] = t[j]
    <3> TAKE j \in 1..(k - 1)
    <3>1. j \in 1..(i - 1)
      BY <1>4, <1>7
    <3> QED
      BY <3>1, <1>1, <1>2
  <2>2. k \in 1..(i - 1)
    BY <1>4, <1>7
  <2>3. k \in DOMAIN r /\ k \in DOMAIN s /\ r[k] = s[k]
    BY <1>1, <1>3, <1>4, <1>7, <2>2
  <2> QED
    BY <1>2, <2>1, <2>3 DEF HostKeys!Less
<1> QED
  BY <1>4, <1>5, <1>6, <1>7

LEMMA LeastOf ==
  ASSUME NEW S, S \subseteq Nat, S # {}
  PROVE  \E i \in S : \A j \in S : i <= j
<1> DEFINE R == OpToRel(<, Nat)
<1>1. IsWellFoundedOn(R, Nat)
  BY NatLessThanWellFounded
<1>2. \A a, b \in Nat : a < b => <<a, b>> \in R
  BY DEF OpToRel
<1> HIDE DEF R
<1>3. PICK i \in S : \A y \in S : ~(<<y, i>> \in R)
  BY <1>1, WFMin, Zenon
<1>4. ASSUME NEW j \in S PROVE i <= j
  <2>1. i \in Nat /\ j \in Nat
    OBVIOUS
  <2>2. ~(j < i)
    BY <1>2, <1>3, <2>1, Zenon
  <2> QED
    BY <2>1, <2>2
<1> QED
  BY <1>4

LEMMA LessTotal ==
  ASSUME NEW s \in Seq(Nat), NEW t \in Seq(Nat), s # t
  PROVE  HostKeys!Less(s, t) \/ HostKeys!Less(t, s)
<1> DEFINE apart(i) == \/ i \in DOMAIN s /\ i \notin DOMAIN t
                       \/ i \in DOMAIN t /\ i \notin DOMAIN s
                       \/ i \in DOMAIN s /\ i \in DOMAIN t /\ s[i] # t[i]
           Apart == {i \in Nat : apart(i)}
<1>1. /\ DOMAIN s = 1..Len(s) /\ Len(s) \in Nat
      /\ DOMAIN t = 1..Len(t) /\ Len(t) \in Nat
  OBVIOUS
<1>2. Apart # {}
  <2>1. SUFFICES ASSUME Apart = {} PROVE FALSE
    OBVIOUS
  <2>2. \A i \in Nat : ~apart(i)
    BY <2>1
  <2>3. Len(s) = Len(t)
    <3>1. CASE Len(s) < Len(t)
      <4>1. Len(t) \in Nat /\ Len(t) \in DOMAIN t /\ Len(t) \notin DOMAIN s
        BY <1>1, <3>1
      <4> QED
        BY <4>1, <2>2
    <3>2. CASE Len(t) < Len(s)
      <4>1. Len(s) \in Nat /\ Len(s) \in DOMAIN s /\ Len(s) \notin DOMAIN t
        BY <1>1, <3>2
      <4> QED
        BY <4>1, <2>2
    <3>3. Len(s) \in Nat /\ Len(t) \in Nat
      BY <1>1
    <3> QED
      BY <3>1, <3>2, <3>3
  <2>4. \A i \in 1..Len(s) : s[i] = t[i]
    BY <1>1, <2>2, <2>3
  <2> QED
    BY <2>3, <2>4, <1>1
<1>3. PICK i \in Apart : \A j \in Apart : i <= j
  BY <1>2, LeastOf
<1>4. i \in Nat \ {0} /\ apart(i)
  BY <1>1, <1>3
<1>5. \A j \in 1..(i - 1) : j \in DOMAIN s /\ j \in DOMAIN t /\ s[j] = t[j]
  <2> TAKE j \in 1..(i - 1)
  <2>1. j \in Nat /\ j < i
    BY <1>4
  <2>2. ~apart(j)
    BY <1>3, <1>4, <2>1
  <2>3. j \in DOMAIN s \/ j \in DOMAIN t
    BY <1>1, <1>4, <2>1
  <2> QED
    BY <2>2, <2>3
<1>6. CASE i \in DOMAIN s /\ i \notin DOMAIN t
  BY <1>5, <1>6 DEF HostKeys!Less
<1>7. CASE i \in DOMAIN t /\ i \notin DOMAIN s
  BY <1>5, <1>7 DEF HostKeys!Less
<1>8. CASE i \in DOMAIN s /\ i \in DOMAIN t /\ s[i] # t[i]
  <2>1. s[i] \in Nat /\ t[i] \in Nat
    BY <1>8
  <2>2. s[i] < t[i] \/ t[i] < s[i]
    BY <1>8, <2>1
  <2> QED
    BY <1>5, <1>8, <2>2 DEF HostKeys!Less
<1> QED
  BY <1>4, <1>6, <1>7, <1>8

LEMMA LineKey ==
  ASSUME NEW e \in HostKeys!Line
  PROVE  HostKeys!TextOf(e) \in Seq(Nat) /\ HostKeys!Rank(e) \in 1..3 /\ e.type \in Nat
<1>1. e.hosts \in Seq(HostKeys!Patterns) /\ e.type \in Nat
  BY DEF HostKeys!Line
<1>0. e.marker \in {"", "@revoked", "@cert-authority"}
  BY DEF HostKeys!Line
<1>2. \A p \in HostKeys!Patterns : OfHostKeys.Text[p] \in Nat
  BY HostKeysGiven
<1>3. \A i \in DOMAIN e.hosts : e.hosts[i] \in HostKeys!Patterns
  BY <1>1
<1>4. HostKeys!TextOf(e) \in Seq(Nat)
  <2>1. DOMAIN e.hosts = 1..Len(e.hosts) /\ Len(e.hosts) \in Nat
    BY <1>1
  <2> QED
    BY <2>1, <1>2, <1>3 DEF HostKeys!TextOf
<1>5. \E i \in DOMAIN HostKeys!Markers : HostKeys!Markers[i] = e.marker
  <2>1. DOMAIN HostKeys!Markers = 1..3 /\ HostKeys!Markers[1] = ""
        /\ HostKeys!Markers[2] = "@cert-authority" /\ HostKeys!Markers[3] = "@revoked"
    BY DEF HostKeys!Markers
  <2> QED
    <3>1. 1 \in DOMAIN HostKeys!Markers /\ 2 \in DOMAIN HostKeys!Markers
          /\ 3 \in DOMAIN HostKeys!Markers
      <4>1. DOMAIN HostKeys!Markers = 1..3
        BY DEF HostKeys!Markers
      <4> HIDE DEF HostKeys!Markers
      <4> QED
        BY <4>1
    <3> QED
      BY <1>0, <2>1, <3>1, Zenon
<1>6. HostKeys!Rank(e) \in DOMAIN HostKeys!Markers
  BY <1>5 DEF HostKeys!Rank
<1>7. DOMAIN HostKeys!Markers = 1..3
  BY DEF HostKeys!Markers
<1> QED
  BY <1>1, <1>4, <1>6, <1>7

HostKeysAlike(d, e) == HostKeys!TextOf(d) = HostKeys!TextOf(e)
  /\ HostKeys!Rank(d) = HostKeys!Rank(e) /\ d.type = e.type

LEMMA BeforeOrders ==
  ASSUME NEW d \in HostKeys!Line, NEW e \in HostKeys!Line
  PROVE  /\ ~HostKeys!Before(d, d)
         /\ HostKeysAlike(d, e) \/ HostKeys!Before(d, e) \/ HostKeys!Before(e, d)
         /\ HostKeysAlike(d, e) => ~HostKeys!Before(d, e)
<1>1. HostKeys!TextOf(d) \in Seq(Nat) /\ HostKeys!Rank(d) \in Nat /\ d.type \in Nat
  BY LineKey
<1>2. HostKeys!TextOf(e) \in Seq(Nat) /\ HostKeys!Rank(e) \in Nat /\ e.type \in Nat
  BY LineKey
<1>3. ~HostKeys!Less(HostKeys!TextOf(d), HostKeys!TextOf(d))
      /\ ~HostKeys!Less(HostKeys!TextOf(e), HostKeys!TextOf(e))
  BY <1>1, <1>2, LessIrreflexive
<1>4. HostKeys!TextOf(d) = HostKeys!TextOf(e)
      \/ HostKeys!Less(HostKeys!TextOf(d), HostKeys!TextOf(e))
         \/ HostKeys!Less(HostKeys!TextOf(e), HostKeys!TextOf(d))
  BY <1>1, <1>2, LessTotal
<1>5. ~HostKeys!Before(d, d)
  BY <1>1, <1>3 DEF HostKeys!Before
<1>6. HostKeysAlike(d, e) \/ HostKeys!Before(d, e) \/ HostKeys!Before(e, d)
  <2>1. CASE HostKeys!TextOf(d) = HostKeys!TextOf(e)
    <3>1. \/ (HostKeys!Rank(d) = HostKeys!Rank(e) /\ d.type = e.type)
          \/ HostKeys!Rank(d) < HostKeys!Rank(e) \/ HostKeys!Rank(e) < HostKeys!Rank(d)
          \/ (HostKeys!Rank(d) = HostKeys!Rank(e)) /\ (d.type < e.type \/ e.type < d.type)
      BY <1>1, <1>2
    <3> QED
      BY <2>1, <3>1 DEF HostKeys!Before, HostKeysAlike
  <2>2. CASE HostKeys!TextOf(d) # HostKeys!TextOf(e)
    BY <1>4, <2>2 DEF HostKeys!Before
  <2> QED
    BY <2>1, <2>2
<1>7. HostKeysAlike(d, e) => ~HostKeys!Before(d, e)
  BY <1>1, <1>2, <1>3 DEF HostKeys!Before, HostKeysAlike
<1> QED
  BY <1>5, <1>6, <1>7

LEMMA BeforeTransitive ==
  ASSUME NEW d \in HostKeys!Line, NEW e \in HostKeys!Line, NEW g \in HostKeys!Line
  PROVE  /\ HostKeys!Before(d, e) /\ HostKeys!Before(e, g) => HostKeys!Before(d, g)
         /\ HostKeys!Before(d, e) /\ HostKeysAlike(e, g) => HostKeys!Before(d, g)
         /\ HostKeysAlike(d, e) /\ HostKeys!Before(e, g) => HostKeys!Before(d, g)
         /\ HostKeysAlike(d, e) /\ HostKeysAlike(e, g) => HostKeysAlike(d, g)
<1>1. /\ HostKeys!TextOf(d) \in Seq(Nat) /\ HostKeys!Rank(d) \in Nat /\ d.type \in Nat
      /\ HostKeys!TextOf(e) \in Seq(Nat) /\ HostKeys!Rank(e) \in Nat /\ e.type \in Nat
      /\ HostKeys!TextOf(g) \in Seq(Nat) /\ HostKeys!Rank(g) \in Nat /\ g.type \in Nat
  <2>1. 1..3 \subseteq Nat
    OBVIOUS
  <2> QED
    BY <2>1, LineKey, Zenon
<1>2. HostKeys!Less(HostKeys!TextOf(d), HostKeys!TextOf(e))
      /\ HostKeys!Less(HostKeys!TextOf(e), HostKeys!TextOf(g))
         => HostKeys!Less(HostKeys!TextOf(d), HostKeys!TextOf(g))
  BY <1>1, LessTransitive
<1>3. ASSUME HostKeys!Before(d, e), HostKeys!Before(e, g) PROVE HostKeys!Before(d, g)
  <2>1. CASE HostKeys!Less(HostKeys!TextOf(d), HostKeys!TextOf(e))
             /\ HostKeys!Less(HostKeys!TextOf(e), HostKeys!TextOf(g))
    BY <1>2, <2>1 DEF HostKeys!Before
  <2>2. CASE HostKeys!Less(HostKeys!TextOf(d), HostKeys!TextOf(e))
             /\ HostKeys!TextOf(e) = HostKeys!TextOf(g)
    BY <2>2 DEF HostKeys!Before
  <2>3. CASE HostKeys!TextOf(d) = HostKeys!TextOf(e)
             /\ HostKeys!Less(HostKeys!TextOf(e), HostKeys!TextOf(g))
    BY <2>3 DEF HostKeys!Before
  <2>4. CASE HostKeys!TextOf(d) = HostKeys!TextOf(e) /\ HostKeys!TextOf(e) = HostKeys!TextOf(g)
             /\ ~HostKeys!Less(HostKeys!TextOf(d), HostKeys!TextOf(e))
    <3>1. /\ HostKeys!Rank(d) < HostKeys!Rank(e)
             \/ (HostKeys!Rank(d) = HostKeys!Rank(e) /\ d.type < e.type)
          /\ HostKeys!Rank(e) < HostKeys!Rank(g)
             \/ (HostKeys!Rank(e) = HostKeys!Rank(g) /\ e.type < g.type)
      BY <1>3, <2>4 DEF HostKeys!Before
    <3>2. HostKeys!Rank(d) < HostKeys!Rank(g)
          \/ (HostKeys!Rank(d) = HostKeys!Rank(g) /\ d.type < g.type)
      BY <1>1, <3>1
    <3> QED
      BY <2>4, <3>2 DEF HostKeys!Before
  <2> QED
    BY <1>3, <2>1, <2>2, <2>3, <2>4 DEF HostKeys!Before
<1>4. HostKeys!Before(d, e) /\ HostKeysAlike(e, g) => HostKeys!Before(d, g)
  BY DEF HostKeys!Before, HostKeysAlike
<1>5. HostKeysAlike(d, e) /\ HostKeys!Before(e, g) => HostKeys!Before(d, g)
  BY DEF HostKeys!Before, HostKeysAlike
<1>6. HostKeysAlike(d, e) /\ HostKeysAlike(e, g) => HostKeysAlike(d, g)
  BY DEF HostKeysAlike
<1> QED
  BY <1>3, <1>4, <1>5, <1>6

\* Sorting loses no line and makes none.
LEMMA RenderPlaces ==
  ASSUME NEW f \in Seq(HostKeys!Line)
  PROVE  /\ HostKeys!Render(f) \in Seq(HostKeys!Line)
         /\ \E at : /\ OneToOne(at, DOMAIN HostKeys!Render(f), DOMAIN f)
                    /\ \A k \in DOMAIN HostKeys!Render(f) : HostKeys!Render(f)[k] = f[at[k]]
<1> DEFINE S == DOMAIN f
           order == {p \in S \X S :
                       \/ HostKeys!Before(f[p[1]], f[p[2]])
                       \/ ~HostKeys!Before(f[p[2]], f[p[1]]) /\ p[1] < p[2]}
           at == HostKeys!Ranked(S, order)
           n == HostKeys!Cardinality(S)
<1>1. S = 1..Len(f) /\ Len(f) \in Nat /\ \A i \in S : f[i] \in HostKeys!Line /\ i \in Nat
  OBVIOUS
<1>2. HostKeys!IsFiniteSet(S)
  BY <1>1, FS_Interval, HostKeysSizes
<1>3. HostKeys!Render(f) = [k \in DOMAIN at |-> f[at[k]]]
  BY Zenon DEF HostKeys!Render
<1> HIDE DEF S
<1>4. \A i, j \in S : <<i, j>> \in order
      <=> HostKeys!Before(f[i], f[j]) \/ (~HostKeys!Before(f[j], f[i]) /\ i < j)
  OBVIOUS
<1> HIDE DEF S, order
<1>5. ASSUME NEW i \in S PROVE <<i, i>> \notin order
  <2>1. ~HostKeys!Before(f[i], f[i])
    BY <1>1, BeforeOrders
  <2>2. ~(i < i)
    BY <1>1
  <2> QED
    BY <2>1, <2>2, <1>4
<1>6. ASSUME NEW i \in S, NEW j \in S PROVE i = j \/ <<i, j>> \in order \/ <<j, i>> \in order
  <2>1. i < j \/ i = j \/ j < i
    BY <1>1
  <2> QED
    BY <2>1, <1>4
<1>7. ASSUME NEW i \in S, NEW j \in S, NEW k \in S, <<i, j>> \in order, <<j, k>> \in order
      PROVE  <<i, k>> \in order
  <2>1. f[i] \in HostKeys!Line /\ f[j] \in HostKeys!Line /\ f[k] \in HostKeys!Line
    BY <1>1
  <2>2. HostKeys!Before(f[i], f[j]) \/ (HostKeysAlike(f[i], f[j]) /\ i < j)
    BY <1>4, <1>7, <2>1, BeforeOrders
  <2>3. HostKeys!Before(f[j], f[k]) \/ (HostKeysAlike(f[j], f[k]) /\ j < k)
    BY <1>4, <1>7, <2>1, BeforeOrders
  <2>4. HostKeys!Before(f[i], f[k]) \/ (HostKeysAlike(f[i], f[k]) /\ i < k)
    <3>1. i < j /\ j < k => i < k
      BY <1>1
    <3> QED
      BY <2>1, <2>2, <2>3, <3>1, BeforeTransitive
  <2>5. HostKeysAlike(f[i], f[k]) => ~HostKeys!Before(f[k], f[i])
    <3>1. HostKeysAlike(f[i], f[k]) => HostKeysAlike(f[k], f[i])
      BY DEF HostKeysAlike
    <3> QED
      BY <2>1, <3>1, BeforeOrders
  <2> QED
    BY <2>4, <2>5, <1>4
<1>8. /\ DOMAIN at = 1..n /\ n \in Nat
      /\ \A k \in 1..n : at[k] \in S
      /\ \A i \in S : \E k \in 1..n : at[k] = i
      /\ \A k, l \in 1..n : at[k] = at[l] => k = l
  BY <1>2, <1>5, <1>6, <1>7, HostKeysPlaces, Zenon
<1> HIDE DEF at, n
<1>9. HostKeys!Render(f) \in Seq(HostKeys!Line) /\ DOMAIN HostKeys!Render(f) = 1..n
  BY <1>1, <1>3, <1>8
<1>10. \A k \in DOMAIN HostKeys!Render(f) : at[k] \in S /\ HostKeys!Render(f)[k] = f[at[k]]
  BY <1>3, <1>8, <1>9
<1>11. /\ \A i \in S : \E k \in DOMAIN HostKeys!Render(f) : at[k] = i
       /\ \A k, l \in DOMAIN HostKeys!Render(f) : at[k] = at[l] => k = l
  BY <1>8, <1>9
<1>12. OneToOne(at, DOMAIN HostKeys!Render(f), S)
       /\ \A k \in DOMAIN HostKeys!Render(f) : HostKeys!Render(f)[k] = f[at[k]]
  BY <1>10, <1>11 DEF OneToOne
<1> QED
  BY <1>9, <1>12, Zenon DEF S

\* The last of the places a host is given at, and the first.
LEMMA GreatestOf ==
  ASSUME NEW n \in Nat, NEW S, S \subseteq 1..n, S # {}
  PROVE  HostKeys!Fs!Max(S) \in S /\ \A j \in S : j <= HostKeys!Fs!Max(S)
<1> DEFINE U == {u \in Nat : \A x \in S : x <= u}
<1>1. n \in U
  OBVIOUS
<1>2. PICK u \in U : \A v \in U : u <= v
  BY <1>1, LeastOf
<1>3. u \in S
  <2>1. SUFFICES ASSUME u \notin S PROVE FALSE
    OBVIOUS
  <2>2. \A x \in S : x \in Nat /\ x <= u /\ x # u /\ 0 < x
    BY <1>2, <2>1
  <2>3. u # 0
    <3>1. PICK x \in S : TRUE
      OBVIOUS
    <3>2. x \in Nat /\ 0 < x /\ x <= u
      BY <2>2
    <3>3. u \in Nat
      BY <1>2
    <3> QED
      BY <3>2, <3>3
  <2>4. u - 1 \in U
    BY <1>2, <2>2, <2>3
  <2> QED
    BY <1>2, <2>4
<1>4. \E x \in S : \A y \in S : x >= y
  BY <1>2, <1>3
<1>5. HostKeys!Fs!Max(S) \in S /\ \A y \in S : HostKeys!Fs!Max(S) >= y
  BY <1>4 DEF HostKeys!Fs!Max
<1> QED
  BY <1>5

LEMMA SmallestOf ==
  ASSUME NEW S, S \subseteq Nat, S # {}
  PROVE  HostKeys!Fs!Min(S) \in S
<1>1. \E x \in S : \A y \in S : x <= y
  BY LeastOf
<1> QED
  BY <1>1 DEF HostKeys!Fs!Min

LEMMA SamePlaces ==
  ASSUME NEW hosts \in Seq(OfHostKeys.Names), NEW i \in DOMAIN hosts
  PROVE  /\ HostKeys!Same(hosts, i) \subseteq DOMAIN hosts /\ i \in HostKeys!Same(hosts, i)
         /\ \A j \in HostKeys!Same(hosts, i) : HostKeys!Same(hosts, j) = HostKeys!Same(hosts, i)
            /\ OfHostKeys.Lower[hosts[j]] = OfHostKeys.Lower[hosts[i]]
         /\ HostKeys!Fs!Max(HostKeys!Same(hosts, i)) \in HostKeys!Same(hosts, i)
         /\ HostKeys!Fs!Min(HostKeys!Same(hosts, i)) \in HostKeys!Same(hosts, i)
<1>1. HostKeys!Same(hosts, i) \subseteq DOMAIN hosts /\ i \in HostKeys!Same(hosts, i)
  BY DEF HostKeys!Same
<1>2. DOMAIN hosts = 1..Len(hosts) /\ Len(hosts) \in Nat
  OBVIOUS
<1>3. \A j \in HostKeys!Same(hosts, i) : HostKeys!Same(hosts, j) = HostKeys!Same(hosts, i)
      /\ OfHostKeys.Lower[hosts[j]] = OfHostKeys.Lower[hosts[i]]
  BY DEF HostKeys!Same
<1>4. HostKeys!Fs!Max(HostKeys!Same(hosts, i)) \in HostKeys!Same(hosts, i)
  BY <1>1, <1>2, GreatestOf
<1>5. HostKeys!Fs!Min(HostKeys!Same(hosts, i)) \in HostKeys!Same(hosts, i)
  <2>1. HostKeys!Same(hosts, i) \subseteq Nat /\ HostKeys!Same(hosts, i) # {}
    BY <1>1, <1>2
  <2> QED
    BY <2>1, SmallestOf
<1> QED
  BY <1>1, <1>3, <1>4, <1>5

\* A pattern names hosts by what they are in lower case.
LEMMA NamesAlike ==
  ASSUME NEW p \in HostKeys!Patterns, NEW g \in OfHostKeys.Names, NEW h \in OfHostKeys.Names
  PROVE  /\ OfHostKeys.Lower[g] = OfHostKeys.Lower[h]
            => (HostKeys!NamesHost(p, g) <=> HostKeys!NamesHost(p, h))
         /\ HostKeys!NamesHost(p, g) /\ HostKeys!NamesHost(p, h)
            => OfHostKeys.Lower[g] = OfHostKeys.Lower[h]
BY DEF HostKeys!NamesHost, HostKeys!Covers, HostKeys!Patterns

LEMMA LineParts ==
  ASSUME NEW e \in HostKeys!Line
  PROVE  /\ e.hosts \in Seq(HostKeys!Patterns) /\ e.type \in Nat /\ e.key \in OfHostKeys.Keys
            /\ e.notes \in Seq(STRING)
         /\ \A p \in HostKeys!Sq!ToSet(e.hosts) : p \in HostKeys!Patterns
         /\ e = [marker |-> e.marker, hosts |-> e.hosts, type |-> e.type, key |-> e.key,
            notes |-> e.notes]
         /\ e.marker \in {"", "@revoked", "@cert-authority"}
<1>1. /\ e.hosts \in Seq(HostKeys!Patterns) /\ e.type \in Nat /\ e.key \in OfHostKeys.Keys
      /\ e.notes \in Seq(STRING)
  BY DEF HostKeys!Line
<1>2. \A p \in HostKeys!Sq!ToSet(e.hosts) : p \in HostKeys!Patterns
  BY <1>1 DEF HostKeys!Sq!ToSet
<1>3. e = [marker |-> e.marker, hosts |-> e.hosts, type |-> e.type, key |-> e.key,
      notes |-> e.notes]
  BY Zenon DEF HostKeys!Line
<1>4. e.marker \in {"", "@revoked", "@cert-authority"}
  BY DEF HostKeys!Line
<1> QED
  BY <1>1, <1>2, <1>3, <1>4

\* Whether a line names a host of the list.
Named1(e, hosts) == HostKeys!IsHostKey(e)
  /\ \E i \in DOMAIN hosts : \E p \in HostKeys!Sq!ToSet(e.hosts) : HostKeys!NamesHost(p, hosts[i])

LEMMA HitWhenNamed ==
  ASSUME NEW e \in HostKeys!Line, NEW hosts \in Seq(OfHostKeys.Names)
  PROVE  /\ HostKeys!Hit(e, hosts) \subseteq DOMAIN hosts
         /\ HostKeys!Hit(e, hosts) # {} <=> Named1(e, hosts)
<1>1. HostKeys!Hit(e, hosts) \subseteq DOMAIN hosts
  BY DEF HostKeys!Hit, HostKeys!FirstPlaces
<1>2. HostKeys!Hit(e, hosts) # {} => Named1(e, hosts)
  BY DEF HostKeys!Hit, HostKeys!FirstPlaces, Named1
<1>3. ASSUME Named1(e, hosts) PROVE HostKeys!Hit(e, hosts) # {}
  <2>1. PICK i \in DOMAIN hosts : \E p \in HostKeys!Sq!ToSet(e.hosts)
        : HostKeys!NamesHost(p, hosts[i])
    BY <1>3 DEF Named1
  <2>2. PICK p \in HostKeys!Sq!ToSet(e.hosts) : HostKeys!NamesHost(p, hosts[i])
    BY <2>1
  <2> DEFINE j == HostKeys!Fs!Min(HostKeys!Same(hosts, i))
  <2>3. j \in HostKeys!Same(hosts, i) /\ j \in DOMAIN hosts
        /\ HostKeys!Same(hosts, j) = HostKeys!Same(hosts, i)
        /\ OfHostKeys.Lower[hosts[j]] = OfHostKeys.Lower[hosts[i]]
    BY SamePlaces
  <2>4. j \in HostKeys!FirstPlaces(hosts)
    BY <2>3, Zenon DEF HostKeys!FirstPlaces
  <2> HIDE DEF j
  <2>5. hosts[i] \in OfHostKeys.Names /\ hosts[j] \in OfHostKeys.Names
    BY <2>3
  <2>6. HostKeys!NamesHost(p, hosts[j])
    BY <2>2, <2>3, <2>5, LineParts, NamesAlike
  <2>7. j \in HostKeys!Hit(e, hosts)
    BY <1>3, <2>4, <2>6, Zenon DEF HostKeys!Hit, Named1
  <2> QED
    BY <2>7
<1> QED
  BY <1>1, <1>2, <1>3

LEMMA RestPlaces ==
  ASSUME NEW e \in HostKeys!Line, NEW hosts \in Seq(OfHostKeys.Names)
  PROVE  /\ HostKeys!Rest(e, hosts) \in Seq(HostKeys!Patterns)
         /\ HostKeys!Sq!ToSet(HostKeys!Rest(e, hosts)) =
                       {p \in HostKeys!Sq!ToSet(e.hosts) : \A i \in DOMAIN hosts
                         : ~HostKeys!NamesHost(p, hosts[i])}
<1> DEFINE s == e.hosts
           S == {j \in DOMAIN s : \A i \in DOMAIN hosts : ~HostKeys!NamesHost(s[j], hosts[i])}
<1>1. s \in Seq(HostKeys!Patterns) /\ S \subseteq DOMAIN s
  BY LineParts
<1>2. HostKeys!Rest(e, hosts) = HostKeys!Picked(s, S)
  BY DEF HostKeys!Rest
<1>3. \A j \in S : \A i \in DOMAIN hosts : ~HostKeys!NamesHost(s[j], hosts[i])
  OBVIOUS
<1>4. \A j \in DOMAIN s : (\A i \in DOMAIN hosts : ~HostKeys!NamesHost(s[j], hosts[i])) => j \in S
  OBVIOUS
<1> HIDE DEF s, S
<1>5. /\ HostKeys!Picked(s, S) \in Seq(HostKeys!Patterns)
      /\ \A k \in DOMAIN HostKeys!Picked(s, S) : HostKeys!Sorted(S)[k] \in S
         /\ HostKeys!Picked(s, S)[k] = s[HostKeys!Sorted(S)[k]]
      /\ \A i \in S : \E k \in DOMAIN HostKeys!Picked(s, S) : HostKeys!Sorted(S)[k] = i
      /\ \A k, l \in DOMAIN HostKeys!Picked(s, S) : HostKeys!Sorted(S)[k]
         = HostKeys!Sorted(S)[l] => k = l
  BY <1>1, PickedPlaces, Zenon
<1>6. HostKeys!Sq!ToSet(HostKeys!Picked(s, S))
      = {p \in HostKeys!Sq!ToSet(s) : \A i \in DOMAIN hosts : ~HostKeys!NamesHost(p, hosts[i])}
  <2>1. ASSUME NEW p \in HostKeys!Sq!ToSet(HostKeys!Picked(s, S))
        PROVE  p \in HostKeys!Sq!ToSet(s)
               /\ \A i \in DOMAIN hosts : ~HostKeys!NamesHost(p, hosts[i])
    <3>1. PICK k \in DOMAIN HostKeys!Picked(s, S) : HostKeys!Picked(s, S)[k] = p
      BY DEF HostKeys!Sq!ToSet
    <3>2. HostKeys!Sorted(S)[k] \in S /\ p = s[HostKeys!Sorted(S)[k]]
      BY <3>1, <1>5
    <3> QED
      BY <3>2, <1>1, <1>3 DEF HostKeys!Sq!ToSet
  <2>2. ASSUME NEW p \in HostKeys!Sq!ToSet(s),
               \A i \in DOMAIN hosts : ~HostKeys!NamesHost(p, hosts[i])
        PROVE  p \in HostKeys!Sq!ToSet(HostKeys!Picked(s, S))
    <3>1. PICK j \in DOMAIN s : s[j] = p
      BY DEF HostKeys!Sq!ToSet
    <3>2. j \in S
      BY <3>1, <2>2, <1>4
    <3>3. PICK k \in DOMAIN HostKeys!Picked(s, S) : HostKeys!Sorted(S)[k] = j
      BY <3>2, <1>5
    <3>4. HostKeys!Picked(s, S)[k] = p
      BY <3>1, <3>3, <1>5
    <3> QED
      BY <3>4 DEF HostKeys!Sq!ToSet
  <2> QED
    BY <2>1, <2>2
<1> QED
  BY <1>2, <1>5, <1>6, Zenon DEF s

\* What is left of a line.
LEMMA LeftLine ==
  ASSUME NEW e \in HostKeys!Line, NEW hosts \in Seq(OfHostKeys.Names)
  PROVE  /\ HostKeys!LeftOf(e, hosts) \in HostKeys!Line
         /\ HostKeys!LeftOf(e, hosts).marker = e.marker /\ HostKeys!LeftOf(e, hosts).type = e.type
         /\ HostKeys!LeftOf(e, hosts).key = e.key /\ HostKeys!LeftOf(e, hosts).notes = e.notes
         /\ \A p \in HostKeys!Sq!ToSet(e.hosts) :
              ~HostKeys!IsHostKey(e) \/ (\A i \in DOMAIN hosts : ~HostKeys!NamesHost(p, hosts[i]))
              => p \in HostKeys!Sq!ToSet(HostKeys!LeftOf(e, hosts).hosts)
         /\ \A p \in HostKeys!Sq!ToSet(HostKeys!LeftOf(e, hosts).hosts) :
              p \in HostKeys!Sq!ToSet(e.hosts)
                /\ (HostKeys!IsHostKey(e) => \A i \in DOMAIN hosts : ~HostKeys!NamesHost(p,
                   hosts[i]))
         /\ ~HostKeys!IsHostKey(e) => HostKeys!LeftOf(e, hosts) = e
<1>1. CASE HostKeys!Hit(e, hosts) = {}
  <2>1. HostKeys!LeftOf(e, hosts) = e
    BY <1>1 DEF HostKeys!LeftOf
  <2>2. ~Named1(e, hosts)
    BY <1>1, HitWhenNamed
  <2> QED
    BY <2>1, <2>2 DEF Named1
<1>2. CASE HostKeys!Hit(e, hosts) # {}
  <2>1. HostKeys!LeftOf(e, hosts) = [e EXCEPT !.hosts = HostKeys!Rest(e, hosts)]
    BY <1>2 DEF HostKeys!LeftOf
  <2>2. HostKeys!IsHostKey(e)
    BY <1>2, HitWhenNamed DEF Named1
  <2>3. HostKeys!Rest(e, hosts) \in Seq(HostKeys!Patterns)
    BY RestPlaces
  <2>4. /\ HostKeys!LeftOf(e, hosts) \in HostKeys!Line
        /\ HostKeys!LeftOf(e, hosts).hosts = HostKeys!Rest(e, hosts)
        /\ HostKeys!LeftOf(e, hosts).marker = e.marker /\ HostKeys!LeftOf(e, hosts).type = e.type
        /\ HostKeys!LeftOf(e, hosts).key = e.key /\ HostKeys!LeftOf(e, hosts).notes = e.notes
    BY <2>1, <2>3 DEF HostKeys!Line
  <2> QED
    BY <2>2, <2>4, RestPlaces
<1> QED
  BY <1>1, <1>2

LEMMA GoesWhenNamed ==
  ASSUME NEW e \in HostKeys!Line, NEW hosts \in Seq(OfHostKeys.Names), HostKeys!Goes(e, hosts)
  PROVE  /\ HostKeys!IsHostKey(e) /\ HostKeys!Hit(e, hosts) # {}
         /\ \A p \in HostKeys!Sq!ToSet(e.hosts) : \E i \in DOMAIN hosts
            : HostKeys!NamesHost(p, hosts[i])
<1>1. HostKeys!Hit(e, hosts) # {} /\ HostKeys!Rest(e, hosts) = <<>>
  BY DEF HostKeys!Goes
<1>2. HostKeys!IsHostKey(e)
  BY <1>1, HitWhenNamed DEF Named1
<1>3. HostKeys!Sq!ToSet(HostKeys!Rest(e, hosts)) = {}
  BY <1>1 DEF HostKeys!Sq!ToSet
<1> QED
  BY <1>1, <1>2, <1>3, RestPlaces

\* What RemoveAll leaves: every line that does not go, once, without the names.
LEMMA RemovedPlaces ==
  ASSUME NEW f \in Seq(HostKeys!Line), NEW hosts \in Seq(OfHostKeys.Names)
  PROVE  /\ HostKeys!RemoveAll(f, hosts) \in Seq(HostKeys!Line)
         /\ \E at :
            /\ OneToOne(at, DOMAIN HostKeys!RemoveAll(f, hosts),
               {i \in DOMAIN f : ~HostKeys!Goes(f[i], hosts)})
                    /\ \A k \in DOMAIN HostKeys!RemoveAll(f, hosts)
                       : HostKeys!RemoveAll(f, hosts)[k] = HostKeys!LeftOf(f[at[k]], hosts)
<1> DEFINE s == [k \in DOMAIN f |-> HostKeys!LeftOf(f[k], hosts)]
           S == {k \in DOMAIN f : ~HostKeys!Goes(f[k], hosts)}
<1>1. \A k \in DOMAIN f : HostKeys!LeftOf(f[k], hosts) \in HostKeys!Line
  BY LeftLine
<1>2. DOMAIN f = 1..Len(f) /\ Len(f) \in Nat
  OBVIOUS
<1>3. s \in Seq(HostKeys!Line) /\ DOMAIN s = DOMAIN f
  BY <1>1, <1>2
<1>4. \A k \in DOMAIN f : s[k] = HostKeys!LeftOf(f[k], hosts)
  OBVIOUS
<1>5. HostKeys!RemoveAll(f, hosts) = HostKeys!Picked(s, S)
  BY DEF HostKeys!RemoveAll
<1>6. S \subseteq DOMAIN s /\ \A k \in DOMAIN f : k \in S <=> ~HostKeys!Goes(f[k], hosts)
  BY <1>3
<1> HIDE DEF s, S
<1>7. /\ HostKeys!Picked(s, S) \in Seq(HostKeys!Line)
      /\ \A k \in DOMAIN HostKeys!Picked(s, S) : HostKeys!Sorted(S)[k] \in S
         /\ HostKeys!Picked(s, S)[k] = s[HostKeys!Sorted(S)[k]]
      /\ \A i \in S : \E k \in DOMAIN HostKeys!Picked(s, S) : HostKeys!Sorted(S)[k] = i
      /\ \A k, l \in DOMAIN HostKeys!Picked(s, S) : HostKeys!Sorted(S)[k]
         = HostKeys!Sorted(S)[l] => k = l
  BY <1>3, <1>6, PickedPlaces, Zenon
<1>8. \A k \in DOMAIN HostKeys!Picked(s, S) :
         /\ HostKeys!Sorted(S)[k] \in DOMAIN f /\ ~HostKeys!Goes(f[HostKeys!Sorted(S)[k]], hosts)
         /\ HostKeys!Picked(s, S)[k] = HostKeys!LeftOf(f[HostKeys!Sorted(S)[k]], hosts)
  BY <1>3, <1>4, <1>6, <1>7
<1>9. \A i \in DOMAIN f : ~HostKeys!Goes(f[i], hosts)
      => \E k \in DOMAIN HostKeys!Picked(s, S) : HostKeys!Sorted(S)[k] = i
  BY <1>6, <1>7
<1>10. \A k, l \in DOMAIN HostKeys!Picked(s, S) : HostKeys!Sorted(S)[k] = HostKeys!Sorted(S)[l]
       => k = l
  BY <1>7
<1>11. HostKeys!Picked(s, S) \in Seq(HostKeys!Line)
  BY <1>7
<1>12. OneToOne(HostKeys!Sorted(S), DOMAIN HostKeys!Picked(s, S),
       {i \in DOMAIN f : ~HostKeys!Goes(f[i], hosts)})
  BY <1>8, <1>9, <1>10 DEF OneToOne
<1>13. \A k \in DOMAIN HostKeys!Picked(s, S) : HostKeys!Picked(s, S)[k]
       = HostKeys!LeftOf(f[HostKeys!Sorted(S)[k]], hosts)
  BY <1>8
<1> QED
  BY <1>5, <1>11, <1>12, <1>13, Zenon

LEMMA JoinedAll ==
  ASSUME NEW X, NEW ss \in Seq(Seq(X)), NEW m \in DOMAIN ss
  PROVE  HostKeys!Sq!ToSet(ss[m]) \subseteq HostKeys!Sq!ToSet(HostKeys!Joined(ss))
<1>1. PICK at : JoinedFrom(ss, at)
  BY JoinedPlaces
<1> SUFFICES ASSUME NEW x \in HostKeys!Sq!ToSet(ss[m]) PROVE x
                    \in HostKeys!Sq!ToSet(HostKeys!Joined(ss))
  OBVIOUS
<1>2. PICK j \in DOMAIN ss[m] : ss[m][j] = x
  BY DEF HostKeys!Sq!ToSet
<1>3. PICK k \in DOMAIN HostKeys!Joined(ss) : at[k] = <<m, j>>
  BY <1>1, <1>2 DEF JoinedFrom
<1>4. HostKeys!Joined(ss)[k] = x
  BY <1>1, <1>2, <1>3 DEF JoinedFrom
<1> QED
  BY <1>4 DEF HostKeys!Sq!ToSet

\* No note of a line that goes is lost.
LEMMA NotesKept ==
  ASSUME NEW f \in Seq(HostKeys!Line), NEW hosts \in Seq(OfHostKeys.Names)
  PROVE  /\ HostKeys!NotesOf(f, hosts) \in Seq(Seq(STRING))
            /\ DOMAIN HostKeys!NotesOf(f, hosts) = DOMAIN hosts
         /\ \A k \in DOMAIN f : HostKeys!Goes(f[k], hosts) =>
              \E i \in DOMAIN hosts : HostKeys!Sq!ToSet(f[k].notes)
                \subseteq HostKeys!Sq!ToSet(HostKeys!NotesOf(f, hosts)[i])
<1> DEFINE of(i) == [k \in DOMAIN f |->
                      IF HostKeys!Goes(f[k], hosts)
                        /\ i = HostKeys!Fs!Max(HostKeys!Hit(f[k], hosts)) THEN f[k].notes ELSE <<>>]
<1>1. DOMAIN f = 1..Len(f) /\ Len(f) \in Nat /\ DOMAIN hosts = 1..Len(hosts) /\ Len(hosts) \in Nat
  OBVIOUS
<1>2. \A k \in DOMAIN f : f[k].notes \in Seq(STRING)
  <2>1. \A k \in DOMAIN f : f[k] \in HostKeys!Line
    OBVIOUS
  <2> QED
    BY <2>1, LineParts
<1>3. ASSUME NEW i PROVE of(i) \in Seq(Seq(STRING))
  <2>1. <<>> \in Seq(STRING)
    OBVIOUS
  <2>2. \A k \in DOMAIN f :
          (IF HostKeys!Goes(f[k], hosts) /\ i = HostKeys!Fs!Max(HostKeys!Hit(f[k],
            hosts)) THEN f[k].notes ELSE <<>>) \in Seq(STRING)
    BY <1>2, <2>1
  <2> QED
    BY <1>1, <2>2
<1>4. HostKeys!NotesOf(f, hosts) = [i \in DOMAIN hosts |-> HostKeys!Joined(of(i))]
  BY DEF HostKeys!NotesOf
<1>5. \A i, k : k \in DOMAIN f /\ HostKeys!Goes(f[k], hosts)
      /\ i = HostKeys!Fs!Max(HostKeys!Hit(f[k], hosts)) =>
                  k \in DOMAIN of(i) /\ of(i)[k] = f[k].notes
  OBVIOUS
<1> HIDE DEF of
<1>6. \A i : HostKeys!Joined(of(i)) \in Seq(STRING)
  BY <1>3, JoinedPlaces
<1>7. HostKeys!NotesOf(f, hosts) \in Seq(Seq(STRING))
      /\ DOMAIN HostKeys!NotesOf(f, hosts) = DOMAIN hosts
  BY <1>1, <1>4, <1>6
<1>8. ASSUME NEW k \in DOMAIN f, HostKeys!Goes(f[k], hosts)
      PROVE  \E i \in DOMAIN hosts : HostKeys!Sq!ToSet(f[k].notes)
             \subseteq HostKeys!Sq!ToSet(HostKeys!NotesOf(f, hosts)[i])
  <2>1. HostKeys!Hit(f[k], hosts) \subseteq DOMAIN hosts /\ HostKeys!Hit(f[k], hosts) # {}
    BY <1>8, GoesWhenNamed, HitWhenNamed
  <2>2. PICK i \in DOMAIN hosts : i = HostKeys!Fs!Max(HostKeys!Hit(f[k], hosts))
    BY <2>1, <1>1, GreatestOf
  <2>3. k \in DOMAIN of(i) /\ of(i)[k] = f[k].notes
    BY <1>5, <1>8, <2>2
  <2>4. HostKeys!Sq!ToSet(of(i)[k]) \subseteq HostKeys!Sq!ToSet(HostKeys!Joined(of(i)))
    BY <1>3, <2>3, JoinedAll
  <2> QED
    BY <1>4, <2>3, <2>4
<1> QED
  BY <1>7, <1>8

LEMMA MergedKept ==
  ASSUME NEW f \in Seq(HostKeys!Line), NEW hosts \in Seq(OfHostKeys.Names), NEW i \in DOMAIN hosts
  PROVE  /\ HostKeys!MergedNotes(f, hosts, i) \in Seq(STRING)
         /\ \A j \in HostKeys!Same(hosts, i)
            : HostKeys!Sq!ToSet(HostKeys!NotesOf(f, hosts)[j])
              \subseteq HostKeys!Sq!ToSet(HostKeys!MergedNotes(f, hosts, i))
<1> DEFINE of == [j \in DOMAIN hosts |-> IF j \in HostKeys!Same(hosts, i) THEN HostKeys!NotesOf(f,
    hosts)[j] ELSE <<>>]
<1>1. DOMAIN hosts = 1..Len(hosts) /\ Len(hosts) \in Nat
  OBVIOUS
<1>2. \A j \in DOMAIN hosts : HostKeys!NotesOf(f, hosts)[j] \in Seq(STRING)
  BY NotesKept
<1>3. of \in Seq(Seq(STRING))
  <2>1. <<>> \in Seq(STRING)
    OBVIOUS
  <2>2. \A j \in DOMAIN hosts
        : (IF j \in HostKeys!Same(hosts, i) THEN HostKeys!NotesOf(f, hosts)[j] ELSE <<>>)
          \in Seq(STRING)
    BY <1>2, <2>1
  <2> QED
    BY <1>1, <2>2
<1>4. HostKeys!MergedNotes(f, hosts, i) = HostKeys!Joined(of)
  BY DEF HostKeys!MergedNotes
<1>5. \A j \in HostKeys!Same(hosts, i) : j \in DOMAIN of /\ of[j] = HostKeys!NotesOf(f, hosts)[j]
  BY SamePlaces
<1> HIDE DEF of
<1>6. HostKeys!Joined(of) \in Seq(STRING)
  BY <1>3, JoinedPlaces
<1>7. \A j \in DOMAIN of : HostKeys!Sq!ToSet(of[j]) \subseteq HostKeys!Sq!ToSet(HostKeys!Joined(of))
  BY <1>3, JoinedAll
<1> QED
  BY <1>4, <1>5, <1>6, <1>7

\* A run's lines: one for every host, where it was given last.
KeysOf(found) == [h \in OfHostKeys.Hosts |-> <<[type |-> HostKeys!KeyType, key |-> found[h]]>>]
NewLine(f, hosts, found, i) ==
  [marker |-> "", hosts |-> <<HostKeys!Plain(hosts[i])>>, type |-> HostKeys!KeyType,
    key |-> found[hosts[i]],
   notes |-> HostKeys!MergedNotes(f, hosts, i)]
LastPlaces(hosts) == {i \in DOMAIN hosts : i = HostKeys!Fs!Max(HostKeys!Same(hosts, i))}

LEMMA NewLineTyped ==
  ASSUME NEW f \in Seq(HostKeys!Line), NEW hosts \in Seq(OfHostKeys.Hosts), NEW found,
         \A i \in DOMAIN hosts : found[hosts[i]] \in OfHostKeys.Keys,
         NEW i \in DOMAIN hosts
  PROVE  /\ NewLine(f, hosts, found, i) \in HostKeys!Line
         /\ HostKeys!Sq!ToSet(NewLine(f, hosts, found, i).hosts) = {HostKeys!Plain(hosts[i])}
<1>1. OfHostKeys.Hosts \subseteq OfHostKeys.Names
  BY HostKeysGiven
<1>2. hosts \in Seq(OfHostKeys.Names) /\ hosts[i] \in OfHostKeys.Names
  BY <1>1
<1>3. HostKeys!MergedNotes(f, hosts, i) \in Seq(STRING)
  BY <1>2, MergedKept
<1>4. HostKeys!Plain(hosts[i]) \in HostKeys!Patterns
  BY <1>2 DEF HostKeys!Plain, HostKeys!Patterns
<1>5. <<HostKeys!Plain(hosts[i])>> \in Seq(HostKeys!Patterns)
  <2> HIDE DEF HostKeys!Plain
  <2> QED
    BY <1>4
<1>6. NewLine(f, hosts, found, i) \in HostKeys!Line
  BY <1>3, <1>5 DEF NewLine, HostKeys!Line, HostKeys!KeyType
<1>7. HostKeys!Sq!ToSet(<<HostKeys!Plain(hosts[i])>>) = {HostKeys!Plain(hosts[i])}
  BY DEF HostKeys!Sq!ToSet
<1> QED
  BY <1>6, <1>7 DEF NewLine

LEMMA NewPlaces ==
  ASSUME NEW f \in Seq(HostKeys!Line), NEW hosts \in Seq(OfHostKeys.Hosts), NEW found,
         \A i \in DOMAIN hosts : found[hosts[i]] \in OfHostKeys.Keys
  PROVE  LET g == HostKeys!Joined(HostKeys!NewLines(f, hosts, KeysOf(found))) IN
         /\ g \in Seq(HostKeys!Line)
         /\ \E at : /\ OneToOne(at, DOMAIN g, LastPlaces(hosts))
                    /\ \A k \in DOMAIN g : g[k] = NewLine(f, hosts, found, at[k])
<1> DEFINE ss == HostKeys!NewLines(f, hosts, KeysOf(found))
           g == HostKeys!Joined(ss)
           line(i) == NewLine(f, hosts, found, i)
<1>1. DOMAIN ss = DOMAIN hosts /\ DOMAIN hosts = 1..Len(hosts) /\ Len(hosts) \in Nat
  BY DEF HostKeys!NewLines
<1>2. \A i \in DOMAIN hosts : line(i) \in HostKeys!Line
  BY NewLineTyped
<1>3. ASSUME NEW i \in DOMAIN hosts
      PROVE  /\ i \in LastPlaces(hosts) => ss[i] = <<line(i)>>
             /\ i \notin LastPlaces(hosts) => ss[i] = <<>>
  <2>1. hosts[i] \in OfHostKeys.Hosts
    OBVIOUS
  <2> DEFINE keys == KeysOf(found)[hosts[i]]
  <2>2. keys = <<[type |-> HostKeys!KeyType, key |-> found[hosts[i]]]>>
    BY <2>1 DEF KeysOf
  <2>3. DOMAIN keys = {1} /\ keys[1].type = HostKeys!KeyType /\ keys[1].key = found[hosts[i]]
    BY <2>2
  <2> HIDE DEF keys
  <2>4. HostKeys!KeyLines(hosts[i], keys, HostKeys!MergedNotes(f, hosts, i)) = <<line(i)>>
    <3>1. HostKeys!KeyLines(hosts[i], keys, HostKeys!MergedNotes(f, hosts, i))
          = [j \in {1} |-> line(i)]
      BY <2>3 DEF HostKeys!KeyLines, NewLine
    <3>2. [j \in {1} |-> line(i)] = <<line(i)>>
      <4> HIDE DEF line
      <4> QED
        OBVIOUS
    <3> QED
      BY <3>1, <3>2, Zenon
  <2>5. ss[i] = IF i = HostKeys!Fs!Max(HostKeys!Same(hosts, i))
                THEN HostKeys!KeyLines(hosts[i], keys, HostKeys!MergedNotes(f, hosts, i)) ELSE <<>>
    BY DEF HostKeys!NewLines, keys
  <2> HIDE DEF line, ss
  <2> QED
    BY <2>4, <2>5 DEF LastPlaces
<1> HIDE DEF ss, line
<1>4. ASSUME NEW i \in DOMAIN hosts PROVE ss[i] \in Seq(HostKeys!Line)
  <2>1. line(i) \in HostKeys!Line
    BY <1>2
  <2>2. <<line(i)>> \in Seq(HostKeys!Line)
    BY <2>1
  <2>3. <<>> \in Seq(HostKeys!Line)
    OBVIOUS
  <2> QED
    BY <1>3, <2>2, <2>3, Zenon
<1>5. ss \in Seq(Seq(HostKeys!Line))
  <2>1. ss = [i \in 1..Len(hosts) |-> ss[i]]
    BY <1>1, Zenon DEF ss, HostKeys!NewLines
  <2> QED
    BY <1>1, <1>4, <2>1
<1>6. g \in Seq(HostKeys!Line)
  BY <1>5, JoinedPlaces
<1>7. PICK from : JoinedFrom(ss, from)
  BY <1>5, JoinedPlaces
<1> DEFINE at == [k \in DOMAIN g |-> from[k][1]]
<1>8. ASSUME NEW k \in DOMAIN g
      PROVE  from[k][1] \in LastPlaces(hosts) /\ from[k][2] = 1 /\ g[k] = line(from[k][1])
  <2>1. from[k][1] \in DOMAIN ss /\ from[k][2] \in DOMAIN ss[from[k][1]]
        /\ g[k] = ss[from[k][1]][from[k][2]]
    BY <1>7 DEF JoinedFrom
  <2>2. from[k][1] \in LastPlaces(hosts)
    <3>1. SUFFICES ASSUME from[k][1] \notin LastPlaces(hosts) PROVE FALSE
      OBVIOUS
    <3>2. ss[from[k][1]] = <<>>
      BY <1>1, <1>3, <2>1, <3>1
    <3> QED
      BY <2>1, <3>2
  <2>3. ss[from[k][1]] = <<line(from[k][1])>>
    BY <1>1, <1>3, <2>1, <2>2
  <2> QED
    BY <2>1, <2>2, <2>3
<1>9. \A k \in DOMAIN g : at[k] \in LastPlaces(hosts)
  BY <1>8
<1>10. \A i \in LastPlaces(hosts) : \E k \in DOMAIN g : at[k] = i
  <2> TAKE i \in LastPlaces(hosts)
  <2>1. i \in DOMAIN ss /\ ss[i] = <<line(i)>>
    BY <1>1, <1>3 DEF LastPlaces
  <2>2. 1 \in DOMAIN ss[i]
    BY <2>1
  <2>3. PICK k \in DOMAIN g : from[k] = <<i, 1>>
    BY <1>7, <2>1, <2>2 DEF JoinedFrom
  <2>4. at[k] = i
    BY <2>3
  <2> QED
    BY <2>4
<1>11. \A k, l \in DOMAIN g : at[k] = at[l] => k = l
  <2> TAKE k, l \in DOMAIN g
  <2> HAVE at[k] = at[l]
  <2>1. from[k][1] = from[l][1] /\ from[k][2] = from[l][2]
    BY <1>8
  <2> QED
    BY <1>7, <2>1 DEF JoinedFrom
<1>12. \A k \in DOMAIN g : g[k] = line(at[k])
  BY <1>8
<1>13. OneToOne(at, DOMAIN g, LastPlaces(hosts))
  BY <1>9, <1>10, <1>11, Zenon DEF OneToOne
<1> HIDE DEF at
<1>14. \E a : OneToOne(a, DOMAIN g, LastPlaces(hosts)) /\ \A k \in DOMAIN g : g[k] = line(a[k])
  BY <1>12, <1>13
<1> QED
  BY <1>6, <1>14, Zenon DEF ss, line

\* What a line says, whatever the notes above it.
SameLine(a, b) == a.marker = b.marker /\ a.hosts = b.hosts /\ a.type = b.type /\ a.key = b.key

\* A file g made of f: S the places of the lines that are left, N the hosts a
\* line is written for, and at where a line comes from.
WrittenFrom(f, hosts, found, N, g, S, at) ==
  /\ S \subseteq DOMAIN g
  /\ OneToOne(at, S, {i \in DOMAIN f : ~HostKeys!Goes(f[i], hosts)})
  /\ \A k \in S : SameLine(g[k], HostKeys!LeftOf(f[at[k]], hosts))
  /\ OneToOne(at, DOMAIN g \ S, N)
  /\ \A k \in DOMAIN g \ S : SameLine(g[k], NewLine(f, hosts, found, at[k]))
HostKeysWritten(f, hosts, found, N, g) == \E S, at : WrittenFrom(f, hosts, found, N, g, S, at)

LEMMA RemovedFrom ==
  ASSUME NEW f \in Seq(HostKeys!Line), NEW hosts \in Seq(OfHostKeys.Names), NEW found
  PROVE  HostKeys!RemoveAll(f, hosts) \in Seq(HostKeys!Line)
         /\ HostKeysWritten(f, hosts, found, {}, HostKeys!RemoveAll(f, hosts))
<1> DEFINE g == HostKeys!RemoveAll(f, hosts)
<1>1. g \in Seq(HostKeys!Line)
  BY RemovedPlaces
<1>2. PICK at : /\ OneToOne(at, DOMAIN g, {i \in DOMAIN f : ~HostKeys!Goes(f[i], hosts)})
                /\ \A k \in DOMAIN g : g[k] = HostKeys!LeftOf(f[at[k]], hosts)
  BY RemovedPlaces
<1> HIDE DEF g
<1>3. OneToOne(at, DOMAIN g \ DOMAIN g, {})
  BY DEF OneToOne
<1>4. WrittenFrom(f, hosts, found, {}, g, DOMAIN g, at)
  BY <1>2, <1>3 DEF WrittenFrom, SameLine
<1> QED
  BY <1>1, <1>4, Zenon DEF HostKeysWritten, g

LEMMA ReplacedFrom ==
  ASSUME NEW f \in Seq(HostKeys!Line), NEW hosts \in Seq(OfHostKeys.Hosts), NEW found,
         \A i \in DOMAIN hosts : found[hosts[i]] \in OfHostKeys.Keys
  PROVE  /\ HostKeys!ReplaceAll(f, hosts, KeysOf(found)) \in Seq(HostKeys!Line)
         /\ HostKeysWritten(f, hosts, found, LastPlaces(hosts), HostKeys!ReplaceAll(f, hosts,
            KeysOf(found)))
<1> DEFINE r == HostKeys!RemoveAll(f, hosts)
           x == HostKeys!Joined(HostKeys!NewLines(f, hosts, KeysOf(found)))
           g == r \o x
           N == LastPlaces(hosts)
           R == {i \in DOMAIN f : ~HostKeys!Goes(f[i], hosts)}
<1>1. hosts \in Seq(OfHostKeys.Names)
  <2>1. OfHostKeys.Hosts \subseteq OfHostKeys.Names
    BY HostKeysGiven
  <2> QED
    BY <2>1
<1>2. r \in Seq(HostKeys!Line)
  BY <1>1, RemovedPlaces
<1>3. PICK a : OneToOne(a, DOMAIN r, R)
      /\ \A k \in DOMAIN r : r[k] = HostKeys!LeftOf(f[a[k]], hosts)
  BY <1>1, RemovedPlaces
<1>4. x \in Seq(HostKeys!Line)
  BY NewPlaces
<1>5. PICK b : OneToOne(b, DOMAIN x, N) /\ \A k \in DOMAIN x : x[k] = NewLine(f, hosts, found, b[k])
  BY NewPlaces
<1>6. HostKeys!ReplaceAll(f, hosts, KeysOf(found)) = g
  BY DEF HostKeys!ReplaceAll
<1> HIDE DEF r, x, N, R
<1> DEFINE n == Len(r)
           S == DOMAIN r
           at == [k \in DOMAIN g |-> IF k \in DOMAIN r THEN a[k] ELSE b[k - n]]
<1>7. /\ n \in Nat /\ DOMAIN r = 1..n /\ Len(x) \in Nat /\ DOMAIN x = 1..Len(x)
      /\ g \in Seq(HostKeys!Line) /\ DOMAIN g = 1..(n + Len(x))
      /\ \A k \in DOMAIN g : g[k] = IF k \in DOMAIN r THEN r[k] ELSE x[k - n]
  BY <1>2, <1>4
<1> HIDE DEF n, g
<1>8. S \subseteq DOMAIN g
  BY <1>7
<1>9. \A k \in S : at[k] = a[k] /\ g[k] = r[k]
  BY <1>7, <1>8
<1>10. \A k \in DOMAIN g \ S : k - n \in DOMAIN x /\ at[k] = b[k - n] /\ g[k] = x[k - n]
  BY <1>7
<1>11. \A j \in DOMAIN x : n + j \in DOMAIN g \ S /\ at[n + j] = b[j]
  <2> TAKE j \in DOMAIN x
  <2>1. n + j \in DOMAIN g \ S /\ (n + j) - n = j
    BY <1>7
  <2> QED
    BY <1>10, <2>1
<1> HIDE DEF at
<1>12. OneToOne(at, S, R)
  BY <1>3, <1>9 DEF OneToOne
<1>13. \A k \in S : SameLine(g[k], HostKeys!LeftOf(f[at[k]], hosts))
  BY <1>3, <1>9 DEF SameLine
<1> HIDE DEF S
<1>14. OneToOne(at, DOMAIN g \ S, N)
  <2>1. \A k \in DOMAIN g \ S : at[k] \in N
    BY <1>5, <1>10 DEF OneToOne
  <2>2. \A i \in N : \E k \in DOMAIN g \ S : at[k] = i
    <3> TAKE i \in N
    <3>1. PICK j \in DOMAIN x : b[j] = i
      BY <1>5 DEF OneToOne
    <3> QED
      BY <3>1, <1>11
  <2>3. ASSUME NEW k \in DOMAIN g \ S, NEW l \in DOMAIN g \ S, at[k] = at[l] PROVE k = l
    <3>1. k - n = l - n
      BY <2>3, <1>5, <1>10 DEF OneToOne
    <3> QED
      BY <3>1, <1>7
  <2> QED
    BY <2>1, <2>2, <2>3, Zenon DEF OneToOne
<1>15. \A k \in DOMAIN g \ S : SameLine(g[k], NewLine(f, hosts, found, at[k]))
  BY <1>5, <1>10 DEF SameLine
<1>16. WrittenFrom(f, hosts, found, N, g, S, at)
  BY <1>8, <1>12, <1>13, <1>14, <1>15, Zenon DEF WrittenFrom, R
<1> QED
  BY <1>6, <1>7, <1>16, Zenon DEF HostKeysWritten, N

\* It is still so when the lines are sorted, and read again.
LEMMA WrittenSorted ==
  ASSUME NEW f, NEW hosts, NEW found, NEW N, NEW g, HostKeysWritten(f, hosts, found, N, g),
         NEW h, NEW b, OneToOne(b, DOMAIN h, DOMAIN g), \A k \in DOMAIN h : SameLine(h[k], g[b[k]])
  PROVE  HostKeysWritten(f, hosts, found, N, h)
<1> DEFINE R == {i \in DOMAIN f : ~HostKeys!Goes(f[i], hosts)}
<1>1. PICK S, a : WrittenFrom(f, hosts, found, N, g, S, a)
  BY Zenon DEF HostKeysWritten
<1> DEFINE T == {k \in DOMAIN h : b[k] \in S}
           at == [k \in DOMAIN h |-> a[b[k]]]
<1>2. /\ S \subseteq DOMAIN g /\ OneToOne(a, S, R)
      /\ \A k \in S : SameLine(g[k], HostKeys!LeftOf(f[a[k]], hosts))
      /\ OneToOne(a, DOMAIN g \ S, N)
      /\ \A k \in DOMAIN g \ S : SameLine(g[k], NewLine(f, hosts, found, a[k]))
  BY <1>1 DEF WrittenFrom
<1> HIDE DEF R
<1>3. T \subseteq DOMAIN h
  OBVIOUS
<1>4. OneToOne(b, T, S)
  BY <1>2 DEF OneToOne
<1>5. OneToOne(b, DOMAIN h \ T, DOMAIN g \ S)
  BY <1>2 DEF OneToOne
<1>6. \A k \in DOMAIN h : at[k] = a[b[k]]
  OBVIOUS
<1> HIDE DEF T, at
<1>7. OneToOne(at, T, R)
  BY <1>2, <1>3, <1>4, <1>6 DEF OneToOne
<1>8. OneToOne(at, DOMAIN h \ T, N)
  BY <1>2, <1>3, <1>5, <1>6 DEF OneToOne
<1>9. \A k \in T : SameLine(h[k], HostKeys!LeftOf(f[at[k]], hosts))
  BY <1>2, <1>3, <1>4, <1>6 DEF OneToOne, SameLine
<1>10. \A k \in DOMAIN h \ T : SameLine(h[k], NewLine(f, hosts, found, at[k]))
  BY <1>2, <1>3, <1>5, <1>6 DEF OneToOne, SameLine
<1>11. WrittenFrom(f, hosts, found, N, h, T, at)
  BY <1>3, <1>7, <1>8, <1>9, <1>10, Zenon DEF WrittenFrom, R
<1> QED
  BY <1>11, Zenon DEF HostKeysWritten

LEMMA ParseKeeps ==
  ASSUME NEW header \in Seq(STRING), NEW f \in Seq(HostKeys!Line)
  PROVE  /\ HostKeys!Parse(header, f).header \in Seq(STRING)
            /\ HostKeys!Parse(header, f).lines \in Seq(HostKeys!Line)
         /\ DOMAIN HostKeys!Parse(header, f).lines = DOMAIN f
         /\ \A k \in DOMAIN f : SameLine(HostKeys!Parse(header, f).lines[k], f[k])
         /\ HostKeys!Sq!ToSet(header) \subseteq HostKeys!Sq!ToSet(HostKeys!Parse(header, f).header)
         /\ \A k \in DOMAIN f : HostKeys!Sq!ToSet(f[k].notes)
            \subseteq HostKeys!NotesIn(HostKeys!Parse(header, f))
<1>1. CASE f = <<>>
  BY <1>1 DEF HostKeys!Parse
<1>2. CASE f # <<>>
  <2> DEFINE g == [f EXCEPT ![1].notes = <<>>]
             t == header \o f[1].notes
  <2>1. HostKeys!Parse(header, f) = [header |-> t, lines |-> g]
    BY <1>2 DEF HostKeys!Parse
  <2>2. DOMAIN f = 1..Len(f) /\ Len(f) \in Nat /\ 1 \in DOMAIN f
    BY <1>2
  <2>3. f[1] \in HostKeys!Line /\ f[1].notes \in Seq(STRING)
    <3>1. f[1] \in HostKeys!Line
      BY <2>2
    <3> QED
      BY <3>1, LineParts
  <2>4. DOMAIN g = DOMAIN f /\ \A k \in DOMAIN f : k # 1 => g[k] = f[k]
    OBVIOUS
  <2>5. g[1] = [f[1] EXCEPT !.notes = <<>>]
    BY <2>2
  <2>6. g[1] \in HostKeys!Line /\ SameLine(g[1], f[1])
    <3>1. <<>> \in Seq(STRING)
      OBVIOUS
    <3> HIDE DEF g
    <3> QED
      BY <2>3, <2>5, <3>1 DEF HostKeys!Line, SameLine
  <2>7. g \in Seq(HostKeys!Line)
    <3>1. \A k \in DOMAIN f : g[k] \in HostKeys!Line
      <4> TAKE k \in DOMAIN f
      <4>1. f[k] \in HostKeys!Line
        OBVIOUS
      <4> HIDE DEF g
      <4> QED
        BY <2>4, <2>6, <4>1
    <3>2. g = [k \in 1..Len(f) |-> g[k]]
      BY <2>2
    <3> HIDE DEF g
    <3> QED
      BY <2>2, <3>1, <3>2
  <2>8. \A k \in DOMAIN f : SameLine(g[k], f[k])
    <3> HIDE DEF g
    <3> QED
      BY <2>4, <2>6 DEF SameLine
  <2>9. /\ t \in Seq(STRING) /\ HostKeys!Sq!ToSet(header) \subseteq HostKeys!Sq!ToSet(t)
        /\ HostKeys!Sq!ToSet(f[1].notes) \subseteq HostKeys!Sq!ToSet(t)
    <3> DEFINE m == f[1].notes
    <3>1. m \in Seq(STRING)
      BY <2>3
    <3> HIDE DEF m
    <3>2. t = header \o m
      BY DEF m
    <3> HIDE DEF t
    <3>3. t \in Seq(STRING) /\ Len(t) = Len(header) + Len(m)
      BY <3>1, <3>2
    <3>4. HostKeys!Sq!ToSet(header) \subseteq HostKeys!Sq!ToSet(t)
      <4>1. \A i \in DOMAIN header : i \in DOMAIN t /\ t[i] = header[i]
        BY <3>1, <3>2
      <4> QED
        BY <4>1 DEF HostKeys!Sq!ToSet
    <3>5. HostKeys!Sq!ToSet(m) \subseteq HostKeys!Sq!ToSet(t)
      <4>1. \A i \in DOMAIN m : Len(header) + i \in DOMAIN t /\ t[Len(header) + i] = m[i]
        BY <3>1, <3>2
      <4> QED
        BY <4>1 DEF HostKeys!Sq!ToSet
    <3> QED
      BY <3>3, <3>4, <3>5 DEF m
  <2>10. ASSUME NEW k \in DOMAIN f PROVE HostKeys!Sq!ToSet(f[k].notes)
                \subseteq HostKeys!Sq!ToSet(t)
                  \cup UNION {HostKeys!Sq!ToSet(g[i].notes) : i \in DOMAIN g}
    <3> HIDE DEF g, t
    <3>1. CASE k = 1
      BY <2>9, <3>1
    <3>2. CASE k # 1
      <4>1. k \in DOMAIN g /\ g[k] = f[k]
        BY <2>4, <3>2
      <4> QED
        BY <4>1
    <3> QED
      BY <3>1, <3>2
  <2> HIDE DEF g, t
  <2>11. HostKeys!Parse(header, f).header = t /\ HostKeys!Parse(header, f).lines = g
    BY <2>1
  <2> QED
    BY <2>4, <2>7, <2>8, <2>9, <2>10, <2>11 DEF HostKeys!NotesIn
<1> QED
  BY <1>1, <1>2

\* The hosts of a list, in lower case.
Abouts(hosts) == {OfHostKeys.Lower[hosts[i]] : i \in DOMAIN hosts}

\* Who names a host.
NamesIn(e, h) == HostKeys!IsHostKey(e)
  /\ \E p \in HostKeys!Sq!ToSet(e.hosts) : HostKeys!NamesHost(p, h)

LEMMA NamedAre ==
  ASSUME NEW f, NEW h, NEW i
  PROVE  i \in HostKeys!Named(f, h) <=> i \in DOMAIN f /\ NamesIn(f[i], h)
BY DEF HostKeys!Named, NamesIn

\* Of a line that is left only the names of the hosts of the list are gone.
LEMMA LeftNames ==
  ASSUME NEW e \in HostKeys!Line, NEW hosts \in Seq(OfHostKeys.Names), NEW h \in OfHostKeys.Names
  PROVE  /\ OfHostKeys.Lower[h] \in Abouts(hosts) => ~NamesIn(HostKeys!LeftOf(e, hosts), h)
         /\ OfHostKeys.Lower[h] \notin Abouts(hosts) =>
              /\ NamesIn(HostKeys!LeftOf(e, hosts), h) <=> NamesIn(e, h)
              /\ NamesIn(e, h) => ~HostKeys!Goes(e, hosts)
<1>1. \A i \in DOMAIN hosts : hosts[i] \in OfHostKeys.Names
  OBVIOUS
<1>2. \A p \in HostKeys!Sq!ToSet(e.hosts) : p \in HostKeys!Patterns
  BY LineParts
<1>3. HostKeys!IsHostKey(HostKeys!LeftOf(e, hosts)) <=> HostKeys!IsHostKey(e)
  BY LeftLine DEF HostKeys!IsHostKey
<1>4. ASSUME OfHostKeys.Lower[h] \in Abouts(hosts),
             NamesIn(HostKeys!LeftOf(e, hosts), h) PROVE FALSE
  <2>1. PICK i \in DOMAIN hosts : OfHostKeys.Lower[hosts[i]] = OfHostKeys.Lower[h]
    BY <1>4 DEF Abouts
  <2>2. PICK p \in HostKeys!Sq!ToSet(HostKeys!LeftOf(e, hosts).hosts) : HostKeys!NamesHost(p, h)
    BY <1>4 DEF NamesIn
  <2>3. p \in HostKeys!Sq!ToSet(e.hosts) /\ ~HostKeys!NamesHost(p, hosts[i])
    BY <1>3, <1>4, LeftLine DEF NamesIn
  <2> QED
    BY <1>1, <1>2, <2>1, <2>2, <2>3, NamesAlike
<1>5. ASSUME OfHostKeys.Lower[h] \notin Abouts(hosts), NEW p \in HostKeys!Sq!ToSet(e.hosts),
             HostKeys!NamesHost(p, h), NEW i \in DOMAIN hosts
      PROVE  ~HostKeys!NamesHost(p, hosts[i])
  <2>1. OfHostKeys.Lower[hosts[i]] # OfHostKeys.Lower[h]
    BY <1>5 DEF Abouts
  <2> QED
    BY <1>1, <1>2, <1>5, <2>1, NamesAlike
<1>6. ASSUME OfHostKeys.Lower[h] \notin Abouts(hosts), NamesIn(e, h)
      PROVE  NamesIn(HostKeys!LeftOf(e, hosts), h) /\ ~HostKeys!Goes(e, hosts)
  <2>1. PICK p \in HostKeys!Sq!ToSet(e.hosts) : HostKeys!NamesHost(p, h)
    BY <1>6 DEF NamesIn
  <2>2. \A i \in DOMAIN hosts : ~HostKeys!NamesHost(p, hosts[i])
    BY <1>5, <1>6, <2>1
  <2>3. p \in HostKeys!Sq!ToSet(HostKeys!LeftOf(e, hosts).hosts)
    BY <2>2, LeftLine
  <2>4. ~HostKeys!Goes(e, hosts)
    BY <2>2, GoesWhenNamed
  <2> QED
    BY <1>3, <1>6, <2>1, <2>3, <2>4 DEF NamesIn
<1>7. NamesIn(HostKeys!LeftOf(e, hosts), h) => NamesIn(e, h)
  BY <1>3, LeftLine DEF NamesIn
<1> QED
  BY <1>4, <1>6, <1>7

LEMMA NewNames ==
  ASSUME NEW f \in Seq(HostKeys!Line), NEW hosts \in Seq(OfHostKeys.Hosts), NEW found,
         \A i \in DOMAIN hosts : found[hosts[i]] \in OfHostKeys.Keys,
         NEW i \in DOMAIN hosts, NEW h \in OfHostKeys.Names
  PROVE  NamesIn(NewLine(f, hosts, found, i), h)
         <=> OfHostKeys.Lower[hosts[i]] = OfHostKeys.Lower[h]
<1> DEFINE e == NewLine(f, hosts, found, i)
<1>1. e.hosts = <<HostKeys!Plain(hosts[i])>>
  BY DEF NewLine
<1>2. HostKeys!Sq!ToSet(e.hosts) = {HostKeys!Plain(hosts[i])}
  <2> HIDE DEF e
  <2>1. HostKeys!Sq!ToSet(<<HostKeys!Plain(hosts[i])>>) = {HostKeys!Plain(hosts[i])}
    BY DEF HostKeys!Sq!ToSet
  <2> QED
    BY <1>1, <2>1, Zenon
<1>3. HostKeys!IsHostKey(e)
  BY DEF NewLine, HostKeys!IsHostKey
<1>4. HostKeys!NamesHost(HostKeys!Plain(hosts[i]), h)
      <=> OfHostKeys.Lower[hosts[i]] = OfHostKeys.Lower[h]
  BY DEF HostKeys!NamesHost, HostKeys!Covers, HostKeys!Plain
<1> HIDE DEF e
<1> QED
  BY <1>3, <1>2, <1>4, Zenon DEF NamesIn, e

LEMMA SameNames ==
  ASSUME NEW a, NEW b, SameLine(a, b), NEW h
  PROVE  NamesIn(a, h) <=> NamesIn(b, h)
BY DEF SameLine, NamesIn, HostKeys!IsHostKey

LEMMA LastPlace ==
  ASSUME NEW hosts \in Seq(OfHostKeys.Names), NEW i \in DOMAIN hosts
  PROVE  \E j \in LastPlaces(hosts) : j \in DOMAIN hosts
         /\ OfHostKeys.Lower[hosts[j]] = OfHostKeys.Lower[hosts[i]]
<1> DEFINE j == HostKeys!Fs!Max(HostKeys!Same(hosts, i))
<1>1. j \in HostKeys!Same(hosts, i) /\ j \in DOMAIN hosts
      /\ HostKeys!Same(hosts, j) = HostKeys!Same(hosts, i)
      /\ OfHostKeys.Lower[hosts[j]] = OfHostKeys.Lower[hosts[i]]
  BY SamePlaces
<1>2. j \in LastPlaces(hosts)
  BY <1>1, Zenon DEF LastPlaces
<1> QED
  BY <1>1, <1>2

LEMMA LastOnce ==
  ASSUME NEW hosts \in Seq(OfHostKeys.Names), NEW i \in LastPlaces(hosts),
         NEW j \in LastPlaces(hosts),
         OfHostKeys.Lower[hosts[i]] = OfHostKeys.Lower[hosts[j]]
  PROVE  i = j
<1>1. i \in DOMAIN hosts /\ j \in DOMAIN hosts /\ i = HostKeys!Fs!Max(HostKeys!Same(hosts, i))
      /\ j = HostKeys!Fs!Max(HostKeys!Same(hosts, j))
  BY DEF LastPlaces
<1>2. HostKeys!Same(hosts, i) = HostKeys!Same(hosts, j)
  BY <1>1 DEF HostKeys!Same
<1> QED
  BY <1>1, <1>2, Zenon

\* The notes above the lines of a file.
LineNotes(f) == UNION {HostKeys!Sq!ToSet(f[i].notes) : i \in DOMAIN f}

LEMMA ReplacedNotes ==
  ASSUME NEW f \in Seq(HostKeys!Line), NEW hosts \in Seq(OfHostKeys.Hosts), NEW found,
         \A i \in DOMAIN hosts : found[hosts[i]] \in OfHostKeys.Keys
  PROVE  LineNotes(f) \subseteq LineNotes(HostKeys!ReplaceAll(f, hosts, KeysOf(found)))
<1> DEFINE r == HostKeys!RemoveAll(f, hosts)
           x == HostKeys!Joined(HostKeys!NewLines(f, hosts, KeysOf(found)))
           g == r \o x
<1>1. hosts \in Seq(OfHostKeys.Names) /\ \A i \in DOMAIN hosts : i \in Nat
  <2>1. OfHostKeys.Hosts \subseteq OfHostKeys.Names
    BY HostKeysGiven
  <2> QED
    BY <2>1
<1>2. r \in Seq(HostKeys!Line)
  BY <1>1, RemovedPlaces
<1>3. PICK a : /\ OneToOne(a, DOMAIN r, {i \in DOMAIN f : ~HostKeys!Goes(f[i], hosts)})
               /\ \A k \in DOMAIN r : r[k] = HostKeys!LeftOf(f[a[k]], hosts)
  BY <1>1, RemovedPlaces
<1>4. x \in Seq(HostKeys!Line)
  BY NewPlaces
<1>5. PICK b : OneToOne(b, DOMAIN x, LastPlaces(hosts))
      /\ \A k \in DOMAIN x : x[k] = NewLine(f, hosts, found, b[k])
  BY NewPlaces
<1>6. HostKeys!ReplaceAll(f, hosts, KeysOf(found)) = g
  BY DEF HostKeys!ReplaceAll
<1>7. \A m : NewLine(f, hosts, found, m).notes = HostKeys!MergedNotes(f, hosts, m)
  BY DEF NewLine
<1> HIDE DEF r, x
<1>8. /\ \A k \in DOMAIN r : k \in DOMAIN g /\ g[k] = r[k]
      /\ \A k \in DOMAIN x : Len(r) + k \in DOMAIN g /\ g[Len(r) + k] = x[k]
  BY <1>2, <1>4
<1> HIDE DEF g
<1>9. ASSUME NEW i \in DOMAIN f,
             ~HostKeys!Goes(f[i], hosts) PROVE \E k \in DOMAIN g : g[k].notes = f[i].notes
  <2>1. PICK k \in DOMAIN r : a[k] = i
    BY <1>3, <1>9 DEF OneToOne
  <2>2. f[i] \in HostKeys!Line
    OBVIOUS
  <2>3. HostKeys!LeftOf(f[i], hosts).notes = f[i].notes
    BY <1>1, <2>2, LeftLine
  <2> QED
    BY <1>3, <1>8, <2>1, <2>3
<1>10. ASSUME NEW i \in DOMAIN f, HostKeys!Goes(f[i], hosts)
      PROVE  \E k \in DOMAIN g : HostKeys!Sq!ToSet(f[i].notes)
             \subseteq HostKeys!Sq!ToSet(g[k].notes)
  <2>1. PICK j \in DOMAIN hosts : HostKeys!Sq!ToSet(f[i].notes)
        \subseteq HostKeys!Sq!ToSet(HostKeys!NotesOf(f, hosts)[j])
    BY <1>1, <1>10, NotesKept
  <2>2. PICK m \in DOMAIN hosts :
          /\ m = HostKeys!Fs!Max(HostKeys!Same(hosts, j)) /\ m \in HostKeys!Same(hosts, j)
          /\ HostKeys!Same(hosts, m) = HostKeys!Same(hosts, j) /\ j \in HostKeys!Same(hosts, j)
    BY <1>1, SamePlaces
  <2>3. m \in LastPlaces(hosts)
    BY <2>2, Zenon DEF LastPlaces
  <2>4. HostKeys!Sq!ToSet(HostKeys!NotesOf(f, hosts)[j])
        \subseteq HostKeys!Sq!ToSet(HostKeys!MergedNotes(f, hosts, m))
    BY <1>1, <2>2, MergedKept
  <2>5. PICK k \in DOMAIN x : b[k] = m
    BY <1>5, <2>3 DEF OneToOne
  <2>6. x[k].notes = HostKeys!MergedNotes(f, hosts, m)
    <3>1. x[k] = NewLine(f, hosts, found, m)
      BY <1>5, <2>5
    <3>2. NewLine(f, hosts, found, m).notes = HostKeys!MergedNotes(f, hosts, m)
      BY <1>7
    <3> QED
      BY <3>1, <3>2
  <2>7. Len(r) + k \in DOMAIN g /\ g[Len(r) + k].notes = HostKeys!MergedNotes(f, hosts, m)
    BY <1>8, <2>6
  <2> QED
    BY <2>1, <2>4, <2>7
<1>11. \A i \in DOMAIN f : \E k \in DOMAIN g : HostKeys!Sq!ToSet(f[i].notes)
       \subseteq HostKeys!Sq!ToSet(g[k].notes)
  BY <1>9, <1>10
<1> QED
  BY <1>6, <1>11 DEF LineNotes

LEMMA NewFile ==
  ASSUME NEW header \in Seq(STRING), NEW f, NEW hosts, NEW found, NEW N,
         NEW g \in Seq(HostKeys!Line), HostKeysWritten(f, hosts, found, N, g)
  PROVE  LET F == HostKeys!Parse(header, HostKeys!Render(g)) IN
         /\ F \in [header : Seq(STRING), lines : Seq(HostKeys!Line)]
         /\ HostKeysWritten(f, hosts, found, N, F.lines)
         /\ HostKeys!Sq!ToSet(header) \cup LineNotes(g) \subseteq HostKeys!NotesIn(F)
<1> DEFINE t == HostKeys!Render(g)
           F == HostKeys!Parse(header, t)
<1>1. t \in Seq(HostKeys!Line)
  BY RenderPlaces
<1>2. PICK at : OneToOne(at, DOMAIN t, DOMAIN g) /\ \A k \in DOMAIN t : t[k] = g[at[k]]
  BY RenderPlaces
<1> HIDE DEF t
<1>3. /\ F.header \in Seq(STRING) /\ F.lines \in Seq(HostKeys!Line) /\ DOMAIN F.lines = DOMAIN t
      /\ \A k \in DOMAIN t : SameLine(F.lines[k], t[k])
      /\ HostKeys!Sq!ToSet(header) \subseteq HostKeys!Sq!ToSet(F.header)
      /\ \A k \in DOMAIN t : HostKeys!Sq!ToSet(t[k].notes) \subseteq HostKeys!NotesIn(F)
  BY <1>1, ParseKeeps
<1>4. F = [header |-> F.header, lines |-> F.lines]
  BY DEF HostKeys!Parse
<1> HIDE DEF F
<1>5. F \in [header : Seq(STRING), lines : Seq(HostKeys!Line)]
  BY <1>3, <1>4
<1>6. \A k \in DOMAIN F.lines : SameLine(F.lines[k], g[at[k]])
  BY <1>2, <1>3
<1>7. HostKeysWritten(f, hosts, found, N, F.lines)
  BY <1>2, <1>3, <1>6, WrittenSorted
<1>8. LineNotes(g) \subseteq HostKeys!NotesIn(F)
  <2>1. SUFFICES ASSUME NEW i \in DOMAIN g PROVE HostKeys!Sq!ToSet(g[i].notes)
                        \subseteq HostKeys!NotesIn(F)
    BY DEF LineNotes
  <2>2. PICK k \in DOMAIN t : at[k] = i
    BY <1>2 DEF OneToOne
  <2> QED
    BY <1>2, <1>3, <2>2
<1>9. HostKeys!Sq!ToSet(header) \subseteq HostKeys!NotesIn(F)
  BY <1>3 DEF HostKeys!NotesIn
<1> QED
  BY <1>5, <1>7, <1>8, <1>9 DEF F, t

\* Who is named in what was written.
NewAre(f, hosts, found, N) ==
  \A i \in N : i \in DOMAIN hosts
    /\ \A n \in OfHostKeys.Names : NamesIn(NewLine(f, hosts, found, i), n)
       <=> OfHostKeys.Lower[hosts[i]] = OfHostKeys.Lower[n]

LEMMA NamedAfter ==
  ASSUME NEW f \in Seq(HostKeys!Line), NEW hosts \in Seq(OfHostKeys.Names), NEW found, NEW N,
         NEW g, NEW S, NEW at,
         WrittenFrom(f, hosts, found, N, g, S, at), NewAre(f, hosts, found, N),
           NEW h \in OfHostKeys.Names
  PROVE  /\ OfHostKeys.Lower[h] \in Abouts(hosts) =>
              \A k \in DOMAIN g : NamesIn(g[k], h)
                <=> k \notin S /\ OfHostKeys.Lower[hosts[at[k]]] = OfHostKeys.Lower[h]
         /\ OfHostKeys.Lower[h] \notin Abouts(hosts) =>
              \A k \in DOMAIN g : NamesIn(g[k], h) <=> k \in S /\ NamesIn(f[at[k]], h)
<1> DEFINE R == {i \in DOMAIN f : ~HostKeys!Goes(f[i], hosts)}
<1>1. /\ S \subseteq DOMAIN g /\ OneToOne(at, S, R)
      /\ \A k \in S : SameLine(g[k], HostKeys!LeftOf(f[at[k]], hosts))
      /\ OneToOne(at, DOMAIN g \ S, N)
      /\ \A k \in DOMAIN g \ S : SameLine(g[k], NewLine(f, hosts, found, at[k]))
  BY DEF WrittenFrom
<1>2. ASSUME NEW k \in S
      PROVE  /\ OfHostKeys.Lower[h] \in Abouts(hosts) => ~NamesIn(g[k], h)
             /\ OfHostKeys.Lower[h] \notin Abouts(hosts)
                => (NamesIn(g[k], h) <=> NamesIn(f[at[k]], h))
  <2>1. at[k] \in DOMAIN f
    BY <1>1 DEF OneToOne
  <2>2. f[at[k]] \in HostKeys!Line
    BY <2>1
  <2>3. NamesIn(g[k], h) <=> NamesIn(HostKeys!LeftOf(f[at[k]], hosts), h)
    BY <1>1, SameNames
  <2> QED
    BY <2>2, <2>3, LeftNames
<1>3. ASSUME NEW k \in DOMAIN g \ S
      PROVE  NamesIn(g[k], h) <=> OfHostKeys.Lower[hosts[at[k]]] = OfHostKeys.Lower[h]
  <2>1. at[k] \in N
    BY <1>1 DEF OneToOne
  <2>2. NamesIn(g[k], h) <=> NamesIn(NewLine(f, hosts, found, at[k]), h)
    BY <1>1, SameNames
  <2> QED
    BY <2>1, <2>2 DEF NewAre
<1>4. ASSUME NEW k \in DOMAIN g \ S PROVE OfHostKeys.Lower[hosts[at[k]]] \in Abouts(hosts)
  <2>1. at[k] \in DOMAIN hosts
    BY <1>1 DEF OneToOne, NewAre
  <2> QED
    BY <2>1 DEF Abouts
<1> QED
  BY <1>2, <1>3, <1>4

\* A host has one line, with a key.
HasOne(f, h, key) == \E i \in DOMAIN f : HostKeys!Named(f, h) = {i} /\ f[i].key = key

LEMMA OthersStay ==
  ASSUME NEW f \in Seq(HostKeys!Line), NEW hosts \in Seq(OfHostKeys.Names), NEW found, NEW N, NEW g,
         HostKeysWritten(f, hosts, found, N, g), NewAre(f, hosts, found, N),
           NEW h \in OfHostKeys.Names, OfHostKeys.Lower[h] \notin Abouts(hosts)
  PROVE  /\ HostKeys!Named(f, h) = {} => HostKeys!Named(g, h) = {}
         /\ \A key : HasOne(f, h, key) => HasOne(g, h, key)
<1>1. PICK S, at : WrittenFrom(f, hosts, found, N, g, S, at)
  BY Zenon DEF HostKeysWritten
<1> DEFINE R == {i \in DOMAIN f : ~HostKeys!Goes(f[i], hosts)}
<1>2. S \subseteq DOMAIN g /\ OneToOne(at, S, R)
      /\ \A k \in S : SameLine(g[k], HostKeys!LeftOf(f[at[k]], hosts))
  BY <1>1 DEF WrittenFrom
<1>3. \A k \in DOMAIN g : NamesIn(g[k], h) <=> k \in S /\ NamesIn(f[at[k]], h)
  BY <1>1, NamedAfter
<1>4. \A k : k \in HostKeys!Named(g, h) <=> k \in S /\ at[k] \in HostKeys!Named(f, h)
  BY <1>2, <1>3, NamedAre DEF OneToOne
<1>5. ASSUME NEW key, NEW i \in DOMAIN f, HostKeys!Named(f, h) = {i}, f[i].key = key
      PROVE  \E k \in DOMAIN g : HostKeys!Named(g, h) = {k} /\ g[k].key = key
  <2>1. f[i] \in HostKeys!Line
    OBVIOUS
  <2>2. NamesIn(f[i], h)
    BY <1>5, NamedAre
  <2>3. ~HostKeys!Goes(f[i], hosts)
    BY <2>1, <2>2, LeftNames
  <2>4. PICK k \in S : at[k] = i
    BY <1>2, <2>3 DEF OneToOne
  <2>5. HostKeys!Named(g, h) = {k}
    BY <1>2, <1>4, <1>5, <2>4 DEF OneToOne
  <2>6. g[k].key = key
    BY <1>2, <1>5, <2>1, <2>4, LeftLine DEF SameLine
  <2> QED
    BY <1>2, <2>5, <2>6
<1>6. HostKeys!Named(f, h) = {} => HostKeys!Named(g, h) = {}
  BY <1>4
<1>7. \A key : HasOne(f, h, key) => HasOne(g, h, key)
  BY <1>5 DEF HasOne
<1> QED
  BY <1>6, <1>7

LEMMA GoneIsGone ==
  ASSUME NEW f \in Seq(HostKeys!Line), NEW hosts \in Seq(OfHostKeys.Names), NEW found, NEW g,
         HostKeysWritten(f, hosts, found, {}, g), NEW h \in OfHostKeys.Names,
           OfHostKeys.Lower[h] \in Abouts(hosts)
  PROVE  HostKeys!Named(g, h) = {}
<1>1. PICK S, at : WrittenFrom(f, hosts, found, {}, g, S, at)
  BY Zenon DEF HostKeysWritten
<1>2. DOMAIN g \ S = {}
  BY <1>1 DEF WrittenFrom, OneToOne
<1>3. NewAre(f, hosts, found, {})
  BY DEF NewAre
<1>4. \A k \in DOMAIN g : NamesIn(g[k], h)
      <=> k \notin S /\ OfHostKeys.Lower[hosts[at[k]]] = OfHostKeys.Lower[h]
  BY <1>1, <1>3, NamedAfter
<1> QED
  BY <1>2, <1>4, NamedAre

LEMMA NewIsThere ==
  ASSUME NEW f \in Seq(HostKeys!Line), NEW hosts \in Seq(OfHostKeys.Hosts), NEW found,
         \A i \in DOMAIN hosts : found[hosts[i]] \in OfHostKeys.Keys, NEW g,
         HostKeysWritten(f, hosts, found, LastPlaces(hosts), g), NEW h \in OfHostKeys.Hosts,
           OfHostKeys.Lower[h] \in Abouts(hosts)
  PROVE  \E k \in DOMAIN g : HostKeys!Named(g, h) = {k} /\ g[k].key = found[h]
<1> DEFINE N == LastPlaces(hosts)
<1>1. PICK S, at : WrittenFrom(f, hosts, found, N, g, S, at)
  BY Zenon DEF HostKeysWritten
<1>2. OfHostKeys.Hosts \subseteq OfHostKeys.Names /\ \A a,
      b \in OfHostKeys.Hosts : OfHostKeys.Lower[a] = OfHostKeys.Lower[b] => a = b
  BY HostKeysGiven
<1>3. hosts \in Seq(OfHostKeys.Names) /\ h \in OfHostKeys.Names
  BY <1>2
<1>4. NewAre(f, hosts, found, N)
  BY NewNames DEF NewAre, LastPlaces
<1> HIDE DEF N
<1>5. \A k \in DOMAIN g : NamesIn(g[k], h)
      <=> k \notin S /\ OfHostKeys.Lower[hosts[at[k]]] = OfHostKeys.Lower[h]
  BY <1>1, <1>3, <1>4, NamedAfter
<1>6. /\ S \subseteq DOMAIN g /\ OneToOne(at, DOMAIN g \ S, N)
      /\ \A k \in DOMAIN g \ S : SameLine(g[k], NewLine(f, hosts, found, at[k]))
  BY <1>1 DEF WrittenFrom
<1>7. PICK i \in DOMAIN hosts : OfHostKeys.Lower[hosts[i]] = OfHostKeys.Lower[h]
  BY DEF Abouts
<1>8. PICK j \in N : j \in DOMAIN hosts /\ OfHostKeys.Lower[hosts[j]] = OfHostKeys.Lower[h]
  BY <1>3, <1>7, LastPlace DEF N
<1>9. hosts[j] = h
  BY <1>2, <1>8
<1>10. PICK k \in DOMAIN g \ S : at[k] = j
  BY <1>6, <1>8 DEF OneToOne
<1>11. g[k].key = found[h]
  BY <1>6, <1>9, <1>10 DEF SameLine, NewLine
<1>12. ASSUME NEW l \in DOMAIN g, NamesIn(g[l], h) PROVE l = k
  <2>1. l \in DOMAIN g \ S /\ OfHostKeys.Lower[hosts[at[l]]] = OfHostKeys.Lower[h]
    BY <1>5, <1>12
  <2>2. at[l] \in N
    BY <1>6, <2>1 DEF OneToOne
  <2>3. at[l] = j
    BY <1>3, <1>8, <2>1, <2>2, LastOnce DEF N
  <2> QED
    BY <1>6, <1>10, <2>1, <2>3 DEF OneToOne
<1>13. NamesIn(g[k], h)
  BY <1>5, <1>8, <1>10
<1>14. HostKeys!Named(g, h) = {k}
  BY <1>10, <1>12, <1>13, NamedAre
<1> QED
  BY <1>10, <1>11, <1>14

LEMMA HeldBy ==
  ASSUME NEW f, NEW s
  PROVE  s \in HostKeys!Held(f)
         <=> \E i \in DOMAIN f : HostKeys!IsHostKey(f[i])
           /\ \E p \in HostKeys!Sq!ToSet(f[i].hosts) :
                                         s = [pattern |-> p, type |-> f[i].type, key |-> f[i].key]
BY DEF HostKeys!Held

LEMMA OnlyNamedGone ==
  ASSUME NEW f \in Seq(HostKeys!Line), NEW hosts \in Seq(OfHostKeys.Names), NEW found, NEW N, NEW g,
         HostKeysWritten(f, hosts, found, N, g), NEW s \in HostKeys!Held(f) \ HostKeys!Held(g)
  PROVE  \E h \in Abouts(hosts) : HostKeys!NamesHost(s.pattern, h)
<1>1. PICK S, at : WrittenFrom(f, hosts, found, N, g, S, at)
  BY Zenon DEF HostKeysWritten
<1> DEFINE R == {i \in DOMAIN f : ~HostKeys!Goes(f[i], hosts)}
<1>2. S \subseteq DOMAIN g /\ OneToOne(at, S, R)
      /\ \A k \in S : SameLine(g[k], HostKeys!LeftOf(f[at[k]], hosts))
  BY <1>1 DEF WrittenFrom
<1>3. PICK i \in DOMAIN f : HostKeys!IsHostKey(f[i]) /\ \E p \in HostKeys!Sq!ToSet(f[i].hosts) :
                                s = [pattern |-> p, type |-> f[i].type, key |-> f[i].key]
  BY HeldBy
<1>4. PICK p \in HostKeys!Sq!ToSet(f[i].hosts) : s
      = [pattern |-> p, type |-> f[i].type, key |-> f[i].key]
  BY <1>3
<1>5. f[i] \in HostKeys!Line /\ s.pattern = p
  BY <1>4
<1>6. \E j \in DOMAIN hosts : HostKeys!NamesHost(p, hosts[j])
  <2>1. SUFFICES ASSUME \A j \in DOMAIN hosts : ~HostKeys!NamesHost(p, hosts[j]) PROVE FALSE
    OBVIOUS
  <2>2. ~HostKeys!Goes(f[i], hosts)
    BY <1>5, <2>1, GoesWhenNamed
  <2>3. PICK k \in S : at[k] = i
    BY <1>2, <2>2 DEF OneToOne
  <2> DEFINE e == HostKeys!LeftOf(f[i], hosts)
  <2>4. /\ p \in HostKeys!Sq!ToSet(e.hosts) /\ e.marker = f[i].marker
        /\ e.type = f[i].type /\ e.key = f[i].key
    BY <1>5, <2>1, LeftLine
  <2>5. SameLine(g[k], e)
    BY <1>2, <2>3
  <2> HIDE DEF e
  <2>6. /\ k \in DOMAIN g /\ HostKeys!IsHostKey(g[k]) /\ p \in HostKeys!Sq!ToSet(g[k].hosts)
        /\ g[k].type = f[i].type /\ g[k].key = f[i].key
    BY <1>2, <1>3, <2>4, <2>5 DEF SameLine, HostKeys!IsHostKey
  <2>7. s = [pattern |-> p, type |-> g[k].type, key |-> g[k].key]
    BY <1>4, <2>6
  <2> QED
    BY <2>6, <2>7, HeldBy
<1>7. PICK j \in DOMAIN hosts : HostKeys!NamesHost(p, hosts[j])
  BY <1>6
<1>8. /\ hosts[j] \in OfHostKeys.Names /\ OfHostKeys.Lower[hosts[j]] \in OfHostKeys.Names
      /\ OfHostKeys.Lower[OfHostKeys.Lower[hosts[j]]] = OfHostKeys.Lower[hosts[j]]
      /\ p \in HostKeys!Patterns
  <2>1. hosts[j] \in OfHostKeys.Names
    OBVIOUS
  <2> QED
    BY <1>5, <2>1, LineParts, HostKeysGiven
<1>9. HostKeys!NamesHost(p, OfHostKeys.Lower[hosts[j]])
  BY <1>7, <1>8, NamesAlike
<1>10. OfHostKeys.Lower[hosts[j]] \in Abouts(hosts)
  BY DEF Abouts
<1> QED
  BY <1>5, <1>9, <1>10

LEMMA MarkedBy ==
  ASSUME NEW f, NEW s
  PROVE  s \in HostKeys!Marked(f)
         <=> \E i \in DOMAIN f : ~HostKeys!IsHostKey(f[i]) /\ s = [f[i] EXCEPT !.notes = <<>>]
BY DEF HostKeys!Marked

LEMMA SameMarked ==
  ASSUME NEW a \in HostKeys!Line, NEW b \in HostKeys!Line, SameLine(a, b)
  PROVE  [a EXCEPT !.notes = <<>>] = [b EXCEPT !.notes = <<>>]
<1>1. /\ a = [marker |-> a.marker, hosts |-> a.hosts, type |-> a.type, key |-> a.key,
         notes |-> a.notes]
      /\ b = [marker |-> b.marker, hosts |-> b.hosts, type |-> b.type, key |-> b.key,
         notes |-> b.notes]
  BY LineParts
<1>2. a.marker = b.marker /\ a.hosts = b.hosts /\ a.type = b.type /\ a.key = b.key
  BY DEF SameLine
<1> QED
  BY <1>1, <1>2

LEMMA MarkedStay ==
  ASSUME NEW f \in Seq(HostKeys!Line), NEW hosts \in Seq(OfHostKeys.Names), NEW found, NEW N,
         NEW g \in Seq(HostKeys!Line),
         HostKeysWritten(f, hosts, found, N, g)
  PROVE  HostKeys!Marked(f) \subseteq HostKeys!Marked(g)
<1>1. PICK S, at : WrittenFrom(f, hosts, found, N, g, S, at)
  BY Zenon DEF HostKeysWritten
<1> DEFINE R == {i \in DOMAIN f : ~HostKeys!Goes(f[i], hosts)}
<1>2. S \subseteq DOMAIN g /\ OneToOne(at, S, R)
      /\ \A k \in S : SameLine(g[k], HostKeys!LeftOf(f[at[k]], hosts))
  BY <1>1 DEF WrittenFrom
<1>3. SUFFICES ASSUME NEW s \in HostKeys!Marked(f) PROVE s \in HostKeys!Marked(g)
  OBVIOUS
<1>4. PICK i \in DOMAIN f : ~HostKeys!IsHostKey(f[i]) /\ s = [f[i] EXCEPT !.notes = <<>>]
  BY MarkedBy
<1>5. f[i] \in HostKeys!Line
  OBVIOUS
<1>6. HostKeys!LeftOf(f[i], hosts) = f[i] /\ ~HostKeys!Goes(f[i], hosts)
  BY <1>4, <1>5, LeftLine, GoesWhenNamed
<1>7. PICK k \in S : at[k] = i
  BY <1>2, <1>6 DEF OneToOne
<1>8. k \in DOMAIN g /\ SameLine(g[k], f[i])
  BY <1>2, <1>6, <1>7
<1>9. g[k] \in HostKeys!Line
  BY <1>8
<1>10. [g[k] EXCEPT !.notes = <<>>] = s
  BY <1>4, <1>5, <1>8, <1>9, SameMarked
<1>11. ~HostKeys!IsHostKey(g[k])
  BY <1>4, <1>8 DEF SameLine, HostKeys!IsHostKey
<1> QED
  BY <1>8, <1>10, <1>11, MarkedBy

\* Of what a file says that was not said before, each is of a host that was
\* written, with the key found.
LEMMA NewIsFound ==
  ASSUME NEW f \in Seq(HostKeys!Line), NEW hosts \in Seq(OfHostKeys.Names), NEW found, NEW N,
         N \subseteq DOMAIN hosts, NEW g,
         HostKeysWritten(f, hosts, found, N, g), NEW s \in HostKeys!Held(g) \ HostKeys!Held(f)
  PROVE  \E i \in N : s.pattern.name = hosts[i] /\ s.key = found[hosts[i]]
<1>1. PICK S, at : WrittenFrom(f, hosts, found, N, g, S, at)
  BY Zenon DEF HostKeysWritten
<1> DEFINE R == {i \in DOMAIN f : ~HostKeys!Goes(f[i], hosts)}
<1>2. /\ S \subseteq DOMAIN g /\ OneToOne(at, S, R)
      /\ \A k \in S : SameLine(g[k], HostKeys!LeftOf(f[at[k]], hosts))
      /\ OneToOne(at, DOMAIN g \ S, N)
      /\ \A k \in DOMAIN g \ S : SameLine(g[k], NewLine(f, hosts, found, at[k]))
  BY <1>1 DEF WrittenFrom
<1>3. PICK k \in DOMAIN g : HostKeys!IsHostKey(g[k]) /\ \E p \in HostKeys!Sq!ToSet(g[k].hosts) :
                                s = [pattern |-> p, type |-> g[k].type, key |-> g[k].key]
  BY HeldBy
<1>4. PICK p \in HostKeys!Sq!ToSet(g[k].hosts) : s
      = [pattern |-> p, type |-> g[k].type, key |-> g[k].key]
  BY <1>3
<1>5. k \notin S
  <2>1. SUFFICES ASSUME k \in S PROVE FALSE
    OBVIOUS
  <2> DEFINE i == at[k]
             e == HostKeys!LeftOf(f[i], hosts)
  <2>2. i \in DOMAIN f
    BY <1>2, <2>1 DEF OneToOne
  <2>3. f[i] \in HostKeys!Line
    BY <2>2
  <2>4. SameLine(g[k], e)
    BY <1>2, <2>1
  <2>5. p \in HostKeys!Sq!ToSet(e.hosts) /\ e.marker = g[k].marker /\ e.type = g[k].type
        /\ e.key = g[k].key
    BY <1>4, <2>4 DEF SameLine
  <2>6. /\ p \in HostKeys!Sq!ToSet(f[i].hosts) /\ e.marker = f[i].marker
        /\ e.type = f[i].type /\ e.key = f[i].key
    BY <2>3, <2>5, LeftLine
  <2> HIDE DEF e, i
  <2>7. HostKeys!IsHostKey(f[i]) /\ s = [pattern |-> p, type |-> f[i].type, key |-> f[i].key]
    BY <1>3, <1>4, <2>5, <2>6 DEF HostKeys!IsHostKey
  <2> QED
    BY <2>2, <2>6, <2>7, HeldBy
<1> DEFINE i == at[k]
<1>6. i \in N
  BY <1>2, <1>5 DEF OneToOne
<1>7. SameLine(g[k], NewLine(f, hosts, found, i))
  BY <1>2, <1>5
<1> HIDE DEF i
<1>8. /\ NewLine(f, hosts, found, i).hosts = <<HostKeys!Plain(hosts[i])>>
      /\ NewLine(f, hosts, found, i).key = found[hosts[i]]
  BY DEF NewLine
<1>9. g[k].hosts = <<HostKeys!Plain(hosts[i])>> /\ g[k].key = found[hosts[i]]
  BY <1>7, <1>8 DEF SameLine
<1>10. HostKeys!Sq!ToSet(<<HostKeys!Plain(hosts[i])>>) = {HostKeys!Plain(hosts[i])}
  BY DEF HostKeys!Sq!ToSet
<1>11. p = HostKeys!Plain(hosts[i])
  BY <1>4, <1>9, <1>10, Zenon
<1>12. p.name = hosts[i]
  BY <1>11 DEF HostKeys!Plain
<1>13. s.pattern = p /\ s.key = g[k].key
  BY <1>4
<1> QED
  BY <1>6, <1>9, <1>12, <1>13

\* The index of a file finds what a search through the file would.
LEMMA IndexFinds ==
  ASSUME NEW f \in Seq(HostKeys!Line), NEW h \in OfHostKeys.Names
  PROVE  /\ HostKeys!IndexFind(f, HostKeys!Index(f), h)
            = {i \in DOMAIN f : HostKeys!IsHostKey(f[i]) /\ HostKeys!Matches(f[i], h)}
         /\ \A key : HostKeys!IndexRevoked(f, HostKeys!Index(f), h, key)
            <=> HostKeys!Revoked(f, h, key)
<1>1. OfHostKeys.Lower[h] \in OfHostKeys.Names
  BY HostKeysGiven
<1>2. ASSUME NEW i \in DOMAIN f,
             HostKeys!Matches(f[i], h) PROVE i \in HostKeys!Candidates(HostKeys!Index(f), h)
  <2>1. PICK p \in HostKeys!Sq!ToSet(f[i].hosts) : ~p.not /\ HostKeys!Covers(p, h)
    BY <1>2 DEF HostKeys!Matches
  <2>2. CASE p.kind = "plain"
    <3>1. OfHostKeys.Lower[p.name] = OfHostKeys.Lower[h]
      BY <2>1, <2>2 DEF HostKeys!Covers
    <3>2. i \in HostKeys!Index(f).literal[OfHostKeys.Lower[h]]
      BY <1>1, <2>1, <2>2, <3>1 DEF HostKeys!Index
    <3> QED
      BY <3>2 DEF HostKeys!Candidates
  <2>3. CASE p.kind # "plain"
    <3>1. i \in HostKeys!Index(f).other
      BY <2>3 DEF HostKeys!Index
    <3> QED
      BY <3>1 DEF HostKeys!Candidates
  <2> QED
    BY <2>2, <2>3
<1>3. HostKeys!Candidates(HostKeys!Index(f), h) \subseteq DOMAIN f
  BY <1>1 DEF HostKeys!Candidates, HostKeys!Index
<1>4. HostKeys!IndexFind(f, HostKeys!Index(f), h)
      = {i \in DOMAIN f : HostKeys!IsHostKey(f[i]) /\ HostKeys!Matches(f[i], h)}
  BY <1>2, <1>3 DEF HostKeys!IndexFind
<1>5. \A key : HostKeys!IndexRevoked(f, HostKeys!Index(f), h, key) <=> HostKeys!Revoked(f, h, key)
  BY <1>2, <1>3 DEF HostKeys!IndexRevoked, HostKeys!Revoked
<1> QED
  BY <1>4, <1>5

\* What a run is told to write or remove, and the places of the new lines.
HostKeysTold(c) == IF v4[c].does = "remove" THEN v4[c].names ELSE HostKeys!Writable(c)
NewOf(c) == IF v4[c].does = "remove" THEN {} ELSE LastPlaces(HostKeys!Writable(c))

LEMMA RunParts ==
  ASSUME NEW r \in HostKeys!Run
  PROVE  /\ r.pc \in {"idle", "scan", "modify", "read", "write", "over"}
         /\ r.does \in {"remove", "refresh"}
         /\ r.names \in Seq(OfHostKeys.Names)
         /\ r.found \in [OfHostKeys.Hosts -> OfHostKeys.Keys \cup {HostKeys!NoKey}]
         /\ r.read.header \in Seq(STRING) /\ r.read.lines \in Seq(HostKeys!Line)
BY DEF HostKeys!Run

LEMMA WritableAre ==
  ASSUME v4 \in [OfHostKeys.Commands -> HostKeys!Run], NEW c \in OfHostKeys.Commands,
         v4[c].names \in Seq(OfHostKeys.Hosts)
  PROVE  /\ HostKeys!Writable(c) \in Seq(OfHostKeys.Hosts)
         /\ \A i \in DOMAIN HostKeys!Writable(c) :
              /\ v4[c].found[HostKeys!Writable(c)[i]] \in OfHostKeys.Keys
              /\ ~HostKeys!Revoked(v4[c].read.lines, HostKeys!Writable(c)[i],
                 v4[c].found[HostKeys!Writable(c)[i]])
<1> DEFINE r == v4[c]
           f == r.read.lines
           S == {i \in DOMAIN r.names : /\ r.found[r.names[i]] # HostKeys!NoKey
                                        /\ ~HostKeys!IndexRevoked(f, HostKeys!Index(f),
                                           r.names[i], r.found[r.names[i]])}
<1>1. r \in HostKeys!Run
  OBVIOUS
<1>2. HostKeys!Writable(c) = HostKeys!Picked(r.names, S)
  BY Zenon DEF HostKeys!Writable
<1>3. r.found \in [OfHostKeys.Hosts -> OfHostKeys.Keys \cup {HostKeys!NoKey}]
      /\ f \in Seq(HostKeys!Line) /\ r.names \in Seq(OfHostKeys.Hosts)
  BY <1>1, RunParts
<1> HIDE DEF r, f
<1>4. S \subseteq DOMAIN r.names
  OBVIOUS
<1>5. \A i \in S : /\ r.names[i] \in OfHostKeys.Hosts /\ r.found[r.names[i]] # HostKeys!NoKey
                   /\ ~HostKeys!IndexRevoked(f, HostKeys!Index(f), r.names[i], r.found[r.names[i]])
  BY <1>3
<1> HIDE DEF S
<1>6. OfHostKeys.Hosts \subseteq OfHostKeys.Names
  BY HostKeysGiven
<1>7. \A i \in S : r.found[r.names[i]] \in OfHostKeys.Keys
      /\ ~HostKeys!Revoked(f, r.names[i], r.found[r.names[i]])
  BY <1>3, <1>5, <1>6, IndexFinds
<1>8. /\ HostKeys!Picked(r.names, S) \in Seq(OfHostKeys.Hosts)
      /\ \A k \in DOMAIN HostKeys!Picked(r.names, S) :
           HostKeys!Sorted(S)[k] \in S
             /\ HostKeys!Picked(r.names, S)[k] = r.names[HostKeys!Sorted(S)[k]]
  BY <1>3, <1>4, PickedPlaces
<1> QED
  BY <1>2, <1>7, <1>8 DEF r, f

LEMMA ChangedAre ==
  ASSUME v4 \in [OfHostKeys.Commands -> HostKeys!Run], HostKeys!NameInv,
         NEW c \in OfHostKeys.Commands
  PROVE  /\ HostKeysTold(c) \in Seq(OfHostKeys.Names) /\ HostKeys!About(c) = Abouts(HostKeysTold(c))
         /\ HostKeys!Changed(c) \in Seq(HostKeys!Line)
         /\ HostKeysWritten(v4[c].read.lines, HostKeysTold(c), v4[c].found, NewOf(c),
            HostKeys!Changed(c))
         /\ NewOf(c) \subseteq DOMAIN HostKeysTold(c)
         /\ NewAre(v4[c].read.lines, HostKeysTold(c), v4[c].found, NewOf(c))
<1> DEFINE f == v4[c].read.lines
           found == v4[c].found
           names == v4[c].names
<1>1. v4[c] \in HostKeys!Run
  OBVIOUS
<1>2. f \in Seq(HostKeys!Line) /\ names \in Seq(OfHostKeys.Names)
      /\ v4[c].does \in {"remove", "refresh"}
  BY <1>1, RunParts
<1>3. OfHostKeys.Hosts \subseteq OfHostKeys.Names
  BY HostKeysGiven
<1>4. CASE v4[c].does = "remove"
  <2>1. HostKeysTold(c) = names /\ NewOf(c) = {} /\ HostKeys!About(c) = Abouts(names)
        /\ HostKeys!Changed(c) = HostKeys!RemoveAll(f, names)
    BY <1>4 DEF HostKeysTold, NewOf, HostKeys!About, Abouts, HostKeys!Changed
  <2>2. NewAre(f, names, found, {})
    BY DEF NewAre
  <2> HIDE DEF f, names, found
  <2>3. HostKeys!RemoveAll(f, names) \in Seq(HostKeys!Line)
        /\ HostKeysWritten(f, names, found, {}, HostKeys!RemoveAll(f, names))
    BY <1>2, RemovedFrom
  <2> QED
    BY <1>2, <2>1, <2>2, <2>3 DEF f, names, found
<1>5. CASE v4[c].does # "remove"
  <2> DEFINE w == HostKeys!Writable(c)
  <2>1. HostKeysTold(c) = w /\ NewOf(c) = LastPlaces(w) /\ HostKeys!About(c) = Abouts(w)
        /\ HostKeys!Changed(c) = HostKeys!ReplaceAll(f, w, KeysOf(found))
    BY <1>5 DEF HostKeysTold, NewOf, HostKeys!About, Abouts, HostKeys!Changed, KeysOf
  <2>2. w \in Seq(OfHostKeys.Hosts) /\ \A i \in DOMAIN w : found[w[i]] \in OfHostKeys.Keys
    BY <1>2, <1>5, WritableAre DEF HostKeys!NameInv
  <2> HIDE DEF f, found, w
  <2>3. HostKeys!ReplaceAll(f, w, KeysOf(found)) \in Seq(HostKeys!Line)
        /\ HostKeysWritten(f, w, found, LastPlaces(w), HostKeys!ReplaceAll(f, w, KeysOf(found)))
    BY <1>2, <2>2, ReplacedFrom
  <2>4. w \in Seq(OfHostKeys.Names)
    BY <1>3, <2>2
  <2>5. NewAre(f, w, found, LastPlaces(w))
    <3>1. SUFFICES ASSUME NEW i \in LastPlaces(w)
                   PROVE  i \in DOMAIN w /\ \A n \in OfHostKeys.Names :
                            NamesIn(NewLine(f, w, found, i), n)
                              <=> OfHostKeys.Lower[w[i]] = OfHostKeys.Lower[n]
      BY DEF NewAre
    <3>2. i \in DOMAIN w
      BY DEF LastPlaces
    <3> QED
      BY <1>2, <2>2, <3>2, NewNames
  <2>6. LastPlaces(w) \subseteq DOMAIN w
    BY DEF LastPlaces
  <2> QED
    BY <2>1, <2>3, <2>4, <2>5, <2>6 DEF f, found
<1> QED
  BY <1>4, <1>5

\* The file is replaced by what was made of the lines that were read.
LEMMA WrittenFile ==
  ASSUME v4 \in [OfHostKeys.Commands -> HostKeys!Run], HostKeys!NameInv,
         NEW c \in OfHostKeys.Commands,
           v1' = HostKeys!Parse(v4[c].read.header, HostKeys!Render(HostKeys!Changed(c)))
  PROVE  /\ v1' \in [header : Seq(STRING), lines : Seq(HostKeys!Line)]
         /\ HostKeysWritten(v4[c].read.lines, HostKeysTold(c), v4[c].found, NewOf(c), v1'.lines)
         /\ v4[c].does = "refresh" => HostKeys!NotesIn(v4[c].read) \subseteq HostKeys!NotesIn(v1')
<1>1. v4[c].read.header \in Seq(STRING) /\ v4[c].read.lines \in Seq(HostKeys!Line)
      /\ v4[c].does \in {"remove", "refresh"}
  <2>1. v4[c] \in HostKeys!Run
    OBVIOUS
  <2> QED
    BY <2>1, RunParts
<1>2. /\ HostKeys!Changed(c) \in Seq(HostKeys!Line)
      /\ HostKeysWritten(v4[c].read.lines, HostKeysTold(c), v4[c].found, NewOf(c),
         HostKeys!Changed(c))
  BY ChangedAre
<1> DEFINE g == HostKeys!Changed(c)
           F == HostKeys!Parse(v4[c].read.header, HostKeys!Render(g))
<1> HIDE DEF g
<1>3. /\ F \in [header : Seq(STRING), lines : Seq(HostKeys!Line)]
      /\ HostKeysWritten(v4[c].read.lines, HostKeysTold(c), v4[c].found, NewOf(c), F.lines)
      /\ HostKeys!Sq!ToSet(v4[c].read.header) \cup LineNotes(g) \subseteq HostKeys!NotesIn(F)
  BY <1>1, <1>2, NewFile DEF g
<1>4. v1' = F
  BY DEF g
<1> HIDE DEF F
<1>5. ASSUME v4[c].does = "refresh" PROVE LineNotes(v4[c].read.lines) \subseteq LineNotes(g)
  <2>1. HostKeys!Writable(c) \in Seq(OfHostKeys.Hosts)
        /\ \A i \in DOMAIN HostKeys!Writable(c) : v4[c].found[HostKeys!Writable(c)[i]]
           \in OfHostKeys.Keys
    BY <1>5, WritableAre DEF HostKeys!NameInv
  <2>2. g = HostKeys!ReplaceAll(v4[c].read.lines, HostKeys!Writable(c), KeysOf(v4[c].found))
    BY <1>5 DEF g, HostKeys!Changed, KeysOf
  <2> QED
    BY <1>1, <2>1, <2>2, ReplacedNotes
<1>6. v4[c].does = "refresh" => HostKeys!NotesIn(v4[c].read) \subseteq HostKeys!NotesIn(F)
  BY <1>3, <1>5 DEF HostKeys!NotesIn, LineNotes
<1> QED
  BY <1>3, <1>4, <1>6

LEMMA OneCounted == \A x : HostKeys!Cardinality({x}) = 1
<1>1. \A x : Cardinality({x}) = 1
  BY FS_Singleton
<1> QED
  BY <1>1, HostKeysSizes, Zenon

LEMMA OneHolder ==
  ASSUME NEW L, \A c, d \in L : c = d
  PROVE  HostKeys!Cardinality(L) <= 1
<1>1. CASE L = {}
  BY <1>1, FS_EmptySet, HostKeysSizes
<1>2. CASE L # {}
  <2>1. PICK c \in L : L = {c}
    BY <1>2
  <2> QED
    <3>1. HostKeys!Cardinality({c}) = 1
      BY OneCounted
    <3>2. HostKeys!Cardinality(L) = 1
      BY <2>1, <3>1, Zenon
    <3> QED
      BY <3>2
<1> QED
  BY <1>1, <1>2

\* What a step has to keep.
LEMMA RunMoves ==
  ASSUME HostKeys!Inv, NEW c \in OfHostKeys.Commands, NEW r \in HostKeys!Run,
         v4' = [v4 EXCEPT ![c] = r],
         r.pc = "write" => r.read = v1',
         \A d \in OfHostKeys.Commands \ {c} : v4[d].pc = "write" => v4[d].read = v1',
         r.does = "refresh" => r.names \in Seq(OfHostKeys.Hosts),
         \A d \in OfHostKeys.Commands \ {c} : d \in v2' <=> d \in v2,
         c \in v2' <=> r.pc \in {"read", "write"},
         v2' \subseteq OfHostKeys.Commands, \A d, e \in v2' : d = e,
         v1' \in [header : Seq(STRING), lines : Seq(HostKeys!Line)], v3' = v3,
         v5' \in [OfHostKeys.Hosts -> OfHostKeys.Keys \cup {"as_before", "gone"}],
           HostKeys!WrittenIsThere'
  PROVE  HostKeys!Inv'
<1>1. /\ v4 \in [OfHostKeys.Commands -> HostKeys!Run] /\ HostKeys!LockInv /\ HostKeys!NameInv
      /\ v3 \in [OfHostKeys.Hosts -> OfHostKeys.Keys]
  BY DEF HostKeys!Inv, HostKeys!TypeOK
<1>2. v4' \in [OfHostKeys.Commands -> HostKeys!Run] /\ v4'[c] = r
      /\ \A d \in OfHostKeys.Commands \ {c} : v4'[d] = v4[d]
  BY <1>1
<1>3. HostKeys!LockInv'
  BY <1>1, <1>2 DEF HostKeys!LockInv
<1>4. HostKeys!ReadInv'
  BY <1>2 DEF HostKeys!ReadInv
<1>5. HostKeys!NameInv'
  BY <1>1, <1>2 DEF HostKeys!NameInv
<1>6. HostKeys!TypeOK'
  <2>1. HostKeys!Cardinality(v2') <= 1
    BY OneHolder
  <2>2. v1'.header \in Seq(STRING) /\ v1'.lines \in Seq(HostKeys!Line)
    OBVIOUS
  <2>3. \A d \in OfHostKeys.Commands :
        /\ v4'[d].pc \in {"idle", "scan", "modify", "read", "write", "over"}
                                       /\ v4'[d].names \in Seq(OfHostKeys.Names)
                                       /\ v4'[d].found
                                          \in [OfHostKeys.Hosts -> OfHostKeys.Keys
                                            \cup {HostKeys!NoKey}]
    <3> TAKE d \in OfHostKeys.Commands
    <3>1. v4'[d] \in HostKeys!Run
      BY <1>2
    <3> QED
      BY <3>1, RunParts
  <2> QED
    BY <1>1, <2>1, <2>2, <2>3 DEF HostKeys!TypeOK
<1> QED
  BY <1>2, <1>3, <1>4, <1>5, <1>6 DEF HostKeys!Inv

LEMMA SameFile ==
  ASSUME HostKeys!Inv, v1' = v1, v5' = v5
  PROVE  /\ v1' \in [header : Seq(STRING), lines : Seq(HostKeys!Line)]
         /\ v5' \in [OfHostKeys.Hosts -> OfHostKeys.Keys \cup {"as_before", "gone"}]
         /\ HostKeys!WrittenIsThere'
         /\ \A d \in OfHostKeys.Commands : v4[d].pc = "write" => v4[d].read = v1'
<1>1. HostKeys!WrittenIsThere'
  BY DEF HostKeys!Inv, HostKeys!WrittenIsThere
<1> QED
  BY <1>1 DEF HostKeys!Inv, HostKeys!TypeOK, HostKeys!ReadInv

LEMMA IdleIs ==
  /\ HostKeys!Idle \in HostKeys!Run /\ HostKeys!Idle.does = "remove"
  /\ \A pc \in {"idle", "scan", "modify", "read", "write", "over"} :
       [HostKeys!Idle EXCEPT !.pc = pc] \in HostKeys!Run
         /\ [HostKeys!Idle EXCEPT !.pc = pc].pc = pc
         /\ [HostKeys!Idle EXCEPT !.pc = pc].does = "remove"
<1> DEFINE R == [header : Seq(STRING), lines : Seq(HostKeys!Line)]
           F == [OfHostKeys.Hosts -> OfHostKeys.Keys \cup {HostKeys!NoKey}]
           r == [header |-> <<>>, lines |-> <<>>]
           found == [h \in OfHostKeys.Hosts |-> HostKeys!NoKey]
<1>1. r \in R
  OBVIOUS
<1>2. found \in F
  OBVIOUS
<1>3. <<>> \in Seq(OfHostKeys.Names)
  OBVIOUS
<1>4. HostKeys!Idle
      = [pc |-> "idle", does |-> "remove", names |-> <<>>, found |-> found, read |-> r]
  BY DEF HostKeys!Idle
<1>5. HostKeys!Run
      = [pc : {"idle", "scan", "modify", "read", "write", "over"}, does : {"remove", "refresh"},
                      names : Seq(OfHostKeys.Names), found : F, read : R]
  BY DEF HostKeys!Run
<1> HIDE DEF R, F, r, found
<1> QED
  BY <1>1, <1>2, <1>3, <1>4, <1>5

LEMMA HostKeysBegins == HostKeys!Init => HostKeys!Inv
<1> SUFFICES ASSUME HostKeys!Init PROVE HostKeys!Inv
  OBVIOUS
<1>1. v1 \in [header : Seq(STRING), lines : Seq(HostKeys!Line)]
  <2>1. v1 \in OfHostKeys.Files /\ v1 = HostKeys!Parse(v1.header, v1.lines)
        /\ v1.header \in Seq(STRING) /\ v1.lines \in Seq(HostKeys!Line)
    BY HostKeysGiven DEF HostKeys!Init
  <2>2. \A t, f : HostKeys!Parse(t, f)
        = [header |-> HostKeys!Parse(t, f).header, lines |-> HostKeys!Parse(t, f).lines]
    BY DEF HostKeys!Parse
  <2>3. v1 = [header |-> v1.header, lines |-> v1.lines]
    BY <2>1, <2>2
  <2> QED
    BY <2>1, <2>3
<1>2. v4 = [c \in OfHostKeys.Commands |-> HostKeys!Idle] /\ v2 = {}
      /\ v3 \in [OfHostKeys.Hosts -> OfHostKeys.Keys]
      /\ v5 = [h \in OfHostKeys.Hosts |-> "as_before"]
  BY DEF HostKeys!Init
<1>3. \A c \in OfHostKeys.Commands : v4[c] = HostKeys!Idle
  BY <1>2
<1>4. v4 \in [OfHostKeys.Commands -> HostKeys!Run]
  BY <1>2, IdleIs
<1>5. HostKeys!Idle.pc = "idle"
  BY DEF HostKeys!Idle
<1>6. HostKeys!LockInv /\ HostKeys!ReadInv /\ HostKeys!NameInv
  BY <1>2, <1>3, <1>5, IdleIs DEF HostKeys!LockInv, HostKeys!ReadInv, HostKeys!NameInv
<1>7. \A h \in OfHostKeys.Hosts : v5[h] = "as_before"
  BY <1>2
<1>8. HostKeys!WrittenIsThere
  BY <1>7, HostKeysGiven DEF HostKeys!WrittenIsThere
<1>9. HostKeys!TypeOK
  <2>1. HostKeys!Cardinality(v2) <= 1
    BY <1>2, OneHolder
  <2>2. \A d \in OfHostKeys.Commands :
        /\ v4[d].pc \in {"idle", "scan", "modify", "read", "write", "over"}
                                       /\ v4[d].names \in Seq(OfHostKeys.Names)
                                       /\ v4[d].found
                                          \in [OfHostKeys.Hosts -> OfHostKeys.Keys
                                            \cup {HostKeys!NoKey}]
    BY <1>3, IdleIs, RunParts
  <2>3. v5 \in [OfHostKeys.Hosts -> OfHostKeys.Keys \cup {"as_before", "gone"}]
    BY <1>2
  <2> QED
    BY <1>1, <1>2, <2>1, <2>2, <2>3 DEF HostKeys!TypeOK
<1> QED
  BY <1>1, <1>4, <1>6, <1>8, <1>9 DEF HostKeys!Inv

LEMMA RekeyKeeps ==
  ASSUME HostKeys!Inv, NEW h \in OfHostKeys.Hosts, HostKeys!Rekey(h)
  PROVE  HostKeys!Inv'
<1>1. PICK k \in OfHostKeys.Keys : v3' = [v3 EXCEPT ![h] = k]
  BY DEF HostKeys!Rekey
<1>2. v3' \in [OfHostKeys.Hosts -> OfHostKeys.Keys]
  BY <1>1 DEF HostKeys!Inv, HostKeys!TypeOK
<1>3. v1' = v1 /\ v2' = v2 /\ v4' = v4 /\ v5' = v5
  BY DEF HostKeys!Rekey
<1>4. HostKeys!LockInv' /\ HostKeys!ReadInv' /\ HostKeys!NameInv' /\ HostKeys!WrittenIsThere'
  BY <1>3 DEF HostKeys!Inv, HostKeys!LockInv, HostKeys!ReadInv, HostKeys!NameInv,
     HostKeys!WrittenIsThere
<1>5. HostKeys!TypeOK'
  BY <1>2, <1>3 DEF HostKeys!Inv, HostKeys!TypeOK
<1> QED
  BY <1>3, <1>4, <1>5 DEF HostKeys!Inv

LEMMA RevokeKeeps ==
  ASSUME HostKeys!Inv, HostKeys!Revoke
  PROVE  HostKeys!Inv'
<1> DEFINE P == {[not |-> FALSE, kind |-> "wild", name |-> h] : h \in OfHostKeys.Hosts}
           line(k, p) == [marker |-> "@revoked", hosts |-> <<p>>, type |-> HostKeys!KeyType,
             key |-> k, notes |-> <<>>]
<1>1. PICK k \in OfHostKeys.Keys, p \in P : v1' = [v1 EXCEPT !.lines = Append(@, line(k, p))]
  BY DEF HostKeys!Revoke
<1>2. v2 = {} /\ v2' = v2 /\ v4' = v4 /\ v5' = v5 /\ v3' = v3
  BY DEF HostKeys!Revoke
<1>3. /\ v1 \in [header : Seq(STRING), lines : Seq(HostKeys!Line)] /\ HostKeys!LockInv
      /\ HostKeys!NameInv /\ HostKeys!WrittenIsThere /\ HostKeys!TypeOK
      /\ v1.header \in Seq(STRING) /\ v1.lines \in Seq(HostKeys!Line)
  BY DEF HostKeys!Inv, HostKeys!TypeOK
<1>4. p \in HostKeys!Patterns
  <2>1. PICK h \in OfHostKeys.Hosts : p = [not |-> FALSE, kind |-> "wild", name |-> h]
    OBVIOUS
  <2>2. h \in OfHostKeys.Names
    BY HostKeysGiven
  <2> QED
    BY <2>1, <2>2 DEF HostKeys!Patterns
<1> HIDE DEF P
<1> DEFINE e == line(k, p)
<1>5. e \in HostKeys!Line /\ ~HostKeys!IsHostKey(e)
  <2>1. <<p>> \in Seq(HostKeys!Patterns) /\ <<>> \in Seq(STRING)
    BY <1>4
  <2> QED
    BY <2>1 DEF HostKeys!Line, HostKeys!KeyType, HostKeys!IsHostKey
<1> HIDE DEF e
<1> DEFINE g == Append(v1.lines, e)
<1>6. v1' = [header |-> v1.header, lines |-> g]
  BY <1>1, <1>3 DEF e
<1>7. /\ g \in Seq(HostKeys!Line) /\ DOMAIN g = DOMAIN v1.lines \cup {Len(v1.lines) + 1}
      /\ Len(v1.lines) + 1 \notin DOMAIN v1.lines /\ g[Len(v1.lines) + 1] = e
      /\ \A i \in DOMAIN v1.lines : g[i] = v1.lines[i]
  BY <1>3, <1>5
<1> HIDE DEF g
<1>8. v1'.lines = g /\ v1'.header = v1.header
  BY <1>6
<1>9. v1' \in [header : Seq(STRING), lines : Seq(HostKeys!Line)]
  BY <1>3, <1>6, <1>7
<1>10. \A h : HostKeys!Named(g, h) = HostKeys!Named(v1.lines, h)
  <2> TAKE h
  <2>1. \A i : i \in HostKeys!Named(g, h) <=> i \in HostKeys!Named(v1.lines, h)
    BY <1>5, <1>7, NamedAre DEF NamesIn
  <2> QED
    BY <2>1
<1>11. HostKeys!WrittenIsThere'
  <2>1. \A h \in OfHostKeys.Hosts :
         /\ v5[h] = "gone" => HostKeys!Named(g, h) = {}
         /\ v5[h] \in OfHostKeys.Keys
            => \E i \in DOMAIN g : HostKeys!Named(g, h) = {i} /\ g[i].key = v5[h]
    BY <1>3, <1>7, <1>10 DEF HostKeys!WrittenIsThere
  <2> QED
    BY <1>2, <1>8, <2>1 DEF HostKeys!WrittenIsThere
<1>12. HostKeys!LockInv' /\ HostKeys!NameInv'
  BY <1>2, <1>3 DEF HostKeys!LockInv, HostKeys!NameInv
<1>13. HostKeys!ReadInv'
  BY <1>2, <1>3 DEF HostKeys!LockInv, HostKeys!ReadInv
<1>14. HostKeys!TypeOK'
  BY <1>2, <1>3, <1>7, <1>8 DEF HostKeys!TypeOK
<1>15. v4' \in [OfHostKeys.Commands -> HostKeys!Run]
  BY <1>2 DEF HostKeys!Inv
<1> QED
  BY <1>9, <1>11, <1>12, <1>13, <1>14, <1>15 DEF HostKeys!Inv

LEMMA RankedIs ==
  ASSUME NEW S, NEW order
  PROVE  HostKeys!Ranked(S, order)
         = [k \in 1..HostKeys!Cardinality(S) |-> HostKeys!Ranked(S, order)[k]]
<1> DEFINE at(k) == CHOOSE i \in S : HostKeys!Cardinality({j \in S : <<j, i>> \in order}) = k - 1
<1>1. HostKeys!Ranked(S, order) = [k \in 1..HostKeys!Cardinality(S) |-> at(k)]
  BY DEF HostKeys!Ranked
<1> HIDE DEF at
<1> QED
  BY <1>1

LEMMA RefreshKeeps ==
  ASSUME HostKeys!Inv, NEW c \in OfHostKeys.Commands, HostKeys!Refresh(c)
  PROVE  HostKeys!Inv'
<1>1. PICK S \in SUBSET OfHostKeys.Hosts \ {{}} :
        v4' = [v4 EXCEPT ![c] = [HostKeys!Idle EXCEPT !.pc = "scan", !.does = "refresh",
          !.names = HostKeys!Sorted(S)]]
  BY DEF HostKeys!Refresh
<1>2. /\ v4[c].pc = "idle" /\ v1' = v1 /\ v2' = v2 /\ v3' = v3 /\ v5' = v5
  BY DEF HostKeys!Refresh
<1> DEFINE s == HostKeys!Sorted(S)
<1>3. HostKeys!IsFiniteSet(OfHostKeys.Hosts) /\ OfHostKeys.Hosts \subseteq OfHostKeys.Names
      /\ OfHostKeys.Names \subseteq Nat
  BY HostKeysGiven
<1>4. HostKeys!IsFiniteSet(S) /\ S \subseteq Nat
  BY <1>3, FS_Subset, HostKeysSizes
<1>5. /\ DOMAIN s = 1..HostKeys!Cardinality(S) /\ HostKeys!Cardinality(S) \in Nat
      /\ \A k \in 1..HostKeys!Cardinality(S) : s[k] \in S
  BY <1>4, SortedPlaces
<1>6. s \in Seq(OfHostKeys.Hosts) /\ s \in Seq(OfHostKeys.Names)
  <2> DEFINE n == HostKeys!Cardinality(S)
             at(k) == HostKeys!Sorted(S)[k]
  <2>1. s = [k \in 1..n |-> at(k)]
    BY RankedIs DEF HostKeys!Sorted
  <2>2. n \in Nat /\ \A k \in 1..n : at(k) \in OfHostKeys.Hosts
    BY <1>5
  <2> HIDE DEF s, n, at
  <2>3. s \in Seq(OfHostKeys.Hosts)
    BY <2>1, <2>2
  <2>4. OfHostKeys.Hosts \subseteq OfHostKeys.Names
    BY <1>3
  <2>5. s \in Seq(OfHostKeys.Names)
    BY <2>3, <2>4
  <2> QED
    BY <2>3, <2>5
<1> DEFINE r == [HostKeys!Idle EXCEPT !.pc = "scan", !.does = "refresh", !.names = s]
<1> HIDE DEF s
<1>7. r \in HostKeys!Run /\ r.pc = "scan" /\ r.does = "refresh" /\ r.names = s
  BY <1>6, IdleIs DEF HostKeys!Run
<1>8. v4' = [v4 EXCEPT ![c] = r]
  BY <1>1 DEF s
<1> HIDE DEF r
<1>9. HostKeys!LockInv /\ v2 \subseteq OfHostKeys.Commands
  BY DEF HostKeys!Inv, HostKeys!TypeOK
<1> QED
  BY <1>2, <1>6, <1>7, <1>8, <1>9, SameFile, RunMoves DEF HostKeys!LockInv

\* A run that goes on without reading or writing, or gives up.
LEMMA PcMoves ==
  ASSUME HostKeys!Inv, NEW c \in OfHostKeys.Commands,
         NEW pc \in {"scan", "modify", "read", "over"}, NEW r \in HostKeys!Run,
         r.pc = pc, r.does = "refresh" => r.names \in Seq(OfHostKeys.Hosts),
           v4' = [v4 EXCEPT ![c] = r],
         UNCHANGED <<v1, v3, v5>>,
         v2' = IF pc = "read" THEN v2 \cup {c} ELSE v2 \ {c},
         pc = "read" => v2 = {}
  PROVE  HostKeys!Inv'
<1>1. HostKeys!LockInv /\ v2 \subseteq OfHostKeys.Commands
  BY DEF HostKeys!Inv, HostKeys!TypeOK
<1>2. /\ v2' \subseteq OfHostKeys.Commands /\ \A d, e \in v2' : d = e
      /\ \A d \in OfHostKeys.Commands \ {c} : d \in v2' <=> d \in v2
      /\ c \in v2' <=> pc = "read"
  BY <1>1 DEF HostKeys!LockInv
<1>3. v1' = v1 /\ v5' = v5 /\ v3' = v3
  OBVIOUS
<1> QED
  BY <1>2, <1>3, SameFile, RunMoves

LEMMA MovedIs ==
  ASSUME HostKeys!Inv, NEW c \in OfHostKeys.Commands,
         NEW pc \in {"scan", "modify", "read", "write", "over"}, HostKeys!Moved(c, pc)
  PROVE  \E r \in HostKeys!Run : /\ r.pc = pc /\ r.does = v4[c].does /\ r.names = v4[c].names
         /\ r.read = v4[c].read
                                 /\ r.found = v4[c].found /\ v4' = [v4 EXCEPT ![c] = r]
<1>1. v4[c] \in HostKeys!Run
  BY DEF HostKeys!Inv
<1> DEFINE r == [v4[c] EXCEPT !.pc = pc]
<1>2. /\ r \in HostKeys!Run /\ r.pc = pc /\ r.does = v4[c].does /\ r.names = v4[c].names
      /\ r.read = v4[c].read
      /\ r.found = v4[c].found
  BY <1>1 DEF HostKeys!Run
<1>3. v4' = [v4 EXCEPT ![c] = r]
  BY DEF HostKeys!Moved
<1> QED
  BY <1>2, <1>3

LEMMA OverIs ==
  ASSUME HostKeys!Inv, NEW c \in OfHostKeys.Commands, HostKeys!Over(c)
  PROVE  \E r \in HostKeys!Run : r.pc = "over" /\ r.does = "remove" /\ v4' = [v4 EXCEPT ![c] = r]
<1> DEFINE r == [HostKeys!Idle EXCEPT !.pc = "over"]
<1>1. r \in HostKeys!Run /\ r.pc = "over" /\ r.does = "remove"
  BY IdleIs
<1>2. v4' = [v4 EXCEPT ![c] = r]
  BY DEF HostKeys!Over
<1> QED
  BY <1>1, <1>2

LEMMA CollectKeeps ==
  ASSUME HostKeys!Inv, NEW c \in OfHostKeys.Commands, NEW h \in OfHostKeys.Hosts,
         HostKeys!Collect(c, h)
  PROVE  HostKeys!Inv'
<1>1. v4[c] \in HostKeys!Run /\ v3[h] \in OfHostKeys.Keys /\ v4[c].does = "refresh"
      => v4[c].names \in Seq(OfHostKeys.Hosts)
  BY DEF HostKeys!Inv, HostKeys!TypeOK, HostKeys!NameInv
<1>2. /\ v4[c].pc = "scan" /\ v4' = [v4 EXCEPT ![c].found[h] = v3[h]]
      /\ UNCHANGED <<v1, v2, v3, v5>>
  BY DEF HostKeys!Collect
<1>3. v4[c] \in HostKeys!Run /\ v3[h] \in OfHostKeys.Keys /\ HostKeys!NameInv
  BY DEF HostKeys!Inv, HostKeys!TypeOK
<1> DEFINE r == [v4[c] EXCEPT !.found[h] = v3[h]]
<1>4. r \in HostKeys!Run /\ r.pc = "scan" /\ r.does = v4[c].does /\ r.names = v4[c].names
  <2>1. v4[c].found \in [OfHostKeys.Hosts -> OfHostKeys.Keys \cup {HostKeys!NoKey}]
    BY <1>3, RunParts
  <2> DEFINE n == [v4[c].found EXCEPT ![h] = v3[h]]
  <2>2. n \in [OfHostKeys.Hosts -> OfHostKeys.Keys \cup {HostKeys!NoKey}]
    BY <1>3, <2>1
  <2> HIDE DEF n
  <2>3. r = [v4[c] EXCEPT !.found = n]
    BY DEF n
  <2> QED
    BY <1>2, <1>3, <2>2, <2>3 DEF HostKeys!Run
<1>5. v4' = [v4 EXCEPT ![c] = r]
  BY <1>2
<1> HIDE DEF r
<1>6. c \notin v2
  BY <1>2 DEF HostKeys!Inv, HostKeys!LockInv
<1>7. v2' = v2 \ {c}
  BY <1>2, <1>6
<1> QED
  BY <1>2, <1>3, <1>4, <1>5, <1>7, PcMoves DEF HostKeys!NameInv

LEMMA ScanOverKeeps ==
  ASSUME HostKeys!Inv, NEW c \in OfHostKeys.Commands, HostKeys!ScanOver(c)
  PROVE  HostKeys!Inv'
<1>1. PICK r \in HostKeys!Run : r.pc = "modify" /\ r.does = v4[c].does /\ r.names = v4[c].names
      /\ v4' = [v4 EXCEPT ![c] = r]
  BY MovedIs DEF HostKeys!ScanOver
<1>2. v4[c].pc = "scan" /\ UNCHANGED <<v1, v2, v3, v5>>
  BY DEF HostKeys!ScanOver
<1>3. v2' = v2 \ {c}
  BY <1>2 DEF HostKeys!Inv, HostKeys!LockInv
<1>4. r.does = "refresh" => r.names \in Seq(OfHostKeys.Hosts)
  BY <1>1 DEF HostKeys!Inv, HostKeys!NameInv
<1> QED
  BY <1>1, <1>2, <1>3, <1>4, PcMoves

LEMMA RemoveKeeps ==
  ASSUME HostKeys!Inv, NEW c \in OfHostKeys.Commands, HostKeys!Remove(c)
  PROVE  HostKeys!Inv'
<1>1. PICK names \in OfHostKeys.Removals : v4'
      = [v4 EXCEPT ![c] = [HostKeys!Idle EXCEPT !.pc = "modify", !.names = names]]
  BY DEF HostKeys!Remove
<1>2. v4[c].pc = "idle" /\ UNCHANGED <<v1, v2, v3, v5>>
  BY DEF HostKeys!Remove
<1>3. names \in Seq(OfHostKeys.Names)
  BY HostKeysGiven
<1> DEFINE r == [HostKeys!Idle EXCEPT !.pc = "modify", !.names = names]
<1>4. r \in HostKeys!Run /\ r.pc = "modify" /\ r.does = "remove"
  BY <1>3, IdleIs DEF HostKeys!Run
<1>5. v4' = [v4 EXCEPT ![c] = r]
  BY <1>1
<1> HIDE DEF r
<1>6. v2' = v2 \ {c}
  BY <1>2 DEF HostKeys!Inv, HostKeys!LockInv
<1> QED
  BY <1>2, <1>4, <1>5, <1>6, PcMoves

LEMMA TakeLockKeeps ==
  ASSUME HostKeys!Inv, NEW c \in OfHostKeys.Commands, HostKeys!TakeLock(c)
  PROVE  HostKeys!Inv'
<1>1. PICK r \in HostKeys!Run : r.pc = "read" /\ r.does = v4[c].does /\ r.names = v4[c].names
      /\ v4' = [v4 EXCEPT ![c] = r]
  BY MovedIs DEF HostKeys!TakeLock
<1>2. v2 = {} /\ v2' = v2 \cup {c} /\ UNCHANGED <<v1, v3, v5>>
  BY DEF HostKeys!TakeLock, HostKeys!Free
<1>3. r.does = "refresh" => r.names \in Seq(OfHostKeys.Hosts)
  BY <1>1 DEF HostKeys!Inv, HostKeys!NameInv
<1> QED
  BY <1>1, <1>2, <1>3, PcMoves

LEMMA LockTimeoutKeeps ==
  ASSUME HostKeys!Inv, NEW c \in OfHostKeys.Commands, HostKeys!LockTimeout(c)
  PROVE  HostKeys!Inv'
<1>1. PICK r \in HostKeys!Run : r.pc = "over" /\ r.does = "remove" /\ v4' = [v4 EXCEPT ![c] = r]
  BY OverIs DEF HostKeys!LockTimeout, HostKeys!Unlocked
<1>2. v4[c].pc = "modify" /\ UNCHANGED <<v1, v2, v3, v5>>
  BY DEF HostKeys!LockTimeout
<1>3. v2' = v2 \ {c}
  BY <1>2 DEF HostKeys!Inv, HostKeys!LockInv
<1> QED
  BY <1>1, <1>2, <1>3, PcMoves

LEMMA KilledKeeps ==
  ASSUME HostKeys!Inv, NEW c \in OfHostKeys.Commands, HostKeys!Killed(c)
  PROVE  HostKeys!Inv'
<1>1. PICK r \in HostKeys!Run : r.pc = "over" /\ r.does = "remove" /\ v4' = [v4 EXCEPT ![c] = r]
  BY OverIs DEF HostKeys!Killed
<1>2. v2' = v2 \ {c} /\ UNCHANGED <<v1, v3, v5>>
  BY DEF HostKeys!Killed
<1> QED
  BY <1>1, <1>2, PcMoves

LEMMA ReadKeeps ==
  ASSUME HostKeys!Inv, NEW c \in OfHostKeys.Commands, HostKeys!Read(c)
  PROVE  HostKeys!Inv'
<1>1. /\ v4[c].pc = "read" /\ v4' = [v4 EXCEPT ![c].pc = "write", ![c].read = v1]
      /\ v1' = v1 /\ v2' = v2 /\ v3' = v3 /\ v5' = v5
  BY DEF HostKeys!Read
<1>2. v4[c] \in HostKeys!Run /\ v1 \in [header : Seq(STRING), lines : Seq(HostKeys!Line)]
  BY DEF HostKeys!Inv
<1> DEFINE r == [v4[c] EXCEPT !.pc = "write", !.read = v1]
<1>3. r \in HostKeys!Run /\ r.pc = "write" /\ r.read = v1 /\ r.does = v4[c].does
      /\ r.names = v4[c].names
  BY <1>2 DEF HostKeys!Run
<1>4. v4' = [v4 EXCEPT ![c] = r]
  BY <1>1
<1> HIDE DEF r
<1>5. HostKeys!LockInv /\ v2 \subseteq OfHostKeys.Commands
  BY DEF HostKeys!Inv, HostKeys!TypeOK
<1>6. r.does = "refresh" => r.names \in Seq(OfHostKeys.Hosts)
  BY <1>3 DEF HostKeys!Inv, HostKeys!NameInv
<1>7. r.read = v1'
  BY <1>1, <1>3
<1>8. (\A d \in OfHostKeys.Commands \ {c} : d \in v2' <=> d \in v2)
      /\ (c \in v2' <=> r.pc \in {"read", "write"})
  BY <1>1, <1>3, <1>5 DEF HostKeys!LockInv
<1>9. v2' \subseteq OfHostKeys.Commands /\ \A d, e \in v2' : d = e
  BY <1>1, <1>5 DEF HostKeys!LockInv
<1>10. /\ v1' \in [header : Seq(STRING), lines : Seq(HostKeys!Line)]
       /\ v5' \in [OfHostKeys.Hosts -> OfHostKeys.Keys \cup {"as_before", "gone"}]
       /\ HostKeys!WrittenIsThere'
       /\ \A d \in OfHostKeys.Commands \ {c} : v4[d].pc = "write" => v4[d].read = v1'
  BY <1>1, SameFile
<1> QED
  BY <1>1, <1>3, <1>4, <1>6, <1>7, <1>8, <1>9, <1>10, RunMoves, Zenon

LEMMA WriteKeeps ==
  ASSUME HostKeys!Inv, NEW c \in OfHostKeys.Commands, HostKeys!Write(c)
  PROVE  HostKeys!Inv'
<1>1. PICK r \in HostKeys!Run : r.pc = "over" /\ r.does = "remove" /\ v4' = [v4 EXCEPT ![c] = r]
  BY OverIs DEF HostKeys!Write
<1>2. /\ v4[c].pc = "write"
      /\ v1' = HostKeys!Parse(v4[c].read.header, HostKeys!Render(HostKeys!Changed(c)))
      /\ v2' = v2 \ {c} /\ v3' = v3
      /\ v5' = [h
         \in OfHostKeys.Hosts |-> IF OfHostKeys.Lower[h] \notin HostKeys!About(c) THEN v5[h]
                                       ELSE IF v4[c].does
                                         = "remove" THEN "gone" ELSE v4[c].found[h]]
  BY DEF HostKeys!Write
<1>3. /\ v4 \in [OfHostKeys.Commands -> HostKeys!Run] /\ HostKeys!LockInv /\ HostKeys!ReadInv
      /\ HostKeys!NameInv /\ HostKeys!WrittenIsThere /\ v2 \subseteq OfHostKeys.Commands
      /\ v5 \in [OfHostKeys.Hosts -> OfHostKeys.Keys \cup {"as_before", "gone"}]
      /\ v1.lines \in Seq(HostKeys!Line)
  BY DEF HostKeys!Inv, HostKeys!TypeOK
<1>4. v4[c].read = v1
  BY <1>2, <1>3 DEF HostKeys!ReadInv
<1> DEFINE f == v1.lines
           g == v1'.lines
           w == HostKeysTold(c)
           found == v4[c].found
<1>5. /\ v1' \in [header : Seq(STRING), lines : Seq(HostKeys!Line)]
      /\ HostKeysWritten(f, w, found, NewOf(c), g)
      /\ w \in Seq(OfHostKeys.Names) /\ HostKeys!About(c) = Abouts(w)
      /\ NewAre(f, w, found, NewOf(c))
  BY <1>2, <1>3, <1>4, WrittenFile, ChangedAre
<1>6. OfHostKeys.Hosts \subseteq OfHostKeys.Names /\ \A a,
      b \in OfHostKeys.Hosts : OfHostKeys.Lower[a] = OfHostKeys.Lower[b] => a = b
  BY HostKeysGiven
<1>7. ASSUME v4[c].does # "remove"
      PROVE  /\ w \in Seq(OfHostKeys.Hosts) /\ NewOf(c) = LastPlaces(w)
             /\ \A i \in DOMAIN w : found[w[i]] \in OfHostKeys.Keys
             /\ \A h \in OfHostKeys.Hosts : OfHostKeys.Lower[h] \in Abouts(w)
                => found[h] \in OfHostKeys.Keys
  <2>1. v4[c].names \in Seq(OfHostKeys.Hosts)
    <3>1. v4[c] \in HostKeys!Run
      BY <1>3
    <3> QED
      BY <1>3, <1>7, <3>1, RunParts DEF HostKeys!NameInv
  <2>2. w = HostKeys!Writable(c) /\ NewOf(c) = LastPlaces(w)
    BY <1>7 DEF HostKeysTold, NewOf
  <2>3. w \in Seq(OfHostKeys.Hosts) /\ \A i \in DOMAIN w : found[w[i]] \in OfHostKeys.Keys
    BY <1>3, <2>1, <2>2, WritableAre
  <2> HIDE DEF w, found
  <2>4. ASSUME NEW h \in OfHostKeys.Hosts,
               OfHostKeys.Lower[h] \in Abouts(w) PROVE found[h] \in OfHostKeys.Keys
    <3>1. PICK i \in DOMAIN w : OfHostKeys.Lower[w[i]] = OfHostKeys.Lower[h]
      BY <2>4 DEF Abouts
    <3>2. w[i] = h
      BY <1>6, <2>3, <3>1
    <3> QED
      BY <2>3, <3>2
  <2> QED
    BY <2>2, <2>3, <2>4
<1>8. f \in Seq(HostKeys!Line)
  BY <1>3
<1> HIDE DEF f, g, w, found
<1>9. ASSUME NEW h \in OfHostKeys.Hosts
      PROVE  /\ v5'[h] \in OfHostKeys.Keys \cup {"as_before", "gone"}
             /\ v5'[h] = "gone" => HostKeys!Named(g, h) = {}
             /\ v5'[h] \in OfHostKeys.Keys
                => \E i \in DOMAIN g : HostKeys!Named(g, h) = {i} /\ g[i].key = v5'[h]
  <2>1. h \in OfHostKeys.Names
    BY <1>6
  <2>2. CASE OfHostKeys.Lower[h] \notin Abouts(w)
    <3>1. v5'[h] = v5[h]
      BY <1>2, <1>5, <2>2
    <3>2. /\ v5[h] = "gone" => HostKeys!Named(f, h) = {}
          /\ v5[h] \in OfHostKeys.Keys
             => \E i \in DOMAIN f : HostKeys!Named(f, h) = {i} /\ f[i].key = v5[h]
      BY <1>3 DEF HostKeys!WrittenIsThere, f
    <3>3. /\ HostKeys!Named(f, h) = {} => HostKeys!Named(g, h) = {}
          /\ HasOne(f, h, v5[h]) => HasOne(g, h, v5[h])
      BY <1>5, <1>8, <2>1, <2>2, OthersStay
    <3>4. v5[h] \in OfHostKeys.Keys \cup {"as_before", "gone"}
      BY <1>3
    <3> QED
      BY <3>1, <3>2, <3>3, <3>4 DEF HasOne
  <2>3. CASE OfHostKeys.Lower[h] \in Abouts(w) /\ v4[c].does = "remove"
    <3>1. v5'[h] = "gone"
      BY <1>2, <1>5, <2>3
    <3>2. NewOf(c) = {}
      BY <2>3 DEF NewOf
    <3>3. HostKeys!Named(g, h) = {}
      BY <1>3, <1>5, <2>1, <2>3, <3>2, GoneIsGone DEF f
    <3>4. "gone" \notin OfHostKeys.Keys
      BY HostKeysGiven
    <3> QED
      BY <3>1, <3>3, <3>4
  <2>4. CASE OfHostKeys.Lower[h] \in Abouts(w) /\ v4[c].does # "remove"
    <3>1. v5'[h] = found[h]
      BY <1>2, <1>5, <2>4 DEF found
    <3>2. found[h] \in OfHostKeys.Keys
      BY <1>7, <2>4
    <3>3. \E k \in DOMAIN g : HostKeys!Named(g, h) = {k} /\ g[k].key = found[h]
      <4>1. /\ w \in Seq(OfHostKeys.Hosts) /\ \A i \in DOMAIN w : found[w[i]] \in OfHostKeys.Keys
            /\ HostKeysWritten(f, w, found, LastPlaces(w), g)
        BY <1>5, <1>7, <2>4
      <4> QED
        BY <1>8, <2>4, <4>1, NewIsThere
    <3>4. "gone" \notin OfHostKeys.Keys
      BY HostKeysGiven
    <3> QED
      BY <3>1, <3>2, <3>3, <3>4
  <2> QED
    BY <2>2, <2>3, <2>4
<1>10. HostKeys!WrittenIsThere'
  BY <1>9 DEF HostKeys!WrittenIsThere, g
<1>11. v5' \in [OfHostKeys.Hosts -> OfHostKeys.Keys \cup {"as_before", "gone"}]
  BY <1>2, <1>9
<1>12. v2' \subseteq OfHostKeys.Commands /\ (\A d, e \in v2' : d = e) /\ c \notin v2'
  BY <1>2, <1>3 DEF HostKeys!LockInv
<1>13. \A d \in OfHostKeys.Commands \ {c} : v4[d].pc # "write" /\ (d \in v2' <=> d \in v2)
  BY <1>2, <1>3 DEF HostKeys!LockInv
<1> QED
  BY <1>1, <1>2, <1>5, <1>10, <1>11, <1>12, <1>13, RunMoves

LEMMA HostKeysStep == HostKeys!Inv /\ [HostKeys!Next]_(HostKeys!vars) => HostKeys!Inv'
<1> SUFFICES ASSUME HostKeys!Inv, [HostKeys!Next]_(HostKeys!vars) PROVE HostKeys!Inv'
  OBVIOUS
<1>1. CASE UNCHANGED HostKeys!vars
  <2>1. v1' = v1 /\ v2' = v2 /\ v3' = v3 /\ v4' = v4 /\ v5' = v5
    BY <1>1 DEF HostKeys!vars
  <2>2. HostKeys!TypeOK'
    BY <2>1 DEF HostKeys!Inv, HostKeys!TypeOK
  <2>3. HostKeys!LockInv' /\ HostKeys!ReadInv' /\ HostKeys!NameInv' /\ HostKeys!WrittenIsThere'
    BY <2>1 DEF HostKeys!Inv, HostKeys!LockInv, HostKeys!ReadInv, HostKeys!NameInv,
       HostKeys!WrittenIsThere
  <2> QED
    BY <2>1, <2>2, <2>3 DEF HostKeys!Inv
<1>2. CASE \E h \in OfHostKeys.Hosts : HostKeys!Rekey(h)
  BY <1>2, RekeyKeeps
<1>3. CASE HostKeys!Revoke
  BY <1>3, RevokeKeeps
<1>4. ASSUME NEW c \in OfHostKeys.Commands,
             \/ HostKeys!Refresh(c) \/ HostKeys!ScanOver(c) \/ HostKeys!Remove(c)
             \/ \E h \in OfHostKeys.Hosts : HostKeys!Collect(c, h)
             \/ HostKeys!TakeLock(c) \/ HostKeys!LockTimeout(c) \/ HostKeys!Read(c)
                \/ HostKeys!Write(c) \/ HostKeys!Killed(c)
      PROVE  HostKeys!Inv'
  BY <1>4, RefreshKeeps, ScanOverKeeps, RemoveKeeps, CollectKeeps, TakeLockKeeps, LockTimeoutKeeps,
     ReadKeeps, WriteKeeps, KilledKeeps
<1> QED
  BY <1>1, <1>2, <1>3, <1>4 DEF HostKeys!Next

LEMMA HostKeysKeeps == HostKeys!Inv
  => HostKeys!TypeOK /\ HostKeys!WrittenIsThere /\ HostKeys!IndexIsFile
<1> SUFFICES ASSUME HostKeys!Inv PROVE HostKeys!IndexIsFile
  BY DEF HostKeys!Inv
<1>1. v1.lines \in Seq(HostKeys!Line)
  BY DEF HostKeys!Inv, HostKeys!TypeOK
<1> QED
  BY <1>1, IndexFinds, Zenon DEF HostKeys!IndexIsFile

\* Only a write of the command itself ends a write and changes the file.
LEMMA WriterWrites ==
  ASSUME HostKeys!Inv, [HostKeys!Next]_(HostKeys!vars), NEW c \in OfHostKeys.Commands,
         HostKeys!Writes(c)
  PROVE  HostKeys!Write(c)
<1>1. v4[c].pc = "write" /\ v4'[c].pc = "over" /\ v1' # v1
  BY DEF HostKeys!Writes
<1>2. PICK d \in OfHostKeys.Commands : HostKeys!Write(d)
  BY <1>1 DEF HostKeys!Next, HostKeys!vars, HostKeys!Rekey, HostKeys!Revoke, HostKeys!Refresh,
     HostKeys!ScanOver, HostKeys!Remove, HostKeys!Collect, HostKeys!TakeLock,
     HostKeys!LockTimeout, HostKeys!Read, HostKeys!Killed
<1>3. v4' = [v4 EXCEPT ![d] = [HostKeys!Idle EXCEPT !.pc = "over"]]
  BY <1>2 DEF HostKeys!Write, HostKeys!Over
<1>4. c = d
  BY <1>1, <1>3 DEF HostKeys!Inv
<1> QED
  BY <1>2, <1>4

LEMMA StepTakesOnlyNamed == HostKeys!Inv /\ [HostKeys!Next]_(HostKeys!vars)
  => HostKeys!TakesOnlyNamed
<1> SUFFICES ASSUME HostKeys!Inv, [HostKeys!Next]_(HostKeys!vars), NEW c \in OfHostKeys.Commands,
                    HostKeys!Writes(c)
             PROVE  /\ \A s \in HostKeys!Held(v1.lines) \ HostKeys!Held(v1'.lines) : \E h
                       \in HostKeys!About(c) : HostKeys!NamesHost(s.pattern, h)
                    /\ HostKeys!Marked(v1.lines) \subseteq HostKeys!Marked(v1'.lines)
                    /\ v4[c].does = "refresh"
                       => HostKeys!NotesIn(v1) \subseteq HostKeys!NotesIn(v1')
  BY DEF HostKeys!TakesOnlyNamed
<1>1. /\ v4[c].pc = "write"
      /\ v1' = HostKeys!Parse(v4[c].read.header, HostKeys!Render(HostKeys!Changed(c)))
  BY WriterWrites DEF HostKeys!Write
<1>2. v4 \in [OfHostKeys.Commands -> HostKeys!Run] /\ HostKeys!NameInv /\ v4[c].read = v1
      /\ v1.lines \in Seq(HostKeys!Line)
  BY <1>1 DEF HostKeys!Inv, HostKeys!ReadInv, HostKeys!TypeOK
<1>3. /\ v1' \in [header : Seq(STRING), lines : Seq(HostKeys!Line)]
      /\ HostKeysWritten(v1.lines, HostKeysTold(c), v4[c].found, NewOf(c), v1'.lines)
      /\ v4[c].does = "refresh" => HostKeys!NotesIn(v1) \subseteq HostKeys!NotesIn(v1')
  BY <1>1, <1>2, WrittenFile
<1>4. HostKeysTold(c) \in Seq(OfHostKeys.Names) /\ HostKeys!About(c) = Abouts(HostKeysTold(c))
  BY <1>2, ChangedAre
<1>5. v1'.lines \in Seq(HostKeys!Line)
  BY <1>3
<1>6. \A s \in HostKeys!Held(v1.lines) \ HostKeys!Held(v1'.lines) : \E h \in HostKeys!About(c)
      : HostKeys!NamesHost(s.pattern, h)
  BY <1>2, <1>3, <1>4, OnlyNamedGone
<1>7. HostKeys!Marked(v1.lines) \subseteq HostKeys!Marked(v1'.lines)
  BY <1>2, <1>3, <1>4, <1>5, MarkedStay
<1> QED
  BY <1>3, <1>6, <1>7

LEMMA StepTrustsNoRevoked == HostKeys!Inv /\ [HostKeys!Next]_(HostKeys!vars)
  => HostKeys!TrustsNoRevoked
<1> SUFFICES ASSUME HostKeys!Inv, [HostKeys!Next]_(HostKeys!vars), NEW c \in OfHostKeys.Commands,
                    HostKeys!Writes(c),
                    NEW s \in HostKeys!Held(v1'.lines) \ HostKeys!Held(v1.lines)
             PROVE  ~HostKeys!Revoked(v1.lines, s.pattern.name, s.key)
  BY DEF HostKeys!TrustsNoRevoked
<1>1. /\ v4[c].pc = "write"
      /\ v1' = HostKeys!Parse(v4[c].read.header, HostKeys!Render(HostKeys!Changed(c)))
  BY WriterWrites DEF HostKeys!Write
<1>2. v4 \in [OfHostKeys.Commands -> HostKeys!Run] /\ HostKeys!NameInv /\ v4[c].read = v1
      /\ v1.lines \in Seq(HostKeys!Line)
  BY <1>1 DEF HostKeys!Inv, HostKeys!ReadInv, HostKeys!TypeOK
<1>3. HostKeysWritten(v1.lines, HostKeysTold(c), v4[c].found, NewOf(c), v1'.lines)
  BY <1>1, <1>2, WrittenFile
<1>4. HostKeysTold(c) \in Seq(OfHostKeys.Names) /\ NewOf(c) \subseteq DOMAIN HostKeysTold(c)
  BY <1>2, ChangedAre
<1>5. PICK i \in NewOf(c) : s.pattern.name = HostKeysTold(c)[i]
      /\ s.key = v4[c].found[HostKeysTold(c)[i]]
  BY <1>2, <1>3, <1>4, NewIsFound
<1>6. v4[c].does # "remove" /\ HostKeysTold(c) = HostKeys!Writable(c)
      /\ i \in DOMAIN HostKeys!Writable(c)
  BY <1>4, <1>5 DEF NewOf, HostKeysTold
<1>7. v4[c].names \in Seq(OfHostKeys.Hosts)
  <2>1. v4[c] \in HostKeys!Run
    BY <1>2
  <2> QED
    BY <1>2, <1>6, <2>1, RunParts DEF HostKeys!NameInv
<1> QED
  BY <1>2, <1>5, <1>6, <1>7, WritableAre

\* A step of the whole is one of the component, or of another scene.
LEMMA HostKeysScene ==
  ASSUME [Next]_vars
  PROVE  /\ scene' = scene
         /\ scene = "host_keys" => [HostKeys!Next]_(HostKeys!vars)
BY DEF Next, vars, HostKeys!vars

\* The invariant of the component is one of the whole.
LEMMA HostKeysAlways == Spec => [](scene = "host_keys" => HostKeys!Inv)
<1>1. Init => (scene = "host_keys" => HostKeys!Inv)
  BY HostKeysBegins DEF Init, Begin
<1>2. (scene = "host_keys" => HostKeys!Inv) /\ [Next]_vars => (scene = "host_keys" => HostKeys!Inv)'
  BY HostKeysScene, HostKeysStep
<1> QED
  BY <1>1, <1>2, PTL DEF Spec

\* From however many commands, whatever is revoked, reinstalled or killed
\* meanwhile: what was last written of a host is in the file, what was removed
\* last is not, and the index finds what a search would.  (Modify, Index)
THEOREM KeysAreWritten == Spec => []KeysAreAsWritten
<1>1. (scene = "host_keys" => HostKeys!Inv) => KeysAreAsWritten
  BY HostKeysKeeps DEF KeysAreAsWritten
<1> QED
  BY <1>1, HostKeysAlways, PTL

\* A command takes from the file only what names the hosts it writes, and a
\* refresh loses no note.  (removeAll, ReplaceAll, Render)
THEOREM OnlyNamedTaken == Spec => OnlyNamedGo
<1>1. (scene = "host_keys" => HostKeys!Inv) /\ [Next]_vars
      => [scene = "host_keys" => HostKeys!TakesOnlyNamed]_vars
  BY HostKeysScene, StepTakesOnlyNamed
<1> QED
  BY <1>1, HostKeysAlways, PTL DEF Spec, OnlyNamedGo

\* A key that the file revokes for a host is never written as the host's.
\* (refreshHostKeys, Revoked)
THEOREM RevokedNotTrusted == Spec => RevokedIsNotTrusted
<1>1. (scene = "host_keys" => HostKeys!Inv) /\ [Next]_vars
      => [scene = "host_keys" => HostKeys!TrustsNoRevoked]_vars
  BY HostKeysScene, StepTrustsNoRevoked
<1> QED
  BY <1>1, HostKeysAlways, PTL DEF Spec, RevokedIsNotTrusted
=============================================================================
