------------------------------- MODULE Session -------------------------------
(***************************************************************************)
(* One remote command: the ssh it runs in, the command on the node under   *)
(* timeout(1), and the result the command line makes of the two.  Sessions *)
(* share nothing but the interrupt that ends them, so one of them is all   *)
(* there is to see.  Its time is counted in ticks; whatever is due happens *)
(* before time goes on.  ssh, the network and the node are outside: they   *)
(* answer, go quiet or are lost at any moment, and what the command does   *)
(* when nothing can be heard of it any more is left out.                   *)
(***************************************************************************)
EXTENDS Integers

CONSTANTS
  Timeout,      \* of the request
  Grace,        \* killGrace
  Reach,        \* how long reaching the node may take
  Statuses      \* what the command may exit with by itself

SessionConstants == {Timeout, Grace, Reach} \subseteq Nat \ {0} /\ Statuses \subseteq 0..255

Never == -1
NoCode == -1    \* of an ssh that was ended by a signal
ConnectionFailed == 255

VARIABLES
  age,          \* how long the session has been going on
  ssh,          \* "connecting", "session", "gone" or "returned"
  code,         \* what ssh exited with
  lost,         \* history: ssh ended without hearing of the command
  quiet,        \* the connection has gone quiet
  told,         \* ssh was told to stop
  wait,         \* when WaitDelay began
  expired,      \* the deadline of the session is over
  held,         \* "no", "yes" or "was": a process ssh started holds its output open
  long,         \* the output is longer than what is kept
  remote,       \* the command: "none", "running", "told" or "over"
  born, status, \* when it began, and what it exited with
  result,
  interrupted

vars == <<age, ssh, code, lost, quiet, told, wait, expired, held, long, remote, born, status,
          result, interrupted>>
command == <<remote, born, status>>
stop == <<told, wait, expired, lost>>
answer == <<long, result>>

Ongoing == ssh \in {"connecting", "session"}

(***************************************************************************)
(* The node: RemoteCommand runs everything under timeout(1).               *)
(***************************************************************************)
Reached ==
  /\ ssh = "connecting" /\ ~quiet /\ ssh' = "session"
  /\ remote' = "running" /\ born' = age
  /\ UNCHANGED <<age, code, quiet, stop, held, status, answer, interrupted>>

Heard == ssh = "session" /\ ~quiet

Exits(s) ==
  /\ Heard /\ remote' = "over" /\ status' = s
  /\ UNCHANGED <<age, ssh, code, quiet, stop, held, born, answer, interrupted>>

ByItself == remote = "running" /\ \E s \in Statuses : Exits(s)

TimeoutStops ==
  /\ Heard /\ remote = "running" /\ age - born = Timeout
  /\ \/ Exits(124)
     \/ /\ remote' = "told"
        /\ UNCHANGED <<age, ssh, code, quiet, stop, held, born, status, answer, interrupted>>

TimeoutKills ==
  /\ remote = "told"
  /\ Exits(124) \/ (age - born = Timeout + Grace /\ Exits(137))

(***************************************************************************)
(* ssh.                                                                    *)
(***************************************************************************)
GoesQuiet ==
  /\ Ongoing /\ ~quiet /\ quiet' = TRUE
  /\ UNCHANGED <<age, ssh, code, stop, held, command, answer, interrupted>>

Gone(c) ==
  /\ ssh' = "gone" /\ code' = c
  /\ wait' = IF wait = Never THEN age ELSE wait
  /\ held' \in {"no", "yes"}
  /\ UNCHANGED <<age, quiet, told, expired, command, answer, interrupted>>

\* statusGuard: 255 is ssh's own.
Guarded(s) == IF s = ConnectionFailed THEN 254 ELSE s

Answered == Heard /\ remote = "over" /\ Gone(Guarded(status)) /\ UNCHANGED lost

\* Refused, not reached in time, or its keepalives are not answered.
Lost == Ongoing /\ Gone(ConnectionFailed) /\ lost' = TRUE

Stops == Ongoing /\ told /\ lost' = TRUE /\ \E c \in {NoCode, ConnectionFailed} : Gone(c)

Release ==
  /\ held = "yes" /\ ssh = "gone" /\ held' = "was"
  /\ UNCHANGED <<age, ssh, code, quiet, stop, command, answer, interrupted>>

(***************************************************************************)
(* Client.Run.                                                             *)
(***************************************************************************)
\* cmd.Cancel: ssh is told to stop, unless it has gone.
Cancel ==
  /\ told' = (told \/ Ongoing)
  /\ wait' = IF Ongoing /\ wait = Never THEN age ELSE wait

\* The command's time, its grace, and what reaching the node takes.
Deadline(t) == t + Grace + Reach

Expire ==
  /\ ssh # "returned" /\ ~expired /\ age = Deadline(Timeout)
  /\ expired' = TRUE /\ Cancel
  /\ UNCHANGED <<age, ssh, code, quiet, lost, held, command, answer, interrupted>>

Interrupt ==
  /\ ~interrupted /\ interrupted' = TRUE /\ Cancel
  /\ UNCHANGED <<age, ssh, code, quiet, expired, lost, held, command, answer>>

\* ssh is killed, and its output waited for.
WaitDelayOfProcess(at) == ssh # "gone" /\ age = at + Grace

\* WaitDelay: ssh is killed, or its output given up on.
WaitDelay(at) == age = at + Grace

GivenUp == wait # Never /\ WaitDelay(wait)

KillSsh == Ongoing /\ GivenUp /\ Gone(NoCode) /\ lost' = TRUE

timedOut == age >= Timeout /\ code \in {124, 137}

\* What Wait returns: the status, the context's error, or ErrWaitDelay.
RunError == code # 0 \/ told \/ held = "yes"

\* classify, and what Run makes of it.
Classified(cut) ==
  CASE ~RunError -> IF cut THEN "cut_off" ELSE "ok"
    [] RunError /\ interrupted -> "interrupted"
    [] RunError /\ ~interrupted /\ (expired \/ code \in {0, ConnectionFailed}) -> "unreachable"
    [] OTHER -> IF timedOut THEN "timed_out" ELSE "exit"

Return ==
  /\ ssh = "gone" /\ (held = "yes" => GivenUp) /\ ssh' = "returned"
  /\ long' \in BOOLEAN /\ result' = Classified(long')
  /\ UNCHANGED <<age, code, quiet, stop, held, command, interrupted>>

\* Check: what the command line exits with.  An output that was cut off is an
\* error without a status of its own, as a node that is not reached.
Transport == 3

exit ==
  CASE result \in {"none", "ok"} -> 0
    [] result = "interrupted" -> 130
    [] result = "unreachable" \/ (result = "cut_off" /\ code = 0) -> Transport
    [] OTHER -> 1

(***************************************************************************)
(* Time.                                                                   *)
(***************************************************************************)
Due ==
  \/ Heard /\ remote = "running" /\ age - born = Timeout
  \/ Heard /\ remote = "told" /\ age - born = Timeout + Grace
  \/ Heard /\ remote = "over"
  \/ ~expired /\ age = Deadline(Timeout)
  \/ ssh = "gone" /\ held # "yes"
  \/ GivenUp

Tick ==
  /\ ssh # "returned" /\ ~Due /\ age' = age + 1
  /\ UNCHANGED <<ssh, code, quiet, stop, held, command, answer, interrupted>>

Init ==
  /\ age = 0 /\ lost = FALSE /\ ssh = "connecting" /\ code = NoCode /\ quiet = FALSE
  /\ told = FALSE /\ wait = Never /\ expired = FALSE /\ held = "no" /\ long = FALSE
  /\ remote = "none" /\ born = Never /\ status = Never
  /\ result = "none" /\ interrupted = FALSE

Next ==
  \/ Reached \/ ByItself \/ TimeoutStops \/ TimeoutKills
  \/ GoesQuiet \/ Answered \/ Lost \/ Stops \/ Release
  \/ Expire \/ Interrupt \/ KillSsh \/ Return \/ Tick

Spec == Init /\ [][Next]_vars

(***************************************************************************)
(* Properties.                                                             *)
(***************************************************************************)
TypeOK ==
  /\ ssh \in {"connecting", "session", "gone", "returned"}
  /\ remote \in {"none", "running", "told", "over"}
  /\ result \in {"none", "ok", "cut_off", "exit", "timed_out", "unreachable", "interrupted"}
  /\ result # "none" <=> ssh = "returned"
  /\ born <= age /\ wait <= age

\* The node was reached in its time and stayed so until ssh had the command's
\* status, nobody interrupted it, and ssh's output ended with ssh.
InOrder ==
  /\ ~interrupted /\ ~quiet /\ ~lost /\ held = "no" /\ born < Reach

\* What is reported is what became of the command.  ok: it exited 0, and all
\* its output is kept.  A status: the command's own, so that its 255 is never
\* taken for a node that is not reached.  Unreachable: never a node that
\* answered, however long its command took to be stopped.  Interrupted: only
\* when it was.  A command that timeout(1) ended is told from one that was
\* ended in the same way in less time.  (Run, classify, timedOut, exited)
ResultIsTrue ==
  ssh = "returned" =>
    /\ result = "ok" => remote = "over" /\ status = 0 /\ ~long /\ held # "yes"
    /\ result \in {"exit", "timed_out"} =>
         remote = "over" /\ status \notin {0, Never} /\ code = Guarded(status)
    /\ InOrder => result # "unreachable" /\ (exit = Transport => long)
    /\ exit = 0 => remote = "over" /\ status = 0 /\ ~long
    /\ result = "interrupted" => interrupted
    /\ InOrder /\ status \in {124, 137} => (result = "timed_out" <=> age >= Timeout)

\* A session ends, whatever the node, ssh and what it started do: when its
\* deadline and one grace more are over, and one grace after it was told to.
\* (Run, command)
EndsInTime ==
  /\ age <= Timeout + Reach + 2 * Grace
  /\ told => age <= wait + Grace

(***************************************************************************)
(* What holds of every session, and the properties rest on.                *)
(***************************************************************************)
Values ==
  /\ age \in Nat /\ code \in 0..255 \cup {NoCode} /\ wait \in Nat \cup {Never}
  /\ born \in Nat \cup {Never} /\ status \in 0..255 \cup {Never}
  /\ held \in {"no", "yes", "was"}

\* ssh is told to stop by the deadline or an interrupt, and its output is
\* waited for from then on, or from its end.
ToldInv ==
  /\ told => wait # Never /\ (expired \/ interrupted)
  /\ Ongoing /\ wait # Never => told
  /\ ~Ongoing => wait # Never

\* Time does not pass the deadline, nor the grace that follows it.
TimeInv ==
  /\ wait # Never => age <= wait + Grace
  /\ IF expired THEN wait # Never /\ wait <= Deadline(Timeout) /\ age >= Deadline(Timeout)
     ELSE age <= Deadline(Timeout)

\* The command is there from when the node is reached, and ends in its time
\* as long as the node is heard.
CommandInv ==
  /\ remote = "none" <=> born = Never
  /\ ssh = "connecting" => remote = "none"
  /\ ssh = "session" => remote # "none"
  /\ remote = "over" <=> status # Never
  /\ Heard => age <= born + Timeout + (IF remote = "running" THEN 0 ELSE Grace)

\* What ssh exited with, and when it could have.
CodeInv ==
  IF Ongoing THEN ~lost
  ELSE
    /\ IF lost THEN code = ConnectionFailed \/ (code = NoCode /\ told)
       ELSE remote = "over" /\ code = Guarded(status)
    /\ ~lost /\ ~quiet /\ held = "no" => age <= born + Timeout + Grace

Inv == TypeOK /\ Values /\ ToldInv /\ TimeInv /\ CommandInv /\ CodeInv /\ ResultIsTrue
=============================================================================
