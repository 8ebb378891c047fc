------------------------------ MODULE DhcpFetch ------------------------------
(***************************************************************************)
(* The DHCP server's configuration, as one command reads it: the workers   *)
(* that ask for it, the memo they share, the parser that takes the files   *)
(* in the order of their include statements, and the fetcher that reads    *)
(* them ahead of it, some side by side.  The server and the disk are       *)
(* outside: a read fails, or is stopped with the context of the worker     *)
(* that reads for all.                                                     *)
(***************************************************************************)
EXTENDS Naturals, Sequences, FiniteSets

CONSTANTS
  Workers,      \* callers of DHCPConfig in one command, each with a context
  Files,
  Main,         \* services.dhcp.configPath
  Layouts,      \* what the files may hold: of a file, its statements
  prefetchers,
  maxFiles,
  maxDepth,
  Failures      \* bound: reads that fail

Nobody == "nobody"
Host(name) == [what |-> "host", of |-> name]
Include(file) == [what |-> "include", of |-> file]
DhcpFetchConstants ==
  /\ "nobody" \notin Workers /\ IsFiniteSet(Files) /\ Main \in Files
  /\ {prefetchers, maxFiles, maxDepth} \subseteq Nat \ {0} /\ Failures \in Nat
  /\ \A l \in Layouts : \A f \in Files :
       /\ Len(l[f]) \in Nat /\ DOMAIN l[f] = 1..Len(l[f])
       /\ \A i \in DOMAIN l[f] : l[f][i].what = "include" => l[f][i].of \in Files

VARIABLES
  layout,
  pc, answer,   \* of a worker, where it is in DHCPConfig, and what it got
  ended,        \* workers whose context has ended
  reader,       \* who holds dhcpMemo.mu
  memo,         \* what is kept for the command
  frames,       \* the parser: a file and the statement it has come to, of each
                \* file on the chain of includes
  files,        \* how many files it has counted
  hosts,        \* the declarations read so far
  fetch,        \* of a file, the read of it in this parse
  stopped,      \* fetcher.stopped
  disk,         \* files whose cached copy is younger than its time to live
  failures

vars == <<layout, pc, answer, ended, reader, memo, frames, files, hosts, fetch, stopped, disk,
          failures>>
parser == <<frames, files, hosts>>

None == [what |-> "none", hosts |-> <<>>]
Parsed(hs) == [what |-> "ok", hosts |-> hs]
Error(what) == [what |-> what, hosts |-> <<>>]

Unread == [f \in Files |-> "none"]
Top == frames[Len(frames)]
Chain == {frames[i].file : i \in 1..Len(frames)}

(***************************************************************************)
(* DHCPConfig.                                                             *)
(***************************************************************************)
Ask(w) ==
  /\ pc[w] = "ask" /\ reader = Nobody
  /\ IF memo # None
     THEN /\ pc' = [pc EXCEPT ![w] = "over"] /\ answer' = [answer EXCEPT ![w] = memo]
          /\ UNCHANGED <<reader, parser, fetch, stopped>>
     ELSE /\ reader' = w /\ pc' = [pc EXCEPT ![w] = "open"]
          /\ frames' = <<>> /\ files' = 1 /\ hosts' = <<>>
          /\ fetch' = Unread /\ stopped' = FALSE
          /\ UNCHANGED answer
  /\ UNCHANGED <<layout, ended, memo, disk, failures>>

\* An error of a read the context may have stopped is not kept.
Kept(w, r) == r.what = "ok" \/ w \notin ended

Return(w, r) ==
  /\ pc' = [pc EXCEPT ![w] = "over"] /\ answer' = [answer EXCEPT ![w] = r]
  /\ memo' = IF Kept(w, r) THEN r ELSE memo
  /\ reader' = Nobody

(***************************************************************************)
(* RemoteFile: the cached copy, or a session.                              *)
(***************************************************************************)
Outcomes(f) ==
  IF f \in disk THEN {"ok"}
  ELSE {"ok"} \cup (IF failures < Failures THEN {"failed"} ELSE {})
       \cup (IF reader \in ended THEN {"canceled"} ELSE {})

RemoteFile(f, how) ==
  /\ how \in Outcomes(f)
  /\ disk' = IF how = "ok" THEN disk \cup {f} ELSE disk
  /\ failures' = IF how = "failed" THEN failures + 1 ELSE failures

\* The included files of a file the parser would read, in order.
includes(f, chain, left) ==
  LET named == {i \in DOMAIN layout[f] :
                  /\ layout[f][i].what = "include" /\ layout[f][i].of \notin chain \cup {f}
                  /\ \A j \in 1..(i - 1) : layout[f][j] # layout[f][i]}
  IN {layout[f][i].of : i \in {i \in named : Cardinality({j \in named : j < i}) < left}}

\* run: the tokens, and the reads ahead of the parser.
Enter(f, count) ==
  /\ frames' = Append(frames, [file |-> f, at |-> 1])
  /\ files' = count
  /\ fetch' = [g \in Files |->
       IF fetch[g] = "none" /\ g \in includes(f, Chain, maxFiles - count) THEN "queued" ELSE fetch[g]]

Open(w) ==
  /\ pc[w] = "open"
  /\ \E how \in Outcomes(Main) :
       /\ RemoteFile(Main, how)
       /\ IF how = "ok"
          THEN /\ Enter(Main, 1) /\ pc' = [pc EXCEPT ![w] = "parse"]
               /\ UNCHANGED <<answer, memo, reader>>
          ELSE /\ Return(w, Error(how)) /\ UNCHANGED <<frames, files, fetch>>
  /\ UNCHANGED <<layout, ended, hosts, stopped>>

(***************************************************************************)
(* The fetcher.                                                            *)
(***************************************************************************)
Reading == {f \in Files : fetch[f] = "reading"}

Slot(f) ==
  /\ fetch[f] = "queued" /\ Cardinality(Reading) < prefetchers
  /\ fetch' = [fetch EXCEPT ![f] = IF stopped THEN "stopped" ELSE "reading"]
  /\ UNCHANGED <<layout, pc, answer, ended, reader, memo, parser, stopped, disk, failures>>

Read(f) ==
  /\ fetch[f] = "reading"
  /\ \E how \in Outcomes(f) : RemoteFile(f, how) /\ fetch' = [fetch EXCEPT ![f] = how]
  /\ UNCHANGED <<layout, pc, answer, ended, reader, memo, parser, stopped>>

(***************************************************************************)
(* The parser.                                                             *)
(***************************************************************************)
Statement == layout[Top.file][Top.at]
AtEnd == Top.at > Len(layout[Top.file])
Past(fs) == [fs EXCEPT ![Len(fs)].at = @ + 1]

\* The parse is over: nothing more is read.
Over(w, r) ==
  /\ stopped' = TRUE
  /\ pc' = [pc EXCEPT ![w] = "stop"] /\ answer' = [answer EXCEPT ![w] = r]

Parse(w) ==
  /\ pc[w] = "parse" /\ frames # <<>>
  /\ UNCHANGED <<layout, ended, reader, memo, disk, failures>>

Declare(w) ==
  /\ Parse(w) /\ ~AtEnd /\ Statement.what = "host"
  /\ hosts' = Append(hosts, Statement.of) /\ frames' = Past(frames)
  /\ UNCHANGED <<pc, answer, files, fetch, stopped>>

Refused(w) ==
  /\ Parse(w) /\ ~AtEnd /\ Statement.what = "broken"
  /\ Over(w, Error("not_valid")) /\ UNCHANGED <<parser, fetch>>

FileOver(w) ==
  /\ Parse(w) /\ AtEnd
  /\ frames' = SubSeq(frames, 1, Len(frames) - 1)
  /\ IF Len(frames) = 1 THEN Over(w, Parsed(hosts)) ELSE UNCHANGED <<pc, answer, stopped>>
  /\ UNCHANGED <<files, hosts, fetch>>

\* include: what is checked before the file is asked for.
IncludeError(f, chain, count, depth) ==
  IF f \in chain THEN "includes_itself"
  ELSE IF count > maxFiles THEN "too_many_files"
  ELSE IF depth > maxDepth THEN "too_deep" ELSE "none"

\* A read that failed ends the parse wherever it stands.
SeenAtOnce(f) == IF \E g \in Files : fetch[g] = "failed" THEN "failed" ELSE fetch[f]

\* It is seen where the parser reaches it.
Seen(f) == fetch[f]

include(w) ==
  LET f == Statement.of  e == IncludeError(f, Chain, files + 1, Len(frames) - 1) IN
  /\ Parse(w) /\ ~AtEnd /\ Statement.what = "include"
  /\ IF e # "none" THEN Over(w, Error(e)) /\ UNCHANGED <<parser, fetch>>
     ELSE /\ fetch[f] \notin {"queued", "reading"} /\ UNCHANGED hosts
          /\ \/ /\ fetch[f] = "none"
                /\ fetch' = [fetch EXCEPT ![f] = "queued"]
                /\ UNCHANGED <<pc, answer, frames, files, stopped>>
             \/ /\ fetch[f] # "none" /\ Seen(f) = "ok"
                /\ fetch' = [g \in Files |->
                     IF fetch[g] = "none" /\ g \in includes(f, Chain, maxFiles - files - 1)
                     THEN "queued" ELSE fetch[g]]
                /\ frames' = Append(Past(frames), [file |-> f, at |-> 1])
                /\ files' = files + 1 /\ UNCHANGED <<pc, answer, stopped>>
             \/ /\ fetch[f] # "none" /\ Seen(f) # "ok"
                /\ Over(w, Error(Seen(f))) /\ UNCHANGED <<frames, files, fetch>>

\* stop waits for the reads under way.
StopOver(w) ==
  /\ pc[w] = "stop" /\ \A f \in Files : fetch[f] \notin {"queued", "reading"}
  /\ Return(w, answer[w])
  /\ UNCHANGED <<layout, ended, parser, fetch, stopped, disk, failures>>

GiveUp(w) ==
  /\ w \notin ended /\ ended' = ended \cup {w}
  /\ UNCHANGED <<layout, pc, answer, reader, memo, parser, fetch, stopped, disk, failures>>

Init ==
  /\ layout \in Layouts
  /\ pc = [w \in Workers |-> "ask"] /\ answer = [w \in Workers |-> None]
  /\ ended = {} /\ reader = Nobody /\ memo = None
  /\ frames = <<>> /\ files = 0 /\ hosts = <<>> /\ fetch = Unread /\ stopped = FALSE
  /\ disk \in {{}, {Main}} /\ failures = 0

Step(w) ==
  \/ Ask(w) \/ Open(w) \/ Declare(w) \/ Refused(w) \/ FileOver(w) \/ include(w) \/ StopOver(w)

Next ==
  \/ \E w \in Workers : Step(w) \/ GiveUp(w)
  \/ \E f \in Files : Slot(f) \/ Read(f)

\* Goroutines run, and a session ends, at its timeout at the latest.
Fairness ==
  /\ \A w \in Workers : WF_vars(Step(w))
  /\ \A f \in Files : WF_vars(Slot(f)) /\ WF_vars(Read(f))

Spec == Init /\ [][Next]_vars /\ Fairness

(***************************************************************************)
(* Properties.                                                             *)
(***************************************************************************)
Results == {"ok", "failed", "canceled", "not_valid", "includes_itself", "too_many_files", "too_deep"}

TypeOK ==
  /\ pc \in [Workers -> {"ask", "open", "parse", "stop", "over"}]
  /\ \A w \in Workers : pc[w] \in {"open", "parse", "stop"} <=> reader = w
  /\ fetch \in [Files -> {"none", "queued", "reading", "ok", "failed", "canceled", "stopped"}]
  /\ disk \subseteq Files /\ files <= maxFiles + 1 /\ Len(frames) <= maxDepth + 2
  /\ Cardinality(Reading) <= prefetchers

\* What the command keeps for all its workers says something of the server:
\* no read that a worker's own end stopped is what the others get, nor a file
\* the fetcher did not read because the parse was over.
KeptIsAnAnswer ==
  /\ memo.what \in (Results \ {"canceled"}) \cup {"none"}
  /\ \A w \in Workers : answer[w].what = "canceled" => w \in ended
  /\ \A w \in Workers : pc[w] = "over" => answer[w].what \in Results

\* The inductive invariant.  The parser is where its frames say, in files of the
\* layout; a file it has not opened yet is on no frame.
PlaceInv ==
  /\ layout \in Layouts /\ files \in Nat /\ failures \in Nat
  /\ frames \in Seq([file : Files, at : Nat \ {0}])
  /\ \A w \in Workers : pc[w] = "open" => frames = <<>>
  /\ DOMAIN answer = Workers

\* A file is passed over only when the parse is over, and a read is canceled
\* only with the worker that reads.
FetchInv ==
  /\ stopped \in BOOLEAN
  /\ \A f \in Files : fetch[f] = "stopped" => stopped
  /\ \A w \in Workers : pc[w] \in {"open", "parse"} => ~stopped
  /\ \A f \in Files : fetch[f] = "canceled" /\ reader # Nobody => reader \in ended

AnswerInv ==
  /\ ended \subseteq Workers
  /\ memo = None \/ memo.what \in Results \ {"canceled"}
  /\ \A w \in Workers : answer[w].what = "canceled" => w \in ended
  /\ \A w \in Workers : pc[w] \in {"stop", "over"} => answer[w].what \in Results

Inv == TypeOK /\ PlaceInv /\ FetchInv /\ AnswerInv

\* Every worker gets an answer: the parser never waits for a read that waits
\* for a place, and no read outlives the parse.
WorkersOver == Reading = {} /\ \A w \in Workers : pc[w] = "over"
=============================================================================
