---------------------------- MODULE Credentials ----------------------------
(***************************************************************************)
(* The credentials of one command: credentials.Resolver, with the secrets  *)
(* of app.App it reads, as the prefetch and the workers of a fan-out ask   *)
(* for them side by side.  Each worker has a context of its own; the       *)
(* interrupt ends them all.  The administrator at the terminal, helpers,   *)
(* age and sops are outside: they answer, fail, or are stopped with the    *)
(* context they run under.                                                 *)
(***************************************************************************)
EXTENDS Naturals, FiniteSets

CONSTANTS
  Names,        \* the credentials, and the workers that want one
  Workers,
  Wants,        \* of a worker, the name it asks for
  Kind,         \* of a name: "env", "command", "age", "sops" or "prompt"
  Document,     \* of a name, the Secret document a "sops" source refers to
  Terminals     \* what Resolver.NoTerminal may be: nobody is at a terminal

CredentialsConstants ==
  /\ "nobody" \notin Workers \cup Names
  /\ Wants \in [Workers -> Names]
  /\ Kind \in [Names -> {"env", "command", "age", "sops", "prompt"}]
  /\ Terminals \subseteq BOOLEAN

\* Prefetch runs one goroutine for each name, under the command's context.
Askers == Workers \cup Names
NameOf(a) == IF a \in Names THEN a ELSE Wants[a]
Nobody == "nobody"
Outcomes == {"password", "failed", "not_read"}

VARIABLES
  NoTerminal,   \* Resolver.NoTerminal
  pc,           \* of an asker, where it is in Get
  got,          \* what Get returned
  cache, failed,\* names whose password was read, or could not be
  reading,      \* names being read
  terminal,     \* who holds Resolver.terminal
  secrets,      \* who holds the mutex of the secrets
  values,       \* documents decrypted
  prefetching,  \* the command has not come to its workers yet
  ended,        \* askers whose context has ended
  reads, cut    \* history: reads begun of a name, and those the context stopped

vars == <<NoTerminal, pc, got, cache, failed, reading, terminal, secrets, values, prefetching,
          ended, reads, cut>>
kept == <<cache, failed, reading>>
locks == <<terminal, secrets, values>>

\* Only a prompt needs the terminal.
interactivePrompt(n) == Kind[n] = "prompt"

interactive(n) ==
  Kind[n] = "prompt" \/ (~NoTerminal /\ Kind[n] \in {"command", "age", "sops"})

Go(a, at) == pc' = [pc EXCEPT ![a] = at]

\* A name the site does not define is read like one whose source fails.
Init ==
  /\ NoTerminal \in Terminals
  /\ pc = [a \in Askers |-> IF a \in Workers THEN "idle"
                            ELSE IF interactive(a) THEN "over" ELSE "get"]
  /\ got = [a \in Askers |-> "none"]
  /\ cache = {} /\ failed = {} /\ reading = {}
  /\ terminal = Nobody /\ secrets = Nobody /\ values = {}
  /\ prefetching = TRUE /\ ended = {}
  /\ reads = [n \in Names |-> 0] /\ cut = [n \in Names |-> 0]

(***************************************************************************)
(* Get.                                                                    *)
(***************************************************************************)
Answered(a, what) == Go(a, "over") /\ got' = [got EXCEPT ![a] = what]

Get(a) ==
  LET n == NameOf(a) IN
  /\ pc[a] = "get"
  /\ \/ /\ a \in ended /\ Answered(a, "not_read") /\ UNCHANGED reading
     \/ /\ a \notin ended /\ n \in cache /\ Answered(a, "password") /\ UNCHANGED reading
     \/ /\ a \notin ended /\ n \in failed /\ Answered(a, "failed") /\ UNCHANGED reading
     \/ /\ a \notin ended /\ n \notin cache \cup failed /\ n \in reading
        /\ Go(a, "wait") /\ UNCHANGED <<got, reading>>
     \/ /\ a \notin ended /\ n \notin cache \cup failed \cup reading
        /\ reading' = reading \cup {n}
        /\ Go(a, IF interactive(n) THEN "terminal" ELSE "read")
        /\ UNCHANGED got
  /\ UNCHANGED <<cache, failed, locks, prefetching, ended, reads, cut>>

\* The read it waits for is over, or its own context is.
StopsWaiting(a) ==
  /\ pc[a] = "wait"
  /\ \/ NameOf(a) \notin reading /\ Go(a, "get") /\ UNCHANGED got
     \/ a \in ended /\ Answered(a, "not_read")
  /\ UNCHANGED <<kept, locks, prefetching, ended, reads, cut>>

(***************************************************************************)
(* readOnce: what it found is kept, unless the context stopped it.         *)
(***************************************************************************)
Remembered(a, what) == what = "failed" /\ a \notin ended

ReadOver(a, what) ==
  LET n == NameOf(a) IN
  /\ cache' = IF what = "password" THEN cache \cup {n} ELSE cache
  /\ failed' = IF Remembered(a, what) THEN failed \cup {n} ELSE failed
  /\ reading' = reading \ {n}
  /\ terminal' = IF terminal = a THEN Nobody ELSE terminal
  /\ cut' = IF what # "password" /\ a \in ended THEN [cut EXCEPT ![n] = @ + 1] ELSE cut
  /\ Answered(a, what)

TakeTerminal(a) ==
  /\ pc[a] = "terminal" /\ terminal = Nobody
  /\ IF a \in ended
     THEN /\ ReadOver(a, "not_read")
     ELSE /\ terminal' = a /\ Go(a, "read") /\ UNCHANGED <<got, kept, cut>>
  /\ UNCHANGED <<secrets, values, prefetching, ended, reads>>

\* read: one source, asked for the first line it has.
Begin(a) ==
  LET n == NameOf(a) IN
  /\ pc[a] = "read"
  /\ reads' = [reads EXCEPT ![n] = @ + 1]
  /\ Go(a, IF Kind[n] \in {"age", "sops"} THEN "lock" ELSE "asking")
  /\ UNCHANGED <<got, kept, locks, prefetching, ended, cut>>

Outcome(a) ==
  {"failed", "password"} \cup (IF a \in ended THEN {"not_read"} ELSE {})

Read(a) ==
  /\ pc[a] = "asking"
  /\ \E what \in Outcome(a) : ReadOver(a, what)
  /\ UNCHANGED <<secrets, values, prefetching, ended, reads>>

(***************************************************************************)
(* SecretValues and Identities, under the mutex of the secrets.  A         *)
(* document is decrypted once; a decryption that failed is tried again.    *)
(***************************************************************************)
Lock(a) ==
  /\ pc[a] = "lock" /\ secrets = Nobody
  /\ secrets' = a /\ Go(a, "decrypting")
  /\ UNCHANGED <<got, kept, terminal, values, prefetching, ended, reads, cut>>

Decrypt(a) ==
  LET n == NameOf(a) IN
  /\ pc[a] = "decrypting" /\ secrets' = Nobody
  /\ \E what \in IF Kind[n] = "sops" /\ Document[n] \in values THEN {"password"} ELSE Outcome(a) :
       /\ values' = IF what = "password" /\ Kind[n] = "sops" THEN values \cup {Document[n]} ELSE values
       /\ ReadOver(a, what)
  /\ UNCHANGED <<prefetching, ended, reads>>

(***************************************************************************)
(* The command: Prefetch waits for its goroutines; the workers come after. *)
(***************************************************************************)
PrefetchOver ==
  /\ prefetching /\ \A n \in Names : pc[n] = "over"
  /\ prefetching' = FALSE
  /\ UNCHANGED <<NoTerminal, pc, got, kept, locks, ended, reads, cut>>

Work(a) ==
  /\ a \in Workers /\ pc[a] = "idle" /\ ~prefetching
  /\ Go(a, "get")
  /\ UNCHANGED <<got, kept, locks, prefetching, ended, reads, cut>>

\* A worker's context ends, as when its target has used up its time.
GiveUp(a) ==
  /\ a \in Workers \ ended /\ ended' = ended \cup {a}
  /\ UNCHANGED <<NoTerminal, pc, got, kept, locks, prefetching, reads, cut>>

Interrupt ==
  /\ ended # Askers /\ ended' = Askers
  /\ UNCHANGED <<NoTerminal, pc, got, kept, locks, prefetching, reads, cut>>

Moves(a) ==
  \/ Get(a) \/ StopsWaiting(a) \/ TakeTerminal(a) \/ Begin(a) \/ Read(a)
  \/ Lock(a) \/ Decrypt(a) \/ Work(a)

Step(a) == Moves(a) /\ UNCHANGED NoTerminal

Next == PrefetchOver \/ Interrupt \/ \E a \in Askers : Step(a) \/ GiveUp(a)

\* Goroutines run; the administrator answers, or interrupts, and a helper ends.
Fairness == WF_vars(PrefetchOver) /\ \A a \in Askers : WF_vars(Step(a))

Spec == Init /\ [][Next]_vars /\ Fairness

(***************************************************************************)
(* Properties.                                                             *)
(***************************************************************************)
TypeOK ==
  /\ pc \in [Askers -> {"idle", "get", "wait", "terminal", "read", "asking", "lock",
                        "decrypting", "over"}]
  /\ got \in [Askers -> Outcomes \cup {"none"}]
  /\ cache \cap failed = {} /\ cache \cup failed \cup reading \subseteq Names
  /\ terminal \in Askers \cup {Nobody} /\ secrets \in Askers \cup {Nobody}
  /\ ended \subseteq Askers /\ prefetching \in BOOLEAN

Reading == {a \in Askers : pc[a] \in {"terminal", "read", "asking", "lock", "decrypting"}}
Uses == {a \in Askers : pc[a] \in {"asking", "decrypting"} /\ interactive(NameOf(a))}

\* The administrator is asked one question at a time, in the order the
\* command asks them and not while it prefetches, and for each credential
\* once: again only when the context stopped the read before.
AskedOnce ==
  /\ \A a, b \in Uses : a = b
  /\ \A a, b \in Reading : NameOf(a) = NameOf(b) => a = b
  /\ \A n \in Names : reads[n] <= 1 + cut[n]
  /\ prefetching => \A a \in Askers : pc[a] \in {"asking", "decrypting"} => 
       NoTerminal \/ Kind[NameOf(a)] = "env"

\* Askers of one credential get one answer: a password that was read is
\* everybody's, so is a failure, and an asker whose own context goes on is
\* never told that its password was not read because another's had ended.
OneAnswer ==
  /\ \A a, b \in Askers \ ended : NameOf(a) = NameOf(b) /\ {got[a], got[b]} \subseteq Outcomes =>
       got[a] = got[b]
  /\ \A a \in Askers : got[a] = "not_read" => a \in ended
  /\ \A n \in failed : \E a \in Askers : NameOf(a) = n /\ got[a] = "failed"

\* The inductive invariant.  The one reader of a name has it entered in the map
\* of the reads under way, and nothing is kept of the name before it is through.
ReaderIsOne ==
  /\ \A a \in Reading : NameOf(a) \in reading /\ NameOf(a) \notin cache \cup failed
  /\ \A a, b \in Reading : NameOf(a) = NameOf(b) => a = b

Begun == {a \in Askers : pc[a] \in {"asking", "lock", "decrypting"}}

\* From its first question to its last an interactive read has the terminal,
\* and no prefetch asks one.
TerminalIsHeld ==
  /\ \A a \in Askers :
       (pc[a] = "read" \/ a \in Begun) /\ interactive(NameOf(a)) => terminal = a
  /\ prefetching => \A a \in Askers :
       pc[a] \in {"idle", "over"} \/ (a \in Names /\ ~interactive(a))

\* A read that is over is kept, or was cut short.
ReadsAreCounted ==
  /\ reads \in [Names -> Nat] /\ cut \in [Names -> Nat]
  /\ \A n \in Names : reads[n] <= 1 + cut[n]
  /\ \A n \in Names \ (cache \cup failed) :
       (\A a \in Begun : NameOf(a) # n) => reads[n] <= cut[n]

GotIsKept ==
  /\ \A a \in Askers : got[a] # "none" => pc[a] = "over"
  /\ \A a \in Askers : got[a] = "password" => NameOf(a) \in cache
  /\ \A a \in Askers \ ended : got[a] = "failed" => NameOf(a) \in failed
  /\ \A a \in Askers : got[a] = "not_read" => a \in ended
  /\ \A n \in failed : \E a \in Askers : NameOf(a) = n /\ got[a] = "failed"

Inv == TypeOK /\ ReaderIsOne /\ TerminalIsHeld /\ ReadsAreCounted /\ GotIsKept

\* Everybody is answered: none waits for a read nobody makes, or for a lock
\* whose holder waits for it.
GetsOver == \A a \in Askers : pc[a] = "over"
=============================================================================
