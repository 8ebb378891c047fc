------------------------------ MODULE PinStore ------------------------------
(***************************************************************************)
(* The certificate pins of the service processors: redfish.PinStore and    *)
(* the verifier of the Redfish client that asks it.                        *)
(*                                                                         *)
(* Several commands (Procs) share one pin file, and each makes many        *)
(* handshakes at once (Clients).  A command's mutex orders what its own    *)
(* handshakes do with the store; the file's lock orders the writers of all *)
(* commands; readers take no lock, and keep what they read until the file  *)
(* is another one or has another size.  A pin is appended, so a reader can *)
(* see a line that has not ended, and a write that fails or a command that *)
(* is killed leaves one.                                                   *)
(*                                                                         *)
(* Each processor has at most one line, since Set never writes a second,   *)
(* so the lines of the file are a function from processors to fingerprints *)
(* and its size is counted in half lines.                                  *)
(***************************************************************************)
EXTENDS Naturals, FiniteSets

CONSTANTS
  Procs, Clients,  \* commands, and the handshakes and forgets they run
  ProcOf,          \* the command of each client
  Hosts, Certs,    \* service processors and fingerprints
  NoPin,           \* no pin recorded
  Torn,            \* a fingerprint of which only a part was written
  Nobody,          \* a mutex or a lock that is free
  MaxForgets,      \* bound: rewrites of the file
  MaxCrashes       \* bound: commands killed and writes that fail

ASSUME PinAssumption ==
  /\ ProcOf \in [Clients -> Procs]
  /\ NoPin \notin Certs /\ Torn \notin Certs /\ Torn # NoPin
  /\ Nobody \notin Clients
  /\ IsFiniteSet(Hosts) /\ IsFiniteSet(Clients)
  /\ "none" \notin Hosts /\ "bad" \notin Hosts
  /\ MaxForgets \in Nat /\ MaxCrashes \in Nat

VARIABLES
  file,      \* the pin file; its inode and times are one number, id
  read,      \* PinStore.read of each command
  mu,        \* the client that holds PinStore.mu of each command
  lock,      \* the client that holds the file's lock
  pc, host, seen,  \* of each client: its step, its processor, the fingerprint
  accepted,  \* history: fingerprints accepted since the processor's last forget
  crashes    \* how many failures there were

client == <<pc, host, seen>>
vars == <<file, read, mu, lock, pc, host, seen, accepted, crashes>>

Pins == [Hosts -> Certs \cup {NoPin, Torn}]
NoPins == [h \in Hosts |-> NoPin]
NoRead == [id |-> 0, size |-> 0, pins |-> NoPins]

\* A last line that has not ended: nothing, a pin without its end, or a part
\* that is not a pin.
NoTail == [host |-> "none", pin |-> NoPin]
BadTail == [host |-> "bad", pin |-> NoPin]
Tails == {NoTail, BadTail} \cup [host: Hosts, pin: Certs \cup {Torn}]

Size(f) ==
  2 * Cardinality({h \in Hosts : f.pins[h] # NoPin})
    + (IF f.bad THEN 2 ELSE 0) + (IF f.tail # NoTail THEN 1 ELSE 0)

\* The pins with the last line taken for one that has ended.
WithTail(f) ==
  [h \in Hosts |-> IF f.tail.host = h THEN f.tail.pin ELSE f.pins[h]]

\* A file whose last line was ended.
Ended(f) ==
  [f EXCEPT !.pins = WithTail(f), !.bad = @ \/ f.tail = BadTail, !.tail = NoTail]

Init ==
  /\ file = [id |-> 0, pins |-> NoPins, bad |-> FALSE, tail |-> NoTail]
  /\ read = [p \in Procs |-> NoRead]
  /\ mu = [p \in Procs |-> Nobody]
  /\ lock = Nobody
  /\ pc = [c \in Clients |-> "idle"]
  /\ host \in [Clients -> Hosts]
  /\ seen \in [Clients -> Certs]
  /\ accepted = [h \in Hosts |-> {}]
  /\ crashes = 0

(***************************************************************************)
(* PinStore.current.  The file of id 0 does not exist.                     *)
(***************************************************************************)
Cached(p) == read[p].id = file.id /\ read[p].size = Size(file)

Unreadable(p, locked) ==
  file.id # 0 /\ ~Cached(p) /\ (file.bad \/ (locked /\ file.tail = BadTail))

\* A reader that takes a line being written for a pin.
CurrentEager(p, locked) ==
  IF file.id = 0 THEN NoRead
  ELSE IF Cached(p) THEN read[p]
  ELSE [id |-> file.id, size |-> Size(file), pins |-> WithTail(file)]

\* A reader that drops the last line whether or not it has ended.
CurrentShort(p, locked) ==
  IF file.id = 0 THEN NoRead
  ELSE IF Cached(p) THEN read[p]
  ELSE [id |-> file.id, size |-> Size(file) - 1, pins |-> file.pins]

\* What the store of a command has read once current has returned.  Unless
\* the lock is held, a last line that has not ended is left for the next read.
Current(p, locked) ==
  IF file.id = 0 THEN NoRead
  ELSE IF Cached(p) THEN read[p]
  ELSE [id |-> file.id,
        size |-> IF locked \/ file.tail = NoTail THEN Size(file) ELSE Size(file) - 1,
        pins |-> IF locked THEN WithTail(file) ELSE file.pins]

(***************************************************************************)
(* The verifier.                                                           *)
(***************************************************************************)
GoTo(c, step) == pc' = [pc EXCEPT ![c] = step]
Accepts(c) == accepted' = [accepted EXCEPT ![host[c]] = @ \cup {seen[c]}]

\* A handshake: the processor presents a certificate.
Contact(c, h, cert) ==
  /\ pc[c] = "idle"
  /\ GoTo(c, "get")
  /\ host' = [host EXCEPT ![c] = h]
  /\ seen' = [seen EXCEPT ![c] = cert]
  /\ UNCHANGED <<file, read, mu, lock, accepted, crashes>>

\* Get, and the comparison: the mutex is held for the whole of it.
Get(c) ==
  /\ pc[c] = "get" /\ mu[ProcOf[c]] = Nobody
  /\ IF Unreadable(ProcOf[c], FALSE)
     THEN GoTo(c, "error") /\ UNCHANGED <<read, accepted>>
     ELSE LET now == Current(ProcOf[c], FALSE)
              recorded == now.pins[host[c]]
          IN /\ read' = [read EXCEPT ![ProcOf[c]] = now]
             /\ \/ recorded = NoPin /\ GoTo(c, "set") /\ UNCHANGED accepted
                \/ recorded = seen[c] /\ GoTo(c, "idle") /\ Accepts(c)
                \/ recorded \notin {NoPin, seen[c]} /\ GoTo(c, "mismatch") /\ UNCHANGED accepted
  /\ UNCHANGED <<file, mu, lock, host, seen, crashes>>

(***************************************************************************)
(* Set: the mutex, then the lock, then the check and the append.           *)
(***************************************************************************)
SetBegin(c) ==
  /\ pc[c] = "set" /\ mu[ProcOf[c]] = Nobody
  /\ mu' = [mu EXCEPT ![ProcOf[c]] = c]
  /\ GoTo(c, "setlock")
  /\ UNCHANGED <<file, read, lock, host, seen, accepted, crashes>>

TakeLock(c) ==
  /\ pc[c] \in {"setlock", "droplock"} /\ lock = Nobody
  /\ lock' = c
  /\ GoTo(c, IF pc[c] = "setlock" THEN "check" ELSE "rewrite")
  /\ UNCHANGED <<file, read, mu, host, seen, accepted, crashes>>

\* A way out that keeps the mutex.
LeaveLocked(c, step) ==
  /\ GoTo(c, step)
  /\ mu' = mu
  /\ lock' = IF lock = c THEN Nobody ELSE lock

Leave(c, step) ==
  /\ GoTo(c, step)
  /\ mu' = [mu EXCEPT ![ProcOf[c]] = Nobody]
  /\ lock' = IF lock = c THEN Nobody ELSE lock

\* The wait for the lock runs out, or the context ends.
LockTimeout(c) ==
  /\ pc[c] \in {"setlock", "droplock"} /\ lock # Nobody
  /\ Leave(c, "error")
  /\ UNCHANGED <<file, read, host, seen, accepted, crashes>>

\* A Set that trusts what Get read before the lock was taken.
SetBlind(c) ==
  /\ pc[c] = "check"
  /\ GoTo(c, "append")
  /\ UNCHANGED <<file, read, mu, lock, host, seen, accepted, crashes>>

SetCheck(c) ==
  /\ pc[c] = "check"
  /\ IF Unreadable(ProcOf[c], TRUE)
     THEN Leave(c, "error") /\ UNCHANGED <<read, accepted>>
     ELSE LET now == Current(ProcOf[c], TRUE)
              recorded == now.pins[host[c]]
          IN /\ read' = [read EXCEPT ![ProcOf[c]] = now]
             /\ \/ recorded = NoPin /\ GoTo(c, "append") /\ UNCHANGED <<mu, lock, accepted>>
                \/ recorded = seen[c] /\ Leave(c, "idle") /\ Accepts(c)
                \/ recorded \notin {NoPin, seen[c]} /\ Leave(c, "mismatch") /\ UNCHANGED accepted
  /\ UNCHANGED <<file, host, seen, crashes>>

\* What the store holds once the pin is in the file.
Appended(c, f) ==
  /\ file' = f
  /\ read' = [read EXCEPT ![ProcOf[c]] = [id |-> f.id, size |-> Size(f), pins |-> f.pins]]
  /\ Leave(c, "idle")
  /\ Accepts(c)
  /\ UNCHANGED <<host, seen, crashes>>

\* The first pin of all: AppendSync writes the new file whole.
Create(c) ==
  /\ pc[c] = "append" /\ file.id = 0
  /\ Appended(c, [file EXCEPT !.id = 1, !.pins[host[c]] = seen[c]])

\* AppendSync puts the line behind what is there, after the end of a last line
\* that had none.  For a while a part of it is all there is to read.
AppendBegin(c, part) ==
  /\ pc[c] = "append" /\ file.id # 0
  /\ part \in {BadTail, [host |-> host[c], pin |-> Torn], [host |-> host[c], pin |-> seen[c]]}
  /\ file' = [Ended(file) EXCEPT !.tail = part]
  /\ GoTo(c, "appending")
  /\ UNCHANGED <<read, mu, lock, host, seen, accepted, crashes>>

AppendEnd(c) ==
  /\ pc[c] = "appending"
  /\ Appended(c, [file EXCEPT !.tail = NoTail, !.pins[host[c]] = seen[c]])

\* The disk is full: what was written stays.
AppendFails(c) ==
  /\ pc[c] \in {"append", "appending"} /\ crashes < MaxCrashes
  /\ crashes' = crashes + 1
  /\ Leave(c, "error")
  /\ UNCHANGED <<file, read, host, seen, accepted>>

(***************************************************************************)
(* RemoveAll, for "bmc forget", of a processor that has a pin: the file is *)
(* rewritten, every line ended, and takes the place of the old one.        *)
(***************************************************************************)
Drop(c, h) ==
  /\ pc[c] = "idle" /\ mu[ProcOf[c]] = Nobody
  /\ file.id # 0 /\ file.pins[h] # NoPin
  /\ file.id + Cardinality({d \in Clients : pc[d] \in {"droplock", "rewrite"}}) <= MaxForgets
  /\ mu' = [mu EXCEPT ![ProcOf[c]] = c]
  /\ read' = [read EXCEPT ![ProcOf[c]] = NoRead]
  /\ host' = [host EXCEPT ![c] = h]
  /\ GoTo(c, "droplock")
  /\ UNCHANGED <<file, lock, seen, accepted, crashes>>

Rewrite(c) ==
  /\ pc[c] = "rewrite"
  /\ file' = [Ended(file) EXCEPT !.id = @ + 1, !.pins[host[c]] = NoPin]
  /\ accepted' = [accepted EXCEPT ![host[c]] = {}]
  /\ Leave(c, "idle")
  /\ UNCHANGED <<read, host, seen, crashes>>

\* The command reports the handshake it refused, and goes on.
Report(c) ==
  /\ pc[c] \in {"mismatch", "error"}
  /\ GoTo(c, "idle")
  /\ UNCHANGED <<file, read, mu, lock, host, seen, accepted, crashes>>

\* A command is killed: the system frees its lock, and nothing else survives.
Crash(p) ==
  /\ crashes < MaxCrashes
  /\ \E c \in Clients : ProcOf[c] = p /\ pc[c] # "idle"
  /\ crashes' = crashes + 1
  /\ pc' = [c \in Clients |-> IF ProcOf[c] = p THEN "idle" ELSE pc[c]]
  /\ read' = [read EXCEPT ![p] = NoRead]
  /\ mu' = [mu EXCEPT ![p] = Nobody]
  /\ lock' = IF lock # Nobody /\ ProcOf[lock] = p THEN Nobody ELSE lock
  /\ UNCHANGED <<file, host, seen, accepted>>

Starts(c) == \E h \in Hosts : Drop(c, h) \/ \E cert \in Certs : Contact(c, h, cert)

Steps(c) ==
  \/ Get(c) \/ SetBegin(c) \/ TakeLock(c) \/ LockTimeout(c) \/ SetCheck(c)
  \/ Create(c) \/ (\E part \in Tails : AppendBegin(c, part)) \/ AppendEnd(c)
  \/ Rewrite(c) \/ Report(c)

Next ==
  \/ \E c \in Clients : Starts(c) \/ Steps(c) \/ AppendFails(c)
  \/ \E p \in Procs : Crash(p)

Spec == Init /\ [][Next]_vars

\* A goroutine that can go on does, and a mutex of Go's is handed to whoever
\* waits for it longest, so a client that finds it free again and again gets it.
FairSpec == Spec /\ \A c \in Clients : SF_vars(Steps(c))

(***************************************************************************)
(* Properties.                                                             *)
(***************************************************************************)
\* The values the state can hold: in particular, what a command has read of the
\* file is never less than nothing.
TypeOK ==
  /\ file \in [id: 0..(MaxForgets + 1), pins: Pins, bad: BOOLEAN, tail: Tails]
  /\ read \in [Procs -> [id: 0..(MaxForgets + 1), size: Nat, pins: Pins]]
  /\ mu \in [Procs -> Clients \cup {Nobody}]
  /\ lock \in Clients \cup {Nobody}
  /\ pc \in [Clients -> {"idle", "get", "set", "setlock", "check", "append",
                         "appending", "droplock", "rewrite", "mismatch", "error"}]
  /\ host \in [Clients -> Hosts]
  /\ seen \in [Clients -> Certs]
  /\ accepted \in [Hosts -> SUBSET Certs]
  /\ crashes \in 0..MaxCrashes

\* A last line that has not ended counts once nobody is writing it: the next
\* writer takes it for a pin.
Writing == \E c \in Clients : pc[c] = "appending"
Recorded == IF Writing THEN file.pins ELSE WithTail(file)

\* The store is a register that takes the first certificate of each processor
\* and no other, across commands, caches, unfinished lines and crashes.
Register == INSTANCE TrustOnFirstUse WITH pin <- Recorded
StoreIsRegister == Register!TofuSpec

\* Of the certificates a processor presents between two forgets, all the
\* commands together accept one, and it is the one in the file.
OneAccepted == \A h \in Hosts : accepted[h] \subseteq {Recorded[h]}

\* What a store has read is still in the file, or the store will notice.
CacheIsFile ==
  \A p \in Procs :
    file.id # 0 /\ Cached(p) =>
      read[p].pins = IF file.tail = NoTail THEN file.pins ELSE WithTail(file)

\* Whatever a store answers from its cache, one certificate is accepted.
PinsAreOne == OneAccepted /\ CacheIsFile

\* Every handshake and every forget ends.
Ends == \A c \in Clients : pc[c] # "idle" ~> pc[c] = "idle"

\* current takes a last line without its end, read under the lock, for one that
\* was written by hand: no append leaves one, so no part of a fingerprint is
\* ever taken for a processor's.
NoPartIsAPin == \A p \in Procs, h \in Hosts : read[p].pins[h] # Torn
=============================================================================
