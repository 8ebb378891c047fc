--------------------------- MODULE PinStoreProofs ---------------------------

(***************************************************************************)
(* Proofs about PinStore: types, that all commands together accept one     *)
(* certificate of a processor, and that the store implements               *)
(* TrustOnFirstUse.                                                        *)
(*                                                                         *)
(* A store answers from its cache as long as the file has the same id and  *)
(* the same size.  That this is enough is the heart of the proof: a file   *)
(* of one id only grows (ReadInv), since whoever appends holds the lock    *)
(* (LockInv) and has found, under it, that the line is not there and that  *)
(* the last one can be ended (SetInv, TailInv).                            *)
(***************************************************************************)
EXTENDS PinStore, FiniteSetTheorems, TLAPS

PinSteps == {"idle", "get", "set", "setlock", "check", "append", "appending",
             "droplock", "rewrite", "mismatch", "error"}
AllFiles == [id : 0..(MaxForgets + 1), pins : Pins, bad : BOOLEAN, tail : Tails]
Reads == [id : 0..(MaxForgets + 1), size : Nat, pins : Pins]

\* Forgets that were counted and have not rewritten the file.
Dropping == {d \in Clients : pc[d] \in {"droplock", "rewrite"}}

\* No forget begins that the bound leaves no rewrite for.
DropInv ==
  /\ file.id + Cardinality(Dropping) <= MaxForgets + 1
  /\ file.id = 0 => Dropping = {}

TypeInv == TypeOK /\ DropInv

\* Whoever checks, appends or rewrites has the lock, and nobody else has.
LockInv ==
  \A c \in Clients : pc[c] \in {"check", "append", "appending", "rewrite"} <=> lock = c

\* The last line, while it has not ended, is of a processor that has no other.
TailInv ==
  /\ file.id = 0 => file.pins = NoPins /\ ~file.bad /\ file.tail = NoTail
  /\ \A h \in Hosts : file.tail.host = h => file.pins[h] = NoPin

\* What a writer found under the lock: the processor has no line, and the last
\* line can be ended.
SetInv ==
  \A c \in Clients :
    /\ pc[c] = "append" =>
         WithTail(file)[host[c]] = NoPin /\ ~file.bad /\ file.tail # BadTail
    /\ pc[c] = "appending" =>
         /\ file.id # 0 /\ file.pins[host[c]] = NoPin /\ ~file.bad
         /\ \/ file.tail = BadTail
            \/ file.tail.host = host[c] /\ file.tail.pin \in {Torn, seen[c]}

\* What a store has read of this file is no more than there is, and all of it
\* only when it is what there is.
ReadOf(p) ==
  /\ read[p].id <= file.id
  /\ read[p].id = file.id /\ file.id # 0 =>
       /\ read[p].size <= Size(file)
       /\ Writing => read[p].size < Size(file)
       /\ read[p].size = Size(file) =>
            read[p].pins = WithTail(file) /\ ~file.bad /\ file.tail # BadTail
ReadInv == \A p \in Procs : ReadOf(p)

Inv == TypeInv /\ LockInv /\ TailInv /\ SetInv /\ ReadInv

(***************************************************************************)
(* The lines of a file.                                                    *)
(***************************************************************************)
\* What a last line that has not ended is: none, a part that is no pin, or a pin.
LEMMA TailKinds ==
  ASSUME NEW t \in Tails
  PROVE  \/ t = NoTail \/ t = BadTail
         \/ t.host \in Hosts /\ t.pin \in Certs \cup {Torn} /\ t # NoTail /\ t # BadTail
  BY PinAssumption DEF Tails, NoTail, BadTail

\* The pins a file would have had with its last line taken for one.
LEMMA WithTailPins ==
  ASSUME NEW f \in AllFiles
  PROVE  /\ WithTail(f) \in Pins
         /\ f.tail \in {NoTail, BadTail} => WithTail(f) = f.pins
<1>1. f.pins \in Pins /\ f.tail \in Tails
  BY DEF AllFiles
<1>2. CASE f.tail \in {NoTail, BadTail}
  BY <1>1, <1>2, PinAssumption DEF WithTail, Pins, NoTail, BadTail
<1>3. CASE f.tail \notin {NoTail, BadTail}
  BY <1>1, <1>3, TailKinds DEF WithTail, Pins
<1> QED
  BY <1>2, <1>3

Lines(pins) == Cardinality({h \in Hosts : pins[h] # NoPin})

\* There is a number of lines.
LEMMA LinesNat == ASSUME NEW pins PROVE Lines(pins) \in Nat
<1>1. IsFiniteSet({h \in Hosts : pins[h] # NoPin})
  BY PinAssumption, FS_Subset
<1> QED
  BY <1>1, FS_CardinalityType DEF Lines

\* A pin of a processor that had none is one line more.
LEMMA LinesMore ==
  ASSUME NEW pins \in Pins, NEW h \in Hosts, pins[h] = NoPin, NEW more \in Pins,
         more[h] # NoPin, \A k \in Hosts : k # h => more[k] = pins[k]
  PROVE  Lines(more) = Lines(pins) + 1
<1> DEFINE S == {k \in Hosts : pins[k] # NoPin}
<1>1. IsFiniteSet(S) /\ h \notin S
  BY PinAssumption, FS_Subset
<1>2. {k \in Hosts : more[k] # NoPin} = S \cup {h}
  OBVIOUS
<1>3. Cardinality(S \cup {h}) = Cardinality(S) + 1
  BY <1>1, FS_AddElement
<1> QED
  BY <1>2, <1>3 DEF Lines

\* The size of a file is a number, in half lines.
LEMMA SizeIs ==
  ASSUME NEW f \in AllFiles
  PROVE  /\ Size(f) \in Nat
         /\ f.tail # NoTail => Size(f) >= 1
         /\ Size(f) = 2 * Lines(f.pins) + (IF f.bad THEN 2 ELSE 0)
                        + (IF f.tail # NoTail THEN 1 ELSE 0)
<1>1. Lines(f.pins) \in Nat
  BY LinesNat
<1>2. Size(f) = 2 * Lines(f.pins) + (IF f.bad THEN 2 ELSE 0)
                  + (IF f.tail # NoTail THEN 1 ELSE 0)
  BY DEF Size, Lines
<1> QED
  BY <1>1, <1>2

\* What AppendBegin makes of the file, g, is larger.
LEMMA BeginIsLarger ==
  ASSUME NEW f \in AllFiles, ~f.bad, f.tail # BadTail,
         \A h \in Hosts : f.tail.host = h => f.pins[h] = NoPin,
         NEW g \in AllFiles, g.pins = WithTail(f), ~g.bad, g.tail # NoTail
  PROVE  Size(g) > Size(f)
<1>1. Lines(f.pins) \in Nat /\ Lines(WithTail(f)) \in Nat
  BY LinesNat
<1>2. Size(g) = 2 * Lines(WithTail(f)) + 1
  BY <1>1, SizeIs
<1>3. Size(f) = 2 * Lines(f.pins) + (IF f.tail # NoTail THEN 1 ELSE 0)
  BY <1>1, SizeIs
<1>4. CASE f.tail = NoTail
  <2>1. WithTail(f) = f.pins
    BY <1>4, WithTailPins
  <2> QED
    BY <1>1, <1>2, <1>3, <1>4, <2>1
<1>5. CASE f.tail # NoTail
  <2>1. f.tail.host \in Hosts /\ f.tail.pin \in Certs \cup {Torn} /\ f.tail.pin # NoPin
    BY <1>5, TailKinds, PinAssumption DEF AllFiles
  <2>2. Lines(WithTail(f)) = Lines(f.pins) + 1
    <3>1. f.pins \in Pins /\ WithTail(f) \in Pins
      BY WithTailPins DEF AllFiles
    <3>2. /\ WithTail(f)[f.tail.host] = f.tail.pin
          /\ \A k \in Hosts : k # f.tail.host => WithTail(f)[k] = f.pins[k]
      BY <2>1 DEF WithTail
    <3> QED
      BY <2>1, <3>1, <3>2, LinesMore
  <2> QED
    BY <1>1, <1>2, <1>3, <1>5, <2>2
<1> QED
  BY <1>4, <1>5

\* And so is what AppendEnd makes of that.
LEMMA EndIsLarger ==
  ASSUME NEW f \in AllFiles, ~f.bad, f.tail # NoTail, NEW h \in Hosts, f.pins[h] = NoPin,
         NEW cert \in Certs,
         NEW g \in AllFiles, g.pins = [f.pins EXCEPT ![h] = cert], ~g.bad, g.tail = NoTail
  PROVE  Size(g) > Size(f)
<1>1. f.pins \in Pins /\ [f.pins EXCEPT ![h] = cert] \in Pins
  BY DEF AllFiles, Pins
<1>2. Lines(g.pins) = Lines(f.pins) + 1
  BY <1>1, LinesMore, PinAssumption DEF Pins
<1>3. Lines(f.pins) \in Nat
  BY LinesNat
<1>4. Size(g) = 2 * Lines(g.pins) /\ Size(f) = 2 * Lines(f.pins) + 1
  BY <1>2, <1>3, SizeIs
<1> QED
  BY <1>2, <1>3, <1>4

(***************************************************************************)
(* How the file, the reads and the lock change.                            *)
(***************************************************************************)
\* What Current returns has the type of a read.
LEMMA NoReadIs == NoRead \in Reads
  BY PinAssumption DEF NoRead, NoPins, Reads, Pins

\* And so has what it returns of a file.
LEMMA CurrentIs ==
  ASSUME TypeOK, NEW p \in Procs, NEW locked \in BOOLEAN
  PROVE  Current(p, locked) \in Reads
<1>1. file \in AllFiles /\ read \in [Procs -> Reads] /\ Size(file) \in Nat
  BY SizeIs DEF TypeOK, AllFiles, Reads
<1>2. file.tail # NoTail => Size(file) - 1 \in Nat
  BY <1>1, SizeIs
<1>3. NoRead \in Reads
  BY NoReadIs
<1>4. file.pins \in Pins /\ WithTail(file) \in Pins /\ file.id \in 0..(MaxForgets + 1)
  BY <1>1, WithTailPins DEF AllFiles
<1> QED
  BY <1>1, <1>2, <1>3, <1>4 DEF Current, Reads

\* A store that read without an error read what was recorded; and what it read
\* is of this file.
LEMMA CurrentTells ==
  ASSUME Inv, NEW p \in Procs, NEW locked \in BOOLEAN, ~Unreadable(p, locked),
         locked => ~Writing,
         NEW h \in Hosts
  PROVE  LET now == Current(p, locked) IN
         /\ now.id <= file.id
         /\ now.id = file.id /\ file.id # 0 =>
              /\ now.size <= Size(file)
              /\ Writing => now.size < Size(file)
              /\ now.size = Size(file) =>
                   now.pins = WithTail(file) /\ ~file.bad /\ file.tail # BadTail
         /\ now.pins[h] # NoPin => Recorded[h] = now.pins[h]
         /\ locked => now.pins = Recorded
         /\ locked => ~file.bad /\ file.tail # BadTail
<1> DEFINE now == Current(p, locked)
<1>1. /\ file \in AllFiles /\ file.id \in Nat /\ Size(file) \in Nat
      /\ read[p] \in Reads /\ NoRead.id = 0 /\ NoRead.pins = NoPins
  BY SizeIs, PinAssumption DEF Inv, TypeInv, TypeOK, AllFiles, Reads, NoRead
<1>2. CASE file.id = 0
  <2>1. now = NoRead /\ file.pins = NoPins /\ ~file.bad /\ file.tail = NoTail
    BY <1>2 DEF Current, Inv, TailInv
  <2>2. WithTail(file) = NoPins /\ Recorded = NoPins /\ NoTail # BadTail
    BY <1>1, <2>1, WithTailPins DEF Recorded, NoTail, BadTail
  <2> QED
    BY <1>1, <1>2, <2>1, <2>2 DEF NoPins
<1>3. CASE file.id # 0 /\ Cached(p)
  <2>1. now = read[p] /\ now.id = file.id /\ now.size = Size(file)
    BY <1>3 DEF Current, Cached
  <2>2. ~Writing /\ now.pins = WithTail(file) /\ ~file.bad /\ file.tail # BadTail
    BY <1>1, <1>3, <2>1 DEF Inv, ReadInv, ReadOf
  <2> QED
    BY <1>1, <2>1, <2>2 DEF Recorded
<1>4. CASE file.id # 0 /\ ~Cached(p)
  <2>1. /\ now = [id |-> file.id,
                  size |-> IF locked \/ file.tail = NoTail THEN Size(file) ELSE Size(file) - 1,
                  pins |-> IF locked THEN WithTail(file) ELSE file.pins]
        /\ ~file.bad /\ (locked => file.tail # BadTail)
    BY <1>4 DEF Current, Unreadable
  <2>2. Writing => file.tail # NoTail
    BY PinAssumption DEF Writing, Inv, TypeInv, TypeOK, SetInv, NoTail, BadTail
  <2>3. file.tail = NoTail => WithTail(file) = file.pins /\ file.tail # BadTail
    BY <1>1, WithTailPins DEF NoTail, BadTail
  <2>4. file.pins[h] # NoPin => WithTail(file)[h] = file.pins[h]
    BY DEF WithTail, Inv, TailInv
  <2>5. file.tail # NoTail => Size(file) - 1 < Size(file)
    BY <1>1
  <2> QED
    BY <1>1, <2>1, <2>2, <2>3, <2>4, <2>5 DEF Recorded
<1> QED
  BY <1>2, <1>3, <1>4

\* Whoever holds the lock is the only one that can be appending.
LEMMA LockWriting ==
  ASSUME LockInv, NEW c \in Clients, lock = c
  PROVE  Writing <=> pc[c] = "appending"
  BY DEF LockInv, Writing

(***************************************************************************)
(* The lock.                                                               *)
(***************************************************************************)
\* Every step keeps: whoever checks, appends or rewrites, and nobody else, has the lock.
LEMMA LockNext == TypeOK /\ LockInv /\ [Next]_vars => LockInv'
<1> SUFFICES ASSUME TypeOK, LockInv, [Next]_vars PROVE LockInv'
  OBVIOUS
<1> USE DEF GoTo, Leave
<1>0. CASE UNCHANGED vars
  BY <1>0 DEF vars, LockInv
<1>1. ASSUME NEW c \in Clients,
             \/ \E h \in Hosts : Drop(c, h)
             \/ \E h \in Hosts, cert \in Certs : Contact(c, h, cert)
             \/ Get(c) \/ SetBegin(c) \/ Report(c)
      PROVE  LockInv'
  <2>1. /\ pc[c] \in {"idle", "get", "set", "mismatch", "error"} /\ UNCHANGED lock
        /\ \E step \in {"idle", "get", "set", "setlock", "droplock", "mismatch", "error"} :
             pc' = [pc EXCEPT ![c] = step]
    BY <1>1 DEF Drop, Contact, Get, SetBegin, Report
  <2> QED
    BY <2>1 DEF LockInv, TypeOK
<1>2. ASSUME NEW c \in Clients, TakeLock(c) \/ LockTimeout(c)
      PROVE  LockInv'
  BY <1>2, PinAssumption DEF LockInv, TypeOK, TakeLock, LockTimeout
<1>3. ASSUME NEW c \in Clients, SetCheck(c) PROVE LockInv'
  <2>1. /\ pc[c] = "check"
        /\ \/ pc' = [pc EXCEPT ![c] = "append"] /\ UNCHANGED lock
           \/ /\ lock' = IF lock = c THEN Nobody ELSE lock
              /\ \E step \in {"idle", "error", "mismatch"} : pc' = [pc EXCEPT ![c] = step]
    BY <1>3 DEF SetCheck
  <2> QED
    BY <2>1, PinAssumption DEF LockInv, TypeOK
<1>4. ASSUME NEW c \in Clients,
             Create(c) \/ AppendEnd(c) \/ Rewrite(c) \/ AppendFails(c)
      PROVE  LockInv'
  <2>1. /\ pc[c] \in {"append", "appending", "rewrite"}
        /\ lock' = IF lock = c THEN Nobody ELSE lock
        /\ \E step \in {"idle", "error"} : pc' = [pc EXCEPT ![c] = step]
    BY <1>4 DEF Create, AppendEnd, Rewrite, AppendFails, Appended
  <2> QED
    BY <2>1, PinAssumption DEF LockInv, TypeOK
<1>5. ASSUME NEW c \in Clients, NEW part \in Tails, AppendBegin(c, part) PROVE LockInv'
  BY <1>5 DEF LockInv, TypeOK, AppendBegin
<1>6. ASSUME NEW p \in Procs, Crash(p) PROVE LockInv'
  BY <1>6, PinAssumption DEF LockInv, TypeOK, Crash
<1> QED
  BY <1>0, <1>1, <1>2, <1>3, <1>4, <1>5, <1>6 DEF Next, Starts, Steps

(***************************************************************************)
(* Types.                                                                  *)
(***************************************************************************)
\* The file ended, and a pin changed in it, have their types.
LEMMA Files ==
  ASSUME TypeOK, NEW c \in Clients
  PROVE  /\ file \in AllFiles /\ Ended(file) \in AllFiles /\ WithTail(file) \in Pins
         /\ file.pins \in Pins /\ host[c] \in Hosts /\ seen[c] \in Certs
         /\ Ended(file).pins = WithTail(file) /\ Ended(file).id = file.id
         /\ Ended(file).tail = NoTail /\ Ended(file).bad = (file.bad \/ file.tail = BadTail)
         /\ \A pins \in Pins, pin \in Certs \cup {NoPin, Torn} :
              [pins EXCEPT ![host[c]] = pin] \in Pins
<1>1. file \in AllFiles /\ host[c] \in Hosts /\ seen[c] \in Certs
  BY DEF TypeOK, AllFiles
<1>2. WithTail(file) \in Pins
  BY <1>1, WithTailPins
<1> QED
  BY <1>1, <1>2 DEF Ended, AllFiles, Tails, Pins

\* Every step keeps the types.
LEMMA TypeNext == TypeInv /\ TailInv /\ LockInv /\ [Next]_vars => TypeOK'
<1> SUFFICES ASSUME TypeInv, TailInv, LockInv, [Next]_vars PROVE TypeOK'
  OBVIOUS
<1>t. TypeOK
  BY DEF TypeInv
<1> USE DEF GoTo, Leave
<1>0. CASE UNCHANGED vars
  BY <1>t, <1>0 DEF vars, TypeOK
<1>1. ASSUME NEW c \in Clients, NEW h \in Hosts, Drop(c, h) PROVE TypeOK'
  <2>1. ProcOf[c] \in Procs /\ read' \in [Procs -> Reads]
    BY <1>t, <1>1, PinAssumption, NoReadIs DEF Drop, TypeOK, Reads
  <2> QED
    BY <1>t, <1>1, <2>1 DEF Drop, TypeOK, Reads
<1>2. ASSUME NEW c \in Clients, NEW h \in Hosts, NEW cert \in Certs, Contact(c, h, cert)
      PROVE  TypeOK'
  BY <1>t, <1>2 DEF Contact, TypeOK
<1>3. ASSUME NEW c \in Clients, Get(c) \/ SetCheck(c) PROVE TypeOK'
  <2>1. /\ \E step \in PinSteps : pc' = [pc EXCEPT ![c] = step]
        /\ mu' = mu \/ mu' = [mu EXCEPT ![ProcOf[c]] = Nobody]
        /\ lock' \in {lock, Nobody}
        /\ accepted' = accepted \/ Accepts(c)
        /\ UNCHANGED <<file, host, seen, crashes>>
        /\ \/ read' = read
           \/ \E l \in BOOLEAN : read' = [read EXCEPT ![ProcOf[c]] = Current(ProcOf[c], l)]
    BY <1>3 DEF Get, SetCheck, PinSteps
  <2>2. ProcOf[c] \in Procs
    BY PinAssumption
  <2>4. /\ pc' \in [Clients -> PinSteps] /\ mu' \in [Procs -> Clients \cup {Nobody}]
        /\ lock' \in Clients \cup {Nobody} /\ accepted' \in [Hosts -> SUBSET Certs]
    BY <1>t, <2>1, <2>2 DEF Accepts, TypeOK, PinSteps
  <2>3. read' \in [Procs -> Reads]
    BY <1>t, <2>1, <2>2, CurrentIs DEF TypeOK, Reads
  <2> QED
    BY <1>t, <2>1, <2>3, <2>4 DEF TypeOK, Reads, PinSteps
<1>4. ASSUME NEW c \in Clients,
             SetBegin(c) \/ TakeLock(c) \/ LockTimeout(c) \/ Report(c) \/ AppendFails(c)
      PROVE  TypeOK'
  <2>1. /\ \E step \in PinSteps : pc' = [pc EXCEPT ![c] = step]
        /\ \/ mu' = mu
           \/ mu' = [mu EXCEPT ![ProcOf[c]] = c]
           \/ mu' = [mu EXCEPT ![ProcOf[c]] = Nobody]
        /\ lock' \in {lock, c, Nobody}
        /\ crashes' = crashes \/ (crashes' = crashes + 1 /\ crashes < MaxCrashes)
        /\ UNCHANGED <<file, read, host, seen, accepted>>
    <3>1. CASE SetBegin(c)
      BY <3>1 DEF SetBegin, PinSteps
    <3>2. CASE Report(c)
      BY <3>2 DEF Report, PinSteps
    <3>3. CASE TakeLock(c)
      <4>1. /\ pc' = [pc EXCEPT ![c] = IF pc[c] = "setlock" THEN "check" ELSE "rewrite"]
            /\ lock' = c /\ UNCHANGED <<file, read, mu, host, seen, accepted, crashes>>
        BY <3>3 DEF TakeLock
      <4>2. (IF pc[c] = "setlock" THEN "check" ELSE "rewrite") \in PinSteps
        BY DEF PinSteps
      <4> QED
        BY <4>1, <4>2
    <3>4. CASE LockTimeout(c)
      BY <3>4 DEF LockTimeout, PinSteps
    <3>5. CASE AppendFails(c)
      BY <3>5 DEF AppendFails, PinSteps
    <3> QED
      BY <1>4, <3>1, <3>2, <3>3, <3>4, <3>5
  <2>2. /\ pc' \in [Clients -> PinSteps] /\ mu' \in [Procs -> Clients \cup {Nobody}]
        /\ lock' \in Clients \cup {Nobody}
    <3>1. /\ ProcOf[c] \in Procs /\ mu \in [Procs -> Clients \cup {Nobody}]
          /\ pc \in [Clients -> PinSteps] /\ lock \in Clients \cup {Nobody}
      BY <1>t, PinAssumption DEF TypeOK, PinSteps
    <3>2. pc' \in [Clients -> PinSteps]
      BY <2>1, <3>1
    <3>3. mu' \in [Procs -> Clients \cup {Nobody}]
      BY <2>1, <3>1
    <3> QED
      BY <2>1, <3>1, <3>2, <3>3
  <2>3. crashes' \in 0..MaxCrashes
    BY <1>t, <2>1, PinAssumption DEF TypeOK
  <2> QED
    BY <1>t, <2>1, <2>2, <2>3 DEF TypeOK, PinSteps
<1>5. ASSUME NEW c \in Clients, Create(c) \/ AppendEnd(c) PROVE TypeOK'
  <2>1. PICK f \in AllFiles : Appended(c, f)
    <3>1. CASE Create(c)
      <4>1. 1 \in 0..(MaxForgets + 1)
        BY PinAssumption
      <4>2. [file EXCEPT !.id = 1, !.pins[host[c]] = seen[c]] \in AllFiles
        BY <1>t, <4>1, Files DEF AllFiles
      <4> QED
        BY <3>1, <4>2 DEF Create
    <3>2. CASE AppendEnd(c)
      <4>1. [file EXCEPT !.tail = NoTail, !.pins[host[c]] = seen[c]] \in AllFiles
        BY <1>t, Files DEF AllFiles, Tails
      <4> QED
        BY <3>2, <4>1 DEF AppendEnd
    <3> QED
      BY <1>5, <3>1, <3>2
  <2>2. [id |-> f.id, size |-> Size(f), pins |-> f.pins] \in Reads
    BY SizeIs DEF AllFiles, Reads
  <2>3. read' \in [Procs -> Reads]
    BY <1>t, <2>1, <2>2 DEF Appended, TypeOK, Reads
  <2>4. file' \in AllFiles
    BY <2>1 DEF Appended
  <2> QED
    BY <1>t, <2>1, <2>3, <2>4 DEF Appended, Accepts, TypeOK, Reads, AllFiles
<1>6. ASSUME NEW c \in Clients, NEW part \in Tails, AppendBegin(c, part) PROVE TypeOK'
  <2>1. file' \in AllFiles
    BY <1>t, <1>6, Files DEF AppendBegin, AllFiles
  <2> QED
    BY <1>t, <1>6, <2>1 DEF AppendBegin, TypeOK, AllFiles
<1>7. ASSUME NEW c \in Clients, Rewrite(c) PROVE TypeOK'
  <2>1. file.id + 1 \in 0..(MaxForgets + 1)
    <3>1. c \in Dropping /\ file.id \in Nat
      BY <1>t, <1>7 DEF Rewrite, Dropping, TypeOK
    <3>2. Cardinality(Dropping) \in Nat /\ Cardinality(Dropping) # 0
      BY <3>1, PinAssumption, FS_Subset, FS_CardinalityType, FS_EmptySet DEF Dropping
    <3> QED
      BY <3>1, <3>2, PinAssumption DEF TypeInv, DropInv
  <2>2. file' \in AllFiles
    BY <1>t, <1>7, <2>1, Files DEF Rewrite, AllFiles
  <2> QED
    BY <1>t, <1>7, <2>2 DEF Rewrite, TypeOK, AllFiles
<1>8. ASSUME NEW p \in Procs, Crash(p) PROVE TypeOK'
  BY <1>t, <1>8, PinAssumption DEF Crash, TypeOK, NoRead, NoPins, Pins
<1> QED
  BY <1>0, <1>1, <1>2, <1>3, <1>4, <1>5, <1>6, <1>7, <1>8 DEF Next, Starts, Steps

\* Every step keeps: no forget begins that the bound leaves no rewrite for.
LEMMA DropNext == TypeInv /\ LockInv /\ [Next]_vars => DropInv'
<1> SUFFICES ASSUME TypeInv, LockInv, [Next]_vars PROVE DropInv'
  OBVIOUS
<1>t. TypeOK /\ DropInv /\ file.id \in Nat
  BY DEF TypeInv, TypeOK
<1> USE DEF GoTo, Leave
<1>f. /\ IsFiniteSet(Dropping) /\ Cardinality(Dropping) \in Nat
      /\ \A S \in SUBSET Dropping :
           Cardinality(S) \in Nat /\ Cardinality(S) <= Cardinality(Dropping)
  BY PinAssumption, FS_Subset, FS_CardinalityType DEF Dropping
<1>s. ASSUME Dropping' \subseteq Dropping, file'.id = file.id PROVE DropInv'
  BY <1>t, <1>f, <1>s, PinAssumption DEF DropInv
<1>0. CASE UNCHANGED vars
  BY <1>0, <1>s DEF vars, Dropping
<1>1. ASSUME NEW c \in Clients, NEW h \in Hosts, Drop(c, h) PROVE DropInv'
  <2>1. /\ Dropping' = Dropping \cup {c} /\ c \notin Dropping
        /\ UNCHANGED file /\ file.id # 0
        /\ file.id + Cardinality(Dropping) <= MaxForgets
    BY <1>t, <1>1 DEF Drop, Dropping, TypeOK
  <2>2. Cardinality(Dropping \cup {c}) = Cardinality(Dropping) + 1
    BY <1>f, <2>1, FS_AddElement
  <2> QED
    BY <1>t, <1>f, <2>1, <2>2, PinAssumption DEF DropInv
<1>2. ASSUME NEW c \in Clients, Create(c) PROVE DropInv'
  <2>1. file.id = 0 /\ file'.id = 1 /\ Dropping' = Dropping
    BY <1>t, <1>2 DEF Create, Appended, Dropping, TypeOK, AllFiles
  <2>2. Dropping = {}
    BY <1>t, <2>1 DEF DropInv
  <2>3. Cardinality({}) = 0
    BY FS_EmptySet
  <2> QED
    BY <2>1, <2>2, <2>3, PinAssumption DEF DropInv
<1>3. ASSUME NEW c \in Clients, Rewrite(c) PROVE DropInv'
  <2>1. file'.id = file.id + 1 /\ c \in Dropping /\ Dropping' = Dropping \ {c}
    BY <1>t, <1>3, Files DEF Rewrite, Dropping, TypeOK, Ended, AllFiles
  <2>2. Cardinality(Dropping \ {c}) = Cardinality(Dropping) - 1
    BY <1>f, <2>1, FS_RemoveElement
  <2> QED
    BY <1>t, <1>f, <2>1, <2>2, PinAssumption DEF DropInv
<1>4. ASSUME NEW c \in Clients,
             \/ \E h \in Hosts, cert \in Certs : Contact(c, h, cert)
             \/ Get(c) \/ SetBegin(c) \/ Report(c) \/ TakeLock(c) \/ LockTimeout(c)
             \/ SetCheck(c) \/ AppendFails(c)
      PROVE  DropInv'
  <2>1. UNCHANGED file /\ Dropping' \subseteq Dropping
    BY <1>t, <1>4 DEF Contact, Get, SetBegin, Report, TakeLock, LockTimeout, SetCheck, AppendFails,
                      Dropping, TypeOK
  <2> QED
    BY <1>s, <2>1
<1>5. ASSUME NEW c \in Clients, AppendEnd(c) \/ \E part \in Tails : AppendBegin(c, part)
      PROVE  DropInv'
  <2>1. file'.id = file.id /\ Dropping' \subseteq Dropping
    BY <1>t, <1>5, Files DEF AppendEnd, AppendBegin, Appended, Dropping, TypeOK, AllFiles, Ended
  <2> QED
    BY <1>s, <2>1
<1>6. ASSUME NEW p \in Procs, Crash(p) PROVE DropInv'
  <2>1. UNCHANGED file /\ Dropping' \subseteq Dropping
    BY <1>t, <1>6 DEF Crash, Dropping, TypeOK
  <2> QED
    BY <1>s, <2>1
<1> QED
  BY <1>0, <1>1, <1>2, <1>3, <1>4, <1>5, <1>6 DEF Next, Starts, Steps

(***************************************************************************)
(* The last line, and the line that is to follow it.                       *)
(***************************************************************************)
\* Every step keeps: a last line without its end is of a processor that has no other.
LEMMA TailNext == TypeOK /\ LockInv /\ TailInv /\ SetInv /\ [Next]_vars => TailInv'
<1> SUFFICES ASSUME TypeOK, LockInv, TailInv, SetInv, [Next]_vars PROVE TailInv'
  OBVIOUS
<1>0. CASE UNCHANGED file
  BY <1>0 DEF TailInv
<1>1. ASSUME NEW c \in Clients, Create(c) PROVE TailInv'
  <2>1. file'.id = 1 /\ file'.tail = NoTail
    BY <1>1, Files DEF Create, Appended, TailInv, AllFiles
  <2> QED
    BY <2>1, PinAssumption DEF TailInv, NoTail
<1>2. ASSUME NEW c \in Clients, NEW part \in Tails, AppendBegin(c, part) PROVE TailInv'
  <2>1. /\ file'.id = file.id /\ file'.pins = WithTail(file) /\ file'.tail = part
        /\ file.id # 0 /\ WithTail(file)[host[c]] = NoPin
        /\ part = BadTail \/ part.host = host[c]
    BY <1>2, Files DEF AppendBegin, AllFiles, SetInv
  <2> QED
    BY <2>1, PinAssumption DEF TailInv, BadTail
<1>3. ASSUME NEW c \in Clients, AppendEnd(c) PROVE TailInv'
  <2>1. file'.id = file.id /\ file'.tail = NoTail /\ file.id # 0
    BY <1>3, Files DEF AppendEnd, Appended, AllFiles, SetInv
  <2> QED
    BY <2>1, PinAssumption DEF TailInv, NoTail
<1>4. ASSUME NEW c \in Clients, Rewrite(c) PROVE TailInv'
  <2>1. file'.id = file.id + 1 /\ file'.tail = NoTail /\ file.id \in Nat
    BY <1>4, Files DEF Rewrite, AllFiles
  <2> QED
    BY <2>1, PinAssumption DEF TailInv, NoTail
<1> QED
  BY <1>0, <1>1, <1>2, <1>3, <1>4
     DEF Next, Starts, Steps, vars, Drop, Contact, Get, SetBegin, TakeLock, LockTimeout, SetCheck,
         AppendFails, Report, Crash

\* While the file is not written to and its lock is not given to another.
LEMMA SetKept ==
  ASSUME SetInv, UNCHANGED file,
         \A c \in Clients : pc'[c] \in {"append", "appending"} =>
           pc'[c] = pc[c] /\ host'[c] = host[c] /\ seen'[c] = seen[c]
  PROVE  SetInv'
  BY DEF SetInv, WithTail

\* The file is written by its lock's holder, which is then past its append.
LEMMA SetOver ==
  ASSUME LockInv, NEW c \in Clients, lock = c, pc'[c] \notin {"append", "appending"},
         \A d \in Clients : d # c => pc'[d] = pc[d]
  PROVE  SetInv'
  BY DEF SetInv, LockInv

\* Every step keeps what a writer found under the lock.
LEMMA SetNext == Inv /\ [Next]_vars => SetInv'
<1> SUFFICES ASSUME Inv, [Next]_vars PROVE SetInv'
  OBVIOUS
<1>t. TypeOK /\ LockInv /\ SetInv
  BY DEF Inv, TypeInv
<1> USE DEF GoTo, Leave
<1>0. CASE UNCHANGED vars
  BY <1>t, <1>0, SetKept DEF vars
<1>1. ASSUME NEW c \in Clients,
             \/ \E h \in Hosts : Drop(c, h)
             \/ \E h \in Hosts, cert \in Certs : Contact(c, h, cert)
             \/ Get(c) \/ SetBegin(c) \/ Report(c)
             \/ TakeLock(c) \/ LockTimeout(c) \/ AppendFails(c)
      PROVE  SetInv'
  <2>1. /\ UNCHANGED file
        /\ \E step \in PinSteps \ {"append", "appending"} : pc' = [pc EXCEPT ![c] = step]
        /\ \A d \in Clients : d # c => host'[d] = host[d] /\ seen'[d] = seen[d]
    BY <1>t, <1>1 DEF Drop, Contact, Get, SetBegin, Report, TakeLock, LockTimeout, AppendFails,
                      PinSteps, TypeOK
  <2> QED
    BY <1>t, <2>1, SetKept DEF TypeOK
<1>2. ASSUME NEW c \in Clients, SetCheck(c) PROVE SetInv'
  <2>1. /\ UNCHANGED <<file, host, seen>>
        /\ \/ \E step \in {"idle", "error", "mismatch"} : pc' = [pc EXCEPT ![c] = step]
           \/ /\ pc' = [pc EXCEPT ![c] = "append"] /\ ~Unreadable(ProcOf[c], TRUE)
              /\ Current(ProcOf[c], TRUE).pins[host[c]] = NoPin
    BY <1>2 DEF SetCheck
  <2>2. CASE \E step \in {"idle", "error", "mismatch"} : pc' = [pc EXCEPT ![c] = step]
    BY <1>t, <2>1, <2>2, SetKept DEF TypeOK
  <2>3. CASE /\ pc' = [pc EXCEPT ![c] = "append"] /\ ~Unreadable(ProcOf[c], TRUE)
             /\ Current(ProcOf[c], TRUE).pins[host[c]] = NoPin
    <3>1. lock = c /\ ~Writing
      BY <1>t, <1>2, LockWriting DEF SetCheck, LockInv
    <3>2. ProcOf[c] \in Procs /\ host[c] \in Hosts
      BY <1>t, PinAssumption DEF TypeOK
    <3>3. Recorded[host[c]] = NoPin /\ ~file.bad /\ file.tail # BadTail
      BY <2>3, <3>1, <3>2, CurrentTells
    <3>4. WithTail(file)[host[c]] = NoPin
      BY <3>1, <3>3 DEF Recorded
    <3>5. WithTail(file)' = WithTail(file)
      BY <2>1 DEF WithTail
    <3> QED
      BY <1>t, <2>1, <2>3, <3>3, <3>4, <3>5 DEF SetInv, TypeOK
  <2> QED
    BY <2>1, <2>2, <2>3
<1>3. ASSUME NEW c \in Clients, Create(c) \/ AppendEnd(c) \/ Rewrite(c) PROVE SetInv'
  <2>1. lock = c /\ pc' = [pc EXCEPT ![c] = "idle"]
    BY <1>t, <1>3 DEF Create, AppendEnd, Rewrite, Appended, LockInv
  <2> QED
    BY <1>t, <2>1, SetOver DEF TypeOK
<1>4. ASSUME NEW c \in Clients, NEW part \in Tails, AppendBegin(c, part) PROVE SetInv'
  <2>1. /\ lock = c /\ pc' = [pc EXCEPT ![c] = "appending"] /\ UNCHANGED <<host, seen>>
        /\ file'.id = file.id /\ file.id # 0
        /\ file'.pins = WithTail(file) /\ file'.tail = part /\ file'.bad = FALSE
        /\ WithTail(file)[host[c]] = NoPin
        /\ part \in {BadTail, [host |-> host[c], pin |-> Torn], [host |-> host[c], pin |-> seen[c]]}
    BY <1>t, <1>4, Files DEF AppendBegin, AllFiles, SetInv, LockInv
  <2>2. \A d \in Clients : pc'[d] # "append" /\ (pc'[d] = "appending" => d = c)
    BY <1>t, <2>1 DEF LockInv, TypeOK
  <2> QED
    BY <2>1, <2>2 DEF SetInv
<1>5. ASSUME NEW p \in Procs, Crash(p) PROVE SetInv'
  <2>1. /\ UNCHANGED <<file, host, seen>>
        /\ \A c \in Clients : pc'[c] \in {"idle", pc[c]}
    BY <1>5 DEF Crash
  <2> QED
    BY <1>t, <2>1, SetKept
<1> QED
  BY <1>0, <1>1, <1>2, <1>3, <1>4, <1>5 DEF Next, Starts, Steps

(***************************************************************************)
(* What the stores have read.                                              *)
(***************************************************************************)
\* Every step keeps: what was read of a file that has not grown is what is there.
LEMMA ReadNext == Inv /\ TypeOK' /\ [Next]_vars => ReadInv'
<1> SUFFICES ASSUME Inv, TypeOK', [Next]_vars PROVE ReadInv'
  OBVIOUS
<1>t. /\ TypeOK /\ LockInv /\ SetInv /\ ReadInv
      /\ file \in AllFiles /\ file' \in AllFiles /\ file.id \in Nat /\ file'.id \in Nat
      /\ read \in [Procs -> Reads] /\ \A q \in Procs : read[q].id \in Nat /\ read[q].size \in Nat
  BY DEF Inv, TypeInv, TypeOK, AllFiles, Reads
<1>z. Size(file) \in Nat /\ Size(file') \in Nat
  BY <1>t, SizeIs
<1> USE DEF GoTo, Leave
<1>s. ASSUME UNCHANGED file PROVE Size(file)' = Size(file) /\ WithTail(file)' = WithTail(file)
  BY <1>s DEF Size, WithTail
\* A store that has nothing, or what it had, of a file nobody begins to write.
<1>k. ASSUME NEW q \in Procs, UNCHANGED file, Writing' => Writing, read'[q] \in {read[q], NoRead}
      PROVE  ReadOf(q)'
  BY <1>k, <1>t, <1>s DEF ReadInv, ReadOf, NoRead
<1>0. CASE UNCHANGED vars
  BY <1>0, <1>k DEF vars, ReadInv, Writing
<1>1. ASSUME NEW c \in Clients,
             \/ \E h \in Hosts : Drop(c, h)
             \/ \E h \in Hosts, cert \in Certs : Contact(c, h, cert)
             \/ SetBegin(c) \/ Report(c) \/ TakeLock(c) \/ LockTimeout(c) \/ AppendFails(c)
      PROVE  ReadInv'
  <2>1. /\ UNCHANGED file /\ (read' = read \/ read' = [read EXCEPT ![ProcOf[c]] = NoRead])
        /\ \E step \in PinSteps \ {"appending"} : pc' = [pc EXCEPT ![c] = step]
    BY <1>1 DEF Drop, Contact, SetBegin, Report, TakeLock, LockTimeout, AppendFails, PinSteps
  <2>2. Writing' => Writing
    BY <1>t, <2>1 DEF Writing, TypeOK
  <2>3. \A q \in Procs : read'[q] \in {read[q], NoRead}
    BY <1>t, <2>1
  <2> QED
    BY <1>k, <2>1, <2>2, <2>3 DEF ReadInv
<1>2. ASSUME NEW c \in Clients, Get(c) \/ SetCheck(c) PROVE ReadInv'
  <2>1. /\ UNCHANGED file
        /\ \E step \in PinSteps \ {"appending"} : pc' = [pc EXCEPT ![c] = step]
        /\ \/ UNCHANGED read
           \/ \E l \in BOOLEAN : /\ read' = [read EXCEPT ![ProcOf[c]] = Current(ProcOf[c], l)]
                                 /\ ~Unreadable(ProcOf[c], l) /\ (l => pc[c] = "check")
    BY <1>2 DEF Get, SetCheck, PinSteps
  <2>2. Writing' => Writing
    BY <1>t, <2>1 DEF Writing, TypeOK
  <2>3. CASE UNCHANGED read
    BY <1>k, <2>1, <2>2, <2>3 DEF ReadInv
  <2>4. ASSUME NEW l \in BOOLEAN, read' = [read EXCEPT ![ProcOf[c]] = Current(ProcOf[c], l)],
               ~Unreadable(ProcOf[c], l), l => pc[c] = "check"
        PROVE  ReadInv'
    <3>1. ProcOf[c] \in Procs /\ host[c] \in Hosts
      BY <1>t, PinAssumption DEF TypeOK
    <3>2. l => ~Writing
      BY <1>t, <2>4, LockWriting DEF LockInv
    <3> DEFINE now == Current(ProcOf[c], l)
    <3>3. /\ now.id <= file.id
          /\ now.id = file.id /\ file.id # 0 =>
               /\ now.size <= Size(file)
               /\ Writing => now.size < Size(file)
               /\ now.size = Size(file) =>
                    now.pins = WithTail(file) /\ ~file.bad /\ file.tail # BadTail
      BY <2>4, <3>1, <3>2, CurrentTells
    <3>4. read'[ProcOf[c]] = now /\ \A q \in Procs : q # ProcOf[c] => read'[q] = read[q]
      BY <1>t, <2>4, <3>1
    <3>5. ReadOf(ProcOf[c])'
      BY <1>s, <2>1, <2>2, <3>3, <3>4 DEF ReadOf
    <3> QED
      BY <1>k, <2>1, <2>2, <3>4, <3>5 DEF ReadInv
  <2> QED
    BY <2>1, <2>3, <2>4
\* A file that grew, or another one.
<1>g. ASSUME NEW q \in Procs, UNCHANGED read,
             \/ file'.id = file.id /\ file.id # 0 /\ Size(file') > Size(file)
             \/ file'.id > file.id
      PROVE  ReadOf(q)'
  <2>1. Size(file)' = Size(file')
    BY DEF Size
  <2> QED
    BY <1>g, <1>t, <1>z, <2>1 DEF ReadInv, ReadOf
<1>3. ASSUME NEW c \in Clients, NEW part \in Tails, AppendBegin(c, part) PROVE ReadInv'
  <2>1. /\ UNCHANGED read /\ file.id # 0 /\ file'.id = file.id
        /\ file'.pins = WithTail(file) /\ ~file'.bad /\ file'.tail = part
        /\ ~file.bad /\ file.tail # BadTail
    BY <1>t, <1>3, Files DEF AppendBegin, AllFiles, SetInv
  <2>2. part # NoTail
    BY <1>t, <1>3, PinAssumption DEF AppendBegin, TypeOK, NoTail, BadTail
  <2>3. \A h \in Hosts : file.tail.host = h => file.pins[h] = NoPin
    BY DEF Inv, TailInv
  <2>4. Size(file') > Size(file)
    BY <1>t, <2>1, <2>2, <2>3, BeginIsLarger
  <2> QED
    BY <1>g, <2>1, <2>4 DEF ReadInv
<1>4. ASSUME NEW c \in Clients, Rewrite(c) PROVE ReadInv'
  <2>1. UNCHANGED read /\ file'.id > file.id
    BY <1>t, <1>4, Files DEF Rewrite, AllFiles
  <2> QED
    BY <1>g, <2>1 DEF ReadInv
<1>5. ASSUME NEW c \in Clients, Create(c) \/ AppendEnd(c) PROVE ReadInv'
  <2>1. /\ read' = [read EXCEPT ![ProcOf[c]] =
                       [id |-> file'.id, size |-> Size(file'), pins |-> file'.pins]]
        /\ lock = c /\ pc' = [pc EXCEPT ![c] = "idle"]
    BY <1>t, <1>5 DEF Create, AppendEnd, Appended, LockInv
  <2>2. /\ file'.tail = NoTail /\ ~file'.bad
        /\ \/ file'.id > file.id
           \/ file'.id = file.id /\ file.id # 0 /\ Size(file') > Size(file)
    <3>1. CASE Create(c)
      <4>1. file.id = 0 /\ file'.id = 1 /\ file'.tail = NoTail /\ ~file'.bad
        BY <1>t, <3>1, Files DEF Create, Appended, AllFiles, Inv, TailInv
      <4> QED
        BY <4>1
    <3>2. CASE AppendEnd(c)
      <4>1. /\ file.id # 0 /\ file'.id = file.id /\ file'.tail = NoTail /\ ~file'.bad /\ ~file.bad
            /\ file'.pins = [file.pins EXCEPT ![host[c]] = seen[c]] /\ file.pins[host[c]] = NoPin
            /\ host[c] \in Hosts /\ seen[c] \in Certs
        BY <1>t, <3>2, Files DEF AppendEnd, Appended, AllFiles, SetInv
      <4>2. file.tail # NoTail
        BY <1>t, <3>2, <4>1, PinAssumption DEF AppendEnd, SetInv, NoTail, BadTail
      <4> QED
        BY <1>t, <4>1, <4>2, EndIsLarger
    <3> QED
      BY <1>5, <3>1, <3>2
  <2>3. ~Writing'
    BY <1>t, <2>1 DEF LockInv, Writing, TypeOK
  <2>4. WithTail(file') = file'.pins /\ NoTail # BadTail
    BY <1>t, <2>2, WithTailPins DEF NoTail, BadTail
  <2>5. Size(file)' = Size(file') /\ WithTail(file)' = WithTail(file')
    BY DEF Size, WithTail
  <2>6. ASSUME NEW q \in Procs PROVE ReadOf(q)'
    <3>1. CASE q = ProcOf[c]
      <4>1. read'[q] = [id |-> file'.id, size |-> Size(file'), pins |-> file'.pins]
        BY <1>t, <2>1, <3>1
      <4> QED
        BY <1>t, <1>z, <2>2, <2>3, <2>4, <2>5, <4>1 DEF ReadOf
    <3>2. CASE q # ProcOf[c]
      <4>1. read'[q] = read[q]
        BY <1>t, <2>1, <3>2
      <4> QED
        BY <1>t, <1>z, <2>2, <2>3, <2>5, <4>1 DEF ReadInv, ReadOf
    <3> QED
      BY <3>1, <3>2
  <2> QED
    BY <2>6 DEF ReadInv
<1>6. ASSUME NEW p \in Procs, Crash(p) PROVE ReadInv'
  <2>1. UNCHANGED file /\ \A q \in Procs : read'[q] \in {read[q], NoRead}
    BY <1>t, <1>6 DEF Crash
  <2>2. Writing' => Writing
    BY <1>6 DEF Crash, Writing
  <2> QED
    BY <1>k, <2>1, <2>2 DEF ReadInv
<1> QED
  BY <1>0, <1>1, <1>2, <1>3, <1>4, <1>5, <1>6 DEF Next, Starts, Steps

\* The invariant holds at first.
LEMMA InvInit == Init => Inv
<1> SUFFICES ASSUME Init PROVE Inv
  OBVIOUS
<1>1. 0 \in 0..(MaxForgets + 1) /\ 0 \in 0..MaxCrashes /\ NoPins \in Pins /\ NoRead \in Reads
  BY PinAssumption, NoReadIs DEF NoPins, Pins
<1>2. TypeOK
  BY <1>1, PinAssumption DEF Init, TypeOK, Reads, Tails
<1>3. Dropping = {} /\ Cardinality({}) = 0
  BY FS_EmptySet DEF Init, Dropping
<1>4. DropInv
  BY <1>3, PinAssumption DEF Init, DropInv
<1>5. LockInv /\ TailInv /\ SetInv
  BY PinAssumption DEF Init, LockInv, TailInv, SetInv, NoPins
<1>6. ReadInv
  BY DEF Init, ReadInv, ReadOf, NoRead
<1> QED
  BY <1>2, <1>4, <1>5, <1>6 DEF Inv, TypeInv

\* Every step keeps the invariant.
LEMMA InvNext == Inv /\ [Next]_vars => Inv'
  BY TypeNext, DropNext, LockNext, TailNext, SetNext, ReadNext DEF Inv, TypeInv

\* The invariant, of which the properties follow.
THEOREM Invariant == Spec => []Inv
<1> QED
  BY InvInit, InvNext, PTL DEF Spec

\* The state of the store keeps its types: what a command has read of the file
\* is never less than nothing, and the file is not rewritten more often than
\* forgets were counted.
THEOREM TypeCorrect == Spec => []TypeOK
<1>1. Inv => TypeOK
  BY DEF Inv, TypeInv
<1> QED
  BY <1>1, Invariant, PTL

(***************************************************************************)
(* The register.                                                           *)
(***************************************************************************)
\* Nobody begins or ends to write.
LEMMA SameRecorded ==
  ASSUME UNCHANGED file, Writing' <=> Writing
  PROVE  Recorded' = Recorded
  BY DEF Recorded, WithTail

Accepted(c) == Register!Accept(host[c], seen[c])

\* A certificate that is recorded, and accepted.
LEMMA AcceptsRecorded ==
  ASSUME TypeOK, NEW c \in Clients, Recorded \in Pins, Recorded' = Recorded,
         Recorded[host[c]] = seen[c], Accepts(c)
  PROVE  Accepted(c)
<1>1. [Recorded EXCEPT ![host[c]] = seen[c]] = Recorded
  BY DEF Pins
<1> QED
  BY <1>1 DEF Accepts, Accepted, Register!Accept

\* An append that stops in the middle leaves a part, or all, of its line.
LEMMA LeftBehind ==
  ASSUME Inv, NEW c \in Clients, pc[c] = "appending", UNCHANGED <<file, accepted>>, ~Writing'
  PROVE  Register!TofuNext \/ UNCHANGED Register!tvars
<1>1. /\ TypeOK /\ file \in AllFiles /\ host[c] \in Hosts /\ seen[c] \in Certs /\ file.pins \in Pins
      /\ WithTail(file)' = WithTail(file)
  BY Files DEF Inv, TypeInv, WithTail
<1>2. Recorded = file.pins /\ Recorded' = WithTail(file) /\ file.pins[host[c]] = NoPin
  BY <1>1 DEF Recorded, Writing, Inv, SetInv
<1>3. CASE file.tail = BadTail
  <2>1. WithTail(file) = file.pins
    BY <1>1, <1>3, WithTailPins
  <2> QED
    BY <1>2, <2>1 DEF Register!tvars
<1>4. CASE file.tail # BadTail
  <2>1. file.tail.host = host[c] /\ file.tail.pin \in Certs \cup {Torn}
    BY <1>1, <1>4 DEF Inv, SetInv
  <2>2. WithTail(file) = [file.pins EXCEPT ![host[c]] = file.tail.pin]
    BY <1>1, <2>1 DEF WithTail, Pins
  <2>3. Register!Record(host[c], file.tail.pin)
    BY <1>2, <2>2 DEF Register!Record
  <2> QED
    BY <1>1, <2>1, <2>3 DEF Register!TofuNext
<1> QED
  BY <1>3, <1>4

\* Every step of the store is one of the register, or none.
LEMMA StepRefines == Inv /\ Inv' /\ [Next]_vars => [Register!TofuNext]_(Register!tvars)
<1> SUFFICES ASSUME Inv, Inv', [Next]_vars PROVE Register!TofuNext \/ UNCHANGED Register!tvars
  OBVIOUS
<1>t. /\ TypeOK /\ LockInv /\ SetInv /\ TailInv /\ file \in AllFiles /\ WithTail(file) \in Pins
      /\ file.pins \in Pins /\ Recorded \in Pins
      /\ \A c \in Clients : host[c] \in Hosts /\ seen[c] \in Certs
  BY WithTailPins DEF Inv, TypeInv, TypeOK, AllFiles, Recorded
<1>a. ASSUME NEW c \in Clients, Accepted(c) PROVE Register!TofuNext
  BY <1>a, <1>t DEF Accepted, Register!TofuNext
<1>k. ASSUME UNCHANGED <<file, accepted>>, Writing' <=> Writing PROVE UNCHANGED Register!tvars
  BY <1>k, SameRecorded DEF Register!tvars
<1> USE DEF GoTo, Leave
<1>0. CASE UNCHANGED vars
  BY <1>0, <1>k DEF vars, Writing
<1>1. ASSUME NEW c \in Clients,
             \/ \E h \in Hosts : Drop(c, h)
             \/ \E h \in Hosts, cert \in Certs : Contact(c, h, cert)
             \/ SetBegin(c) \/ Report(c) \/ TakeLock(c) \/ LockTimeout(c)
      PROVE  UNCHANGED Register!tvars
  <2>1. /\ UNCHANGED <<file, accepted>> /\ pc[c] # "appending"
        /\ \E step \in PinSteps \ {"appending"} : pc' = [pc EXCEPT ![c] = step]
    BY <1>1 DEF Drop, Contact, SetBegin, Report, TakeLock, LockTimeout, PinSteps
  <2>2. Writing' <=> Writing
    BY <1>t, <2>1 DEF Writing, TypeOK
  <2> QED
    BY <1>k, <2>1, <2>2
<1>2. ASSUME NEW c \in Clients, Get(c) \/ SetCheck(c)
      PROVE  Register!TofuNext \/ UNCHANGED Register!tvars
  <2>1. /\ UNCHANGED file /\ pc[c] # "appending"
        /\ \E step \in PinSteps \ {"appending"} : pc' = [pc EXCEPT ![c] = step]
        /\ \/ UNCHANGED accepted
           \/ \E l \in BOOLEAN : /\ Accepts(c) /\ Current(ProcOf[c], l).pins[host[c]] = seen[c]
                                 /\ ~Unreadable(ProcOf[c], l) /\ (l => pc[c] = "check")
    BY <1>2 DEF Get, SetCheck, PinSteps
  <2>2. Writing' <=> Writing
    BY <1>t, <2>1 DEF Writing, TypeOK
  <2>3. CASE UNCHANGED accepted
    BY <1>k, <2>1, <2>2, <2>3
  <2>4. ASSUME NEW l \in BOOLEAN, Accepts(c), Current(ProcOf[c], l).pins[host[c]] = seen[c],
               ~Unreadable(ProcOf[c], l), l => pc[c] = "check"
        PROVE  Register!TofuNext
    <3>1. l => ~Writing
      BY <1>t, <2>4, LockWriting DEF LockInv
    <3>2. Recorded[host[c]] = seen[c]
      BY <1>t, <2>4, <3>1, CurrentTells, PinAssumption
    <3> QED
      BY <1>t, <1>a, <2>1, <2>2, <2>4, <3>2, SameRecorded, AcceptsRecorded
  <2> QED
    BY <2>1, <2>3, <2>4
\* A line that is whole.
<1>3. ASSUME NEW c \in Clients, Create(c) \/ AppendEnd(c) PROVE Register!TofuNext
  <2>1. /\ Accepts(c) /\ lock = c /\ pc' = [pc EXCEPT ![c] = "idle"]
        /\ file'.tail = NoTail /\ file'.pins = [file.pins EXCEPT ![host[c]] = seen[c]]
    BY <1>t, <1>3, Files DEF Create, AppendEnd, Appended, LockInv, AllFiles, TailInv
  <2>2. Recorded = file.pins /\ file.pins[host[c]] = NoPin
    <3>1. CASE Create(c)
      <4>1. pc[c] = "append" /\ ~Writing /\ WithTail(file)[host[c]] = NoPin /\ file.tail = NoTail
        BY <1>t, <2>1, <3>1, LockWriting DEF Create, SetInv, TailInv
      <4> QED
        BY <1>t, <4>1, WithTailPins DEF Recorded
    <3>2. CASE AppendEnd(c)
      BY <1>t, <2>1, <3>2, LockWriting DEF AppendEnd, SetInv, Recorded
    <3> QED
      BY <1>3, <3>1, <3>2
  <2>3. Recorded' = file'.pins
    <3>1. ~Writing'
      BY <1>t, <2>1 DEF LockInv, Writing, TypeOK
    <3>2. WithTail(file)' = file'.pins
      <4>1. file' \in AllFiles /\ WithTail(file)' = WithTail(file')
        BY DEF Inv, TypeInv, TypeOK, AllFiles, WithTail
      <4> QED
        BY <2>1, <4>1, WithTailPins
    <3> QED
      BY <3>1, <3>2 DEF Recorded
  <2>4. Accepted(c)
    BY <2>1, <2>2, <2>3 DEF Accepts, Accepted, Register!Accept
  <2> QED
    BY <1>a, <2>4
\* A line that is begun: what there was has its end.
<1>4. ASSUME NEW c \in Clients, NEW part \in Tails, AppendBegin(c, part)
      PROVE  UNCHANGED Register!tvars
  <2>1. /\ pc[c] = "append" /\ lock = c /\ pc'[c] = "appending" /\ UNCHANGED accepted
        /\ file'.pins = WithTail(file)
    BY <1>t, <1>4, Files DEF AppendBegin, LockInv, TypeOK, AllFiles
  <2>2. ~Writing /\ Writing'
    BY <1>t, <2>1, LockWriting DEF Writing
  <2> QED
    BY <2>1, <2>2 DEF Recorded, Register!tvars
<1>5. ASSUME NEW c \in Clients, AppendFails(c) PROVE Register!TofuNext \/ UNCHANGED Register!tvars
  <2>1. /\ UNCHANGED <<file, accepted>> /\ pc[c] \in {"append", "appending"} /\ lock = c
        /\ pc' = [pc EXCEPT ![c] = "error"]
    BY <1>t, <1>5 DEF AppendFails, LockInv
  <2>2. ~Writing'
    BY <1>t, <2>1 DEF LockInv, Writing, TypeOK
  <2>3. CASE pc[c] = "append"
    BY <1>t, <1>k, <2>1, <2>2, <2>3, LockWriting
  <2>4. CASE pc[c] = "appending"
    BY <2>1, <2>2, <2>4, LeftBehind
  <2> QED
    BY <2>1, <2>3, <2>4
<1>6. ASSUME NEW c \in Clients, Rewrite(c) PROVE Register!TofuNext
  <2>1. /\ lock = c /\ pc[c] = "rewrite" /\ pc' = [pc EXCEPT ![c] = "idle"]
        /\ file'.tail = NoTail /\ file'.pins = [WithTail(file) EXCEPT ![host[c]] = NoPin]
        /\ accepted' = [accepted EXCEPT ![host[c]] = {}]
    BY <1>t, <1>6, Files DEF Rewrite, LockInv, AllFiles
  <2>2. ~Writing /\ ~Writing'
    BY <1>t, <2>1, LockWriting DEF LockInv, Writing, TypeOK
  <2>3. WithTail(file)' = file'.pins
    <3>1. file' \in AllFiles /\ WithTail(file)' = WithTail(file')
      BY DEF Inv, TypeInv, TypeOK, AllFiles, WithTail
    <3> QED
      BY <2>1, <3>1, WithTailPins
  <2>4. Register!Forget(host[c])
    BY <2>1, <2>2, <2>3 DEF Recorded, Register!Forget
  <2> QED
    BY <1>t, <2>4 DEF Register!TofuNext
<1>7. ASSUME NEW p \in Procs, Crash(p) PROVE Register!TofuNext \/ UNCHANGED Register!tvars
  <2>1. /\ UNCHANGED <<file, accepted>>
        /\ pc' = [c \in Clients |-> IF ProcOf[c] = p THEN "idle" ELSE pc[c]]
    BY <1>7 DEF Crash
  <2>2. CASE Writing' <=> Writing
    BY <1>k, <2>1, <2>2
  <2>3. CASE ~(Writing' <=> Writing)
    <3>1. ~Writing' /\ Writing
      BY <2>1, <2>3 DEF Writing
    <3>2. PICK c \in Clients : pc[c] = "appending"
      BY <3>1 DEF Writing
    <3> QED
      BY <2>1, <3>1, <3>2, LeftBehind
  <2> QED
    BY <2>2, <2>3
<1> QED
  BY <1>0, <1>1, <1>2, <1>3, <1>4, <1>5, <1>6, <1>7 DEF Next, Starts, Steps

\* At first, every register is empty.
LEMMA InitRefines == Init => Register!TofuInit
<1> SUFFICES ASSUME Init PROVE Register!TofuInit
  OBVIOUS
<1>1. ~Writing /\ WithTail(file) = NoPins
  BY PinAssumption DEF Init, Writing, WithTail, NoTail, NoPins
<1> QED
  BY <1>1 DEF Init, Recorded, Register!TofuInit, NoPins

(***************************************************************************)
(* The theorems.                                                           *)
(***************************************************************************)
\* The store, with its file, caches, locks and crashes, is a register of each
\* processor that takes the first certificate and no other.
THEOREM StoreImplements == Spec => StoreIsRegister
  BY Invariant, InitRefines, StepRefines, PTL DEF Spec, StoreIsRegister, Register!TofuSpec

\* A place for every processor in what is recorded.
LEMMA RecordedIs == ASSUME TypeOK PROVE Recorded \in [Hosts -> Certs \cup {NoPin, Torn}]
  BY WithTailPins DEF TypeOK, Recorded, Pins, AllFiles

\* All commands together accept one certificate of a processor between two
\* forgets, the one that is recorded, and no store answers from a cache that is
\* not the file's.
THEOREM PinsAgree == Spec => []PinsAreOne
<1>1. Init => OneAccepted
  BY DEF Init, OneAccepted
<1>2. TypeOK /\ OneAccepted /\ [Register!TofuNext]_(Register!tvars) => OneAccepted'
  <2> SUFFICES ASSUME TypeOK, OneAccepted, [Register!TofuNext]_(Register!tvars) PROVE OneAccepted'
    OBVIOUS
  <2>1. accepted \in [Hosts -> SUBSET Certs]
    BY DEF TypeOK
  <2>2. CASE UNCHANGED Register!tvars
    BY <2>2 DEF Register!tvars, OneAccepted
  <2>3. ASSUME NEW h \in Hosts, NEW cert \in Certs, Register!Accept(h, cert) PROVE OneAccepted'
    <3>1. accepted[h] \subseteq {cert}
      BY <2>1, <2>3, PinAssumption DEF Register!Accept, OneAccepted
    <3>2. ASSUME NEW k \in Hosts PROVE accepted'[k] \subseteq {Recorded'[k]}
      <4>1. Recorded'[k] = IF k = h THEN cert ELSE Recorded[k]
        BY <2>3, RecordedIs DEF Register!Accept
      <4>2. accepted'[k] = IF k = h THEN accepted[h] \cup {cert} ELSE accepted[k]
        BY <2>1, <2>3 DEF Register!Accept
      <4> QED
        BY <3>1, <4>1, <4>2 DEF OneAccepted
    <3> QED
      BY <3>2 DEF OneAccepted
  <2>4. ASSUME NEW h \in Hosts, NEW cert \in Certs \cup {Torn}, Register!Record(h, cert)
        PROVE  OneAccepted'
    <3>1. accepted[h] = {}
      BY <2>1, <2>4, PinAssumption DEF Register!Record, OneAccepted
    <3> QED
      BY <2>4, <3>1 DEF Register!Record, OneAccepted
  <2>5. ASSUME NEW h \in Hosts, Register!Forget(h) PROVE OneAccepted'
    BY <2>1, <2>5 DEF Register!Forget, OneAccepted
  <2> QED
    BY <2>2, <2>3, <2>4, <2>5 DEF Register!TofuNext
<1>3. Inv => CacheIsFile /\ TypeOK
  <2> SUFFICES ASSUME Inv, NEW p \in Procs, file.id # 0, Cached(p)
               PROVE  read[p].pins = IF file.tail = NoTail THEN file.pins ELSE WithTail(file)
    BY DEF CacheIsFile, Inv, TypeInv
  <2>1. read[p].pins = WithTail(file)
    BY DEF Inv, ReadInv, ReadOf, Cached
  <2>2. file.tail = NoTail => WithTail(file) = file.pins
    BY WithTailPins DEF Inv, TypeInv, TypeOK, AllFiles
  <2> QED
    BY <2>1, <2>2
<1> QED
  BY <1>1, <1>2, <1>3, Invariant, StepRefines, PTL DEF Spec, PinsAreOne
=============================================================================
