------------------------------ MODULE HostKeys ------------------------------
(***************************************************************************)
(* The host key file between the commands that write it: hostkey refresh,  *)
(* which asks, collects the keys the hosts offer and writes them, hostkey  *)
(* remove, and the step of provision reinstall that forgets the keys.      *)
(*                                                                         *)
(* They meet in the file only.  Modify reads, changes and replaces it under *)
(* the file's lock, which is given back when its holder is killed; the file *)
(* is replaced as a whole.  Meanwhile machines get new keys, and the team  *)
(* revokes keys in the file by hand.                                       *)
(***************************************************************************)
EXTENDS KnownHosts

CONSTANTS
  Commands,   \* the commands, each of which runs once
  Hosts,      \* the names refresh gives the hosts it scans
  Removals,   \* what remove and reinstall are given: lists of names
  Files,      \* the files there may be before
  Titles,     \* the comments that say what such a file is, at its top
  Keys,       \* keys a host may have, all of one type
  Lists,      \* lists of names, on which the batches are compared
  MaxRekeys,  \* bound: reinstalled machines
  MaxEdits    \* bound: edits by hand

NoKey == "none"
KeyType == 1
Line == [marker : {"", "@revoked", "@cert-authority"}, hosts : Seq(Patterns), type : Nat,
         key : Keys, notes : Seq(STRING)]

HostKeysConstants ==
  /\ Names \subseteq Nat /\ Lower \in [Names -> Names] /\ \A n \in Names : Lower[Lower[n]] = Lower[n]
  /\ Text \in [Patterns -> Nat]
  /\ IsFiniteSet(Hosts) /\ Hosts \subseteq Names /\ \A g, h \in Hosts : Lower[g] = Lower[h] => g = h
  /\ Removals \subseteq Seq(Names) /\ Lists \subseteq Seq(Names)
  /\ \A f \in Files : f = Parse(f.header, f.lines) /\ f.header \in Seq(STRING) /\ f.lines \in Seq(Line)
  /\ Keys \cap {NoKey, "as_before", "gone"} = {}
  /\ MaxRekeys \in Nat /\ MaxEdits \in Nat

VARIABLES
  file,    \* the host key file, as Parse reads it
  lock,    \* the command that holds its lock, in a set
  offers,  \* the key each host offers
  cmd,     \* the runs of the commands
  last,    \* history: what was last written of each host
  rekeys, edits

vars == <<file, lock, offers, cmd, last, rekeys, edits>>

\* The names a run is about, in order; the keys found, NoKey for a host that did
\* not answer; and what Modify has read.
Idle == [pc |-> "idle", does |-> "remove", names |-> <<>>,
         found |-> [h \in Hosts |-> NoKey], read |-> [header |-> <<>>, lines |-> <<>>]]

Init ==
  /\ file \in Files
  /\ lock = {}
  /\ offers \in [Hosts -> Keys]
  /\ cmd = [c \in Commands |-> Idle]
  /\ last = [h \in Hosts |-> "as_before"]
  /\ rekeys = 0 /\ edits = 0

(***************************************************************************)
(* The hosts and the team.                                                 *)
(***************************************************************************)
Rekey(h) ==
  /\ rekeys < MaxRekeys
  /\ \E k \in Keys \ {offers[h]} : offers' = [offers EXCEPT ![h] = k]
  /\ rekeys' = rekeys + 1
  /\ UNCHANGED <<file, lock, cmd, last, edits>>

\* An editor knows nothing of the lock; one that saves while a command holds it
\* undoes what the command writes, or the other way round, and is left out.
Revoke ==
  /\ edits < MaxEdits /\ lock = {}
  /\ \E k \in Keys, p \in {[not |-> FALSE, kind |-> "wild", name |-> h] : h \in Hosts} :
       file' = [file EXCEPT !.lines = Append(@,
                  [marker |-> "@revoked", hosts |-> <<p>>, type |-> KeyType,
                   key |-> k, notes |-> <<>>])]
  /\ edits' = edits + 1
  /\ UNCHANGED <<lock, offers, cmd, last, rekeys>>

(***************************************************************************)
(* The commands, once the question is answered.                            *)
(***************************************************************************)
Moved(c, pc) == cmd' = [cmd EXCEPT ![c].pc = pc]

Over(c) == cmd' = [cmd EXCEPT ![c] = [Idle EXCEPT !.pc = "over"]]

\* refresh scans its hosts in any order, side by side.
Refresh(c) ==
  /\ cmd[c].pc = "idle"
  /\ \E S \in SUBSET Hosts \ {{}} :
       cmd' = [cmd EXCEPT ![c] = [Idle EXCEPT !.pc = "scan", !.does = "refresh", !.names = Sorted(S)]]
  /\ UNCHANGED <<file, lock, offers, last, rekeys, edits>>

Collect(c, h) ==
  /\ cmd[c].pc = "scan"
  /\ h \in Sq!ToSet(cmd[c].names) /\ cmd[c].found[h] = NoKey
  /\ cmd' = [cmd EXCEPT ![c].found[h] = offers[h]]
  /\ UNCHANGED <<file, lock, offers, last, rekeys, edits>>

\* What has not answered in time is unreachable.
ScanOver(c) ==
  /\ cmd[c].pc = "scan"
  /\ Moved(c, "modify")
  /\ UNCHANGED <<file, lock, offers, last, rekeys, edits>>

Remove(c) ==
  /\ cmd[c].pc = "idle"
  /\ \E names \in Removals :
       cmd' = [cmd EXCEPT ![c] = [Idle EXCEPT !.pc = "modify", !.names = names]]
  /\ UNCHANGED <<file, lock, offers, last, rekeys, edits>>

(***************************************************************************)
(* Modify.                                                                 *)
(***************************************************************************)
Free == lock = {}

TakeLock(c) ==
  /\ cmd[c].pc = "modify" /\ Free
  /\ lock' = lock \cup {c}
  /\ Moved(c, "read")
  /\ UNCHANGED <<file, offers, last, rekeys, edits>>

\* A wait for the lock that ends with writing anyway.
UnlockedAnyway(c) == Moved(c, "read")

\* After 30 seconds without the lock, nothing is written.
Unlocked(c) == Over(c)

LockTimeout(c) ==
  /\ cmd[c].pc = "modify" /\ lock # {}
  /\ Unlocked(c)
  /\ UNCHANGED <<file, lock, offers, last, rekeys, edits>>

Read(c) ==
  /\ cmd[c].pc = "read"
  /\ cmd' = [cmd EXCEPT ![c].pc = "write", ![c].read = file]
  /\ UNCHANGED <<file, lock, offers, last, rekeys, edits>>

\* Every host that answered.
WritableFound(c) ==
  Picked(cmd[c].names, {i \in DOMAIN cmd[c].names : cmd[c].found[cmd[c].names[i]] # NoKey})

\* Of the hosts that answered, those whose key the file does not revoke.
Writable(c) ==
  LET f == cmd[c].read.lines
      found == cmd[c].found
      names == cmd[c].names IN
  Picked(names, {i \in DOMAIN names : /\ found[names[i]] # NoKey
                                      /\ ~IndexRevoked(f, Index(f), names[i], found[names[i]])})

Changed(c) ==
  IF cmd[c].does = "remove" THEN RemoveAll(cmd[c].read.lines, cmd[c].names)
  ELSE ReplaceAll(cmd[c].read.lines, Writable(c),
         [h \in Hosts |-> <<[type |-> KeyType, key |-> cmd[c].found[h]]>>])

\* The hosts a run has been told to write or remove.
About(c) ==
  LET names == IF cmd[c].does = "remove" THEN cmd[c].names ELSE Writable(c)
  IN {Lower[names[i]] : i \in DOMAIN names}

\* The new file takes the place of the old one.
Write(c) ==
  /\ cmd[c].pc = "write"
  /\ file' = Parse(cmd[c].read.header, Render(Changed(c)))
  /\ lock' = lock \ {c}
  /\ last' = [h \in Hosts |-> IF Lower[h] \notin About(c) THEN last[h]
                              ELSE IF cmd[c].does = "remove" THEN "gone" ELSE cmd[c].found[h]]
  /\ Over(c)
  /\ UNCHANGED <<offers, rekeys, edits>>

\* The command is killed or interrupted, or the new file cannot be written.
Killed(c) ==
  /\ cmd[c].pc \notin {"idle", "over"}
  /\ lock' = lock \ {c}
  /\ Over(c)
  /\ UNCHANGED <<file, offers, last, rekeys, edits>>

Next ==
  \/ \E h \in Hosts : Rekey(h)
  \/ Revoke
  \/ \E c \in Commands :
       \/ Refresh(c) \/ ScanOver(c) \/ Remove(c)
       \/ \E h \in Hosts : Collect(c, h)
       \/ TakeLock(c) \/ LockTimeout(c) \/ Read(c) \/ Write(c) \/ Killed(c)

Spec == Init /\ [][Next]_vars

(***************************************************************************)
(* Properties.                                                             *)
(***************************************************************************)
\* The values the state can hold; the lock has one holder.
TypeOK ==
  /\ file.header \in Seq(STRING) /\ file.lines \in Seq(Line)
  /\ lock \subseteq Commands /\ Cardinality(lock) <= 1
  /\ offers \in [Hosts -> Keys]
  /\ \A c \in Commands :
       /\ cmd[c].pc \in {"idle", "scan", "modify", "read", "write", "over"}
       /\ cmd[c].names \in Seq(Names)
       /\ cmd[c].found \in [Hosts -> Keys \cup {NoKey}]
  /\ last \in [Hosts -> Keys \cup {"as_before", "gone"}]

Named(f, h) == {i \in DOMAIN f : IsHostKey(f[i]) /\ \E p \in Sq!ToSet(f[i].hosts) : NamesHost(p, h)}

\* Two administrators writing at the same time cannot lose an entry: what was
\* last written of a host is in the file, whatever other commands read and wrote
\* meanwhile, and what was removed last is not.
WrittenIsThere ==
  \A h \in Hosts :
    /\ last[h] = "gone" => Named(file.lines, h) = {}
    /\ last[h] \in Keys => \E i \in DOMAIN file.lines : Named(file.lines, h) = {i} /\ file.lines[i].key = last[h]

\* What the file says of each pattern, the lines that are no host keys, and the
\* notes.
Held(f) == UNION {{[pattern |-> p, type |-> f[i].type, key |-> f[i].key] : p \in Sq!ToSet(f[i].hosts)} :
                    i \in {k \in DOMAIN f : IsHostKey(f[k])}}
Marked(f) == {[f[i] EXCEPT !.notes = <<>>] : i \in {k \in DOMAIN f : ~IsHostKey(f[k])}}
NotesIn(f) == Sq!ToSet(f.header) \cup UNION {Sq!ToSet(f.lines[i].notes) : i \in DOMAIN f.lines}

Writes(c) == cmd[c].pc = "write" /\ cmd'[c].pc = "over" /\ file' # file

\* A command takes from the file only what names the hosts it writes: wildcards,
\* the other hosts of a line, lines that revoke a key or name an authority stay
\* as they are; and a refresh loses no note.
TakesOnlyNamed ==
  \A c \in Commands : Writes(c) =>
    /\ \A s \in Held(file.lines) \ Held(file'.lines) : \E h \in About(c) : NamesHost(s.pattern, h)
    /\ Marked(file.lines) \subseteq Marked(file'.lines)
    /\ cmd[c].does = "refresh" => NotesIn(file) \subseteq NotesIn(file')

\* A key that the file revokes for a host is never written as the host's, also
\* when it was revoked while the command scanned or waited for the lock.
TrustsNoRevoked ==
  \A c \in Commands : Writes(c) =>
    \A s \in Held(file'.lines) \ Held(file.lines) : ~Revoked(file.lines, s.pattern.name, s.key)

\* The batches do with many hosts, given in any order, twice, or in another
\* case, what they would do with one after another: the same lines are left, as
\* many are counted for each host, and each note goes with the same key.
BatchIsOneByOne ==
  (\A c \in Commands : cmd[c].pc \in {"idle", "over"}) =>
    \A hosts \in Lists :
      LET removed == RemoveOneByOne(file.lines, hosts) IN
      /\ RemoveAll(file.lines, hosts) = removed.file
      /\ CountsOf(file.lines, hosts) = removed.counts
      /\ NotesOf(file.lines, hosts) = removed.notes
      /\ \A k \in Keys :
           LET keys == [h \in Names |-> <<[type |-> KeyType, key |-> k],
                                          [type |-> KeyType + 1, key |-> k]>>]
           IN ReplaceAll(file.lines, hosts, keys) = ReplaceOneByOne(file.lines, hosts, keys)

\* The index of a file finds what a search through the file would.
IndexIsFile ==
  LET f == file.lines IN
  \A h \in Names :
    /\ IndexFind(f, Index(f), h) = {i \in DOMAIN f : IsHostKey(f[i]) /\ Matches(f[i], h)}
    /\ \A k \in Keys : IndexRevoked(f, Index(f), h, k) <=> Revoked(f, h, k)

\* The comments directly above a line in the text of the file, but for the title.
Above(f, i) ==
  Sq!ToSet(IF i = 1 THEN f.header ELSE f.lines[i].notes) \ Titles

\* A comment above an entry stays with that entry when the file is sorted: a
\* line a command leaves alone has afterwards the comments it had.
\* (site/content/docs/guides/access.md:69; hostkeys.go:75)
KeepsComments ==
  \A c \in Commands : Writes(c) =>
    \A i \in DOMAIN file.lines :
      Hit(file.lines[i], cmd[c].names) = {} =>
        \E j \in DOMAIN file'.lines :
          /\ [file'.lines[j] EXCEPT !.notes = <<>>] = [file.lines[i] EXCEPT !.notes = <<>>]
          /\ Above(file, i) \subseteq Above(file', j)

(***************************************************************************)
(* The inductive invariant: whoever reads or writes the file holds its     *)
(* lock, so what was read is the file until it is written.                 *)
(***************************************************************************)
Run == [pc : {"idle", "scan", "modify", "read", "write", "over"}, does : {"remove", "refresh"},
        names : Seq(Names), found : [Hosts -> Keys \cup {NoKey}],
        read : [header : Seq(STRING), lines : Seq(Line)]]

LockInv ==
  /\ \A c \in Commands : c \in lock <=> cmd[c].pc \in {"read", "write"}
  /\ \A c, d \in lock : c = d

ReadInv == \A c \in Commands : cmd[c].pc = "write" => cmd[c].read = file

\* A refresh is of hosts it has names for.
NameInv == \A c \in Commands : cmd[c].does = "refresh" => cmd[c].names \in Seq(Hosts)

Inv ==
  /\ TypeOK /\ file \in [header : Seq(STRING), lines : Seq(Line)] /\ cmd \in [Commands -> Run]
  /\ LockInv /\ ReadInv /\ NameInv /\ WrittenIsThere
=============================================================================
