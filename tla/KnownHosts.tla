----------------------------- MODULE KnownHosts -----------------------------
(***************************************************************************)
(* The host key file of internal/hostkeys: what its lines cover, and how   *)
(* the keys of many hosts are removed, replaced and looked up in one pass  *)
(* over it.  OneByOne and the other definitions after the ruler say what   *)
(* the pass stands for.                                                    *)
(***************************************************************************)
EXTENDS Naturals, Sequences, FiniteSets
Sq == INSTANCE SequencesExt
Fs == INSTANCE FiniteSetsExt

CONSTANTS
  Names,  \* host names as they may be spelt, numbered in the order of text
  Lower,  \* each in lower case
  Text    \* the place of each pattern in the order of text

(***************************************************************************)
(* What is in an order, one after the other; some places of a sequence; and *)
(* sequences, one after the other.                                         *)
(***************************************************************************)
Ranked(S, order) ==
  [k \in 1..Cardinality(S) |-> CHOOSE i \in S : Cardinality({j \in S : <<j, i>> \in order}) = k - 1]

Sorted(S) == Ranked(S, {p \in S \X S : p[1] < p[2]})

Picked(s, S) == LET at == Sorted(S) IN [k \in DOMAIN at |-> s[at[k]]]

Joined(ss) ==
  LET places == UNION {{<<i, j>> : j \in DOMAIN ss[i]} : i \in DOMAIN ss}
      at == Ranked(places, {p \in places \X places :
                              p[1][1] < p[2][1] \/ (p[1][1] = p[2][1] /\ p[1][2] < p[2][2])})
  IN [k \in DOMAIN at |-> ss[at[k][1]][at[k][2]]]

(***************************************************************************)
(* A file is the comments at its top and its lines, each with the notes    *)
(* above it; the comments at its end are left out.  A pattern of a line is *)
(* a name, plain or hashed, or a wildcard, which covers every host, and it *)
(* may be negated.                                                         *)
(***************************************************************************)
Patterns == [not : BOOLEAN, kind : {"plain", "hash", "wild"}, name : Names]

Plain(h) == [not |-> FALSE, kind |-> "plain", name |-> h]

\* matchPattern: a hash is compared with that of the name in lower case.
Covers(p, h) ==
  \/ p.kind = "wild"
  \/ p.kind = "hash" /\ p.name = Lower[h]
  \/ p.kind = "plain" /\ Lower[p.name] = Lower[h]

IsHostKey(e) == e.marker = ""

\* A negated pattern rules the line out.
Matches(e, h) ==
  /\ \E p \in Sq!ToSet(e.hosts) : ~p.not /\ Covers(p, h)
  /\ \A p \in Sq!ToSet(e.hosts) : ~(p.not /\ Covers(p, h))

\* names: a wildcard names no host.
NamesHost(p, h) == ~p.not /\ p.kind # "wild" /\ Covers(p, h)

Revoked(f, h, key) ==
  \E i \in DOMAIN f : f[i].marker = "@revoked" /\ f[i].key = key /\ Matches(f[i], h)

Markers == <<"", "@cert-authority", "@revoked">>

\* Render: the lines in the order of the text of their patterns, of their markers
\* and of their types, which are numbered in that order.
TextOf(e) == [i \in DOMAIN e.hosts |-> Text[e.hosts[i]]]
Rank(e) == CHOOSE i \in DOMAIN Markers : Markers[i] = e.marker

Less(s, t) ==
  \E i \in DOMAIN t :
    /\ \A j \in 1..(i - 1) : j \in DOMAIN s /\ s[j] = t[j]
    /\ i \in DOMAIN s => s[i] < t[i]

Before(d, e) ==
  \/ Less(TextOf(d), TextOf(e))
  \/ TextOf(d) = TextOf(e) /\ Rank(d) < Rank(e)
  \/ TextOf(d) = TextOf(e) /\ Rank(d) = Rank(e) /\ d.type < e.type

Render(f) ==
  LET at == Ranked(DOMAIN f, {p \in (DOMAIN f) \X (DOMAIN f) :
                                \/ Before(f[p[1]], f[p[2]])
                                \/ ~Before(f[p[2]], f[p[1]]) /\ p[1] < p[2]})
  IN [k \in DOMAIN at |-> f[at[k]]]

\* Parse: the comments above the first line are those at the top of the file.
Parse(header, f) ==
  IF f = <<>> THEN [header |-> header, lines |-> f]
  ELSE [header |-> header \o f[1].notes, lines |-> [f EXCEPT ![1].notes = <<>>]]

(***************************************************************************)
(* removeAll: a host given again stands where it was given first, and the  *)
(* notes of a line go to the last of its hosts.                            *)
(***************************************************************************)
Same(hosts, i) == {j \in DOMAIN hosts : Lower[hosts[j]] = Lower[hosts[i]]}

FirstPlaces(hosts) == {i \in DOMAIN hosts : i = Fs!Min(Same(hosts, i))}

\* The hosts of the list that a line names.
Hit(e, hosts) ==
  IF IsHostKey(e)
  THEN {i \in FirstPlaces(hosts) : \E p \in Sq!ToSet(e.hosts) : NamesHost(p, hosts[i])}
  ELSE {}

Rest(e, hosts) ==
  Picked(e.hosts, {j \in DOMAIN e.hosts : \A i \in DOMAIN hosts : ~NamesHost(e.hosts[j], hosts[i])})

Goes(e, hosts) == Hit(e, hosts) # {} /\ Rest(e, hosts) = <<>>

\* The notes of a line go to the first of its hosts.
NotesOfFirst(f, hosts) ==
  [i \in DOMAIN hosts |->
     Joined([k \in DOMAIN f |->
       IF Goes(f[k], hosts) /\ i = Fs!Min(Hit(f[k], hosts)) THEN f[k].notes ELSE <<>>])]

NotesOf(f, hosts) ==
  [i \in DOMAIN hosts |->
     Joined([k \in DOMAIN f |->
       IF Goes(f[k], hosts) /\ i = Fs!Max(Hit(f[k], hosts)) THEN f[k].notes ELSE <<>>])]

CountsOf(f, hosts) ==
  [i \in DOMAIN hosts |-> Cardinality({k \in DOMAIN f : i \in Hit(f[k], hosts)})]

\* A removal that takes the whole line of a host, and the others' with it.
RemoveLines(f, hosts) == Picked(f, {k \in DOMAIN f : Hit(f[k], hosts) = {}})

\* What is left of a line that names hosts of the list, among others.
LeftOf(e, hosts) == IF Hit(e, hosts) = {} THEN e ELSE [e EXCEPT !.hosts = Rest(e, hosts)]

RemoveAll(f, hosts) ==
  Picked([k \in DOMAIN f |-> LeftOf(f[k], hosts)], {k \in DOMAIN f : ~Goes(f[k], hosts)})

(***************************************************************************)
(* ReplaceAll: of a host given twice the place given last counts.  A host  *)
(* has one key of a type, and the first carries the notes.                 *)
(***************************************************************************)
KeyLines(h, keys, notes) ==
  [j \in DOMAIN keys |->
     [marker |-> "", hosts |-> <<Plain(h)>>, type |-> keys[j].type, key |-> keys[j].key,
      notes |-> IF j = 1 THEN notes ELSE <<>>]]

\* The notes of a host are those of all the places it was given at.
MergedNotes(f, hosts, i) ==
  LET notes == NotesOf(f, hosts)
  IN Joined([j \in DOMAIN hosts |-> IF j \in Same(hosts, i) THEN notes[j] ELSE <<>>])

NewLines(f, hosts, keys) ==
  [i \in DOMAIN hosts |->
     IF i = Fs!Max(Same(hosts, i))
     THEN KeyLines(hosts[i], keys[hosts[i]], MergedNotes(f, hosts, i)) ELSE <<>>]

ReplaceAll(f, hosts, keys) == RemoveAll(f, hosts) \o Joined(NewLines(f, hosts, keys))

(***************************************************************************)
(* Index: the lines that name a host plainly, and those to be matched.     *)
(***************************************************************************)
Index(f) ==
  [literal |-> [n \in Names |-> {i \in DOMAIN f : \E p \in Sq!ToSet(f[i].hosts) :
                                   ~p.not /\ p.kind = "plain" /\ Lower[p.name] = n}],
   other |-> {i \in DOMAIN f : \E p \in Sq!ToSet(f[i].hosts) : p.not \/ p.kind # "plain"}]

Candidates(x, h) == x.literal[Lower[h]] \cup x.other

IndexFind(f, x, h) == {i \in Candidates(x, h) : IsHostKey(f[i]) /\ Matches(f[i], h)}

IndexRevoked(f, x, h, key) ==
  \E i \in Candidates(x, h) : f[i].marker = "@revoked" /\ f[i].key = key /\ Matches(f[i], h)

-----------------------------------------------------------------------------
(***************************************************************************)
(* One host after another: Add, and what the batches are to do as well.    *)
(***************************************************************************)
\* Add: a line of the host and the type alone is replaced and lends its notes.
Add(f, e) ==
  LET same == {i \in DOMAIN f : /\ IsHostKey(f[i]) /\ f[i].type = e.type
                                /\ Len(f[i].hosts) = 1 /\ NamesHost(f[i].hosts[1], e.hosts[1].name)}
      at == Fs!Min(same)
  IN IF same = {} THEN Append(f, e)
     ELSE [f EXCEPT ![at] = IF e.notes = <<>> THEN [e EXCEPT !.notes = f[at].notes] ELSE e]

\* The lines of one host go, each with its notes or without its name.
RemoveOne(f, h) ==
  LET names(e) == IsHostKey(e) /\ \E p \in Sq!ToSet(e.hosts) : NamesHost(p, h)
      rest(e) == SelectSeq(e.hosts, LAMBDA p : ~NamesHost(p, h))
      gone(e) == names(e) /\ rest(e) = <<>>
      kept == SelectSeq(f, LAMBDA e : ~gone(e))
  IN [file |-> [k \in DOMAIN kept |->
                  IF names(kept[k]) THEN [kept[k] EXCEPT !.hosts = rest(kept[k])] ELSE kept[k]],
      count |-> Cardinality({k \in DOMAIN f : names(f[k])}),
      notes |-> Sq!FlattenSeq([k \in DOMAIN f |-> IF gone(f[k]) THEN f[k].notes ELSE <<>>])]

RemoveOneByOne(f, hosts) ==
  Sq!FoldLeft(LAMBDA acc, h :
      LET one == RemoveOne(acc.file, h)
      IN [file |-> one.file, counts |-> Append(acc.counts, one.count),
          notes |-> Append(acc.notes, one.notes)],
    [file |-> f, counts |-> <<>>, notes |-> <<>>], hosts)

ReplaceOneByOne(f, hosts, keys) ==
  Sq!FoldLeft(LAMBDA acc, h :
      LET one == RemoveOne(acc, h)
      IN Sq!FoldLeft(Add, one.file, KeyLines(h, keys[h], one.notes)),
    f, hosts)
=============================================================================
