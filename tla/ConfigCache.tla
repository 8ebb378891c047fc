----------------------------- MODULE ConfigCache -----------------------------
(***************************************************************************)
(* The configuration the MCP server keeps between calls, and the           *)
(* inventories built from it.  Every call finds the files, looks at each   *)
(* of them and reads them again unless all are as they were; calls run at  *)
(* once, and an editor changes the files at any time.  A version of a file *)
(* is what a stat tells apart: a change that leaves inode, size and time   *)
(* as they were is taken for none, here as in the code.                    *)
(***************************************************************************)
EXTENDS Naturals, FiniteSets

CONSTANTS
  Files,
  Named,        \* files given by name, which have to exist
  Calls,        \* the calls of the server, each made once
  ClusterOf,    \* of a call, the cluster of its context
  Edits         \* bound: changes of the files

Kinds == {"good", "unreadable", "unbuildable", "gone"}
Versions == [n: 0..Edits, kind: Kinds]
Nobody == "nobody"
NoBundle == [by |-> Nobody, text |-> <<>>]

ConfigCacheConstants == Named \subseteq Files /\ Edits \in Nat /\ Nobody \notin Calls

VARIABLES
  disk,         \* of a file, its version
  mu,           \* the call that holds the mutex
  stamps, bundle, inventories,   \* the cache
  pc,
  found,        \* of a call, the files it found
  looked,       \* of a call, the versions it has seen of the files
  text,         \* of a call, the versions it has read
  got,          \* of a call, its bundle: the one that read it, and what it read
  answer,       \* of a call, its inventory: the bundle it is built from, and the cluster
  was           \* history: of a call, every disk there was since it came

vars == <<disk, mu, stamps, bundle, inventories, pc, found, looked, text, got, answer, was>>
cache == <<stamps, bundle, inventories>>

Empty == [f \in {} |-> 0]
Put(h, f, v) == [g \in DOMAIN h \cup {f} |-> IF g = f THEN v ELSE h[g]]
Go(c, at) == pc' = [pc EXCEPT ![c] = at]
Unlock == mu' = Nobody

Came(c) == pc[c] \notin {"idle", "done", "refused"}

\* The editor; a file that is rewritten in place is edited twice.
Edit ==
  \E f \in Files, kind \in Kinds :
    /\ disk[f].n < Edits /\ \A g \in Files : g # f => disk[f].n + disk[g].n < Edits
    /\ disk' = [disk EXCEPT ![f] = [n |-> @.n + 1, kind |-> kind]]
    /\ was' = [c \in Calls |-> IF Came(c) THEN was[c] \cup {disk'} ELSE was[c]]
    /\ UNCHANGED <<mu, cache, pc, found, looked, text, got, answer>>

There == {f \in Files : disk[f].kind # "gone"}

\* expandEntries: a directory gives the files that are in it.
Find(c) ==
  /\ pc[c] = "idle" /\ was' = [was EXCEPT ![c] = {disk}]
  /\ IF Named \subseteq There /\ There # {}
       THEN Go(c, "load") /\ found' = [found EXCEPT ![c] = There]
       ELSE Go(c, "refused") /\ UNCHANGED found
  /\ UNCHANGED <<disk, mu, cache, looked, text, got, answer>>

Enter(c) ==
  /\ pc[c] = "load" /\ mu = Nobody /\ mu' = c /\ Go(c, "look")
  /\ UNCHANGED <<disk, cache, found, looked, text, got, answer, was>>

\* A file that cannot be looked at: nothing is kept, and Load says what is
\* wrong, or reads the file, if it is there again by then.
Look(c) ==
  /\ pc[c] = "look"
  /\ \E f \in found[c] \ DOMAIN looked[c] :
       IF disk[f].kind # "gone"
         THEN looked' = [looked EXCEPT ![c] = Put(@, f, disk[f])] /\ UNCHANGED <<pc, cache>>
         ELSE bundle' = NoBundle /\ Go(c, "read_unkept") /\ UNCHANGED <<looked, stamps, inventories>>
  /\ UNCHANGED <<disk, mu, found, text, got, answer, was>>

Compare(c) ==
  /\ pc[c] = "look" /\ DOMAIN looked[c] = found[c]
  /\ IF bundle # NoBundle /\ stamps = looked[c]
       THEN got' = [got EXCEPT ![c] = bundle] /\ Unlock /\ Go(c, "inventory")
       ELSE Go(c, "read") /\ UNCHANGED <<got, mu>>
  /\ UNCHANGED <<disk, cache, found, looked, text, answer, was>>

Reading == {"read", "read_unkept"}

Read(c) ==
  /\ pc[c] \in Reading
  /\ \E f \in found[c] \ DOMAIN text[c] :
       IF disk[f].kind \notin {"gone", "unreadable"}
         THEN text' = [text EXCEPT ![c] = Put(@, f, disk[f])] /\ UNCHANGED <<mu, pc, bundle>>
         ELSE bundle' = NoBundle /\ Unlock /\ Go(c, "refused") /\ UNCHANGED text
  /\ UNCHANGED <<disk, stamps, inventories, found, looked, got, answer, was>>

\* The files are looked at once they are read.
StampedAfter(c) == [f \in found[c] |-> disk[f]]

\* A file is looked at before it is read.
Stamped(c) == looked[c]

Keep(c) ==
  /\ pc[c] \in Reading /\ DOMAIN text[c] = found[c]
  /\ LET b == [by |-> c, text |-> text[c]] IN
       /\ got' = [got EXCEPT ![c] = b]
       /\ IF pc[c] = "read" THEN stamps' = Stamped(c) /\ bundle' = b /\ inventories' = Empty
                            ELSE UNCHANGED cache
  /\ Unlock /\ Go(c, "inventory")
  /\ UNCHANGED <<disk, found, looked, text, answer, was>>

Buildable(b) == \A f \in DOMAIN b.text : b.text[f].kind = "good"
Built(c) == [of |-> got[c], cluster |-> ClusterOf[c]]

\* Another call may have read the configuration again meanwhile.
KeptFor(c) == bundle = got[c] /\ ClusterOf[c] \in DOMAIN inventories

\* Cache.inventory: under the mutex, and from the bundle alone.
Inventory(c) ==
  /\ pc[c] = "inventory" /\ mu = Nobody
  /\ IF KeptFor(c) THEN Go(c, "done") /\ answer' = [answer EXCEPT ![c] = inventories[ClusterOf[c]]]
                        /\ UNCHANGED cache
     ELSE IF ~Buildable(got[c]) THEN Go(c, "refused") /\ UNCHANGED <<answer, cache>>
     ELSE /\ Go(c, "done") /\ answer' = [answer EXCEPT ![c] = Built(c)]
          /\ IF bundle = got[c] THEN inventories' = Put(inventories, ClusterOf[c], Built(c))
                                ELSE UNCHANGED inventories
          /\ UNCHANGED <<stamps, bundle>>
  /\ UNCHANGED <<disk, mu, found, looked, text, got, was>>

Init ==
  /\ disk = [f \in Files |-> [n |-> 0, kind |-> "good"]] /\ mu = Nobody
  /\ stamps = Empty /\ bundle = NoBundle /\ inventories = Empty
  /\ pc = [c \in Calls |-> "idle"] /\ found = [c \in Calls |-> {}]
  /\ looked = [c \in Calls |-> Empty] /\ text = [c \in Calls |-> Empty]
  /\ got = [c \in Calls |-> NoBundle] /\ answer = [c \in Calls |-> [of |-> NoBundle, cluster |-> Nobody]]
  /\ was = [c \in Calls |-> {}]

Over == \A c \in Calls : pc[c] \in {"done", "refused"}
Stay == Over /\ UNCHANGED vars

Next ==
  \/ Edit
  \/ \E c \in Calls : Find(c) \/ Enter(c) \/ Look(c) \/ Compare(c) \/ Read(c) \/ Keep(c) \/ Inventory(c)
  \/ Stay

Spec == Init /\ [][Next]_vars

\* Types, and the mutex: only its holder looks, reads and keeps.
TypeOK ==
  /\ disk \in [Files -> Versions] /\ mu \in Calls \cup {Nobody}
  /\ pc \in [Calls -> {"idle", "load", "look", "inventory", "done", "refused"} \cup Reading]
  /\ found \in [Calls -> SUBSET Files]
  /\ \A c \in Calls : /\ mu = c <=> pc[c] \in {"look"} \cup Reading
                      /\ DOMAIN looked[c] \subseteq found[c] /\ DOMAIN text[c] \subseteq found[c]

\* The versions h of files are those there were at one moment since c came.
AtOneMoment(c, h) == \E d \in was[c] : \A f \in DOMAIN h : h[f] = d[f]

\* A call that is answered works with every file as it was at some moment
\* since it came, and never with one as it was before, though it may be served
\* what an earlier call read; one that is served has all of them as they were
\* at one moment, so that a call that was read across two edits, some files
\* as before them and some as after, leaves its mixture to no other; and its
\* inventory is the one of its own cluster, built from that very
\* configuration.  (Cache.load and Cache.inventory in app/cache.go)
CallSeesItsFiles ==
  \A c \in Calls : pc[c] = "done" =>
    /\ DOMAIN got[c].text = found[c] /\ answer[c] = Built(c) /\ Buildable(got[c])
    /\ \A f \in found[c] : \E d \in was[c] : got[c].text[f] = d[f]
    /\ got[c].by # c => AtOneMoment(c, got[c].text)

(***************************************************************************)
(* The inductive invariant.                                                *)
(***************************************************************************)
AllVersions(h) == \A f \in DOMAIN h : h[f] \in Versions
NotOlder(h, g) ==
  \A f \in DOMAIN h : f \in DOMAIN g => h[f] = g[f] \/ h[f].n > g[f].n

Values ==
  /\ DOMAIN stamps \subseteq Files /\ DOMAIN bundle.text \subseteq Files
  /\ AllVersions(stamps) /\ AllVersions(bundle.text)
  /\ was \in [Calls -> SUBSET [Files -> Versions]]
  /\ DOMAIN looked = Calls /\ DOMAIN text = Calls /\ DOMAIN got = Calls /\ DOMAIN answer = Calls
  /\ \A c \in Calls : AllVersions(looked[c]) /\ AllVersions(text[c]) /\ AllVersions(got[c].text)

\* A file was looked at before it was read, and neither before the call came.
SeenInv ==
  \A c \in Calls :
    /\ pc[c] \in {"idle", "load"} => DOMAIN looked[c] = {}
    /\ pc[c] \in {"idle", "load", "look"} => DOMAIN text[c] = {}
    /\ pc[c] = "read" => DOMAIN looked[c] = found[c]
    /\ Came(c) => disk \in was[c]
    /\ \A d \in was[c] : NotOlder(disk, d)
    /\ NotOlder(disk, looked[c]) /\ NotOlder(text[c], looked[c]) /\ NotOlder(disk, text[c])
    /\ \A f \in DOMAIN text[c] : \E d \in was[c] : text[c][f] = d[f]

\* What is kept is no older than its stamps, and its inventories are its own;
\* a call that looks at the files has been there at a moment between the
\* reading of what is kept and its first look.
KeptInv ==
  bundle # NoBundle =>
    /\ DOMAIN bundle.text = DOMAIN stamps /\ NotOlder(bundle.text, stamps)
    /\ NotOlder(disk, bundle.text)
    /\ \A c \in Calls : pc[c] = "look" =>
         \E d \in was[c] : NotOlder(d, bundle.text) /\ NotOlder(looked[c], d)
    /\ \A k \in DOMAIN inventories : inventories[k] = [of |-> bundle, cluster |-> k] /\ Buildable(bundle)

GotInv ==
  \A c \in Calls :
    /\ pc[c] \in {"inventory", "done"} =>
         /\ got[c] # NoBundle /\ DOMAIN got[c].text = found[c]
         /\ \A f \in found[c] : \E d \in was[c] : got[c].text[f] = d[f]
         /\ got[c].by # c => AtOneMoment(c, got[c].text)
    /\ pc[c] = "done" => answer[c] = Built(c) /\ Buildable(got[c])

Inv == TypeOK /\ Values /\ SeenInv /\ KeptInv /\ GotInv
=============================================================================
