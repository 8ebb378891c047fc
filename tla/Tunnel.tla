------------------------------- MODULE Tunnel -------------------------------
(***************************************************************************)
(* One tunnel profile, started, stopped and looked at from several         *)
(* terminals: the lock on its process id file, the file, and the processes *)
(* of this machine.  sshuttle is outside: it writes the file when it goes  *)
(* to the background and removes it when it ends.  A command dies with its *)
(* lock; its sshuttle dies with it only if the command was interrupted.    *)
(***************************************************************************)
EXTENDS Naturals

CONSTANTS
  Terminals,    \* where commands are typed
  Pids,         \* process ids of this machine
  Uses,         \* bound: commands typed at each terminal
  Crashes,      \* bound: signals to commands, and tunnels that die
  Spellings     \* what a profile's options may set, see fixedOption

None == "none"
NoPid == 0
Fixed == {"--daemon", "--pidfile", "--ssh-cmd", "--remote"}

TunnelConstants ==
  /\ None \notin Terminals /\ Pids \subseteq Nat \ {NoPid} /\ Uses \in Nat /\ Crashes \in Nat
  /\ \A o \in Spellings : o.form \in {"long", "short"} /\ o.whole \in BOOLEAN

VARIABLES
  option,       \* the profile's option
  pc, op,       \* of a terminal, where its command is, and which it is
  typed,        \* commands typed at it
  lock,         \* who holds the lock of the file
  file,         \* the process id file
  child,        \* of a terminal, the sshuttle its command waits for
  proc,         \* of a process id, what runs under it
  signalled,    \* history: what a signal went to
  late,         \* history: a process that was slow took the file of another
  left,         \* history: the processes whose command was killed before them
  crashes

vars == <<option, pc, op, typed, lock, file, child, proc, signalled, late, left, crashes>>
mine == <<pc, op, typed, child>>

\* "starting": sshuttle in the foreground; "tunnel": in the background;
\* "lost": in the background, with a process id file of its own choosing.
Kinds == {"free", "starting", "tunnel", "ending", "lost", "other"}

(***************************************************************************)
(* Args.  sshuttle takes the last value of an option, whole, abbreviated   *)
(* or short; clusterctl's own come last, and no profile may set them.      *)
(***************************************************************************)
\* Only the option written out is known.
fixedOptionWhole(o) == o.sets \in Fixed /\ o.whole /\ o.form = "long"

fixedOption(o) == o.sets \in Fixed

Args(o) == ~fixedOption(o)

\* Without --daemon kept from the profile the tunnel is as Start expects it.
Started(o) == IF o.sets \in {"--pidfile", "--daemon"} THEN "lost" ELSE "tunnel"

(***************************************************************************)
(* running: the process the file names is alive and runs with the file.    *)
(***************************************************************************)
runsWith(p) == proc[p] \in {"starting", "tunnel", "ending"}

running == file # NoPid /\ runsWith(file)

Type(c) ==
  /\ pc[c] = "idle" /\ typed[c] < Uses
  /\ typed' = [typed EXCEPT ![c] = @ + 1]
  /\ \E o \in {"start", "stop"} :
       /\ o = "start" => Args(option)
       /\ op' = [op EXCEPT ![c] = o]
  /\ pc' = [pc EXCEPT ![c] = "lock"]
  /\ UNCHANGED <<option, lock, file, child, proc, signalled, late, left, crashes>>

Over(c) == pc' = [pc EXCEPT ![c] = "idle"] /\ lock' = None

TakeLock(c) ==
  /\ pc[c] = "lock" /\ lock = None
  /\ lock' = c /\ pc' = [pc EXCEPT ![c] = op[c]]
  /\ UNCHANGED <<option, op, typed, file, child, proc, signalled, late, left, crashes>>

\* The command goes on without it.
LockTimeoutAnyway(c) ==
  /\ pc[c] = "lock" /\ lock # None
  /\ pc' = [pc EXCEPT ![c] = op[c]]
  /\ UNCHANGED <<option, op, typed, lock, file, child, proc, signalled, late, left, crashes>>

\* fsutil.Lock waits no longer than DefaultLockWait, or than the command.
LockTimeout(c) ==
  /\ pc[c] = "lock" /\ lock # None
  /\ pc' = [pc EXCEPT ![c] = "idle"]
  /\ UNCHANGED <<option, op, typed, lock, file, child, proc, signalled, late, left, crashes>>

(***************************************************************************)
(* Start.                                                                  *)
(***************************************************************************)
AlreadyRunning(c) ==
  /\ pc[c] = "start" /\ running /\ Over(c)
  /\ UNCHANGED <<option, op, typed, file, child, proc, signalled, late, left, crashes>>

removeStale == file' = NoPid

\* Start and Stop alike: the file is looked at before it is removed.
FindsNone(c) ==
  /\ pc[c] \in {"start", "stop"} /\ ~running
  /\ pc' = [pc EXCEPT ![c] = "stale"]
  /\ UNCHANGED <<option, op, typed, lock, file, child, proc, signalled, late, left, crashes>>

Start(c) ==
  /\ pc[c] = "stale" /\ op[c] = "start" /\ removeStale
  /\ \E p \in Pids :
       /\ proc[p] = "free"
       /\ proc' = [proc EXCEPT ![p] = "starting"]
       /\ child' = [child EXCEPT ![c] = p]
  /\ pc' = [pc EXCEPT ![c] = "wait"]
  /\ UNCHANGED <<option, op, typed, lock, signalled, late, left, crashes>>

\* sshuttle is in the background and has written its file, or it has failed.
Daemonized(c) ==
  /\ pc[c] = "wait" /\ proc[child[c]] = "starting"
  /\ \/ /\ proc' = [proc EXCEPT ![child[c]] = Started(option)]
        /\ file' = IF Started(option) = "tunnel" THEN child[c] ELSE file
     \/ /\ proc' = [proc EXCEPT ![child[c]] = "free"] /\ UNCHANGED file
  /\ pc' = [pc EXCEPT ![c] = "started"]
  /\ UNCHANGED <<option, op, typed, lock, child, signalled, late, left, crashes>>

StartOver(c) ==
  /\ pc[c] = "started" /\ Over(c) /\ child' = [child EXCEPT ![c] = NoPid]
  /\ UNCHANGED <<option, op, typed, file, proc, signalled, late, left, crashes>>

(***************************************************************************)
(* Stop.                                                                   *)
(***************************************************************************)
NotRunning(c) ==
  /\ pc[c] = "stale" /\ op[c] = "stop" /\ removeStale /\ Over(c)
  /\ UNCHANGED <<option, op, typed, child, proc, signalled, late, left, crashes>>

Signal(c) ==
  /\ pc[c] = "stop" /\ running
  /\ signalled' = signalled \cup {proc[file]}
  /\ proc' = [proc EXCEPT ![file] = "ending"]
  /\ pc' = [pc EXCEPT ![c] = "signalled"]
  /\ UNCHANGED <<option, op, typed, lock, file, child, late, left, crashes>>

Stopped(c) ==
  /\ pc[c] = "signalled" /\ removeStale /\ Over(c)
  /\ UNCHANGED <<option, op, typed, child, proc, signalled, late, left, crashes>>

(***************************************************************************)
(* Outside.                                                                *)
(***************************************************************************)
\* The first SIGINT or SIGTERM cancels the context: no sshuttle is started,
\* and one in the foreground is killed.
Interrupted(c) ==
  /\ \/ pc[c] = "stale" /\ op[c] = "start" /\ removeStale /\ UNCHANGED proc
     \/ pc[c] = "wait" /\ proc' = [proc EXCEPT ![child[c]] = "free"] /\ UNCHANGED file
  /\ crashes < Crashes /\ crashes' = crashes + 1
  /\ Over(c) /\ child' = [child EXCEPT ![c] = NoPid]
  /\ UNCHANGED <<option, op, typed, signalled, late, left>>

\* A second one, or a SIGKILL, ends the command and gives its lock free; a
\* sshuttle in the foreground goes on without it.
Killed(c) ==
  /\ pc[c] \notin {"idle", "lock"} /\ crashes < Crashes /\ crashes' = crashes + 1
  /\ Over(c) /\ child' = [child EXCEPT ![c] = NoPid]
  /\ left' = IF pc[c] = "wait" THEN left \cup {child[c]} ELSE left
  /\ UNCHANGED <<option, op, typed, file, proc, signalled, late>>

\* A process writes or removes the file, whatever it names by then.
Takes(p) == late' = (late \/ file \notin {p, NoPid})

\* A sshuttle that was left in the foreground comes to the background, or fails.
DaemonizedAlone(p) ==
  /\ p \in left /\ proc[p] = "starting"
  /\ \/ /\ proc' = [proc EXCEPT ![p] = Started(option)] /\ Takes(p)
        /\ file' = IF Started(option) = "tunnel" THEN p ELSE file
        /\ UNCHANGED left
     \/ /\ proc' = [proc EXCEPT ![p] = "free"] /\ left' = left \ {p}
        /\ UNCHANGED <<file, late>>
  /\ UNCHANGED <<option, mine, lock, signalled, crashes>>

\* A process that was signalled takes its time, and removes the file itself
\* when it ends.
Ends(p) ==
  /\ proc[p] = "ending"
  /\ proc' = [proc EXCEPT ![p] = "free"]
  /\ file' = NoPid /\ Takes(p) /\ left' = left \ {p}
  /\ UNCHANGED <<option, mine, lock, signalled, crashes>>

\* A tunnel dies and leaves its file; the number may become another's.
Crash(p) ==
  /\ proc[p] \in {"tunnel", "lost"} /\ crashes < Crashes /\ crashes' = crashes + 1
  /\ \E k \in {"free", "other"} : proc' = [proc EXCEPT ![p] = k]
  /\ left' = left \ {p}
  /\ UNCHANGED <<option, mine, lock, file, signalled, late>>

Init ==
  /\ option \in Spellings
  /\ pc = [c \in Terminals |-> "idle"] /\ op = [c \in Terminals |-> None]
  /\ typed = [c \in Terminals |-> 0] /\ child = [c \in Terminals |-> NoPid]
  /\ lock = None /\ file = NoPid
  /\ proc = [p \in Pids |-> "free"] /\ signalled = {} /\ late = FALSE
  /\ left = {} /\ crashes = 0

Command(c) ==
  \/ TakeLock(c) \/ LockTimeout(c) \/ AlreadyRunning(c) \/ FindsNone(c) \/ Start(c)
  \/ Daemonized(c) \/ StartOver(c) \/ NotRunning(c) \/ Signal(c) \/ Stopped(c)

Next ==
  \/ \E c \in Terminals : Type(c) \/ Command(c) \/ Interrupted(c) \/ Killed(c)
  \/ \E p \in Pids : DaemonizedAlone(p) \/ Ends(p) \/ Crash(p)

Spec == Init /\ [][Next]_vars

(***************************************************************************)
(* Properties.                                                             *)
(***************************************************************************)
TypeOK ==
  /\ pc \in [Terminals -> {"idle", "lock", "start", "stop", "stale", "wait", "started", "signalled"}]
  /\ op \in [Terminals -> {None, "start", "stop"}]
  /\ lock \in Terminals \cup {None} /\ file \in Pids \cup {NoPid}
  /\ child \in [Terminals -> Pids \cup {NoPid}] /\ proc \in [Pids -> Kinds]
  /\ left \subseteq Pids
  /\ \A c \in Terminals : pc[c] \notin {"idle", "lock"} <=> lock = c

Up == {p \in Pids : proc[p] \in {"starting", "tunnel", "lost"}}

\* From whatever terminals a tunnel is started and stopped, one is up at a
\* time.  Two things are excepted, for the code has no hold on them: a process
\* whose command was killed while it was in the foreground, and what comes of
\* one that was slow and took the file of the next.
OneTunnel == ~late => \A p, q \in Up \ left : p = q

\* A tunnel that is up can be stopped: the file names it, or the start that
\* made it still holds the lock.  What is left behind changes nothing in
\* this for the tunnels started after it, until it takes their file.
UpIsNamed == ~late => \A p \in Up \ left : file = p \/ \E c \in Terminals : child[c] = p

\* Only this profile's tunnel is signalled, whatever has become of the
\* process the file names.
OnlyTunnelsAreSignalled == signalled \subseteq {"tunnel", "ending"}

\* A tunnel that is up is the only one, can be stopped, and is what a stop ends,
\* from however many terminals it is started and stopped.
TunnelsAreWhole == OneTunnel /\ UpIsNamed /\ OnlyTunnelsAreSignalled

\* "Starting one that is already running is reported rather than producing a
\* second tunnel for the same networks" (tunnel.go:332), whatever ends late, as
\* long as no command is signalled and no tunnel dies.
NeverTwoTunnels == crashes = 0 => \A p, q \in Up : p = q

(***************************************************************************)
(* What holds of the commands, the file and the processes in every state,  *)
(* and the properties rest on.                                             *)
(***************************************************************************)
\* The profile of a command that starts one, and of the process it started,
\* sets none of clusterctl's options.
OptionInv ==
  /\ \A c \in Terminals : pc[c] # "idle" /\ op[c] = "start" => Args(option)
  /\ \A p \in Pids : proc[p] = "starting" => Args(option)

\* A command is where its verb brings it.
VerbInv ==
  \A c \in Terminals : /\ pc[c] \in {"start", "wait", "started"} => op[c] = "start"
                       /\ pc[c] # "idle" => op[c] \in {"start", "stop"}

\* What starts is the child of the command that waits for it, or was left.
ChildInv ==
  /\ \A c \in Terminals : pc[c] \in {"wait", "started"} <=> child[c] # NoPid
  /\ \A c \in Terminals : pc[c] = "wait" => proc[child[c]] = "starting" /\ child[c] \notin left
  /\ \A p \in Pids : proc[p] = "starting" =>
       p \in left \/ \E c \in Terminals : pc[c] = "wait" /\ child[c] = p

\* What was left is there.
LeftInv == \A p \in left : proc[p] \in {"starting", "tunnel", "lost", "ending"}

\* What is in the background is what the file names, and is not there while
\* another starts or once it was told to end; what starts is not named.
FileInv ==
  /\ \A p \in Pids : proc[p] # "lost" /\ (proc[p] = "starting" => file # p)
  /\ ~late => \A p \in Pids \ left : proc[p] = "tunnel" => file = p
  /\ ~late => \A c \in Terminals : pc[c] \in {"stale", "wait", "signalled"} =>
       \A p \in Pids \ left : proc[p] # "tunnel"

Inv ==
  /\ TypeOK /\ option \in Spellings /\ signalled \subseteq {"tunnel", "ending"}
  /\ OptionInv /\ VerbInv /\ ChildInv /\ LeftInv /\ FileInv
=============================================================================
