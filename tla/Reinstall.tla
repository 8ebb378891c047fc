------------------------------ MODULE Reinstall ------------------------------
(***************************************************************************)
(* "clusterctl provision reinstall", from the moment the question has been *)
(* answered: reinstallPlan.run and reinstallPlan.fail.                     *)
(*                                                                         *)
(* The command writes one boot link per node on the PXE host, in one       *)
(* script; asks every service processor for a network boot, through the    *)
(* bounded fan-out; forgets the host keys on this machine; and resets the  *)
(* machines, through the fan-out again.  When a step fails, the nodes that *)
(* were not reset are disarmed: a fan-out clears the boot overrides and a  *)
(* second script removes the links.                                        *)
(*                                                                         *)
(* The command shares nothing with what it changes but messages.  The      *)
(* model therefore keeps the two apart: what the command believes          *)
(* (bootLink, bootOnce, reset) and what is so (link, override, machine).   *)
(* A request can be lost before or after it was carried out, an ssh        *)
(* session can end while its script goes on, the user can interrupt at any *)
(* point, and a machine can restart by itself.                             *)
(***************************************************************************)
EXTENDS Naturals, FiniteSets

CONSTANTS
  Nodes,        \* the nodes of the plan
  Limit,        \* requests under way at once: redfishLimit
  Persistent,   \* nodes whose boot link is persistent: its name has the suffix
  NetFirst,     \* nodes whose boot order tries the network without an override
  Restless,     \* nodes that may restart by themselves
  Late          \* TRUE: what the command stopped waiting for may still happen

ASSUME ReinstallAssumption ==
  /\ IsFiniteSet(Nodes) /\ Nodes # {}
  /\ Limit \in Nat \ {0}
  /\ Persistent \subseteq Nodes
  /\ NetFirst \subseteq Nodes
  /\ Restless \subseteq Nodes
  /\ Late \in BOOLEAN

VARIABLES
  opt,        \* --keep-host-keys and --no-reset
  pc,         \* the step the command is in
  cancelled,  \* the user interrupted: the context has ended
  failed,     \* run returned an error
  bootLink,   \* reinstallNode.BootLink
  bootOnce,   \* reinstallNode.BootOnce
  reset,      \* reinstallNode.Reset
  req,        \* the request of each node in the fan-out under way
  write,      \* the script that writes the boot links
  remove,     \* the script that removes them
  link,       \* the node's boot link of this command is on the PXE host
  override,   \* the node's processor holds the one-time network boot
  machine,    \* what the machine does
  keys,       \* the host keys are in the file
  adrift,     \* requests given up that a processor may still carry out
  late        \* history: changes made after the command stopped waiting

command == <<opt, pc, cancelled, failed, bootLink, bootOnce, reset>>
world == <<link, override, machine, keys, adrift, late>>
vars == <<opt, pc, cancelled, failed, bootLink, bootOnce, reset,
          req, write, remove, link, override, machine, keys, adrift, late>>

(***************************************************************************)
(* What the command records.                                               *)
(***************************************************************************)
LinkStates == {"", "set", "failed", "unknown", "removed"}
OnceStates == {"", "set", "failed", "not sent", "unreachable", "cleared"}
ResetStates == {"", "sent", "failed", "not sent", "unreachable"}
Ended == {"ok", "failed", "not sent", "unreachable"}
Requests == {"idle", "queued", "flying", "carried"} \cup Ended
Steps == {"links", "once", "keys", "reset", "clear", "unlink", "done"}
FanOuts == {"once", "reset", "clear"}

Linked(bl) == bl \in {"set", "unknown"}

\* A failed request taken for one that changed nothing.
OverriddenSet(bo) == bo = "set"

Overridden(bo) == bo \in {"set", "failed"}

\* The answer recorded in place of what it did.
StepOutcomeRaw(r, done) == r

StepOutcome(r, done) == IF r = "ok" THEN done ELSE r

State(n) ==
  IF reset[n] = "sent" THEN "reinstalling"
  ELSE IF Linked(bootLink[n]) \/ Overridden(bootOnce[n]) THEN "armed"
  ELSE IF bootLink[n] = "removed" \/ bootOnce[n] = "cleared" THEN "disarmed"
  ELSE "unchanged"

(***************************************************************************)
(* A link script.  It is asked for, runs over its records and says one     *)
(* line for each; once its session has ended it is over or, adrift, goes   *)
(* on without a reader.                                                    *)
(***************************************************************************)
Scripts == [at: {"asked", "running", "adrift", "over"},
            todo: SUBSET Nodes, ok: SUBSET Nodes, fail: SUBSET Nodes]

Asked(T) == [at |-> "asked", todo |-> T, ok |-> {}, fail |-> {}]

Said(s, n, good) ==
  [s EXCEPT !.todo = @ \ {n},
            !.ok = IF good THEN @ \cup {n} ELSE @,
            !.fail = IF good THEN @ ELSE @ \cup {n}]

\* The session ends and the command has read the lines for okSeen and
\* failSeen: all of them when the script ended, any of them when it did not.
SessionEnds(s, t, okSeen, failSeen) ==
  /\ okSeen \subseteq s.ok
  /\ failSeen \subseteq s.fail
  /\ \/ /\ s.at = "running" /\ s.todo = {}
        /\ okSeen = s.ok /\ failSeen = s.fail
        /\ t = [s EXCEPT !.at = "over"]
     \/ /\ s.at \in {"asked", "running"}
        /\ t = [s EXCEPT !.at = "over"]
     \/ /\ s.at = "running" /\ Late
        /\ t = [s EXCEPT !.at = "adrift"]

LinkResults(okSeen, failSeen, done) ==
  [n \in Nodes |-> IF n \in okSeen THEN done
                   ELSE IF n \in failSeen THEN "failed" ELSE "unknown"]

(***************************************************************************)
(* The steps of the command.                                               *)
(***************************************************************************)
FanOut(T) == req' = [n \in Nodes |-> IF n \in T THEN "queued" ELSE "idle"]

\* fail: the nodes of left are disarmed, the overrides before the links, and
\* a part with nothing to undo is left out.
Disarm(left, bl, bo) ==
  LET overridden == {n \in left : Overridden(bo[n])}
      linked == {n \in left : Linked(bl[n])}
  IN /\ failed' = TRUE
     /\ FanOut(overridden)
     /\ remove' = Asked(linked)
     /\ pc' = IF overridden # {} THEN "clear"
              ELSE IF linked # {} THEN "unlink" ELSE "done"

Init ==
  /\ opt \in [keepKeys: BOOLEAN, noReset: BOOLEAN]
  /\ pc = "links"
  /\ cancelled = FALSE
  /\ failed = FALSE
  /\ bootLink = [n \in Nodes |-> ""]
  /\ bootOnce = [n \in Nodes |-> ""]
  /\ reset = [n \in Nodes |-> ""]
  /\ req = [n \in Nodes |-> "idle"]
  /\ write = Asked(Nodes)
  /\ remove = Asked({})
  /\ link = [n \in Nodes |-> FALSE]
  /\ override = [n \in Nodes |-> FALSE]
  /\ machine = [n \in Nodes |-> "old"]
  /\ keys = TRUE
  /\ adrift = {}
  /\ late = {}

Interrupt ==
  /\ pc # "done" /\ ~cancelled
  /\ cancelled' = TRUE
  /\ UNCHANGED <<opt, pc, failed, bootLink, bootOnce, reset, req, write, remove>>
  /\ UNCHANGED world

\* ssh starts the script only in a context that has not ended.
WriteStart ==
  /\ pc = "links" /\ write.at = "asked" /\ ~cancelled
  /\ write' = [write EXCEPT !.at = "running"]
  /\ UNCHANGED <<req, remove>> /\ UNCHANGED command /\ UNCHANGED world

\* bootlink: ln -sfn, then a line that says what became of it.
WriteRecord(n, good) ==
  /\ write.at \in {"running", "adrift"} /\ n \in write.todo
  /\ write' = Said(write, n, good)
  /\ link' = IF good THEN [link EXCEPT ![n] = TRUE] ELSE link
  /\ late' = IF good /\ write.at = "adrift" THEN late \cup {<<n, "link">>} ELSE late
  /\ UNCHANGED <<req, remove, override, machine, keys, adrift>>
  /\ UNCHANGED command

\* run reads the lines of the script that arrived, and goes on only when every
\* link was reported as set.
WriteRead(okSeen, failSeen) ==
  /\ pc = "links"
  /\ SessionEnds(write, write', okSeen, failSeen)
  /\ bootLink' = LinkResults(okSeen, failSeen, "set")
  /\ IF okSeen = Nodes
     THEN /\ pc' = "once" /\ FanOut(Nodes)
          /\ UNCHANGED <<failed, remove>>
     ELSE Disarm(Nodes, bootLink', bootOnce)
  /\ UNCHANGED <<opt, cancelled, bootOnce, reset>> /\ UNCHANGED world

(***************************************************************************)
(* The fan-out: sendToBMCs, redfishEach and the pool under it.  At most    *)
(* Limit requests are under way; once the command is interrupted the rest  *)
(* is not sent, and what is under way is still answered or given up.       *)
(***************************************************************************)
UnderWay == {n \in Nodes : req[n] \in {"flying", "carried"}}

Send(n) ==
  /\ pc \in FanOuts /\ req[n] = "queued" /\ ~cancelled
  /\ Cardinality(UnderWay) < Limit
  /\ req' = [req EXCEPT ![n] = "flying"]
  /\ UNCHANGED <<write, remove>> /\ UNCHANGED command /\ UNCHANGED world

NotSent(n) ==
  /\ pc \in FanOuts /\ req[n] = "queued" /\ cancelled
  /\ req' = [req EXCEPT ![n] = "not sent"]
  /\ UNCHANGED <<write, remove>> /\ UNCHANGED command /\ UNCHANGED world

\* What a processor does with a request: SetBootOverride, ClearBootOverride
\* and Reset with ForceRestart.
CarriedOut(n, op) ==
  /\ override' = IF op = "reset" THEN override
                 ELSE [override EXCEPT ![n] = op = "once"]
  /\ machine' = IF op = "reset" THEN [machine EXCEPT ![n] = "booting"] ELSE machine

Carry(n) ==
  /\ pc \in FanOuts /\ req[n] = "flying"
  /\ req' = [req EXCEPT ![n] = "carried"]
  /\ CarriedOut(n, pc)
  /\ UNCHANGED <<write, remove, link, keys, adrift, late>> /\ UNCHANGED command

Answer(n) ==
  /\ pc \in FanOuts /\ req[n] = "carried"
  /\ req' = [req EXCEPT ![n] = "ok"]
  /\ UNCHANGED <<write, remove>> /\ UNCHANGED command /\ UNCHANGED world

\* The connection was never made, or the certificate was not the recorded one.
Unreachable(n) ==
  /\ pc \in FanOuts /\ req[n] = "flying"
  /\ req' = [req EXCEPT ![n] = "unreachable"]
  /\ UNCHANGED <<write, remove>> /\ UNCHANGED command /\ UNCHANGED world

\* Any other error: the processor refused the request, or nothing was heard.
Fails(n) ==
  /\ pc \in FanOuts /\ req[n] \in {"flying", "carried"}
  /\ req' = [req EXCEPT ![n] = "failed"]
  /\ \/ adrift' = adrift
     \/ Late /\ req[n] = "flying" /\ adrift' = adrift \cup {<<n, pc>>}
  /\ UNCHANGED <<write, remove, link, override, machine, keys, late>>
  /\ UNCHANGED command

\* The fan-out has ended on the nodes it was given.
FanOutOver(T) == \A n \in T : req[n] \in Ended

\* A step that goes on with the nodes it could not arm.
OnceOverGoesOn ==
  /\ pc = "once" /\ FanOutOver(Nodes)
  /\ bootOnce' = [n \in Nodes |-> StepOutcome(req[n], "set")]
  /\ IF ~opt.keepKeys THEN pc' = "keys" /\ FanOut({})
     ELSE IF opt.noReset THEN pc' = "done" /\ FanOut({})
     ELSE pc' = "reset" /\ FanOut(Nodes)
  /\ UNCHANGED <<opt, cancelled, failed, bootLink, reset, write, remove>>
  /\ UNCHANGED world

OnceOver ==
  /\ pc = "once" /\ FanOutOver(Nodes)
  /\ bootOnce' = [n \in Nodes |-> StepOutcome(req[n], "set")]
  /\ IF \A n \in Nodes : req[n] = "ok"
     THEN /\ IF ~opt.keepKeys THEN pc' = "keys" /\ FanOut({})
             ELSE IF opt.noReset THEN pc' = "done" /\ FanOut({})
             ELSE pc' = "reset" /\ FanOut(Nodes)
          /\ UNCHANGED <<failed, remove>>
     ELSE Disarm(Nodes, bootLink, bootOnce')
  /\ UNCHANGED <<opt, cancelled, bootLink, reset, write>> /\ UNCHANGED world

\* hostkeys.Modify rewrites the file under its lock, or leaves it as it was.
Forget ==
  /\ pc = "keys"
  /\ keys' = FALSE
  /\ IF opt.noReset THEN pc' = "done" /\ FanOut({}) ELSE pc' = "reset" /\ FanOut(Nodes)
  /\ UNCHANGED <<opt, cancelled, failed, bootLink, bootOnce, reset, write, remove>>
  /\ UNCHANGED <<link, override, machine, adrift, late>>

ForgetFails ==
  /\ pc = "keys"
  /\ Disarm(Nodes, bootLink, bootOnce)
  /\ UNCHANGED <<opt, cancelled, bootLink, bootOnce, reset, write>>
  /\ UNCHANGED world

\* A failed reset that disarms every node.
ResetOverAll ==
  /\ pc = "reset" /\ FanOutOver(Nodes)
  /\ reset' = [n \in Nodes |-> StepOutcome(req[n], "sent")]
  /\ IF \A n \in Nodes : req[n] = "ok"
     THEN pc' = "done" /\ FanOut({}) /\ UNCHANGED <<failed, remove>>
     ELSE Disarm(Nodes, bootLink, bootOnce)
  /\ UNCHANGED <<opt, cancelled, bootLink, bootOnce, write>> /\ UNCHANGED world

ResetOver ==
  /\ pc = "reset" /\ FanOutOver(Nodes)
  /\ reset' = [n \in Nodes |-> StepOutcome(req[n], "sent")]
  /\ IF \A n \in Nodes : req[n] = "ok"
     THEN pc' = "done" /\ FanOut({}) /\ UNCHANGED <<failed, remove>>
     ELSE Disarm({n \in Nodes : req[n] # "ok"}, bootLink, bootOnce)
  /\ UNCHANGED <<opt, cancelled, bootLink, bootOnce, write>> /\ UNCHANGED world

ClearOver ==
  /\ pc = "clear" /\ FanOutOver({n \in Nodes : req[n] # "idle"})
  /\ bootOnce' = [n \in Nodes |-> IF req[n] = "ok" THEN "cleared" ELSE bootOnce[n]]
  /\ pc' = IF remove.todo # {} THEN "unlink" ELSE "done"
  /\ FanOut({})
  /\ UNCHANGED <<opt, cancelled, failed, bootLink, reset, write, remove>>
  /\ UNCHANGED world

RemoveStart ==
  /\ pc = "unlink" /\ remove.at = "asked" /\ ~cancelled
  /\ remove' = [remove EXCEPT !.at = "running"]
  /\ UNCHANGED <<req, write>> /\ UNCHANGED command /\ UNCHANGED world

\* bootunlink: rm -f of the one-shot and the persistent link.  One that fails
\* may have removed the link this command wrote and kept the other.
RemoveRecord(n, good) ==
  /\ remove.at \in {"running", "adrift"} /\ n \in remove.todo
  /\ remove' = Said(remove, n, good)
  /\ \/ link' = [link EXCEPT ![n] = FALSE]
     \/ ~good /\ link' = link
  /\ UNCHANGED <<req, write, override, machine, keys, adrift, late>>
  /\ UNCHANGED command

RemoveRead(okSeen, failSeen) ==
  /\ pc = "unlink"
  /\ SessionEnds(remove, remove', okSeen, failSeen)
  /\ bootLink' = [n \in Nodes |-> IF n \in okSeen THEN "removed" ELSE bootLink[n]]
  /\ pc' = "done"
  /\ UNCHANGED <<opt, cancelled, failed, bootOnce, reset, req, write>>
  /\ UNCHANGED world

(***************************************************************************)
(* The machines, the PXE service and the processors, which are not part of *)
(* clusterctl.  A booting machine takes the network when its processor     *)
(* holds the override, which that boot uses up, or when its boot order     *)
(* says so; it installs when the PXE service has a link for it, and a      *)
(* one-shot link is gone after that request.                               *)
(***************************************************************************)
Restart(n) ==
  /\ n \in Restless /\ machine[n] = "old"
  /\ machine' = [machine EXCEPT ![n] = "booting"]
  /\ UNCHANGED <<req, write, remove, link, override, keys, adrift, late>>
  /\ UNCHANGED command

Boot(n) ==
  /\ machine[n] = "booting"
  /\ override' = [override EXCEPT ![n] = FALSE]
  /\ LET installs == link[n] /\ (override[n] \/ n \in NetFirst)
     IN /\ machine' = [machine EXCEPT ![n] = IF installs THEN "installing" ELSE "old"]
        /\ link' = [link EXCEPT ![n] = @ /\ (installs => n \in Persistent)]
  /\ UNCHANGED <<req, write, remove, keys, adrift, late>>
  /\ UNCHANGED command

\* A processor carries out a request the command has given up.
CarryLate(n, op) ==
  /\ <<n, op>> \in adrift
  /\ adrift' = adrift \ {<<n, op>>}
  /\ CarriedOut(n, op)
  /\ late' = late \cup {<<n, op>>}
  /\ UNCHANGED <<req, write, remove, link, keys>> /\ UNCHANGED command

Command ==
  \/ WriteStart
  \/ \E okSeen, failSeen \in SUBSET Nodes : WriteRead(okSeen, failSeen)
  \/ \E n \in Nodes : Send(n) \/ NotSent(n)
  \/ OnceOver
  \/ Forget \/ ForgetFails
  \/ ResetOver
  \/ ClearOver
  \/ RemoveStart
  \/ \E okSeen, failSeen \in SUBSET Nodes : RemoveRead(okSeen, failSeen)

Replies == \E n \in Nodes : Answer(n) \/ Unreachable(n) \/ Fails(n)

Outside ==
  \/ \E n \in Nodes, good \in BOOLEAN : WriteRecord(n, good) \/ RemoveRecord(n, good)
  \/ \E n \in Nodes : Carry(n) \/ Restart(n) \/ Boot(n)
  \/ \E n \in Nodes, op \in FanOuts : CarryLate(n, op)

Next == Interrupt \/ Command \/ Replies \/ Outside

Spec == Init /\ [][Next]_vars

\* The command runs on; a request is answered or given up, by the timeout of
\* the client, and a session ends, by that of the remote command; a machine
\* that was reset boots.  The user may never interrupt, and what is adrift may
\* never be carried out.
FairSpec ==
  /\ Spec
  /\ WF_vars(Command)
  /\ \A n \in Nodes : WF_vars(Answer(n) \/ Unreachable(n) \/ Fails(n))
  /\ \A n \in Nodes : WF_vars(Boot(n))

(***************************************************************************)
(* Properties.                                                             *)
(***************************************************************************)
\* The values the state can hold.
TypeOK ==
  /\ opt \in [keepKeys: BOOLEAN, noReset: BOOLEAN]
  /\ pc \in Steps
  /\ cancelled \in BOOLEAN
  /\ failed \in BOOLEAN
  /\ bootLink \in [Nodes -> LinkStates]
  /\ bootOnce \in [Nodes -> OnceStates]
  /\ reset \in [Nodes -> ResetStates]
  /\ req \in [Nodes -> Requests]
  /\ write \in Scripts
  /\ remove \in Scripts
  /\ link \in [Nodes -> BOOLEAN]
  /\ override \in [Nodes -> BOOLEAN]
  /\ machine \in [Nodes -> {"old", "booting", "installing"}]
  /\ keys \in BOOLEAN
  /\ adrift \subseteq Nodes \X FanOuts
  /\ late \subseteq Nodes \X (FanOuts \cup {"link"})

\* What is still armed when the command ends is reported, and the advice names
\* the part of it that is there: a boot link that is on the PXE host belongs to
\* a node reported as linked, an override a processor holds to one reported as
\* overridden, unless it was put there after the command had given up on it.
ArmedIsReported ==
  pc = "done" =>
    \A n \in Nodes :
      /\ link[n] => Linked(bootLink[n]) \/ <<n, "link">> \in late
      /\ override[n] => Overridden(bootOnce[n]) \/ <<n, "once">> \in late

\* A node reported as reinstalling does: it was reset while it was armed, and
\* disarming the others took neither its link nor its override away.
ReinstallingIsTrue ==
  \A n \in Nodes \ Restless :
    reset[n] = "sent" =>
      \/ machine[n] = "installing"
      \/ machine[n] = "booting" /\ link[n] /\ (override[n] \/ n \in NetFirst)

\* A command that reports success left no node behind.
SuccessIsWhole ==
  pc = "done" /\ ~failed =>
    /\ \A n \in Nodes : State(n) = IF opt.noReset THEN "armed" ELSE "reinstalling"
    /\ keys = opt.keepKeys

\* What the command says at its end is true: of each node, and of all of them.
ReportIsTrue == ReinstallingIsTrue /\ SuccessIsWhole

\* Armed, or past it: a machine that restarted by itself is installing already.
ArmedNow(n) == (link[n] /\ override[n]) \/ machine[n] = "installing"

\* The host keys, which cannot be put back, go only once every machine is
\* armed, whatever the other nodes' requests and machines did meanwhile.
KeysGoLast == keys' # keys => \A n \in Nodes : ArmedNow(n)

\* No machine is reset before every machine is armed: a processor that carries
\* out a reset in time finds its machine armed, so it never takes down a
\* machine that then boots its old system.
ResetFindsArmed ==
  \A n \in Nodes :
    pc = "reset" /\ req[n] = "flying" /\ req'[n] = "carried" =>
      /\ ArmedNow(n)
      /\ opt.keepKeys \/ ~keys
      /\ \A m \in Nodes : bootLink[m] = "set" /\ bootOnce[m] = "set"

\* No step that cannot be taken back comes before every machine is armed.
OnlyOnceArmed == [][KeysGoLast /\ ResetFindsArmed]_vars

\* The command ends, whatever was lost and whenever it was interrupted.
Over == pc = "done"

\* A machine reported as reinstalling reaches its installation.
SaidToReinstall(n) == pc = "done" /\ State(n) = "reinstalling"
Installing(n) == machine[n] = "installing"

\* What the comment on a reset that failed says of its machine: a node that is
\* reported as disarmed boots its old system.
DisarmedBootsOldSystem ==
  \A n \in Nodes : pc = "done" /\ State(n) = "disarmed" => machine[n] # "installing"
=============================================================================
