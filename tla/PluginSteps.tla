---------------------------- MODULE PluginSteps ----------------------------
(***************************************************************************)
(* A plan step of a plugin, driven by the worker (internal/engine/         *)
(* worker.go, process, cleanup and runCleanupStep), against remote objects *)
(* that outlive every crash.                                               *)
(*                                                                         *)
(* An operation is validated when it is created, then prechecked, executed *)
(* and verified; a failed execution or verification is rolled back by      *)
(* Cleanup at once, a dead worker leaves things as they are.  Later a      *)
(* cleanup operation prechecks, cleans up and verifies, and is repeated    *)
(* when it fails.  The scripts are those of the modules of the plugins.    *)
(***************************************************************************)
EXTENDS PluginScripts

CONSTANTS
    Plugins,     \* plugin name |-> record of its scripts and objects
    Known,       \* property |-> plugins that are known to break it
    MaxTroubles  \* failed commands, crashes and drifts of one behaviour

Names == DOMAIN Plugins
Calls == {"validate", "precheck", "execute", "verify", "cleanup", "undo",
          "cleanupPrecheck", "cleanupVerify"}

ASSUME ScriptsAssumption ==
    /\ MaxTroubles \in Nat
    /\ Known \in [{"foreign", "unmarked", "removing", "unclean", "stuck"} -> SUBSET Names]
    /\ \A p \in Names :
          /\ \A c \in Calls :
                /\ Len(Plugins[p][c]) \in Nat /\ DOMAIN Plugins[p][c] = 1 .. Len(Plugins[p][c])
                /\ \A k \in DOMAIN Plugins[p][c] :
                      /\ Plugins[p][c][k].on \subseteq Plugins[p].objects
                      /\ Plugins[p][c][k].turns \in [States -> States]
                      /\ Plugins[p][c][k].skip \in Nat
                      /\ "none" \notin Plugins[p][c][k].flaws
          /\ Plugins[p].start \subseteq [Plugins[p].objects -> States]
          /\ Plugins[p].start # {}
          /\ \A part \in {"shared", "unmarked", "drifts", "keeps", "provides"} :
                Plugins[p][part] \subseteq Plugins[p].objects

VARIABLES
    plugin,    \* the plugin of the step
    flaw,      \* what is wrong with the input of the step, "none" if nothing
    world,     \* the state of every remote object of the step
    phase,     \* the call the worker is in, or how the step stands
    at,        \* next instruction of the call
    deferred,  \* an error was collected, the call returns it at its end
    troubles,  \* failures so far
    excuse     \* a failure hit the cleanup that runs or ran last

vars == <<plugin, flaw, world, phase, at, deferred, troubles, excuse>>

Installing == {"validate", "precheck", "execute", "verify", "rollback", "undo"}
Cleaning   == {"cleanupPrecheck", "cleanup", "cleanupVerify"}
Resting    == {"rejected", "succeeded", "failed", "cleaned", "cleanupFailed"}
Phases     == Installing \cup Cleaning \cup Resting

(* The script behind a phase.  A rollback is a call of Cleanup: after a    *)
(* failed execution without a result, like that of a cleanup operation,    *)
(* after a failed verification with the result of the execution ("undo").  *)
Script == CASE phase = "rollback" -> Plugins[plugin].cleanup
            [] phase \in Resting -> <<>>
            [] OTHER -> Plugins[plugin][phase]

Running == at \in 1 .. Len(Script)
Current == Script[at]

TypeOK ==
    /\ plugin \in Names
    /\ flaw \in Plugins[plugin].flaws \cup {"none"}
    /\ world \in [Plugins[plugin].objects -> States]
    /\ phase \in Phases
    /\ at \in Nat \ {0}
    /\ deferred \in BOOLEAN
    /\ troubles \in 0 .. MaxTroubles
    /\ excuse \in BOOLEAN

Init ==
    /\ plugin \in Names
    /\ world \in Plugins[plugin].start
    /\ flaw \in Plugins[plugin].flaws \cup {"none"}
    /\ phase = "validate"
    /\ at = 1
    /\ deferred = FALSE
    /\ troubles = 0
    /\ excuse = FALSE

(***************************************************************************)
(* Where the worker goes when a call returns an error or an unhealthy      *)
(* report: only the failures after Precheck are rolled back, and only for  *)
(* a mutating step.                                                        *)
(***************************************************************************)

(* Mutant: a cleanup that failed is verified all the same.                 *)
OnErrorVerifiesAnyway ==
    CASE phase = "validate" -> "rejected"
      [] phase \in {"precheck", "rollback", "undo"} -> "failed"
      [] phase = "execute" -> IF Plugins[plugin].mutating THEN "rollback" ELSE "failed"
      [] phase = "verify" -> IF Plugins[plugin].mutating THEN "undo" ELSE "failed"
      [] phase = "cleanup" -> "cleanupVerify"
      [] OTHER -> "cleanupFailed"

(* Mutant: a refused precheck does not stop the step.                      *)
OnErrorGoesOn ==
    CASE phase = "validate" -> "rejected"
      [] phase = "precheck" -> "execute"
      [] phase \in {"rollback", "undo"} -> "failed"
      [] phase = "execute" -> IF Plugins[plugin].mutating THEN "rollback" ELSE "failed"
      [] phase = "verify" -> IF Plugins[plugin].mutating THEN "undo" ELSE "failed"
      [] OTHER -> "cleanupFailed"

OnError ==
    CASE phase = "validate" -> "rejected"
      [] phase \in {"precheck", "rollback", "undo"} -> "failed"
      [] phase = "execute" -> IF Plugins[plugin].mutating THEN "rollback" ELSE "failed"
      [] phase = "verify" -> IF Plugins[plugin].mutating THEN "undo" ELSE "failed"
      [] OTHER -> "cleanupFailed"

(* Mutant: a cleanup is verified without being run.                        *)
OnSuccessSkipsCleanup ==
    CASE phase = "validate" -> "precheck"
      [] phase = "precheck" -> "execute"
      [] phase = "execute" -> "verify"
      [] phase = "verify" -> "succeeded"
      [] phase \in {"rollback", "undo"} -> "failed"
      [] phase = "cleanupPrecheck" -> "cleanupVerify"
      [] phase = "cleanup" -> "cleanupVerify"
      [] OTHER -> "cleaned"

(* Mutant: a rolled back step gets a status of its own.                    *)
OnSuccessRolledBack ==
    CASE phase = "validate" -> "precheck"
      [] phase = "precheck" -> "execute"
      [] phase = "execute" -> "verify"
      [] phase = "verify" -> "succeeded"
      [] phase \in {"rollback", "undo"} -> "rolledBack"
      [] phase = "cleanupPrecheck" -> "cleanup"
      [] phase = "cleanup" -> "cleanupVerify"
      [] OTHER -> "cleaned"

OnSuccess ==
    CASE phase = "validate" -> "precheck"
      [] phase = "precheck" -> "execute"
      [] phase = "execute" -> "verify"
      [] phase = "verify" -> "succeeded"
      [] phase \in {"rollback", "undo"} -> "failed"
      [] phase = "cleanupPrecheck" -> "cleanup"
      [] phase = "cleanup" -> "cleanupVerify"
      [] OTHER -> "cleaned"

Enter(next) ==
    /\ phase' = next
    /\ at' = 1
    /\ deferred' = FALSE

Advance(n) ==
    /\ at' = at + n
    /\ UNCHANGED <<phase, deferred>>

Collect ==
    /\ at' = at + 1
    /\ deferred' = TRUE
    /\ UNCHANGED phase

Accepts(i) == flaw \notin i.flaws /\ \A o \in i.on : world[o] \in i.ok

Turn(i, part) == world' = [o \in DOMAIN world |-> IF o \in part THEN i.turns[world[o]] ELSE world[o]]

(* How the call goes on after a refusal or an error.                       *)
Continue(how, i) ==
    \/ how = "fail" /\ Enter(OnError)
    \/ how = "return" /\ Enter(OnSuccess)
    \/ how = "next" /\ Advance(1)
    \/ how = "jump" /\ Advance(1 + i.skip)
    \/ how = "defer" /\ Collect

Steady == UNCHANGED <<plugin, flaw>>

(* The command does what it should.                                        *)
Succeed ==
    /\ Running
    /\ Accepts(Current)
    /\ Turn(Current, Current.on)
    /\ Advance(1)
    /\ Steady /\ UNCHANGED <<troubles, excuse>>

(* A flaw of the input, or an object in a state the call does not accept.  *)
Refuse ==
    /\ Running
    /\ ~ Accepts(Current)
    /\ Continue(Current.refused, Current)
    /\ Steady /\ UNCHANGED <<world, troubles, excuse>>

(* The command fails, times out or loses its answer: any part of what it   *)
(* was to do may have happened.  A query that would have been answered     *)
(* with a refusal may fail as well.                                        *)
Break ==
    /\ Running
    /\ Current.error # "none"
    /\ troubles < MaxTroubles
    /\ \/ Accepts(Current) /\ \E part \in SUBSET Current.on : Turn(Current, part)
       \/ ~ Accepts(Current) /\ Current.error # Current.refused /\ UNCHANGED world
    /\ Continue(Current.error, Current)
    /\ troubles' = troubles + 1
    /\ excuse' = TRUE
    /\ Steady

(* Mutant: the errors that a call collected are lost at its end.           *)
FinishForgets ==
    /\ phase \notin Resting
    /\ ~ Running
    /\ Enter(OnSuccess)
    /\ Steady /\ UNCHANGED <<world, troubles, excuse>>

(* The call ends: with the errors it collected, or well.                   *)
Finish ==
    /\ phase \notin Resting
    /\ ~ Running
    /\ Enter(IF deferred THEN OnError ELSE OnSuccess)
    /\ Steady /\ UNCHANGED <<world, troubles, excuse>>

(* The worker dies between two commands: its lease lapses and the sweeper  *)
(* fails the operation, nobody cleans up.                                  *)
Crash ==
    /\ phase \notin Resting \cup {"validate"}
    /\ troubles < MaxTroubles
    /\ Enter(IF phase \in Cleaning THEN "cleanupFailed" ELSE "failed")
    /\ troubles' = troubles + 1
    /\ excuse' = TRUE
    /\ Steady /\ UNCHANGED world

(* Between two calls something the step made goes away by itself: a pod or *)
(* a machine dies, an operator removes a namespace by hand.                *)
Drift ==
    /\ troubles < MaxTroubles
    /\ at = 1
    /\ phase \notin {"validate", "rejected"}
    /\ \E o \in Plugins[plugin].drifts :
          /\ world[o] \in {"own", "changed"}
          /\ world' = [world EXCEPT ![o] = "absent"]
    /\ troubles' = troubles + 1
    /\ UNCHANGED <<plugin, flaw, phase, at, deferred, excuse>>

(* While the step rests somebody else takes one of its free names, with a  *)
(* marker of KubePhos or without one.                                      *)
Intrude ==
    /\ troubles < MaxTroubles
    /\ phase \in Resting \ {"rejected", "succeeded"}
    /\ \E o \in Plugins[plugin].objects, x \in Foreign :
          /\ o \in IF x = "other" THEN Plugins[plugin].shared ELSE Plugins[plugin].unmarked
          /\ world[o] = "absent"
          /\ world' = [world EXCEPT ![o] = x]
    /\ troubles' = troubles + 1
    /\ UNCHANGED <<plugin, flaw, phase, at, deferred, excuse>>

(* The cleanup operation, created for a step that ran and repeated when it *)
(* failed; only plugins with the capability lifecycle.cleanup get one.     *)
RequestCleanup ==
    /\ Plugins[plugin].cleanable
    /\ phase \in {"succeeded", "failed", "cleanupFailed"}
    /\ Enter("cleanupPrecheck")
    /\ excuse' = FALSE
    /\ Steady /\ UNCHANGED <<world, troubles>>

Next == Succeed \/ Refuse \/ Break \/ Finish \/ Crash \/ Drift \/ Intrude \/ RequestCleanup

Spec == Init /\ [][Next]_vars

(***************************************************************************)
(* Properties                                                              *)
(***************************************************************************)

(* A step in which what is not ours stays as it is, or is changed where it *)
(* was there before.                                                       *)
SparesForeign ==
    \A o \in DOMAIN world :
        /\ world[o] = "other" => world'[o] = "other"
        /\ world[o] = "original" => world'[o] \in {"original", "changed"}

(* A step in which what carries no marker at all stays as it is.           *)
SparesUnmarked == \A o \in DOMAIN world : world[o] = "unmarked" => world'[o] = "unmarked"

(* No step ever changes or removes what belongs to somebody else, nor      *)
(* removes what was there before it: names are taken over only where a     *)
(* precheck or an ownership check has looked (Cleanup, Execute).  This goes*)
(* for objects without a marker too, except for the plugins whose checks   *)
(* take an object without one for their own (Known.unmarked).              *)
ForeignKept ==
    [][/\ plugin \notin Known.foreign => SparesForeign
       /\ plugin \notin Known.unmarked => SparesUnmarked]_vars

(* A verified cleanup has taken back everything the step made or changed,  *)
(* whatever part of the execution, of a rollback or of an earlier cleanup  *)
(* had happened, except for what the plugin keeps on purpose.              *)
CleanedIsClean ==
    phase = "cleaned" /\ plugin \notin Known.unclean =>
       \A o \in DOMAIN world \ Plugins[plugin].keeps : world[o] \notin {"own", "changed"}

(* A cleanup fails only when one of its commands failed or the worker died *)
(* during it, or when something of somebody else is in its way: no partial *)
(* state of the step makes its cleanup impossible.                         *)
CleanupIsNeverStuck ==
    phase = "cleanupFailed" /\ plugin \notin Known.stuck =>
       \/ excuse
       \/ flaw # "none"
       \/ \E o \in DOMAIN world : world[o] \in Foreign

(* When a step is reported as succeeded everything it promises is in       *)
(* place, although a command may have failed silently or an object may     *)
(* have gone between the calls.                                            *)
VerifiedIsInPlace ==
    [][phase' = "succeeded" /\ phase # "succeeded" =>
          \A o \in Plugins[plugin].provides : world'[o] \in {"own", "changed"}]_vars

(* A command of the worker, as opposed to what happens by itself.          *)
Commanded == <<phase, at>>' # <<phase, at>>

(* An input that a check of the plugin rejects never causes an effect,     *)
(* although Execute and Cleanup repeat only some of the checks: no command *)
(* makes or changes anything, and until the step has come to rest, the     *)
(* rollback included, none removes anything.  A cleanup asked for later    *)
(* does remove what it takes for the step's.  The plugins of Known.removing*)
(* refuse an input in Execute that Precheck let pass, and roll back by     *)
(* removing what was there before (RollbackKeepsTheOriginals).             *)
FlawedHasNoEffect ==
    [][flaw # "none" =>
          /\ \A o \in DOMAIN world : world'[o] \in {"own", "changed"} => world[o] = world'[o]
          /\ phase \in Installing /\ Commanded /\ plugin \notin Known.removing => UNCHANGED world]_vars

(* The rollback of a failed step and its cleanup never remove an object    *)
(* the step only changed: a maintenance of machines that were there before *)
(* ends with these machines in place (docs/experiments.md:177).            *)
RollbackKeepsTheOriginals ==
    [][(phase \in {"rollback", "undo"}) => \A o \in DOMAIN world :
          world[o] \in {"original", "changed"} => world'[o] # "absent"]_vars

=============================================================================
