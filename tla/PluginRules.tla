---------------------------- MODULE PluginRules ----------------------------
(***************************************************************************)
(* What a plugin has to look after, as rules that its scripts can be read  *)
(* against: they speak of the commands of a call and their order, and of   *)
(* no behaviour.  PluginStepsProofs shows that the worker of PluginSteps,  *)
(* whatever fails and however often, gives a plugin that keeps a rule the  *)
(* property the rule is for.                                               *)
(***************************************************************************)
EXTENDS PluginSteps

InPlace == {"own", "changed"}                \* made or changed by the step
Clean   == {"absent", "other", "unmarked", "original"}   \* nothing of the step

(* How a call may go on after a command that was refused or failed.        *)
Ways(i) == {i.refused, i.error}

Returns(s) == \E k \in DOMAIN s : "return" \in Ways(s[k])

(* No command before the k-th passes it over.                              *)
Unskipped(s, k) ==
    \A j \in 1 .. (k - 1) : "return" \notin Ways(s[j]) /\ ("jump" \in Ways(s[j]) => j + s[j].skip < k)

(* The call ends well only if the k-th command, once it is reached, did    *)
(* what it should.                                                         *)
Firm(s, k) ==
    \/ s[k].refused = "fail" /\ s[k].error \in {"none", "fail"}
    \/ ~ Returns(s) /\ s[k].refused \in {"fail", "defer"} /\ s[k].error \in {"none", "fail", "defer"}

(* The k-th command takes an object from the states of From to those of to.*)
Takes(s, k, o, From, to) == o \in s[k].on => \A x \in From \cap s[k].ok : s[k].turns[x] \in to

(* None of the commands first .. last takes an object out of Good.         *)
Keeps(s, first, last, o, Good) == \A k \in first .. last : Takes(s, k, o, Good, Good)

(* The k-th command is one that a call cannot end well without, and it     *)
(* leaves the object in Good, as do those after it.                        *)
EstablishesAt(s, k, o, From, Good) ==
    /\ Firm(s, k) /\ Unskipped(s, k)
    /\ o \in s[k].on /\ Takes(s, k, o, From, Good)
    /\ Keeps(s, 1, k - 1, o, From)
    /\ Keeps(s, k + 1, Len(s), o, Good)

Establishes(s, o, From, Good) == \E k \in DOMAIN s : EstablishesAt(s, k, o, From, Good)

(* The object is never in another state than those of From.                *)
Confined(p, o, From) ==
    /\ \A w \in Plugins[p].start : w[o] \in From
    /\ o \in Plugins[p].shared => "other" \in From
    /\ o \in Plugins[p].unmarked => "unmarked" \in From
    /\ o \in Plugins[p].drifts => "absent" \in From
    /\ \A c \in Calls : Keeps(Plugins[p][c], 1, Len(Plugins[p][c]), o, From)

(* When the calls c and d have ended well, one after the other, the object *)
(* is in Good: d looks, or c sees to it and d notices what has gone since. *)
Ensures(p, c, d, o, From, Good) ==
    \/ Establishes(Plugins[p][d], o, From, Good)
    \/ /\ Establishes(Plugins[p][c], o, From, Good)
       /\ \/ /\ o \in Plugins[p].drifts => "absent" \in Good
             /\ Keeps(Plugins[p][d], 1, Len(Plugins[p][d]), o, Good)
          \/ Establishes(Plugins[p][d], o, Good \cup {"absent"}, Good)

(* Everything a step promises is put in place and verified.                *)
PutsInPlace(p) ==
    \A o \in Plugins[p].provides : Ensures(p, "execute", "verify", o, States, InPlace)

(* Everything a step may have made or changed is taken back and verified,  *)
(* if the plugin cleans up at all.                                         *)
CleansUp(p) ==
    Plugins[p].cleanable => \A o \in Plugins[p].objects \ Plugins[p].keeps : \E From \in SUBSET States :
        /\ Confined(p, o, From)
        /\ From \subseteq Clean \/ Ensures(p, "cleanup", "cleanupVerify", o, From, Clean)

(* A command that makes or changes something, and one that does anything.  *)
Makes(i) == i.on # {} /\ \E x \in i.ok : i.turns[x] \in InPlace \ {x}
Alters(i) == i.on # {} /\ \E x \in i.ok : i.turns[x] # x

(* The k-th command refuses a flaw, and nothing has been done before.      *)
StopsAt(s, k, f) ==
    /\ f \in s[k].flaws /\ s[k].refused = "fail" /\ s[k].error \in {"none", "fail"}
    /\ Unskipped(s, k)
    /\ \A j \in 1 .. (k - 1) : ~ Alters(s[j])

Stops(s, f) == \E k \in DOMAIN s : StopsAt(s, k, f)

(* The script of a phase, and the phases that are entered with a flaw.     *)
ScriptOf(p, ph) == IF ph = "rollback" THEN Plugins[p].cleanup ELSE Plugins[p][ph]

Entered(p, f, ph) ==
    /\ ph # "validate" => ~ Stops(Plugins[p].validate, f)
    /\ ph \in {"execute", "verify", "rollback", "undo"} => ~ Stops(Plugins[p].precheck, f)
    /\ ph \in {"verify", "undo"} => ~ Stops(Plugins[p].execute, f)
    /\ ph \in {"cleanup", "cleanupVerify"} => ~ Stops(Plugins[p].cleanupPrecheck, f)
    /\ ph = "cleanupVerify" => ~ Stops(Plugins[p].cleanup, f)

(* Whatever call meets a flaw of the input refuses it in time, or makes    *)
(* nothing.                                                                *)
RefusesFlaws(p) ==
    \A f \in Plugins[p].flaws, ph \in Installing \cup Cleaning :
        Entered(p, f, ph) =>
            \/ Stops(ScriptOf(p, ph), f)
            \/ \A k \in DOMAIN ScriptOf(p, ph) : ~ Makes(ScriptOf(p, ph)[k])

(* As long as the step is installed, the rollback included, it removes     *)
(* nothing either.                                                         *)
LeavesInPlace(p) ==
    \A f \in Plugins[p].flaws, ph \in Installing :
        Entered(p, f, ph) =>
            \/ Stops(ScriptOf(p, ph), f)
            \/ \A k \in DOMAIN ScriptOf(p, ph) : ~ Alters(ScriptOf(p, ph)[k])

(***************************************************************************)
(* What belongs to somebody else ("other") or was there before the step    *)
(* ("original") is left alone: from such a state x a command leads only to *)
(* the states Bears(x).                                                    *)
(***************************************************************************)
Others(x) == States \ {x}
Bears(x)  == IF x = "original" THEN {"original", "changed"} ELSE {x}

(* The j-th command is never reached with the object in x: the k-th looks, *)
(* no way leads around it, and nothing after it leads to x.                *)
GuardsAt(s, k, j, o, x) ==
    /\ o \in s[k].on /\ x \notin s[k].ok
    /\ Ways(s[k]) \cap {"next", "defer"} = {}
    /\ "jump" \in Ways(s[k]) => k + s[k].skip >= j
    /\ \A i \in 1 .. (k - 1) : "jump" \in Ways(s[i]) => i + s[i].skip < k \/ i + s[i].skip >= j
    /\ Keeps(s, k, j - 1, o, Others(x))

SafeAt(s, j, o, x) ==
    Takes(s, j, o, {x}, Bears(x)) \/ \E k \in 1 .. (j - 1) : GuardsAt(s, k, j, o, x)

SafeIn(p, calls, o, x) ==
    \A c \in calls : \A j \in DOMAIN Plugins[p][c] : SafeAt(Plugins[p][c], j, o, x)

KeptIn(p, calls, o, Good) == \A c \in calls : Keeps(Plugins[p][c], 1, Len(Plugins[p][c]), o, Good)

(* A precheck c does not let the object pass in x.                         *)
Screens(p, c, calls, o, x) ==
    Establishes(Plugins[p][c], o, States, Others(x)) /\ KeptIn(p, calls, o, Others(x))

(* The calls after a precheck, the rollback among them.                    *)
AfterPrecheck        == {"execute", "verify", "undo", "cleanup"}
AfterCleanupPrecheck == {"cleanup", "cleanupVerify"}

(* While a step is installed the object cannot be in x, as it was not when *)
(* the step began, or the calls are safe.                                  *)
SafeInstalling(p, o, x) ==
    \/ /\ \A w \in Plugins[p].start : w[o] # x
       /\ KeptIn(p, AfterPrecheck \cup {"validate", "precheck"}, o, Others(x))
    \/ /\ SafeIn(p, {"validate", "precheck"}, o, x)
       /\ SafeIn(p, AfterPrecheck, o, x) \/ Screens(p, "precheck", AfterPrecheck, o, x)

SafeCleaning(p, o, x) ==
    /\ SafeIn(p, {"cleanupPrecheck"}, o, x)
    /\ \/ SafeIn(p, AfterCleanupPrecheck, o, x)
       \/ Screens(p, "cleanupPrecheck", AfterCleanupPrecheck, o, x)

LeavesAlone(p, o, x) ==
    \/ Confined(p, o, Others(x))
    \/ SafeInstalling(p, o, x) /\ (Plugins[p].cleanable => SafeCleaning(p, o, x))

(* Nothing with the marker of somebody else is touched, and nothing that   *)
(* was there before is removed.                                            *)
RespectsOthers(p) ==
    \A o \in Plugins[p].objects, x \in {"other", "original"} : LeavesAlone(p, o, x)

(* Nothing without a marker is touched.                                    *)
RespectsUnmarked(p) == \A o \in Plugins[p].objects : LeavesAlone(p, o, "unmarked")

(***************************************************************************)
(* A cleanup can always be done: an outline says for every object in which *)
(* states it may be found before each command of the three cleaning calls  *)
(* and at their end (A[c][o][k]), as the annotations of a flow chart do.   *)
(***************************************************************************)

(* The place in the outline of a call, its end for all places past it.     *)
Place(s, k) == IF k <= Len(s) THEN k ELSE Len(s) + 1

(* What a refusal of the k-th command says of the object.                  *)
Spurned(s, k, o, From) == IF s[k].on = {o} THEN From \ s[k].ok ELSE From

(* The outline of an object is right, and no command refuses what it finds *)
(* unless that belongs to somebody else.                                   *)
Flows(s, A, o) ==
    \A k \in DOMAIN s :
        /\ o \notin s[k].on => A[k] \subseteq A[k + 1]
        /\ Takes(s, k, o, A[k], A[k + 1])
        /\ s[k].refused = "next" => Spurned(s, k, o, A[k]) \subseteq A[k + 1]
        /\ s[k].refused = "jump" => Spurned(s, k, o, A[k]) \subseteq A[Place(s, k + 1 + s[k].skip)]
        /\ s[k].refused = "return" => Spurned(s, k, o, A[k]) \subseteq A[Len(s) + 1]
        /\ o \in s[k].on /\ s[k].refused = "fail" => A[k] \subseteq s[k].ok \cup Foreign
        /\ o \in s[k].on /\ s[k].refused = "defer" => A[k] \subseteq s[k].ok

Unobstructed(p, A) ==
    Plugins[p].cleanable => \A o \in Plugins[p].objects :
        /\ Confined(p, o, A["cleanupPrecheck"][o][1])
        /\ \A c \in Cleaning : Flows(Plugins[p][c], A[c][o], o)
        /\ o \in Plugins[p].drifts => \A c \in Cleaning : "absent" \in A[c][o][1]
        /\ A["cleanupPrecheck"][o][Len(Plugins[p].cleanupPrecheck) + 1] \subseteq A["cleanup"][o][1]
        /\ A["cleanup"][o][Len(Plugins[p].cleanup) + 1] \subseteq A["cleanupVerify"][o][1]

=============================================================================
