--------------------------- MODULE PluginScripts ---------------------------
(***************************************************************************)
(* The vocabulary in which the modules of the plugins are written.         *)
(*                                                                         *)
(* A plugin of KubePhos answers the worker with six calls for a plan step: *)
(* Validate, Precheck, Execute, Verify, Cleanup, and Precheck and Verify   *)
(* again for a step marked Cleanup.  Each call is a straight run of remote *)
(* commands (kubectl, helm, ssh, the Proxmox or a registry API) and of     *)
(* checks of its input, with early returns.  It is written here as a       *)
(* script: a sequence of instructions over the remote objects of the step. *)
(* PluginSteps gives the scripts their meaning: every command may fail     *)
(* half way, the worker may die between two of them.                       *)
(*                                                                         *)
(* An object is in one of six states.  "own" carries the ownership marker  *)
(* of this step, "other" that of somebody else under the same name, and    *)
(* "unmarked" is somebody else's without any marker: some checks of the    *)
(* plugins refuse both, some only the marker of another.  "original" exists*)
(* without us and may be changed by the step, "changed" is such an object  *)
(* after the change.                                                       *)
(***************************************************************************)
EXTENDS Integers, Sequences, TLC

States == {"absent", "own", "other", "unmarked", "original", "changed"}
Foreign    == {"other", "unmarked"}
NotOther   == States \ {"other"}   \* a marker is refused unless it is ours
NotForeign == States \ Foreign     \* our marker is asked for
Present    == States \ {"absent"}

Same == [s \in States |-> s]

(***************************************************************************)
(* An instruction is refused when the input has one of its flaws or when   *)
(* one of its objects is not in a state it can deal with; otherwise it     *)
(* turns the state of its objects.  "refused" and "error" say what the     *)
(* call does then: "fail" returns the error (or an unhealthy report),      *)
(* "return" ends the call without one, "next" goes on, "defer" goes on and *)
(* returns the error at the end, "jump" skips the next instructions.       *)
(***************************************************************************)
Instruction(flaws, on, ok, turns) ==
    [flaws |-> flaws, on |-> on, ok |-> ok, turns |-> turns,
     refused |-> "fail", error |-> "fail", skip |-> 0]

(* A check of the input: no remote command, it only refuses.               *)
Reject(flaws) == [Instruction(flaws, {}, States, Same) EXCEPT !.error = "none"]

(* A read of the remote side that looks at objects the step does not own,  *)
(* or waits for them: it may fail, it changes nothing.                     *)
Probe == Instruction({}, {}, States, Same)

(* A read that compares the state of objects.                              *)
Check(on, ok) == Instruction({}, on, ok, Same)

(* kubectl apply, helm upgrade --install, an overwritten file: creates what*)
(* is missing and takes over what is there.                                *)
Apply(on) ==
    Instruction({}, on, States,
                [s \in States |-> IF s \in {"original", "changed"} THEN "changed" ELSE "own"])

(* A creation that an existing object makes fail.                          *)
Create(on) == Instruction({}, on, {"absent"}, [Same EXCEPT !["absent"] = "own"])

(* A deletion that does not ask whose the object is; absent is fine.       *)
Delete(on) == Instruction({}, on, States, [s \in States |-> "absent"])

(* A deletion restricted to the ownership label or marker of the step.     *)
DeleteOwned(on) == Instruction({}, on, States, [Same EXCEPT !["own"] = "absent"])

(* A change of an object that exists without the step, and its way back.   *)
Patch(on) == Instruction({}, on, Present, [Same EXCEPT !["original"] = "changed",
                                                       !["other"] = "changed",
                                                       !["unmarked"] = "changed"])
Restore(on) == Instruction({}, on, Present, [Same EXCEPT !["changed"] = "original"])

(* What the call does when an instruction is refused or fails.             *)
ReturnUnless(i)  == [i EXCEPT !.refused = "return"]
SkipUnless(i, n) == [i EXCEPT !.refused = "jump", !.skip = n]
Ignored(i)       == [i EXCEPT !.refused = "next", !.error = "next"]
Deferred(i)      == [i EXCEPT !.refused = "defer", !.error = "defer"]

(* A block for objects in one of the states ok, and a return.              *)
When(on, ok, block) == <<SkipUnless(Check(on, ok), Len(block))>> \o block
ReturnWhen(on, ok) == When(on, ok, <<ReturnUnless(Check(on, {}))>>)

(* A read whose error is taken for absence.                                *)
AbsentOnError(i) == [i EXCEPT !.error = i.refused]

(* A loop over named objects: one instruction for each of them.            *)
Each(Op(_), names) == [k \in DOMAIN names |-> Op({names[k]})]

Range(names) == {names[k] : k \in DOMAIN names}

=============================================================================
