---------------------------- MODULE NodeSettings ----------------------------
(***************************************************************************)
(* Edits of the labels and taints of an application pool while the cluster *)
(* runs: internal/api/cluster_settings.go, internal/storage/               *)
(* cluster_settings.go and plugins/k3s/runtime/node_settings.go.           *)
(*                                                                         *)
(* An edit locks the row of the cluster, patches the nodes one by one and  *)
(* rewrites the registration arguments of their agents, and only then      *)
(* stores the new settings.  It may fail anywhere: the nodes done so far   *)
(* keep the new settings while the row keeps the old ones.  An annotation  *)
(* on every node remembers what KubePhos last applied there.               *)
(*                                                                         *)
(* Labels and taints follow the same rules and are both called entries;    *)
(* managed keys, which ValidatePool rejects in settings, are left out.     *)
(***************************************************************************)
EXTENDS Integers, FiniteSets

CONSTANTS
    Editors,    \* requests that edit the pool at the same time
    Count,      \* application nodes of the pool, numbered 1 .. Count
    Keys,       \* keys of labels and taints
    Values      \* values the settings use

None == "none"   \* no entry under a key
Hand == "hand"   \* an entry put on a node by its operator
Nodes == 1 .. Count
Settings == [Keys -> Values \cup {None}]
NoNote == [k \in {} |-> None]

(* Values of settings are neither of the two, and the pool has a node.     *)
ConstantsOK == Keys # {} /\ None \notin Values /\ Hand \notin Values /\ Count \in Nat \ {0}

VARIABLES
    saved,     \* settings in the row of the cluster
    entries,   \* node |-> its labels and taints
    note,      \* node |-> annotation kubephos.dev/pool-settings
    args,      \* node |-> labels and taints the agent registers with
    request,   \* editor |-> what it asks for and whether its version is current
    edit,      \* the edit that holds the row
    touched    \* nodes changed by somebody else since the edit read them

vars == <<saved, entries, note, args, request, edit, touched>>

Idle == [step |-> "idle"]
Free == [step |-> "free"]

TypeOK ==
    /\ saved \in Settings
    /\ entries \in [Nodes -> [Keys -> Values \cup {None, Hand}]]
    /\ note \in [Nodes -> Settings \cup {NoNote}]
    /\ args \in [Nodes -> Settings]
    /\ \A e \in Editors : request[e] = Idle \/ request[e] \in [step : {"asked"}, want : Settings, current : BOOLEAN]
    /\ edit = Free \/ /\ edit.step \in {"read", "patch", "register", "commit"}
                      /\ edit.by \in Editors
                      /\ edit.node \in Nodes
    /\ touched \subseteq Nodes

(* Bootstrap registered the nodes with the settings of the row.            *)
Init ==
    /\ saved \in Settings
    /\ entries = [n \in Nodes |-> saved]
    /\ note = [n \in Nodes |-> NoNote]
    /\ args = [n \in Nodes |-> saved]
    /\ request = [e \in Editors |-> Idle]
    /\ edit = Free
    /\ touched = {}

(***************************************************************************)
(* The request: the version the user saw must be that of the row.          *)
(***************************************************************************)
changedPoolSettings(e) ==
    /\ request[e] = Idle
    /\ \E want \in Settings :
          request' = [request EXCEPT ![e] = [step |-> "asked", want |-> want, current |-> TRUE]]
    /\ UNCHANGED <<saved, entries, note, args, edit, touched>>

(* SELECT ... FOR UPDATE with the version in its condition.                *)
UpdateClusterSettings(e) ==
    /\ request[e] # Idle /\ edit = Free
    /\ IF request[e].current
       THEN /\ edit' = [step |-> "read", by |-> e, stored |-> saved, want |-> request[e].want,
                        entries |-> entries, note |-> note, node |-> 1]
            /\ UNCHANGED request
       ELSE /\ request' = [request EXCEPT ![e] = Idle]
            /\ UNCHANGED edit
    /\ UNCHANGED <<saved, entries, note, args, touched>>

(* The nodes are read once, before the first is patched.                   *)
ReadNodes ==
    /\ edit.step = "read"
    /\ edit' = [edit EXCEPT !.step = "patch", !.entries = entries, !.note = note]
    /\ touched' = {}
    /\ UNCHANGED <<saved, entries, note, args, request>>

(***************************************************************************)
(* One node: reconcileNodeSettings                                         *)
(***************************************************************************)

(* Mutant: the annotation is not consulted.                                *)
BeforeAsStored(n) == edit.stored

(* What KubePhos had applied: the annotation, else the stored settings.    *)
Before(n) == IF edit.note[n] = NoNote THEN edit.stored ELSE edit.note[n]

NeedsRegistration(n) == edit.stored # edit.want \/ Before(n) # edit.want

(* The wanted entries are set; an earlier entry that is no longer wanted   *)
(* is removed if it still has the value KubePhos gave it.                  *)
nodeSettingsPatch(current, before, after) ==
    [k \in Keys |-> IF after[k] # None THEN after[k]
                    ELSE IF before[k] # None /\ current[k] = before[k] THEN None
                    ELSE current[k]]

Patched(n) == nodeSettingsPatch(edit.entries[n], Before(n), edit.want)
NoPatch(n) == Patched(n) = edit.entries[n] /\ ~ NeedsRegistration(n)

(* The patch carries the resource version that was read.                   *)
ApplyPatch(n) ==
    /\ n \notin touched
    /\ entries' = [entries EXCEPT ![n] = Patched(n)]
    /\ note' = IF NeedsRegistration(n) THEN [note EXCEPT ![n] = edit.want] ELSE note

(* The next thing to do: register the agent, go to the next node, or end.  *)
Following(n, registered) ==
    IF NeedsRegistration(n) /\ ~ registered THEN [edit EXCEPT !.step = "register"]
    ELSE IF n = Count THEN [edit EXCEPT !.step = "commit"]
    ELSE [edit EXCEPT !.step = "patch", !.node = n + 1]

reconcileNodeSettings ==
    LET n == edit.node IN
    /\ edit.step = "patch"
    /\ \/ ApplyPatch(n) /\ ~ NoPatch(n)
       \/ NoPatch(n) /\ UNCHANGED <<entries, note>>
    /\ edit' = Following(n, FALSE)
    /\ UNCHANGED <<saved, args, request, touched>>

(* The arguments of the agent: those of every key KubePhos had or has are  *)
(* removed, the wanted ones are added.                                     *)
nodeRegistrationCommand(n) ==
    LET owned == {k \in Keys : \E s \in {edit.stored, Before(n), edit.want} : s[k] # None}
    IN  args' = [args EXCEPT ![n] = [k \in Keys |-> IF k \in owned THEN edit.want[k] ELSE args[n][k]]]

Register ==
    LET n == edit.node IN
    /\ edit.step = "register"
    /\ nodeRegistrationCommand(n)
    /\ edit' = Following(n, TRUE)
    /\ UNCHANGED <<saved, entries, note, request, touched>>

(***************************************************************************)
(* The end of an edit                                                      *)
(***************************************************************************)
Release ==
    /\ edit' = Free
    /\ touched' = {}

Commit ==
    /\ edit.step = "commit"
    /\ saved' = edit.want
    /\ request' = [e \in Editors |-> IF e = edit.by \/ request[e] = Idle THEN Idle
                                     ELSE [request[e] EXCEPT !.current = FALSE]]
    /\ Release
    /\ UNCHANGED <<entries, note, args>>

(* A command fails, the request is given up, the server dies or the commit *)
(* fails: the row keeps its settings and its version.  The command that    *)
(* fails last may have had its effect.                                     *)
Fail ==
    /\ edit # Free
    /\ \/ UNCHANGED <<entries, note, args>>
       \/ edit.step = "patch" /\ ApplyPatch(edit.node) /\ UNCHANGED args
       \/ edit.step = "register" /\ nodeRegistrationCommand(edit.node) /\ UNCHANGED <<entries, note>>
    /\ request' = [request EXCEPT ![edit.by] = Idle]
    /\ Release
    /\ UNCHANGED saved

(* The operator of the cluster labels a node by hand, or removes an entry. *)
ByHand(n) ==
    /\ \E k \in Keys, v \in {Hand, None} :
          /\ entries[n][k] # v
          /\ entries' = [entries EXCEPT ![n][k] = v]
    /\ touched' = IF edit = Free THEN touched ELSE touched \cup {n}
    /\ UNCHANGED <<saved, note, args, request, edit>>

Next ==
    \/ \E e \in Editors : changedPoolSettings(e) \/ UpdateClusterSettings(e)
    \/ edit # Free /\ (ReadNodes \/ reconcileNodeSettings \/ Register \/ Commit)
    \/ Fail
    \/ \E n \in Nodes : ByHand(n)

Spec == Init /\ [][Next]_vars

(***************************************************************************)
(* Properties                                                              *)
(***************************************************************************)

(* When an edit is about to be stored the nodes carry exactly its settings,*)
(* whatever part of earlier edits was applied before they failed: a wanted *)
(* entry is there, and one that is not wanted is there only if somebody    *)
(* else put it there; and the agents register with what the edit changes   *)
(* (reconcileNodeSettings, nodeSettingsPatch, nodeRegistrationCommand).    *)
StoredIsInForce ==
    edit.step = "commit" => \A n \in Nodes, k \in Keys :
        /\ n \notin touched =>
              IF edit.want[k] # None THEN entries[n][k] = edit.want[k] ELSE entries[n][k] \notin Values
        /\ edit.want[k] # edit.stored[k] => args[n][k] = edit.want[k]

=============================================================================
