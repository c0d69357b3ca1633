--------------------------- MODULE TargetBinding ---------------------------
(***************************************************************************)
(* plugins/target-binding: which workloads of an application a strategy    *)
(* acts on.  A target is [id, traits]; "*" requires no trait.              *)
(***************************************************************************)
EXTENDS PluginScripts

Compatible(target, trait) == trait = "*" \/ trait \in target.traits

(* The answer is [ok, targets]: a selection that names what is not declared*)
(* or not compatible, or that selects nothing, is an error.                *)
selectTargets(spec, targets) ==
    LET known == {t.id : t \in targets}
        compatible == {t.id : t \in {u \in targets : Compatible(u, spec.trait)}}
        selected == {t \in targets :
                       /\ t.id \in compatible
                       /\ spec.include = {} \/ t.id \in spec.include
                       /\ t.id \notin spec.exclude}
        ok == /\ spec.include \subseteq known
              /\ spec.include \subseteq compatible
              /\ spec.exclude \subseteq known
              /\ selected # {}
    IN  [ok |-> ok, targets |-> IF ok THEN selected ELSE {}]

(* The lists of a specification are disjoint.                              *)
validateSpec(spec) == spec.include \cap spec.exclude = {}

SpecFlaws == {"reference is no artifact", "trait", "component listed twice", "included and excluded"}
validateTargets == {"duplicate target", "target without a selector"}
SelectionFlaws == {"component not declared", "component without the trait", "nothing selected"}
resolve == SpecFlaws \cup {"artifact missing"} \cup validateTargets

Bind == <<Reject(resolve), Reject(SelectionFlaws)>>

Plugin ==
    [objects |-> {}, start |-> {<<>>}, shared |-> {}, unmarked |-> {}, drifts |-> {}, keeps |-> {}, provides |-> {},
     mutating |-> FALSE, cleanable |-> FALSE,
     flaws |-> resolve \cup SelectionFlaws \cup {"configuration is not JSON"},
     validate |-> <<Reject({"configuration is not JSON"}), Reject(SpecFlaws)>>,
     precheck |-> Bind, execute |-> Bind, verify |-> Bind,
     cleanup |-> <<>>, undo |-> <<>>, cleanupPrecheck |-> <<>>, cleanupVerify |-> <<>>]

=============================================================================
