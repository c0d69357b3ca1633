------------------------ MODULE ApplicationInspector ------------------------
(***************************************************************************)
(* plugins/application-inspector: turns the manifests of a pinned package  *)
(* into the manifest set of an application.  It has no remote effect; what *)
(* matters is what the chain of transformations leaves of the package.     *)
(***************************************************************************)
EXTENDS PluginScripts

(***************************************************************************)
(* The chain.  A resource is [key, kind, class, image, group, component,   *)
(* replicas, cpu]; "" stands for a label, class, image or cpu setting that *)
(* is not there and 0 for replicas that are not set.  A descriptor d is    *)
(* [group, components, overlays, mappings, images, excluded, additional]; a*)
(* component is [id, key, scalable], a mapping [source, target,            *)
(* removeStatic].  The values v are [initial, overrides, cpu,              *)
(* cpuOverrides]: initial is 0 when replicas are not a setting, the        *)
(* overrides are functions on some component ids.                          *)
(***************************************************************************)
Refused == [ok |-> FALSE, manifest |-> <<>>]
Passed(manifest) == [ok |-> TRUE, manifest |-> manifest]

(* The next link of the chain runs on what the previous one passed on.     *)
Then(result, Op(_)) == IF result.ok THEN Op(result.manifest) ELSE Refused

Resources(manifest) == {manifest[k] : k \in DOMAIN manifest}
MapSeq(Op(_), manifest) == [k \in DOMAIN manifest |-> Op(manifest[k])]

applyOverlays(manifest, overlays) ==
    IF \A o \in overlays :
          \E k \in DOMAIN manifest :
             /\ manifest[k].key = o.key
             /\ \A j \in DOMAIN manifest : manifest[j].key = o.key => j = k
    THEN Passed(MapSeq(LAMBDA r : IF \E o \in overlays : o.key = r.key
                                    THEN [r EXCEPT !.image = (CHOOSE o \in overlays : o.key = r.key).image]
                                    ELSE r,
                       manifest))
    ELSE Refused

(* One pass over the resources: a class is replaced once, never twice.     *)
applyStorageClassMappings(manifest, mappings) ==
    LET Maps(r, kind) == {x \in mappings : r.kind = kind /\ r.class = x.source}
        Kept(r) == \A x \in Maps(r, "volume") : ~ x.removeStatic
        Mapped(r) == IF Maps(r, "claim") = {} THEN r
                     ELSE [r EXCEPT !.class = (CHOOSE x \in Maps(r, "claim") : TRUE).target]
        matched(x, kind) == \E r \in Resources(manifest) : x \in Maps(r, kind)
    IN IF \A x \in mappings : matched(x, "claim") /\ (x.removeStatic => matched(x, "volume"))
       THEN Passed(MapSeq(Mapped, SelectSeq(manifest, Kept)))
       ELSE Refused

applyImageMappings(manifest, images) ==
    LET replacePodImages(r) == IF r.kind = "workload" /\ \E x \in images : x.source = r.image
                               THEN [r EXCEPT !.image = (CHOOSE x \in images : x.source = r.image).target]
                               ELSE r
    IN IF \A x \in images : \E r \in Resources(manifest) : r.kind = "workload" /\ r.image = x.source
       THEN Passed(MapSeq(replacePodImages, manifest))
       ELSE Refused

(* The labels of the application are added; a label that says otherwise is *)
(* refused.                                                                *)
ComponentOf(d, key) == {c \in d.components : c.key = key}
Labelled(d, r) ==
    [r EXCEPT !.group = d.group,
              !.component = IF ComponentOf(d, r.key) = {} THEN r.component
                            ELSE (CHOOSE c \in ComponentOf(d, r.key) : TRUE).id]
setApplicationLabels(d, r) ==
    /\ r.group \in {"", d.group}
    /\ \A c \in ComponentOf(d, r.key) : r.component \in {"", c.id}

materializeManifest(manifest, d) ==
    LET Included(r) == r.key \notin d.excluded
        all == SelectSeq(manifest, Included) \o d.additional
    IN IF /\ \A j, k \in DOMAIN all : all[j].key = all[k].key => j = k
          /\ \A r \in Resources(all) : setApplicationLabels(d, r)
          /\ d.excluded \subseteq {r.key : r \in Resources(manifest)}
       THEN Passed(MapSeq(LAMBDA r : Labelled(d, r), all))
       ELSE Refused

Scalable(d) == {c \in d.components : c.scalable}
replicaValue(n) == n \in 1 .. 1000

applyReplicaSettings(manifest, d, v) ==
    LET replicas(c) == IF c.id \in DOMAIN v.overrides THEN v.overrides[c.id] ELSE v.initial
        Targets(r) == {c \in Scalable(d) : c.key = r.key}
        Scaled(r) == IF Targets(r) = {} THEN r
                     ELSE [r EXCEPT !.replicas = replicas(CHOOSE c \in Targets(r) : TRUE)]
    IN IF v.initial = 0 THEN Passed(manifest)
       ELSE IF /\ replicaValue(v.initial)
               /\ \A c \in Scalable(d) : replicaValue(replicas(c))
               /\ DOMAIN v.overrides \subseteq {c.id : c \in Scalable(d)}
               /\ \A c \in Scalable(d) : \E r \in Resources(manifest) : r.key = c.key
       THEN Passed(MapSeq(Scaled, manifest))
       ELSE Refused

(* The cpu of a package is dropped, that of the settings put in its place. *)
applyResourceSettings(manifest, d, v) ==
    LET ForService(id) == IF id \in DOMAIN v.cpuOverrides THEN v.cpuOverrides[id] ELSE v.cpu
        Targets(r) == {c \in Scalable(d) : c.key = r.key}
        Sized(r) == IF r.kind # "workload" THEN r
                    ELSE [r EXCEPT !.cpu = IF Targets(r) = {} THEN ""
                                           ELSE ForService((CHOOSE c \in Targets(r) : TRUE).id)]
    IN IF /\ DOMAIN v.cpuOverrides \subseteq {c.id : c \in Scalable(d)}
          /\ \A c \in d.components : \E r \in Resources(manifest) : r.key = c.key
       THEN Passed(MapSeq(Sized, manifest))
       ELSE Refused

inspectManifest(manifest, d) ==
    /\ \A j, k \in DOMAIN manifest : manifest[j].key = manifest[k].key => j = k
    /\ \A c \in d.components :
          \E r \in Resources(manifest) :
             r.key = c.key /\ r.group = d.group /\ r.component = c.id

Inspect(manifest, d, v) ==
    LET overlaid == applyOverlays(manifest, d.overlays)
        stored == Then(overlaid, LAMBDA m : applyStorageClassMappings(m, d.mappings))
        imaged == Then(stored, LAMBDA m : applyImageMappings(m, d.images))
        whole == Then(imaged, LAMBDA m : materializeManifest(m, d))
        scaled == Then(whole, LAMBDA m : applyReplicaSettings(m, d, v))
        sized == Then(scaled, LAMBDA m : applyResourceSettings(m, d, v))
    IN Then(sized, LAMBDA m : IF inspectManifest(m, d) THEN Passed(m) ELSE Refused)

(***************************************************************************)
(* The step.  Precheck and Execute fetch and transform the package anew;   *)
(* Verify inspects the result again.                                       *)
(***************************************************************************)
resolveValues == {"values against the schema"}
resolve == {"configuration is not JSON", "unknown application"} \cup resolveValues
applyOverlayOperation == {"overlay value unavailable", "overlay path"}
PackageFlaws == {"package type", "load script", "transformation"} \cup applyOverlayOperation

fetchPackage == <<Probe, Probe, Reject({"load script"})>>

Validate == <<Reject(resolve)>>
Transform == fetchPackage \o <<Reject(applyOverlayOperation), Reject({"transformation"})>>
Precheck == <<Reject({"package type"})>> \o Transform
Execute == Transform
validLoadScenarios == <<Reject({"load script"})>>
Verify == validLoadScenarios \o <<Reject({"transformation"})>>

Plugin ==
    [objects |-> {}, start |-> {<<>>}, shared |-> {}, unmarked |-> {}, drifts |-> {}, keeps |-> {}, provides |-> {},
     mutating |-> FALSE, cleanable |-> FALSE, flaws |-> resolve \cup PackageFlaws,
     validate |-> Validate, precheck |-> Precheck, execute |-> Execute, verify |-> Verify,
     cleanup |-> <<>>, undo |-> <<>>, cleanupPrecheck |-> <<>>, cleanupVerify |-> <<>>]

=============================================================================
