-------------------------- MODULE ImagePublishing --------------------------
(***************************************************************************)
(* plugins/oci-build and plugins/strategy-image: steps that leave an image *)
(* in the managed registry.  Both pin what they publish by digest.  Their  *)
(* Cleanup depends on the result of the execution, which a cleanup         *)
(* operation does not have: see CleanupWithoutResult.                      *)
(***************************************************************************)
EXTENDS PluginScripts

Image == {"image"}

(* A call that reads the result of the execution, when there is none.      *)
NoResult == Instruction({}, Image, {}, Same)

(***************************************************************************)
(* plugins/oci-build: fetch a commit, build it on the executor, publish.   *)
(***************************************************************************)
validateSpec == {"repository URL", "commit", "context path", "image name"}
safeRelativePath == {"path leaves the repository"}
validateResolved == {"registry endpoint", "registry credential", "artifacts of two registries"}
validateGitHost == {"git host not allowed"}
configuredRunner == {"executor not configured", "executor not allowed to use the registry"}

(* The fetched sources: the commit itself, the paths inside of it, the     *)
(* limits of the build context.                                            *)
buildPaths == {"context or Dockerfile missing", "link out of the context"}
validateBuildContext == {"context too large"}

OciResolve == {"configuration is not JSON", "artifact missing"}
OciFlaws ==
    OciResolve \cup validateSpec \cup safeRelativePath \cup validateResolved \cup validateGitHost
      \cup configuredRunner \cup buildPaths \cup validateBuildContext

OciPrecheck ==
    <<Reject(OciResolve), Reject(validateResolved), Reject(validateGitHost), Reject(configuredRunner),
      Probe, Probe, Probe, Probe>>

(* Executor ready; fetch; build; then the copy to the registry, and the    *)
(* digest it got there.                                                    *)
Build ==
    <<Reject(OciResolve), Reject(validateGitHost), Reject(configuredRunner), Probe, Probe,
      Reject(buildPaths), Reject(validateBuildContext), Probe, Probe, Apply(Image), Check(Image, {"own"})>>

OciVerify == <<Reject(OciResolve), Check(Image, {"own"})>>

(* The temporary files are gone with the build; the image stays.           *)
OciCleanup == <<Reject(OciResolve)>>

(* Verify has no branch for a cleanup: it decodes the result it lacks.     *)
OciCleanupVerify == <<Reject(OciResolve), NoResult>>

OciBuild ==
    [objects |-> Image, start |-> {[image |-> "absent"]}, shared |-> {}, unmarked |-> {}, drifts |-> Image,
     keeps |-> Image, provides |-> Image, mutating |-> TRUE, cleanable |-> TRUE, flaws |-> OciFlaws,
     validate |-> <<Reject({"configuration is not JSON"}), Reject(validateSpec \cup safeRelativePath)>>,
     precheck |-> OciPrecheck, execute |-> Build, verify |-> OciVerify,
     cleanup |-> OciCleanup, undo |-> OciCleanup,
     cleanupPrecheck |-> OciPrecheck, cleanupVerify |-> OciCleanupVerify]

(***************************************************************************)
(* plugins/strategy-image: mirror a public image of a strategy.            *)
(***************************************************************************)
StrategyResolve == {"artifact missing"}
validateImageReference == {"configuration is not JSON", "name", "kind", "image reference"}
validateRegistry == {"registry endpoint", "registry credential"}

StrategyPrecheck == <<Reject(StrategyResolve), Reject(validateRegistry), Probe>>
StrategyExecute == <<Reject(StrategyResolve), Probe, Apply(Image), Check(Image, {"own"})>>
StrategyVerify == <<Reject(StrategyResolve), Check(Image, {"own"})>>

(* With the result of the execution the mirrored image is deleted.  Without*)
(* one there is no name to delete and the call ends well.                  *)
CleanupWithResult == <<Reject(StrategyResolve), Delete(Image)>>
CleanupWithoutResult == <<Reject(StrategyResolve)>>

StrategyImage ==
    [objects |-> Image, start |-> {[image |-> "absent"]}, shared |-> {}, unmarked |-> {}, drifts |-> Image,
     keeps |-> {}, provides |-> Image, mutating |-> TRUE, cleanable |-> TRUE,
     flaws |-> StrategyResolve \cup validateImageReference \cup validateRegistry,
     validate |-> <<Reject(validateImageReference)>>,
     precheck |-> StrategyPrecheck, execute |-> StrategyExecute, verify |-> StrategyVerify,
     cleanup |-> CleanupWithoutResult, undo |-> CleanupWithResult,
     cleanupPrecheck |-> <<Reject(StrategyResolve), Reject(validateRegistry)>>,
     cleanupVerify |-> <<Reject(StrategyResolve)>>]

=============================================================================
