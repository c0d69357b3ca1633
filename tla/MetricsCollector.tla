-------------------------- MODULE MetricsCollector --------------------------
(***************************************************************************)
(* plugins/metrics-collector: the dataset of a trial, read from the        *)
(* Prometheus of each of its clusters.  The step only reads; what can go   *)
(* wrong is that it reports events that did not happen or drops those that *)
(* did.  Counters restart at zero with their process and samples may be    *)
(* missing: the reconstruction of what happened from samples is modelled   *)
(* as functions.  A mean is kept as its weighted sum.                      *)
(***************************************************************************)
EXTENDS PluginScripts

None == -1
Numbers(f) == LET sum[k \in 0 .. Len(f)] == IF k = 0 THEN 0 ELSE sum[k - 1] + f[k] IN sum[Len(f)]

(***************************************************************************)
(* Counters.  A sample is [count, sum], None where the value is missing;   *)
(* a source is the sequence of its samples, one for each timestamp.        *)
(* fresh: the counter belongs to this run and started at zero.             *)
(***************************************************************************)

(* One counter.  The first point of the series only sets the baseline      *)
(* unless the counter is fresh, also when that point is not a valid value  *)
(* (negative here) and is skipped; a decrease is a restart.  None is no    *)
(* point at all.                                                           *)
counterChange(walk, value, fresh) ==
    IF value = None THEN [walk EXCEPT !.change = 0]
    ELSE IF value < 0 THEN [walk EXCEPT !.first = FALSE, !.change = 0]
    ELSE [previous |-> value, first |-> FALSE,
          change |-> IF walk.first /\ ~ fresh THEN 0
                     ELSE IF value < walk.previous THEN value ELSE value - walk.previous]

counterChanges(values, fresh) ==
    LET walk[t \in 0 .. Len(values)] ==
            IF t = 0 THEN [previous |-> 0, first |-> TRUE, change |-> 0]
            ELSE counterChange(walk[t - 1], values[t], fresh)
    IN  [t \in 1 .. Len(values) |-> walk[t].change]

cumulativeCounterSeries(sources, fresh) ==
    LET changes == [s \in DOMAIN sources |-> counterChanges(sources[s], fresh)]
    IN  [t \in DOMAIN sources[1] |->
            Numbers([s \in DOMAIN sources |-> Numbers(SubSeq(changes[s], 1, t))])]

(* Mutant: a decrease of the count alone is a restart.                     *)
durationChangeByCount(walk, sample, fresh) ==
    IF None \in {sample.count, sample.sum} THEN [walk EXCEPT !.change = [count |-> 0, sum |-> 0]]
    ELSE [count |-> sample.count, sum |-> sample.sum, seen |-> TRUE,
          change |-> IF sample.count < walk.count THEN sample
                     ELSE [count |-> sample.count - walk.count, sum |-> sample.sum - walk.sum]]

(* A count and a sum of durations: a sample without both is skipped, a     *)
(* decrease of either is a restart of both.                                *)
durationChange(walk, sample, fresh) ==
    IF None \in {sample.count, sample.sum} THEN [walk EXCEPT !.change = [count |-> 0, sum |-> 0]]
    ELSE [count |-> sample.count, sum |-> sample.sum, seen |-> TRUE,
          change |-> IF ~ walk.seen /\ ~ fresh THEN [count |-> 0, sum |-> 0]
                     ELSE IF sample.count < walk.count \/ sample.sum < walk.sum THEN sample
                     ELSE [count |-> sample.count - walk.count, sum |-> sample.sum - walk.sum]]

durationChanges(samples, fresh) ==
    LET walk[t \in 0 .. Len(samples)] ==
            IF t = 0 THEN [count |-> 0, sum |-> 0, seen |-> FALSE, change |-> [count |-> 0, sum |-> 0]]
            ELSE durationChange(walk[t - 1], samples[t], fresh)
    IN  [t \in 1 .. Len(samples) |-> walk[t].change]

(* The sources are added up for each timestamp; a timestamp without an     *)
(* event has no point, and its duration is left out as well.               *)
durationCounterSeries(sources, fresh) ==
    LET changes == [s \in DOMAIN sources |-> durationChanges(sources[s], fresh)]
        Counted(t) == Numbers([s \in DOMAIN sources |-> changes[s][t].count])
        Lasted(t) == Numbers([s \in DOMAIN sources |-> changes[s][t].sum])
        times == {t \in DOMAIN sources[1] : Counted(t) > 0}
    IN  [points |-> [t \in times |-> [count |-> Counted(t), sum |-> Lasted(t)]],
         count |-> Numbers([t \in DOMAIN sources[1] |-> IF t \in times THEN Counted(t) ELSE 0]),
         total |-> Numbers([t \in DOMAIN sources[1] |-> IF t \in times THEN Lasted(t) ELSE 0])]

(* The summary of one cluster whose only source has these samples; the     *)
(* metric is unavailable when the source has no counts or no sums.         *)
durationSummary(samples, fresh) ==
    LET series == durationCounterSeries(<<samples>>, fresh)
        Read(field) == \E t \in DOMAIN samples : samples[t][field] # None
    IN  CASE ~ Read("count") \/ ~ Read("sum") -> [status |-> "unavailable", count |-> None, sum |-> None, total |-> None]
          [] Read("count") /\ Read("sum") /\ series.count = 0 -> [status |-> "no_events", count |-> 0, sum |-> None, total |-> None]
          [] OTHER -> [status |-> "available", count |-> series.count, sum |-> series.total, total |-> None]

(***************************************************************************)
(* Latencies of pods: the last latency and the last completion of a pod    *)
(* count, completions outside of the window do not; the point is placed at *)
(* the end of its interval, never after the window.                        *)
(***************************************************************************)
podSchedulingSeries(scheduled, latency, start, end, resolution) ==
    LET counted == {p \in DOMAIN scheduled : p \in DOMAIN latency /\ scheduled[p] \in start .. end /\ latency[p] >= 0}
        At(p) == start + ((scheduled[p] - start + resolution - 1) \div resolution) * resolution
    IN  [p \in counted |-> [time |-> IF At(p) > end THEN end ELSE At(p), value |-> latency[p]]]

(***************************************************************************)
(* The summaries of one control metric in every cluster of a trial, of     *)
(* status "missing" where a cluster reports nothing about it.              *)
(***************************************************************************)
validateControlSummary(metric, s) ==
    /\ s.status \in {"available", "no_events", "unavailable", "not_configured"}
    /\ s.status = "available" =>
          IF metric = "descheduler.evictions" THEN s.total # None ELSE s.count > 0 /\ s.sum # None

mergeControlSummaries(metric, summaries) ==
    LET available == {k \in DOMAIN summaries : summaries[k].status = "available"}
        Added(field) == Numbers([k \in DOMAIN summaries |->
                            IF k \in available /\ summaries[k][field] # None THEN summaries[k][field] ELSE 0])
    IN  IF \E k \in DOMAIN summaries : summaries[k].status \in {"missing", "unavailable"}
        THEN [status |-> "unavailable", count |-> None, sum |-> None, total |-> None]
        ELSE IF available = {} THEN summaries[1]
        ELSE IF metric = "descheduler.evictions"
        THEN [status |-> "available", count |-> None, sum |-> None, total |-> Added("total")]
        ELSE [status |-> "available", count |-> Added("count"), sum |-> Added("sum"), total |-> None]

(* Series of metrics without an available summary are dropped.             *)
KeptSeries(merged, reporting) == IF merged.status = "available" THEN reporting ELSE {}

(***************************************************************************)
(* The configured load at a time: the step it falls into.                  *)
(***************************************************************************)
configuredStep(durations, elapsed) ==
    LET Ends(k) == Numbers(SubSeq(durations, 1, k))
        after == {k \in DOMAIN durations : elapsed < Ends(k)}
    IN  IF after = {} THEN None ELSE CHOOSE k \in after : \A l \in after : k <= l

(* Every second when the load varies, but never more than maximumPoints.   *)
maximumPoints == 20000
configuredSeriesResolution(variable, window, resolution) ==
    IF ~ variable \/ resolution <= 1 THEN resolution
    ELSE IF window <= maximumPoints THEN 1
    ELSE (window + maximumPoints - 1) \div maximumPoints

(* The window of the completed load, else the time before the call.        *)
metricWindow(started, completed, now, fallback) ==
    IF started # None /\ completed # None /\ completed > started
    THEN <<started, completed>> ELSE <<now - fallback, now>>

(***************************************************************************)
(* The step                                                                *)
(***************************************************************************)
SpecFlaws == {"configuration is not JSON", "reference is no artifact", "reference repeated", "window", "resolution", "slo"}
Validate == <<Reject(SpecFlaws)>>
resolve == {"artifact missing", "no metrics endpoint"}
validateArtifacts == {"cluster identity", "foreign kubeconfig", "deployment identity", "capability identity", "endpoint"}
validateLoadSession == {"load session not completed"}
metricPeerStep == {"peer artifact missing", "peer identity"}

(* API readiness, the permission to use the proxy, the marker of the       *)
(* namespace, readiness of the metrics service and a query of it.          *)
precheckSingle ==
    <<Reject(resolve), Reject(validateArtifacts), Reject(validateLoadSession),
      Probe, Probe, Check({"namespace"}, {"own"}), Check({"metrics"}, {"own"}), Check({"metrics"}, {"own"})>>

(* The queries of all definitions run side by side; the first that fails   *)
(* or finds no series ends the collection.                                 *)
deploymentMetricDefinitions == Check({"metrics"}, {"own"})

(* Control metrics that cannot be read are reported as unavailable.        *)
collectControlMetrics == Ignored(Check({"metrics"}, {"own"}))
executeSingle == <<Reject(resolve), deploymentMetricDefinitions, collectControlMetrics>>

validateDataset == {"dataset incomplete", "dataset summary", "sample outside of the window"}

Plugin ==
    [objects |-> {"namespace", "metrics"},
     start |-> [{"namespace", "metrics"} -> {"own", "other", "absent"}],
     shared |-> {}, unmarked |-> {}, drifts |-> {"namespace", "metrics"}, keeps |-> {}, provides |-> {},
     mutating |-> FALSE, cleanable |-> FALSE,
     flaws |-> SpecFlaws \cup resolve \cup validateArtifacts \cup validateLoadSession \cup metricPeerStep \cup validateDataset,
     validate |-> Validate,
     precheck |-> precheckSingle \o <<Reject(metricPeerStep)>> \o precheckSingle,
     execute |-> executeSingle \o <<Reject(metricPeerStep)>> \o executeSingle,
     verify |-> <<Reject(resolve), Reject(validateDataset)>>,
     cleanup |-> <<>>, undo |-> <<>>, cleanupPrecheck |-> <<>>, cleanupVerify |-> <<>>]

=============================================================================
