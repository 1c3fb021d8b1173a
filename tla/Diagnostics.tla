------------------------------ MODULE Diagnostics ------------------------------
(***************************************************************************)
(* What a support bundle is made of: the daemon's bounded log buffer, the  *)
(* latency figures, the snapshot and the bundles of akrazctl and of the    *)
(* application, with the sections each says are included or unavailable.   *)
(***************************************************************************)
EXTENDS Integers, Sequences, SequencesExt

CONSTANTS MaxMicros,  \* u64::MAX
          Capacity    \* of the log buffer

ASSUME DiagnosticsAssumption == MaxMicros \in Nat /\ Capacity \in Nat

Lesser(a, b) == IF a < b THEN a ELSE b

----
(* DaemonLogBuffer *)
NewLog == [entries |-> <<>>, next |-> 1]

Record(log, event) ==
    IF Capacity = 0 THEN log
    ELSE [entries |-> Append(IF Len(log.entries) = Capacity THEN Tail(log.entries)
                             ELSE log.entries,
                             [sequence |-> log.next, event |-> event]),
          next |-> log.next + 1]

Recorded(events) ==
    LET log[n \in 0..Len(events)] ==
            IF n = 0 THEN NewLog ELSE Record(log[n - 1], events[n])
    IN log[Len(events)]

LogTail(log, limit) ==
    LET n == Len(log.entries)
        taken == Lesser(Lesser(limit, Capacity), n)
    IN SubSeq(log.entries, n - taken + 1, n)

----
(* sort_unstable, taken as inserting one sample after the other, and sum *)
Sorted(samples) ==
    LET sorted[n \in 0..Len(samples)] ==
            IF n = 0 THEN <<>>
            ELSE LET s == sorted[n - 1]
                     below == {i \in DOMAIN s : s[i] <= samples[n]}
                 IN InsertAt(s, Cardinality(below) + 1, samples[n])
    IN sorted[Len(samples)]

Total(samples) ==
    LET sum[n \in 0..Len(samples)] == IF n = 0 THEN 0 ELSE sum[n - 1] + samples[n]
    IN sum[Len(samples)]

(* build_diagnostics_latency_histogram: div_ceil and the rounded average *)
Percentile(sorted, percent) ==
    LET rank == (Len(sorted) * percent + 99) \div 100
        index == Lesser(IF rank = 0 THEN 0 ELSE rank - 1, Len(sorted) - 1)
    IN Lesser(sorted[index + 1], MaxMicros)

Histogram(samples) ==
    LET sorted == Sorted(samples)
        n == Len(samples)
    IN [count |-> n, average |-> Lesser((Total(samples) + n \div 2) \div n, MaxMicros),
        p95 |-> Percentile(sorted, 95), p99 |-> Percentile(sorted, 99)]

----
(* build_diagnostics_snapshot: the sections it says are missing *)
SnapshotUnavailable(parts) == {"recentLogs"} \cup ({"screenTopology", "keyboardLayout"} \ parts)

(* A daemon's bundle: the optional parts it holds and its two lists.  The
   samples of status and permissions are always there. *)
Bundle(parts, logs, crash) ==
    [parts |-> parts, logs |-> logs, crash |-> crash, snapshot |-> TRUE, lifecycle |-> FALSE,
     included |-> {"runtimeEnvironment", "daemon", "permissions", "latencyHistogram"}
                  \cup ({"screenTopology", "keyboardLayout"} \cap parts)
                  \cup (IF logs # <<>> THEN {"recentLogs"} ELSE {})
                  \cup (IF crash THEN {"previousDaemonCrash"} ELSE {}),
     unavailable |-> SnapshotUnavailable(parts) \ (IF logs = <<>> THEN {} ELSE {"recentLogs"})]

(* AppDiagnosticsSupportBundle: the lifecycle was read before the bundle. *)
FromDaemonBundle(b, crashBefore) ==
    [b EXCEPT !.crash = @ \/ crashBefore, !.lifecycle = TRUE,
              !.included = @ \cup {"daemonLifecycle"}]

FromLifecycleOnly ==
    [parts |-> {}, logs |-> <<>>, crash |-> TRUE, snapshot |-> FALSE, lifecycle |-> TRUE,
     included |-> {"runtimeEnvironment", "daemonLifecycle", "previousDaemonCrash"},
     unavailable |-> {"daemon", "permissions", "screenTopology", "keyboardLayout",
                      "latencyHistogram", "recentLogs"}]

----
(* The log keeps the newest events, in order: its tail is the last of what
   was recorded, up to the limit and the capacity. *)
LogKeepsTheNewest ==
    \A k \in 0..(2 * Capacity + 1) :
        LET log == Recorded([i \in 1..k |-> i])
        IN \A limit \in 0..(Capacity + 2) :
             LET kept == Lesser(Lesser(limit, Capacity), k)
             IN LogTail(log, limit) =
                  [i \in 1..kept |-> [sequence |-> k - kept + i, event |-> k - kept + i]]

(* A percentile is the least sample that so many samples do not exceed; no
   figure leaves the range of the samples. *)
FiguresAreOfTheSamples(lists) ==
    \A samples \in lists :
        LET h == Histogram(samples)
            n == Len(samples)
            Within(v) == {i \in 1..n : samples[i] <= v}
            IsPercentile(v, percent) ==
                /\ \E i \in 1..n : Lesser(samples[i], MaxMicros) = v
                /\ v < MaxMicros => Cardinality(Within(v)) * 100 >= percent * n
                /\ Cardinality(Within(v - 1)) * 100 < percent * n
        IN /\ IsPercentile(h.p95, 95) /\ IsPercentile(h.p99, 99)
           /\ \E i, j \in 1..n : /\ Lesser(samples[i], MaxMicros) <= h.average
                                 /\ h.average <= Lesser(samples[j], MaxMicros)

(* A bundle holds what it lists as included, lists nothing twice, and says
   of every section of the daemon that it is there or that it is missing.
   A crash that was known when the bundle was asked for is in it; only when
   its marker went away in between is it there without being listed. *)
Holds(b) ==
    {"runtimeEnvironment"} \cup b.parts
    \cup (IF b.snapshot THEN {"daemon", "permissions", "latencyHistogram"} ELSE {})
    \cup (IF b.logs # <<>> THEN {"recentLogs"} ELSE {})
    \cup (IF b.crash THEN {"previousDaemonCrash"} ELSE {})
    \cup (IF b.lifecycle THEN {"daemonLifecycle"} ELSE {})

AddsUp(b) ==
    /\ b.included \subseteq Holds(b)
    /\ b.included \cap b.unavailable = {}
    /\ {"daemon", "permissions", "screenTopology", "keyboardLayout", "latencyHistogram",
        "recentLogs"} \subseteq b.included \cup b.unavailable

BundlesAddUp ==
    /\ AddsUp(FromLifecycleOnly) /\ FromLifecycleOnly.included = Holds(FromLifecycleOnly)
    /\ \A parts \in SUBSET {"screenTopology", "keyboardLayout"}, logs \in {<<>>, <<1>>},
          crash, crashBefore \in BOOLEAN :
         LET b == Bundle(parts, logs, crash)
             a == FromDaemonBundle(b, crashBefore)
         IN /\ AddsUp(b) /\ Holds(b) = b.included
            /\ AddsUp(a) /\ (crashBefore => "previousDaemonCrash" \in Holds(a))
            /\ Holds(a) # a.included => crashBefore /\ ~crash

DiagnosticsTell(lists) == LogKeepsTheNewest /\ FiguresAreOfTheSamples(lists) /\ BundlesAddUp
=============================================================================
