--------------------------- MODULE RequestMetrics ---------------------------
(***************************************************************************)
(* MetricsInterceptor and MetricsService.  The interceptor records every   *)
(* request that reaches it, after its handler, with the status the         *)
(* response has by then: the status of success, for the exception filter   *)
(* sets that of a failure later.  A request that a guard refuses, or that  *)
(* has no route, does not reach it.                                        *)
(*                                                                         *)
(* The sample of a route is kept sorted, and when it is full its first     *)
(* element, the smallest, makes room.  A sample is a bag: duration to      *)
(* number of times.                                                        *)
(***************************************************************************)
EXTENDS Integers, FiniteSets, FiniteSetsExt, Functions

CONSTANTS
  Labels,       \* "method path" of the routes
  Durations,    \* in milliseconds
  Window,       \* the samples kept of a route, 1000 in the code
  MaxRequests   \* bounds the requests of a behaviour

ASSUME MetricsBounds == Window \in Nat \ {0} /\ MaxRequests \in Nat
ASSUME DurationsAreNumbers == Durations \subseteq Nat /\ IsFiniteSet(Durations)

VARIABLES
  counters,    \* each route: the requests counted under each status
  histograms,  \* each route: count, sum and sample
  handled,     \* history, each route: the durations of all handlers that ended
  latest,      \* history, each route: the duration of the last of them
  served       \* history: requests answered, with a failure or not, handled or not

metricsVars == <<counters, histograms, handled, latest, served>>

Statuses == {"success", "failure"}

NotYet == -1  \* no handler ended since the process started

BagSize(bag) == SumFunctionOnSet(bag, Durations)
BagTotal(bag) == SumFunctionOnSet([d \in Durations |-> d * bag[d]], Durations)
Above(bag, d) == SumFunctionOnSet(bag, {e \in Durations : e > d})
UpTo(bag, d) == SumFunctionOnSet(bag, {e \in Durations : e <= d})
EmptyBag == [d \in Durations |-> 0]
Smallest(bag) == Min({d \in Durations : bag[d] > 0})

MetricsTypeOK ==
  /\ counters \in [Labels -> [Statuses -> Nat]]
  /\ \A l \in Labels :
       /\ histograms[l].count \in Nat /\ histograms[l].sum \in Nat
       /\ histograms[l].values \in [Durations -> Nat]
       /\ BagSize(histograms[l].values) <= Window
  /\ handled \in [Labels -> [Durations -> Nat]]
  /\ latest \in [Labels -> Durations \cup {NotYet}]
  /\ served \in 0..MaxRequests

MetricsInit ==
  /\ counters = [l \in Labels |-> [s \in Statuses |-> 0]]
  /\ histograms = [l \in Labels |-> [count |-> 0, sum |-> 0, values |-> EmptyBag]]
  /\ handled = [l \in Labels |-> EmptyBag]
  /\ latest = [l \in Labels |-> NotYet]
  /\ served = 0

----------------------------------------------------------------------------
(***************************************************************************)
(* record                                                                  *)
(***************************************************************************)

IncrementCounter(l, status) ==
  counters' = [counters EXCEPT ![l][status] = @ + 1]

\* Faulty variant: the new duration makes room for itself.
Sampled_DropsNewest(values, d) ==
  IF BagSize(values) >= Window THEN values ELSE [values EXCEPT ![d] = @ + 1]

Sampled(values, d) ==
  LET room == IF BagSize(values) >= Window
                THEN [values EXCEPT ![Smallest(values)] = @ - 1] ELSE values
  IN  [room EXCEPT ![d] = @ + 1]

ObserveLatency(l, d) ==
  histograms' = [histograms EXCEPT ![l] =
    [count |-> @.count + 1, sum |-> @.sum + d, values |-> Sampled(@.values, d)]]

Record(l, status, d) == IncrementCounter(l, status) /\ ObserveLatency(l, d)

\* The handler of a request ended, well or with an exception.
HandlerEnds(l, d) ==
  /\ served < MaxRequests
  /\ Record(l, "success", d)
  /\ handled' = [handled EXCEPT ![l][d] = @ + 1]
  /\ latest' = [latest EXCEPT ![l] = d]
  /\ served' = served + 1

\* A guard refused it, or there was no route for it.
NotHandled ==
  /\ served < MaxRequests
  /\ served' = served + 1
  /\ UNCHANGED <<counters, histograms, handled, latest>>

MetricsRestart ==
  /\ counters' = [l \in Labels |-> [s \in Statuses |-> 0]]
  /\ histograms' = [l \in Labels |-> [count |-> 0, sum |-> 0, values |-> EmptyBag]]
  /\ handled' = [l \in Labels |-> EmptyBag]
  /\ latest' = [l \in Labels |-> NotYet]
  /\ UNCHANGED served

MetricsNext ==
  \/ \E l \in Labels, d \in Durations : HandlerEnds(l, d)
  \/ NotHandled \/ MetricsRestart

MetricsSpec == MetricsInit /\ [][MetricsNext]_metricsVars

----------------------------------------------------------------------------
(***************************************************************************)
(* snapshot and prometheusText                                             *)
(***************************************************************************)

\* The smallest duration that p percent of the sample do not exceed.
Percentile(values, p) ==
  IF BagSize(values) = 0 THEN 0
  ELSE LET index == Max({1, (p * BagSize(values) + 99) \div 100})
       IN  Min({d \in Durations : UpTo(values, d) >= index})

Snapshot(l) ==
  [total |-> counters[l]["success"] + counters[l]["failure"],
   byStatus |-> counters[l],
   count |-> histograms[l].count, sumMs |-> histograms[l].sum,
   p50Ms |-> Percentile(histograms[l].values, 50),
   p99Ms |-> Percentile(histograms[l].values, 99)]

\* The text for Prometheus has the same figures, for routes that were called.
PrometheusText == [l \in {k \in Labels : histograms[k].count > 0} |-> Snapshot(l)]

----------------------------------------------------------------------------
(***************************************************************************)
(* Properties                                                              *)
(***************************************************************************)

\* The largest n of a bag.
LargestOf(bag, n) ==
  [d \in Durations |-> Min({bag[d], IF Above(bag, d) >= n THEN 0 ELSE n - Above(bag, d)})]

\* What the metrics say of a route: every handler that ended is counted once,
\* under the status of success, and timed once; the percentiles are those of
\* the last duration and the Window - 1 largest ones before it, so that one
\* slow spell stays in them until the process ends.
MetricsRememberTheSlowest ==
  \A l \in Labels :
    LET before == IF latest[l] = NotYet THEN EmptyBag
                  ELSE [handled[l] EXCEPT ![latest[l]] = @ - 1]
        expected == IF latest[l] = NotYet THEN EmptyBag
                    ELSE [LargestOf(before, Window - 1) EXCEPT ![latest[l]] = @ + 1]
    IN  /\ histograms[l].values = expected
        /\ \A r \in {Snapshot(l)} \cup (IF l \in DOMAIN PrometheusText
                                          THEN {PrometheusText[l]} ELSE {}) :
             /\ r.total = BagSize(handled[l]) /\ r.count = r.total
             /\ r.byStatus["failure"] = 0
             /\ r.sumMs = BagTotal(handled[l])
             /\ r.p50Ms <= r.p99Ms
=============================================================================
