--------------------------- MODULE CircuitBreaker ---------------------------
(***************************************************************************)
(* The circuit breaker of one provider (cmd/cortex-gateway/internal/proxy/ *)
(* circuit_breaker.go) and the requests that pass it (pipeline.go,         *)
(* ServeHTTP).  A request asks Allow, runs for a while, and reports its    *)
(* result with Record; between the two the breaker may have changed its    *)
(* state any number of times.                                              *)
(*                                                                         *)
(* Urgent requests (an operator impulse, a directly addressed agent) do    *)
(* not ask Allow and do report.  A request that is answered without the    *)
(* provider after Allow (guardrails, synthesis, interception) and one that *)
(* is refused before provider I/O (ProviderAdmissionError) report nothing. *)
(*                                                                         *)
(* Time is counted in ticks.  A record keeps its age instead of its date,  *)
(* which stops at the first age the window no longer holds, and openedAt   *)
(* is the age of the open state, which stops at OpenTicks.  The failure    *)
(* ratio is RatioNum / RatioDen.  The breaker is enabled                   *)
(* (SENTINEL_CORTEX_CB_ENABLED).                                           *)
(***************************************************************************)
EXTENDS Integers, Sequences, FiniteSets

CONSTANTS
    Request,            \* concurrent requests
    WindowTicks,        \* BreakerConfig.WindowSeconds
    MinRequests,
    RatioNum, RatioDen, \* BreakerConfig.FailureRatio
    FailureThreshold,
    OpenTicks,          \* BreakerConfig.OpenSeconds
    HalfOpenProbes,
    MaxRecords          \* bound: records in the window

ASSUME BreakerAssumption ==
    /\ {WindowTicks, MinRequests, RatioNum, RatioDen, FailureThreshold, OpenTicks,
        HalfOpenProbes, MaxRecords} \subseteq Nat \ {0}
    /\ RatioNum <= RatioDen
    /\ MinRequests <= MaxRecords

VARIABLES
    state, records, consecutive, openAge, probeCount,
    pc,         \* where each request is in ServeHTTP
    probes,     \* history: requests Allow let through in this half-open period
    proven,     \* history: successes of such requests in this period
    fresh,      \* history: failures recorded since the breaker last closed
    healthy     \* the provider answers every request without a failure

breaker == <<state, records, consecutive, openAge, probeCount>>
history == <<probes, proven, fresh>>
vars == <<breaker, pc, history, healthy>>

RequestRecord == [age : 0..(WindowTicks + 1), failed : BOOLEAN]

TypeOK ==
    /\ state \in {"closed", "open", "half-open"}
    /\ records \in Seq(RequestRecord) /\ Len(records) <= MaxRecords
    /\ consecutive \in 0..FailureThreshold
    /\ openAge \in 0..OpenTicks
    /\ probeCount \in 0..HalfOpenProbes
    /\ pc \in [Request -> {"idle", "arrived", "allowed", "sending"}]
    /\ probes \subseteq Request
    /\ proven \in 0..HalfOpenProbes
    /\ fresh \in 0..FailureThreshold
    /\ healthy \in BOOLEAN

Init ==
    /\ state = "closed"
    /\ records = <<>>
    /\ consecutive = 0
    /\ openAge = 0
    /\ probeCount = 0
    /\ pc = [r \in Request |-> "idle"]
    /\ probes = {}
    /\ proven = 0
    /\ fresh = 0
    /\ healthy = TRUE

Goto(r, label) == pc' = [pc EXCEPT ![r] = label]

AtMost(n, bound) == IF n < bound THEN n ELSE bound

-----------------------------------------------------------------------------
(* Allow                                                                   *)

AllowClosed(r) ==
    /\ pc[r] = "arrived"
    /\ state = "closed"
    /\ Goto(r, "allowed")
    /\ UNCHANGED <<breaker, history, healthy>>

Deny(r) ==
    /\ pc[r] = "arrived"
    /\ IF state = "half-open"
       THEN probeCount >= HalfOpenProbes
       ELSE state = "open" /\ openAge < OpenTicks
    /\ Goto(r, "idle")
    /\ UNCHANGED <<breaker, history, healthy>>

\* The open time is over: the first request makes the breaker half-open.
AllowExpired(r) ==
    /\ pc[r] = "arrived"
    /\ state = "open"
    /\ openAge >= OpenTicks
    /\ state' = "half-open"
    /\ probeCount' = 0
    /\ probes' = {r}
    /\ proven' = 0
    /\ Goto(r, "allowed")
    /\ UNCHANGED <<records, consecutive, openAge, fresh, healthy>>

AllowProbe(r) ==
    /\ pc[r] = "arrived"
    /\ state = "half-open"
    /\ probeCount < HalfOpenProbes
    /\ probes' = probes \cup {r}
    /\ Goto(r, "allowed")
    /\ UNCHANGED <<breaker, proven, fresh, healthy>>

-----------------------------------------------------------------------------
(* Record                                                                  *)

\* pruneWindow: drop the records older than the window, from the front.
Outdated(rs) == {i \in DOMAIN rs : \A j \in 1..i : rs[j].age > WindowTicks}

Pruned(rs) == SubSeq(rs, Cardinality(Outdated(rs)) + 1, Len(rs))

ShouldTrip(n, rs) ==
    \/ n >= FailureThreshold
    \/ /\ Len(rs) >= MinRequests
       /\ Cardinality({i \in DOMAIN rs : rs[i].failed}) * RatioDen >= RatioNum * Len(rs)

TripOpen ==
    /\ state' = "open"
    /\ openAge' = 0
    /\ probeCount' = 0
    /\ probes' = {}
    /\ proven' = 0

RecordClosed(failed) ==
    /\ state = "closed"
    /\ LET rs == Pruned(Append(records, [age |-> 0, failed |-> failed]))
           n == IF failed THEN consecutive + 1 ELSE 0
       IN  /\ Len(rs) <= MaxRecords
           /\ records' = rs
           /\ consecutive' = n
           /\ fresh' = AtMost(fresh + (IF failed THEN 1 ELSE 0), FailureThreshold)
           /\ IF ShouldTrip(n, rs) THEN TripOpen
              ELSE UNCHANGED <<state, openAge, probeCount, probes, proven>>

RecordProbeFailure ==
    /\ state = "half-open"
    /\ TripOpen
    /\ UNCHANGED <<records, consecutive, fresh>>

\* Mutant: closing keeps the failures counted before the breaker opened.
RecordProbeSuccessKeeps(r) ==
    /\ state = "half-open"
    /\ probeCount' = probeCount + 1
    /\ IF probeCount + 1 >= HalfOpenProbes
       THEN /\ state' = "closed"
            /\ probes' = {}
            /\ fresh' = 0
       ELSE /\ probes' = probes \ {r}
            /\ UNCHANGED <<state, fresh>>
    /\ proven' = proven + (IF r \in probes THEN 1 ELSE 0)
    /\ UNCHANGED <<openAge, records, consecutive>>

\* Mutant: one probe too many is asked for, which Allow never lets through.
RecordProbeSuccessOneMore(r) ==
    /\ state = "half-open"
    /\ probeCount' = probeCount + 1
    /\ IF probeCount + 1 > HalfOpenProbes
       THEN /\ state' = "closed"
            /\ records' = <<>>
            /\ consecutive' = 0
            /\ probes' = {}
            /\ fresh' = 0
       ELSE /\ probes' = probes \ {r}
            /\ UNCHANGED <<state, records, consecutive, fresh>>
    /\ proven' = AtMost(proven + (IF r \in probes THEN 1 ELSE 0), HalfOpenProbes)
    /\ UNCHANGED openAge

RecordProbeSuccess(r) ==
    /\ state = "half-open"
    /\ probeCount' = probeCount + 1
    /\ IF probeCount + 1 >= HalfOpenProbes
       THEN /\ state' = "closed"
            /\ records' = <<>>
            /\ consecutive' = 0
            /\ probes' = {}
            /\ fresh' = 0
       ELSE /\ probes' = probes \ {r}
            /\ UNCHANGED <<state, records, consecutive, fresh>>
    /\ proven' = proven + (IF r \in probes THEN 1 ELSE 0)
    /\ UNCHANGED openAge

\* An answer that arrives while the breaker is open is ignored.
RecordOpen ==
    /\ state = "open"
    /\ UNCHANGED <<breaker, history>>

\* The provider's answer is in: isCircuitBreakerFailure(err) or not.
Answer(r, failed) ==
    /\ pc[r] = "sending"
    /\ failed => ~ healthy
    /\ \/ RecordClosed(failed)
       \/ failed /\ RecordProbeFailure
       \/ ~ failed /\ RecordProbeSuccess(r)
       \/ RecordOpen
    /\ Goto(r, "idle")
    /\ UNCHANGED healthy

-----------------------------------------------------------------------------
(* The requests around the breaker, and time                               *)

Arrive(r) ==
    /\ pc[r] = "idle"
    /\ Goto(r, "arrived")
    /\ UNCHANGED <<breaker, history, healthy>>

\* isUrgent: the breaker is not asked.
ArriveUrgent(r) ==
    /\ pc[r] = "idle"
    /\ Goto(r, "allowed")
    /\ UNCHANGED <<breaker, history, healthy>>

Send(r) ==
    /\ pc[r] = "allowed"
    /\ Goto(r, "sending")
    /\ UNCHANGED <<breaker, history, healthy>>

\* Answered without the provider, or refused before provider I/O: no report.
Unsent(r) ==
    /\ pc[r] \in {"allowed", "sending"}
    /\ Goto(r, "idle")
    /\ probes' = probes \ {r}
    /\ UNCHANGED <<breaker, proven, fresh, healthy>>

Tick ==
    /\ records' = [i \in DOMAIN records |->
                     [records[i] EXCEPT !.age = AtMost(@ + 1, WindowTicks + 1)]]
    /\ openAge' = IF state = "open" THEN AtMost(openAge + 1, OpenTicks) ELSE openAge
    /\ UNCHANGED <<state, consecutive, probeCount, pc, history, healthy>>

ProviderHealth ==
    /\ healthy' = ~ healthy
    /\ UNCHANGED <<breaker, pc, history>>

-----------------------------------------------------------------------------
Allow(r) == AllowClosed(r) \/ Deny(r) \/ AllowExpired(r) \/ AllowProbe(r)

Next ==
    \/ \E r \in Request :
         \/ Arrive(r) \/ ArriveUrgent(r) \/ Allow(r) \/ Send(r) \/ Unsent(r)
         \/ \E failed \in BOOLEAN : Answer(r, failed)
    \/ Tick
    \/ ProviderHealth

Spec == Init /\ [][Next]_vars

\* Handlers run, the provider's timeout ends every call, time passes.
Fairness ==
    /\ \A r \in Request :
         /\ WF_vars(Allow(r))
         /\ WF_vars(Send(r) \/ Unsent(r))
         /\ WF_vars(\E failed \in BOOLEAN : Answer(r, failed))
    /\ WF_vars(Tick)

LiveSpec == Spec /\ Fairness

-----------------------------------------------------------------------------
(* Properties                                                              *)

\* A breaker that has closed again opens on fresh evidence only: at least as
\* many failures since then as the threshold, or as the ratio asks of
\* MinRequests requests.  The failures that opened it the last time, and late
\* answers that arrived in between, count for nothing.
OpensOnFreshFailures ==
    [][state = "closed" /\ state' = "open" =>
         \/ fresh' >= FailureThreshold
         \/ fresh' * RatioDen >= RatioNum * MinRequests]_vars

\* A provider that stays healthy is used again: if requests keep arriving and
\* are sent on, the breaker ends up closed, whatever was in flight before.
Recovers ==
    /\ <>[]healthy
    /\ []<>(\E r \in Request : pc[r] = "arrived")
    /\ <>[][\A r \in Request : ~ Unsent(r)]_vars
    => <>[](state = "closed")

\* The comment on StateHalfOpen says that it lets "limitierte Probe-Requests"
\* through, the one on Allow that it is true below the HalfOpenProbes limit:
\* never more probes on their way than that.
LimitedProbes == Cardinality(probes) <= HalfOpenProbes

\* probeCount is commented as the successful probes in half-open: the breaker
\* closes on the successes of requests it let through as probes.
ProbesProveRecovery ==
    [][state = "half-open" /\ state' = "closed" => proven' >= HalfOpenProbes]_vars
=============================================================================
