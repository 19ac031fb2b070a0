--------------------------- MODULE AnswersProofs ---------------------------
(***************************************************************************)
(* Proofs about what the gateway does with the answers of its providers:   *)
(* the circuit breaker, for any configuration and any number of requests,  *)
(* and the tick-sync buffer, for any number of responses, ticks, loops and *)
(* control-plane requests.                                                 *)
(***************************************************************************)
EXTENDS MCAnswers, FiniteSetTheorems, SequenceTheorems, TLAPS

-----------------------------------------------------------------------------
(* The circuit breaker.  Failures are counted in three places: in a row    *)
(* (consecutive), in the window (records), and since the breaker last      *)
(* closed (fresh).  Unless fresh has reached its bound, the first two are  *)
(* never ahead of it.                                                      *)

Failures(rs) == Cardinality({i \in DOMAIN rs : rs[i].failed})

CountsInv ==
    /\ state = "closed" => consecutive < FailureThreshold
    /\ state = "half-open" => probeCount < HalfOpenProbes
    /\ proven <= probeCount
    /\ fresh < FailureThreshold => consecutive <= fresh /\ Failures(records) <= fresh

BreakerInv == TypeOK /\ CountsInv

LEMMA UpTo ==
    ASSUME NEW n \in Nat
    PROVE  IsFiniteSet(1..n) /\ Cardinality(1..n) = n
  BY FS_Interval

LEMMA FailuresFinite ==
    ASSUME NEW rs \in Seq(RequestRecord)
    PROVE  /\ IsFiniteSet({i \in DOMAIN rs : rs[i].failed})
           /\ Failures(rs) \in Nat
  <1>1. DOMAIN rs = 1..Len(rs) /\ Len(rs) \in Nat
    OBVIOUS
  <1>2. IsFiniteSet(1..Len(rs))
    BY <1>1, FS_Interval
  <1>3. {i \in DOMAIN rs : rs[i].failed} \in SUBSET (1..Len(rs))
    BY <1>1
  <1>4. IsFiniteSet({i \in DOMAIN rs : rs[i].failed})
    BY <1>2, <1>3, FS_Subset
  <1> QED
    BY <1>4, FS_CardinalityType DEF Failures

\* One more record is at most one more failure.
LEMMA AppendedFailure ==
    ASSUME NEW rs \in Seq(RequestRecord), NEW x \in RequestRecord
    PROVE  Failures(Append(rs, x)) <= Failures(rs) + (IF x.failed THEN 1 ELSE 0)
  <1> DEFINE F == {i \in DOMAIN rs : rs[i].failed}
             n == Len(rs) + 1
             G == {i \in DOMAIN Append(rs, x) : Append(rs, x)[i].failed}
  <1>1. IsFiniteSet(F) /\ Failures(rs) = Cardinality(F) /\ Cardinality(F) \in Nat
    BY FailuresFinite DEF Failures
  <1>2. G \subseteq F \cup {n} /\ (~ x.failed => G \subseteq F)
    <2>1. DOMAIN Append(rs, x) = 1..n /\ DOMAIN rs = 1..Len(rs) /\ Len(rs) \in Nat
      OBVIOUS
    <2>2. \A i \in 1..n : Append(rs, x)[i] = IF i = n THEN x ELSE rs[i]
      OBVIOUS
    <2>3. \A i \in 1..n : i # n => i \in DOMAIN rs
      BY <2>1
    <2> QED
      BY <2>1, <2>2, <2>3
  <1> HIDE DEF F, G, n
  <1>3. IsFiniteSet(F \cup {n}) /\ Cardinality(F \cup {n}) \in Nat
          /\ Cardinality(F \cup {n}) <= Cardinality(F) + 1
    <2>1. /\ IsFiniteSet(F \cup {n})
          /\ Cardinality(F \cup {n}) = IF n \in F THEN Cardinality(F) ELSE Cardinality(F) + 1
      BY <1>1, FS_AddElement, Zenon
    <2> QED
      BY <1>1, <2>1
  <1>4. Cardinality(G) \in Nat /\ Cardinality(G) <= Cardinality(F \cup {n})
    BY <1>2, <1>3, FS_Subset, FS_CardinalityType
  <1>5. ~ x.failed => Cardinality(G) <= Cardinality(F)
    BY <1>1, <1>2, FS_Subset
  <1>6. Failures(Append(rs, x)) = Cardinality(G)
    BY DEF Failures, G
  <1> QED
    BY <1>1, <1>3, <1>4, <1>5, <1>6

\* pruneWindow keeps an end of the window, and no failure is counted twice.
LEMMA PrunedFailures ==
    ASSUME NEW rs \in Seq(RequestRecord)
    PROVE  /\ Pruned(rs) \in Seq(RequestRecord)
           /\ Len(Pruned(rs)) <= Len(rs)
           /\ Failures(Pruned(rs)) <= Failures(rs)
  <1> DEFINE d == Cardinality(Outdated(rs))
             r == Pruned(rs)
             F == {i \in DOMAIN rs : rs[i].failed}
             G == {i \in DOMAIN r : r[i].failed}
             f == [i \in G |-> d + i]
  <1>1. d \in 0..Len(rs)
    <2>1. Len(rs) \in Nat /\ Outdated(rs) \in SUBSET (1..Len(rs))
      BY DEF Outdated
    <2>2. IsFiniteSet(1..Len(rs)) /\ Cardinality(1..Len(rs)) = Len(rs)
      BY <2>1, UpTo
    <2>3. IsFiniteSet(Outdated(rs)) /\ d <= Len(rs)
      BY <2>1, <2>2, FS_Subset
    <2>4. d \in Nat
      BY <2>3, FS_CardinalityType
    <2> QED
      BY <2>1, <2>3, <2>4
  <1> HIDE DEF d
  <1>2. r = SubSeq(rs, d + 1, Len(rs))
    BY DEF Pruned, d
  <1> HIDE DEF r
  <1>3. /\ r \in Seq(RequestRecord) /\ Len(r) = Len(rs) - d
        /\ \A i \in 1..(Len(rs) - d) : r[i] = rs[d + i]
    <2>1. d + 1 \in Int /\ Len(rs) \in Int /\ \A i \in (d + 1)..Len(rs) : rs[i] \in RequestRecord
      BY <1>1
    <2>2. /\ r \in Seq(RequestRecord)
          /\ Len(r) = IF d + 1 <= Len(rs) THEN Len(rs) - (d + 1) + 1 ELSE 0
          /\ \A i \in 1..(Len(rs) - (d + 1) + 1) : r[i] = rs[(d + 1) + i - 1]
      BY <1>2, <2>1, SubSeqProperties
    <2>3. Len(rs) - (d + 1) + 1 = Len(rs) - d /\ \A i \in 1..(Len(rs) - d) : (d + 1) + i - 1 = d + i
      BY <1>1
    <2>4. Len(r) = Len(rs) - d
      BY <1>1, <2>2
    <2> QED
      BY <2>2, <2>3, <2>4
  <1>4. \A i \in G : i \in Nat /\ d + i \in F
    <2>1. DOMAIN r = 1..(Len(rs) - d) /\ DOMAIN rs = 1..Len(rs)
      BY <1>3
    <2>2. \A i \in DOMAIN r : i \in Nat /\ d + i \in DOMAIN rs
      BY <1>1, <2>1
    <2> QED
      BY <1>3, <2>1, <2>2
  <1>5. f \in Injection(G, F)
    <2> HIDE DEF F, G
    <2>1. f \in [G -> F]
      BY <1>4
    <2>2. \A i, j \in G : f[i] = f[j] => i = j
      BY <1>1, <1>4
    <2> QED
      BY <2>1, <2>2 DEF Injection, IsInjective
  <1>6. IsFiniteSet(F)
    BY FailuresFinite, Zenon
  <1> HIDE DEF f, F, G
  <1>7. Cardinality(G) <= Cardinality(F)
    BY <1>5, <1>6, FS_Injection
  <1>8. Failures(rs) = Cardinality(F) /\ Failures(r) = Cardinality(G)
    BY DEF Failures, F, G
  <1> QED
    BY <1>1, <1>3, <1>7, <1>8 DEF r

LEMMA BreakerInit == Init => BreakerInv
  <1> SUFFICES ASSUME Init PROVE BreakerInv
    OBVIOUS
  <1>1. TypeOK
    BY BreakerAssumption DEF Init, TypeOK
  <1>2. Failures(<<>>) = 0
    <2>1. {i \in DOMAIN <<>> : <<>>[i].failed} = {}
      OBVIOUS
    <2> QED
      BY <2>1, FS_EmptySet DEF Failures
  <1> QED
    BY <1>1, <1>2, BreakerAssumption DEF Init, BreakerInv, CountsInv

\* What an answer does to a closed breaker: the counts stay within fresh, and
\* if it opens, fresh is the evidence.
LEMMA ClosedKeeps ==
    ASSUME BreakerInv, NEW failed \in BOOLEAN, RecordClosed(failed),
           pc' \in [Request -> {"idle", "arrived", "allowed", "sending"}], healthy' = healthy
    PROVE  /\ BreakerInv'
           /\ state' = "open" =>
                \/ fresh' >= FailureThreshold
                \/ fresh' * RatioDen >= RatioNum * MinRequests
  <1> DEFINE x == [age |-> 0, failed |-> failed]
             a == Append(records, x)
             rs == Pruned(a)
             n == IF failed THEN consecutive + 1 ELSE 0
             k == IF failed THEN 1 ELSE 0
  <1>0. /\ {WindowTicks, MinRequests, RatioNum, RatioDen, FailureThreshold, HalfOpenProbes,
          OpenTicks} \subseteq Nat \ {0}
        /\ MaxRecords \in Nat
    BY BreakerAssumption
  <1>1. records \in Seq(RequestRecord) /\ x \in RequestRecord /\ x.failed = failed
    BY <1>0 DEF BreakerInv, TypeOK, RequestRecord
  <1>2. /\ rs \in Seq(RequestRecord)
        /\ Failures(rs) \in Nat /\ Failures(records) \in Nat
        /\ Failures(rs) <= Failures(records) + k
    <2>1. a \in Seq(RequestRecord)
      BY <1>1
    <2>2. Failures(a) <= Failures(records) + (IF x.failed THEN 1 ELSE 0)
      BY <1>1, AppendedFailure
    <2>3. rs \in Seq(RequestRecord) /\ Failures(rs) <= Failures(a)
      BY <2>1, PrunedFailures, Zenon
    <2>4. Failures(a) \in Nat /\ Failures(rs) \in Nat /\ Failures(records) \in Nat
      BY <1>1, <2>1, <2>3, FailuresFinite, Zenon
    <2> HIDE DEF x, a, rs
    <2> QED
      BY <1>1, <2>2, <2>3, <2>4
  <1>3. /\ state = "closed" /\ Len(rs) <= MaxRecords /\ records' = rs /\ consecutive' = n
        /\ fresh' = AtMost(fresh + k, FailureThreshold)
        /\ IF ShouldTrip(n, rs) THEN TripOpen
           ELSE UNCHANGED <<state, openAge, probeCount, probes, proven>>
    BY DEF RecordClosed
  <1> HIDE DEF rs, a, x
  <1>4. /\ consecutive \in Nat /\ consecutive < FailureThreshold
        /\ fresh \in 0..FailureThreshold /\ k \in {0, 1}
        /\ n \in 0..FailureThreshold /\ n <= consecutive + k
    BY <1>0, <1>3, SMTT(20) DEF BreakerInv, TypeOK, CountsInv
  <1> HIDE DEF n, k
  <1>5. /\ fresh' \in 0..FailureThreshold
        /\ fresh' < FailureThreshold => fresh' = fresh + k /\ fresh < FailureThreshold
    BY <1>0, <1>3, <1>4, SMTT(20) DEF AtMost
  <1>6. fresh' < FailureThreshold => n <= fresh' /\ Failures(rs) <= fresh'
    <2> SUFFICES ASSUME fresh' < FailureThreshold PROVE n <= fresh' /\ Failures(rs) <= fresh'
      OBVIOUS
    <2>1. consecutive <= fresh /\ Failures(records) <= fresh
      BY <1>5 DEF BreakerInv, CountsInv
    <2> QED
      BY <2>1, <1>2, <1>4, <1>5
  <1>7. CASE ShouldTrip(n, rs)
    <2>1. TripOpen
      BY <1>3, <1>7
    <2>2. BreakerInv'
      BY <2>1, <1>0, <1>2, <1>3, <1>4, <1>5, <1>6
         DEF TripOpen, BreakerInv, TypeOK, CountsInv
    <2>3. ASSUME fresh' < FailureThreshold PROVE fresh' * RatioDen >= RatioNum * MinRequests
      <3>1. n < FailureThreshold
        BY <1>0, <1>4, <1>5, <1>6, <2>3
      <3>2. Len(rs) >= MinRequests /\ Failures(rs) * RatioDen >= RatioNum * Len(rs)
        BY <1>0, <1>4, <1>7, <3>1 DEF ShouldTrip, Failures
      <3>3. \A u, v, w \in Nat : u <= v => u * w <= v * w
        OBVIOUS
      <3>4. Len(rs) \in Nat
        BY <1>2
      <3>5. Failures(rs) * RatioDen <= fresh' * RatioDen
        <4>1. Failures(rs) \in Nat /\ fresh' \in Nat /\ RatioDen \in Nat /\ Failures(rs) <= fresh'
          BY <1>0, <1>2, <1>5, <1>6, <2>3
        <4> QED
          BY ONLY <3>3, <4>1
      <3>6. RatioNum * MinRequests <= RatioNum * Len(rs)
        BY <3>3, <3>2, <3>4, <1>0
      <3>7. \A u, v \in Nat : u * v \in Nat
        OBVIOUS
      <3>8. {Failures(rs) * RatioDen, fresh' * RatioDen, RatioNum * MinRequests,
             RatioNum * Len(rs)} \subseteq Nat
        BY <3>4, <3>7, <1>0, <1>2, <1>5, SMTT(20)
      <3>9. \A t, u, v, w \in Nat : t >= u /\ t <= v /\ w <= u => v >= w
        OBVIOUS
      <3> QED
        BY <3>2, <3>5, <3>6, <3>8, <3>9
    <2> QED
      BY <2>2, <2>3, <1>0, <1>5
  <1>8. CASE ~ ShouldTrip(n, rs)
    <2>1. UNCHANGED <<state, openAge, probeCount, probes, proven>>
      BY <1>3, <1>8
    <2>2. n < FailureThreshold
      BY <1>0, <1>4, <1>8 DEF ShouldTrip
    <2>3. BreakerInv'
      BY <2>1, <2>2, <1>0, <1>2, <1>3, <1>4, <1>5, <1>6, Zenon
         DEF BreakerInv, TypeOK, CountsInv
    <2> QED
      BY <2>1, <2>3, <1>3
  <1> QED
    BY <1>7, <1>8

LEMMA BreakerStep ==
    ASSUME BreakerInv, [Next]_vars
    PROVE  /\ BreakerInv'
           /\ state = "closed" /\ state' = "open" =>
                \/ fresh' >= FailureThreshold
                \/ fresh' * RatioDen >= RatioNum * MinRequests
  <1>0. {WindowTicks, FailureThreshold, HalfOpenProbes, OpenTicks, MaxRecords} \subseteq Nat \ {0}
    BY BreakerAssumption
  <1>1. ASSUME NEW r \in Request,
               \/ Arrive(r) \/ ArriveUrgent(r) \/ AllowClosed(r) \/ Deny(r) \/ AllowProbe(r)
               \/ Send(r) \/ Unsent(r)
        PROVE  BreakerInv' /\ state' = state
    <2>1. /\ UNCHANGED <<breaker, proven, fresh, healthy>>
          /\ probes' \in {probes, probes \cup {r}, probes \ {r}}
          /\ \E l \in {"idle", "arrived", "allowed", "sending"} : pc' = [pc EXCEPT ![r] = l]
      BY <1>1 DEF Arrive, ArriveUrgent, AllowClosed, Deny, AllowProbe, Send, Unsent, Goto, history
    <2>2. UNCHANGED <<state, records, consecutive, openAge, probeCount>>
      BY <2>1 DEF breaker
    <2> QED
      BY <2>1, <2>2 DEF BreakerInv, TypeOK, CountsInv
  <1>2. ASSUME NEW r \in Request, AllowExpired(r)
        PROVE  BreakerInv' /\ state' = "half-open"
    BY <1>0, <1>2 DEF AllowExpired, Goto, BreakerInv, TypeOK, CountsInv
  <1>3. ASSUME NEW r \in Request, NEW failed \in BOOLEAN, Answer(r, failed)
        PROVE  /\ BreakerInv'
               /\ state = "closed" /\ state' = "open" =>
                    \/ fresh' >= FailureThreshold
                    \/ fresh' * RatioDen >= RatioNum * MinRequests
    <2>1. pc' \in [Request -> {"idle", "arrived", "allowed", "sending"}] /\ healthy' = healthy
      BY <1>3 DEF Answer, Goto, BreakerInv, TypeOK
    <2>2. CASE RecordClosed(failed)
      BY <2>1, <2>2, ClosedKeeps
    <2>3. CASE RecordProbeFailure
      BY <1>0, <2>1, <2>3 DEF RecordProbeFailure, TripOpen, BreakerInv, TypeOK, CountsInv
    <2>4. CASE RecordProbeSuccess(r)
      <3>1. /\ state = "half-open" /\ probeCount \in Nat /\ probeCount < HalfOpenProbes
            /\ proven \in Nat /\ proven <= probeCount
        BY <2>4 DEF RecordProbeSuccess, BreakerInv, TypeOK, CountsInv
      <3>2. proven' \in Nat /\ proven' <= probeCount' /\ probeCount' = probeCount + 1
        BY <2>4, <3>1 DEF RecordProbeSuccess
      <3>3. CASE probeCount + 1 >= HalfOpenProbes
        <4>1. /\ state' = "closed" /\ records' = <<>> /\ consecutive' = 0 /\ probes' = {}
              /\ fresh' = 0 /\ openAge' = openAge
          BY <2>4, <3>3 DEF RecordProbeSuccess
        <4>2. {i \in DOMAIN <<>> : <<>>[i].failed} = {}
          OBVIOUS
        <4>3. Failures(records') = 0
          BY <4>1, <4>2, FS_EmptySet DEF Failures
        <4> QED
          BY <1>0, <2>1, <3>1, <3>2, <3>3, <4>1, <4>3 DEF BreakerInv, TypeOK, CountsInv
      <3>4. CASE ~ (probeCount + 1 >= HalfOpenProbes)
        <4>1. UNCHANGED <<state, records, consecutive, fresh, openAge>> /\ probes' \subseteq probes
          BY <2>4, <3>4 DEF RecordProbeSuccess
        <4> QED
          BY <1>0, <2>1, <3>1, <3>2, <3>4, <4>1 DEF BreakerInv, TypeOK, CountsInv
      <3> QED
        BY <3>3, <3>4
    <2>5. CASE RecordOpen
      BY <2>1, <2>5 DEF RecordOpen, breaker, history, BreakerInv, TypeOK, CountsInv
    <2> QED
      BY <1>3, <2>2, <2>3, <2>4, <2>5 DEF Answer
  <1>4. CASE Tick
    <2>1. records \in Seq(RequestRecord) /\ Len(records) <= MaxRecords
      BY DEF BreakerInv, TypeOK
    <2>2. /\ UNCHANGED <<state, consecutive, probeCount, pc, probes, proven, fresh, healthy>>
          /\ records' = [i \in DOMAIN records |->
                           [records[i] EXCEPT !.age = AtMost(@ + 1, WindowTicks + 1)]]
          /\ openAge' \in 0..OpenTicks
      BY <1>0, <1>4 DEF Tick, history, AtMost, BreakerInv, TypeOK
    <2>3. ASSUME NEW i \in DOMAIN records
          PROVE  records'[i] \in RequestRecord /\ records'[i].failed = records[i].failed
      <3>1. records[i] \in RequestRecord
        BY <2>1
      <3>2. AtMost(records[i].age + 1, WindowTicks + 1) \in 0..(WindowTicks + 1)
        BY <1>0, <3>1 DEF AtMost, RequestRecord
      <3>3. records'[i] = [records[i] EXCEPT !.age = AtMost(records[i].age + 1, WindowTicks + 1)]
        BY <2>2
      <3> QED
        BY <3>1, <3>2, <3>3 DEF RequestRecord
    <2>4. DOMAIN records' = 1..Len(records) /\ DOMAIN records = 1..Len(records) /\ Len(records) \in Nat
      BY <2>1, <2>2
    <2>5. records' \in Seq(RequestRecord) /\ Len(records') = Len(records)
      <3>1. records' \in [1..Len(records) -> RequestRecord]
        BY <2>2, <2>3, <2>4
      <3> QED
        BY <2>4, <3>1
    <2>6. Failures(records') = Failures(records)
      <3>1. {i \in DOMAIN records' : records'[i].failed} = {i \in DOMAIN records : records[i].failed}
        BY <2>3, <2>4
      <3> QED
        BY <3>1, Zenon DEF Failures
    <2> QED
      BY <1>0, <2>1, <2>2, <2>5, <2>6 DEF BreakerInv, TypeOK, CountsInv
  <1>5. CASE ProviderHealth
    BY <1>5 DEF ProviderHealth, breaker, history, BreakerInv, TypeOK, CountsInv
  <1>6. CASE UNCHANGED vars
    BY <1>6 DEF vars, breaker, history, BreakerInv, TypeOK, CountsInv
  <1> QED
    BY <1>1, <1>2, <1>3, <1>4, <1>5, <1>6, Zenon DEF Next, Allow

\* A breaker that closed again opens on new failures only (Record, shouldTrip):
\* as many as the threshold, or as the ratio asks of MinRequests requests.
\* What was counted before it closed, and answers that came while it was open,
\* count for nothing, for every configuration and any number of requests.
THEOREM OpensOnNewFailures == Spec => OpensOnFreshFailures
  <1>1. Init => BreakerInv
    BY BreakerInit
  <1>2. BreakerInv /\ [Next]_vars => BreakerInv'
    BY BreakerStep
  <1>3. BreakerInv /\ [Next]_vars =>
          [state = "closed" /\ state' = "open" =>
             \/ fresh' >= FailureThreshold
             \/ fresh' * RatioDen >= RatioNum * MinRequests]_vars
    BY BreakerStep
  <1> QED
    BY <1>1, <1>2, <1>3, PTL DEF Spec, OpensOnFreshFailures

\* A half-open breaker lets every request through: the limit in Allow, which
\* counts successful answers, is never reached while the state lasts, because
\* Record closes the breaker with the answer that would reach it.  So nobody
\* is refused for ever by a breaker that waits for probes nobody may send.
THEOREM HalfOpenNeverStuck == Spec => [](state = "half-open" => probeCount < HalfOpenProbes)
  <1>1. BreakerInv => (state = "half-open" => probeCount < HalfOpenProbes)
    BY DEF BreakerInv, CountsInv
  <1>2. BreakerInv /\ [Next]_vars => BreakerInv'
    BY BreakerStep
  <1> QED
    BY <1>1, <1>2, BreakerInit, PTL DEF Spec

-----------------------------------------------------------------------------
(* The tick-sync buffer.  A response is a place in the order in which a    *)
(* flush sorts; first, what sorting returns.                               *)

\* The instance has a name of its own for the standard operator.
LEMMA SameCardinality == \A S : Sync!Cardinality(S) = Cardinality(S)
  BY DEF Sync!Cardinality, Cardinality

\* Sorted lists every element once, in the order of flushEntries.
LEMMA SortedLists ==
    ASSUME NEW S \in SUBSET Response, IsFiniteSet(S)
    PROVE  /\ Sync!Sorted(S) \in Seq(S)
           /\ \A r \in S : \E i \in DOMAIN Sync!Sorted(S) : Sync!Sorted(S)[i] = r
           /\ \A i, j \in DOMAIN Sync!Sorted(S) :
                Sync!Sorted(S)[i] = Sync!Sorted(S)[j] => i = j
           /\ \A i, j \in DOMAIN Sync!Sorted(S) :
                Sync!Before(Sync!Sorted(S)[i], Sync!Sorted(S)[j]) => i < j
  <1> DEFINE n == Cardinality(S)
             Low(r) == {q \in S : Sync!Before(q, r)}
             f == [r \in S |-> Sync!Rank(S, r) + 1]
  <1>0. /\ \A r \in S : r \in Nat /\ TickOf[r] \in Nat
        /\ n \in Nat
    BY SyncAssumption, FS_CardinalityType, Zenon DEF Sync!ConstantsOK
  <1>1. /\ \A r \in S : ~ Sync!Before(r, r)
        /\ \A q, r \in S : q # r => Sync!Before(q, r) \/ Sync!Before(r, q)
        /\ \A p, q, r \in S : Sync!Before(p, q) /\ Sync!Before(q, r) => Sync!Before(p, r)
    BY <1>0 DEF Sync!Before
  <1>2. ASSUME NEW r \in S
        PROVE  /\ IsFiniteSet(Low(r)) /\ Sync!Rank(S, r) = Cardinality(Low(r))
               /\ Cardinality(Low(r)) \in Nat /\ Cardinality(Low(r)) < n
    <2>1. Low(r) \in SUBSET (S \ {r}) /\ IsFiniteSet(S \ {r}) /\ Cardinality(S \ {r}) = n - 1
      BY <1>1, FS_RemoveElement
    <2>2. IsFiniteSet(Low(r)) /\ Cardinality(Low(r)) <= n - 1
      BY <2>1, FS_Subset
    <2>3. Cardinality(Low(r)) \in Nat
      BY <2>2, FS_CardinalityType
    <2>4. Sync!Rank(S, r) = Cardinality(Low(r))
      BY SameCardinality DEF Sync!Rank
    <2> QED
      BY <1>0, <2>2, <2>3, <2>4
  <1>3. ASSUME NEW q \in S, NEW r \in S, Sync!Before(q, r)
        PROVE  Sync!Rank(S, q) < Sync!Rank(S, r)
    <2>1. Low(q) \in SUBSET Low(r) /\ q \in Low(r) /\ q \notin Low(q)
      BY <1>1, <1>3
    <2> HIDE DEF Low
    <2>2. IsFiniteSet(Low(r)) /\ Low(q) # Low(r)
      BY <1>2, <2>1
    <2>3. /\ Cardinality(Low(q)) <= Cardinality(Low(r))
          /\ Cardinality(Low(r)) = Cardinality(Low(q)) => Low(r) = Low(q)
      BY <2>1, <2>2, FS_Subset
    <2> QED
      BY <1>2, <2>2, <2>3
  <1>4. f \in [S -> 1..n]
    <2> HIDE DEF Low, n
    <2> QED
      BY <1>0, <1>2
  <1>5. \A q, r \in S : f[q] = f[r] => q = r
    <2> SUFFICES ASSUME NEW q \in S, NEW r \in S, f[q] = f[r], q # r PROVE FALSE
      OBVIOUS
    <2>1. Sync!Rank(S, q) \in Nat /\ Sync!Rank(S, r) \in Nat
      BY <1>2, Zenon
    <2>2. Sync!Rank(S, q) = Sync!Rank(S, r)
      BY <2>1
    <2> QED
      BY <1>1, <1>3, <2>1, <2>2
  <1>6. f \in Surjection(S, 1..n)
    <2>1. IsFiniteSet(1..n) /\ Cardinality(1..n) = n
      BY <1>0, UpTo
    <2>2. f \in Injection(S, 1..n)
      BY <1>4, <1>5 DEF Injection, IsInjective
    <2> HIDE DEF f
    <2> QED
      BY <2>1, <2>2, FS_Injection
  <1>7. \A i \in 1..n : \E r \in S : Sync!Rank(S, r) = i - 1
    <2> SUFFICES ASSUME NEW i \in 1..n PROVE \E r \in S : Sync!Rank(S, r) = i - 1
      OBVIOUS
    <2>1. PICK r \in S : f[r] = i
      BY <1>6, Zenon DEF Surjection
    <2>2. Sync!Rank(S, r) \in Nat /\ Sync!Rank(S, r) + 1 = i
      BY <1>2, <2>1, Zenon
    <2> QED
      BY <2>2
  <1> DEFINE s == Sync!Sorted(S)
  <1>8. s = [i \in 1..n |-> CHOOSE r \in S : Sync!Rank(S, r) = i - 1]
    BY SameCardinality DEF Sync!Sorted
  <1> HIDE DEF s
  <1>9. DOMAIN s = 1..n /\ \A i \in 1..n : s[i] \in S /\ Sync!Rank(S, s[i]) = i - 1
    BY <1>7, <1>8
  <1>10. s \in Seq(S)
    <2>1. s \in [1..n -> S]
      BY <1>8, <1>9
    <2> HIDE DEF n
    <2> QED
      BY <1>0, <2>1, SeqDef
  <1>11. \A r \in S : \E i \in DOMAIN s : s[i] = r
    <2> SUFFICES ASSUME NEW r \in S PROVE \E i \in 1..n : s[i] = r
      BY <1>9
    <2>1. f[r] \in 1..n /\ f[r] = Sync!Rank(S, r) + 1 /\ Sync!Rank(S, r) \in Nat
      BY <1>2, <1>4, Zenon
    <2>2. s[f[r]] \in S /\ Sync!Rank(S, s[f[r]]) = f[r] - 1
      BY <1>9, <2>1
    <2>3. f[s[f[r]]] = f[r]
      BY <2>1, <2>2
    <2> QED
      BY <1>5, <2>1, <2>2, <2>3
  <1>12. \A i, j \in 1..n : s[i] = s[j] => i = j
    <2>1. \A i, j \in 1..n : s[i] = s[j] => i - 1 = j - 1
      BY <1>9
    <2> QED
      BY <2>1, <1>0
  <1>13. \A i, j \in 1..n : Sync!Before(s[i], s[j]) => i < j
    <2> SUFFICES ASSUME NEW i \in 1..n, NEW j \in 1..n, Sync!Before(s[i], s[j]) PROVE i < j
      OBVIOUS
    <2>1. Sync!Rank(S, s[i]) < Sync!Rank(S, s[j])
      BY <1>3, <1>9
    <2>2. i - 1 < j - 1
      BY <1>9, <2>1
    <2> QED
      BY <1>0, <2>2
  <1> QED
    BY <1>9, <1>10, <1>11, <1>12, <1>13 DEF s

-----------------------------------------------------------------------------
(* The invariant: where a held response is, and that two responses which   *)
(* met are written in their order.                                         *)

SyncType ==
    /\ pending \in [SimTick -> Seq(Response)]
    /\ batch \in [Sync!Flusher -> Seq(Response)]
    /\ responsePc \in [Response -> {"start", "hold", "held", "written"}]

\* The responses that are pending for each tick, the ones that are in some
\* batch, and the pairs that are in one batch in this order.
Groups == [t \in SimTick |-> Sync!Group(t)]
Batched == {r \in Response : \E f \in Sync!Flusher : \E i \in DOMAIN batch[f] : batch[f][i] = r}
BatchOrder ==
    {p \in Response \X Response : \E f \in Sync!Flusher : \E i, j \in DOMAIN batch[f] :
        batch[f][i] = p[1] /\ batch[f][j] = p[2] /\ i < j}

\* A response is pending under its own tick, at most once.
PendingInv ==
    /\ \A t \in SimTick : \A i \in DOMAIN pending[t] :
         TickOf[pending[t][i]] = t /\ responsePc[pending[t][i]] = "held"
    /\ \A t \in SimTick : \A i, j \in DOMAIN pending[t] : pending[t][i] = pending[t][j] => i = j

\* A response in a batch is in no other, and not pending.
BatchInv ==
    /\ \A f \in Sync!Flusher : \A i \in DOMAIN batch[f] :
         /\ responsePc[batch[f][i]] = "held"
         /\ batch[f][i] \notin Groups[TickOf[batch[f][i]]]
    /\ \A f, g \in Sync!Flusher : \A i \in DOMAIN batch[f], j \in DOMAIN batch[g] :
         batch[f][i] = batch[g][j] => f = g /\ i = j

\* A held response is somewhere, and at any time there are finitely many.
HeldInv ==
    /\ \A r \in Response : responsePc[r] = "held" => r \in Groups[TickOf[r]] \/ r \in Batched
    /\ IsFiniteSet({r \in Response : responsePc[r] = "held"})

\* Two responses that met stay together until the first of them is written.
MetInv ==
    \A p \in met :
        /\ p \in Response \X Response /\ TickOf[p[1]] = TickOf[p[2]] /\ p[1] < p[2]
        /\ \/ responsePc[p[1]] = "written"
           \/ {p[1], p[2]} \subseteq Groups[TickOf[p[1]]]
           \/ p \in BatchOrder

BufferInv == SyncType /\ PendingInv /\ BatchInv /\ HeldInv /\ MetInv

\* Every loop that runs and has not been told to stop is the buffer's own or
\* will be stopped by exactly one toggler.
LoopInv ==
    /\ closing \in [Toggler -> Loop \cup {None}]
    /\ running \subseteq Loop /\ stopped \subseteq running
    /\ IF enabled THEN stopCh \in running \ stopped ELSE stopCh = None
    /\ \A g \in Toggler : closing[g] # None => closing[g] \in running \ stopped /\ closing[g] # stopCh
    /\ \A g, h \in Toggler : closing[g] = closing[h] /\ closing[g] # None => g = h
    /\ \A l \in running \ stopped : l = stopCh \/ \E g \in Toggler : closing[g] = l

LEMMA SyncConstants ==
    /\ Response \subseteq Nat /\ SimTick \subseteq Nat
    /\ \A r \in Response : TickOf[r] \in SimTick
    /\ Loop \subseteq Sync!Flusher /\ Toggler \subseteq Sync!Flusher
    /\ Loop \cap Toggler = {} /\ None \notin Loop
  BY SyncAssumption DEF Sync!ConstantsOK, Sync!Flusher

LEMMA BufferInit == Sync!Init => BufferInv
  <1> SUFFICES ASSUME Sync!Init PROVE BufferInv
    OBVIOUS
  <1>1. <<>> \in Seq(Response) /\ DOMAIN <<>> = {}
    OBVIOUS
  <1>2. SyncType
    BY <1>1 DEF Sync!Init, SyncType
  <1>3. \A t \in SimTick : pending[t] = <<>>
    BY DEF Sync!Init
  <1>4. \A f \in Sync!Flusher : batch[f] = <<>>
    BY DEF Sync!Init
  <1>5. PendingInv /\ BatchInv
    BY <1>1, <1>3, <1>4 DEF PendingInv, BatchInv
  <1>6. HeldInv
    <2>1. \A r \in Response : responsePc[r] # "held"
      BY DEF Sync!Init
    <2>2. {r \in Response : responsePc[r] = "held"} = {}
      BY <2>1
    <2> QED
      BY <2>1, <2>2, FS_EmptySet DEF HeldInv
  <1>7. MetInv
    BY DEF Sync!Init, MetInv
  <1> QED
    BY <1>2, <1>5, <1>6, <1>7 DEF BufferInv

LEMMA BufferFrame ==
    ASSUME BufferInv, UNCHANGED <<pending, batch, responsePc, met>>
    PROVE  BufferInv'
  <1>1. Groups' = Groups /\ Batched' = Batched /\ BatchOrder' = BatchOrder
    BY DEF Groups, Batched, BatchOrder, Sync!Group
  <1>2. SyncType' /\ PendingInv' /\ BatchInv'
    BY <1>1 DEF BufferInv, SyncType, PendingInv, BatchInv
  <1>3. HeldInv' /\ MetInv'
    BY <1>1 DEF BufferInv, HeldInv, MetInv
  <1> QED
    BY <1>2, <1>3 DEF BufferInv

\* The handler's own steps before it holds: its response is nowhere yet.
LEMMA StartKeeps ==
    ASSUME BufferInv, NEW r \in Response, NEW l \in {"hold", "written"},
           responsePc[r] = "start", responsePc' = [responsePc EXCEPT ![r] = l],
           UNCHANGED <<pending, batch, met>>
    PROVE  BufferInv'
  <1>1. /\ responsePc' \in [Response -> {"start", "hold", "held", "written"}]
        /\ \A q \in Response : /\ responsePc'[q] = "held" <=> responsePc[q] = "held"
                               /\ responsePc[q] = "written" => responsePc'[q] = "written"
    BY DEF BufferInv, SyncType
  <1>2. /\ Groups' = Groups /\ Batched' = Batched /\ BatchOrder' = BatchOrder
        /\ \A t \in SimTick : \A i \in DOMAIN pending[t] : pending[t][i] \in Response
        /\ \A f \in Sync!Flusher : \A i \in DOMAIN batch[f] : batch[f][i] \in Response
    BY DEF BufferInv, SyncType, Groups, Batched, BatchOrder, Sync!Group
  <1>3. SyncType' /\ PendingInv' /\ BatchInv'
    <2>1. SyncType'
      BY <1>1 DEF BufferInv, SyncType
    <2>2. PendingInv'
      BY <1>1, <1>2 DEF BufferInv, PendingInv
    <2>3. BatchInv'
      BY <1>1, <1>2, SyncConstants DEF BufferInv, BatchInv
    <2> QED
      BY <2>1, <2>2, <2>3
  <1>4. HeldInv'
    <2>1. {q \in Response : responsePc'[q] = "held"} = {q \in Response : responsePc[q] = "held"}
      BY <1>1
    <2> QED
      BY <1>1, <1>2, <2>1, SyncConstants, Zenon DEF BufferInv, HeldInv
  <1>5. MetInv'
    <2> SUFFICES ASSUME NEW p \in met
                 PROVE  /\ p \in Response \X Response /\ TickOf[p[1]] = TickOf[p[2]] /\ p[1] < p[2]
                        /\ \/ responsePc'[p[1]] = "written"
                           \/ {p[1], p[2]} \subseteq Groups'[TickOf[p[1]]]
                           \/ p \in BatchOrder'
      BY DEF MetInv
    <2>1. /\ p \in Response \X Response /\ TickOf[p[1]] = TickOf[p[2]] /\ p[1] < p[2]
          /\ \/ responsePc[p[1]] = "written"
             \/ {p[1], p[2]} \subseteq Groups[TickOf[p[1]]]
             \/ p \in BatchOrder
      BY DEF BufferInv, MetInv
    <2> QED
      BY <1>1, <1>2, <2>1, SyncConstants
  <1> QED
    BY <1>3, <1>4, <1>5 DEF BufferInv

\* A flush moves the groups of some ticks into the flusher's empty batch.
LEMMA FlushKeeps ==
    ASSUME BufferInv, NEW f \in Sync!Flusher, NEW ticks \in SUBSET SimTick,
           batch[f] = <<>>, batch' = [batch EXCEPT ![f] = Sync!FlushOrder(ticks)],
           pending' = Sync!Without(ticks), UNCHANGED <<responsePc, met>>
    PROVE  BufferInv'
  <1> DEFINE S == UNION {Sync!Group(t) : t \in ticks}
  <1> DEFINE s == Sync!FlushOrder(ticks)
  <1>1. /\ \A t \in SimTick : pending[t] \in Seq(Response)
        /\ \A t \in SimTick : \A i \in DOMAIN pending[t] : pending[t][i] \in Response
        /\ \A g \in Sync!Flusher : \A i \in DOMAIN batch[g] : batch[g][i] \in Response
    BY DEF BufferInv, SyncType
  <1>2. \A t \in SimTick : \A x : x \in Groups[t] <=> \E i \in DOMAIN pending[t] : pending[t][i] = x
    BY DEF Groups, Sync!Group
  <1>3. \A t \in SimTick : \A x : x \in Groups[t] => x \in Response /\ responsePc[x] = "held" /\ TickOf[x] = t
    BY <1>1, <1>2 DEF BufferInv, PendingInv
  <1>4. \A x : x \in S <=> x \in Response /\ TickOf[x] \in ticks /\ x \in Groups[TickOf[x]]
    <2>1. \A x : x \in S <=> \E t \in ticks : x \in Groups[t]
      BY Zenon DEF Groups
    <2> QED
      BY <1>3, <2>1, SMTT(20)
  <1> HIDE DEF S
  <1>5. S \subseteq Response /\ IsFiniteSet(S)
    <2>1. S \subseteq {r \in Response : responsePc[r] = "held"}
      BY <1>3, <1>4
    <2>2. IsFiniteSet({r \in Response : responsePc[r] = "held"})
      BY DEF BufferInv, HeldInv
    <2> QED
      BY <2>1, <2>2, FS_Subset
  <1>6. /\ s \in Seq(S)
        /\ \A r \in S : \E i \in DOMAIN s : s[i] = r
        /\ \A i, j \in DOMAIN s : s[i] = s[j] => i = j
        /\ \A i, j \in DOMAIN s : Sync!Before(s[i], s[j]) => i < j
    <2>1. s = Sync!Sorted(S)
      BY DEF S, Sync!FlushOrder
    <2> HIDE DEF s
    <2> QED
      BY <1>5, <2>1, SortedLists
  <1>7. \A i \in DOMAIN s : s[i] \in S
    BY <1>6
  <1>8. /\ batch' \in [Sync!Flusher -> Seq(Response)]
        /\ batch'[f] = s /\ \A g \in Sync!Flusher : g # f => batch'[g] = batch[g]
    <2>1. s \in Seq(Response)
      BY <1>5, <1>6
    <2> HIDE DEF s
    <2>2. batch' = [batch EXCEPT ![f] = s]
      BY DEF s
    <2> QED
      BY <2>1, <2>2 DEF BufferInv, SyncType
  <1> HIDE DEF s
  <1>9. /\ pending' \in [SimTick -> Seq(Response)]
        /\ \A t \in SimTick : pending'[t] = IF t \in ticks THEN <<>> ELSE pending[t]
    BY <1>1 DEF Sync!Without
  <1>10. Groups' = [t \in SimTick |-> IF t \in ticks THEN {} ELSE Groups[t]]
    BY <1>9 DEF Groups, Sync!Group
  <1>11. DOMAIN batch[f] = {}
    OBVIOUS
  <1>12. Batched' = Batched \cup S
    <2>1. \A x \in Response : x \in Batched' <=>
            \/ \E i \in DOMAIN s : s[i] = x
            \/ \E g \in Sync!Flusher : g # f /\ \E i \in DOMAIN batch[g] : batch[g][i] = x
      BY <1>8 DEF Batched
    <2>2. \A x \in Response : x \in Batched <=>
            \E g \in Sync!Flusher : g # f /\ \E i \in DOMAIN batch[g] : batch[g][i] = x
      BY <1>11 DEF Batched
    <2>3. Batched \subseteq Response /\ Batched' \subseteq Response
      BY DEF Batched
    <2> QED
      BY <1>5, <1>6, <1>7, <2>1, <2>2, <2>3
  <1>13. BatchOrder \subseteq BatchOrder'
    BY <1>8, <1>11 DEF BatchOrder
  <1>14. \A p \in Response \X Response :
           p[1] \in S /\ p[2] \in S /\ TickOf[p[1]] = TickOf[p[2]] /\ p[1] < p[2] => p \in BatchOrder'
    <2> SUFFICES ASSUME NEW p \in Response \X Response, p[1] \in S, p[2] \in S,
                        TickOf[p[1]] = TickOf[p[2]], p[1] < p[2]
                 PROVE  p \in BatchOrder'
      OBVIOUS
    <2>1. PICK i \in DOMAIN s : s[i] = p[1]
      BY <1>6
    <2>2. PICK j \in DOMAIN s : s[j] = p[2]
      BY <1>6
    <2>3. i < j
      BY <1>6, <2>1, <2>2 DEF Sync!Before
    <2> QED
      BY <1>8, <2>1, <2>2, <2>3 DEF BatchOrder
  <1>15. SyncType' /\ PendingInv'
    BY <1>8, <1>9 DEF BufferInv, SyncType, PendingInv
  <1>16. BatchInv'
    <2>1. ASSUME NEW g \in Sync!Flusher, NEW i \in DOMAIN batch'[g]
          PROVE  /\ responsePc[batch'[g][i]] = "held"
                 /\ batch'[g][i] \notin Groups'[TickOf[batch'[g][i]]]
      <3>1. CASE g = f
        <4>1. s[i] \in S
          BY <1>7, <1>8, <3>1
        <4>2. s[i] \in Response /\ TickOf[s[i]] \in ticks /\ s[i] \in Groups[TickOf[s[i]]]
          BY <1>4, <4>1
        <4> QED
          BY <1>3, <1>8, <1>10, <3>1, <4>2
      <3>2. CASE g # f
        <4>1. /\ batch'[g][i] = batch[g][i] /\ batch[g][i] \in Response
              /\ responsePc[batch[g][i]] = "held" /\ batch[g][i] \notin Groups[TickOf[batch[g][i]]]
          BY <1>1, <1>8, <3>2 DEF BufferInv, BatchInv
        <4> QED
          BY <1>10, <4>1, SyncConstants, Zenon
      <3> QED
        BY <3>1, <3>2
    <2>2. ASSUME NEW g \in Sync!Flusher, NEW h \in Sync!Flusher,
                 NEW i \in DOMAIN batch'[g], NEW j \in DOMAIN batch'[h], batch'[g][i] = batch'[h][j]
          PROVE  g = h /\ i = j
      <3>0. \A k \in Sync!Flusher : \A n \in DOMAIN batch[k] : batch[k][n] \notin S
        BY <1>4 DEF BufferInv, BatchInv
      <3>1. CASE g = f /\ h = f
        BY <1>6, <1>8, <2>2, <3>1
      <3>2. CASE g = f /\ h # f
        BY <1>7, <1>8, <2>2, <3>0, <3>2
      <3>3. CASE g # f /\ h = f
        BY <1>7, <1>8, <2>2, <3>0, <3>3
      <3>4. CASE g # f /\ h # f
        BY <1>8, <2>2, <3>4 DEF BufferInv, BatchInv
      <3> QED
        BY <3>1, <3>2, <3>3, <3>4
    <2> QED
      BY <2>1, <2>2 DEF BatchInv
  <1>17. HeldInv'
    BY <1>4, <1>10, <1>12, SyncConstants, Zenon DEF BufferInv, HeldInv
  <1>18. MetInv'
    <2> SUFFICES ASSUME NEW p \in met
                 PROVE  /\ p \in Response \X Response /\ TickOf[p[1]] = TickOf[p[2]] /\ p[1] < p[2]
                        /\ \/ responsePc[p[1]] = "written"
                           \/ {p[1], p[2]} \subseteq Groups'[TickOf[p[1]]]
                           \/ p \in BatchOrder'
      BY DEF MetInv
    <2>1. /\ p \in Response \X Response /\ TickOf[p[1]] = TickOf[p[2]] /\ p[1] < p[2]
          /\ \/ responsePc[p[1]] = "written"
             \/ {p[1], p[2]} \subseteq Groups[TickOf[p[1]]]
             \/ p \in BatchOrder
      BY DEF BufferInv, MetInv
    <2>2. CASE {p[1], p[2]} \subseteq Groups[TickOf[p[1]]] /\ TickOf[p[1]] \in ticks
      BY <1>4, <1>14, <2>1, <2>2
    <2>3. CASE {p[1], p[2]} \subseteq Groups[TickOf[p[1]]] /\ TickOf[p[1]] \notin ticks
      BY <1>10, <2>1, <2>3, SyncConstants, Zenon
    <2> QED
      BY <1>13, <2>1, <2>2, <2>3
  <1> QED
    BY <1>15, <1>16, <1>17, <1>18 DEF BufferInv

LEMMA HoldKeeps ==
    ASSUME BufferInv, NEW r \in Response, Sync!Hold(r)
    PROVE  BufferInv'
  <1> DEFINE k == TickOf[r]
             n == Len(pending[k])
  <1>1. /\ k \in SimTick /\ pending[k] \in Seq(Response) /\ n \in Nat
        /\ \A t \in SimTick : \A i \in DOMAIN pending[t] : pending[t][i] \in Response
        /\ \A g \in Sync!Flusher : \A i \in DOMAIN batch[g] : batch[g][i] \in Response
    <2>1. k \in SimTick
      BY SyncConstants
    <2> HIDE DEF k
    <2>2. pending[k] \in Seq(Response)
      BY <2>1 DEF BufferInv, SyncType
    <2>3. \A t \in SimTick : \A i \in DOMAIN pending[t] : pending[t][i] \in Response
      BY DEF BufferInv, SyncType
    <2>4. \A g \in Sync!Flusher : \A i \in DOMAIN batch[g] : batch[g][i] \in Response
      BY DEF BufferInv, SyncType
    <2> QED
      BY <2>1, <2>2, <2>3, <2>4
  <1>2. /\ responsePc[r] = "hold" /\ batch' = batch
        /\ responsePc' = [responsePc EXCEPT ![r] = "held"]
        /\ pending' = [pending EXCEPT ![k] = Append(pending[k], r)]
        /\ met' = met \cup {p \in Response \X Response :
                              p[1] < p[2] /\ {p[1], p[2]} \subseteq {r} \cup Groups[k]}
    BY <1>1 DEF Sync!Hold, Groups
  <1>3. /\ responsePc' \in [Response -> {"start", "hold", "held", "written"}]
        /\ responsePc'[r] = "held"
        /\ \A q \in Response : q # r => responsePc'[q] = responsePc[q]
    BY <1>2 DEF BufferInv, SyncType
  <1>4. \A t \in SimTick : \A x : x \in Groups[t] <=> \E i \in DOMAIN pending[t] : pending[t][i] = x
    BY DEF Groups, Sync!Group
  <1>5. \A t \in SimTick : \A x : x \in Groups[t] => x \in Response /\ responsePc[x] = "held" /\ TickOf[x] = t
    BY <1>1, <1>4, SMTT(20) DEF BufferInv, PendingInv
  <1>6. /\ pending' \in [SimTick -> Seq(Response)]
        /\ \A t \in SimTick : t # k => pending'[t] = pending[t]
        /\ DOMAIN pending'[k] = 1..(n + 1) /\ DOMAIN pending[k] = 1..n
        /\ pending'[k][n + 1] = r /\ \A i \in 1..n : pending'[k][i] = pending[k][i]
    <2>1. /\ Append(pending[k], r) \in Seq(Response)
          /\ pending' \in [SimTick -> Seq(Response)]
          /\ pending'[k] = Append(pending[k], r)
          /\ \A t \in SimTick : t # k => pending'[t] = pending[t]
      BY <1>1, <1>2 DEF BufferInv, SyncType
    <2> QED
      BY <1>1, <2>1, SMTT(20)
  <1> HIDE DEF n
  <1>7. Groups' = [Groups EXCEPT ![k] = @ \cup {r}]
    <2>1. \A t \in SimTick : \A x : x \in Groups'[t] <=> \E i \in DOMAIN pending'[t] : pending'[t][i] = x
      BY DEF Groups, Sync!Group
    <2>2. \A x : x \in Groups'[k] <=> x \in Groups[k] \cup {r}
      <3>1. \A x : x \in Groups'[k] <=> \E i \in 1..(n + 1) : pending'[k][i] = x
        BY <1>1, <1>6, <2>1
      <3>2. 1..(n + 1) = 1..n \cup {n + 1}
        BY <1>1
      <3>3. \A x : x \in Groups[k] <=> \E i \in 1..n : pending[k][i] = x
        BY <1>1, <1>4, <1>6
      <3> QED
        BY <1>6, <3>1, <3>2, <3>3, SMTT(20)
    <2>3. \A t \in SimTick : t # k => \A x : x \in Groups'[t] <=> x \in Groups[t]
      BY <1>4, <1>6, <2>1
    <2>4. Groups'[k] = Groups[k] \cup {r} /\ \A t \in SimTick : t # k => Groups'[t] = Groups[t]
      BY <2>2, <2>3, Zenon
    <2>5. DOMAIN Groups' = SimTick /\ DOMAIN Groups = SimTick
      BY DEF Groups
    <2>6. Groups' = [t \in SimTick |-> Groups'[t]] /\ Groups = [t \in SimTick |-> Groups[t]]
      BY DEF Groups
    <2> QED
      BY <1>1, <2>4, <2>5, <2>6
  <1>8. /\ Groups'[k] = Groups[k] \cup {r} /\ \A t \in SimTick : t # k => Groups'[t] = Groups[t]
        /\ Batched' = Batched /\ BatchOrder' = BatchOrder
    <2>1. DOMAIN Groups = SimTick
      BY Zenon DEF Groups
    <2>2. Batched' = Batched /\ BatchOrder' = BatchOrder
      BY <1>2 DEF Batched, BatchOrder
    <2> QED
      BY <1>1, <1>7, <2>1, <2>2
  <1>9. SyncType' /\ PendingInv'
    <2>1. SyncType'
      BY <1>2, <1>3, <1>6 DEF BufferInv, SyncType
    <2>0. \A t \in SimTick : \A i \in DOMAIN pending[t] :
             TickOf[pending[t][i]] = t /\ responsePc[pending[t][i]] = "held"
      BY DEF BufferInv, PendingInv
    <2>2. ASSUME NEW t \in SimTick, NEW i \in DOMAIN pending'[t]
          PROVE  TickOf[pending'[t][i]] = t /\ responsePc'[pending'[t][i]] = "held"
      <3>1. CASE t = k /\ i = n + 1
        BY <1>3, <1>6, <3>1, SMTT(20)
      <3>2. CASE t # k \/ i # n + 1
        <4>1. i \in DOMAIN pending[t] /\ pending'[t][i] = pending[t][i]
          <5>1. CASE t # k
            BY <1>6, <5>1
          <5>2. CASE t = k
            <6>1. i \in 1..(n + 1) /\ i # n + 1
              BY <1>6, <3>2, <5>2, Zenon
            <6>2. i \in 1..n
              BY <1>1, <6>1, SMTT(20)
            <6> QED
              BY <1>6, <5>2, <6>2, Zenon
          <5> QED
            BY <5>1, <5>2
        <4>2. /\ pending[t][i] \in Response /\ TickOf[pending[t][i]] = t
              /\ responsePc[pending[t][i]] = "held"
          BY <1>1, <2>0, <4>1, Zenon
        <4>3. responsePc'[pending[t][i]] = "held"
          BY <1>3, <4>2
        <4> QED
          BY <4>1, <4>2, <4>3
      <3> QED
        BY <3>1, <3>2, SMTT(20)
    <2>3. ASSUME NEW t \in SimTick, NEW i \in DOMAIN pending'[t], NEW j \in DOMAIN pending'[t],
                 pending'[t][i] = pending'[t][j]
          PROVE  i = j
      <3>0. \A m \in DOMAIN pending[t] : pending[t][m] # r
        BY <1>2 DEF BufferInv, PendingInv
      <3>1. CASE t # k
        BY <1>6, <2>3, <3>1 DEF BufferInv, PendingInv
      <3>2. CASE t = k
        <4>1. i \in 1..n \/ i = n + 1
          BY <1>1, <1>6, <3>2, SMTT(20)
        <4>2. j \in 1..n \/ j = n + 1
          BY <1>1, <1>6, <3>2, SMTT(20)
        <4>3. \A a, b \in 1..n : pending[k][a] = pending[k][b] => a = b
          BY <1>1, <1>6, SMTT(20) DEF BufferInv, PendingInv
        <4> QED
          BY <1>6, <2>3, <3>0, <3>2, <4>1, <4>2, <4>3, Zenon
      <3> QED
        BY <3>1, <3>2, Zenon
    <2> QED
      BY <2>1, <2>2, <2>3, Zenon DEF PendingInv
  <1>10. BatchInv'
    <2>1. ASSUME NEW f \in Sync!Flusher, NEW i \in DOMAIN batch[f]
          PROVE  responsePc'[batch[f][i]] = "held" /\ batch[f][i] \notin Groups'[TickOf[batch[f][i]]]
      <3>1. /\ batch[f][i] \in Response /\ responsePc[batch[f][i]] = "held"
            /\ batch[f][i] \notin Groups[TickOf[batch[f][i]]]
        BY <1>1 DEF BufferInv, BatchInv
      <3> QED
        BY <1>2, <1>3, <1>8, <3>1, SyncConstants, Zenon
    <2> QED
      BY <1>2, <2>1 DEF BufferInv, BatchInv
  <1>11. HeldInv'
    <2>1. {q \in Response : responsePc'[q] = "held"} = {q \in Response : responsePc[q] = "held"} \cup {r}
      BY <1>3
    <2>2. IsFiniteSet({q \in Response : responsePc[q] = "held"})
      BY DEF BufferInv, HeldInv
    <2>3. IsFiniteSet({q \in Response : responsePc'[q] = "held"})
      BY <2>1, <2>2, FS_AddElement
    <2>4. ASSUME NEW q \in Response, responsePc'[q] = "held"
          PROVE  q \in Groups'[TickOf[q]] \/ q \in Batched'
      BY <1>1, <1>3, <1>8, <2>4, SyncConstants, Zenon DEF BufferInv, HeldInv
    <2> QED
      BY <2>3, <2>4 DEF HeldInv
  <1>12. MetInv'
    <2> SUFFICES ASSUME NEW p \in met'
                 PROVE  /\ p \in Response \X Response /\ TickOf[p[1]] = TickOf[p[2]] /\ p[1] < p[2]
                        /\ \/ responsePc'[p[1]] = "written"
                           \/ {p[1], p[2]} \subseteq Groups'[TickOf[p[1]]]
                           \/ p \in BatchOrder'
      BY DEF MetInv
    <2>1. CASE p \in met
      <3>1. /\ p \in Response \X Response /\ TickOf[p[1]] = TickOf[p[2]] /\ p[1] < p[2]
            /\ \/ responsePc[p[1]] = "written"
               \/ {p[1], p[2]} \subseteq Groups[TickOf[p[1]]]
               \/ p \in BatchOrder
        BY <2>1 DEF BufferInv, MetInv
      <3>2. TickOf[p[1]] \in SimTick
        BY <3>1, SyncConstants, SMTT(20)
      <3>3. Groups[TickOf[p[1]]] \subseteq Groups'[TickOf[p[1]]]
        BY <1>8, <3>2, Zenon
      <3>4. responsePc[p[1]] = "written" => responsePc'[p[1]] = "written"
        BY <1>2, <1>3, <3>1, SMTT(20)
      <3> QED
        BY <1>8, <3>1, <3>3, <3>4, SMTT(20)
    <2>2. CASE p \notin met
      <3>1. p \in Response \X Response /\ p[1] < p[2] /\ {p[1], p[2]} \subseteq {r} \cup Groups[k]
        BY <1>2, <2>2, SMTT(20)
      <3>2. TickOf[p[1]] = k /\ TickOf[p[2]] = k
        BY <1>1, <1>5, <3>1, Zenon
      <3> QED
        BY <1>8, <3>1, <3>2, Zenon
    <2> QED
      BY <2>1, <2>2, Zenon
  <1> QED
    BY <1>9, <1>10, <1>11, <1>12 DEF BufferInv

\* What WriteNext does, and that it writes pairs that met in their order.
LEMMA WriteKeeps ==
    ASSUME BufferInv, NEW f \in Sync!Flusher, Sync!WriteNext(f)
    PROVE  /\ BufferInv'
           /\ \A p \in met : responsePc[p[2]] # "written" /\ responsePc'[p[2]] = "written"
                                 => responsePc[p[1]] = "written"
  <1> DEFINE r == Head(batch[f])
             n == Len(batch[f])
  <1>1. /\ batch[f] \in Seq(Response) /\ n \in Nat \ {0} /\ r \in Response /\ batch[f][1] = r
        /\ DOMAIN batch[f] = 1..n
        /\ \A t \in SimTick : \A i \in DOMAIN pending[t] : pending[t][i] \in Response
        /\ \A g \in Sync!Flusher : \A i \in DOMAIN batch[g] : batch[g][i] \in Response
    BY DEF BufferInv, SyncType, Sync!WriteNext
  <1>2. /\ pending' = pending /\ met' = met
        /\ responsePc' = [responsePc EXCEPT ![r] = "written"]
        /\ batch' = [batch EXCEPT ![f] = Tail(batch[f])]
    BY SMTT(20) DEF Sync!WriteNext, Sync!buffer
  <1>3. /\ responsePc' \in [Response -> {"start", "hold", "held", "written"}]
        /\ responsePc'[r] = "written"
        /\ \A q \in Response : q # r => responsePc'[q] = responsePc[q]
    BY <1>1, <1>2 DEF BufferInv, SyncType
  <1>4. /\ batch' \in [Sync!Flusher -> Seq(Response)]
        /\ \A g \in Sync!Flusher : g # f => batch'[g] = batch[g]
        /\ DOMAIN batch'[f] = 1..(n - 1) /\ \A i \in 1..(n - 1) : batch'[f][i] = batch[f][i + 1]
    <2>1. Tail(batch[f]) \in Seq(Response) /\ DOMAIN Tail(batch[f]) = 1..(n - 1)
          /\ \A i \in 1..(n - 1) : Tail(batch[f])[i] = batch[f][i + 1]
      BY <1>1
    <2> QED
      BY <1>2, <2>1 DEF BufferInv, SyncType
  <1> HIDE DEF n, r
  <1>5. Groups' = Groups
    BY <1>2 DEF Groups, Sync!Group
  \* Each position of a batch comes from one before, and the head is gone.
  <1>6. ASSUME NEW g \in Sync!Flusher, NEW i \in DOMAIN batch'[g]
        PROVE  /\ \E j \in DOMAIN batch[g] : batch'[g][i] = batch[g][j] /\ j = IF g = f THEN i + 1 ELSE i
               /\ batch'[g][i] \in Response /\ batch'[g][i] # r
    <2>1. CASE g = f
      <3>1. i \in 1..(n - 1) /\ i + 1 \in 1..n /\ i + 1 # 1 /\ 1 \in 1..n
        BY <1>1, <1>4, <2>1, SMTT(20)
      <3>2. batch'[g][i] = batch[f][i + 1] /\ batch[f][i + 1] \in Response
        BY <1>1, <1>4, <2>1, <3>1, Zenon
      <3>3. batch[f][i + 1] # batch[f][1]
        BY <1>1, <3>1, SMTT(20) DEF BufferInv, BatchInv
      <3> QED
        BY <1>1, <2>1, <3>1, <3>2, <3>3, Zenon
    <2>2. CASE g # f
      <3>1. i \in DOMAIN batch[g] /\ batch'[g][i] = batch[g][i] /\ 1 \in DOMAIN batch[f]
        BY <1>1, <1>4, <2>2, SMTT(20)
      <3>2. batch[g][i] # batch[f][1]
        BY <2>2, <3>1, SMTT(20) DEF BufferInv, BatchInv
      <3> QED
        BY <1>1, <2>2, <3>1, <3>2, Zenon
    <2> QED
      BY <2>1, <2>2, SMTT(20)
  \* And each position but the first of f's batch is still there.
  <1>7. ASSUME NEW g \in Sync!Flusher, NEW j \in DOMAIN batch[g], g # f \/ j # 1
        PROVE  \E i \in DOMAIN batch'[g] : batch'[g][i] = batch[g][j] /\ j = IF g = f THEN i + 1 ELSE i
    <2>1. CASE g = f
      <3>1. j - 1 \in 1..(n - 1) /\ (j - 1) + 1 = j
        BY <1>1, <1>7, <2>1
      <3> QED
        BY <1>4, <2>1, <3>1
    <2>2. CASE g # f
      BY <1>4, <2>2, SMTT(20)
    <2> QED
      BY <2>1, <2>2
  <1>8. r \in {batch[f][j] : j \in DOMAIN batch[f]} /\ responsePc[r] = "held" /\ r \notin Groups[TickOf[r]]
    BY <1>1 DEF BufferInv, BatchInv
  <1>9. SyncType'
    BY <1>2, <1>3, <1>4, SMTT(20) DEF BufferInv, SyncType
  <1>10. PendingInv'
    <2>1. \A t \in SimTick : \A i \in DOMAIN pending[t] : pending[t][i] # r
      BY <1>8 DEF BufferInv, PendingInv, Groups, Sync!Group
    <2> QED
      BY <1>1, <1>2, <1>3, <2>1, SMTT(20) DEF BufferInv, PendingInv
  <1>11. BatchInv'
    <2>1. ASSUME NEW g \in Sync!Flusher, NEW i \in DOMAIN batch'[g]
          PROVE  responsePc'[batch'[g][i]] = "held" /\ batch'[g][i] \notin Groups'[TickOf[batch'[g][i]]]
      BY <1>3, <1>5, <1>6, SMTT(20) DEF BufferInv, BatchInv
    <2>2. ASSUME NEW g \in Sync!Flusher, NEW h \in Sync!Flusher,
                 NEW i \in DOMAIN batch'[g], NEW j \in DOMAIN batch'[h], batch'[g][i] = batch'[h][j]
          PROVE  g = h /\ i = j
      <3>1. PICK a \in DOMAIN batch[g] : batch'[g][i] = batch[g][a] /\ a = IF g = f THEN i + 1 ELSE i
        BY <1>6
      <3>2. PICK b \in DOMAIN batch[h] : batch'[h][j] = batch[h][b] /\ b = IF h = f THEN j + 1 ELSE j
        BY <1>6
      <3>0. batch[g][a] = batch[h][b]
        BY <2>2, <3>1, <3>2, Zenon
      <3>3. g = h /\ a = b
        BY <3>0, SMTT(20) DEF BufferInv, BatchInv
      <3>4. i \in Nat /\ j \in Nat
        BY <1>4, <1>9 DEF SyncType
      <3> QED
        BY <3>1, <3>2, <3>3, <3>4, SMTT(20)
    <2> QED
      BY <2>1, <2>2, Zenon DEF BatchInv
  <1>12. HeldInv'
    <2>1. {q \in Response : responsePc'[q] = "held"} \subseteq {q \in Response : responsePc[q] = "held"}
      BY <1>3
    <2>2. IsFiniteSet({q \in Response : responsePc[q] = "held"})
      BY SMTT(20) DEF BufferInv, HeldInv
    <2>3. IsFiniteSet({q \in Response : responsePc'[q] = "held"})
      BY <2>1, <2>2, FS_Subset, SMTT(20)
    <2>4. ASSUME NEW q \in Response, responsePc'[q] = "held"
          PROVE  q \in Groups'[TickOf[q]] \/ q \in Batched'
      <3>1. q # r /\ responsePc[q] = "held"
        BY <1>3, <2>4
      <3>2. CASE q \in Groups[TickOf[q]]
        BY <1>5, <3>2
      <3>3. CASE q \in Batched
        <4>1. PICK g \in Sync!Flusher : \E j \in DOMAIN batch[g] : batch[g][j] = q
          BY <3>3 DEF Batched
        <4>2. PICK j \in DOMAIN batch[g] : batch[g][j] = q
          BY <4>1
        <4>3. g # f \/ j # 1
          BY <1>1, <3>1, <4>2, Zenon
        <4> QED
          BY <1>7, <4>2, <4>3 DEF Batched
      <3> QED
        BY <3>1, <3>2, <3>3 DEF BufferInv, HeldInv
    <2> QED
      BY <2>3, <2>4 DEF HeldInv
  <1>13. ASSUME NEW p \in met
         PROVE  /\ p \in Response \X Response /\ TickOf[p[1]] = TickOf[p[2]] /\ p[1] < p[2]
                /\ \/ responsePc'[p[1]] = "written"
                   \/ {p[1], p[2]} \subseteq Groups'[TickOf[p[1]]]
                   \/ p \in BatchOrder'
                /\ responsePc[p[2]] # "written" /\ responsePc'[p[2]] = "written"
                      => responsePc[p[1]] = "written"
    <2>1. /\ p \in Response \X Response /\ TickOf[p[1]] = TickOf[p[2]] /\ p[1] < p[2]
          /\ \/ responsePc[p[1]] = "written"
             \/ {p[1], p[2]} \subseteq Groups[TickOf[p[1]]]
             \/ p \in BatchOrder
      BY Zenon DEF BufferInv, MetInv
    <2>2. CASE responsePc[p[1]] = "written"
      BY <1>3, <2>1, <2>2, SMTT(20)
    <2>3. CASE {p[1], p[2]} \subseteq Groups[TickOf[p[1]]]
      <3>1. p[2] # r
        BY <1>8, <2>1, <2>3, Zenon
      <3> QED
        BY <1>3, <1>5, <2>1, <2>3, <3>1, SMTT(20)
    <2>4. CASE p \in BatchOrder
      <3>1. PICK g \in Sync!Flusher : \E i, j \in DOMAIN batch[g] :
                   batch[g][i] = p[1] /\ batch[g][j] = p[2] /\ i < j
        BY <2>4, SMTT(20) DEF BatchOrder
      <3>2. PICK i \in DOMAIN batch[g], j \in DOMAIN batch[g] :
                   batch[g][i] = p[1] /\ batch[g][j] = p[2] /\ i < j
        BY <3>1
      <3>3. i \in Nat \ {0} /\ j \in Nat \ {0} /\ j # 1
        <4>1. batch[g] \in Seq(Response)
          BY SMTT(20) DEF BufferInv, SyncType
        <4> QED
          BY <3>2, <4>1
      <3>4. p[2] # r
        BY <1>1, <3>2, <3>3, SMTT(20) DEF BufferInv, BatchInv
      <3>5. responsePc'[p[2]] = responsePc[p[2]]
        BY <1>3, <2>1, <3>4, Zenon
      <3>6. CASE g = f /\ i = 1
        BY <1>1, <1>3, <2>1, <3>2, <3>5, <3>6, Zenon
      <3>7. CASE g # f \/ i # 1
        <4>1. PICK a \in DOMAIN batch'[g] : batch'[g][a] = p[1] /\ i = IF g = f THEN a + 1 ELSE a
          BY <1>7, <3>2, <3>7, SMTT(20)
        <4>2. PICK b \in DOMAIN batch'[g] : batch'[g][b] = p[2] /\ j = IF g = f THEN b + 1 ELSE b
          BY <1>7, <3>2, <3>3, SMTT(20)
        <4>3. a \in Nat /\ b \in Nat
          BY <1>4, <1>9, SMTT(20) DEF SyncType
        <4>4. a < b
          BY <3>2, <4>1, <4>2, <4>3, SMTT(20)
        <4>5. p \in BatchOrder'
          BY <2>1, <4>1, <4>2, <4>4, Zenon DEF BatchOrder
        <4> QED
          BY <2>1, <3>5, <4>5, Zenon
      <3> QED
        BY <3>6, <3>7, Zenon
    <2> QED
      BY <2>1, <2>2, <2>3, <2>4, Zenon
  <1>14. MetInv'
    BY <1>2, <1>13, Zenon DEF MetInv
  <1> QED
    BY <1>9, <1>10, <1>11, <1>12, <1>13, <1>14, SMTT(20) DEF BufferInv

\* A response the handler writes itself was never held, so a response that
\* met it would have to be written already.
LEMMA StartOrder ==
    ASSUME BufferInv, NEW r \in Response, responsePc[r] = "start",
           NEW p \in met, p[2] = r
    PROVE  responsePc[p[1]] = "written"
  <1>1. /\ p \in Response \X Response /\ TickOf[p[1]] = TickOf[p[2]]
        /\ \/ responsePc[p[1]] = "written"
           \/ {p[1], p[2]} \subseteq Groups[TickOf[p[1]]]
           \/ p \in BatchOrder
    BY DEF BufferInv, MetInv
  <1>2. \A t \in SimTick : \A x \in Groups[t] : responsePc[x] = "held"
    BY DEF BufferInv, PendingInv, Groups, Sync!Group
  <1>3. r \notin Groups[TickOf[p[1]]]
    BY <1>1, <1>2, SyncConstants, Zenon
  <1>4. p \notin BatchOrder
    BY DEF BufferInv, BatchInv, BatchOrder
  <1> QED
    BY <1>1, <1>3, <1>4, Zenon

WrittenInOrder ==
    \A p \in met : responsePc[p[2]] # "written" /\ responsePc'[p[2]] = "written"
                       => responsePc[p[1]] = "written"

LEMMA BufferStep ==
    ASSUME BufferInv, [Sync!Next]_(Sync!vars)
    PROVE  BufferInv' /\ WrittenInOrder
  <1>1. CASE UNCHANGED Sync!vars
    <2>1. UNCHANGED <<pending, batch, responsePc, met>>
      BY <1>1 DEF Sync!vars, Sync!buffer
    <2> QED
      BY <2>1, BufferFrame DEF WrittenInOrder
  <1>2. ASSUME NEW r \in Response, Sync!WriteDirectly(r) \/ Sync!DecideToHold(r)
        PROVE  BufferInv' /\ WrittenInOrder
    <2>1. PICK l \in {"hold", "written"} :
             /\ responsePc[r] = "start" /\ responsePc' = [responsePc EXCEPT ![r] = l]
             /\ UNCHANGED <<pending, batch, met>>
      BY <1>2 DEF Sync!WriteDirectly, Sync!DecideToHold, Sync!buffer
    <2>2. BufferInv'
      BY <2>1, StartKeeps, Zenon
    <2>3. ASSUME NEW p \in met, responsePc[p[2]] # "written", responsePc'[p[2]] = "written"
          PROVE  responsePc[p[1]] = "written"
      <3>1. p[2] \in Response
        BY DEF BufferInv, MetInv
      <3>2. p[2] = r
        BY <2>1, <2>3, <3>1 DEF BufferInv, SyncType
      <3> QED
        BY <2>1, <3>2, StartOrder
    <2> QED
      BY <2>2, <2>3 DEF WrittenInOrder
  <1>3. ASSUME NEW r \in Response, Sync!Hold(r)
        PROVE  BufferInv' /\ WrittenInOrder
    <2>1. BufferInv'
      BY <1>3, HoldKeeps
    <2>2. responsePc' = [responsePc EXCEPT ![r] = "held"]
      BY <1>3 DEF Sync!Hold
    <2>3. \A p \in met : p[2] \in Response
      BY DEF BufferInv, MetInv
    <2>4. \A q \in Response : responsePc'[q] = "written" => responsePc[q] = "written"
      BY <2>2 DEF BufferInv, SyncType
    <2> QED
      BY <2>1, <2>3, <2>4 DEF WrittenInOrder
  <1>4. ASSUME NEW f \in Sync!Flusher, NEW ticks \in SUBSET SimTick, batch[f] = <<>>,
               batch' = [batch EXCEPT ![f] = Sync!FlushOrder(ticks)],
               pending' = Sync!Without(ticks), UNCHANGED <<responsePc, met>>
        PROVE  BufferInv' /\ WrittenInOrder
    BY <1>4, FlushKeeps, Zenon DEF WrittenInOrder
  <1>5. ASSUME NEW l \in Loop, Sync!FlushExpired(l)
        PROVE  BufferInv' /\ WrittenInOrder
    <2> DEFINE ticks == {t \in SimTick : Sync!Expired(t)}
    <2>1. /\ batch[l] = <<>> /\ batch' = [batch EXCEPT ![l] = Sync!FlushOrder(ticks)]
          /\ pending' = Sync!Without(ticks) /\ UNCHANGED <<responsePc, met>>
      BY <1>5 DEF Sync!FlushExpired
    <2>2. ticks \in SUBSET SimTick /\ l \in Sync!Flusher
      BY SyncConstants
    <2> HIDE DEF ticks
    <2> QED
      BY <1>4, <2>1, <2>2, Zenon
  <1>6. ASSUME NEW g \in Toggler, Sync!Disable(g)
        PROVE  BufferInv' /\ WrittenInOrder
    <2> DEFINE ticks == {t \in SimTick : pending[t] # <<>>}
    <2>1. /\ batch[g] = <<>> /\ batch' = [batch EXCEPT ![g] = Sync!FlushOrder(ticks)]
          /\ UNCHANGED <<responsePc, met>>
      BY <1>6, SMTT(20) DEF Sync!Disable
    <2>2. pending' = Sync!Without(ticks)
      BY <1>6 DEF Sync!Disable, Sync!Without
    <2>3. ticks \in SUBSET SimTick /\ g \in Sync!Flusher
      BY SyncConstants
    <2> HIDE DEF ticks
    <2> QED
      BY <1>4, <2>1, <2>2, <2>3, Zenon
  <1>7. ASSUME NEW f \in Sync!Flusher, Sync!WriteNext(f)
        PROVE  BufferInv' /\ WrittenInOrder
    BY <1>7, WriteKeeps DEF WrittenInOrder
  <1>8. ASSUME UNCHANGED <<pending, batch, responsePc, met>>
        PROVE  BufferInv' /\ WrittenInOrder
    BY <1>8, BufferFrame, SMTT(20) DEF WrittenInOrder
  <1>9. ASSUME NEW l \in Loop, Sync!LoopEnds(l) \/ Sync!Enable(l)
        PROVE  BufferInv' /\ WrittenInOrder
    BY <1>8, <1>9 DEF Sync!LoopEnds, Sync!Enable, Sync!buffer
  <1>10. ASSUME NEW g \in Toggler, Sync!CloseStopCh(g)
         PROVE  BufferInv' /\ WrittenInOrder
    BY <1>8, <1>10 DEF Sync!CloseStopCh, Sync!buffer
  <1>11. ASSUME NEW d \in Timeouts, Sync!SetTimeout(d)
         PROVE  BufferInv' /\ WrittenInOrder
    BY <1>8, <1>11, SMTT(20) DEF Sync!SetTimeout
  <1>12. CASE Sync!Time
    BY <1>8, <1>12 DEF Sync!Time, Sync!buffer
  <1> QED
    BY <1>1, <1>2, <1>3, <1>5, <1>6, <1>7, <1>9, <1>10, <1>11, <1>12 DEF Sync!Next

LEMMA BufferAlways == Sync!Spec => []BufferInv
  <1>1. BufferInv /\ [Sync!Next]_(Sync!vars) => BufferInv'
    BY BufferStep
  <1> QED
    BY <1>1, BufferInit, PTL DEF Sync!Spec

LEMMA OnePlaceFollows == BufferInv => OnePlace
  <1> SUFFICES ASSUME BufferInv, NEW r \in Response
               PROVE  Cardinality(Sync!Places(r)) = IF responsePc[r] = "held" THEN 1 ELSE 0
    BY SameCardinality, SMTT(20) DEF OnePlace, Sync!OnePlace
  <1> DEFINE k == TickOf[r]
             P == Sync!Places(r)
             InPending(x) == \E i \in DOMAIN pending[k] : pending[k][i] = r /\ x = <<"pending", i>>
             InBatch(x) == \E f \in Sync!Flusher : \E i \in DOMAIN batch[f] :
                              batch[f][i] = r /\ x = <<f, i>>
  <1>1. \A x : x \in P <=> InPending(x) \/ InBatch(x)
    BY DEF Sync!Places
  <1>2. k \in SimTick
    BY SyncConstants, SMTT(20)
  <1> HIDE DEF P
  <1>3. \A x, y : x \in P /\ y \in P => x = y
    <2>1. \A x, y : InPending(x) /\ InPending(y) => x = y
      BY <1>2 DEF BufferInv, PendingInv
    <2>2. \A x, y : InBatch(x) /\ InBatch(y) => x = y
      BY SMTT(20) DEF BufferInv, BatchInv
    <2>3. \A x, y : InPending(x) => ~ InBatch(y)
      <3>1. \A x : InPending(x) => r \in Groups[k]
        BY <1>2 DEF Groups, Sync!Group
      <3>2. \A y : InBatch(y) => r \notin Groups[k]
        BY DEF BufferInv, BatchInv
      <3> QED
        BY <3>1, <3>2
    <2> QED
      BY <1>1, <2>1, <2>2, <2>3, SMTT(20)
  <1>4. responsePc[r] = "held" <=> \E x : x \in P
    <2>1. ASSUME responsePc[r] = "held" PROVE \E x : x \in P
      <3>1. CASE r \in Groups[k]
        <4>1. PICK i \in DOMAIN pending[k] : pending[k][i] = r
          BY <1>2, <3>1 DEF Groups, Sync!Group
        <4>2. InPending(<<"pending", i>>)
          BY <4>1
        <4> QED
          BY <1>1, <4>2, Zenon
      <3>2. CASE r \in Batched
        <4>1. PICK f \in Sync!Flusher : \E i \in DOMAIN batch[f] : batch[f][i] = r
          BY <3>2 DEF Batched
        <4>2. PICK i \in DOMAIN batch[f] : batch[f][i] = r
          BY <4>1
        <4>3. InBatch(<<f, i>>)
          BY <4>2, Zenon
        <4> QED
          BY <1>1, <4>3, Zenon
      <3> QED
        BY <2>1, <3>1, <3>2 DEF BufferInv, HeldInv
    <2>2. ASSUME NEW x, x \in P PROVE responsePc[r] = "held"
      BY <1>1, <1>2, <2>2 DEF BufferInv, PendingInv, BatchInv
    <2> QED
      BY <2>1, <2>2
  <1>5. CASE responsePc[r] = "held"
    <2>1. PICK x : x \in P
      BY <1>4, <1>5
    <2>2. P = {x}
      BY <1>3, <2>1
    <2>3. Cardinality(P) = 1
      BY <2>2, FS_Singleton
    <2> QED
      BY <1>5, <2>3 DEF P
  <1>6. CASE responsePc[r] # "held"
    <2>1. P = {}
      BY <1>4, <1>6
    <2>2. Cardinality(P) = 0
      BY <2>1, FS_EmptySet
    <2> QED
      BY <1>6, <2>2 DEF P
  <1> QED
    BY <1>5, <1>6

\* The buffer's bookkeeping (buffer.go): a held response is in exactly one
\* place, among the pending ones of its tick or in the batch of one goroutine,
\* and one that is not held is nowhere.  However many flush loops are left
\* over and however often the buffer is switched, no response is lost and none
\* is delivered twice.
THEOREM HeldInOnePlace == Sync!Spec => []OnePlace
  BY BufferAlways, OnePlaceFollows, PTL

\* The deterministic order of flushEntries: of two responses of one tick that
\* were in the buffer together, the one that sorts first is written first,
\* whichever goroutine writes them and whichever others flush beside it.
THEOREM FlushedInOrder == Sync!Spec => InOrder
  <1>1. BufferInv /\ [Sync!Next]_(Sync!vars) =>
          [\A p \in met : responsePc[p[2]] # "written" /\ responsePc'[p[2]] = "written"
                              => responsePc[p[1]] = "written"]_(Sync!vars)
    BY BufferStep DEF WrittenInOrder
  <1> QED
    BY <1>1, BufferAlways, PTL DEF Sync!Spec, InOrder, Sync!InOrder

LEMMA LoopStep ==
    ASSUME LoopInv, [Sync!Next]_(Sync!vars)
    PROVE  LoopInv'
  <1> USE SyncConstants
  <1>0. ASSUME UNCHANGED <<closing, running, stopped, enabled, stopCh>> PROVE LoopInv'
    BY <1>0, SMTT(20) DEF LoopInv
  <1>1. ASSUME NEW l \in Loop, Sync!LoopEnds(l) PROVE LoopInv'
    BY <1>1, SMTT(20) DEF LoopInv, Sync!LoopEnds, Sync!buffer
  <1>2. ASSUME NEW l \in Loop, Sync!Enable(l) PROVE LoopInv'
    BY <1>2, SMTT(20) DEF LoopInv, Sync!Enable
  <1>3. ASSUME NEW g \in Toggler, Sync!Disable(g) PROVE LoopInv'
    BY <1>3, SMTT(20) DEF LoopInv, Sync!Disable
  <1>4. ASSUME NEW g \in Toggler, Sync!CloseStopCh(g) PROVE LoopInv'
    BY <1>4 DEF LoopInv, Sync!CloseStopCh, Sync!buffer
  <1>5. CASE UNCHANGED Sync!vars
    BY <1>0, <1>5, SMTT(20) DEF Sync!vars, Sync!buffer
  <1>6. ASSUME NEW r \in Response, Sync!WriteDirectly(r) \/ Sync!DecideToHold(r) \/ Sync!Hold(r)
        PROVE  LoopInv'
    BY <1>0, <1>6 DEF Sync!WriteDirectly, Sync!DecideToHold, Sync!Hold, Sync!buffer
  <1>7. ASSUME NEW l \in Loop, Sync!FlushExpired(l) PROVE LoopInv'
    BY <1>0, <1>7, SMTT(20) DEF Sync!FlushExpired
  <1>8. ASSUME NEW f \in Sync!Flusher, Sync!WriteNext(f) PROVE LoopInv'
    BY <1>0, <1>8 DEF Sync!WriteNext, Sync!buffer
  <1>9. ASSUME NEW d \in Timeouts, Sync!SetTimeout(d) PROVE LoopInv'
    BY <1>0, <1>9, SMTT(20) DEF Sync!SetTimeout
  <1>10. CASE Sync!Time
    BY <1>0, <1>10 DEF Sync!Time, Sync!buffer
  <1> QED
    BY <1>1, <1>2, <1>3, <1>4, <1>5, <1>6, <1>7, <1>8, <1>9, <1>10 DEF Sync!Next

\* SetEnabled (buffer.go) hands the loop's stop channel to exactly one
\* request: while the buffer is on its loop runs and has not been told to stop,
\* a channel that is about to be closed is open and nobody else will close it
\* (Go panics at a second close), and every other loop that has not been told
\* to stop is going to be: quick switching leaves no loop behind.
THEOREM LoopsStoppedOnce == Sync!Spec => []LoopInv
  <1>1. Sync!Init => LoopInv
    BY DEF Sync!Init, LoopInv
  <1>2. LoopInv /\ [Sync!Next]_(Sync!vars) => LoopInv'
    BY LoopStep
  <1> QED
    BY <1>1, <1>2, PTL DEF Sync!Spec
=============================================================================
