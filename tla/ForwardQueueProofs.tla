------------------------- MODULE ForwardQueueProofs -------------------------
(***************************************************************************)
(* Proofs about ForwardQueue, for any number of callers and any sequence   *)
(* of limits.  The invariant is the conjunction of what the component      *)
(* promises: who is in the queue and who is granted (QueueIsLive) decides  *)
(* how a step changes the set of holders, which active counts.             *)
(***************************************************************************)
EXTENDS MCAdmission, FiniteSetTheorems, SequenceTheorems, TLAPS

IInv == TypeOK /\ QueueIsLive /\ NoIdleSlot /\ SlotsAccounted

-----------------------------------------------------------------------------
(* Sequences and sets                                                      *)

\* A sequence without its k-th element.
LEMMA CutOut ==
    ASSUME NEW S, NEW q \in Seq(S), NEW k \in DOMAIN q
    PROVE  LET r == SubSeq(q, 1, k - 1) \o SubSeq(q, k + 1, Len(q))
           IN  /\ r \in Seq(S) /\ Len(r) = Len(q) - 1
               /\ \A i \in 1..(Len(q) - 1) : r[i] = IF i < k THEN q[i] ELSE q[i + 1]
  <1>1. DOMAIN q = 1..Len(q) /\ Len(q) \in Nat
    OBVIOUS
  <1> DEFINE A == SubSeq(q, 1, k - 1)
             B == SubSeq(q, k + 1, Len(q))
  <1>5. A \in Seq(S) /\ Len(A) = k - 1 /\ \A i \in 1..(k - 1) : A[i] = q[i]
    BY <1>1
  <1>6. B \in Seq(S) /\ Len(B) = Len(q) - k /\ \A i \in 1..(Len(q) - k) : B[i] = q[k + i]
    <2>1. k + 1 \in Int /\ Len(q) \in Int /\ \A i \in (k + 1)..Len(q) : q[i] \in S
      BY <1>1
    <2>2. /\ B \in Seq(S)
          /\ Len(B) = IF k + 1 <= Len(q) THEN Len(q) - (k + 1) + 1 ELSE 0
          /\ \A i \in 1..(Len(q) - (k + 1) + 1) : B[i] = q[(k + 1) + i - 1]
      BY <2>1, SubSeqProperties
    <2> HIDE DEF B
    <2>3. Len(q) - (k + 1) + 1 = Len(q) - k /\ \A i \in 1..(Len(q) - k) : (k + 1) + i - 1 = k + i
      BY <1>1
    <2>4. Len(B) = Len(q) - k
      BY <1>1, <2>2
    <2> QED
      BY <2>2, <2>3, <2>4
  <1> HIDE DEF A, B
  <1>8. /\ A \o B \in Seq(S) /\ Len(A \o B) = Len(q) - 1
        /\ \A i \in 1..(Len(q) - 1) : (A \o B)[i] = IF i <= k - 1 THEN A[i] ELSE B[i - (k - 1)]
    <2>1. /\ A \o B \in Seq(S) /\ Len(A \o B) = Len(A) + Len(B)
          /\ \A i \in 1..(Len(A) + Len(B)) : (A \o B)[i] = IF i <= Len(A) THEN A[i] ELSE B[i - Len(A)]
      BY <1>5, <1>6, SMTT(30)
    <2>2. Len(A) = k - 1 /\ Len(B) = Len(q) - k
      BY <1>5, <1>6
    <2>3. Len(A) + Len(B) = Len(q) - 1
      BY <1>1, <2>2
    <2> QED
      BY <2>1, <2>2, <2>3, SMTT(30)
  <1>9. ASSUME NEW i \in 1..(Len(q) - 1)
        PROVE  (A \o B)[i] = IF i < k THEN q[i] ELSE q[i + 1]
    <2>1. CASE i < k
      <3>1. i \in 1..(k - 1) /\ i <= k - 1
        BY <1>1, <2>1
      <3> QED
        BY <2>1, <3>1, <1>5, <1>8
    <2>2. CASE ~ (i < k)
      <3>1. i - (k - 1) \in 1..(Len(q) - k) /\ ~ (i <= k - 1) /\ k + (i - (k - 1)) = i + 1
        BY <1>1, <2>2
      <3>2. B[i - (k - 1)] = q[i + 1]
        BY <3>1, <1>6
      <3> QED
        BY <2>2, <3>1, <3>2, <1>8
    <2> QED
      BY <2>1, <2>2, Zenon
  <1> QED
    BY <1>8, <1>9, Zenon DEF A, B

\* Removing an element that occurs once leaves the others, in their order.
LEMMA RemoveOne ==
    ASSUME NEW S, NEW q \in Seq(S), NEW k \in DOMAIN q,
           \A i, j \in DOMAIN q : q[i] = q[j] => i = j
    PROVE  LET r == Without(q, q[k])
           IN  /\ r \in Seq(S) /\ Len(r) = Len(q) - 1
               /\ \A i \in 1..(Len(q) - 1) : r[i] = IF i < k THEN q[i] ELSE q[i + 1]
  <1> DEFINE r == Without(q, q[k])
  <1>1. (CHOOSE i \in DOMAIN q : q[i] = q[k]) = k
    OBVIOUS
  <1>2. r = SubSeq(q, 1, k - 1) \o SubSeq(q, k + 1, Len(q))
    BY <1>1, Zenon DEF Without
  <1> HIDE DEF r
  <1>3. /\ r \in Seq(S) /\ Len(r) = Len(q) - 1
        /\ \A i \in 1..(Len(q) - 1) : r[i] = IF i < k THEN q[i] ELSE q[i + 1]
    BY <1>2, CutOut, Zenon
  <1> QED
    BY <1>3, Zenon DEF r

\* The first n elements of a sequence without repetition are n.
LEMMA FirstN ==
    ASSUME NEW S, NEW q \in Seq(S), NEW n \in 0..Len(q),
           \A i, j \in DOMAIN q : q[i] = q[j] => i = j
    PROVE  LET T == {q[i] : i \in 1..n}
           IN  IsFiniteSet(T) /\ Cardinality(T) = n
  <1> DEFINE f == [i \in 1..n |-> q[i]]
             T == {q[i] : i \in 1..n}
  <1>1. n \in Nat /\ 1..n \subseteq DOMAIN q
    OBVIOUS
  <1>2. f \in Bijection(1..n, T)
    <2>1. f \in [1..n -> T]
      OBVIOUS
    <2>2. \A i, j \in 1..n : f[i] = f[j] => i = j
      BY <1>1
    <2>3. \A t \in T : \E i \in 1..n : f[i] = t
      OBVIOUS
    <2> QED
      BY <2>1, <2>2, <2>3 DEF Bijection, Injection, Surjection, IsInjective
  <1>3. ExistsBijection(1..n, T)
    BY <1>2 DEF ExistsBijection
  <1>4. IsFiniteSet(1..n) /\ Cardinality(1..n) = n
    BY <1>1, FS_Interval
  <1> QED
    BY <1>3, <1>4, FS_Bijection

\* What is left of a sequence without its first n elements.
LEMMA DropN ==
    ASSUME NEW S, NEW q \in Seq(S), NEW n \in 0..Len(q)
    PROVE  LET r == SubSeq(q, n + 1, Len(q))
           IN  /\ r \in Seq(S) /\ Len(r) = Len(q) - n
               /\ \A i \in 1..(Len(q) - n) : r[i] = q[n + i]
  <1> DEFINE r == SubSeq(q, n + 1, Len(q))
  <1>1. n + 1 \in Int /\ Len(q) \in Int /\ \A i \in (n + 1)..Len(q) : q[i] \in S
    OBVIOUS
  <1>2. /\ r \in Seq(S)
        /\ Len(r) = IF n + 1 <= Len(q) THEN Len(q) - (n + 1) + 1 ELSE 0
        /\ \A i \in 1..(Len(q) - (n + 1) + 1) : r[i] = q[(n + 1) + i - 1]
    BY <1>1, SubSeqProperties
  <1> HIDE DEF r
  <1>3. Len(q) - (n + 1) + 1 = Len(q) - n /\ \A i \in 1..(Len(q) - n) : (n + 1) + i - 1 = n + i
    OBVIOUS
  <1>4. Len(r) = Len(q) - n
    BY <1>2
  <1> QED
    BY <1>2, <1>3, <1>4 DEF r

LEMMA HoldersFinite ==
    ASSUME QueueAssumption, TypeOK
    PROVE  IsFiniteSet(Holders) /\ Cardinality(Holders) \in Nat
  <1>1. Holders \in SUBSET Caller
    BY SMTT(30) DEF TypeOK, Holders
  <1> QED
    BY <1>1, FS_Subset, FS_CardinalityType DEF QueueAssumption

-----------------------------------------------------------------------------
(* Who waits                                                               *)

\* The queue holds live waiters, each once, and a grant belongs to a caller
\* that is still in Acquire: kept by every step.
LEMMA WaitersStep ==
    ASSUME QueueAssumption, TypeOK, QueueIsLive, [Next]_vars
    PROVE  TypeOK' /\ QueueIsLive'
  <1> USE DEF TypeOK, QueueIsLive, Goto, manager
  <1>0. DOMAIN queue = 1..Len(queue) /\ Len(queue) \in Nat
    OBVIOUS
  <1>1. ASSUME NEW c \in Caller, AcquireFast(c)
        PROVE  TypeOK' /\ QueueIsLive'
    BY <1>1 DEF AcquireFast
  <1>2. ASSUME NEW c \in Caller, Enqueue(c)
        PROVE  TypeOK' /\ QueueIsLive'
    <2>1. /\ queue' \in Seq(Caller) /\ Len(queue') = Len(queue) + 1
          /\ \A i \in 1..Len(queue) : queue'[i] = queue[i]
          /\ queue'[Len(queue) + 1] = c
      BY <1>2 DEF Enqueue
    <2>2. DOMAIN queue' = 1..(Len(queue) + 1)
      BY <2>1
    <2>3. \A i \in 1..(Len(queue) + 1) : i \in 1..Len(queue) \/ i = Len(queue) + 1
      BY <1>0
    <2>4. \A i \in 1..Len(queue) : queue[i] # c
      BY <1>2 DEF Enqueue
    <2>5. TypeOK'
      BY <1>2, <2>1 DEF Enqueue
    <2>6. c \notin granted /\ granted' = granted /\ pc' = [pc EXCEPT ![c] = "wait"]
      BY <1>2 DEF Enqueue
    <2>7. \A i, j \in DOMAIN queue' : queue'[i] = queue'[j] => i = j
      BY <1>0, <2>1, <2>2, <2>3, <2>4
    <2>8. \A i \in DOMAIN queue' : pc'[queue'[i]] = "wait" /\ queue'[i] \notin granted'
      BY <1>0, <1>2, <2>1, <2>2, <2>3, <2>4, <2>6 DEF Enqueue
    <2>9. \A d \in granted' : pc'[d] = "wait"
      BY <1>2, <2>6 DEF Enqueue
    <2>10. ASSUME NEW d \in Caller, pc'[d] = "wait"
           PROVE  d \in granted' \/ \E i \in DOMAIN queue' : queue'[i] = d
      <3>1. CASE d = c
        <4>1. Len(queue) + 1 \in DOMAIN queue'
          BY <1>0, <2>2
        <4> QED
          BY <3>1, <4>1, <2>1
      <3>2. CASE d # c
        <4>1. pc[d] = "wait"
          BY <2>6, <2>10, <3>2
        <4>2. CASE d \in granted
          BY <2>6, <4>2
        <4>3. CASE \E i \in DOMAIN queue : queue[i] = d
          <5>1. PICK i \in DOMAIN queue : queue[i] = d
            BY <4>3
          <5>2. i \in DOMAIN queue' /\ queue'[i] = d
            BY <5>1, <1>0, <2>1, <2>2
          <5> QED
            BY <5>2
        <4> QED
          BY <4>1, <4>2, <4>3
      <3> QED
        BY <3>1, <3>2
    <2> QED
      BY <2>5, <2>7, <2>8, <2>9, <2>10
  <1>3. ASSUME NEW c \in Caller, Wake(c)
        PROVE  TypeOK' /\ QueueIsLive'
    BY <1>3 DEF Wake
  <1>4. ASSUME NEW c \in Caller, CancelGranted(c)
        PROVE  TypeOK' /\ QueueIsLive'
    BY <1>4 DEF CancelGranted
  <1>5. ASSUME NEW c \in Caller, CancelWaiting(c)
        PROVE  TypeOK' /\ QueueIsLive'
    <2>1. pc[c] = "wait" /\ c \notin granted
      BY <1>5 DEF CancelWaiting
    <2>2. PICK k \in DOMAIN queue : queue[k] = c
      BY <2>1
    <2>3. /\ queue' = Without(queue, queue[k])
          /\ granted' = granted /\ pc' = [pc EXCEPT ![c] = "idle"]
          /\ UNCHANGED <<closed, ready, active, maxConcurrent, knownError>>
          /\ ctxDone' = ctxDone \ {c}
      BY <1>5, <2>2 DEF CancelWaiting
    <2>4. \A i, j \in DOMAIN queue : queue[i] = queue[j] => i = j
      OBVIOUS
    <2>5. queue \in Seq(Caller)
      OBVIOUS
    <2>6. /\ queue' \in Seq(Caller) /\ Len(queue') = Len(queue) - 1
          /\ \A i \in 1..(Len(queue) - 1) : queue'[i] = IF i < k THEN queue[i] ELSE queue[i + 1]
      BY <2>3, <2>4, <2>5, RemoveOne, SMTT(20)
    <2>7. DOMAIN queue' = 1..(Len(queue) - 1)
      BY <2>6
    <2>8. \A i \in 1..(Len(queue) - 1) : i \in DOMAIN queue /\ i + 1 \in DOMAIN queue
      BY <1>0
    <2>9. TypeOK'
      BY <2>3, <2>6
    <2>10. ASSUME NEW i \in DOMAIN queue', NEW j \in DOMAIN queue', queue'[i] = queue'[j]
           PROVE  i = j
      <3> DEFINE at(m) == IF m < k THEN m ELSE m + 1
      <3>1. queue'[i] = queue[at(i)] /\ queue'[j] = queue[at(j)]
        BY <2>6, <2>7
      <3>2. at(i) \in DOMAIN queue /\ at(j) \in DOMAIN queue
        BY <2>7, <2>8
      <3> HIDE DEF at
      <3>3. at(i) = at(j)
        BY <2>4, <2>10, <3>1, <3>2, Zenon
      <3> QED
        BY <1>0, <2>7, <3>3 DEF at
    <2>11. \A i \in DOMAIN queue' :
               queue'[i] # c /\ \E j \in DOMAIN queue : queue'[i] = queue[j]
      <3> SUFFICES ASSUME NEW i \in DOMAIN queue'
                   PROVE  queue'[i] # c /\ \E j \in DOMAIN queue : queue'[i] = queue[j]
        OBVIOUS
      <3>1. CASE i < k
        BY <1>0, <2>2, <2>4, <2>6, <2>7, <2>8, <3>1
      <3>2. CASE ~ (i < k)
        <4>1. i + 1 # k
          BY <1>0, <2>7, <3>2
        <4> QED
          BY <2>2, <2>4, <2>6, <2>7, <2>8, <3>2, <4>1
      <3> QED
        BY <3>1, <3>2
    <2>12. \A i \in DOMAIN queue' : pc'[queue'[i]] = "wait" /\ queue'[i] \notin granted'
      BY <2>3, <2>11
    <2>13. \A d \in granted' : pc'[d] = "wait"
      BY <2>1, <2>3
    <2>14. ASSUME NEW d \in Caller, pc'[d] = "wait", d \notin granted'
           PROVE  \E i \in DOMAIN queue' : queue'[i] = d
      <3>1. d # c /\ pc[d] = "wait" /\ d \notin granted
        BY <2>3, <2>14
      <3>2. PICK j \in DOMAIN queue : queue[j] = d
        BY <3>1
      <3>3. CASE j < k
        <4>1. j \in 1..(Len(queue) - 1)
          BY <1>0, <3>3
        <4> QED
          BY <2>6, <2>7, <3>2, <3>3, <4>1
      <3>4. CASE ~ (j < k)
        <4>1. j # k
          BY <2>2, <3>1, <3>2
        <4>2. j - 1 \in 1..(Len(queue) - 1) /\ ~ (j - 1 < k) /\ (j - 1) + 1 = j
          BY <1>0, <3>4, <4>1
        <4> QED
          BY <2>6, <2>7, <3>2, <4>2
      <3> QED
        BY <3>3, <3>4
    <2> QED
      BY <2>9, <2>10, <2>12, <2>13, <2>14
  <1>6. ASSUME NEW c \in Caller, Release(c)
        PROVE  TypeOK' /\ QueueIsLive'
    <2>1. CASE queue = <<>>
      BY <1>6, <2>1 DEF Release
    <2>2. CASE queue # <<>>
      <3> DEFINE h == Head(queue)
      <3>1. /\ queue' \in Seq(Caller) /\ Len(queue') = Len(queue) - 1
            /\ \A i \in 1..(Len(queue) - 1) : queue'[i] = queue[i + 1]
            /\ h = queue[1] /\ 1 \in DOMAIN queue /\ h \in Caller
        <4>1. queue' = Tail(queue) /\ queue \in Seq(Caller) /\ queue # <<>>
          BY <1>6, <2>2 DEF Release
        <4> QED
          BY <4>1, HeadTailProperties
      <3>2. /\ granted' = granted \cup {h} /\ closed' = closed \cup {h}
            /\ ready' = ready /\ pc' = [pc EXCEPT ![c] = "idle"] /\ pc[c] = "release"
            /\ ctxDone' = ctxDone \ {c} /\ UNCHANGED <<active, maxConcurrent, knownError>>
        BY <1>6, <2>2 DEF Release
      <3> HIDE DEF h
      <3>3. pc[h] = "wait" /\ h \notin granted /\ h # c
        BY <3>1, <3>2
      <3>4. TypeOK'
        BY <3>1, <3>2, <3>3
      <3>5. DOMAIN queue' = 1..(Len(queue) - 1)
        BY <3>1
      <3>6. \A i \in 1..(Len(queue) - 1) : i + 1 \in DOMAIN queue /\ i + 1 # 1
        BY <1>0
      <3>7. ASSUME NEW i \in DOMAIN queue', NEW j \in DOMAIN queue', queue'[i] = queue'[j]
            PROVE  i = j
        <4>1. queue[i + 1] = queue[j + 1] /\ i + 1 \in DOMAIN queue /\ j + 1 \in DOMAIN queue
          BY <3>1, <3>5, <3>6, <3>7
        <4>2. i + 1 = j + 1
          BY <4>1
        <4> QED
          BY <3>5, <4>2
      <3>8. ASSUME NEW i \in DOMAIN queue'
            PROVE  queue'[i] # h
        <4>1. queue'[i] = queue[i + 1] /\ i + 1 \in DOMAIN queue /\ i + 1 # 1
          BY <3>1, <3>5, <3>6
        <4> QED
          BY <3>1, <4>1
      <3>9. ASSUME NEW i \in DOMAIN queue'
            PROVE  pc'[queue'[i]] = "wait" /\ queue'[i] \notin granted'
        <4>1. queue'[i] = queue[i + 1] /\ i + 1 \in DOMAIN queue
          BY <3>1, <3>5, <3>6
        <4>2. pc[queue'[i]] = "wait" /\ queue'[i] \notin granted
          BY <4>1
        <4> QED
          BY <3>2, <3>8, <4>2
      <3>10. ASSUME NEW d \in granted'
             PROVE  pc'[d] = "wait"
        <4>1. d \in Caller /\ pc[d] = "wait"
          BY <3>1, <3>2, <3>3
        <4> QED
          BY <3>2, <4>1
      <3>11. ASSUME NEW d \in Caller, pc'[d] = "wait", d \notin granted'
             PROVE  \E i \in DOMAIN queue' : queue'[i] = d
        <4>1. d # h /\ pc[d] = "wait" /\ d \notin granted
          BY <3>2, <3>11
        <4>2. PICK j \in DOMAIN queue : queue[j] = d
          BY <4>1
        <4>3. j # 1
          BY <3>1, <4>1, <4>2
        <4>4. j - 1 \in 1..(Len(queue) - 1) /\ (j - 1) + 1 = j
          BY <1>0, <4>3
        <4> QED
          BY <3>1, <3>5, <4>2, <4>4
      <3> QED
        BY <3>4, <3>7, <3>9, <3>10, <3>11
    <2> QED
      BY <2>1, <2>2
  <1>7. ASSUME NEW c \in Caller, Refuse(c) \/ Dispatch(c) \/ ProviderReturns(c) \/ Enter(c)
        PROVE  TypeOK' /\ QueueIsLive'
    BY <1>7 DEF Refuse, Dispatch, ProviderReturns, Enter
  <1>8. ASSUME NEW c \in Caller, CloseReady(c)
        PROVE  TypeOK' /\ QueueIsLive'
    BY <1>8 DEF CloseReady
  <1>9. ASSUME NEW c \in Caller, EndContext(c)
        PROVE  TypeOK' /\ QueueIsLive'
    BY <1>9 DEF EndContext
  <1>10. ASSUME NEW max \in Limit, SetMaxConcurrent(max)
         PROVE  TypeOK' /\ QueueIsLive'
    <2> DEFINE n == Admitted(max)
               new == {queue[i] : i \in 1..n}
    <2>1. n \in 0..Len(queue)
      BY <1>10, <1>0 DEF Admitted, QueueAssumption
    <2>2. /\ maxConcurrent' = max /\ active' = active + n
          /\ queue' = SubSeq(queue, n + 1, Len(queue))
          /\ granted' = granted \cup new /\ ready' = ready \cup new
          /\ UNCHANGED <<closed, pc, ctxDone, knownError>>
      BY <1>10, SMTT(20) DEF SetMaxConcurrent
    <2> HIDE DEF n
    <2>3. /\ queue' \in Seq(Caller) /\ Len(queue') = Len(queue) - n
          /\ \A i \in 1..(Len(queue) - n) : queue'[i] = queue[n + i]
      BY <2>1, <2>2, DropN
    <2>4. DOMAIN queue' = 1..(Len(queue) - n)
      BY <2>3
    <2>5. \A i \in 1..(Len(queue) - n) : n + i \in DOMAIN queue /\ n + i \notin 1..n
      BY <1>0, <2>1
    <2>6. 1..n \subseteq DOMAIN queue
      BY <1>0, <2>1
    <2>7. new \subseteq Caller /\ \A d \in new : pc[d] = "wait" /\ d \notin granted
      BY <2>6
    <2>8. TypeOK'
      <3>1. granted' \subseteq Caller /\ closed' \subseteq granted'
        BY <2>2, <2>7
      <3>2. ready' = granted' \ closed'
        BY <2>2, <2>7
      <3>3. active' \in Nat
        BY <2>1, <2>2
      <3> QED
        BY <1>10, <2>2, <2>3, <3>1, <3>2, <3>3, SMTT(20)
    <2>9. ASSUME NEW i \in DOMAIN queue', NEW j \in DOMAIN queue', queue'[i] = queue'[j]
          PROVE  i = j
      <3>1. queue[n + i] = queue[n + j] /\ n + i \in DOMAIN queue /\ n + j \in DOMAIN queue
        BY <2>3, <2>4, <2>5, <2>9
      <3>2. n + i = n + j
        BY <3>1
      <3> QED
        BY <2>1, <2>4, <3>2
    <2>10. \A i \in DOMAIN queue' : pc'[queue'[i]] = "wait" /\ queue'[i] \notin granted'
      <3> SUFFICES ASSUME NEW i \in DOMAIN queue'
                   PROVE  pc'[queue'[i]] = "wait" /\ queue'[i] \notin granted'
        OBVIOUS
      <3>1. queue'[i] = queue[n + i] /\ n + i \in DOMAIN queue /\ n + i \notin 1..n
        BY <2>3, <2>4, <2>5
      <3>2. queue'[i] \notin new
        BY <2>6, <3>1
      <3> QED
        BY <2>2, <3>1, <3>2, ZenonT(30)
    <2>11. \A d \in granted' : pc'[d] = "wait"
      BY <2>2, <2>7, SMTT(20)
    <2>12. ASSUME NEW d \in Caller, pc'[d] = "wait", d \notin granted'
           PROVE  \E i \in DOMAIN queue' : queue'[i] = d
      <3>1. pc[d] = "wait" /\ d \notin granted /\ d \notin new
        BY <2>2, <2>12, SMTT(20)
      <3>2. PICK j \in DOMAIN queue : queue[j] = d
        BY <3>1
      <3>3. j \notin 1..n
        BY <3>1, <3>2
      <3>4. j - n \in 1..(Len(queue) - n) /\ n + (j - n) = j
        BY <1>0, <2>1, <3>3
      <3> QED
        BY <2>3, <2>4, <3>2, <3>4, SMTT(20)
    <2> QED
      BY <2>8, <2>9, <2>10, <2>11, <2>12
  <1>11. CASE ProviderStatus
    BY <1>11 DEF ProviderStatus
  <1>12. CASE UNCHANGED vars
    BY <1>12, SMTT(30) DEF vars
  <1> QED
    BY <1>1, <1>2, <1>3, <1>4, <1>5, <1>6, <1>7, <1>8, <1>9, <1>10, <1>11, <1>12, Zenon DEF Next, Step

-----------------------------------------------------------------------------
(* Who has a slot                                                          *)

\* The steps that move no slot.
LEMMA SameHolders ==
    ASSUME TypeOK, QueueIsLive, NEW c \in Caller,
           \/ Enqueue(c) \/ Wake(c) \/ CancelGranted(c) \/ CancelWaiting(c)
           \/ Refuse(c) \/ Dispatch(c) \/ ProviderReturns(c)
           \/ CloseReady(c) \/ Enter(c) \/ EndContext(c)
    PROVE  Holders' = Holders /\ active' = active
  <1> USE DEF TypeOK, QueueIsLive, Goto, manager, Holders
  <1>1. CASE Enqueue(c)
    BY <1>1 DEF Enqueue
  <1>2. CASE Wake(c)
    BY <1>2 DEF Wake
  <1>3. CASE CancelGranted(c)
    BY <1>3 DEF CancelGranted
  <1>4. CASE CancelWaiting(c)
    BY <1>4 DEF CancelWaiting
  <1>5. CASE Refuse(c)
    BY <1>5 DEF Refuse
  <1>6. CASE Dispatch(c)
    BY <1>6 DEF Dispatch
  <1>7. CASE ProviderReturns(c)
    BY <1>7 DEF ProviderReturns
  <1>8. CASE CloseReady(c)
    BY <1>8 DEF CloseReady
  <1>9. CASE Enter(c)
    BY <1>9 DEF Enter
  <1>10. CASE EndContext(c)
    BY <1>10 DEF EndContext
  <1> QED
    BY <1>1, <1>2, <1>3, <1>4, <1>5, <1>6, <1>7, <1>8, <1>9, <1>10, SMTT(20)

\* active follows the set of holders in every step: one more for a free slot,
\* one holder exchanged for another in a hand-over, one less for a slot that
\* nobody waits for, and as many more as a new limit lets in.
LEMMA SlotsStep ==
    ASSUME QueueAssumption, TypeOK, QueueIsLive, SlotsAccounted, [Next]_vars
    PROVE  SlotsAccounted'
  <1> USE DEF SlotsAccounted
  <1>0. IsFiniteSet(Holders) /\ Cardinality(Holders) \in Nat /\ active = Cardinality(Holders)
    BY HoldersFinite
  <1>1. ASSUME NEW c \in Caller, AcquireFast(c)
        PROVE  SlotsAccounted'
    <2>1. Holders' = Holders \cup {c} /\ c \notin Holders /\ active' = active + 1
      BY <1>1 DEF AcquireFast, TypeOK, QueueIsLive, Goto, Holders
    <2> QED
      BY <1>0, <2>1, FS_AddElement, Zenon
  <1>2. ASSUME NEW c \in Caller, Release(c)
        PROVE  SlotsAccounted'
    <2>1. pc[c] = "release" /\ pc' = [pc EXCEPT ![c] = "idle"] /\ c \notin granted /\ c \in Holders
      BY <1>2 DEF Release, TypeOK, QueueIsLive, Goto, Holders
    <2>2. CASE queue = <<>>
      <3>1. granted' = granted /\ active' = IF active > 0 THEN active - 1 ELSE active
        BY <1>2, <2>2 DEF Release
      <3>2. Holders' = Holders \ {c}
        BY <2>1, <3>1 DEF TypeOK, Holders
      <3>3. Cardinality(Holders \ {c}) = Cardinality(Holders) - 1 /\ IsFiniteSet(Holders \ {c})
        BY <1>0, <2>1, FS_RemoveElement
      <3>4. Cardinality(Holders \ {c}) \in Nat
        BY <3>3, FS_CardinalityType
      <3> QED
        BY <1>0, <3>1, <3>2, <3>3, <3>4
    <2>3. CASE queue # <<>>
      <3> DEFINE h == Head(queue)
      <3>1. h = queue[1] /\ 1 \in DOMAIN queue
        BY <2>3 DEF TypeOK
      <3>2. granted' = granted \cup {h} /\ active' = active
        BY <1>2, <2>3 DEF Release
      <3> HIDE DEF h
      <3>3. h \in Caller /\ pc[h] = "wait" /\ h \notin granted
        BY <3>1 DEF TypeOK, QueueIsLive
      <3>4. h \notin Holders /\ h # c
        BY <2>1, <3>3 DEF Holders
      <3>5. Holders' = (Holders \cup {h}) \ {c}
        BY <2>1, <3>2, <3>3 DEF TypeOK, Holders
      <3>6. IsFiniteSet(Holders \cup {h}) /\ Cardinality(Holders \cup {h}) = active + 1
        BY <1>0, <3>4, FS_AddElement
      <3>7. Cardinality((Holders \cup {h}) \ {c}) = active + 1 - 1
        <4> DEFINE H == Holders \cup {h}
        <4>1. c \in H /\ IsFiniteSet(H) /\ Cardinality(H) = active + 1
          BY <2>1, <3>6
        <4> HIDE DEF H
        <4>2. Cardinality(H \ {c}) = active + 1 - 1
          <5>1. Cardinality(H \ {c}) = IF c \in H THEN Cardinality(H) - 1 ELSE Cardinality(H)
            BY <4>1, FS_RemoveElement, ZenonT(30)
          <5>2. Cardinality(H \ {c}) = Cardinality(H) - 1
            BY <4>1, <5>1, Zenon
          <5> QED
            BY <1>0, <4>1, <5>2
        <4> QED
          BY <4>2 DEF H
      <3> QED
        BY <1>0, <3>2, <3>5, <3>7
    <2> QED
      BY <2>2, <2>3
  <1>3. ASSUME NEW max \in Limit, SetMaxConcurrent(max)
        PROVE  SlotsAccounted'
    <2> DEFINE n == Admitted(max)
               new == {queue[i] : i \in 1..n}
    <2>1. queue \in Seq(Caller) /\ Len(queue) \in Nat /\ DOMAIN queue = 1..Len(queue)
      BY DEF TypeOK
    <2>2. n \in 0..Len(queue)
      BY <2>1 DEF Admitted, QueueAssumption, TypeOK
    <2>3. active' = active + n /\ granted' = granted \cup new /\ pc' = pc
      BY <1>3 DEF SetMaxConcurrent
    <2> HIDE DEF n
    <2>4. IsFiniteSet(new) /\ Cardinality(new) = n
      <3>1. \A i, j \in DOMAIN queue : queue[i] = queue[j] => i = j
        BY DEF QueueIsLive
      <3>2. /\ IsFiniteSet({queue[i] : i \in 1..n})
            /\ Cardinality({queue[i] : i \in 1..n}) = n
        BY <2>1, <2>2, <3>1, FirstN, ZenonT(60)
      <3> QED
        BY <3>2, Zenon
    <2>5. \A i \in 1..n : i \in DOMAIN queue
      BY <2>1, <2>2
    <2>6. \A d \in new : pc[d] = "wait" /\ d \notin granted
      BY <2>5 DEF QueueIsLive
    <2> HIDE DEF new
    <2>7. Holders' = Holders \cup new /\ Holders \cap new = {}
      BY <2>3, <2>6 DEF Holders
    <2>8. Cardinality(Holders \cup new) = Cardinality(Holders) + Cardinality(new) - Cardinality(Holders \cap new)
      BY <1>0, <2>4, FS_Union
    <2>9. Cardinality(Holders \cap new) = 0
      BY <2>7, FS_EmptySet
    <2> QED
      BY <1>0, <2>2, <2>3, <2>4, <2>7, <2>8, <2>9
  <1>4. ASSUME NEW c \in Caller,
               \/ Enqueue(c) \/ Wake(c) \/ CancelGranted(c) \/ CancelWaiting(c)
               \/ Refuse(c) \/ Dispatch(c) \/ ProviderReturns(c)
               \/ CloseReady(c) \/ Enter(c) \/ EndContext(c)
        PROVE  SlotsAccounted'
    BY <1>4, SameHolders
  <1>5. CASE ProviderStatus \/ UNCHANGED vars
    BY <1>5 DEF ProviderStatus, manager, vars, Holders
  <1> QED
    BY <1>1, <1>2, <1>3, <1>4, <1>5 DEF Next, Step

\* Nobody is left waiting beside a free slot by any step.
LEMMA IdleStep ==
    ASSUME QueueAssumption, TypeOK, QueueIsLive, NoIdleSlot, [Next]_vars
    PROVE  NoIdleSlot'
  <1> USE DEF NoIdleSlot
  <1>1. ASSUME NEW c \in Caller, AcquireFast(c) \/ Enqueue(c) \/ Wake(c) \/ CancelGranted(c)
        PROVE  NoIdleSlot'
    BY <1>1 DEF AcquireFast, Enqueue, Wake, CancelGranted, TypeOK, QueueAssumption
  <1>2. ASSUME NEW c \in Caller, CancelWaiting(c)
        PROVE  NoIdleSlot'
    <2>1. queue # <<>>
      BY <1>2 DEF CancelWaiting, QueueIsLive
    <2> QED
      BY <1>2, <2>1 DEF CancelWaiting
  <1>3. ASSUME NEW c \in Caller, Release(c)
        PROVE  NoIdleSlot'
    BY <1>3 DEF Release
  <1>4. ASSUME NEW c \in Caller,
               Refuse(c) \/ Dispatch(c) \/ ProviderReturns(c) \/ CloseReady(c) \/ Enter(c) \/ EndContext(c)
        PROVE  NoIdleSlot'
    BY <1>4 DEF Refuse, Dispatch, ProviderReturns, CloseReady, Enter, EndContext, manager
  <1>5. ASSUME NEW max \in Limit, SetMaxConcurrent(max)
        PROVE  NoIdleSlot'
    <2> DEFINE n == Admitted(max)
    <2>1. /\ queue \in Seq(Caller) /\ Len(queue) \in Nat /\ active \in Nat /\ max \in Nat
      BY DEF TypeOK, QueueAssumption
    <2>2. /\ n \in 0..Len(queue)
          /\ n = Len(queue) \/ active + n >= max
      BY <2>1 DEF Admitted
    <2>3. maxConcurrent' = max /\ active' = active + n /\ queue' = SubSeq(queue, n + 1, Len(queue))
      BY <1>5 DEF SetMaxConcurrent
    <2> HIDE DEF n
    <2>4. queue' \in Seq(Caller) /\ Len(queue') = Len(queue) - n
      BY <2>1, <2>2, <2>3, DropN
    <2>5. CASE n = Len(queue)
      BY <2>1, <2>4, <2>5
    <2>6. CASE active + n >= max
      BY <2>3, <2>6
    <2> QED
      BY <2>2, <2>5, <2>6
  <1>6. CASE ProviderStatus \/ UNCHANGED vars
    BY <1>6 DEF ProviderStatus, manager, vars
  <1> QED
    BY <1>1, <1>2, <1>3, <1>4, <1>5, <1>6 DEF Next, Step

-----------------------------------------------------------------------------
(* The theorems                                                            *)

LEMMA InitIInv == QueueAssumption /\ Init => IInv
  <1> SUFFICES ASSUME QueueAssumption, Init
               PROVE  IInv
    OBVIOUS
  <1>1. TypeOK /\ NoIdleSlot
    <2>1. queue \in Seq(Caller) /\ active \in Nat
      BY DEF Init
    <2>2. ready = granted \ closed /\ granted \subseteq Caller /\ closed \subseteq granted /\ ctxDone \subseteq Caller
      BY DEF Init
    <2>3. pc \in [Caller -> {"idle", "acquire", "wait", "check", "send", "release"}]
      BY DEF Init
    <2>4. knownError \in BOOLEAN /\ maxConcurrent \in Limit /\ queue = <<>>
      BY Zenon DEF Init
    <2> QED
      BY <2>1, <2>2, <2>3, <2>4, Zenon DEF TypeOK, NoIdleSlot
  <1>2. QueueIsLive
    <2>1. DOMAIN queue = {} /\ granted = {} /\ \A c \in Caller : pc[c] # "wait"
      BY DEF Init
    <2> QED
      BY <2>1 DEF QueueIsLive
  <1>3. Holders = {}
    BY DEF Init, Holders
  <1>4. SlotsAccounted
    BY <1>3, FS_EmptySet DEF Init, SlotsAccounted
  <1> QED
    BY <1>1, <1>2, <1>4 DEF IInv

LEMMA StepIInv == QueueAssumption /\ IInv /\ [Next]_vars => IInv'
    BY WaitersStep, SlotsStep, IdleStep DEF IInv

\* No slot of the forward queue is lost and none is given twice, for any number
\* of callers and any sequence of limits, through every race of a grant with a
\* cancellation: active counts the callers that have a slot, and no grant goes
\* to a caller that has left (Acquire, release, SetMaxConcurrent).
THEOREM NoSlotLost == Spec => [](SlotsAccounted /\ QueueIsLive)
  <1>1. Init => IInv
    BY InitIInv, QueueAssumption
  <1>2. IInv /\ [Next]_vars => IInv'
    BY StepIInv, QueueAssumption
  <1>3. IInv => SlotsAccounted /\ QueueIsLive
    BY DEF IInv
  <1> QED
    BY <1>1, <1>2, <1>3, PTL DEF Spec

\* Nobody waits while a slot is free (Acquire's fast path, the cancellation of a
\* waiter and SetMaxConcurrent).
THEOREM NobodyWaitsForNothing == Spec => []NoIdleSlot
  <1>1. Init => IInv
    BY InitIInv, QueueAssumption
  <1>2. IInv /\ [Next]_vars => IInv'
    BY StepIInv, QueueAssumption
  <1>3. IInv => NoIdleSlot
    BY DEF IInv
  <1> QED
    BY <1>1, <1>2, <1>3, PTL DEF Spec

LEMMA OrderStep ==
    ASSUME QueueAssumption, TypeOK, QueueIsLive, [Next]_vars,
           NEW i \in DOMAIN queue, NEW j \in DOMAIN queue, i < j, queue[j] \in granted'
    PROVE  queue[i] \in granted'
  <1>0. DOMAIN queue = 1..Len(queue) /\ Len(queue) \in Nat /\ queue[j] \notin granted
    BY DEF TypeOK, QueueIsLive
  <1>1. ASSUME NEW c \in Caller, Release(c)
        PROVE  queue[i] \in granted'
    <2>1. queue # <<>> /\ queue[j] = Head(queue)
      BY <1>0, <1>1 DEF Release
    <2>2. Head(queue) = queue[1] /\ 1 \in DOMAIN queue
      BY <2>1 DEF TypeOK
    <2>3. j = 1
      BY <2>1, <2>2 DEF QueueIsLive
    <2> QED
      BY <1>0, <2>3
  <1>2. ASSUME NEW max \in Limit, SetMaxConcurrent(max)
        PROVE  queue[i] \in granted'
    <2> DEFINE n == Admitted(max)
    <2>1. granted' = granted \cup {queue[m] : m \in 1..n}
      BY <1>2 DEF SetMaxConcurrent
    <2>2. n \in 0..Len(queue)
      BY <1>0 DEF Admitted, QueueAssumption, TypeOK
    <2> HIDE DEF n
    <2>3. PICK m \in 1..n : queue[m] = queue[j]
      BY <1>0, <2>1
    <2>4. m = j
      BY <1>0, <2>2, <2>3 DEF QueueIsLive
    <2>5. i \in 1..n
      BY <1>0, <2>2, <2>4, SMTT(20)
    <2> QED
      BY <2>1, <2>5
  <1>3. ASSUME ~ (granted' \subseteq granted)
        PROVE  \/ \E c \in Caller : Release(c)
               \/ \E max \in Limit : SetMaxConcurrent(max)
    BY <1>3 DEF Next, Step, AcquireFast, Enqueue, Wake, CancelGranted, CancelWaiting, Refuse,
                Dispatch, ProviderReturns, CloseReady, Enter, EndContext, ProviderStatus, manager, vars
  <1> QED
    BY <1>0, <1>1, <1>2, <1>3

\* First come, first served: whatever step grants a slot, to one waiter or to
\* several, leaves nobody waiting that came before.
THEOREM FirstComeFirstServed == Spec => ServedInOrder
  <1>1. Init => IInv
    BY InitIInv, QueueAssumption
  <1>2. IInv /\ [Next]_vars => IInv'
    BY StepIInv, QueueAssumption
  <1>3. IInv /\ [Next]_vars
        => [\A i, j \in DOMAIN queue :
               i < j /\ queue[j] \in granted' => queue[i] \in granted']_vars
    BY OrderStep, QueueAssumption DEF IInv
  <1> QED
    BY <1>1, <1>2, <1>3, PTL DEF Spec, ServedInOrder

LEMMA GrowthStep ==
    ASSUME QueueAssumption, TypeOK, [Next]_vars, active' > active
    PROVE  active' <= maxConcurrent'
  <1>0. active \in Nat /\ maxConcurrent \in Nat /\ Len(queue) \in Nat
    BY DEF TypeOK, QueueAssumption
  <1>1. ASSUME NEW c \in Caller, AcquireFast(c)
        PROVE  active' <= maxConcurrent'
    BY <1>0, <1>1 DEF AcquireFast
  <1>2. ASSUME NEW max \in Limit, SetMaxConcurrent(max)
        PROVE  active' <= maxConcurrent'
    <2>1. max \in Nat /\ maxConcurrent' = max /\ active' = active + Admitted(max)
      BY <1>2, Zenon DEF SetMaxConcurrent, QueueAssumption
    <2>2. Admitted(max) > 0
      BY <1>0, <2>1 DEF Admitted
    <2>3. active + Admitted(max) <= max
      BY <1>0, <2>1, <2>2 DEF Admitted
    <2> QED
      BY <2>1, <2>3
  <1>3. ASSUME NEW c \in Caller, Release(c)
        PROVE  FALSE
    BY <1>0, <1>3, SMTT(20) DEF Release
  <1>4. \/ \E c \in Caller : AcquireFast(c) \/ Release(c)
        \/ \E max \in Limit : SetMaxConcurrent(max)
    BY <1>0 DEF Next, Step, Enqueue, Wake, CancelGranted, CancelWaiting, Refuse,
                Dispatch, ProviderReturns, CloseReady, Enter, EndContext, ProviderStatus, manager, vars
  <1> QED
    BY <1>1, <1>2, <1>3, <1>4

\* The number of slots taken grows only up to the limit of that moment, by
\* Acquire and by SetMaxConcurrent.
THEOREM LimitBoundsGrowth == Spec => GrowsWithinLimit
  <1>1. Init => IInv
    BY InitIInv, QueueAssumption
  <1>2. IInv /\ [Next]_vars => IInv'
    BY StepIInv, QueueAssumption
  <1>3. IInv /\ [Next]_vars => [active' > active => active' <= maxConcurrent']_vars
    BY GrowthStep, QueueAssumption DEF IInv
  <1> QED
    BY <1>1, <1>2, <1>3, PTL DEF Spec, GrowsWithinLimit

-----------------------------------------------------------------------------
(***************************************************************************)
(* What a listener is sent on with, for any rooms and requests.  A request *)
(* that is being answered is among the active ones of its room and nowhere *)
(* else, so CompleteP1 finds it and a listener watches somebody of its own *)
(* room; and what a listener has heard is what it watches.                 *)
(***************************************************************************)

InRoom(m) == {p \in P1 : RoomOf[p] = m}

RoomsInv ==
    /\ rooms = [m \in Room |-> rooms[m]]
    /\ \A m \in Room : rooms[m] \in Seq(InRoom(m))
    /\ \A p \in P1 : chatPc[p] = "sending" =>
         \E k \in DOMAIN rooms[RoomOf[p]] : rooms[RoomOf[p]][k] = p

ListenerInv ==
    /\ chatPc = [x \in P1 \cup P3 |-> chatPc[x]]
    /\ watches = [x \in P3 |-> watches[x]]
    /\ heard = [x \in P3 |-> heard[x]]
    /\ \A x \in P3 : watches[x] # None => watches[x] \in InRoom(RoomOf[x])
    /\ \A x \in P3 : chatPc[x] \in {"start", "checked", "waiting"} => heard[x] = None
    /\ \A x \in P3 : heard[x] # None => heard[x] = watches[x] /\ heard[x] \in content

ChatInv == RoomsInv /\ ListenerInv

\* CompleteP1 takes its request out, and leaves every other one in the room.
LEMMA OthersStay ==
    ASSUME NEW S, NEW q \in Seq(S), NEW e, \E k \in DOMAIN q : q[k] = e
    PROVE  /\ Chat!Without(q, e) \in Seq(S)
           /\ \A j \in DOMAIN q : q[j] # e =>
                \E i \in DOMAIN Chat!Without(q, e) : Chat!Without(q, e)[i] = q[j]
  <1> DEFINE k == CHOOSE i \in DOMAIN q : q[i] = e
             r == Chat!Without(q, e)
  <1>1. k \in DOMAIN q /\ q[k] = e
    OBVIOUS
  <1>2. r = SubSeq(q, 1, k - 1) \o SubSeq(q, k + 1, Len(q))
    BY DEF Chat!Without
  <1> HIDE DEF k, r
  <1>3. /\ r \in Seq(S) /\ Len(r) = Len(q) - 1
        /\ \A i \in 1..(Len(q) - 1) : r[i] = IF i < k THEN q[i] ELSE q[i + 1]
    BY <1>1, <1>2, CutOut, Zenon
  <1>4. DOMAIN q = 1..Len(q) /\ Len(q) \in Nat /\ DOMAIN r = 1..(Len(q) - 1)
    BY <1>3
  <1>5. ASSUME NEW j \in DOMAIN q, q[j] # e
        PROVE  \E i \in DOMAIN r : r[i] = q[j]
    <2>1. j # k
      BY <1>1, <1>5
    <2>2. CASE j < k
      <3>1. j \in 1..(Len(q) - 1)
        BY <1>1, <1>4, <2>2
      <3> QED
        BY <1>3, <1>4, <2>2, <3>1
    <2>3. CASE k < j
      <3>1. j - 1 \in 1..(Len(q) - 1) /\ ~ (j - 1 < k) /\ (j - 1) + 1 = j
        BY <1>1, <1>4, <2>3
      <3>2. r[j - 1] = q[j]
        BY <1>3, <3>1
      <3> QED
        BY <1>4, <3>1, <3>2
    <2> QED
      BY <1>1, <1>4, <2>1, <2>2, <2>3
  <1> QED
    BY <1>3, <1>5 DEF r

LEMMA ChatInit == Chat!Init => ChatInv
  <1> SUFFICES ASSUME Chat!Init PROVE ChatInv
    OBVIOUS
  <1>1. \A S : <<>> \in Seq(S)
    OBVIOUS
  <1>2. RoomsInv
    BY <1>1, ChatAssumption DEF Chat!Init, RoomsInv, Chat!ConstantsOK
  <1>3. ListenerInv
    BY DEF Chat!Init, ListenerInv
  <1> QED
    BY <1>2, <1>3 DEF ChatInv

\* A step of a listener that leaves the rooms alone.
LEMMA RoomsKept ==
    ASSUME RoomsInv, ListenerInv, NEW x \in P1 \cup P3, NEW l, l # "sending" \/ x \in P3,
           chatPc' = [chatPc EXCEPT ![x] = l], rooms' = rooms
    PROVE  RoomsInv'
  <1>1. \A p \in P1 : chatPc'[p] = "sending" => chatPc[p] = "sending"
    BY ChatAssumption DEF ListenerInv, Chat!ConstantsOK
  <1> QED
    BY <1>1, Zenon DEF RoomsInv

\* The steps of a directly addressed request.
LEMMA SpeakerKeeps ==
    ASSUME ChatInv, NEW p \in P1, Chat!MarkP1Active(p) \/ Chat!StepP1(p)
    PROVE  ChatInv'
  <1> DEFINE m == RoomOf[p]
  <1>0. m \in Room /\ p \in InRoom(m) /\ p \notin P3
    BY ChatAssumption DEF Chat!ConstantsOK, InRoom
  <1>1. /\ UNCHANGED <<watches, heard>> /\ content \subseteq content'
        /\ \E l \in {"sending", "end"} : chatPc' = [chatPc EXCEPT ![p] = l]
    BY DEF Chat!MarkP1Active, Chat!StepP1, Chat!CompleteP1, Chat!ReturnsIncomplete, Chat!Goto
  <1>2. \A x \in P3 : chatPc'[x] = chatPc[x]
    BY <1>0, <1>1 DEF ChatInv, ListenerInv
  <1>3. ListenerInv'
    BY <1>1, <1>2, Zenon DEF ChatInv, ListenerInv
  <1>4. CASE Chat!MarkP1Active(p)
    <2>1. /\ rooms' = [rooms EXCEPT ![m] = Append(rooms[m], p)]
          /\ chatPc' = [chatPc EXCEPT ![p] = "sending"]
      BY <1>4 DEF Chat!MarkP1Active, Chat!Goto
    <2>2. rooms[m] \in Seq(InRoom(m))
      BY <1>0 DEF ChatInv, RoomsInv
    <2>3. /\ Append(rooms[m], p) \in Seq(InRoom(m))
          /\ \A k \in DOMAIN rooms[m] : k \in DOMAIN Append(rooms[m], p)
                                          /\ Append(rooms[m], p)[k] = rooms[m][k]
          /\ Len(rooms[m]) + 1 \in DOMAIN Append(rooms[m], p)
          /\ Append(rooms[m], p)[Len(rooms[m]) + 1] = p
      BY <1>0, <2>2
    <2>4. /\ rooms' = [n \in Room |-> rooms'[n]]
          /\ rooms'[m] = Append(rooms[m], p)
          /\ \A n \in Room : n # m => rooms'[n] = rooms[n]
      BY <1>0, <2>1, Zenon DEF ChatInv, RoomsInv
    <2>5. \A n \in Room : rooms'[n] \in Seq(InRoom(n))
      BY <2>3, <2>4, Zenon DEF ChatInv, RoomsInv
    <2>6. ASSUME NEW o \in P1, chatPc'[o] = "sending"
          PROVE  \E k \in DOMAIN rooms'[RoomOf[o]] : rooms'[RoomOf[o]][k] = o
      <3>1. CASE o = p
        BY <2>3, <2>4, <3>1, SMTT(20)
      <3>2. CASE o # p
        <4>1. RoomOf[o] \in Room
          BY ChatAssumption DEF Chat!ConstantsOK
        <4>2. chatPc[o] = "sending"
          BY <2>1, <2>6, <3>2 DEF ChatInv, ListenerInv
        <4>3. PICK k \in DOMAIN rooms[RoomOf[o]] : rooms[RoomOf[o]][k] = o
          BY <4>2, Zenon DEF ChatInv, RoomsInv
        <4> QED
          BY <2>3, <2>4, <4>1, <4>3
      <3> QED
        BY <3>1, <3>2
    <2>7. RoomsInv'
      BY <2>4, <2>5, <2>6 DEF RoomsInv
    <2> QED
      BY <1>3, <2>7, SMTT(20) DEF ChatInv
  <1>5. CASE Chat!ReturnsIncomplete(p)
    <2>1. rooms' = rooms /\ chatPc' = [chatPc EXCEPT ![p] = "end"]
      BY <1>5 DEF Chat!ReturnsIncomplete, Chat!Goto
    <2>2. RoomsInv'
      BY <2>1, RoomsKept, Zenon DEF ChatInv
    <2> QED
      BY <1>3, <2>2 DEF ChatInv
  <1>6. CASE \E says \in BOOLEAN : Chat!CompleteP1(p, says)
    <2> DEFINE r == Chat!Without(rooms[m], p)
    <2>1. /\ chatPc[p] = "sending"
          /\ rooms' = [rooms EXCEPT ![m] = r]
          /\ chatPc' = [chatPc EXCEPT ![p] = "end"]
      BY <1>6 DEF Chat!CompleteP1, Chat!Goto
    <2>2. /\ rooms[m] \in Seq(InRoom(m))
          /\ \E k \in DOMAIN rooms[m] : rooms[m][k] = p
      BY <1>0, <2>1 DEF ChatInv, RoomsInv
    <2>3. /\ r \in Seq(InRoom(m))
          /\ \A j \in DOMAIN rooms[m] : rooms[m][j] # p =>
               \E i \in DOMAIN r : r[i] = rooms[m][j]
      BY <2>2, OthersStay
    <2> HIDE DEF r
    <2>4. /\ rooms' = [n \in Room |-> rooms'[n]]
          /\ rooms'[m] = r
          /\ \A n \in Room : n # m => rooms'[n] = rooms[n]
      BY <1>0, <2>1, Zenon DEF ChatInv, RoomsInv
    <2>5. \A n \in Room : rooms'[n] \in Seq(InRoom(n))
      BY <2>3, <2>4, Zenon DEF ChatInv, RoomsInv
    <2>6. ASSUME NEW o \in P1, chatPc'[o] = "sending"
          PROVE  \E k \in DOMAIN rooms'[RoomOf[o]] : rooms'[RoomOf[o]][k] = o
      <3>1. o # p /\ chatPc[o] = "sending"
        BY <2>1, <2>6 DEF ChatInv, ListenerInv
      <3>2. RoomOf[o] \in Room
        BY ChatAssumption DEF Chat!ConstantsOK
      <3>3. PICK k \in DOMAIN rooms[RoomOf[o]] : rooms[RoomOf[o]][k] = o
        BY <3>1, Zenon DEF ChatInv, RoomsInv
      <3> QED
        BY <2>3, <2>4, <3>1, <3>2, <3>3, Zenon
    <2>7. RoomsInv'
      BY <2>4, <2>5, <2>6 DEF RoomsInv
    <2> QED
      BY <1>3, <2>7 DEF ChatInv
  <1> QED
    BY <1>4, <1>5, <1>6 DEF Chat!StepP1

\* The steps of a listener.
LEMMA ListenerKeeps ==
    ASSUME ChatInv, NEW x \in P3, Chat!StepP3(x)
    PROVE  ChatInv'
  <1>1. /\ rooms' = rooms /\ content' = content
        /\ \E l : chatPc' = [chatPc EXCEPT ![x] = l]
    BY DEF Chat!StepP3, Chat!NoActiveP1, Chat!HasActiveP1, Chat!WaitForP1, Chat!WaitForNobody,
           Chat!Released, Chat!TimesOut, Chat!ListenerEnds, Chat!Goto
  <1>2. RoomsInv'
    BY <1>1, RoomsKept, Zenon DEF ChatInv
  <1>3. CASE Chat!WaitForP1(x)
    <2> DEFINE w == Head(rooms[RoomOf[x]])
    <2>1. /\ chatPc[x] = "checked" /\ rooms[RoomOf[x]] # <<>>
          /\ watches' = [watches EXCEPT ![x] = w]
          /\ chatPc' = [chatPc EXCEPT ![x] = "waiting"]
          /\ heard' = heard
      BY <1>3 DEF Chat!WaitForP1, Chat!Goto
    <2>2. RoomOf[x] \in Room
      BY ChatAssumption DEF Chat!ConstantsOK
    <2>3. rooms[RoomOf[x]] \in Seq(InRoom(RoomOf[x]))
      BY <2>2 DEF ChatInv, RoomsInv
    <2>4. w \in InRoom(RoomOf[x])
      BY <2>1, <2>3
    <2> HIDE DEF w
    <2>5. ListenerInv'
      BY <1>1, <2>1, <2>4, Zenon DEF ChatInv, ListenerInv
    <2> QED
      BY <1>2, <2>5 DEF ChatInv
  <1>4. CASE Chat!Released(x)
    <2>1. /\ chatPc[x] = "waiting" /\ watches' = watches
          /\ heard' = [heard EXCEPT ![x] = IF watches[x] \in content THEN watches[x] ELSE None]
          /\ chatPc' = [chatPc EXCEPT ![x] = "sending"]
      BY <1>4 DEF Chat!Released, Chat!Goto
    <2>2. ListenerInv'
      BY <1>1, <2>1, Zenon DEF ChatInv, ListenerInv
    <2> QED
      BY <1>2, <2>2 DEF ChatInv
  <1>5. CASE \/ Chat!NoActiveP1(x) \/ Chat!HasActiveP1(x) \/ Chat!WaitForNobody(x)
             \/ Chat!TimesOut(x) \/ Chat!ListenerEnds(x)
    <2>1. PICK l : /\ chatPc' = [chatPc EXCEPT ![x] = l] /\ UNCHANGED <<watches, heard>>
                   /\ l \in {"start", "checked", "waiting"} =>
                        chatPc[x] \in {"start", "checked", "waiting"}
      BY <1>5, Zenon DEF Chat!NoActiveP1, Chat!HasActiveP1, Chat!WaitForNobody, Chat!TimesOut,
                  Chat!ListenerEnds, Chat!Goto
    <2>2. ListenerInv'
      BY <1>1, <2>1, Zenon DEF ChatInv, ListenerInv
    <2> QED
      BY <1>2, <2>2 DEF ChatInv
  <1> QED
    BY <1>3, <1>4, <1>5, SMTT(20) DEF Chat!StepP3

\* A listener is sent on with words that were said by the request it waited
\* for, one of its own room (WaitForP1, CompleteP1), however many are active.
THEOREM ListenersHearTheirRoom == Chat!Spec => []HearsWhatWasSaid
  <1>1. ChatInv /\ [Chat!Next]_Chat!vars => ChatInv'
    <2> SUFFICES ASSUME ChatInv, [Chat!Next]_Chat!vars PROVE ChatInv'
      OBVIOUS
    <2>1. CASE Chat!Cleanup \/ UNCHANGED Chat!vars
      <3>1. rooms' = rooms
        BY <2>1 DEF Chat!Cleanup, Chat!vars, ChatInv, RoomsInv
      <3>2. UNCHANGED <<content, chatPc, watches, heard>>
        BY <2>1 DEF Chat!Cleanup, Chat!vars
      <3> QED
        BY <3>1, <3>2, Zenon DEF ChatInv, RoomsInv, ListenerInv
    <2> QED
      BY <2>1, SpeakerKeeps, ListenerKeeps DEF Chat!Next
  <1>2. ChatInv => HearsWhatWasSaid
    BY DEF ChatInv, ListenerInv, InRoom, HearsWhatWasSaid, Chat!HearsWhatWasSaid
  <1> QED
    BY <1>1, <1>2, ChatInit, PTL DEF Chat!Spec
=============================================================================
