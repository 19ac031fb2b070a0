----------------------- MODULE IdempotencyCacheProofs -----------------------
(***************************************************************************)
(* What the idempotency cache promises, for any number of keys, payloads,  *)
(* callers and cells, any TTL and any capacity.                            *)
(***************************************************************************)
EXTENDS MCIdempotencyCache, FiniteSetTheorems, WellFoundedInduction, TLAPS

\* A caller in the second half of get_or_compute holds a cell in use, and at
\* most one caller runs in a cell.
CellsHeld ==
    /\ \A c \in Caller : pc[c] # "idle" =>
         cell[c] \in Cell /\ req[c] \in Request /\ cellState[cell[c]] # "unused"
    /\ \A c \in Caller : pc[c] = "running" => cellState[cell[c]] = "running"
    /\ \A c, d \in Caller :
         (pc[c] = "running" /\ pc[d] = "running" /\ cell[c] = cell[d]) => c = d

\* Until its cell is filled, a caller's key stays in the map, bound to that cell
\* and to the caller's payload; and no two keys share a cell.
CellsBound ==
    /\ \A c \in Caller : (pc[c] # "idle" /\ cellState[cell[c]] # "done") =>
         /\ entries[req[c].key] # None
         /\ entries[req[c].key].cell = cell[c]
         /\ entries[req[c].key].digest = req[c].digest
    /\ \A k \in Key : entries[k] # None => cellState[entries[k].cell] # "unused"
    /\ \A j, k \in Key :
         (entries[j] # None /\ entries[k] # None /\ entries[j].cell = entries[k].cell)
            => j = k

\* A filled cell holds the response of the payload its key is bound to, and of
\* every caller that waits for it or was answered from it.
CellsFilled ==
    /\ \A k \in Key : (entries[k] # None /\ cellState[entries[k].cell] = "done") =>
         cellValue[entries[k].cell] = entries[k].digest
    /\ \A c \in Caller : (pc[c] = "init" /\ cellState[cell[c]] = "done") =>
         cellValue[cell[c]] = req[c].digest
    /\ \A c \in Caller : (pc[c] = "idle" /\ outcome[c] = "response") =>
         /\ cell[c] \in Cell
         /\ cellState[cell[c]] = "done"
         /\ cellValue[cell[c]] = req[c].digest

\* The inductive invariant behind SingleFlight and OwnResponse.
CellsInv == TypeOK /\ CellsHeld /\ CellsBound /\ CellsFilled

USE CacheAssumption DEF Request, Entry

\* The purge of get_or_compute keeps the map's shape, only removes entries, and
\* removes none whose cell is not filled.
LEMMA RetainedFacts ==
    ASSUME TypeOK
    PROVE  /\ Retained \in [Key -> Entry \cup {None}]
           /\ \A k \in Key : Retained[k] = None \/ Retained[k] = entries[k]
           /\ \A k \in Key : (entries[k] # None /\ cellState[entries[k].cell] # "done")
                               => Retained[k] = entries[k]
  BY DEF TypeOK, Retained, Completed

\* What get_or_compute evicts: nothing while there is room, else one filled entry.
LEMMA VictimFacts ==
    ASSUME NEW m, NEW victim \in Victims(m)
    PROVE  /\ \A j \in victim : cellState[m[j].cell] = "done"
           /\ \/ victim = {} /\ Cardinality(Keys(m)) < Capacity
              \/ \E v \in Keys(m) : victim = {v}
  BY DEF Victims, OldestCompleted, Completed

\* The initial state, an empty map, satisfies the invariant.
LEMMA CellsInit == Init => CellsInv
  BY DEF Init, CellsInv, TypeOK, CellsHeld, CellsBound, CellsFilled, Outcomes

\* Every step of every caller preserves the invariant.
LEMMA CellsStep == CellsInv /\ [Next]_vars => CellsInv'
<1> SUFFICES ASSUME CellsInv, [Next]_vars
             PROVE  CellsInv'
  OBVIOUS
<1> USE DEF CellsInv
<1>1. ASSUME NEW c \in Caller, NEW k \in Key, NEW d \in Digest, LookupConflict(c, k, d)
      PROVE  CellsInv'
  BY <1>1, RetainedFacts, SMTT(20)
     DEF LookupConflict, TypeOK, CellsHeld, CellsBound, CellsFilled, Outcomes
<1>2. ASSUME NEW c \in Caller, NEW k \in Key, NEW d \in Digest, LookupHit(c, k, d)
      PROVE  CellsInv'
  BY <1>2, RetainedFacts
     DEF LookupHit, TypeOK, CellsHeld, CellsBound, CellsFilled, Outcomes
<1>3. ASSUME NEW c \in Caller, NEW k \in Key, NEW d \in Digest, LookupInsert(c, k, d)
      PROVE  CellsInv'
  <2>1. PICK victim \in Victims(Retained), x \in Cell :
          /\ cellState[x] = "unused"
          /\ entries' = [j \in Key |->
                           IF j = k THEN [digest |-> d, at |-> clock, cell |-> x]
                           ELSE IF j \in victim THEN None ELSE Retained[j]]
          /\ cellState' = [cellState EXCEPT ![x] = "empty"]
          /\ cell' = [cell EXCEPT ![c] = x]
    BY <1>3, Zenon DEF LookupInsert
  <2>2. /\ pc[c] = "idle" /\ Retained[k] = None
        /\ req' = [req EXCEPT ![c] = [key |-> k, digest |-> d]]
        /\ pc' = [pc EXCEPT ![c] = "init"]
        /\ outcome' = [outcome EXCEPT ![c] = "none"]
        /\ UNCHANGED <<clock, cellValue>>
    BY <1>3 DEF LookupInsert
  <2>3. /\ \A j \in Key : entries'[j] = IF j = k THEN [digest |-> d, at |-> clock, cell |-> x]
                                        ELSE IF j \in victim THEN None ELSE Retained[j]
        /\ \A j \in Key \ {k} : entries'[j] = None \/ entries'[j] = entries[j]
    BY <2>1, RetainedFacts
  <2>4. TypeOK'
    BY <2>1, <2>2, RetainedFacts DEF TypeOK, Outcomes
  <2>5. CellsHeld'
    BY <2>1, <2>2 DEF TypeOK, CellsHeld
  <2>6. ASSUME NEW b \in Caller, b # c, pc[b] # "idle", cellState[cell[b]] # "done"
        PROVE  /\ req[b].key # k
               /\ entries'[req[b].key] = entries[req[b].key]
    <3>1. /\ req[b].key \in Key
          /\ entries[req[b].key] # None
          /\ entries[req[b].key].cell = cell[b]
      BY <2>6 DEF CellsHeld, CellsBound
    <3>2. Retained[req[b].key] = entries[req[b].key]
      BY <2>6, <3>1, RetainedFacts
    <3>3. req[b].key \notin victim
      BY <2>6, <3>1, <3>2, VictimFacts, SMTT(20)
    <3>4. QED
      BY <2>2, <2>3, <3>1, <3>2, <3>3
  <2>7. CellsBound'
    BY <2>1, <2>2, <2>3, <2>6, SMTT(20) DEF TypeOK, CellsHeld, CellsBound
  <2>8. CellsFilled'
    BY <2>1, <2>2, <2>3, SMTT(20) DEF TypeOK, CellsHeld, CellsBound, CellsFilled
  <2>9. QED
    BY <2>4, <2>5, <2>7, <2>8
<1>4. ASSUME NEW c \in Caller, NEW k \in Key, NEW d \in Digest, LookupExhausted(c, k, d)
      PROVE  CellsInv'
  BY <1>4, RetainedFacts, SMTT(20)
     DEF LookupExhausted, TypeOK, CellsHeld, CellsBound, CellsFilled, Outcomes
<1>5. ASSUME NEW c \in Caller, RunHandler(c)
      PROVE  CellsInv'
  BY <1>5, SMTT(20) DEF RunHandler, TypeOK, CellsHeld, CellsBound, CellsFilled, Outcomes
<1>6. ASSUME NEW c \in Caller, FinishHandler(c)
      PROVE  CellsInv'
  BY <1>6 DEF FinishHandler, TypeOK, CellsHeld, CellsBound, CellsFilled, Outcomes
<1>7. ASSUME NEW c \in Caller, TakeResponse(c)
      PROVE  CellsInv'
  BY <1>7 DEF TakeResponse, TypeOK, CellsHeld, CellsBound, CellsFilled, Outcomes
<1>8. ASSUME NEW c \in Caller, PanicHandler(c)
      PROVE  CellsInv'
  BY <1>8 DEF PanicHandler, TypeOK, CellsHeld, CellsBound, CellsFilled, Outcomes
<1>9. CASE Tick
  BY <1>9 DEF Tick, TypeOK, CellsHeld, CellsBound, CellsFilled
<1>10. CASE UNCHANGED vars
  BY <1>10 DEF vars, TypeOK, CellsHeld, CellsBound, CellsFilled
<1>11. QED
  BY <1>1, <1>2, <1>3, <1>4, <1>5, <1>6, <1>7, <1>8, <1>9, <1>10
     DEF Next, Lookup, Resolve

LEMMA CellsAlways == Spec => []CellsInv
  BY CellsInit, CellsStep, PTL DEF Spec

\* No two handlers run at once for one key, whatever get_or_compute purges and
\* evicts in the meantime.
THEOREM CacheRunsOnce == Spec => [](TypeOK /\ SingleFlight)
<1>1. CellsInv => TypeOK /\ SingleFlight
  BY DEF CellsInv, TypeOK, CellsHeld, CellsBound, SingleFlight
<1>2. QED
  BY <1>1, CellsAlways, PTL

\* Every answer was computed for the payload it answers, whichever caller's
\* handler filled the cell that get_or_compute returned.
THEOREM CacheAnswersOwn == Spec => []OwnResponse
<1>1. CellsInv => OwnResponse
  BY DEF CellsInv, CellsFilled, OwnResponse
<1>2. QED
  BY <1>1, CellsAlways, PTL

\* The retain leaves no more keys in the map than there were.
LEMMA RetainedKeys ==
    ASSUME TypeOK
    PROVE  /\ IsFiniteSet(Keys(Retained))
           /\ Cardinality(Keys(Retained)) \in Nat
           /\ Cardinality(Keys(entries)) \in Nat
           /\ Cardinality(Keys(Retained)) <= Cardinality(Keys(entries))
<1>1. IsFiniteSet(Keys(entries))
  BY FS_Subset DEF Keys
<1>2. Keys(Retained) \subseteq Keys(entries)
  BY RetainedFacts DEF Keys
<1>3. QED
  BY <1>1, <1>2, FS_Subset, FS_CardinalityType

\* The map never holds more entries than its capacity: an insertion into a full
\* map evicts first or is refused.
THEOREM CacheBounded == Spec => []WithinCapacity
<1>1. Init => WithinCapacity
  <2>1. Init => Keys(entries) = {}
    BY DEF Init, Keys
  <2>2. QED
    BY <2>1, FS_EmptySet DEF WithinCapacity
<1>2. TypeOK /\ WithinCapacity /\ [Next]_vars => WithinCapacity'
  <2> SUFFICES ASSUME TypeOK, WithinCapacity, [Next]_vars
               PROVE  WithinCapacity'
    OBVIOUS
  <2> DEFINE R == Keys(Retained)
  <2>1. CASE UNCHANGED entries
    BY <2>1 DEF WithinCapacity, Keys
  <2>2. CASE entries' = Retained
    <3>1. Keys(entries)' = R
      BY <2>2 DEF Keys
    <3>2. QED
      BY <3>1, RetainedKeys DEF WithinCapacity
  <2>3. ASSUME NEW c \in Caller, NEW k \in Key, NEW d \in Digest, LookupInsert(c, k, d)
        PROVE  WithinCapacity'
    <3>1. PICK victim \in Victims(Retained), x \in Cell :
            entries' = [j \in Key |->
                          IF j = k THEN [digest |-> d, at |-> clock, cell |-> x]
                          ELSE IF j \in victim THEN None ELSE Retained[j]]
      BY <2>3 DEF LookupInsert
    <3>2. [digest |-> d, at |-> clock, cell |-> x] # None
      BY DEF TypeOK
    <3>3. Keys(entries)' = (R \ victim) \cup {k}
      BY <3>1, <3>2 DEF Keys
    <3>4. k \notin R
      BY <2>3 DEF LookupInsert, Keys
    <3>5. CASE victim = {} /\ Cardinality(R) < Capacity
      <4>1. Keys(entries)' = R \cup {k}
        BY <3>3, <3>5
      <4>2. Cardinality(Keys(entries)') = Cardinality(R) + 1
        BY <3>4, <4>1, RetainedKeys, FS_AddElement, Zenon
      <4>3. QED
        BY <3>5, <4>2, RetainedKeys DEF WithinCapacity
    <3>6. CASE \E v \in R : victim = {v}
      <4>1. PICK v \in R : victim = {v}
        BY <3>6
      <4>2. /\ IsFiniteSet(R \ {v})
            /\ Cardinality(R \ {v}) = Cardinality(R) - 1
        BY RetainedKeys, FS_RemoveElement
      <4>3. Cardinality(Keys(entries)') = Cardinality(R \ {v}) + 1
        BY <3>3, <3>4, <4>1, <4>2, FS_AddElement, Zenon
      <4>4. QED
        BY <4>2, <4>3, RetainedKeys DEF WithinCapacity
    <3>7. QED
      BY <3>5, <3>6, VictimFacts
  <2>4. QED
    BY <2>1, <2>2, <2>3
       DEF Next, Lookup, Resolve, LookupConflict, LookupHit, LookupExhausted, RunHandler,
           FinishHandler, TakeResponse, PanicHandler, Tick, vars
<1>3. QED
  BY <1>1, <1>2, CacheRunsOnce, PTL DEF Spec

\* Somebody runs the handler of every cell that is marked as running.
CellsWorked ==
    \A x \in Cell : cellState[x] = "running" => \E c \in Caller : pc[c] = "running" /\ cell[c] = x

LEMMA WorkedStep ==
    ASSUME CellsInv, CellsWorked, [Next]_vars
    PROVE  CellsWorked'
<1> USE DEF CellsInv
<1>1. ASSUME NEW c \in Caller, NEW k \in Key, NEW d \in Digest, Lookup(c, k, d)
      PROVE  CellsWorked'
  <2>1. /\ pc[c] = "idle"
        /\ \A b \in Caller : b # c => pc'[b] = pc[b] /\ cell'[b] = cell[b]
    BY <1>1 DEF Lookup, LookupConflict, LookupHit, LookupInsert, LookupExhausted, TypeOK
  <2>2. \A x \in Cell : cellState'[x] = "running" => cellState[x] = "running"
    BY <1>1 DEF Lookup, LookupConflict, LookupHit, LookupInsert, LookupExhausted, TypeOK
  <2> QED
    BY <2>1, <2>2 DEF CellsWorked, TypeOK
<1>2. ASSUME NEW c \in Caller, RunHandler(c)
      PROVE  CellsWorked'
  BY <1>2 DEF RunHandler, TypeOK, CellsHeld, CellsWorked
<1>3. ASSUME NEW c \in Caller, FinishHandler(c) \/ PanicHandler(c)
      PROVE  CellsWorked'
  <2>1. /\ pc[c] = "running" /\ UNCHANGED cell
        /\ \A b \in Caller : b # c => pc'[b] = pc[b]
        /\ \A x \in Cell : cellState'[x] = "running" => cellState[x] = "running" /\ x # cell[c]
    BY <1>3 DEF FinishHandler, PanicHandler, TypeOK, CellsHeld
  <2> QED
    BY <2>1 DEF CellsWorked
<1>4. ASSUME NEW c \in Caller, TakeResponse(c)
      PROVE  CellsWorked'
  BY <1>4 DEF TakeResponse, TypeOK, CellsWorked
<1>5. CASE UNCHANGED <<cellState, pc, cell>>
  BY <1>5 DEF CellsWorked
<1> QED
  BY <1>1, <1>2, <1>3, <1>4, <1>5 DEF Next, Resolve, Tick, vars

\* Nobody waits on a cell for nothing: as long as a caller of get_or_compute is
\* parked on its cell, either the cell is empty and the caller may run the
\* handler itself, or the response is there, or another caller is running the
\* handler of that very cell.  A panic in between leaves no cell that looks
\* busy with nobody in it.
THEOREM WaitersHaveARunner ==
    Spec => [](\A c \in Caller : pc[c] = "init" =>
                 \/ cellState[cell[c]] \in {"empty", "done"}
                 \/ \E d \in Caller \ {c} : pc[d] = "running" /\ cell[d] = cell[c])
<1> DEFINE Waited ==
        \A c \in Caller : pc[c] = "init" =>
                 \/ cellState[cell[c]] \in {"empty", "done"}
                 \/ \E d \in Caller \ {c} : pc[d] = "running" /\ cell[d] = cell[c]
<1>1. Init => CellsWorked
  BY DEF Init, CellsWorked
<1>2. CellsInv /\ CellsWorked => Waited
  BY DEF CellsInv, TypeOK, CellsHeld, CellsWorked
<1> HIDE DEF Waited
<1>3. Spec => []Waited
  BY <1>1, <1>2, CellsAlways, WorkedStep, PTL DEF Spec
<1> QED
  BY <1>3 DEF Waited

\* A response is for good: once the handler of a cell has returned, neither a
\* later panic, nor the purge, nor an eviction, nor a second handler changes
\* what the callers that hold the cell will be given.
THEOREM ResponsesStay ==
    Spec => [][\A x \in Cell : cellState[x] = "done" =>
                 cellState'[x] = "done" /\ cellValue'[x] = cellValue[x]]_vars
<1> DEFINE Stays ==
        \A x \in Cell : cellState[x] = "done" =>
                 cellState'[x] = "done" /\ cellValue'[x] = cellValue[x]
<1>1. ASSUME CellsInv, Next
      PROVE  Stays
  BY <1>1 DEF CellsInv, TypeOK, CellsHeld, Next, Lookup, LookupConflict, LookupHit, LookupInsert,
              LookupExhausted, Resolve, RunHandler, FinishHandler, TakeResponse, PanicHandler, Tick
<1> HIDE DEF Stays
<1>2. Spec => [][Stays]_vars
  BY <1>1, CellsAlways, PTL DEF Spec
<1> QED
  BY <1>2, SMTT(20) DEF Stays

-----------------------------------------------------------------------------
(***************************************************************************)
(* The gates of the block resolver, for any number of readers, peers,      *)
(* blocks and faults.  OnePull is not inductive: it rests on every reader  *)
(* that may still pull referring to the very gate that is in the map,      *)
(* which holds because a gate that somebody refers to is not removed.      *)
(***************************************************************************)

Stages == {"idle", "missing", "gate", "locate", "pull", "finish", "release",
           "leave", "retry", "failed"}

\* A reader on its way through the gate.
Passing(r) == readPc[r] \in {"gate", "locate", "pull", "finish"}

ReaderType ==
    /\ readPc \in [Reader -> Stages]
    /\ want \in [Reader -> Int]
    /\ gate = [r \in Reader |-> gate[r]]
    /\ gateOf = [b \in Blocks!Block |-> gateOf[b]]
    /\ \A r \in Reader : readPc[r] # "idle" => want[r] \in Blocks!Block

\* The gate of a reader that passes is the one a newcomer would be given.
GateInMap ==
    \A r \in Reader : Passing(r) => want[r] \in open /\ gate[r] = gateOf[want[r]]

\* A gate is a mutex.
GateExclusive ==
    \A r, s \in Reader :
        Blocks!HoldsLock(r) /\ Blocks!HoldsLock(s) /\ want[r] = want[s] /\ gate[r] = gate[s] => r = s

GateInv == ReaderType /\ GateInMap /\ GateExclusive

\* The invariant does not mention the peers, the map of holders or the disks.
LEMMA GateFrame ==
    ASSUME GateInv, UNCHANGED <<Blocks!gateVars, readPc, want, gate>>
    PROVE  GateInv'
BY DEF GateInv, ReaderType, GateInMap, GateExclusive, Passing, Blocks!HoldsLock, Blocks!gateVars

\* A step of a reader that holds no lock and passes no gate afterwards, and
\* keeps what it wants, or is idle.
LEMMA OutsideGate ==
    ASSUME GateInv, NEW r \in Reader, NEW l \in Stages \ {"gate", "locate", "pull", "finish", "release"},
           readPc' = [readPc EXCEPT ![r] = l],
           NEW w \in Int, want' = [want EXCEPT ![r] = w],
           l # "idle" => w \in Blocks!Block,
           NEW g, gate' = [gate EXCEPT ![r] = g],
           UNCHANGED Blocks!gateVars
    PROVE  GateInv'
<1>1. ReaderType'
  BY SMTT(20) DEF GateInv, ReaderType, Blocks!gateVars
<1>2. \A s \in Reader : s # r => readPc'[s] = readPc[s] /\ want'[s] = want[s] /\ gate'[s] = gate[s]
  BY DEF GateInv, ReaderType
<1>3. ~Passing(r)' /\ ~Blocks!HoldsLock(r)'
  BY DEF GateInv, ReaderType, Passing, Blocks!HoldsLock
<1>4. GateInMap'
  BY <1>2, <1>3 DEF GateInv, GateInMap, Passing, Blocks!gateVars
<1>5. GateExclusive'
  BY <1>2, <1>3 DEF GateInv, GateExclusive, Blocks!HoldsLock
<1> QED
  BY <1>1, <1>4, <1>5 DEF GateInv

\* A step of a reader that has the lock, and keeps it while it passes.
LEMMA InsideGate ==
    ASSUME GateInv, NEW r \in Reader, Blocks!HoldsLock(r), readPc[r] # "release",
           NEW l \in {"locate", "pull", "finish"},
           readPc' = [readPc EXCEPT ![r] = l],
           UNCHANGED <<Blocks!gateVars, want, gate>>
    PROVE  GateInv'
<1>1. ReaderType'
  BY DEF GateInv, ReaderType, Blocks!gateVars, Blocks!HoldsLock, Stages
<1>2. \A s \in Reader : s # r => readPc'[s] = readPc[s]
  BY DEF GateInv, ReaderType
<1>3. Passing(r)
  BY DEF Passing, Blocks!HoldsLock
<1>4. GateInMap'
  BY <1>2, <1>3 DEF GateInv, GateInMap, Passing, Blocks!gateVars
<1>5. GateExclusive'
  BY <1>2 DEF GateInv, GateExclusive, Blocks!HoldsLock
<1> QED
  BY <1>1, <1>4, <1>5 DEF GateInv

LEMMA GateInit == Blocks!Init => GateInv
BY DEF Blocks!Init, GateInv, ReaderType, GateInMap, GateExclusive, Passing, Blocks!HoldsLock, Stages

\* The gate in the map is replaced only when nobody is passing.
LEMMA TakeGateKeeps ==
    ASSUME GateInv, NEW r \in Reader, Blocks!TakeGate(r)
    PROVE  GateInv'
<1> DEFINE b == want[r]
           g == IF b \in open THEN gateOf[b] ELSE Blocks!FreshGate(b)
<1>0. readPc[r] = "missing" /\ b \in Blocks!Block
  BY DEF Blocks!TakeGate, GateInv, ReaderType
<1>1. CASE b \in local
  <2>1. readPc' = [readPc EXCEPT ![r] = "retry"] /\ UNCHANGED <<Blocks!gateVars, want, gate>>
    BY <1>1 DEF Blocks!TakeGate, Blocks!Goto
  <2>2. want' = [want EXCEPT ![r] = b] /\ gate' = [gate EXCEPT ![r] = gate[r]]
    BY <2>1 DEF GateInv, ReaderType
  <2> QED
    BY <2>1, <2>2, <1>0, OutsideGate, Zenon DEF Stages, GateInv, ReaderType
<1>2. CASE b \notin local
  <2>1. /\ open' = open \cup {b}
        /\ gateOf' = [gateOf EXCEPT ![b] = g]
        /\ gate' = [gate EXCEPT ![r] = g]
        /\ readPc' = [readPc EXCEPT ![r] = "gate"]
        /\ want' = want
    BY <1>2 DEF Blocks!TakeGate, Blocks!Goto
  <2> HIDE DEF g
  <2>2. ReaderType'
    BY <2>1, <1>0 DEF GateInv, ReaderType, Stages
  <2>3. \A s \in Reader : s # r => readPc'[s] = readPc[s] /\ gate'[s] = gate[s]
    BY <2>1 DEF GateInv, ReaderType
  <2>4. readPc'[r] = "gate" /\ gate'[r] = g /\ gateOf'[b] = g
    BY <2>1, <1>0 DEF GateInv, ReaderType
  <2>5. \A s \in Reader : Passing(s) => gateOf'[want[s]] = gateOf[want[s]] /\ want[s] \in open'
    <3> SUFFICES ASSUME NEW s \in Reader, Passing(s)
                 PROVE  gateOf'[want[s]] = gateOf[want[s]] /\ want[s] \in open'
      OBVIOUS
    <3>1. want[s] \in open /\ want[s] \in Blocks!Block
      BY DEF GateInv, GateInMap, ReaderType, Passing
    <3>2. CASE want[s] = b
      BY <2>1, <2>4, <3>1, <3>2 DEF g
    <3>3. CASE want[s] # b
      BY <2>1, <3>1, <3>3, SMTT(20) DEF GateInv, ReaderType
    <3> QED
      BY <3>2, <3>3
  <2>6. GateInMap'
    BY <2>1, <2>3, <2>4, <2>5, SMTT(20) DEF GateInv, GateInMap, Passing
  <2>7. GateExclusive'
    BY <2>1, <2>3, <2>4 DEF GateInv, GateExclusive, Blocks!HoldsLock
  <2> QED
    BY <2>2, <2>6, <2>7, SMTT(20) DEF GateInv
<1> QED
  BY <1>1, <1>2

LEMMA LockGateKeeps ==
    ASSUME GateInv, NEW r \in Reader, Blocks!LockGate(r)
    PROVE  GateInv'
<1> PICK l \in {"finish", "locate"} : readPc' = [readPc EXCEPT ![r] = l]
  BY Zenon DEF Blocks!LockGate, Blocks!Goto
<1>1. /\ readPc[r] = "gate"
      /\ UNCHANGED <<open, gateOf, want, gate>>
      /\ \A s \in Reader : Blocks!HoldsLock(s) => want[s] # want[r] \/ gate[s] # gate[r]
  BY DEF Blocks!LockGate, Blocks!gateVars
<1>2. ReaderType'
  BY <1>1 DEF GateInv, ReaderType, Stages
<1>3. \A s \in Reader : s # r => readPc'[s] = readPc[s]
  BY DEF GateInv, ReaderType
<1>4. GateInMap'
  BY <1>1, <1>3 DEF GateInv, GateInMap, Passing
<1>5. GateExclusive'
  BY <1>1, <1>3, SMTT(20) DEF GateInv, GateExclusive, Blocks!HoldsLock
<1> QED
  BY <1>2, <1>4, <1>5 DEF GateInv

\* A gate that is removed is referred to by nobody else.
LEMMA FinishKeeps ==
    ASSUME GateInv, NEW r \in Reader, Blocks!Finish(r)
    PROVE  GateInv'
<1> DEFINE b == want[r]
           shared == \E s \in Reader \ {r} :
                         Blocks!HasGate(s) /\ want[s] = b /\ gate[s] = gateOf[b]
<1>1. /\ readPc[r] = "finish" /\ readPc' = [readPc EXCEPT ![r] = "release"]
      /\ UNCHANGED <<want, gate>>
      /\ \/ shared /\ open' = open /\ gateOf' = gateOf
         \/ ~shared /\ open' = open \ {b} /\ gateOf' = [gateOf EXCEPT ![b] = 0]
  BY DEF Blocks!Finish, Blocks!Goto, Blocks!gateVars
<1> HIDE DEF shared
<1>2. ReaderType'
  <2>1. gateOf' = [x \in Blocks!Block |-> gateOf'[x]]
    BY <1>1 DEF GateInv, ReaderType
  <2> QED
    BY <1>1, <2>1 DEF GateInv, ReaderType, Stages
<1>3. \A s \in Reader : s # r => readPc'[s] = readPc[s]
  BY <1>1 DEF GateInv, ReaderType
<1>4. ~Passing(r)' /\ Blocks!HoldsLock(r)
  BY <1>1 DEF GateInv, ReaderType, Passing, Blocks!HoldsLock
<1>5. GateInMap'
  <2> SUFFICES ASSUME NEW s \in Reader, Passing(s)'
               PROVE  want[s] \in open' /\ gate[s] = gateOf'[want[s]]
    BY <1>1 DEF GateInMap
  <2>1. s # r /\ Passing(s)
    BY <1>3, <1>4 DEF Passing
  <2>2. want[s] \in open /\ gate[s] = gateOf[want[s]] /\ want[s] \in Blocks!Block
    BY <2>1 DEF GateInv, GateInMap, ReaderType, Passing
  <2>3. want[s] = b => shared
    BY <2>1, <2>2 DEF shared, Blocks!HasGate, Passing
  <2> QED
    BY <1>1, <2>2, <2>3 DEF GateInv, ReaderType
<1>6. GateExclusive'
  BY <1>1, <1>3, <1>4 DEF GateInv, GateExclusive, Blocks!HoldsLock
<1> QED
  BY <1>2, <1>5, <1>6 DEF GateInv

\* The steps of a reader.
LEMMA ReaderKeeps ==
    ASSUME GateInv, NEW r \in Reader, Blocks!ReaderStep(r)
    PROVE  GateInv'
<1>0. /\ readPc \in [Reader -> Stages] /\ want \in [Reader -> Int]
      /\ readPc[r] # "idle" => want[r] \in Blocks!Block
      /\ want = [want EXCEPT ![r] = want[r]]
      /\ gate = [gate EXCEPT ![r] = gate[r]]
  BY DEF GateInv, ReaderType
<1>1. CASE Blocks!TakeGate(r)
  BY <1>1, TakeGateKeeps
<1>2. CASE Blocks!LockGate(r)
  BY <1>2, LockGateKeeps
<1>3. CASE Blocks!Locate(r)
  <2>1. Blocks!HoldsLock(r) /\ readPc[r] # "release" /\ UNCHANGED <<Blocks!gateVars, want, gate>>
    BY <1>3 DEF Blocks!Locate, Blocks!HoldsLock
  <2>2. \E l \in {"locate", "pull", "finish"} : readPc' = [readPc EXCEPT ![r] = l]
    BY <1>3 DEF Blocks!Locate, Blocks!PullEnds, Blocks!Goto
  <2> QED
    BY <2>1, <2>2, InsideGate, Zenon
<1>4. CASE Blocks!TryPeer(r)
  <2>1. Blocks!HoldsLock(r) /\ readPc[r] = "pull" /\ UNCHANGED <<Blocks!gateVars, want, gate>>
    BY <1>4 DEF Blocks!TryPeer, Blocks!HoldsLock
  <2>2. readPc' = readPc \/ readPc' = [readPc EXCEPT ![r] = "finish"]
    BY <1>4 DEF Blocks!TryPeer, Blocks!PullEnds, Blocks!Goto
  <2> QED
    BY <2>1, <2>2, InsideGate, GateFrame
<1>5. CASE Blocks!Finish(r)
  BY <1>5, FinishKeeps
<1>6. CASE Blocks!Release(r)
  <2>1. readPc' = [readPc EXCEPT ![r] = "leave"] /\ readPc[r] = "release" /\ UNCHANGED <<Blocks!gateVars, want, gate>>
    BY <1>6 DEF Blocks!Release, Blocks!Goto
  <2> QED
    BY <2>1, <1>0, OutsideGate, Zenon DEF Stages
<1>7. CASE Blocks!Leave(r)
  <2>1. PICK l \in {"retry", "failed"} : readPc' = [readPc EXCEPT ![r] = l]
    BY <1>7, Zenon DEF Blocks!Leave, Blocks!Goto
  <2>2. readPc[r] = "leave" /\ gate' = [gate EXCEPT ![r] = 0] /\ UNCHANGED <<Blocks!gateVars, want>>
    BY <1>7 DEF Blocks!Leave
  <2> QED
    BY <2>1, <2>2, <1>0, OutsideGate, Zenon DEF Stages
<1>8. CASE Blocks!Retry(r)
  <2>1. readPc[r] = "retry" /\ UNCHANGED <<Blocks!gateVars, gate>>
    BY <1>8 DEF Blocks!Retry
  <2>2. \/ readPc' = [readPc EXCEPT ![r] = "idle"] /\ want' = [want EXCEPT ![r] = 1]
        \/ readPc' = [readPc EXCEPT ![r] = "failed"] /\ want' = want
    BY <1>8 DEF Blocks!Retry, Blocks!End, Blocks!Goto
  <2> QED
    BY <2>1, <2>2, <1>0, OutsideGate DEF Stages
<1>9. CASE Blocks!Return(r)
  <2>1. readPc[r] = "failed" /\ UNCHANGED <<Blocks!gateVars, gate>>
    BY <1>9 DEF Blocks!Return
  <2>2. readPc' = [readPc EXCEPT ![r] = "idle"] /\ want' = [want EXCEPT ![r] = 1]
    BY <1>9 DEF Blocks!Return, Blocks!End, Blocks!Goto
  <2>3. PICK w \in Int : w = 1
    OBVIOUS
  <2>4. PICK l \in Stages \ {"gate", "locate", "pull", "finish", "release"} : l = "idle"
    BY DEF Stages
  <2>5. readPc' = [readPc EXCEPT ![r] = l] /\ want' = [want EXCEPT ![r] = w]
    BY <2>2, <2>3, <2>4
  <2> QED
    BY <2>1, <2>4, <2>5, <1>0, OutsideGate, Zenon
<1> QED
  BY <1>1, <1>2, <1>3, <1>4, <1>5, <1>6, <1>7, <1>8, <1>9, SMTT(20) DEF Blocks!ReaderStep

LEMMA GateStep ==
    ASSUME GateInv, [Blocks!Next]_Blocks!vars
    PROVE  GateInv'
<1>1. ASSUME NEW p \in Blocks!Peer,
             \/ Blocks!StartRound(p) \/ Blocks!SendPage(p) \/ Blocks!Disconnect(p) \/ Blocks!Crash(p) \/ Blocks!Reconnect(p)
             \/ \E b \in Blocks!Block : Blocks!Store(p, b) \/ Blocks!Unlink(p, b) \/ Blocks!Damage(p, b)
      PROVE  GateInv'
  <2>1. UNCHANGED <<Blocks!gateVars, readPc, want, gate>>
    BY <1>1 DEF Blocks!StartRound, Blocks!SendPage, Blocks!Disconnect, Blocks!Crash, Blocks!Reconnect, Blocks!Store, Blocks!Unlink, Blocks!Damage,
                Blocks!readerVars
  <2> QED
    BY <2>1, GateFrame, SMTT(20)
<1>2. ASSUME NEW r \in Reader, Blocks!ReaderStep(r)
      PROVE  GateInv'
  BY <1>2, ReaderKeeps
<1>3. ASSUME NEW r \in Reader, NEW b \in Blocks!Block, Blocks!Read(r, b)
      PROVE  GateInv'
  <2>1. /\ readPc' = [readPc EXCEPT ![r] = "missing"] /\ want' = [want EXCEPT ![r] = b]
        /\ UNCHANGED <<Blocks!gateVars, gate>>
    BY <1>3 DEF Blocks!Read, Blocks!Goto
  <2>2. gate' = [gate EXCEPT ![r] = gate[r]] /\ b \in Int
    BY <2>1 DEF GateInv, ReaderType, Blocks!Block
  <2> QED
    BY <2>1, <2>2, OutsideGate, Zenon DEF Stages
<1>4. ASSUME NEW b \in Blocks!Block, Blocks!NegativeExpires(b) \/ Blocks!StoreLocal(b) \/ Blocks!UnlinkLocal(b)
      PROVE  GateInv'
  <2>1. UNCHANGED <<Blocks!gateVars, readPc, want, gate>>
    BY <1>4 DEF Blocks!NegativeExpires, Blocks!StoreLocal, Blocks!UnlinkLocal, Blocks!readerVars
  <2> QED
    BY <2>1, GateFrame
<1>5. CASE Blocks!Restart
  BY <1>5, SMTT(20) DEF Blocks!Restart, GateInv, ReaderType, GateInMap, GateExclusive, Passing, Blocks!HoldsLock, Stages
<1>6. CASE UNCHANGED Blocks!vars
  BY <1>6, GateFrame DEF Blocks!vars, Blocks!readerVars
<1> QED
  BY <1>1, <1>2, <1>3, <1>4, <1>5, <1>6 DEF Blocks!Next

\* At most one reader of a block is pulling it (BlockResolver::guarded): both
\* would have locked the gate that is in the map.
THEOREM OneReaderPulls == Blocks!Spec => []OnePull
<1>1. GateInv => OnePull
  BY DEF GateInv, GateInMap, GateExclusive, OnePull, Blocks!OnePull, Passing, Blocks!HoldsLock
<1> QED
  BY <1>1, GateInit, GateStep, PTL DEF Blocks!Spec
-----------------------------------------------------------------------------
(***************************************************************************)
(* The pages of the gossip of holders, for any inventory and page limit.   *)
(***************************************************************************)

\* What a peer's round has still to advertise.
Unsent ==
    [p \in Blocks!Peer |->
        IF cursor[p] = Blocks!Idle THEN {} ELSE {b \in inv[p] : b >= cursor[p]}]

\* A round that is under way has something to advertise.
PageInv ==
    /\ held \in [Blocks!Peer -> SUBSET Blocks!Block]
    /\ inv \in [Blocks!Peer -> SUBSET Blocks!Block]
    /\ cursor \in [Blocks!Peer -> Int]
    /\ known = [b \in Blocks!Block |-> known[b]]
    /\ \A p \in Blocks!Peer : cursor[p] # Blocks!Idle => Unsent[p] # {}

\* What a step may do to what a peer has still to advertise: a crash forgets
\* it, a new round starts with everything the disk holds once the round before
\* is through, and a page takes a part off it that the reader is told of when
\* the peer can be reached.
PageMove(p) ==
    \/ Blocks!Crash(p)
    \/ /\ Unsent[p] = {}
       /\ damaged[p] = {}
       /\ Unsent'[p] = held[p]
    \/ /\ Unsent'[p] \subseteq Unsent[p]
       /\ up[p] => \A b \in Unsent[p] \ Unsent'[p] : p \in known'[b]

LEMMA BlocksCardinality == \A S : Blocks!Cardinality(S) = Cardinality(S)
  BY DEF Blocks!Cardinality, Cardinality

\* A non-empty set of blocks has a first one.
LEMMA FirstBlock ==
    ASSUME NEW T \in SUBSET Blocks!Block, T # {}
    PROVE  \E x \in T : \A y \in T : x <= y
<1>0. T \in SUBSET Nat
  BY DEF Blocks!Block
<1>1. PICK x \in T : \A y \in T : ~ (<<y, x>> \in OpToRel(<, Nat))
  BY <1>0, WFMin, NatLessThanWellFounded, Zenon
<1>2. \A y \in T : y < x => <<y, x>> \in OpToRel(<, Nat)
  BY <1>0 DEF OpToRel
<1>3. \A y \in T : ~ (y < x)
  BY <1>1, <1>2, Zenon
<1> QED
  BY <1>0, <1>3

\* The part of a set of blocks before a block.
LEMMA BeforeBlock ==
    ASSUME NEW R \in SUBSET Blocks!Block, NEW b \in Blocks!Block, NEW c \in Blocks!Block, b <= c
    PROVE  /\ Blocks!Cardinality({x \in R : x < b}) \in Nat
           /\ Blocks!Cardinality({x \in R : x < c}) \in Nat
           /\ Blocks!Cardinality({x \in R : x < b}) <= Blocks!Cardinality({x \in R : x < c})
<1> DEFINE B == {x \in R : x < b}
           C == {x \in R : x < c}
<1>0. NBlocks \in Int /\ 1 \in Int
  BY BlocksAssumption DEF Blocks!ConstantsOK
<1>1. IsFiniteSet(1..NBlocks)
  BY <1>0, FS_Interval, Zenon
<1>2. C \subseteq 1..NBlocks /\ B \subseteq C
  BY BlocksAssumption DEF Blocks!Block, Blocks!ConstantsOK
<1> HIDE DEF B, C
<1>3. IsFiniteSet(C)
  BY <1>1, <1>2, FS_Subset, Zenon
<1>4. IsFiniteSet(B) /\ Cardinality(B) <= Cardinality(C)
  BY <1>2, <1>3, FS_Subset
<1>5. Cardinality(B) \in Nat /\ Cardinality(C) \in Nat
  BY <1>3, <1>4, FS_CardinalityType
<1> QED
  BY <1>4, <1>5, BlocksCardinality DEF B, C

\* A page is a non-empty first part of what is left, and the next cursor is the
\* first block of the rest.
LEMMA PageTakes ==
    ASSUME PageInv, NEW p \in Blocks!Peer, cursor[p] # Blocks!Idle
    PROVE  /\ Blocks!Rest(p) = Unsent[p]
           /\ Blocks!Page(p) # {}
           /\ Blocks!Page(p) \subseteq Unsent[p]
           /\ Blocks!NextCursor(p) \in Int
           /\ IF Blocks!NextCursor(p) = Blocks!Idle
              THEN Blocks!Page(p) = Unsent[p]
              ELSE /\ Blocks!Page(p) # Unsent[p]
                   /\ {b \in inv[p] : b >= Blocks!NextCursor(p)} = Unsent[p] \ Blocks!Page(p)
<1> DEFINE R == Blocks!Rest(p)
           G == Blocks!Page(p)
           more == R \ G
<1>1. R = Unsent[p] /\ R # {} /\ R = {b \in inv[p] : b >= cursor[p]}
  BY DEF PageInv, Unsent, Blocks!Rest
<1>2. R \in SUBSET Blocks!Block /\ inv[p] \in SUBSET Blocks!Block /\ cursor[p] \in Int
  BY <1>1 DEF PageInv
<1>3. G = {b \in R : Blocks!Cardinality({x \in R : x < b}) < PageLimit}
  BY DEF Blocks!Page
<1>4. Blocks!NextCursor(p) =
        IF more = {} THEN Blocks!Idle ELSE CHOOSE b \in more : \A x \in more : b <= x
  BY DEF Blocks!NextCursor
<1>5. PageLimit \in Nat \ {0} /\ Blocks!Block \subseteq Nat /\ 0 \notin Blocks!Block
  BY BlocksAssumption DEF Blocks!ConstantsOK, Blocks!Block
<1> HIDE DEF R, G
<1>6. G # {}
  <2>1. PICK m \in R : \A y \in R : m <= y
    BY <1>1, <1>2, FirstBlock
  <2>2. {x \in R : x < m} = {}
    BY <2>1, <1>2, <1>5
  <2>3. Blocks!Cardinality({x \in R : x < m}) = 0
    BY <2>2, FS_EmptySet, BlocksCardinality
  <2> QED
    BY <2>1, <2>3, <1>3, <1>5
<1>7. CASE more = {}
  <2>1. Blocks!NextCursor(p) = Blocks!Idle
    BY <1>7, <1>4
  <2> QED
    BY <2>1, <1>1, <1>3, <1>6, <1>7, Zenon DEF R, G, Blocks!Idle
<1>8. CASE more # {}
  <2> DEFINE c == Blocks!NextCursor(p)
  <2>1. \E b \in more : \A x \in more : b <= x
    BY <1>8, <1>2, FirstBlock, Zenon
  <2>2. c \in more /\ \A x \in more : c <= x
    BY <2>1, <1>4, <1>8
  <2> HIDE DEF c
  <2>3. c \in R /\ c \notin G /\ c \in Blocks!Block /\ c \in Nat /\ c # Blocks!Idle
    BY <2>2, <1>2, <1>5 DEF Blocks!Idle
  <2>4. ASSUME NEW b \in inv[p], b >= c
        PROVE  b \in R \ G
    <3>1. b \in R /\ b \in Blocks!Block /\ b \in Nat
      BY <2>4, <2>3, <1>1, <1>2, <1>5, SMTT(20)
    <3>2. ~(Blocks!Cardinality({x \in R : x < c}) < PageLimit)
      BY <2>3, <1>3
    <3>3. /\ Blocks!Cardinality({x \in R : x < c}) \in Nat
          /\ Blocks!Cardinality({x \in R : x < b}) \in Nat
          /\ Blocks!Cardinality({x \in R : x < c}) <= Blocks!Cardinality({x \in R : x < b})
      BY <2>3, <2>4, <3>1, <1>2, BeforeBlock
    <3>4. ~(Blocks!Cardinality({x \in R : x < b}) < PageLimit)
      BY <3>2, <3>3, <1>5, SMTT(20)
    <3> QED
      BY <3>1, <3>4, <1>3
  <2>5. ASSUME NEW b \in R \ G
        PROVE  b \in inv[p] /\ b >= c
    BY <2>2, <2>3, <1>1, <1>2, <1>5
  <2>6. {b \in inv[p] : b >= c} = R \ G
    BY <2>4, <2>5
  <2>7. R = Unsent[p] /\ G # {} /\ G \subseteq R /\ G # R /\ c \in Int /\ c # Blocks!Idle
    <3>1. G \subseteq R
      BY <1>3
    <3>2. c \in Int
      BY <2>3
    <3> QED
      BY <3>1, <3>2, <2>3, <1>1, <1>6, Zenon
  <2>8. {b \in inv[p] : b >= c} = Unsent[p] \ G
    BY <2>6, <2>7
  <2> QED
    BY <2>7, <2>8, Zenon DEF R, G, c
<1> QED
  BY <1>7, <1>8

\* A page goes out.
LEMMA SendPageMoves ==
    ASSUME PageInv, NEW p \in Blocks!Peer, Blocks!SendPage(p)
    PROVE  /\ PageInv'
           /\ \A q \in Blocks!Peer \ {p} : Unsent'[q] = Unsent[q]
           /\ Unsent'[p] # Unsent[p]
           /\ PageMove(p)
<1> DEFINE G == Blocks!Page(p)
           n == Blocks!NextCursor(p)
<1>1. /\ cursor[p] # Blocks!Idle
      /\ cursor' = [cursor EXCEPT ![p] = n]
      /\ inv' = [inv EXCEPT ![p] = IF n = Blocks!Idle THEN {} ELSE @]
      /\ UNCHANGED <<held, damaged, up>>
      /\ known' = IF up[p] THEN [b \in Blocks!Block |-> IF b \in G THEN known[b] \cup {p} ELSE known[b]]
                  ELSE known
  BY DEF Blocks!SendPage, Blocks!BroadcastHolders, Blocks!Merged
<1>2. /\ G # {} /\ G \subseteq Unsent[p] /\ n \in Int
      /\ IF n = Blocks!Idle THEN G = Unsent[p]
         ELSE G # Unsent[p] /\ {b \in inv[p] : b >= n} = Unsent[p] \ G
  BY <1>1, PageTakes
<1> HIDE DEF G, n
<1>3. \A q \in Blocks!Peer \ {p} : Unsent'[q] = Unsent[q] /\ cursor'[q] = cursor[q]
  BY <1>1, SMTT(20) DEF PageInv, Unsent
<1>4. Unsent'[p] = Unsent[p] \ G /\ (n # Blocks!Idle => Unsent'[p] # {}) /\ cursor'[p] = n
  BY <1>1, <1>2 DEF PageInv, Unsent
<1>5. PageInv'
  <2>1. /\ (held \in [Blocks!Peer -> SUBSET Blocks!Block])'
        /\ (inv \in [Blocks!Peer -> SUBSET Blocks!Block])'
        /\ (cursor \in [Blocks!Peer -> Int])'
    BY <1>1, <1>2 DEF PageInv
  <2>2. known' = [b \in Blocks!Block |-> known'[b]]
    BY <1>1, Zenon DEF PageInv
  <2>3. \A q \in Blocks!Peer : cursor'[q] # Blocks!Idle => Unsent'[q] # {}
    BY <1>3, <1>4 DEF PageInv
  <2> QED
    BY <2>1, <2>2, <2>3 DEF PageInv
<1>6. up[p] => \A b \in G : p \in known'[b]
  <2>1. G \subseteq Blocks!Block
    BY <1>1, <1>2 DEF PageInv, Unsent
  <2> QED
    BY <1>1, <2>1
<1> QED
  BY <1>2, <1>3, <1>4, <1>5, <1>6, SMTT(20) DEF PageMove

\* A step that leaves inventories and cursors alone.
LEMMA PageFrame ==
    ASSUME PageInv, UNCHANGED <<inv, cursor>>,
           held' \in [Blocks!Peer -> SUBSET Blocks!Block],
           known' = [b \in Blocks!Block |-> known'[b]]
    PROVE  PageInv' /\ Unsent' = Unsent
  BY SMTT(20) DEF PageInv, Unsent

LEMMA PageStep ==
    ASSUME PageInv, [Blocks!Next]_Blocks!vars
    PROVE  /\ PageInv'
           /\ \A p \in Blocks!Peer : Unsent'[p] = Unsent[p] \/ PageMove(p)
           /\ \A p \in Blocks!Peer : Blocks!SendPage(p) => Unsent'[p] # Unsent[p]
<1>0. \A p \in Blocks!Peer : Blocks!SendPage(p) => Unsent'[p] # Unsent[p]
  BY SendPageMoves
<1>1. ASSUME NEW p \in Blocks!Peer, Blocks!StartRound(p)
      PROVE  PageInv' /\ \A q \in Blocks!Peer : Unsent'[q] = Unsent[q] \/ PageMove(q)
  <2>1. /\ cursor[p] = Blocks!Idle /\ damaged[p] = {}
        /\ inv' = [inv EXCEPT ![p] = held[p]]
        /\ cursor' = [cursor EXCEPT ![p] = IF held[p] = {} THEN Blocks!Idle ELSE 0]
        /\ UNCHANGED <<held, known>>
    BY <1>1 DEF Blocks!StartRound, Blocks!FromStart
  <2>2. \A q \in Blocks!Peer \ {p} : Unsent'[q] = Unsent[q] /\ cursor'[q] = cursor[q]
    BY <2>1 DEF PageInv, Unsent
  <2>3. \A b \in held[p] : b >= 0
    BY DEF PageInv, Blocks!Block
  <2>4. Unsent[p] = {} /\ Unsent'[p] = held[p] /\ (held[p] = {} => cursor'[p] = Blocks!Idle)
    BY <2>1, <2>3 DEF PageInv, Unsent, Blocks!Idle
  <2>5. PageInv'
    <3>1. /\ (inv \in [Blocks!Peer -> SUBSET Blocks!Block])'
          /\ (cursor \in [Blocks!Peer -> Int])'
      BY <2>1 DEF PageInv, Blocks!Idle
    <3>2. \A q \in Blocks!Peer : cursor'[q] # Blocks!Idle => Unsent'[q] # {}
      BY <2>2, <2>4 DEF PageInv
    <3> QED
      BY <2>1, <3>1, <3>2 DEF PageInv
  <2> QED
    BY <2>1, <2>2, <2>4, <2>5 DEF PageMove
<1>2. ASSUME NEW p \in Blocks!Peer, Blocks!SendPage(p)
      PROVE  PageInv' /\ \A q \in Blocks!Peer : Unsent'[q] = Unsent[q] \/ PageMove(q)
  BY <1>2, SendPageMoves
<1>3. ASSUME NEW p \in Blocks!Peer, Blocks!Crash(p)
      PROVE  PageInv' /\ \A q \in Blocks!Peer : Unsent'[q] = Unsent[q] \/ PageMove(q)
  <2>1. /\ inv' = [inv EXCEPT ![p] = {}]
        /\ cursor' = [cursor EXCEPT ![p] = Blocks!Idle]
        /\ UNCHANGED <<held, known>>
    BY <1>3 DEF Blocks!Crash
  <2>2. \A q \in Blocks!Peer \ {p} : Unsent'[q] = Unsent[q] /\ cursor'[q] = cursor[q]
    BY <2>1 DEF PageInv, Unsent
  <2>3. PageInv'
    <3>1. /\ (inv \in [Blocks!Peer -> SUBSET Blocks!Block])'
          /\ (cursor \in [Blocks!Peer -> Int])'
          /\ cursor'[p] = Blocks!Idle
      BY <2>1 DEF PageInv, Blocks!Idle
    <3>2. \A q \in Blocks!Peer : cursor'[q] # Blocks!Idle => Unsent'[q] # {}
      BY <2>2, <3>1 DEF PageInv
    <3> QED
      BY <2>1, <3>1, <3>2 DEF PageInv
  <2> QED
    BY <1>3, <2>2, <2>3 DEF PageMove
<1>4. ASSUME NEW p \in Blocks!Peer, NEW b \in Blocks!Block, Blocks!Store(p, b) \/ Blocks!Unlink(p, b)
      PROVE  PageInv' /\ Unsent' = Unsent
  <2>1. UNCHANGED <<inv, cursor, known>> /\ held' \in [Blocks!Peer -> SUBSET Blocks!Block]
    BY <1>4 DEF Blocks!Store, Blocks!Unlink, PageInv
  <2>2. known' = [x \in Blocks!Block |-> known'[x]]
    BY <2>1 DEF PageInv
  <2> QED
    BY <2>1, <2>2, PageFrame
<1>5. CASE UNCHANGED <<inv, cursor, held, known>>
  <2>1. held' \in [Blocks!Peer -> SUBSET Blocks!Block] /\ known' = [x \in Blocks!Block |-> known'[x]]
    BY <1>5 DEF PageInv
  <2> QED
    BY <1>5, <2>1, <1>0, PageFrame
<1>6. CASE Blocks!Restart
  <2>1. UNCHANGED <<inv, cursor, held>> /\ known' = [x \in Blocks!Block |-> {}]
    BY <1>6 DEF Blocks!Restart, Blocks!peerVars
  <2>2. held' \in [Blocks!Peer -> SUBSET Blocks!Block] /\ known' = [x \in Blocks!Block |-> known'[x]]
    BY <2>1 DEF PageInv
  <2> QED
    BY <2>1, <2>2, <1>0, PageFrame
<1>7. ASSUME NEW r \in Reader, Blocks!ReaderStep(r) \/ \E b \in Blocks!Block : Blocks!Read(r, b)
      PROVE  UNCHANGED <<inv, cursor, held, known>>
  BY <1>7, Zenon DEF Blocks!ReaderStep, Blocks!Read, Blocks!TakeGate, Blocks!LockGate, Blocks!Locate, Blocks!TryPeer,
              Blocks!Finish, Blocks!Release, Blocks!Leave, Blocks!Retry, Blocks!Return, Blocks!peerVars
<1>8. ASSUME NEW b \in Blocks!Block, Blocks!NegativeExpires(b) \/ Blocks!StoreLocal(b) \/ Blocks!UnlinkLocal(b)
      PROVE  UNCHANGED <<inv, cursor, held, known>>
  BY <1>8 DEF Blocks!NegativeExpires, Blocks!StoreLocal, Blocks!UnlinkLocal, Blocks!peerVars
<1>9. ASSUME NEW p \in Blocks!Peer,
             \/ Blocks!Disconnect(p) \/ Blocks!Reconnect(p)
             \/ \E b \in Blocks!Block : Blocks!Damage(p, b)
      PROVE  UNCHANGED <<inv, cursor, held, known>>
  BY <1>9 DEF Blocks!Disconnect, Blocks!Reconnect, Blocks!Damage
<1>10. CASE UNCHANGED Blocks!vars
  <2>1. UNCHANGED <<inv, cursor, held, known>>
    BY <1>10 DEF Blocks!vars, Blocks!peerVars
  <2> QED
    BY <2>1, <1>5
<1> QED
  BY <1>0, <1>1, <1>2, <1>3, <1>4, <1>5, <1>6, <1>7, <1>8, <1>9, <1>10, SMTT(20) DEF Blocks!Next

\* No page of the gossip skips a block (run_cas_gossip_republish and
\* CasInventory::page): every page that is sent takes blocks off what the
\* round has still to advertise, so that a round comes to its end.  Nothing
\* else takes blocks off it than a crash of the peer, and every block a page
\* takes off is then known to the reading node, unless the peer could not be
\* reached at that time.  A new round starts only when the one before is
\* through, and with everything the disk holds.
THEOREM PagesSkipNothing ==
    Blocks!Spec => [][\A p \in Blocks!Peer :
                        /\ Unsent'[p] = Unsent[p] \/ PageMove(p)
                        /\ Blocks!SendPage(p) => Unsent'[p] # Unsent[p]]_Blocks!vars
<1> DEFINE A == \A p \in Blocks!Peer :
                        /\ Unsent'[p] = Unsent[p] \/ PageMove(p)
                        /\ Blocks!SendPage(p) => Unsent'[p] # Unsent[p]
<1>1. Blocks!Init => PageInv
  BY DEF Blocks!Init, PageInv, Unsent, Blocks!Idle
<1>2. ASSUME PageInv, [Blocks!Next]_Blocks!vars
      PROVE  PageInv' /\ A
  BY <1>2, PageStep
<1> HIDE DEF A
<1>3. Blocks!Spec => [][A]_Blocks!vars
  BY <1>1, <1>2, PTL DEF Blocks!Spec
<1> QED
  BY <1>3 DEF A
=============================================================================
