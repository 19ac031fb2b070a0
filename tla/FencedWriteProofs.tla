-------------------------- MODULE FencedWriteProofs --------------------------
(***************************************************************************)
(* Proofs about FencedWrite, for any number of writers, epochs, handlers   *)
(* and restarts.  That an accepted guard was valid as a whole rests on the *)
(* order of the reads and writes alone (Maps, Reads); that it is not from  *)
(* an old cache rests on the latch (Latch, Begun), and needs a recovery    *)
(* that does not open the latch on stale maps.                             *)
(***************************************************************************)
EXTENDS FencedWrite, TLAPS

\* What the handlers keep of the three maps: the base state follows the term
\* at once, the term follows the store, and neither is ahead.
Maps ==
    /\ base.epoch <= terms.epoch /\ terms.epoch <= store.epoch
    /\ store.epoch = 0 => store = NoTerm
    /\ terms.epoch = store.epoch => terms = store
    /\ base.epoch = terms.epoch => base = terms
    /\ hpc # "bases" => base = terms
    /\ hpc \in {"bases", "overlays", "open"} => terms = store

\* What a writer knows after each read.
Read(w) ==
    /\ (pc[w] \in Checking /\ Agrees(guard[w], terms, base, retired)) => whole[w]
    /\ pc[w] \in {"overlay", "base"} =>
          /\ guard[w].epoch <= terms.epoch
          /\ guard[w].epoch = terms.epoch => guard[w] = terms
          /\ guard[w] # terms => guard[w].epoch <= base.epoch
    /\ (pc[w] = "overlay" /\ base = guard[w] /\ ~ retired) => whole[w]
    /\ (pc[w] = "base" /\ base = guard[w]) => whole[w]
    /\ (pc[w] = "base" /\ base.epoch < guard[w].epoch) => ~ retired
    /\ pc[w] = "accepted" => whole[w]

Reads == \A w \in Writer : Read(w)

IInv == TypeOK /\ Maps /\ Reads

\* The latch is open only where the registry shows what is installed.
Latch ==
    /\ overlay <= store.epoch
    /\ ready => terms = store /\ base = store
    /\ hpc \in {"install", "terms", "bases", "overlays", "open"} => ~ ready
    /\ (hpc = "close" /\ ready) => overlay = 0
    /\ (hpc \in {"idle", "install", "open"} /\ overlay > 0) => retired

\* A validation is not behind the store as it was at its beginning.
Begun ==
    \A w \in Writer :
        /\ pc[w] = "term" => since[w] <= terms.epoch
        /\ pc[w] \in {"overlay", "base", "accepted"} => since[w] <= guard[w].epoch

JInv == IInv /\ Latch /\ Begun

-----------------------------------------------------------------------------
(* The invariant behind AcceptedWasWhole                                   *)

LEMMA InitIInv == ASSUME FencedWriteAssumption, Init PROVE IInv
  <1>1. TypeOK
    <2>1. NoTerm \in Term /\ 0 \in 0..MaxEpoch /\ 0 \in 0..MaxCrashes
      BY DEF FencedWriteAssumption, Term, NoTerm
    <2>2. /\ store \in Term /\ draft \in Term /\ terms \in Term /\ base \in Term
          /\ overlay \in 0..MaxEpoch /\ crashes \in 0..MaxCrashes
      BY <2>1 DEF Init
    <2>3. /\ retired \in BOOLEAN /\ ready \in BOOLEAN /\ recovering \in BOOLEAN
          /\ hpc = "idle"
      BY Zenon DEF Init
    <2>4. /\ pc \in [Writer -> {"idle"}] /\ stage \in [Writer -> {"issue"}]
          /\ whole \in [Writer -> BOOLEAN]
      BY DEF Init
    <2>5. guard \in [Writer -> Term] /\ since \in [Writer -> 0..MaxEpoch]
      BY <2>1 DEF Init
    <2> QED BY <2>2, <2>3, <2>4, <2>5 DEF TypeOK
  <1>2. Maps
    BY DEF Init, Maps, NoTerm
  <1>3. Reads
    BY Zenon DEF Init, Reads, Read, Checking
  <1> QED BY <1>1, <1>2, <1>3 DEF IInv

\* A step that leaves the maps and the writers alone says nothing new to them.
LEMMA SameReads ==
    ASSUME Reads, UNCHANGED <<maps, writers>>
    PROVE  Reads'
  BY DEF Reads, Read, maps, writers, Agrees

\* The steps of a handler and of the recovery that only touch the store and
\* the latch.
LEMMA QuietStep ==
    ASSUME FencedWriteAssumption, IInv,
           \/ \E g \in Term : Replicate(g)
           \/ Install \/ OwnerCommit \/ PrepareHandoff \/ CloseLatch \/ OpenLatch
           \/ \E startup \in BOOLEAN : FenceRecovery(startup)
           \/ Reopen
    PROVE  IInv'
  <1>1. UNCHANGED <<maps, writers>>
    BY DEF Replicate, Install, OwnerCommit, PrepareHandoff, CloseLatch, OpenLatch,
       FenceRecovery, Reopen
  <1>2. Reads'
    BY <1>1, SameReads DEF IInv
  <1>3. CASE \E g \in Term : Replicate(g)
    <2>1. TypeOK'
      BY <1>3, Zenon DEF IInv, TypeOK, Replicate, durable, maps, writers
    <2>2. Maps'
      BY <1>3 DEF IInv, Maps, Replicate, durable, maps
    <2> QED BY <1>2, <2>1, <2>2 DEF IInv
  <1>4. CASE Install
    <2>1. TypeOK'
      BY <1>4 DEF IInv, TypeOK, Install, maps, writers, Term, NoTerm
    <2>2. Maps'
      BY <1>4 DEF IInv, TypeOK, Term, Maps, Install, maps
    <2> QED BY <1>2, <2>1, <2>2 DEF IInv
  <1>5. CASE OwnerCommit \/ PrepareHandoff
    <2>1. TypeOK'
      BY <1>5 DEF FencedWriteAssumption, IInv, TypeOK, OwnerCommit, PrepareHandoff, maps,
         writers, Term
    <2>2. Maps'
      BY <1>5 DEF IInv, Maps, OwnerCommit, PrepareHandoff, maps
    <2> QED BY <1>2, <2>1, <2>2 DEF IInv
  <1>6. CASE CloseLatch \/ OpenLatch
    <2>1. TypeOK'
      BY <1>6, Zenon DEF IInv, TypeOK, CloseLatch, OpenLatch, durable, maps, writers
    <2>2. Maps'
      BY <1>6 DEF IInv, Maps, CloseLatch, OpenLatch, durable, maps
    <2> QED BY <1>2, <2>1, <2>2 DEF IInv
  <1>7. CASE (\E startup \in BOOLEAN : FenceRecovery(startup)) \/ Reopen
    <2>1. TypeOK'
      BY <1>7, Zenon DEF IInv, TypeOK, FenceRecovery, Reopen, durable, maps, writers
    <2>2. Maps'
      BY <1>7 DEF IInv, Maps, FenceRecovery, Reopen, durable, maps
    <2> QED BY <1>2, <2>1, <2>2 DEF IInv
  <1> QED BY <1>3, <1>4, <1>5, <1>6, <1>7

\* A step that observes keeps the record of the writers well-typed, adds to it,
\* and misses no instant.
LEMMA Observed ==
    ASSUME TypeOK, Observe, UNCHANGED <<pc, guard>>, NEW w \in Writer
    PROVE  /\ whole' \in [Writer -> BOOLEAN]
           /\ whole[w] => whole'[w]
           /\ (pc'[w] \in Checking /\ Agrees(guard'[w], terms', base', retired')) => whole'[w]
  BY Zenon DEF TypeOK, Observe

LEMMA RetireLocalStep == ASSUME IInv, RetireLocal PROVE IInv'
  <1>1. whole' \in [Writer -> BOOLEAN]
    BY DEF IInv, TypeOK, RetireLocal, Observe
  <1>2. TypeOK'
    BY <1>1 DEF IInv, TypeOK, RetireLocal, durable
  <1>3. Maps'
    BY DEF IInv, Maps, RetireLocal, durable
  <1>4. ASSUME NEW w \in Writer PROVE Read(w)'
    <2>1. whole[w] => whole'[w]
      BY Observed, Zenon DEF IInv, RetireLocal
    <2>2. UNCHANGED <<terms, base, pc, guard>> /\ retired'
      BY DEF RetireLocal
    <2>3. base = terms /\ Read(w)
      BY DEF RetireLocal, IInv, Maps, Reads
    <2>4. pc[w] = "base" => ~ (base.epoch < guard[w].epoch)
      BY <2>3 DEF Read, IInv, TypeOK, Term
    <2> QED BY <2>1, <2>2, <2>3, <2>4, Zenon DEF Read, Agrees
  <1> QED BY <1>2, <1>3, <1>4 DEF IInv, Reads

\* The term may leave a guard behind, never the base state.
LEMMA WriteTermsStep == ASSUME IInv, WriteTerms PROVE IInv'
  <1>1. whole' \in [Writer -> BOOLEAN]
    BY DEF IInv, TypeOK, WriteTerms, Observe
  <1>2. TypeOK'
    BY <1>1 DEF IInv, TypeOK, WriteTerms, durable
  <1>3. Maps'
    BY DEF IInv, TypeOK, Term, Maps, WriteTerms, durable
  <1>4. ASSUME NEW w \in Writer PROVE Read(w)'
    <2>1. /\ whole[w] => whole'[w]
          /\ (pc'[w] \in Checking /\ Agrees(guard'[w], terms', base', retired')) => whole'[w]
      BY Observed DEF IInv, WriteTerms
    <2>2. UNCHANGED <<base, retired, pc, guard>> /\ terms' = store
      BY DEF WriteTerms
    <2>3. /\ base = terms /\ Read(w)
          /\ terms.epoch <= store.epoch /\ (terms.epoch = store.epoch => terms = store)
      BY DEF WriteTerms, IInv, Maps, Reads
    <2>4. terms.epoch \in Nat /\ store.epoch \in Nat /\ guard[w].epoch \in Nat
      BY DEF IInv, TypeOK, Term
    <2>5. pc[w] \in {"overlay", "base"} =>
            /\ guard[w].epoch <= store.epoch
            /\ guard[w].epoch = store.epoch => guard[w] = store
            /\ guard[w].epoch <= base.epoch
      BY <2>3, <2>4 DEF Read
    <2> QED BY <2>1, <2>2, <2>3, <2>5 DEF Read
  <1> QED BY <1>2, <1>3, <1>4 DEF IInv, Reads

\* When the base state reaches the guard of a writer that has seen no overlay,
\* there still is none.
LEMMA WriteBasesStep == ASSUME IInv, WriteBases PROVE IInv'
  <1>1. whole' \in [Writer -> BOOLEAN]
    BY DEF IInv, TypeOK, WriteBases, Observe
  <1>2. TypeOK'
    BY <1>1 DEF IInv, TypeOK, WriteBases, durable
  <1>3. Maps'
    BY DEF IInv, TypeOK, Term, Maps, WriteBases, durable
  <1>4. ASSUME NEW w \in Writer PROVE Read(w)'
    <2>1. /\ whole[w] => whole'[w]
          /\ (pc'[w] \in Checking /\ Agrees(guard'[w], terms', base', retired')) => whole'[w]
      BY Observed DEF IInv, WriteBases
    <2>2. UNCHANGED <<terms, retired, pc, guard>> /\ base' = store
      BY DEF WriteBases
    <2>3. /\ terms = store /\ base.epoch <= terms.epoch /\ Read(w)
          /\ base.epoch = terms.epoch => base = terms
      BY DEF WriteBases, IInv, Maps, Reads
    <2>4. terms.epoch \in Nat /\ base.epoch \in Nat /\ guard[w].epoch \in Nat
      BY DEF IInv, TypeOK, Term
    <2>5. pc[w] \in {"overlay", "base"} => guard[w].epoch <= terms.epoch
      BY <2>3 DEF Read
    <2>6. (pc[w] = "base" /\ guard[w] = terms) => (whole[w] \/ ~ retired)
      <3>1. CASE base.epoch < guard[w].epoch
        BY <2>3, <3>1 DEF Read
      <3>2. CASE guard[w] = terms /\ ~ (base.epoch < guard[w].epoch)
        <4>1. base.epoch = terms.epoch
          BY <2>3, <2>4, <3>2
        <4> QED BY <2>3, <3>2, <4>1 DEF Read
      <3> QED BY <3>1, <3>2
    <2> QED BY <2>1, <2>2, <2>3, <2>4, <2>5, <2>6 DEF Read, Agrees, Checking
  <1> QED BY <1>2, <1>3, <1>4 DEF IInv, Reads

\* When the overlay goes, term and base state are of the same snapshot.
LEMMA WriteOverlaysStep == ASSUME IInv, WriteOverlays PROVE IInv'
  <1>1. whole' \in [Writer -> BOOLEAN]
    BY DEF IInv, TypeOK, WriteOverlays, Observe
  <1>2. TypeOK'
    BY <1>1 DEF IInv, TypeOK, WriteOverlays, durable
  <1>3. Maps'
    BY DEF IInv, Maps, WriteOverlays, durable
  <1>4. ASSUME NEW w \in Writer PROVE Read(w)'
    <2>1. /\ whole[w] => whole'[w]
          /\ (pc'[w] \in Checking /\ Agrees(guard'[w], terms', base', retired')) => whole'[w]
      BY Observed DEF IInv, WriteOverlays
    <2>2. UNCHANGED <<terms, base, pc, guard>>
      BY DEF WriteOverlays
    <2>3. base = terms /\ Read(w)
      BY DEF WriteOverlays, IInv, Maps, Reads
    <2>4. pc[w] = "base" => ~ (base.epoch < guard[w].epoch)
      BY <2>3 DEF Read, IInv, TypeOK, Term
    <2>5. pc[w] = "overlay" => pc[w] \in Checking
      BY DEF Checking
    <2> QED BY <2>1, <2>2, <2>3, <2>4, <2>5, Zenon DEF Read, Agrees
  <1> QED BY <1>2, <1>3, <1>4 DEF IInv, Reads

\* A writer's step leaves the others, the maps and the store alone.
LEMMA OtherReads ==
    ASSUME TypeOK, Reads, UNCHANGED maps, NEW w \in Writer, NEW v \in Writer, v # w,
           pc'[v] = pc[v], guard'[v] = guard[v], whole'[v] = whole[v]
    PROVE  Read(v)'
  BY DEF Reads, Read, maps, Agrees

\* Between two validations there is nothing to know.
LEMMA BetweenReads ==
    ASSUME NEW w \in Writer, pc'[w] \in {"idle", "mint", "check"}
    PROVE  Read(w)'
  BY DEF Read, Checking

LEMMA WriterMaps ==
    ASSUME Maps, UNCHANGED <<durable, maps, handler>>
    PROVE  Maps'
  BY DEF Maps, durable, maps, handler

LEMMA WriterTypes ==
    ASSUME TypeOK, NEW w \in Writer, Write(w)
    PROVE  TypeOK'
  <1>1. /\ pc' \in [Writer -> {"idle", "mint", "check"} \cup Checking]
        /\ stage' \in [Writer -> {"issue", "begin", "commit"}]
    BY DEF TypeOK, Write, Issue, Mint, CheckReady, CheckTerm, CheckLocal, Refused, Accepted,
       Leave, Step, Checking
  <1>2. guard' \in [Writer -> Term] /\ since' \in [Writer -> 0..MaxEpoch]
    <2>1. NoTerm \in Term /\ 0 \in 0..MaxEpoch /\ store.epoch \in 0..MaxEpoch
      BY FencedWriteAssumption DEF FencedWriteAssumption, TypeOK, Term, NoTerm
    <2> QED BY <2>1 DEF TypeOK, Write, Issue, Mint, CheckReady, CheckTerm, CheckLocal, Refused,
               Accepted, Leave
  <1>3. whole' \in [Writer -> BOOLEAN]
    <2>1. Agrees(guard[w], terms, base, retired) \in BOOLEAN
      BY DEF Agrees, TypeOK
    <2> QED BY <2>1, Zenon DEF TypeOK, Write, Issue, Mint, CheckReady, CheckTerm, CheckLocal, Refused,
               Accepted, Leave
  <1>4. UNCHANGED <<durable, maps, ready, handler, crashes>>
    BY DEF Write, Issue, Mint, CheckReady, CheckTerm, CheckLocal, Refused, Accepted
  <1> QED BY <1>1, <1>2, <1>3, <1>4 DEF TypeOK, durable, maps, handler

\* Every step of a writer.
LEMMA WriteStep ==
    ASSUME IInv, NEW w \in Writer, Write(w)
    PROVE  IInv'
  <1>1. TypeOK'
    BY WriterTypes DEF IInv
  <1>2. UNCHANGED <<durable, maps, ready, handler, crashes>>
    BY DEF Write, Issue, Mint, CheckReady, CheckTerm, CheckLocal, Refused, Accepted
  <1>3. Maps'
    BY <1>2, WriterMaps DEF IInv
  <1>4. ASSUME NEW v \in Writer, v # w PROVE Read(v)'
    <2>1. pc'[v] = pc[v] /\ guard'[v] = guard[v] /\ whole'[v] = whole[v]
      BY <1>4 DEF IInv, TypeOK, Write, Issue, Mint, CheckReady, CheckTerm, CheckLocal,
         Refused, Accepted, Leave, Step
    <2> QED BY <1>2, <1>4, <2>1, OtherReads DEF IInv
  <1>5. Read(w)'
    <2>1. CASE Issue(w) \/ Mint(w) \/ Refused(w) \/ Accepted(w)
      <3>1. pc'[w] \in {"idle", "mint", "check"}
        BY <2>1 DEF IInv, TypeOK, Issue, Mint, Refused, Accepted, Leave, Step
      <3> QED BY <3>1, BetweenReads
    <2>2. CASE CheckReady(w)
      <3>1. /\ pc'[w] = "term" /\ guard' = guard /\ UNCHANGED <<terms, base, retired>>
            /\ whole'[w] = Agrees(guard[w], terms, base, retired)
        BY <2>2 DEF CheckReady, Step, IInv, TypeOK, maps
      <3> QED BY <3>1, Zenon DEF Read, Agrees
    <2>3. CASE CheckTerm(w)
      <3>1. /\ pc'[w] = "overlay" /\ pc[w] = "term" /\ guard[w] = terms
            /\ UNCHANGED <<guard, whole, terms, base, retired>>
        BY <2>3 DEF CheckTerm, Step, IInv, TypeOK, maps
      <3>2. Agrees(guard[w], terms, base, retired) => whole[w]
        BY <3>1 DEF IInv, Reads, Read, Checking
      <3>3. guard[w].epoch <= terms.epoch
        BY <3>1 DEF IInv, TypeOK, Term
      <3> QED BY <3>1, <3>2, <3>3 DEF Read, Agrees
    <2>4. CASE CheckLocal(w)
      <3>1. UNCHANGED <<guard, whole, terms, base, retired>> /\ Read(w)
        BY <2>4 DEF CheckLocal, IInv, Reads, maps
      <3>2. CASE pc[w] = "overlay" /\ ~ retired /\ Step(w, "base")
        <4>1. pc'[w] = "base" /\ pc[w] = "overlay" /\ ~ retired
          BY <3>2 DEF Step, IInv, TypeOK
        <4>2. Agrees(guard[w], terms, base, retired) => whole[w]
          BY <3>1, <4>1 DEF Read, Checking
        <4> QED BY <3>1, <4>1, <4>2 DEF Read, Agrees
      <3>3. CASE pc[w] = "base" /\ base = guard[w] /\ Step(w, "accepted")
        <4>1. pc'[w] = "accepted"
          BY <3>3 DEF Step, IInv, TypeOK
        <4> QED BY <3>1, <3>3, <4>1 DEF Read
      <3> QED BY <2>4, <3>2, <3>3 DEF CheckLocal
    <2> QED BY <2>1, <2>2, <2>3, <2>4 DEF Write
  <1> QED BY <1>1, <1>3, <1>4, <1>5 DEF IInv, Reads

LEMMA RestartStep == ASSUME IInv, Restart PROVE IInv'
  <1>1. TypeOK'
    <2>1. NoTerm \in Term /\ 0 \in 0..MaxEpoch
      BY FencedWriteAssumption DEF FencedWriteAssumption, Term, NoTerm
    <2>2. /\ store' \in Term /\ draft' \in Term /\ terms' \in Term /\ base' \in Term
          /\ overlay' \in 0..MaxEpoch
      BY <2>1 DEF Restart, IInv, TypeOK, durable
    <2>3. /\ retired' \in BOOLEAN /\ ready' \in BOOLEAN /\ recovering' \in BOOLEAN
          /\ hpc' \in {"idle", "close"}
      BY Zenon DEF Restart
    <2>4. /\ pc' \in [Writer -> {"idle"}] /\ stage' \in [Writer -> {"issue"}]
          /\ whole' \in [Writer -> BOOLEAN]
      BY DEF Restart
    <2>5. guard' \in [Writer -> Term] /\ since' \in [Writer -> 0..MaxEpoch]
      BY <2>1 DEF Restart
    <2>6. crashes' \in 0..MaxCrashes
      BY FencedWriteAssumption DEF FencedWriteAssumption, Restart, IInv, TypeOK
    <2> QED BY <2>2, <2>3, <2>4, <2>5, <2>6 DEF TypeOK
  <1>2. Maps'
    <2>1. terms' = NoTerm /\ base' = NoTerm /\ store' = store /\ hpc' \in {"idle", "close"}
      BY DEF Restart, durable
    <2>2. terms.epoch \in Nat /\ store.epoch \in Nat
      BY DEF IInv, TypeOK, Term
    <2>3. store.epoch = 0 => store = NoTerm
      BY DEF IInv, Maps
    <2> QED BY <2>1, <2>2, <2>3 DEF Maps, NoTerm
  <1>3. Reads'
    BY DEF Restart, Reads, Read, Checking
  <1> QED BY <1>1, <1>2, <1>3 DEF IInv

\* Every step preserves IInv.
LEMMA NextIInv == ASSUME IInv, [Next]_vars PROVE IInv'
  <1>1. CASE Handle
    BY <1>1, FencedWriteAssumption, QuietStep, RetireLocalStep, WriteTermsStep,
       WriteBasesStep, WriteOverlaysStep, Zenon DEF Handle
  <1>2. CASE (\E startup \in BOOLEAN : FenceRecovery(startup)) \/ Reopen
    BY <1>2, FencedWriteAssumption, QuietStep
  <1>3. CASE \E w \in Writer : Write(w)
    BY <1>3, WriteStep
  <1>4. CASE Restart
    BY <1>4, RestartStep
  <1>5. CASE UNCHANGED vars
    <2>1. Reads'
      BY <1>5, SameReads DEF IInv, vars
    <2>2. TypeOK' /\ Maps'
      BY <1>5 DEF IInv, TypeOK, Maps, vars, durable, maps, handler, writers
    <2> QED BY <2>1, <2>2 DEF IInv
  <1> QED BY <1>1, <1>2, <1>3, <1>4, <1>5, Zenon DEF Next

\* The four reads of validate amount to one: an accepted guard was valid as a
\* whole at some instant of its validation.
THEOREM ValidatesAtomically == Spec => []AcceptedWasWhole
  <1>1. Init => IInv
    BY InitIInv, FencedWriteAssumption
  <1>2. IInv /\ [Next]_vars => IInv'
    BY NextIInv
  <1>3. IInv => AcceptedWasWhole
    BY DEF IInv, Reads, Read, AcceptedWasWhole
  <1> QED BY <1>1, <1>2, <1>3, PTL DEF Spec

-----------------------------------------------------------------------------
(* The invariant behind OpenIsCurrent and RefusesOldCache                  *)

LEMMA InitLatch == ASSUME Init PROVE Latch /\ Begun
  <1>1. Latch
    BY DEF Init, Latch, NoTerm
  <1>2. Begun
    BY Zenon DEF Init, Begun
  <1> QED BY <1>1, <1>2

\* A handler has the latch closed from before the install until the registry
\* shows what was installed.
LEMMA LatchStep ==
    ASSUME ~ ReopenStale, JInv, [Next]_vars
    PROVE  Latch'
  <1>1. /\ overlay \in Nat /\ store.epoch \in Nat /\ draft.epoch \in Nat
        /\ ready \in BOOLEAN /\ retired \in BOOLEAN
    BY DEF JInv, IInv, TypeOK, Term
  <1>2. CASE \E g \in Term : Replicate(g)
    BY <1>1, <1>2 DEF Replicate, JInv, Latch, durable, maps
  <1>3. CASE Install
    BY <1>1, <1>3 DEF Install, JInv, Latch, maps
  <1>4. CASE OwnerCommit
    BY <1>1, <1>4 DEF OwnerCommit, JInv, Latch, maps
  <1>5. CASE PrepareHandoff
    BY <1>1, <1>5 DEF PrepareHandoff, JInv, Latch, maps
  <1>6. CASE RetireLocal
    BY <1>1, <1>6 DEF RetireLocal, JInv, Latch, durable
  <1>7. CASE CloseLatch
    BY <1>1, <1>7 DEF CloseLatch, JInv, Latch, durable, maps
  <1>8. CASE WriteTerms
    BY <1>1, <1>8 DEF WriteTerms, JInv, Latch, durable
  <1>9. CASE WriteBases
    BY <1>1, <1>9 DEF WriteBases, JInv, Latch, durable
  <1>10. CASE WriteOverlays
    BY <1>1, <1>10, Zenon DEF WriteOverlays, JInv, Latch, durable
  <1>11. CASE OpenLatch
    BY <1>1, <1>11 DEF OpenLatch, JInv, IInv, Maps, Latch, durable, maps
  <1>12. CASE \E startup \in BOOLEAN : FenceRecovery(startup)
    BY <1>1, <1>12 DEF FenceRecovery, JInv, Latch, durable, maps
  <1>13. CASE Reopen
    BY <1>1, <1>13 DEF Reopen, JInv, IInv, Maps, Latch, durable, maps
  <1>14. CASE \E w \in Writer : Write(w)
    <2>1. UNCHANGED <<durable, maps, ready, handler, crashes>>
      BY <1>14 DEF Write, Issue, Mint, CheckReady, CheckTerm, CheckLocal, Refused, Accepted
    <2> QED BY <2>1 DEF JInv, Latch, durable, maps, handler
  <1>15. CASE Restart
    BY <1>1, <1>15 DEF Restart, JInv, IInv, Maps, Latch, durable, NoTerm
  <1>16. CASE UNCHANGED vars
    BY <1>16 DEF vars, JInv, Latch, durable, maps, handler
  <1> QED BY <1>2, <1>3, <1>4, <1>5, <1>6, <1>7, <1>8, <1>9, <1>10, <1>11, <1>12, <1>13,
             <1>14, <1>15, <1>16, Zenon DEF Next, Handle

LEMMA BegunStep ==
    ASSUME JInv, [Next]_vars
    PROVE  Begun'
  <1> SUFFICES ASSUME NEW v \in Writer
               PROVE  /\ pc'[v] = "term" => since'[v] <= terms'.epoch
                      /\ pc'[v] \in {"overlay", "base", "accepted"} => since'[v] <= guard'[v].epoch
    BY DEF Begun
  <1>1. /\ pc[v] = "term" => since[v] <= terms.epoch
        /\ pc[v] \in {"overlay", "base", "accepted"} => since[v] <= guard[v].epoch
    BY DEF JInv, Begun
  <1>2. /\ since[v] \in Nat /\ terms.epoch \in Nat /\ store.epoch \in Nat
        /\ terms.epoch <= store.epoch
    BY DEF JInv, IInv, TypeOK, Term, Maps
  <1>3. CASE UNCHANGED <<pc, guard, since>> /\ terms' \in {terms, store}
    BY <1>1, <1>2, <1>3
  <1>4. ASSUME Handle \/ (\E startup \in BOOLEAN : FenceRecovery(startup)) \/ Reopen
        PROVE  UNCHANGED <<pc, guard, since>> /\ terms' \in {terms, store}
    BY <1>4 DEF Handle, Replicate, Install, OwnerCommit, PrepareHandoff, RetireLocal,
       CloseLatch, WriteTerms, WriteBases, WriteOverlays, OpenLatch, FenceRecovery, Reopen,
       maps, writers
  <1>5. CASE \E w \in Writer : Write(w)
    <2>1. PICK w \in Writer : Write(w)
      BY <1>5
    <2>2. terms' = terms
      BY <2>1 DEF Write, Issue, Mint, CheckReady, CheckTerm, CheckLocal, Refused, Accepted,
         maps
    <2>3. CASE v # w
      <3>1. pc'[v] = pc[v] /\ guard'[v] = guard[v] /\ since'[v] = since[v]
        BY <2>1, <2>3, SMTT(20) DEF JInv, IInv, TypeOK, Write, Issue, Mint, CheckReady, CheckTerm,
           CheckLocal, Refused, Accepted, Leave, Step
      <3> QED BY <1>1, <2>2, <3>1
    <2>4. CASE v = w
      <3>1. CASE Issue(w) \/ Mint(w) \/ Refused(w) \/ Accepted(w)
        BY <2>4, <3>1 DEF JInv, IInv, TypeOK, Issue, Mint, Refused, Accepted, Leave, Step
      <3>2. CASE CheckReady(w)
        <4>1. pc'[v] = "term" /\ since'[v] = store.epoch /\ terms = store
          BY <2>4, <3>2 DEF CheckReady, Step, JInv, IInv, TypeOK, Latch
        <4> QED BY <1>2, <2>2, <4>1
      <3>3. CASE CheckTerm(w)
        BY <1>1, <2>4, <3>3 DEF CheckTerm, Step, JInv, IInv, TypeOK
      <3>4. CASE CheckLocal(w)
        BY <1>1, <2>4, <3>4 DEF CheckLocal, Step, JInv, IInv, TypeOK
      <3> QED BY <2>1, <3>1, <3>2, <3>3, <3>4 DEF Write
    <2> QED BY <2>3, <2>4
  <1>6. CASE Restart
    BY <1>6 DEF Restart
  <1>7. CASE UNCHANGED vars
    BY <1>3, <1>7 DEF vars, maps, writers
  <1> QED BY <1>3, <1>4, <1>5, <1>6, <1>7, Zenon DEF Next

LEMMA JInvariance ==
    ASSUME ~ ReopenStale
    PROVE  Spec => []JInv
  <1>1. Init => JInv
    BY InitIInv, InitLatch, FencedWriteAssumption DEF JInv
  <1>2. JInv /\ [Next]_vars => JInv'
    BY NextIInv, LatchStep, BegunStep DEF JInv
  <1> QED BY <1>1, <1>2, PTL DEF Spec

\* The latch is never open on maps that lag behind the store.
THEOREM OpensOnInstalled ==
    ASSUME ~ ReopenStale
    PROVE  Spec => []OpenIsCurrent
  <1>1. JInv => OpenIsCurrent
    <2> SUFFICES ASSUME JInv, ready, overlay > 0, hpc # "retire" PROVE retired
      BY DEF OpenIsCurrent, JInv, Latch
    <2>1. hpc \in {"idle", "install", "close", "terms", "bases", "overlays", "open"}
      BY DEF JInv, IInv, TypeOK
    <2> QED BY <2>1 DEF JInv, IInv, TypeOK, Latch
  <1> QED BY <1>1, JInvariance, PTL

\* A validation that begins after a newer term was installed never accepts a
\* guard of an older one.
THEOREM NoGuardFromOldCache ==
    ASSUME ~ ReopenStale
    PROVE  Spec => []RefusesOldCache
  <1>1. JInv => RefusesOldCache
    BY DEF JInv, IInv, TypeOK, Term, Begun, RefusesOldCache
  <1> QED BY <1>1, JInvariance, PTL
=============================================================================
