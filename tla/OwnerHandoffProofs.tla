------------------------- MODULE OwnerHandoffProofs -------------------------
(***************************************************************************)
(* What the handoff protocol guarantees for any number of nodes, scopes,   *)
(* requests and handoffs, with requests that overlap and requests that run *)
(* after their sender has given up.  The second part is what holds beyond  *)
(* it when requests do not overlap, the third when neither happens.        *)
(***************************************************************************)
EXTENDS OwnerHandoff, TLAPS

-----------------------------------------------------------------------------
\* The scopes a node's overlays o retire.
Overlaid(o) == {s \in Scope : o[s] > 0}

\* An open registry belongs to a running daemon and shows what the store holds.
OpenAt(n) ==
    /\ up[n] /\ ~conflict[n]
    /\ terms[n] = store[n].terms
    /\ retired[n] = Overlaid(overlay[n])

OpenInv == \A n \in Node : ready[n] => OpenAt(n)

\* Every store holds a snapshot the chef has installed, the chef's is the last
\* of them, a revision names one, and only the chef can meet a conflict.
StoreOrders ==
    /\ \A n \in Node : store[n] \in published \cup {NoSnapshot}
    /\ \A p \in published : p.revision > 0 /\ p.revision <= store[Chef].revision
    /\ \A p, q \in published : p.revision = q.revision => p = q
    /\ \A n \in Node \ {Chef} : ~conflict[n]

\* A handoff replicates what the chef has installed, and dies with the chef.
OrderedSaga(r) ==
    /\ r.pc # "idle" => up[Chef]
    /\ r.pc = "install" => r.snap.revision > 0
    /\ r.pc \in {"source", "target"} => r.snap \in published

SagaOrders ==
    /\ \A h \in Saga : OrderedSaga(saga[h])
    /\ draft # NoSnapshot => draft.revision > 0 /\ up[Chef]

AnyInv == TypeOK /\ OpenInv /\ StoreOrders /\ SagaOrders

USE HandoffAssumption DEF Term, Snapshot

\* The part of TypeOK that handlers can disturb.
NodeTypeOK ==
    /\ store \in [Node -> Snapshot]
    /\ conflict \in [Node -> BOOLEAN]
    /\ overlay \in [Node -> [Scope -> Nat]]
    /\ terms \in [Node -> [Scope -> Term]]
    /\ retired \in [Node -> SUBSET Scope]
    /\ ready \in [Node -> BOOLEAN]

\* The constants of the state space are in it.
LEMMA Constants ==
    /\ Unknown \in Term
    /\ NoSnapshot \in Snapshot
    /\ NoSnapshot.revision = 0
    /\ NoSnapshot.terms \in [Scope -> Term]
    /\ \A s \in Scope : NoSnapshot.terms[s].epoch = 0
    /\ IdleSaga \in SagaState
    /\ IdleSaga.pc = "idle" /\ IdleSaga.rpc = "none"
  BY Zenon DEF Unknown, NoSnapshot, IdleSaga, SagaState

\* What install_owner_snapshot does to a node's store when it gets a snapshot.
LEMMA InstallFacts ==
    ASSUME TypeOK, NEW n \in Node, NEW g \in Snapshot, InstallSnapshot(n, g)
    PROVE  /\ store' \in [Node -> Snapshot]
           /\ conflict' \in [Node -> BOOLEAN]
           /\ overlay' = overlay
           /\ \A m \in Node \ {n} : store'[m] = store[m] /\ conflict'[m] = conflict[m]
           /\ InstallOutcome(n, g) = "installed" =>
                store'[n] = g /\ g.revision > store[n].revision /\ ~conflict'[n]
           /\ InstallOutcome(n, g) \in {"already", "stale"} =>
                store'[n] = store[n] /\ ~conflict'[n]
           /\ InstallOutcome(n, g) = "conflict" => store'[n] = store[n] /\ conflict'[n]
           /\ InstallOutcome(n, g) = "already" => g = store[n]
           /\ InstallOutcome(n, g) \in {"installed", "already", "stale", "conflict"}
<1>1. /\ InstallOutcome(n, g) \in {"installed", "already", "stale", "conflict"}
      /\ InstallOutcome(n, g) = "installed" => g.revision > store[n].revision
      /\ InstallOutcome(n, g) = "already" => g = store[n]
  <2>1. g.revision \in Nat /\ store[n].revision \in Nat
    BY Zenon DEF TypeOK
  <2>2. CASE conflict[n]
    BY <2>2, Zenon DEF InstallOutcome
  <2>3. CASE ~conflict[n] /\ g.revision < store[n].revision
    BY <2>1, <2>3, Zenon DEF InstallOutcome
  <2>4. CASE ~conflict[n] /\ g.revision = store[n].revision
    BY <2>1, <2>4, Zenon DEF InstallOutcome
  <2>5. CASE ~conflict[n] /\ g.revision > store[n].revision
    BY <2>1, <2>5, Zenon DEF InstallOutcome
  <2>6. QED
    BY <2>1, <2>2, <2>3, <2>4, <2>5
<1> DEFINE o == InstallOutcome(n, g)
<1>2. /\ store' = [store EXCEPT ![n] = IF o = "installed" THEN g ELSE @]
      /\ conflict' = [conflict EXCEPT ![n] = (o = "conflict")]
      /\ overlay' = overlay
  BY Zenon DEF InstallSnapshot
<1>3. (o = "conflict") \in BOOLEAN
  BY Zenon
<1> HIDE DEF o
<1>4. /\ store' \in [Node -> Snapshot]
      /\ \A m \in Node \ {n} : store'[m] = store[m]
      /\ store'[n] = IF o = "installed" THEN g ELSE store[n]
  BY <1>2, Zenon DEF TypeOK
<1>5. /\ conflict' \in [Node -> BOOLEAN]
      /\ \A m \in Node \ {n} : conflict'[m] = conflict[m]
      /\ conflict'[n] = (o = "conflict")
  BY <1>2, <1>3, Zenon DEF TypeOK
<1>6. QED
  BY <1>1, <1>2, <1>4, <1>5, Zenon DEF o

\* A rebuild opens the registry on the store and touches no other node.
LEMMA RebuildFacts ==
    ASSUME TypeOK, NEW n \in Node, RebuildRegistry(n), store' \in [Node -> Snapshot]
    PROVE  /\ terms' \in [Node -> [Scope -> Term]]
           /\ retired' \in [Node -> SUBSET Scope]
           /\ ready' \in [Node -> BOOLEAN]
           /\ terms'[n] = store'[n].terms
           /\ retired'[n] = Overlaid(overlay'[n])
           /\ ready'[n]
           /\ \A m \in Node \ {n} :
                terms'[m] = terms[m] /\ retired'[m] = retired[m] /\ ready'[m] = ready[m]
  BY Zenon DEF TypeOK, RebuildRegistry, Overlaid

\* Closing leaves everything but one latch alone.
LEMMA CloseFacts ==
    ASSUME TypeOK, NEW n \in Node, CloseReadiness(n)
    PROVE  /\ terms' = terms /\ retired' = retired
           /\ ready' \in [Node -> BOOLEAN]
           /\ ~ready'[n]
           /\ \A m \in Node \ {n} : ready'[m] = ready[m]
  BY Zenon DEF TypeOK, CloseReadiness

\* A step at node n touches the store and the registry of no other node.
OnlyAt(n) ==
    \A m \in Node \ {n} :
        /\ store'[m] = store[m] /\ conflict'[m] = conflict[m] /\ overlay'[m] = overlay[m]
        /\ terms'[m] = terms[m] /\ retired'[m] = retired[m] /\ ready'[m] = ready[m]

\* What a handler does not touch stays open if it was.
LEMMA OthersOpen ==
    ASSUME OpenInv, NEW n \in Node, \A m \in Node \ {n} : up'[m] = up[m], OnlyAt(n),
           ready'[n] => OpenAt(n)'
    PROVE  OpenInv'
<1> SUFFICES ASSUME NEW m \in Node, ready'[m], m # n
             PROVE  OpenAt(m)'
  BY Zenon DEF OpenInv
<1>1. OpenAt(m)
  BY Zenon DEF OpenInv, OnlyAt
<1>2. QED
  BY <1>1, Zenon DEF OpenAt, OnlyAt

\* ReplicateOwnerSnapshot leaves a peer open on its store, or closed.
LEMMA ReplicateOpen ==
    ASSUME TypeOK, OpenInv, NEW n \in Node, NEW g \in Snapshot, up[n], up' = up,
           HandleReplicate(n, g)
    PROVE  NodeTypeOK' /\ OpenInv' /\ OnlyAt(n)
<1>1. InstallSnapshot(n, g)
  BY Zenon DEF HandleReplicate
<1>2. CASE InstallOutcome(n, g) = "conflict"
  <2>1. CloseReadiness(n)
    BY <1>2, Zenon DEF HandleReplicate
  <2>2. NodeTypeOK'
    BY <1>1, <2>1, InstallFacts, CloseFacts, Zenon DEF TypeOK, NodeTypeOK
  <2>3. OnlyAt(n) /\ ~ready'[n]
    BY <1>1, <2>1, InstallFacts, CloseFacts DEF OnlyAt
  <2>4. QED
    BY <2>2, <2>3, OthersOpen, Zenon
<1>3. CASE InstallOutcome(n, g) # "conflict"
  <2>1. RebuildRegistry(n)
    BY <1>3, Zenon DEF HandleReplicate
  <2>2. NodeTypeOK'
    BY <1>1, <2>1, InstallFacts, RebuildFacts, Zenon DEF TypeOK, NodeTypeOK
  <2>3. OnlyAt(n)
    <3>1. \A m \in Node \ {n} :
            store'[m] = store[m] /\ conflict'[m] = conflict[m] /\ overlay'[m] = overlay[m]
      BY <1>1, InstallFacts, Zenon
    <3>2. \A m \in Node \ {n} :
            terms'[m] = terms[m] /\ retired'[m] = retired[m] /\ ready'[m] = ready[m]
      BY <2>1, <2>2, RebuildFacts, Zenon DEF NodeTypeOK
    <3>3. QED
      BY <3>1, <3>2, Zenon DEF OnlyAt
  <2>4. ~conflict'[n]
    BY <1>1, <1>3, InstallFacts, Zenon
  <2>5. terms'[n] = store'[n].terms /\ retired'[n] = Overlaid(overlay'[n])
    BY <1>1, <2>1, InstallFacts, RebuildFacts, Zenon
  <2>6. OpenAt(n)'
    BY <2>4, <2>5, Zenon DEF OpenAt
  <2>7. QED
    BY <2>2, <2>3, <2>6, OthersOpen, Zenon
<1>4. QED
  BY <1>2, <1>3, Zenon

\* So does the chef's own install.
LEMMA ChefInstallOpen ==
    ASSUME TypeOK, OpenInv, NEW g \in Snapshot, up[Chef], up' = up, HandleChefInstall(g)
    PROVE  NodeTypeOK' /\ OpenInv' /\ OnlyAt(Chef)
<1>1. InstallSnapshot(Chef, g)
  BY Zenon DEF HandleChefInstall
<1>2. CASE InstallOutcome(Chef, g) \notin {"installed", "already"}
  <2>1. CloseReadiness(Chef)
    BY <1>2, Zenon DEF HandleChefInstall
  <2>2. NodeTypeOK'
    BY <1>1, <2>1, InstallFacts, CloseFacts, Zenon DEF TypeOK, NodeTypeOK
  <2>3. OnlyAt(Chef) /\ ~ready'[Chef]
    BY <1>1, <2>1, InstallFacts, CloseFacts DEF OnlyAt
  <2>4. QED
    BY <2>2, <2>3, OthersOpen, Zenon
<1>3. CASE InstallOutcome(Chef, g) \in {"installed", "already"}
  <2>1. RebuildRegistry(Chef)
    BY <1>3, Zenon DEF HandleChefInstall
  <2>2. NodeTypeOK'
    BY <1>1, <2>1, InstallFacts, RebuildFacts, Zenon DEF TypeOK, NodeTypeOK
  <2>3. OnlyAt(Chef)
    <3>1. \A m \in Node \ {Chef} :
            store'[m] = store[m] /\ conflict'[m] = conflict[m] /\ overlay'[m] = overlay[m]
      BY <1>1, InstallFacts, Zenon
    <3>2. \A m \in Node \ {Chef} :
            terms'[m] = terms[m] /\ retired'[m] = retired[m] /\ ready'[m] = ready[m]
      BY <2>1, <2>2, RebuildFacts, Zenon DEF NodeTypeOK
    <3>3. QED
      BY <3>1, <3>2, Zenon DEF OnlyAt
  <2>4. ~conflict'[Chef]
    BY <1>1, <1>3, InstallFacts, Zenon
  <2>5. terms'[Chef] = store'[Chef].terms /\ retired'[Chef] = Overlaid(overlay'[Chef])
    BY <1>1, <2>1, InstallFacts, RebuildFacts, Zenon
  <2>6. OpenAt(Chef)'
    BY <2>4, <2>5, Zenon DEF OpenAt
  <2>7. QED
    BY <2>2, <2>3, <2>6, OthersOpen, Zenon
<1>4. QED
  BY <1>2, <1>3, Zenon

\* A retirement reaches the store and the registry together.
LEMMA PrepareOpen ==
    ASSUME TypeOK, OpenInv, NEW n \in Node, NEW s \in Scope, NEW e \in Nat, up' = up,
           HandlePrepare(n, s, e)
    PROVE  NodeTypeOK' /\ OpenInv' /\ OnlyAt(n)
<1>1. CASE MayRetire(n, s, e)
  <2>1. /\ overlay' = [overlay EXCEPT ![n][s] = e]
        /\ retired' = [retired EXCEPT ![n] = @ \cup {s}]
        /\ store' = store /\ conflict' = conflict /\ terms' = terms /\ ready' = ready
        /\ e > 0
    BY <1>1, Zenon DEF HandlePrepare, MayRetire
  <2>2. NodeTypeOK'
    BY <2>1, Zenon DEF TypeOK, NodeTypeOK
  <2>3. OnlyAt(n)
    BY <2>1, Zenon DEF TypeOK, OnlyAt
  <2>4. ASSUME ready'[n] PROVE OpenAt(n)'
    <3>1. OpenAt(n)
      BY <2>1, <2>4, Zenon DEF OpenInv
    <3>2. retired'[n] = Overlaid(overlay'[n])
      <4>1. /\ retired'[n] = retired[n] \cup {s} /\ overlay[n] \in [Scope -> Nat]
            /\ overlay'[n] = [overlay[n] EXCEPT ![s] = e]
        BY <2>1, Zenon DEF TypeOK
      <4>2. retired[n] = {x \in Scope : overlay[n][x] > 0}
        BY <3>1, Zenon DEF OpenAt, Overlaid
      <4>3. \A x \in Scope : overlay'[n][x] = IF x = s THEN e ELSE overlay[n][x]
        BY <4>1, Zenon
      <4>4. \A x \in Scope : overlay'[n][x] > 0 <=> x = s \/ overlay[n][x] > 0
        BY <2>1, <4>3, Zenon
      <4>5. QED
        BY <4>1, <4>2, <4>4, Zenon DEF Overlaid
    <3>3. QED
      BY <2>1, <3>1, <3>2, Zenon DEF OpenAt
  <2>5. QED
    BY <2>2, <2>3, <2>4, OthersOpen, Zenon
<1>2. CASE ~MayRetire(n, s, e)
  <2>1. UNCHANGED <<store, conflict, overlay, terms, retired, ready>>
    BY <1>2, Zenon DEF HandlePrepare
  <2>2. QED
    BY <2>1, Zenon DEF TypeOK, NodeTypeOK, OpenInv, OpenAt, OnlyAt
<1>3. QED
  BY <1>1, <1>2, Zenon
\* OwnerCommit opens the registry on the store without the overlay.
LEMMA CommitOpen ==
    ASSUME TypeOK, OpenInv, NEW n \in Node, NEW s \in Scope, NEW e \in Nat, up[n], up' = up,
           HandleCommit(n, s, e)
    PROVE  NodeTypeOK' /\ OpenInv' /\ OnlyAt(n)
<1>1. CASE MayCommit(n, s, e)
  <2>1. /\ overlay' = [overlay EXCEPT ![n][s] = 0]
        /\ store' = store /\ conflict' = conflict
        /\ ~conflict[n]
        /\ RebuildRegistry(n)
    BY <1>1, Zenon DEF HandleCommit, MayCommit
  <2>2. NodeTypeOK'
    BY <2>1, RebuildFacts, Zenon DEF TypeOK, NodeTypeOK
  <2>3. OnlyAt(n)
    BY <2>1, <2>2, RebuildFacts, Zenon DEF TypeOK, NodeTypeOK, OnlyAt
  <2>4. terms'[n] = store'[n].terms /\ retired'[n] = Overlaid(overlay'[n])
    BY <2>1, <2>2, RebuildFacts, Zenon DEF NodeTypeOK
  <2>5. OpenAt(n)'
    BY <2>1, <2>4, Zenon DEF OpenAt
  <2>6. QED
    BY <2>2, <2>3, <2>5, OthersOpen, Zenon
<1>2. CASE ~MayCommit(n, s, e)
  <2>1. UNCHANGED <<store, conflict, overlay, terms, retired, ready>>
    BY <1>2, Zenon DEF HandleCommit
  <2>2. QED
    BY <2>1, Zenon DEF TypeOK, NodeTypeOK, OpenInv, OpenAt, OnlyAt
<1>3. QED
  BY <1>1, <1>2, Zenon

\* At the chef the rebuild is left out in a conflict, when the registry is closed.
LEMMA ChefCommitOpen ==
    ASSUME TypeOK, OpenInv, NEW s \in Scope, NEW e \in Nat, up[Chef], up' = up,
           HandleChefCommit(s, e)
    PROVE  NodeTypeOK' /\ OpenInv' /\ OnlyAt(Chef)
<1>1. store' = store /\ conflict' = conflict
  BY Zenon DEF HandleChefCommit
<1>2. CASE overlay[Chef][s] <= e /\ ~conflict[Chef]
  <2>1. /\ overlay' = [overlay EXCEPT ![Chef][s] = 0]
        /\ RebuildRegistry(Chef)
    BY <1>2, Zenon DEF HandleChefCommit
  <2>2. NodeTypeOK'
    BY <1>1, <2>1, RebuildFacts, Zenon DEF TypeOK, NodeTypeOK
  <2>3. OnlyAt(Chef)
    BY <1>1, <2>1, <2>2, RebuildFacts, Zenon DEF TypeOK, NodeTypeOK, OnlyAt
  <2>4. terms'[Chef] = store'[Chef].terms /\ retired'[Chef] = Overlaid(overlay'[Chef])
    BY <2>1, <2>2, RebuildFacts, Zenon DEF NodeTypeOK
  <2>5. OpenAt(Chef)'
    BY <1>1, <1>2, <2>4, Zenon DEF OpenAt
  <2>6. QED
    BY <2>2, <2>3, <2>5, OthersOpen, Zenon
<1>3. CASE overlay[Chef][s] <= e /\ conflict[Chef]
  <2>1. /\ overlay' = [overlay EXCEPT ![Chef][s] = 0]
        /\ terms' = terms /\ retired' = retired /\ ready' = ready
    BY <1>3, Zenon DEF HandleChefCommit
  <2>2. NodeTypeOK'
    BY <1>1, <2>1, Zenon DEF TypeOK, NodeTypeOK
  <2>3. OnlyAt(Chef)
    BY <1>1, <2>1, Zenon DEF TypeOK, OnlyAt
  <2>4. ~ready'[Chef]
    BY <1>3, <2>1, Zenon DEF OpenInv, OpenAt
  <2>5. QED
    BY <2>2, <2>3, <2>4, OthersOpen, Zenon
<1>4. CASE ~(overlay[Chef][s] <= e)
  <2>1. UNCHANGED <<store, conflict, overlay, terms, retired, ready>>
    BY <1>4, Zenon DEF HandleChefCommit
  <2>2. QED
    BY <2>1, Zenon DEF TypeOK, NodeTypeOK, OpenInv, OpenAt, OnlyAt
<1>5. QED
  BY <1>2, <1>3, <1>4, Zenon
-----------------------------------------------------------------------------
\* One handoff of several takes a step.
LEMMA OneSaga ==
    ASSUME saga \in [Saga -> SagaState], NEW h \in Saga, NEW r \in SagaState,
           saga' = [saga EXCEPT ![h] = r]
    PROVE  /\ saga' \in [Saga -> SagaState]
           /\ saga'[h] = r
           /\ \A k \in Saga \ {h} : saga'[k] = saga[k]
  BY Zenon

\* What a saga leaves behind are requests to peers.
LEMMA AbandonedFacts ==
    ASSUME TypeOK, NEW h \in Saga
    PROVE  Abandoned(h) \in SUBSET Request /\ Peer(h) \in Node
<1>1. saga[h] \in SagaState
  BY Zenon DEF TypeOK
<1>2. Peer(h) \in Node
  BY <1>1, Zenon DEF Peer, SagaState
<1>3. QED
  BY <1>1, <1>2 DEF Abandoned, SagaState, Request

\* The parts of the invariant after a step of one handoff.
LEMMA Assemble ==
    ASSUME AnyInv, NodeTypeOK', OpenInv', StoreOrders', up' = up, draft' = draft,
           late' \in SUBSET Request, published' \in SUBSET Snapshot,
           published \subseteq published',
           NEW h \in Saga, NEW r \in SagaState, saga' = [saga EXCEPT ![h] = r],
           r.pc # "idle" => up[Chef],
           r.pc = "install" => r.snap.revision > 0,
           r.pc \in {"source", "target"} => r.snap \in published'
    PROVE  AnyInv'
<1> USE DEF AnyInv
<1>1. /\ saga' \in [Saga -> SagaState]
      /\ saga'[h] = r
      /\ \A k \in Saga \ {h} : saga'[k] = saga[k]
  BY OneSaga, Zenon DEF TypeOK
<1>2. TypeOK'
  BY <1>1, Zenon DEF TypeOK, NodeTypeOK
<1>3. ASSUME NEW k \in Saga PROVE OrderedSaga(saga[k])'
  <2>1. CASE k = h
    BY <1>1, <2>1, Zenon DEF OrderedSaga
  <2>2. CASE k # h
    BY <1>1, <2>2, Zenon DEF SagaOrders, OrderedSaga
  <2>3. QED
    BY <2>1, <2>2, Zenon
<1>4. SagaOrders'
  BY <1>3, Zenon DEF SagaOrders
<1>5. QED
  BY <1>2, <1>4, Zenon

\* A step of one handoff that leaves the nodes and the published snapshots alone.
LEMMA SagaStep ==
    ASSUME AnyInv, NEW h \in Saga, NEW r \in SagaState, saga' = [saga EXCEPT ![h] = r],
           OrderedSaga(r), late' \in SUBSET Request,
           UNCHANGED <<durable, up, registry, draft, published>>
    PROVE  AnyInv'
<1>1. UNCHANGED <<store, conflict, overlay, up, terms, retired, ready, draft, published>>
  BY Zenon DEF durable, registry
<1>2. NodeTypeOK' /\ published' \in SUBSET Snapshot
  BY <1>1, Zenon DEF AnyInv, TypeOK, NodeTypeOK
<1>3. OpenInv' /\ StoreOrders'
  BY <1>1, Zenon DEF AnyInv, OpenInv, OpenAt, StoreOrders
<1>4. QED
  BY <1>1, <1>2, <1>3, Assemble, Zenon DEF OrderedSaga

\* A peer takes a snapshot of the chef, or keeps its own; it meets no conflict,
\* since a revision names one snapshot.
LEMMA PeerReplicates ==
    ASSUME AnyInv, NEW n \in Node \ {Chef}, NEW g \in published, HandleReplicate(n, g),
           published' = published
    PROVE  StoreOrders' /\ ~conflict'[n] /\ store'[n] \in {store[n], g}
<1> USE DEF AnyInv
<1>1. InstallSnapshot(n, g) /\ g \in Snapshot
  BY Zenon DEF HandleReplicate, TypeOK
<1>2. InstallOutcome(n, g) # "conflict"
  <2>1. ~conflict[n] /\ g.revision > 0 /\ store[n] \in published \cup {NoSnapshot}
    BY Zenon DEF StoreOrders
  <2>2. g.revision = store[n].revision => g = store[n]
    BY <2>1, Constants DEF StoreOrders
  <2>3. QED
    BY <2>1, <2>2, Zenon DEF InstallOutcome
<1>3. ~conflict'[n] /\ store'[n] \in {store[n], g}
  BY <1>1, <1>2, InstallFacts, Zenon
<1>4. \A m \in Node \ {n} : store'[m] = store[m] /\ conflict'[m] = conflict[m]
  BY <1>1, InstallFacts, Zenon
<1>5. \A m \in Node \ {Chef} : ~conflict'[m]
  BY <1>3, <1>4, Zenon DEF StoreOrders
<1>6. \A m \in Node : store'[m] \in published' \cup {NoSnapshot}
  BY <1>3, <1>4, Zenon DEF StoreOrders
<1>7. store'[Chef] = store[Chef]
  BY <1>4, Zenon
<1>8. QED
  BY <1>3, <1>5, <1>6, <1>7, Zenon DEF StoreOrders

\* The chef's install adds a snapshot of a new revision, or nothing.
LEMMA ChefInstalls ==
    ASSUME AnyInv, NEW g \in Snapshot, g.revision > 0, HandleChefInstall(g),
           published' = IF InstallOutcome(Chef, g) \in {"installed", "already"}
                        THEN published \cup {g} ELSE published
    PROVE  StoreOrders'
<1> USE DEF AnyInv
<1>1. InstallSnapshot(Chef, g)
  BY Zenon DEF HandleChefInstall
<1>2. \A m \in Node \ {Chef} : store'[m] = store[m] /\ conflict'[m] = conflict[m]
  BY <1>1, InstallFacts, Zenon
<1>3. \A m \in Node \ {Chef} : ~conflict'[m]
  BY <1>2, Zenon DEF StoreOrders
<1>4. store[Chef].revision \in Nat /\ \A p \in published : p.revision \in Nat
  BY Zenon DEF TypeOK
<1>5. CASE InstallOutcome(Chef, g) = "installed"
  <2>1. store'[Chef] = g /\ g.revision > store[Chef].revision /\ published' = published \cup {g}
    BY <1>1, <1>5, InstallFacts, Zenon
  <2>2. \A p \in published' : p.revision > 0 /\ p.revision <= store'[Chef].revision
    BY <1>4, <2>1 DEF StoreOrders
  <2>3. \A p, q \in published' : p.revision = q.revision => p = q
    BY <1>4, <2>1 DEF StoreOrders
  <2>4. \A n \in Node : store'[n] \in published' \cup {NoSnapshot}
    BY <1>2, <2>1, Zenon DEF StoreOrders
  <2>5. QED
    BY <1>3, <2>2, <2>3, <2>4, Zenon DEF StoreOrders
<1>6. CASE InstallOutcome(Chef, g) # "installed"
  <2>1. store'[Chef] = store[Chef]
    BY <1>1, <1>6, InstallFacts, Zenon
  <2>2. published' = published
    <3>1. CASE InstallOutcome(Chef, g) = "already"
      <4>1. g = store[Chef]
        BY <1>1, <3>1, InstallFacts, Zenon
      <4>2. g \in published
        BY <4>1, Constants DEF StoreOrders
      <4>3. QED
        BY <3>1, <4>2, Zenon
    <3>2. QED
      BY <1>6, <3>1, Zenon
  <2>3. \A n \in Node : store'[n] \in published' \cup {NoSnapshot}
    BY <1>2, <2>1, <2>2, Zenon DEF StoreOrders
  <2>4. QED
    BY <1>3, <2>1, <2>2, <2>3, Zenon DEF StoreOrders
<1>7. QED
  BY <1>5, <1>6, Zenon
LEMMA AnyInit == Init => AnyInv
<1> SUFFICES ASSUME Init PROVE AnyInv
  BY Zenon
<1>1. TypeOK
  BY Constants, Zenon DEF Init, TypeOK
<1>2. \A n \in Node : ~ready[n] /\ ~conflict[n] /\ store[n] = NoSnapshot
  BY Zenon DEF Init
<1>3. OpenInv
  BY <1>2, Zenon DEF OpenInv
<1>4. StoreOrders
  BY <1>2, Zenon DEF StoreOrders, Init
<1>5. SagaOrders
  BY Constants, Zenon DEF SagaOrders, OrderedSaga, Init
<1>6. QED
  BY <1>1, <1>3, <1>4, <1>5, Zenon DEF AnyInv

\* The steps that change nothing but a handoff's locals.
LEMMA AnyLocal ==
    ASSUME AnyInv, NEW h \in Saga,
           \/ \E s \in Scope, t \in Node : BeginHandoff(h, s, t)
           \/ Prepared(h) \/ Abort(h) \/ BuildSnapshot(h)
           \/ Replicated(h) \/ Committed(h) \/ Fail(h)
    PROVE  AnyInv'
<1> USE DEF AnyInv
<1>0. saga[h] \in SagaState /\ late \in SUBSET Request /\ OrderedSaga(saga[h])
  BY Zenon DEF TypeOK, SagaOrders
<1>1. ASSUME NEW s \in Scope, NEW t \in Node, BeginHandoff(h, s, t) PROVE AnyInv'
  <2> DEFINE r == [pc |-> "prepare", rpc |-> "sent", scope |-> s,
                   source |-> terms[Chef][s].owner, target |-> t,
                   epoch |-> terms[Chef][s].epoch, snap |-> NoSnapshot]
  <2>1. r \in SagaState /\ OrderedSaga(r)
    <3>0. terms \in [Node -> [Scope -> Term]]
      BY Zenon DEF TypeOK
    <3>1. terms[Chef][s].owner \in Node /\ terms[Chef][s].epoch \in Nat
      BY <3>0, Zenon
    <3>2. NoSnapshot \in Snapshot
      BY Constants, Zenon
    <3>3. QED
      BY <1>1, <3>1, <3>2, Zenon DEF BeginHandoff, MayStart, SagaState, OrderedSaga
  <2>2. saga' = [saga EXCEPT ![h] = r] /\ UNCHANGED <<durable, up, registry, draft, published, late>>
    BY <1>1, Zenon DEF BeginHandoff
  <2> HIDE DEF r
  <2>3. QED
    BY <1>0, <2>1, <2>2, SagaStep, Zenon
<1>2. CASE Prepared(h)
  <2> DEFINE r == [saga[h] EXCEPT !.pc = "build", !.rpc = "none"]
  <2>1. r \in SagaState /\ OrderedSaga(r)
    BY <1>0, <1>2, Zenon DEF Prepared, SagaState, OrderedSaga
  <2>2. saga' = [saga EXCEPT ![h] = r] /\ UNCHANGED <<durable, up, registry, draft, published, late>>
    BY <1>2, Zenon DEF Prepared
  <2> HIDE DEF r
  <2>3. QED
    BY <1>0, <2>1, <2>2, SagaStep, Zenon
<1>3. CASE Replicated(h)
  <2> DEFINE c == IF saga[h].pc = "source" THEN "target" ELSE "commit"
             r == [saga[h] EXCEPT !.pc = c, !.rpc = "sent"]
  <2>1. r \in SagaState /\ r.pc = c /\ r.snap = saga[h].snap
    BY <1>0, Zenon DEF SagaState
  <2>2. OrderedSaga(r)
    BY <1>0, <2>1, <1>3 DEF OrderedSaga, Replicated
  <2>3. saga' = [saga EXCEPT ![h] = r] /\ UNCHANGED <<durable, up, registry, draft, published, late>>
    BY <1>3, Zenon DEF Replicated
  <2> HIDE DEF r
  <2>4. QED
    BY <1>0, <2>1, <2>2, <2>3, SagaStep, Zenon
<1>4. CASE BuildSnapshot(h)
  <2> DEFINE g == [revision |-> store[Chef].revision + 1,
                   terms |-> [store[Chef].terms EXCEPT ![saga[h].scope] =
                                [owner |-> saga[h].target, epoch |-> saga[h].epoch + 1]]]
             r == [saga[h] EXCEPT !.pc = "install", !.snap = g]
  <2>1. g \in Snapshot /\ g.revision > 0
    <3>1. store[Chef].revision \in Nat /\ store[Chef].terms \in [Scope -> Term]
      BY Zenon DEF TypeOK
    <3>2. [owner |-> saga[h].target, epoch |-> saga[h].epoch + 1] \in Term
      BY <1>0 DEF SagaState
    <3>3. [store[Chef].terms EXCEPT ![saga[h].scope] =
             [owner |-> saga[h].target, epoch |-> saga[h].epoch + 1]] \in [Scope -> Term]
      BY <3>1, <3>2, Zenon
    <3>4. QED
      BY <3>1, <3>3
  <2>2. saga' = [saga EXCEPT ![h] = r] /\ UNCHANGED <<durable, up, registry, draft, published, late>>
    BY <1>4, Zenon DEF BuildSnapshot
  <2> HIDE DEF g
  <2>3. r \in SagaState /\ r.pc = "install" /\ r.snap = g
    BY <1>0, <2>1, Zenon DEF SagaState
  <2> HIDE DEF r
  <2>4. OrderedSaga(r)
    BY <1>0, <1>4, <2>1, <2>3, Zenon DEF BuildSnapshot, OrderedSaga
  <2>5. QED
    BY <1>0, <2>2, <2>3, <2>4, SagaStep, Zenon
<1>5. CASE Abort(h) \/ Committed(h) \/ Fail(h)
  <2>1. saga' = [saga EXCEPT ![h] = IdleSaga] /\ UNCHANGED <<durable, up, registry, draft, published>>
    BY <1>5, Zenon DEF Abort, Committed, Fail
  <2>2. late' \in SUBSET Request
    BY <1>0, <1>5, AbandonedFacts, Zenon DEF Abort, Committed, Fail
  <2>3. OrderedSaga(IdleSaga) /\ IdleSaga \in SagaState
    BY Constants, Zenon DEF OrderedSaga
  <2>4. QED
    BY <2>1, <2>2, <2>3, SagaStep, Zenon
<1>6. QED
  BY <1>1, <1>2, <1>3, <1>4, <1>5, Zenon
\* The steps of a handoff in which a node runs a handler.
LEMMA AnyExecute ==
    ASSUME AnyInv, NEW h \in Saga,
           \/ ExecutePrepare(h) \/ InstallBuilt(h) \/ InstallRefused(h)
           \/ ExecuteReplicate(h) \/ ExecuteCommit(h)
    PROVE  AnyInv'
<1> USE DEF AnyInv
<1>0. /\ saga[h] \in SagaState /\ OrderedSaga(saga[h])
      /\ saga[h].pc # "idle" => up[Chef]
      /\ late \in SUBSET Request /\ published \in SUBSET Snapshot
      /\ saga[h].source \in Node /\ saga[h].target \in Node /\ saga[h].scope \in Scope
      /\ saga[h].epoch \in Nat /\ saga[h].epoch + 1 \in Nat /\ saga[h].snap \in Snapshot
      /\ Peer(h) \in Node
  <2>1. saga[h] \in SagaState /\ late \in SUBSET Request /\ published \in SUBSET Snapshot
    BY Zenon DEF TypeOK
  <2>2. OrderedSaga(saga[h])
    BY Zenon DEF SagaOrders
  <2>3. saga[h].pc # "idle" => up[Chef]
    BY <2>2, Zenon DEF OrderedSaga
  <2>4. /\ saga[h].source \in Node /\ saga[h].target \in Node /\ saga[h].scope \in Scope
        /\ saga[h].epoch \in Nat /\ saga[h].epoch + 1 \in Nat /\ saga[h].snap \in Snapshot
    BY <2>1 DEF SagaState
  <2>5. QED
    BY <2>1, <2>2, <2>3, <2>4, AbandonedFacts, Zenon
<1>1. CASE ExecutePrepare(h)
  <2> DEFINE v == IF MayRetire(saga[h].source, saga[h].scope, saga[h].epoch) THEN "ok" ELSE "refused"
             r == [saga[h] EXCEPT !.rpc = v]
  <2>1. /\ HandlePrepare(saga[h].source, saga[h].scope, saga[h].epoch)
        /\ saga' = [saga EXCEPT ![h] = r]
        /\ up' = up /\ draft' = draft /\ published' = published /\ late' = late
        /\ saga[h].pc = "prepare"
    BY <1>1, Zenon DEF ExecutePrepare, Waiting
  <2>2. NodeTypeOK' /\ OpenInv'
    BY <1>0, <2>1, PrepareOpen, Zenon
  <2>3. store' = store /\ conflict' = conflict
    BY <2>1, Zenon DEF HandlePrepare
  <2>4. StoreOrders'
    BY <2>1, <2>3, Zenon DEF StoreOrders
  <2>5. r \in SagaState /\ r.pc = "prepare"
    BY <1>0, <2>1, Zenon DEF SagaState
  <2> HIDE DEF r
  <2>6. QED
    BY <1>0, <2>1, <2>2, <2>4, <2>5, Assemble, Zenon
<1>2. CASE InstallBuilt(h)
  <2> DEFINE g == saga[h].snap
             c == IF saga[h].source \in {Chef, saga[h].target} THEN "target" ELSE "source"
             r == [saga[h] EXCEPT !.rpc = "sent", !.pc = c]
  <2>1. /\ InstallOutcome(Chef, g) \in {"installed", "already"}
        /\ HandleChefInstall(g)
        /\ saga' = [saga EXCEPT ![h] = r]
        /\ published' = published \cup {g}
        /\ up' = up /\ draft' = draft /\ late' = late
        /\ up[Chef] /\ g \in Snapshot /\ g.revision > 0
    BY <1>0, <1>2, Zenon DEF InstallBuilt, OrderedSaga
  <2>2. r \in SagaState /\ r.pc = c /\ r.snap = g
    BY <1>0, Zenon DEF SagaState
  <2> HIDE DEF g, r
  <2>3. NodeTypeOK' /\ OpenInv'
    BY <2>1, ChefInstallOpen, Zenon
  <2>4. StoreOrders'
    BY <2>1, ChefInstalls, Zenon
  <2>5. published' \in SUBSET Snapshot /\ r.snap \in published'
    BY <1>0, <2>1, <2>2, Zenon
  <2>6. QED
    BY <1>0, <2>1, <2>2, <2>3, <2>4, <2>5, Assemble, Zenon
<1>3. CASE InstallRefused(h)
  <2> DEFINE g == saga[h].snap
  <2>1. /\ InstallOutcome(Chef, g) \notin {"installed", "already"}
        /\ HandleChefInstall(g)
        /\ saga' = [saga EXCEPT ![h] = IdleSaga]
        /\ published' = published /\ up' = up /\ draft' = draft /\ late' = late
        /\ up[Chef] /\ g \in Snapshot /\ g.revision > 0
    BY <1>0, <1>3, Zenon DEF InstallRefused, OrderedSaga
  <2> HIDE DEF g
  <2>2. NodeTypeOK' /\ OpenInv'
    BY <2>1, ChefInstallOpen, Zenon
  <2>3. StoreOrders'
    BY <2>1, ChefInstalls, Zenon
  <2>4. QED
    BY <1>0, <2>1, <2>2, <2>3, Constants, Assemble, Zenon
<1>4. CASE ExecuteReplicate(h)
  <2> DEFINE g == saga[h].snap
             n == Peer(h)
             v == IF InstallOutcome(n, g) \in {"installed", "already"} THEN "ok" ELSE "refused"
             r == [saga[h] EXCEPT !.rpc = v]
  <2>1. /\ IF n = Chef THEN HandleChefInstall(g) ELSE HandleReplicate(n, g)
        /\ saga' = [saga EXCEPT ![h] = r]
        /\ published' = published /\ up' = up /\ draft' = draft /\ late' = late
        /\ up[n] /\ n \in Node /\ g \in published /\ g \in Snapshot /\ up[Chef]
    BY <1>0, <1>4, Zenon DEF ExecuteReplicate, Waiting, OrderedSaga
  <2>2. r \in SagaState /\ r.pc = saga[h].pc /\ r.snap = g /\ r.pc \in {"source", "target"}
    BY <1>0, <1>4, Zenon DEF ExecuteReplicate, Waiting, SagaState
  <2> HIDE DEF g, n, r
  <2>3. CASE n = Chef
    <3>1. NodeTypeOK' /\ OpenInv'
      BY <2>1, <2>3, ChefInstallOpen, Zenon
    <3>2. g.revision > 0
      BY <2>1, Zenon DEF StoreOrders
    <3>3. published' = IF InstallOutcome(Chef, g) \in {"installed", "already"}
                       THEN published \cup {g} ELSE published
      BY <2>1, Zenon
    <3>4. StoreOrders'
      BY <2>1, <2>3, <3>2, <3>3, ChefInstalls, Zenon
    <3>5. QED
      BY <1>0, <2>1, <2>2, <3>1, <3>4, Assemble, Zenon
  <2>4. CASE n # Chef
    <3>1. NodeTypeOK' /\ OpenInv'
      BY <2>1, <2>4, ReplicateOpen, Zenon
    <3>2. StoreOrders'
      BY <2>1, <2>4, PeerReplicates, Zenon
    <3>3. QED
      BY <1>0, <2>1, <2>2, <3>1, <3>2, Assemble, Zenon
  <2>5. QED
    BY <2>3, <2>4, Zenon
<1>5. CASE ExecuteCommit(h)
  <2> DEFINE n == saga[h].target
             s == saga[h].scope
             e == saga[h].epoch + 1
  <2>1. PICK v \in {"ok", "refused"} : saga' = [saga EXCEPT ![h] = [saga[h] EXCEPT !.rpc = v]]
    BY <1>5, Zenon DEF ExecuteCommit
  <2> DEFINE r == [saga[h] EXCEPT !.rpc = v]
  <2>2. r \in SagaState /\ r.pc = "commit"
    BY <1>0, <1>5, Zenon DEF ExecuteCommit, Waiting, SagaState
  <2>3. /\ IF n = Chef THEN HandleChefCommit(s, e) ELSE HandleCommit(n, s, e)
        /\ published' = published /\ up' = up /\ draft' = draft /\ late' = late
        /\ up[n] /\ up[Chef] /\ store' = store /\ conflict' = conflict
    BY <1>0, <1>5, Zenon DEF ExecuteCommit, Waiting, Peer, HandleCommit, HandleChefCommit
  <2>4. n \in Node /\ s \in Scope /\ e \in Nat
    BY <1>0, Zenon
  <2> HIDE DEF n, s, e, r
  <2>5. NodeTypeOK' /\ OpenInv'
    BY <2>3, <2>4, CommitOpen, ChefCommitOpen, Zenon
  <2>6. StoreOrders'
    BY <2>3, Zenon DEF StoreOrders
  <2>7. QED
    BY <1>0, <2>1, <2>2, <2>3, <2>5, <2>6, Assemble, Zenon DEF r
<1>6. QED
  BY <1>1, <1>2, <1>3, <1>4, <1>5, Zenon
\* The invariant after a step that leaves the handoffs alone.
LEMMA AssembleRest ==
    ASSUME AnyInv, NodeTypeOK', OpenInv', StoreOrders', up' \in [Node -> BOOLEAN],
           up[Chef] => up'[Chef], saga' = saga, late' \in SUBSET Request,
           draft' \in Snapshot, draft' # NoSnapshot => draft'.revision > 0 /\ up'[Chef],
           published' \in SUBSET Snapshot, published \subseteq published'
    PROVE  AnyInv'
<1> USE DEF AnyInv
<1>1. TypeOK'
  BY Zenon DEF TypeOK, NodeTypeOK
<1>2. SagaOrders'
  BY Zenon DEF SagaOrders, OrderedSaga
<1>3. QED
  BY <1>1, <1>2, Zenon

\* The steps outside handoffs.
LEMMA AnyRest ==
    ASSUME AnyInv,
           \/ \E S \in SUBSET Scope : DraftScopes(S) \/ BootChef(S)
           \/ InstallDraft
           \/ \E n \in Node, g \in published : Deliver(n, g)
           \/ \E m \in late : ExecuteLate(m)
           \/ \E n \in Node : BootMember(n)
    PROVE  AnyInv'
<1> USE DEF AnyInv
<1>0. /\ up \in [Node -> BOOLEAN] /\ late \in SUBSET Request
      /\ published \in SUBSET Snapshot /\ draft \in Snapshot
      /\ draft # NoSnapshot => draft.revision > 0 /\ up[Chef]
  BY Zenon DEF TypeOK, SagaOrders
<1>1. ASSUME NEW S \in SUBSET Scope PROVE Extended(S) \in Snapshot /\ Extended(S).revision > 0
  <2>1. store[Chef] \in Snapshot
    BY Zenon DEF TypeOK
  <2>2. [owner |-> Chef, epoch |-> 1] \in Term
    BY Zenon
  <2>3. QED
    BY <2>1, <2>2 DEF Extended
<1>2. ASSUME NEW S \in SUBSET Scope, DraftScopes(S) PROVE AnyInv'
  <2>1. /\ UNCHANGED <<store, conflict, overlay, up, terms, retired, ready, saga, published, late>>
        /\ draft' = Extended(S) /\ up[Chef]
    BY <1>2, Zenon DEF DraftScopes, MayStart, durable, registry
  <2>2. NodeTypeOK'
    BY <2>1, Zenon DEF TypeOK, NodeTypeOK
  <2>3. OpenInv' /\ StoreOrders'
    BY <2>1, Zenon DEF OpenInv, OpenAt, StoreOrders
  <2>4. QED
    BY <1>0, <1>1, <2>1, <2>2, <2>3, AssembleRest, Zenon
<1>3. CASE InstallDraft
  <2>1. /\ HandleChefInstall(draft) /\ draft.revision > 0 /\ up[Chef]
        /\ published' = IF InstallOutcome(Chef, draft) \in {"installed", "already"}
                        THEN published \cup {draft} ELSE published
        /\ draft' = NoSnapshot /\ up' = up /\ saga' = saga /\ late' = late
    BY <1>0, <1>3, Zenon DEF InstallDraft
  <2>2. NodeTypeOK' /\ OpenInv'
    BY <1>0, <2>1, ChefInstallOpen, Zenon
  <2>3. StoreOrders'
    BY <1>0, <2>1, ChefInstalls, Zenon
  <2>4. QED
    BY <1>0, <2>1, <2>2, <2>3, Constants, AssembleRest, Zenon
<1>4. ASSUME NEW n \in Node, NEW g \in published, Deliver(n, g) PROVE AnyInv'
  <2>1. /\ n # Chef /\ up[n] /\ HandleReplicate(n, g) /\ g \in Snapshot
        /\ UNCHANGED <<up, saga, draft, published, late>>
    BY <1>0, <1>4, Zenon DEF Deliver
  <2>2. NodeTypeOK' /\ OpenInv'
    BY <2>1, ReplicateOpen, Zenon
  <2>3. StoreOrders'
    BY <2>1, PeerReplicates, Zenon
  <2>4. QED
    BY <1>0, <2>1, <2>2, <2>3, AssembleRest, Zenon
<1>5. ASSUME NEW m \in late, ExecuteLate(m) PROVE AnyInv'
  <2>1. /\ m \in Request /\ m.node \in Node /\ m.scope \in Scope /\ m.epoch \in Nat
        /\ up[m.node] /\ late' \in SUBSET Request
        /\ UNCHANGED <<up, saga, draft, published>>
        /\ HandlePrepare(m.node, m.scope, m.epoch) \/ HandleCommit(m.node, m.scope, m.epoch)
    BY <1>0, <1>5, Zenon DEF ExecuteLate, Request
  <2>2. NodeTypeOK' /\ OpenInv'
    BY <2>1, PrepareOpen, CommitOpen, Zenon
  <2>3. store' = store /\ conflict' = conflict
    BY <2>1, Zenon DEF HandlePrepare, HandleCommit
  <2>4. StoreOrders'
    BY <2>1, <2>3, Zenon DEF StoreOrders
  <2>5. QED
    BY <1>0, <2>1, <2>2, <2>4, AssembleRest, Zenon
<1>6. ASSUME NEW S \in SUBSET Scope, BootChef(S) PROVE AnyInv'
  <2> DEFINE g == IF S # {} THEN Extended(S) ELSE store[Chef]
  <2>1. /\ ~up[Chef] /\ ~conflict[Chef]
        /\ store[Chef].revision = 0 => S # {}
        /\ store' = [store EXCEPT ![Chef] = g]
        /\ published' = published \cup {store'[Chef]}
        /\ up' = [up EXCEPT ![Chef] = TRUE]
        /\ conflict' = conflict /\ overlay' = overlay
        /\ RebuildRegistry(Chef)
        /\ UNCHANGED <<saga, draft, late>>
    BY <1>6, Zenon DEF BootChef
  <2>2a. store[Chef] \in Snapshot /\ store[Chef].revision \in Nat
    BY Zenon DEF TypeOK
  <2>2. g \in Snapshot /\ g.revision > 0
    <3>1. CASE S # {}
      BY <1>1, <3>1, Zenon
    <3>2. CASE S = {}
      BY <2>1, <2>2a, <3>2
    <3>3. QED
      BY <3>1, <3>2, Zenon
  <2>3. g = store[Chef] \/ g.revision > store[Chef].revision
    BY <2>2a DEF Extended
  <2> HIDE DEF g
  <2>4. /\ store' \in [Node -> Snapshot] /\ store'[Chef] = g
        /\ \A m \in Node \ {Chef} : store'[m] = store[m]
    BY <2>1, <2>2, Zenon DEF TypeOK
  <2>5. NodeTypeOK'
    BY <2>1, <2>4, RebuildFacts, Zenon DEF TypeOK, NodeTypeOK
  <2>6. OnlyAt(Chef)
    BY <2>1, <2>4, RebuildFacts, Zenon DEF OnlyAt
  <2>7. up' \in [Node -> BOOLEAN] /\ up'[Chef] /\ \A m \in Node \ {Chef} : up'[m] = up[m]
    BY <1>0, <2>1, Zenon
  <2>8. terms'[Chef] = store'[Chef].terms /\ retired'[Chef] = Overlaid(overlay'[Chef])
    BY <2>1, <2>4, RebuildFacts, Zenon
  <2>9. OpenAt(Chef)'
    BY <2>1, <2>7, <2>8, Zenon DEF OpenAt
  <2>10. OpenInv'
    BY <2>6, <2>7, <2>9, OthersOpen, Zenon
  <2>11. StoreOrders'
    <3>1. published' = published \cup {g}
      BY <2>1, <2>4, Zenon
    <3>2. \A p \in published : p.revision \in Nat
      BY <1>0, Zenon
    <3>3. store[Chef].revision \in Nat /\ g.revision \in Nat
      BY <2>2, Zenon DEF TypeOK
    <3>4. \A p \in published' : p.revision > 0 /\ p.revision <= store'[Chef].revision
      BY <2>2, <2>3, <2>4, <3>1, <3>2, <3>3 DEF StoreOrders
    <3>5. \A p \in published : p.revision = g.revision => p = g
      BY <2>2, <2>3, <3>2, <3>3, Constants DEF StoreOrders
    <3>6. \A p, q \in published' : p.revision = q.revision => p = q
      BY <3>1, <3>5, Zenon DEF StoreOrders
    <3>7. \A n \in Node : store'[n] \in published' \cup {NoSnapshot}
      BY <2>4, <3>1, Zenon DEF StoreOrders
    <3>8. \A n \in Node \ {Chef} : ~conflict'[n]
      BY <2>1, Zenon DEF StoreOrders
    <3>9. QED
      BY <3>4, <3>6, <3>7, <3>8, Zenon DEF StoreOrders
  <2>12. draft' = draft /\ saga' = saga /\ late' = late
    BY <2>1, Zenon
  <2>13. published' \in SUBSET Snapshot /\ published \subseteq published'
    BY <1>0, <2>1, <2>2, <2>4, Zenon
  <2>14. QED
    BY <1>0, <2>5, <2>7, <2>10, <2>11, <2>12, <2>13, AssembleRest, Zenon
<1>7. ASSUME NEW n \in Node, BootMember(n) PROVE AnyInv'
  <2>1. /\ n # Chef /\ ~up[n] /\ ~conflict[n]
        /\ up' = [up EXCEPT ![n] = TRUE]
        /\ UNCHANGED <<store, conflict, overlay, saga, draft, published, late>>
        /\ RebuildRegistry(n) \/ UNCHANGED <<terms, retired, ready>>
    BY <1>7, Zenon DEF BootMember, durable, registry
  <2>2. up' \in [Node -> BOOLEAN] /\ up'[n] /\ \A m \in Node \ {n} : up'[m] = up[m]
    BY <1>0, <2>1, Zenon
  <2>3. NodeTypeOK' /\ OnlyAt(n)
    BY <2>1, RebuildFacts, Zenon DEF TypeOK, NodeTypeOK, OnlyAt
  <2>4. ASSUME ready'[n] PROVE OpenAt(n)'
    <3>1. ~ready[n]
      BY <2>1, Zenon DEF OpenInv, OpenAt
    <3>2. RebuildRegistry(n)
      BY <2>1, <2>4, <3>1, Zenon
    <3>3. terms'[n] = store'[n].terms /\ retired'[n] = Overlaid(overlay'[n])
      BY <2>3, <3>2, RebuildFacts, Zenon DEF NodeTypeOK
    <3>4. QED
      BY <2>1, <2>2, <3>3, Zenon DEF OpenAt
  <2>5. OpenInv'
    BY <2>2, <2>3, <2>4, OthersOpen, Zenon
  <2>6. StoreOrders'
    BY <2>1, Zenon DEF StoreOrders
  <2>7. QED
    BY <1>0, <2>1, <2>2, <2>3, <2>5, <2>6, AssembleRest, Zenon
<1>8. QED
  BY <1>2, <1>3, <1>4, <1>5, <1>6, <1>7, Zenon

\* A crash closes the registry, and a crash of the chef ends every handoff.
LEMMA AnyCrash ==
    ASSUME AnyInv, NEW n \in Node, Crash(n)
    PROVE  AnyInv'
<1> USE DEF AnyInv
<1>1. /\ up' = [up EXCEPT ![n] = FALSE]
      /\ terms' = [terms EXCEPT ![n] = NoSnapshot.terms]
      /\ retired' = [retired EXCEPT ![n] = {}]
      /\ ready' = [ready EXCEPT ![n] = FALSE]
      /\ UNCHANGED <<store, conflict, overlay, published>>
  BY Zenon DEF Crash, durable
<1>2. NodeTypeOK' /\ up' \in [Node -> BOOLEAN]
  BY <1>1, Constants, Zenon DEF TypeOK, NodeTypeOK
<1>3. OnlyAt(n) /\ ~ready'[n] /\ \A m \in Node \ {n} : up'[m] = up[m]
  BY <1>1, Zenon DEF TypeOK, OnlyAt
<1>4. OpenInv'
  BY <1>3, OthersOpen, Zenon
<1>5. StoreOrders'
  BY <1>1, Zenon DEF StoreOrders
<1>6. CASE n = Chef
  <2>1. /\ saga' = [h \in Saga |-> IdleSaga] /\ draft' = NoSnapshot
        /\ late' = late \cup UNION {Abandoned(h) : h \in Saga}
    BY <1>6, Zenon DEF Crash
  <2>2. late' \in SUBSET Request
    <3>1. \A h \in Saga : Abandoned(h) \in SUBSET Request
      BY AbandonedFacts, Zenon
    <3>2. QED
      BY <2>1, <3>1 DEF TypeOK
  <2>3. TypeOK'
    BY <1>1, <1>2, <2>1, <2>2, Constants, Zenon DEF TypeOK, NodeTypeOK
  <2>4. SagaOrders'
    BY <2>1, Constants, Zenon DEF SagaOrders, OrderedSaga
  <2>5. QED
    BY <1>4, <1>5, <2>3, <2>4, Zenon
<1>7. CASE n # Chef
  <2>1. /\ saga' = [h \in Saga |-> IF saga[h].rpc = "sent" /\ Peer(h) = n
                                   THEN [saga[h] EXCEPT !.rpc = "refused"] ELSE saga[h]]
        /\ late' \subseteq late /\ draft' = draft
    BY <1>7, Zenon DEF Crash
  <2>2. ASSUME NEW h \in Saga
        PROVE  saga'[h] \in SagaState /\ saga'[h].pc = saga[h].pc /\ saga'[h].snap = saga[h].snap
    <3>1. saga[h] \in SagaState
      BY Zenon DEF TypeOK
    <3>2. saga'[h] = saga[h] \/ saga'[h] = [saga[h] EXCEPT !.rpc = "refused"]
      BY <2>1, Zenon
    <3>3. QED
      BY <3>1, <3>2, Zenon DEF SagaState
  <2>3. TypeOK'
    BY <1>1, <1>2, <2>1, <2>2, Zenon DEF TypeOK, NodeTypeOK
  <2>4. up'[Chef] = up[Chef]
    BY <1>3, <1>7, Zenon
  <2>5. SagaOrders'
    <3>1. ASSUME NEW h \in Saga PROVE OrderedSaga(saga[h])'
      <4>1. OrderedSaga(saga[h])
        BY Zenon DEF SagaOrders
      <4>2. QED
        BY <1>1, <2>2, <2>4, <4>1, Zenon DEF OrderedSaga
    <3>2. QED
      BY <2>1, <2>4, <3>1, Zenon DEF SagaOrders
  <2>6. QED
    BY <1>4, <1>5, <2>3, <2>5, Zenon
<1>8. QED
  BY <1>6, <1>7, Zenon

LEMMA AnyStep == AnyInv /\ [Next]_vars => AnyInv'
<1> SUFFICES ASSUME AnyInv, [Next]_vars PROVE AnyInv'
  BY Zenon
<1>1. CASE UNCHANGED vars
  <2>1. UNCHANGED <<store, conflict, overlay, up, terms, retired, ready, saga, draft,
                    published, late>>
    BY <1>1, Zenon DEF vars
  <2>2. TypeOK' /\ SagaOrders'
    BY <2>1, Zenon DEF AnyInv, TypeOK, SagaOrders, OrderedSaga
  <2>3. OpenInv' /\ StoreOrders'
    BY <2>1, Zenon DEF AnyInv, OpenInv, OpenAt, StoreOrders
  <2>4. QED
    BY <2>2, <2>3, Zenon DEF AnyInv
<1>2. ASSUME NEW h \in Saga, Progress(h) PROVE AnyInv'
  BY <1>2, AnyLocal, AnyExecute, Zenon DEF Progress
<1>3. ASSUME NEW h \in Saga, NEW s \in Scope, NEW t \in Node, BeginHandoff(h, s, t)
      PROVE  AnyInv'
  BY <1>3, AnyLocal, Zenon
<1>4. QED
  BY <1>1, <1>2, <1>3, AnyRest, AnyCrash, Zenon DEF Next

LEMMA AnyAlways == Spec => []AnyInv
  BY AnyInit, AnyStep, PTL DEF Spec

\* Whatever requests overlap, are lost or run late, the chef's revisions name
\* one snapshot in all stores, and no peer meets a conflict (run_handoff,
\* install_owner_snapshot).
THEOREM ChefOrdersRequests == Spec => [](TypeOK /\ RevisionNamesSnapshot)
<1>1. AnyInv => TypeOK /\ RevisionNamesSnapshot
  <2> SUFFICES ASSUME AnyInv PROVE TypeOK /\ RevisionNamesSnapshot
    BY Zenon
  <2>1. ASSUME NEW m \in Node, NEW n \in Node, store[m].revision = store[n].revision
        PROVE  store[m] = store[n]
    <3>1. store[m] \in published \cup {NoSnapshot} /\ store[n] \in published \cup {NoSnapshot}
      BY Zenon DEF AnyInv, StoreOrders
    <3>2. QED
      BY <2>1, <3>1, Constants DEF AnyInv, StoreOrders
  <2>2. QED
    BY <2>1, Zenon DEF AnyInv, StoreOrders, RevisionNamesSnapshot
<1>2. QED
  BY <1>1, AnyAlways, PTL

\* Whatever requests overlap, are lost or run late, an open registry shows what
\* its store holds, so a restart would give the node the same view
\* (rebuild_from_owner_snapshot, and the handlers that close or reopen).
THEOREM OpensOnStore == Spec => []OpenOnInstalled
<1>1. AnyInv => OpenOnInstalled
  BY Zenon DEF AnyInv, OpenInv, OpenAt, Overlaid, OpenOnInstalled
<1>2. QED
  BY <1>1, AnyAlways, PTL

-----------------------------------------------------------------------------
(* No store goes back.  The chef's check refuses an older epoch, but not a *)
(* snapshot that lacks a scope; that none is installed rests on what       *)
(* snapshots are made from.                                                *)

\* No epoch of p is past q's.
Below(p, q) == \A s \in Scope : p.terms[s].epoch <= q.terms[s].epoch

\* g is at most one revision past c, and then it has all the scopes of c.
MadeOn(g, c) ==
    /\ g.revision <= c.revision + 1
    /\ g.revision > c.revision => \A s \in Scope : c.terms[s].epoch > 0 => g.terms[s].epoch > 0

\* Published snapshots are ordered by their revisions, and what is about to be
\* installed was made from the installed one, or has been overtaken.
ChainInv ==
    /\ \A p, q \in published : p.revision <= q.revision => Below(p, q)
    /\ \A h \in Saga : saga[h].pc = "install" => MadeOn(saga[h].snap, store[Chef])
    /\ draft # NoSnapshot => MadeOn(draft, store[Chef])

\* A step that leaves the authority alone; it may make a snapshot from it.
AuthorityKept ==
    /\ store'[Chef] = store[Chef] /\ published' = published
    /\ \A h \in Saga : saga'[h].pc = "install" =>
         \/ saga[h].pc = "install" /\ saga'[h].snap = saga[h].snap
         \/ MadeOn(saga'[h].snap, store[Chef])
    /\ draft' \in {draft, NoSnapshot} \/ MadeOn(draft', store[Chef])

\* A step that installs g at the chef.
AuthorityMoves(g) ==
    /\ g.revision = store[Chef].revision + 1 /\ Below(store[Chef], g)
    /\ store'[Chef] = g /\ published' = published \cup {g}
    /\ \A h \in Saga : saga'[h].pc = "install" =>
         saga[h].pc = "install" /\ saga'[h].snap = saga[h].snap
    /\ draft' \in {draft, NoSnapshot}

\* A peer's store only takes a published snapshot of a higher revision.
PeersFollow ==
    \A n \in Node \ {Chef} :
        \/ store'[n] = store[n]
        \/ store'[n] \in published /\ store'[n].revision > store[n].revision

LEMMA ChainInit == Init => ChainInv
  BY Constants, Zenon DEF Init, ChainInv

LEMMA ChainKept ==
    ASSUME ChainInv, AuthorityKept
    PROVE  ChainInv'
<1>1. \A p, q \in published' : p.revision <= q.revision => Below(p, q)
  BY Zenon DEF ChainInv, AuthorityKept
<1>2. \A h \in Saga : saga'[h].pc = "install" => MadeOn(saga'[h].snap, store'[Chef])
  BY Zenon DEF ChainInv, AuthorityKept
<1>3. draft' # NoSnapshot => MadeOn(draft', store'[Chef])
  BY Zenon DEF ChainInv, AuthorityKept
<1>4. QED
  BY <1>1, <1>2, <1>3, Zenon DEF ChainInv, Below, MadeOn

LEMMA ChainMoves ==
    ASSUME AnyInv, ChainInv, NEW g \in Snapshot, AuthorityMoves(g)
    PROVE  ChainInv'
<1>1. /\ store[Chef] \in Snapshot /\ published \in SUBSET Snapshot
      /\ saga \in [Saga -> SagaState] /\ draft \in Snapshot
  BY Zenon DEF AnyInv, TypeOK
<1>2. ASSUME NEW p \in published PROVE p.revision < g.revision /\ Below(p, g)
  <2>1. p.revision > 0 /\ p.revision <= store[Chef].revision /\ p \in Snapshot
    BY <1>1, Zenon DEF AnyInv, StoreOrders
  <2>2. store[Chef] \in published
    BY <1>1, <2>1, Constants DEF AnyInv, StoreOrders
  <2>3. Below(p, store[Chef]) /\ Below(store[Chef], g)
    BY <2>1, <2>2, Zenon DEF ChainInv, AuthorityMoves
  <2>4. Below(p, g)
    <3> SUFFICES ASSUME NEW s \in Scope
                 PROVE  p.terms[s].epoch <= g.terms[s].epoch
      BY Zenon DEF Below
    <3>1. p.terms[s].epoch \in Nat /\ g.terms[s].epoch \in Nat /\ store[Chef].terms[s].epoch \in Nat
      BY <1>1, <2>1, Zenon
    <3>2. p.terms[s].epoch <= store[Chef].terms[s].epoch /\ store[Chef].terms[s].epoch <= g.terms[s].epoch
      BY <2>3, Zenon DEF Below
    <3>3. QED
      BY <3>1, <3>2
  <2>5. QED
    BY <1>1, <2>1, <2>4 DEF AuthorityMoves
<1>3. \A p, q \in published' : p.revision <= q.revision => Below(p, q)
  <2> SUFFICES ASSUME NEW p \in published', NEW q \in published', p.revision <= q.revision
               PROVE  Below(p, q)
    BY Zenon
  <2>1. published' = published \cup {g}
    BY Zenon DEF AuthorityMoves
  <2>2. CASE p = g /\ q = g
    BY <2>2 DEF Below
  <2>3. CASE p = g /\ q \in published
    <3>1. q.revision < g.revision /\ g.revision <= q.revision /\ q.revision \in Nat /\ g.revision \in Nat
      BY <1>1, <1>2, <2>3, Zenon
    <3>2. QED
      BY <3>1
  <2>4. QED
    BY <1>2, <2>1, <2>2, <2>3, Zenon DEF ChainInv
<1>4. ASSUME NEW x \in Snapshot, MadeOn(x, store[Chef]) PROVE MadeOn(x, g)
  BY <1>1, <1>4 DEF MadeOn, AuthorityMoves
<1>5. \A h \in Saga : saga'[h].pc = "install" => MadeOn(saga'[h].snap, store'[Chef])
  <2>1. \A h \in Saga : saga[h].snap \in Snapshot
    BY <1>1, Zenon DEF SagaState
  <2>2. QED
    BY <1>4, <2>1, Zenon DEF ChainInv, AuthorityMoves
<1>6. draft' # NoSnapshot => MadeOn(draft', store'[Chef])
  BY <1>1, <1>4, Zenon DEF ChainInv, AuthorityMoves
<1>7. QED
  BY <1>3, <1>5, <1>6, Zenon DEF ChainInv, Below, MadeOn

\* A snapshot that is made from the chef's own, installed.
LEMMA ChefTakes ==
    ASSUME AnyInv, NEW g \in Snapshot, g.revision > 0, MadeOn(g, store[Chef]),
           HandleChefInstall(g)
    PROVE  /\ \A n \in Node \ {Chef} : store'[n] = store[n]
           /\ InstallOutcome(Chef, g) = "already" => g \in published
           /\ IF InstallOutcome(Chef, g) = "installed"
              THEN /\ store'[Chef] = g
                   /\ g.revision = store[Chef].revision + 1 /\ Below(store[Chef], g)
              ELSE store'[Chef] = store[Chef]
<1>1. InstallSnapshot(Chef, g) /\ TypeOK /\ store[Chef] \in Snapshot
  BY Zenon DEF HandleChefInstall, AnyInv, TypeOK
<1>2. InstallOutcome(Chef, g) = "already" => g \in published
  <2>1. InstallOutcome(Chef, g) = "already" => g = store[Chef]
    BY <1>1, InstallFacts, Zenon
  <2>2. store[Chef] \in published \cup {NoSnapshot}
    BY Zenon DEF AnyInv, StoreOrders
  <2>3. QED
    BY <2>1, <2>2, Constants
<1>3. CASE InstallOutcome(Chef, g) = "installed"
  <2>1. store'[Chef] = g /\ g.revision > store[Chef].revision
    BY <1>1, <1>3, InstallFacts, Zenon
  <2>2. g.revision = store[Chef].revision + 1
    <3>1. g.revision \in Nat /\ store[Chef].revision \in Nat
      BY <1>1, Zenon DEF Snapshot
    <3>2. g.revision <= store[Chef].revision + 1
      BY Zenon DEF MadeOn
    <3>3. QED
      BY <2>1, <3>1, <3>2
  <2>3. ASSUME NEW s \in Scope PROVE store[Chef].terms[s].epoch <= g.terms[s].epoch
    <3>1. store[Chef].terms[s].epoch \in Nat /\ g.terms[s].epoch \in Nat
      BY <1>1, Zenon
    <3>2. store[Chef].terms[s].epoch > 0 => g.terms[s].epoch > 0
      BY <2>1, Zenon DEF MadeOn
    <3>3. ~(g.terms[s].epoch > 0 /\ g.terms[s].epoch < store[Chef].terms[s].epoch)
      BY <1>3 DEF InstallOutcome
    <3>4. QED
      BY <3>1, <3>2, <3>3
  <2>4. QED
    BY <1>1, <1>2, <1>3, <2>1, <2>2, <2>3, InstallFacts, Zenon DEF Below
<1>4. CASE InstallOutcome(Chef, g) # "installed"
  BY <1>1, <1>2, <1>4, InstallFacts, Zenon
<1>5. QED
  BY <1>3, <1>4, Zenon

\* What extend_owner_snapshot_for_agents makes is made from the installed one.
LEMMA ExtendedMade ==
    ASSUME AnyInv, NEW S \in SUBSET Scope, S \subseteq Missing
    PROVE  /\ Extended(S) \in Snapshot
           /\ Extended(S).revision = store[Chef].revision + 1
           /\ Below(store[Chef], Extended(S))
           /\ MadeOn(Extended(S), store[Chef])
<1>1. store[Chef] \in Snapshot
  BY Zenon DEF AnyInv, TypeOK
<1> DEFINE T == [s \in Scope |-> IF s \in S THEN [owner |-> Chef, epoch |-> 1]
                                 ELSE store[Chef].terms[s]]
<1>2. T \in [Scope -> Term]
  <2>1. [owner |-> Chef, epoch |-> 1] \in Term
    BY Zenon
  <2>2. QED
    BY <1>1, <2>1
<1>3. \A s \in Scope : T[s] = IF s \in S THEN [owner |-> Chef, epoch |-> 1]
                              ELSE store[Chef].terms[s]
  BY Zenon
<1>4. Extended(S) = [revision |-> store[Chef].revision + 1, terms |-> T]
  BY Zenon DEF Extended
<1> HIDE DEF T
<1>5. /\ Extended(S) \in Snapshot /\ Extended(S).revision = store[Chef].revision + 1
      /\ Extended(S).terms = T
  BY <1>1, <1>2, <1>4
<1>6. ASSUME NEW s \in Scope
      PROVE  /\ store[Chef].terms[s].epoch <= T[s].epoch
             /\ store[Chef].terms[s].epoch > 0 => T[s].epoch > 0
  <2>1. store[Chef].terms[s].epoch \in Nat
    BY <1>1, Zenon
  <2>2. CASE s \in S
    <3>1. store[Chef].terms[s].epoch = 0 /\ T[s].epoch = 1
      BY <1>3, <2>2 DEF Missing
    <3>2. QED
      BY <3>1
  <2>3. CASE s \notin S
    BY <1>3, <2>1, <2>3
  <2>4. QED
    BY <2>2, <2>3
<1>7. QED
  BY <1>1, <1>5, <1>6 DEF Below, MadeOn

\* The steps of one handoff.
LEMMA ChainProgress ==
    ASSUME AnyInv, ChainInv, NEW h \in Saga, Progress(h)
    PROVE  PeersFollow /\ (AuthorityKept \/ \E g \in Snapshot : AuthorityMoves(g))
<1>1. /\ TypeOK /\ store \in [Node -> Snapshot] /\ saga \in [Saga -> SagaState]
      /\ saga[h] \in SagaState /\ saga[h].snap \in Snapshot
  BY Zenon DEF AnyInv, TypeOK, SagaState
<1>2. ASSUME NEW r, saga' = [saga EXCEPT ![h] = r]
      PROVE  saga'[h] = r /\ \A k \in Saga \ {h} : saga'[k] = saga[k]
  BY <1>1, <1>2, Zenon
<1>3. CASE Prepared(h) \/ Abort(h) \/ Replicated(h) \/ Committed(h) \/ Fail(h)
  <2>1. UNCHANGED <<store, draft, published>>
    BY <1>3, Zenon DEF Prepared, Abort, Replicated, Committed, Fail, durable
  <2>2. \A k \in Saga \ {h} : saga'[k] = saga[k]
    BY <1>1, <1>3, Zenon DEF Prepared, Abort, Replicated, Committed, Fail
  <2>3. saga'[h].pc # "install"
    <3>1. CASE Prepared(h)
      <4>1. saga'[h] = [saga[h] EXCEPT !.pc = "build", !.rpc = "none"]
        BY <1>1, <3>1, Zenon DEF Prepared
      <4>2. saga'[h].pc = "build"
        BY <1>1, <4>1, Zenon DEF SagaState
      <4>3. QED
        BY <4>2
    <3>2. CASE Replicated(h)
      <4> DEFINE c == IF saga[h].pc = "source" THEN "target" ELSE "commit"
      <4>1. saga'[h] = [saga[h] EXCEPT !.rpc = "sent", !.pc = c]
        BY <1>1, <3>2, Zenon DEF Replicated
      <4>2. saga'[h].pc = c
        BY <1>1, <4>1, Zenon DEF SagaState
      <4>3. QED
        BY <4>2
    <3>3. CASE Abort(h) \/ Committed(h) \/ Fail(h)
      <4>1. saga'[h] = IdleSaga
        BY <1>1, <3>3, Zenon DEF Abort, Committed, Fail
      <4>2. QED
        BY <4>1, Constants
    <3>4. QED
      BY <1>3, <3>1, <3>2, <3>3, Zenon
  <2>4. QED
    BY <2>1, <2>2, <2>3, Zenon DEF PeersFollow, AuthorityKept
<1>4. CASE BuildSnapshot(h)
  <2> DEFINE T == [store[Chef].terms EXCEPT ![saga[h].scope] =
                     [owner |-> saga[h].target, epoch |-> saga[h].epoch + 1]]
             g == [revision |-> store[Chef].revision + 1, terms |-> T]
  <2>1. /\ UNCHANGED <<store, draft, published>>
        /\ saga' = [saga EXCEPT ![h] = [saga[h] EXCEPT !.pc = "install", !.snap = g]]
    BY <1>1, <1>4, Zenon DEF BuildSnapshot, durable
  <2>2. MadeOn(g, store[Chef])
    <3>1. /\ store[Chef].revision \in Nat /\ store[Chef].terms \in [Scope -> Term]
          /\ saga[h].epoch \in Nat
      BY <1>1, Zenon DEF SagaState
    <3>2. \A s \in Scope : store[Chef].terms[s].epoch > 0 => T[s].epoch > 0
      BY <3>1
    <3>3. QED
      BY <3>1, <3>2 DEF MadeOn
  <2>3. saga'[h].snap = g
    <3> HIDE DEF g
    <3>1. QED
      BY <1>1, <2>1 DEF SagaState
  <2> HIDE DEF g
  <2>4. \A k \in Saga \ {h} : saga'[k] = saga[k]
    BY <1>2, <2>1, Zenon
  <2>5. QED
    BY <2>1, <2>2, <2>3, <2>4, Zenon DEF PeersFollow, AuthorityKept
<1>5. CASE ExecutePrepare(h) \/ ExecuteCommit(h)
  <2>1. UNCHANGED <<store, draft, published>>
    BY <1>5, Zenon DEF ExecutePrepare, ExecuteCommit, HandlePrepare, HandleCommit, HandleChefCommit
  <2>2. \A k \in Saga \ {h} : saga'[k] = saga[k]
    BY <1>1, <1>5, Zenon DEF ExecutePrepare, ExecuteCommit
  <2>3. saga'[h].pc # "install"
    <3>1. PICK v : saga'[h] = [saga[h] EXCEPT !.rpc = v]
      BY <1>1, <1>5, Zenon DEF ExecutePrepare, ExecuteCommit
    <3>2. saga'[h].pc = saga[h].pc
      BY <1>1, <3>1, Zenon DEF SagaState
    <3>3. saga[h].pc \in {"prepare", "commit"}
      BY <1>5, Zenon DEF ExecutePrepare, ExecuteCommit, Waiting
    <3>4. QED
      BY <3>2, <3>3
  <2>4. QED
    BY <2>1, <2>2, <2>3, Zenon DEF PeersFollow, AuthorityKept
<1>6. CASE InstallBuilt(h) \/ InstallRefused(h)
  <2> DEFINE g == saga[h].snap
  <2>1. /\ saga[h].pc = "install" /\ HandleChefInstall(g) /\ draft' = draft
        /\ g.revision > 0 /\ MadeOn(g, store[Chef])
    BY <1>6, Zenon DEF InstallBuilt, InstallRefused, AnyInv, SagaOrders, OrderedSaga, ChainInv
  <2>2. \A k \in Saga \ {h} : saga'[k] = saga[k]
    BY <1>1, <1>6, Zenon DEF InstallBuilt, InstallRefused
  <2>3. saga'[h].pc # "install"
    <3>1. CASE InstallBuilt(h)
      <4> DEFINE c == IF saga[h].source \in {Chef, saga[h].target} THEN "target" ELSE "source"
      <4>1. saga'[h] = [saga[h] EXCEPT !.rpc = "sent", !.pc = c]
        BY <1>1, <3>1, Zenon DEF InstallBuilt
      <4>2. saga'[h].pc = c
        BY <1>1, <4>1, Zenon DEF SagaState
      <4>3. QED
        BY <4>2
    <3>2. CASE InstallRefused(h)
      <4>1. saga'[h] = IdleSaga
        BY <1>1, <3>2, Zenon DEF InstallRefused
      <4>2. QED
        BY <4>1, Constants
    <3>3. QED
      BY <1>6, <3>1, <3>2
  <2>4. published' = IF InstallOutcome(Chef, g) \in {"installed", "already"}
                     THEN published \cup {g} ELSE published
    BY <1>6 DEF InstallBuilt, InstallRefused
  <2>5. g \in Snapshot
    BY <1>1
  <2> HIDE DEF g
  <2>6. PeersFollow
    BY <2>1, <2>5, ChefTakes, Zenon DEF PeersFollow
  <2>7. CASE InstallOutcome(Chef, g) = "installed"
    <3>1. AuthorityMoves(g)
      BY <2>1, <2>2, <2>3, <2>4, <2>5, <2>7, ChefTakes, Zenon DEF AuthorityMoves
    <3>2. QED
      BY <2>5, <2>6, <3>1, Zenon
  <2>8. CASE InstallOutcome(Chef, g) # "installed"
    <3>1. store'[Chef] = store[Chef] /\ published' = published
      BY <2>1, <2>4, <2>5, <2>8, ChefTakes, Zenon
    <3>2. QED
      BY <2>1, <2>2, <2>3, <2>6, <3>1, Zenon DEF AuthorityKept
  <2>9. QED
    BY <2>7, <2>8, Zenon
<1>7. CASE ExecuteReplicate(h)
  <2> DEFINE g == saga[h].snap
  <2>1. /\ saga[h].pc \in {"source", "target"} /\ g \in published /\ Peer(h) \in Node
        /\ UNCHANGED <<draft, published>>
    BY <1>1, <1>7, AbandonedFacts, Zenon
    DEF ExecuteReplicate, Waiting, AnyInv, SagaOrders, OrderedSaga
  <2>2. \A k \in Saga \ {h} : saga'[k] = saga[k]
    BY <1>1, <1>7, Zenon DEF ExecuteReplicate
  <2>3. saga'[h].pc # "install"
    <3>1. saga'[h].pc = saga[h].pc
      BY <1>1, <1>7 DEF ExecuteReplicate, SagaState
    <3>2. QED
      BY <2>1, <3>1
  <2>4. PeersFollow /\ store'[Chef] = store[Chef]
    <3>1. CASE Peer(h) = Chef
      <4>1. HandleChefInstall(g)
        BY <1>7, <3>1, Zenon DEF ExecuteReplicate
      <4>2. g.revision > 0 /\ g.revision <= store[Chef].revision /\ g \in Snapshot
        BY <1>1, <2>1, Zenon DEF AnyInv, StoreOrders
      <4>3. MadeOn(g, store[Chef]) /\ g.revision # store[Chef].revision + 1
        BY <1>1, <4>2 DEF MadeOn
      <4> HIDE DEF g
      <4>4. QED
        BY <4>1, <4>2, <4>3, ChefTakes, Zenon DEF PeersFollow
    <3>2. CASE Peer(h) # Chef
      <4>1. InstallSnapshot(Peer(h), g) /\ g \in Snapshot
        BY <1>1, <1>7, <3>2, Zenon DEF ExecuteReplicate, HandleReplicate
      <4> HIDE DEF g
      <4>2. /\ \A m \in Node \ {Peer(h)} : store'[m] = store[m]
            /\ \/ store'[Peer(h)] = store[Peer(h)]
               \/ store'[Peer(h)] = g /\ g.revision > store[Peer(h)].revision
        BY <1>1, <2>1, <4>1, InstallFacts, Zenon
      <4>3. QED
        BY <2>1, <3>2, <4>2, Zenon DEF PeersFollow
    <3>3. QED
      BY <3>1, <3>2, Zenon
  <2>5. QED
    BY <2>1, <2>2, <2>3, <2>4, Zenon DEF AuthorityKept
<1>8. QED
  BY <1>3, <1>4, <1>5, <1>6, <1>7, Zenon DEF Progress

\* The steps outside of handoffs.
LEMMA ChainStep ==
    ASSUME AnyInv, ChainInv, [Next]_vars
    PROVE  PeersFollow /\ (AuthorityKept \/ \E g \in Snapshot : AuthorityMoves(g))
<1>1. /\ TypeOK /\ store \in [Node -> Snapshot] /\ saga \in [Saga -> SagaState]
      /\ draft \in Snapshot /\ published \in SUBSET Snapshot
  BY Zenon DEF AnyInv, TypeOK
<1>2. CASE UNCHANGED vars
  BY <1>2, Zenon DEF vars, PeersFollow, AuthorityKept
<1>3. ASSUME NEW h \in Saga, NEW s \in Scope, NEW t \in Node, BeginHandoff(h, s, t)
      PROVE  PeersFollow /\ AuthorityKept
  <2>1. UNCHANGED <<store, draft, published>>
    BY <1>3, Zenon DEF BeginHandoff, durable
  <2>2. saga'[h].pc = "prepare" /\ \A k \in Saga \ {h} : saga'[k] = saga[k]
    BY <1>1, <1>3, Zenon DEF BeginHandoff
  <2>3. saga'[h].pc # "install"
    BY <2>2
  <2>4. QED
    BY <2>1, <2>2, <2>3, Zenon DEF PeersFollow, AuthorityKept
<1>4. ASSUME NEW S \in SUBSET Scope, DraftScopes(S)
      PROVE  PeersFollow /\ AuthorityKept
  <2>1. UNCHANGED <<store, saga, published>> /\ draft' = Extended(S) /\ S \subseteq Missing
    BY <1>4, Zenon DEF DraftScopes, durable
  <2>2. MadeOn(draft', store[Chef])
    BY <2>1, ExtendedMade, Zenon
  <2>3. QED
    BY <2>1, <2>2, Zenon DEF PeersFollow, AuthorityKept
<1>5. CASE InstallDraft
  <2>1. /\ draft # NoSnapshot /\ HandleChefInstall(draft) /\ draft' = NoSnapshot /\ saga' = saga
        /\ draft.revision > 0 /\ MadeOn(draft, store[Chef])
        /\ published' = IF InstallOutcome(Chef, draft) \in {"installed", "already"}
                        THEN published \cup {draft} ELSE published
    BY <1>5, Zenon DEF InstallDraft, AnyInv, SagaOrders, ChainInv
  <2>2. PeersFollow
    BY <1>1, <2>1, ChefTakes, Zenon DEF PeersFollow
  <2>3. CASE InstallOutcome(Chef, draft) = "installed"
    <3>1. AuthorityMoves(draft)
      BY <1>1, <2>1, <2>3, ChefTakes, Zenon DEF AuthorityMoves
    <3>2. QED
      BY <1>1, <2>2, <3>1, Zenon
  <2>4. CASE InstallOutcome(Chef, draft) # "installed"
    <3>1. store'[Chef] = store[Chef] /\ published' = published
      BY <1>1, <2>1, <2>4, ChefTakes, Zenon
    <3>2. QED
      BY <2>1, <2>2, <3>1, Zenon DEF AuthorityKept
  <2>5. QED
    BY <2>3, <2>4, Zenon
<1>6. ASSUME NEW n \in Node, NEW g \in published, Deliver(n, g)
      PROVE  PeersFollow /\ AuthorityKept
  <2>1. /\ n # Chef /\ InstallSnapshot(n, g) /\ g \in Snapshot
        /\ UNCHANGED <<saga, draft, published>>
    BY <1>1, <1>6, Zenon DEF Deliver, HandleReplicate
  <2>2. /\ \A m \in Node \ {n} : store'[m] = store[m]
        /\ store'[n] = store[n] \/ (store'[n] = g /\ g.revision > store[n].revision)
    BY <1>1, <2>1, InstallFacts, Zenon
  <2>3. QED
    BY <2>1, <2>2, Zenon DEF PeersFollow, AuthorityKept
<1>7. ASSUME NEW m \in late, ExecuteLate(m)
      PROVE  PeersFollow /\ AuthorityKept
  <2>1. UNCHANGED <<store, saga, draft, published>>
    BY <1>7, Zenon DEF ExecuteLate, HandlePrepare, HandleCommit
  <2>2. QED
    BY <2>1, Zenon DEF PeersFollow, AuthorityKept
<1>8. ASSUME NEW S \in SUBSET Scope, BootChef(S)
      PROVE  PeersFollow /\ (AuthorityKept \/ \E g \in Snapshot : AuthorityMoves(g))
  <2>1. /\ S \subseteq Missing /\ UNCHANGED <<saga, draft>> /\ ~up[Chef]
        /\ store' = [store EXCEPT ![Chef] = IF S # {} THEN Extended(S) ELSE @]
        /\ published' = published \cup {store'[Chef]}
        /\ store[Chef].revision = 0 => World \in S
    BY <1>8, Zenon DEF BootChef
  <2>2. PeersFollow
    BY <1>1, <2>1, Zenon DEF PeersFollow
  <2>3. CASE S = {}
    <3>1. store'[Chef] = store[Chef] /\ store[Chef].revision # 0
      BY <1>1, <2>1, <2>3, Zenon
    <3>2. store[Chef] \in published
      BY <3>1, Constants DEF AnyInv, StoreOrders
    <3>3. published' = published
      BY <2>1, <3>1, <3>2, Zenon
    <3>4. QED
      BY <2>1, <2>2, <3>1, <3>3, Zenon DEF AuthorityKept
  <2>4. CASE S # {}
    <3>1. store'[Chef] = Extended(S) /\ published' = published \cup {Extended(S)}
      BY <1>1, <2>1, <2>4, Zenon
    <3>2. AuthorityMoves(Extended(S)) /\ Extended(S) \in Snapshot
      BY <2>1, <3>1, ExtendedMade, Zenon DEF AuthorityMoves
    <3>3. QED
      BY <2>2, <3>2, Zenon
  <2>5. QED
    BY <2>3, <2>4, Zenon
<1>9. ASSUME NEW n \in Node, BootMember(n)
      PROVE  PeersFollow /\ AuthorityKept
  <2>1. UNCHANGED <<store, saga, draft, published>>
    BY <1>9, Zenon DEF BootMember, durable
  <2>2. QED
    BY <2>1, Zenon DEF PeersFollow, AuthorityKept
<1>10. ASSUME NEW n \in Node, Crash(n)
       PROVE  PeersFollow /\ AuthorityKept
  <2>1. UNCHANGED <<store, published>> /\ draft' \in {draft, NoSnapshot}
    BY <1>10, Zenon DEF Crash, durable
  <2>2. ASSUME NEW h \in Saga, saga'[h].pc = "install"
        PROVE  saga[h].pc = "install" /\ saga'[h].snap = saga[h].snap
    <3>1. CASE n = Chef
      <4>1. saga'[h] = IdleSaga
        BY <1>10, <3>1, Zenon DEF Crash
      <4>2. QED
        BY <2>2, <4>1, Constants
    <3>2. CASE n # Chef
      <4>1. saga'[h] = saga[h] \/ saga'[h] = [saga[h] EXCEPT !.rpc = "refused"]
        BY <1>10, <3>2, Zenon DEF Crash
      <4>2. saga[h] \in SagaState
        BY <1>1, Zenon
      <4>3. saga'[h].pc = saga[h].pc /\ saga'[h].snap = saga[h].snap
        BY <4>1, <4>2, Zenon DEF SagaState
      <4>4. QED
        BY <2>2, <4>3, Zenon
    <3>3. QED
      BY <3>1, <3>2, Zenon
  <2>3. QED
    BY <2>1, <2>2, Zenon DEF PeersFollow, AuthorityKept
<1>11. QED
  BY <1>2, <1>3, <1>4, <1>5, <1>6, <1>7, <1>8, <1>9, <1>10, ChainProgress, Zenon DEF Next

\* A step takes no store back.
LEMMA StoresAdvance ==
    ASSUME AnyInv, ChainInv, [Next]_vars, NEW n \in Node
    PROVE  store'[n].revision >= store[n].revision /\ Below(store[n], store'[n])
<1>1. /\ store[n] \in Snapshot /\ published \in SUBSET Snapshot
      /\ store[n] \in published \cup {NoSnapshot}
  BY Zenon DEF AnyInv, TypeOK, StoreOrders
<1>2. CASE store'[n] = store[n]
  BY <1>1, <1>2 DEF Below
<1>3. CASE n # Chef /\ store'[n] \in published /\ store'[n].revision > store[n].revision
  <2>1. CASE store[n] = NoSnapshot
    BY <1>1, <1>3, <2>1, Constants DEF Below
  <2>2. CASE store[n] \in published
    <3>1. store[n].revision <= store'[n].revision
      BY <1>1, <1>3
    <3>2. QED
      BY <1>1, <1>3, <2>2, <3>1 DEF ChainInv
  <2>3. QED
    BY <1>1, <2>1, <2>2
<1>4. CASE n = Chef /\ \E g \in Snapshot : AuthorityMoves(g)
  BY <1>1, <1>4 DEF AuthorityMoves
<1>5. QED
  BY <1>2, <1>3, <1>4, ChainStep, Zenon DEF PeersFollow, AuthorityKept

\* Whatever requests overlap, are lost or run late, and whatever each of them
\* read before the others installed: no store goes back, in its revision or in
\* an epoch, and none loses a scope (install_owner_snapshot,
\* extend_owner_snapshot_for_agents, run_handoff).
THEOREM StoresNeverGoBack == Spec => AuthorityAdvances
<1>1. AnyInv /\ ChainInv /\ [Next]_vars => ChainInv'
  BY ChainStep, ChainKept, ChainMoves, Zenon
<1> DEFINE Advances ==
      \A n \in Node :
         /\ store'[n].revision >= store[n].revision
         /\ \A s \in Scope : store'[n].terms[s].epoch >= store[n].terms[s].epoch
<1>2. AnyInv /\ ChainInv /\ [Next]_vars => Advances
  <2> SUFFICES ASSUME AnyInv, ChainInv, [Next]_vars, NEW n \in Node
               PROVE  /\ store'[n].revision >= store[n].revision
                      /\ Below(store[n], store'[n])
    <3>1. QED
      BY Zenon DEF Below, AnyInv, TypeOK
  <2>1. QED
    BY StoresAdvance, Zenon
<1>3. QED
  BY <1>1, <1>2, ChainInit, AnyAlways, PTL DEF Spec, AuthorityAdvances

\* A running peer that has a snapshot has its registry open.
PeersOpen == \A n \in Node \ {Chef} : up[n] /\ store[n].revision > 0 => ready[n]

LEMMA PeersOpenStep ==
    ASSUME AnyInv, AnyInv', PeersOpen, [Next]_vars
    PROVE  PeersOpen'
<1> SUFFICES ASSUME NEW n \in Node \ {Chef}, up'[n], store'[n].revision > 0
             PROVE  ready'[n]
  BY Zenon DEF PeersOpen
<1>1. /\ TypeOK /\ store' \in [Node -> Snapshot] /\ ~conflict'[n]
      /\ up[n] /\ store[n].revision > 0 => ready[n]
  BY Zenon DEF AnyInv, TypeOK, StoreOrders, PeersOpen
<1>2. ASSUME NEW k \in Node, RebuildRegistry(k)
      PROVE  k = n \/ ready[n] => ready'[n]
  BY <1>1, <1>2, RebuildFacts, Zenon
\* Steps that leave the node's store alone.
<1>3. ASSUME up[n], store'[n] = store[n], ready' = ready \/ \E k \in Node : RebuildRegistry(k)
      PROVE  ready'[n]
  BY <1>1, <1>2, <1>3, Zenon
<1>4. ASSUME NEW k \in Node, NEW g \in Snapshot, HandleReplicate(k, g), up[n]
      PROVE  ready'[n]
  <2>1. InstallSnapshot(k, g)
    BY <1>4, Zenon DEF HandleReplicate
  <2>2. CASE k = n
    <3>1. InstallOutcome(n, g) # "conflict"
      BY <1>1, <2>1, <2>2, InstallFacts, Zenon
    <3>2. RebuildRegistry(n)
      BY <1>4, <2>2, <3>1, Zenon DEF HandleReplicate
    <3> QED
      BY <1>2, <3>2, Zenon
  <2>3. CASE k # n
    <3>1. store'[n] = store[n]
      BY <1>1, <2>1, <2>3, InstallFacts, Zenon
    <3>2. ready'[n] = ready[n]
      BY <1>1, <1>4, <2>3, RebuildFacts, CloseFacts, Zenon DEF HandleReplicate
    <3> QED
      BY <1>1, <1>4, <3>1, <3>2, Zenon
  <2> QED
    BY <2>2, <2>3, Zenon
<1>5. ASSUME NEW g \in Snapshot, HandleChefInstall(g), up[n]
      PROVE  ready'[n]
  <2>1. store'[n] = store[n]
    BY <1>1, <1>5, InstallFacts, Zenon DEF HandleChefInstall
  <2>2. ready'[n] = ready[n]
    BY <1>1, <1>5, RebuildFacts, CloseFacts, Zenon DEF HandleChefInstall
  <2> QED
    BY <1>1, <1>5, <2>1, <2>2, Zenon
<1>6. ASSUME NEW h \in Saga, Progress(h)
      PROVE  ready'[n]
  <2>1. saga[h].snap \in Snapshot /\ Peer(h) \in Node /\ saga[h].target \in Node
    BY <1>1, AbandonedFacts, Zenon DEF TypeOK, SagaState
  <2>2. CASE Prepared(h) \/ Abort(h) \/ BuildSnapshot(h) \/ Replicated(h) \/ Committed(h) \/ Fail(h)
    <3>1. UNCHANGED <<store, up, ready>>
      BY <2>2, Zenon
         DEF Prepared, Abort, BuildSnapshot, Replicated, Committed, Fail, durable, registry
    <3> QED
      BY <1>3, <3>1, Zenon
  <2>3. CASE ExecutePrepare(h) \/ ExecuteCommit(h)
    <3>1. UNCHANGED <<store, up>> /\ (ready' = ready \/ \E k \in Node : RebuildRegistry(k))
      BY <2>1, <2>3, Zenon
         DEF ExecutePrepare, ExecuteCommit, HandlePrepare, HandleCommit, HandleChefCommit
    <3> QED
      BY <1>3, <3>1, Zenon
  <2>4. CASE InstallBuilt(h) \/ InstallRefused(h)
    BY <1>5, <2>1, <2>4, Zenon DEF InstallBuilt, InstallRefused
  <2>5. CASE ExecuteReplicate(h)
    BY <1>4, <1>5, <2>1, <2>5, Zenon DEF ExecuteReplicate
  <2> QED
    BY <1>6, <2>2, <2>3, <2>4, <2>5, Zenon DEF Progress
<1>7. ASSUME NEW h \in Saga, NEW s \in Scope, NEW t \in Node, BeginHandoff(h, s, t)
      PROVE  ready'[n]
  BY <1>3, <1>7, Zenon DEF BeginHandoff, durable, registry
<1>8. ASSUME NEW S \in SUBSET Scope, DraftScopes(S)
      PROVE  ready'[n]
  BY <1>3, <1>8, Zenon DEF DraftScopes, durable, registry
<1>9. ASSUME NEW S \in SUBSET Scope, BootChef(S)
      PROVE  ready'[n]
  <2>1. up'[n] = up[n] /\ store'[n] = store[n] /\ RebuildRegistry(Chef)
    BY <1>1, <1>9, Zenon DEF BootChef, TypeOK
  <2> QED
    BY <1>3, <2>1, Zenon
<1>10. CASE InstallDraft
  BY <1>1, <1>5, <1>10, Zenon DEF InstallDraft, TypeOK
<1>11. ASSUME NEW k \in Node, NEW g \in published, Deliver(k, g)
       PROVE  ready'[n]
  BY <1>1, <1>4, <1>11, Zenon DEF Deliver, TypeOK
<1>12. ASSUME NEW m \in late, ExecuteLate(m)
       PROVE  ready'[n]
  <2>1. UNCHANGED <<store, up>> /\ (ready' = ready \/ RebuildRegistry(m.node)) /\ m.node \in Node
    BY <1>1, <1>12, Zenon DEF ExecuteLate, HandlePrepare, HandleCommit, TypeOK, Request
  <2> QED
    BY <1>3, <2>1, Zenon
<1>13. ASSUME NEW k \in Node, BootMember(k)
       PROVE  ready'[n]
  <2>1. CASE k = n
    <3>1. store' = store
      BY <1>13, Zenon DEF BootMember, durable
    <3>2. RebuildRegistry(n)
      BY <1>13, <2>1, <3>1, Zenon DEF BootMember
    <3> QED
      BY <1>2, <3>2, Zenon
  <2>2. CASE k # n
    <3>1. up'[n] = up[n] /\ store' = store /\ (ready' = ready \/ RebuildRegistry(k))
      BY <1>1, <1>13, <2>2, Zenon DEF BootMember, durable, registry, TypeOK
    <3> QED
      BY <1>3, <3>1, Zenon
  <2> QED
    BY <2>1, <2>2, Zenon
<1>14. ASSUME NEW k \in Node, Crash(k)
       PROVE  ready'[n]
  <2>1. k # n /\ up[n] /\ ready'[n] = ready[n] /\ store' = store
    BY <1>1, <1>14, Zenon DEF Crash, durable, TypeOK
  <2> QED
    BY <1>1, <2>1, Zenon
<1>15. CASE UNCHANGED vars
  BY <1>3, <1>15, Zenon DEF vars
<1> QED
  BY <1>6, <1>7, <1>8, <1>9, <1>10, <1>11, <1>12, <1>13, <1>14, <1>15, Zenon DEF Next

\* Whatever requests overlap, are refused or run late: after every handler the
\* write-readiness latch of a running peer that has a snapshot is open.  A stale
\* or repeated ReplicateOwnerSnapshot reopens it on what the peer holds, and only
\* a conflict, which a peer never meets, would leave it closed (owner_handler.rs,
\* the boot of a member).
THEOREM PeersStayOpen == Spec => []PeersOpen
<1>1. Init => PeersOpen
  BY Zenon DEF Init, PeersOpen
<1>2. AnyInv /\ AnyInv' /\ PeersOpen /\ [Next]_vars => PeersOpen'
  BY PeersOpenStep, Zenon
<1> QED
  BY <1>1, <1>2, AnyAlways, PTL DEF Spec

-----------------------------------------------------------------------------
(* What holds when the operator sends one ownership request at a time,     *)
(* also when requests run after their sender has given up: a late request  *)
(* moves retirements, but neither a store nor a request of the chef.       *)

\* g is the next revision after c; a term of it is c's or has a later epoch.
Follows(g, c) ==
    /\ g.revision = c.revision + 1
    /\ \A s \in Scope : g.terms[s] = c.terms[s] \/ g.terms[s].epoch > c.terms[s].epoch

\* What a handoff goes by, c being what the chef has installed.
AloneAt(r, c) ==
    /\ r.pc \in {"prepare", "build"} => r.epoch = c.terms[r.scope].epoch
    /\ r.pc = "install" => Follows(r.snap, c)
    /\ r.pc \in {"source", "target"} => r.snap = c

\* An epoch of a scope names one term.
EpochNames ==
    /\ \A p, q \in published, s \in Scope :
         p.terms[s].epoch = q.terms[s].epoch => p.terms[s] = q.terms[s]
    /\ \A p \in published, s \in Scope : p.terms[s].epoch = 0 => p.terms[s] = Unknown

\* One request at a time, each of which goes by what is still installed.
AloneInv ==
    /\ ~conflict[Chef]
    /\ up[Chef] => ready[Chef]
    /\ \A h, k \in Saga : saga[h].pc # "idle" /\ saga[k].pc # "idle" => h = k
    /\ \A h \in Saga : saga[h].pc # "idle" => draft = NoSnapshot
    /\ \A h \in Saga : AloneAt(saga[h], store[Chef])
    /\ draft # NoSnapshot => Follows(draft, store[Chef])
    /\ EpochNames

LEMMA AloneInit == Init => AloneInv
<1> SUFFICES ASSUME Init PROVE AloneInv
  OBVIOUS
<1>1. /\ \A h \in Saga : saga[h].pc = "idle"
      /\ draft = NoSnapshot /\ published = {} /\ ~conflict[Chef] /\ ~up[Chef]
  BY Constants, Zenon DEF Init
<1>2. \A h \in Saga : AloneAt(saga[h], store[Chef])
  BY <1>1 DEF AloneAt
<1>3. EpochNames
  BY <1>1 DEF EpochNames
<1> QED
  BY <1>1, <1>2, <1>3, Zenon DEF AloneInv

\* A step that leaves the authority alone and begins no request.
LEMMA AloneKept ==
    ASSUME AloneInv, store'[Chef] = store[Chef], published' = published,
           ~conflict'[Chef], up'[Chef] => ready'[Chef],
           draft' \in {draft, NoSnapshot},
           \A h \in Saga : saga'[h].pc # "idle" => saga[h].pc # "idle",
           \A h \in Saga : AloneAt(saga'[h], store[Chef])
    PROVE  AloneInv'
<1>1. EpochNames'
  BY Zenon DEF AloneInv, EpochNames
<1>2. \A h \in Saga : AloneAt(saga'[h], store'[Chef])
  BY Zenon
<1>3. draft' # NoSnapshot => Follows(draft', store'[Chef])
  BY Zenon DEF AloneInv
<1>4. /\ \A h, k \in Saga : saga'[h].pc # "idle" /\ saga'[k].pc # "idle" => h = k
      /\ \A h \in Saga : saga'[h].pc # "idle" => draft' = NoSnapshot
  BY Zenon DEF AloneInv
<1> QED
  BY <1>1, <1>2, <1>3, <1>4, Zenon DEF AloneInv, AloneAt, Follows

\* The epochs of a snapshot that follows are new, where it has another term.
LEMMA EpochsNew ==
    ASSUME AnyInv, ChainInv, EpochNames, NEW g \in Snapshot, Follows(g, store[Chef]),
           published' = published \cup {g}
    PROVE  EpochNames'
<1> DEFINE c == store[Chef]
<1>1. /\ c \in Snapshot /\ c \in published \cup {NoSnapshot} /\ published \in SUBSET Snapshot
  BY Zenon DEF AnyInv, TypeOK, StoreOrders
<1>2. \A s \in Scope : /\ c.terms[s].epoch \in Nat /\ g.terms[s].epoch \in Nat
                       /\ c.terms[s].epoch = 0 => c.terms[s] = Unknown
  <2> TAKE s \in Scope
  <2>1. c.terms[s].epoch \in Nat /\ g.terms[s].epoch \in Nat
    BY <1>1, Zenon
  <2>2. NoSnapshot.terms[s] = Unknown
    BY Zenon DEF NoSnapshot
  <2>3. c.terms[s].epoch = 0 => c.terms[s] = Unknown
    BY <1>1, <2>2, Zenon DEF EpochNames
  <2> QED
    BY <2>1, <2>3, Zenon
<1>3. \A p \in published, s \in Scope :
        /\ p.terms[s].epoch \in Nat /\ p.terms[s].epoch <= c.terms[s].epoch
        /\ p.terms[s].epoch = c.terms[s].epoch => p.terms[s] = c.terms[s]
  <2> SUFFICES ASSUME NEW p \in published, NEW s \in Scope
               PROVE  /\ p.terms[s].epoch \in Nat /\ p.terms[s].epoch <= c.terms[s].epoch
                      /\ p.terms[s].epoch = c.terms[s].epoch => p.terms[s] = c.terms[s]
    OBVIOUS
  <2>1. p \in Snapshot /\ p.revision > 0 /\ p.revision <= c.revision
    BY <1>1, Zenon DEF AnyInv, StoreOrders
  <2>2. c # NoSnapshot
    BY <1>1, <2>1, Constants
  <2>3. c \in published
    BY <1>1, <2>2, Zenon
  <2>4. Below(p, c)
    BY <2>1, <2>3, Zenon DEF ChainInv
  <2>5. p.terms[s].epoch \in Nat
    BY <2>1, Zenon
  <2> QED
    BY <2>3, <2>4, <2>5, Zenon DEF Below, EpochNames
<1>4. \A s \in Scope : g.terms[s] = c.terms[s] \/ g.terms[s].epoch > c.terms[s].epoch
  BY Zenon DEF Follows
<1> HIDE DEF c
<1>5. \A s \in Scope : g.terms[s].epoch = 0 => g.terms[s] = Unknown
  <2> TAKE s \in Scope
  <2>1. g.terms[s].epoch = 0 => ~(g.terms[s].epoch > c.terms[s].epoch)
    BY <1>2
  <2> QED
    BY <1>2, <1>4, <2>1, Zenon
<1>6. \A p \in published, s \in Scope :
        p.terms[s].epoch = g.terms[s].epoch => p.terms[s] = g.terms[s]
  <2> SUFFICES ASSUME NEW p \in published, NEW s \in Scope, p.terms[s].epoch = g.terms[s].epoch
               PROVE  p.terms[s] = g.terms[s]
    OBVIOUS
  <2>1. ~(g.terms[s].epoch > c.terms[s].epoch)
    BY <1>2, <1>3
  <2> QED
    BY <1>3, <1>4, <2>1, Zenon
<1>7. ASSUME NEW p \in published', NEW q \in published', NEW s \in Scope,
             p.terms[s].epoch = q.terms[s].epoch
      PROVE  p.terms[s] = q.terms[s]
  <2>1. p \in published \/ p = g
    OBVIOUS
  <2>2. q \in published \/ q = g
    OBVIOUS
  <2>3. p \in published /\ q \in published => p.terms[s] = q.terms[s]
    BY <1>7, Zenon DEF EpochNames
  <2>4. p \in published /\ q = g => p.terms[s] = q.terms[s]
    BY <1>6, <1>7
  <2>5. q \in published /\ p = g => p.terms[s] = q.terms[s]
    BY <1>6, <1>7
  <2> QED
    BY <2>1, <2>2, <2>3, <2>4, <2>5, Zenon
<1>8. ASSUME NEW p \in published', NEW s \in Scope, p.terms[s].epoch = 0
      PROVE  p.terms[s] = Unknown
  <2>1. p \in published \/ p = g
    OBVIOUS
  <2> QED
    <3>1. CASE p = g
      BY <1>5, <1>8, <3>1
    <3>2. CASE p \in published
      BY <1>8, <3>2, Zenon DEF EpochNames
    <3> QED
      BY <2>1, <3>1, <3>2
<1> QED
  BY <1>7, <1>8, Zenon DEF EpochNames

\* A step that installs a snapshot that follows, and ends or is the request for it.
LEMMA AloneMoves ==
    ASSUME AnyInv, ChainInv, AloneInv, NEW g \in Snapshot, Follows(g, store[Chef]),
           published' = published \cup {g},
           ~conflict'[Chef], ready'[Chef], draft' = NoSnapshot,
           \A h \in Saga : saga'[h].pc # "idle" => saga[h].pc # "idle",
           \A h \in Saga : AloneAt(saga'[h], store'[Chef])
    PROVE  AloneInv'
<1>1. EpochNames'
  BY EpochsNew, Zenon DEF AloneInv
<1>2. \A h, k \in Saga : saga'[h].pc # "idle" /\ saga'[k].pc # "idle" => h = k
  BY Zenon DEF AloneInv
<1> QED
  BY <1>1, <1>2, Zenon DEF AloneInv, AloneAt, Follows

\* Such a snapshot is installed, and the chef's registry opens on it.
LEMMA FollowsInstalls ==
    ASSUME AnyInv, ~conflict[Chef], NEW g \in Snapshot, Follows(g, store[Chef]), HandleChefInstall(g)
    PROVE  /\ InstallOutcome(Chef, g) = "installed"
           /\ store'[Chef] = g /\ ~conflict'[Chef] /\ ready'[Chef]
<1>1. TypeOK /\ InstallSnapshot(Chef, g) /\ store[Chef] \in Snapshot
  BY Zenon DEF AnyInv, TypeOK, HandleChefInstall
<1>2. store[Chef].revision \in Nat /\ g.revision = store[Chef].revision + 1
  BY <1>1, Zenon DEF Follows
<1>3. ~\E s \in Scope : g.terms[s].epoch > 0 /\ g.terms[s].epoch < store[Chef].terms[s].epoch
  <2> SUFFICES ASSUME NEW s \in Scope
               PROVE  ~(g.terms[s].epoch < store[Chef].terms[s].epoch)
    OBVIOUS
  <2>1. store[Chef].terms[s].epoch \in Nat /\ g.terms[s].epoch \in Nat
    BY <1>1, Zenon
  <2> QED
    BY <2>1 DEF Follows
<1>4. InstallOutcome(Chef, g) = "installed"
  BY <1>2, <1>3 DEF InstallOutcome
<1>5. store'[Chef] = g /\ ~conflict'[Chef] /\ store' \in [Node -> Snapshot]
  BY <1>1, <1>4, InstallFacts, Zenon
<1>6. RebuildRegistry(Chef)
  BY <1>4, Zenon DEF HandleChefInstall
<1> QED
  BY <1>1, <1>4, <1>5, <1>6, RebuildFacts, Zenon

\* A rebuild of any registry closes none.
LEMMA RebuildOpens ==
    ASSUME AnyInv, NEW n \in Node, RebuildRegistry(n), up[Chef] => ready[Chef]
    PROVE  up[Chef] => ready'[Chef]
  BY Zenon DEF AnyInv, TypeOK, RebuildRegistry

\* The steps of a handoff.
LEMMA AloneProgress ==
    ASSUME AnyInv, ChainInv, AloneInv, NEW h \in Saga, Progress(h)
    PROVE  AloneInv'
<1>1. /\ TypeOK /\ store \in [Node -> Snapshot] /\ saga \in [Saga -> SagaState]
      /\ saga[h] \in SagaState /\ saga[h].snap \in Snapshot
      /\ ~conflict[Chef] /\ (up[Chef] => ready[Chef])
      /\ AloneAt(saga[h], store[Chef])
  BY Zenon DEF AnyInv, TypeOK, SagaState, AloneInv
<1>2. ASSUME NEW r, saga' = [saga EXCEPT ![h] = r]
      PROVE  saga'[h] = r /\ \A k \in Saga \ {h} : saga'[k] = saga[k]
  BY <1>1, <1>2, Zenon
\* The handoff goes on or ends, and leaves the authority alone.
<1>3. ASSUME NEW r, saga' = [saga EXCEPT ![h] = r], saga[h].pc # "idle",
             AloneAt(r, store[Chef]),
             store'[Chef] = store[Chef], ~conflict'[Chef], up'[Chef] => ready'[Chef],
             UNCHANGED <<draft, published>>
      PROVE  AloneInv'
  <2>0. saga'[h] = r /\ \A k \in Saga \ {h} : saga'[k] = saga[k]
    BY <1>2, <1>3, Zenon
  <2>1. \A k \in Saga : AloneAt(saga'[k], store[Chef])
    <3> TAKE k \in Saga
    <3>1. AloneAt(saga[k], store[Chef])
      BY Zenon DEF AloneInv
    <3>2. CASE k = h
      BY <1>3, <2>0, <3>2
    <3>3. CASE k # h
      BY <2>0, <3>1, <3>3
    <3> QED
      BY <3>2, <3>3
  <2>2. \A k \in Saga : saga'[k].pc # "idle" => saga[k].pc # "idle"
    BY <1>3, <2>0, Zenon
  <2> QED
    BY <1>3, <2>1, <2>2, AloneKept, Zenon
<1>4. AloneAt(IdleSaga, store[Chef])
  BY Constants DEF AloneAt
<1>5. CASE Abort(h) \/ Committed(h) \/ Fail(h)
  <2>1. /\ saga' = [saga EXCEPT ![h] = IdleSaga] /\ saga[h].pc # "idle"
        /\ UNCHANGED <<durable, up, registry, draft, published>>
    BY <1>5 DEF Abort, Committed, Fail
  <2> QED
    BY <1>1, <1>3, <1>4, <2>1, Zenon DEF durable, registry
<1>6. CASE Prepared(h)
  <2> DEFINE r == [saga[h] EXCEPT !.pc = "build", !.rpc = "none"]
  <2>1. /\ saga' = [saga EXCEPT ![h] = r] /\ saga[h].pc = "prepare"
        /\ UNCHANGED <<durable, up, registry, draft, published>>
    BY <1>1, <1>6, Zenon DEF Prepared
  <2>2. r.pc = "build" /\ r.epoch = saga[h].epoch /\ r.scope = saga[h].scope
    BY <1>1, Zenon DEF SagaState
  <2> HIDE DEF r
  <2>3. AloneAt(r, store[Chef]) /\ saga[h].pc # "idle"
    BY <1>1, <2>1, <2>2 DEF AloneAt
  <2> QED
    BY <1>1, <1>3, <2>1, <2>3, Zenon DEF durable, registry
<1>7. CASE Replicated(h)
  <2> DEFINE p == IF saga[h].pc = "source" THEN "target" ELSE "commit"
             r == [saga[h] EXCEPT !.rpc = "sent", !.pc = p]
  <2>1. /\ saga' = [saga EXCEPT ![h] = r] /\ saga[h].pc \in {"source", "target"}
        /\ UNCHANGED <<durable, up, registry, draft, published>>
    BY <1>1, <1>7, Zenon DEF Replicated
  <2>2. r.pc = p /\ r.snap = saga[h].snap
    BY <1>1, Zenon DEF SagaState
  <2> HIDE DEF r
  <2>3. AloneAt(r, store[Chef]) /\ saga[h].pc # "idle"
    BY <1>1, <2>1, <2>2 DEF AloneAt
  <2> QED
    BY <1>1, <1>3, <2>1, <2>3, Zenon DEF durable, registry
<1>8. CASE BuildSnapshot(h)
  <2> DEFINE c == store[Chef]
             T == [c.terms EXCEPT ![saga[h].scope] =
                     [owner |-> saga[h].target, epoch |-> saga[h].epoch + 1]]
             g == [revision |-> c.revision + 1, terms |-> T]
             r == [saga[h] EXCEPT !.pc = "install", !.snap = g]
  <2>1. /\ saga' = [saga EXCEPT ![h] = r] /\ saga[h].pc = "build"
        /\ UNCHANGED <<durable, up, registry, draft, published>>
    BY <1>1, <1>8, Zenon DEF BuildSnapshot
  <2>2. saga[h].epoch = c.terms[saga[h].scope].epoch
    BY <1>1, <2>1, Zenon DEF AloneAt
  <2>3. c.terms \in [Scope -> Term] /\ saga[h].scope \in Scope /\ saga[h].epoch \in Nat
    BY <1>1, Zenon DEF SagaState
  <2>4. ASSUME NEW s \in Scope
        PROVE  T[s] = c.terms[s] \/ T[s].epoch > c.terms[s].epoch
    <3>1. CASE s = saga[h].scope
      BY <2>2, <2>3, <3>1
    <3>2. CASE s # saga[h].scope
      BY <2>3, <3>2
    <3> QED
      BY <3>1, <3>2, SMTT(20)
  <2> HIDE DEF T
  <2>5. Follows(g, c)
    BY <2>4, Zenon DEF Follows
  <2> HIDE DEF g, c
  <2>6. r.pc = "install" /\ r.snap = g
    BY <1>1 DEF SagaState
  <2> HIDE DEF r
  <2>7. AloneAt(r, store[Chef]) /\ saga[h].pc # "idle"
    BY <2>1, <2>5, <2>6 DEF AloneAt, c
  <2> QED
    BY <1>1, <1>3, <2>1, <2>7, Zenon DEF durable, registry
<1>9. CASE ExecutePrepare(h) \/ ExecuteCommit(h)
  <2>1. PICK v : saga' = [saga EXCEPT ![h] = [saga[h] EXCEPT !.rpc = v]]
    BY <1>1, <1>9, Zenon DEF ExecutePrepare, ExecuteCommit
  <2> DEFINE r == [saga[h] EXCEPT !.rpc = v]
  <2>2. /\ r.pc = saga[h].pc /\ r.snap = saga[h].snap
        /\ r.epoch = saga[h].epoch /\ r.scope = saga[h].scope
    BY <1>1, Zenon DEF SagaState
  <2>3. saga[h].pc \in {"prepare", "commit"} /\ UNCHANGED <<store, conflict, up, draft, published>>
    BY <1>9, Zenon DEF ExecutePrepare, ExecuteCommit, Waiting, HandlePrepare, HandleCommit, HandleChefCommit
  <2> HIDE DEF r
  <2>4. AloneAt(r, store[Chef]) /\ saga[h].pc # "idle"
    BY <1>1, <2>2, <2>3 DEF AloneAt
  <2>5. up[Chef] => ready'[Chef]
    <3>1. CASE ready' = ready
      BY <1>1, <3>1, Zenon
    <3>2. CASE \E n \in Node : RebuildRegistry(n)
      BY <1>1, <3>2, RebuildOpens, Zenon
    <3>3. saga[h].target \in Node
      BY <1>1, Zenon DEF SagaState
    <3> QED
      BY <1>9, <3>1, <3>2, <3>3, Zenon
         DEF ExecutePrepare, ExecuteCommit, HandlePrepare, HandleCommit, HandleChefCommit
  <2> QED
    BY <1>1, <1>3, <2>1, <2>3, <2>4, <2>5, Zenon DEF r
<1>10. CASE ExecuteReplicate(h)
  <2> DEFINE g == saga[h].snap
             v == IF InstallOutcome(Peer(h), g) \in {"installed", "already"} THEN "ok" ELSE "refused"
             r == [saga[h] EXCEPT !.rpc = v]
  <2>1. /\ saga' = [saga EXCEPT ![h] = r]
        /\ saga[h].pc \in {"source", "target"} /\ UNCHANGED <<up, draft, published>>
        /\ Peer(h) \in Node
    BY <1>1, <1>10, AbandonedFacts, Zenon DEF ExecuteReplicate, Waiting
  <2>2. r.pc = saga[h].pc /\ r.snap = saga[h].snap
    BY <1>1, Zenon DEF SagaState
  <2> HIDE DEF r
  <2>3. AloneAt(r, store[Chef]) /\ saga[h].pc # "idle" /\ g = store[Chef]
    BY <1>1, <2>1, <2>2, Zenon DEF AloneAt
  <2> HIDE DEF g
  <2>4. store'[Chef] = store[Chef] /\ ~conflict'[Chef] /\ (up[Chef] => ready'[Chef])
    <3>1. CASE Peer(h) = Chef
      <4>1. HandleChefInstall(g) /\ InstallSnapshot(Chef, g)
        BY <1>10, <3>1, Zenon DEF ExecuteReplicate, HandleChefInstall, g
      <4>2. InstallOutcome(Chef, g) = "already"
        <5>1. g.revision = store[Chef].revision /\ store[Chef].revision \in Nat
          BY <1>1, <2>3
        <5>2. ~(g.revision < store[Chef].revision)
          BY <5>1
        <5> QED
          BY <1>1, <2>3, <5>1, <5>2, Zenon DEF InstallOutcome
      <4>3. RebuildRegistry(Chef)
        BY <4>1, <4>2, Zenon DEF HandleChefInstall
      <4>4. g \in Snapshot
        BY <1>1 DEF g
      <4> QED
        BY <1>1, <4>1, <4>2, <4>3, <4>4, InstallFacts, RebuildOpens, Zenon
    <3>2. CASE Peer(h) # Chef
      <4>1. HandleReplicate(Peer(h), g) /\ InstallSnapshot(Peer(h), g) /\ g \in Snapshot
        BY <1>1, <1>10, <3>2, Zenon DEF ExecuteReplicate, HandleReplicate, g
      <4>2. RebuildRegistry(Peer(h)) \/ CloseReadiness(Peer(h))
        BY <4>1, Zenon DEF HandleReplicate
      <4>3. ready'[Chef] = ready[Chef]
        BY <1>1, <2>1, <3>2, <4>2, Zenon DEF RebuildRegistry, CloseReadiness, TypeOK
      <4> QED
        BY <1>1, <2>1, <3>2, <4>1, <4>3, InstallFacts, Zenon
    <3> QED
      BY <3>1, <3>2, Zenon
  <2> QED
    BY <1>3, <2>1, <2>3, <2>4, Zenon
<1>11. CASE InstallBuilt(h) \/ InstallRefused(h)
  <2> DEFINE g == saga[h].snap
  <2>1. saga[h].pc = "install" /\ HandleChefInstall(g) /\ UNCHANGED <<up, draft>>
    BY <1>11, Zenon DEF InstallBuilt, InstallRefused
  <2>2. Follows(g, store[Chef])
    BY <1>1, <2>1, Zenon DEF AloneAt
  <2>3. /\ InstallOutcome(Chef, g) = "installed"
        /\ store'[Chef] = g /\ ~conflict'[Chef] /\ ready'[Chef]
    BY <1>1, <2>1, <2>2, FollowsInstalls, Zenon
  <2>4. InstallBuilt(h)
    BY <1>11, <2>3 DEF InstallRefused
  <2> DEFINE p == IF saga[h].source \in {Chef, saga[h].target} THEN "target" ELSE "source"
             r == [saga[h] EXCEPT !.rpc = "sent", !.pc = p]
  <2>5. saga' = [saga EXCEPT ![h] = r] /\ published' = published \cup {g}
    BY <1>1, <2>4, Zenon DEF InstallBuilt
  <2>6. r.pc = p /\ r.snap = g
    BY <1>1, Zenon DEF SagaState
  <2>7. saga'[h] = r /\ \A k \in Saga \ {h} : saga'[k] = saga[k]
    BY <1>2, <2>5, Zenon
  <2>8. \A k \in Saga \ {h} : saga[k].pc = "idle"
    BY <2>1 DEF AloneInv
  <2> HIDE DEF r, g
  <2>9. AloneAt(r, store'[Chef])
    BY <2>3, <2>6 DEF AloneAt
  <2>10. \A k \in Saga : AloneAt(saga'[k], store'[Chef])
    <3> TAKE k \in Saga
    <3>1. CASE k = h
      BY <2>7, <2>9, <3>1, Zenon
    <3>2. CASE k # h
      BY <2>7, <2>8, <3>2 DEF AloneAt
    <3> QED
      BY <3>1, <3>2
  <2>11. \A k \in Saga : saga'[k].pc # "idle" => saga[k].pc # "idle"
    BY <2>1, <2>7
  <2>12. draft' = NoSnapshot /\ g \in Snapshot
    BY <1>1, <2>1 DEF AloneInv, g
  <2> QED
    BY <2>2, <2>3, <2>5, <2>10, <2>11, <2>12, AloneMoves, Zenon
<1> QED
  BY <1>5, <1>6, <1>7, <1>8, <1>9, <1>10, <1>11, Zenon DEF Progress

\* All steps.
LEMMA AloneStep ==
    ASSUME Serial, AnyInv, ChainInv, AloneInv, [Next]_vars
    PROVE  AloneInv'
<1>1. /\ TypeOK /\ store \in [Node -> Snapshot] /\ saga \in [Saga -> SagaState]
      /\ ~conflict[Chef] /\ (up[Chef] => ready[Chef])
      /\ \A k \in Saga : AloneAt(saga[k], store[Chef])
  BY Zenon DEF AnyInv, TypeOK, AloneInv
<1>2. CASE UNCHANGED vars
  BY <1>1, <1>2, AloneKept, Zenon DEF vars
<1>3. ASSUME NEW h \in Saga, NEW s \in Scope, NEW t \in Node, BeginHandoff(h, s, t)
      PROVE  AloneInv'
  <2> DEFINE r == [pc |-> "prepare", rpc |-> "sent", scope |-> s,
                   source |-> terms[Chef][s].owner, target |-> t,
                   epoch |-> terms[Chef][s].epoch, snap |-> NoSnapshot]
  <2>1. /\ saga' = [saga EXCEPT ![h] = r]
        /\ UNCHANGED <<store, conflict, up, ready, draft, published>>
        /\ up[Chef] /\ draft = NoSnapshot /\ \A k \in Saga : saga[k].pc = "idle"
    BY <1>3, Zenon DEF BeginHandoff, MayStart, Busy, durable, registry
  <2>2. terms[Chef] = store[Chef].terms
    BY <1>1, <2>1, Zenon DEF AnyInv, OpenInv, OpenAt
  <2>3. AloneAt(r, store[Chef])
    BY <2>2 DEF AloneAt
  <2> HIDE DEF r
  <2>4. saga'[h] = r /\ \A k \in Saga \ {h} : saga'[k] = saga[k]
    BY <1>1, <2>1, Zenon
  <2>5. \A k \in Saga : AloneAt(saga'[k], store'[Chef])
    BY <1>1, <2>1, <2>3, <2>4, Zenon
  <2>6. \A j, k \in Saga : saga'[j].pc # "idle" /\ saga'[k].pc # "idle" => j = k
    BY <2>1, <2>4, Zenon
  <2>7. EpochNames'
    BY <2>1, Zenon DEF AloneInv, EpochNames
  <2> QED
    BY <1>1, <2>1, <2>5, <2>6, <2>7, Zenon DEF AloneInv, AloneAt, Follows
<1>4. ASSUME NEW S \in SUBSET Scope, S \subseteq Missing
      PROVE  Extended(S) \in Snapshot /\ Follows(Extended(S), store[Chef])
  <2>1. /\ Extended(S) \in Snapshot /\ Extended(S).revision = store[Chef].revision + 1
    BY <1>4, ExtendedMade, Zenon
  <2>2. ASSUME NEW s \in Scope
        PROVE  \/ Extended(S).terms[s] = store[Chef].terms[s]
               \/ Extended(S).terms[s].epoch > store[Chef].terms[s].epoch
    <3>1. Extended(S).terms[s] = IF s \in S THEN [owner |-> Chef, epoch |-> 1]
                                 ELSE store[Chef].terms[s]
      BY DEF Extended
    <3>2. CASE s \in S
      <4>1. store[Chef].terms[s].epoch = 0
        BY <1>4, <3>2 DEF Missing
      <4> QED
        BY <3>1, <3>2, <4>1
    <3> QED
      BY <3>1, <3>2
  <2> QED
    BY <2>1, <2>2, Zenon DEF Follows
<1>5. ASSUME NEW S \in SUBSET Scope, DraftScopes(S)
      PROVE  AloneInv'
  <2>1. /\ draft' = Extended(S) /\ S \subseteq Missing
        /\ UNCHANGED <<store, conflict, up, ready, saga, published>>
        /\ \A k \in Saga : saga[k].pc = "idle"
    BY <1>5, Zenon DEF DraftScopes, MayStart, Busy, durable, registry
  <2>2. Follows(draft', store'[Chef])
    BY <1>4, <2>1, Zenon
  <2>3. EpochNames'
    BY <2>1, Zenon DEF AloneInv, EpochNames
  <2> QED
    BY <1>1, <2>1, <2>2, <2>3, Zenon DEF AloneInv, AloneAt, Follows
<1>6. CASE InstallDraft
  <2>1. /\ draft # NoSnapshot /\ HandleChefInstall(draft) /\ draft' = NoSnapshot /\ saga' = saga
        /\ draft \in Snapshot /\ Follows(draft, store[Chef])
    BY <1>1, <1>6, Zenon DEF InstallDraft, AloneInv, TypeOK
  <2>2. /\ InstallOutcome(Chef, draft) = "installed"
        /\ store'[Chef] = draft /\ ~conflict'[Chef] /\ ready'[Chef]
    BY <1>1, <2>1, FollowsInstalls, Zenon
  <2>3. published' = published \cup {draft}
    BY <1>6, <2>2 DEF InstallDraft
  <2>4. \A k \in Saga : saga[k].pc = "idle"
    BY <2>1, Zenon DEF AloneInv
  <2>5. \A k \in Saga : AloneAt(saga'[k], store'[Chef])
    BY <2>1, <2>4 DEF AloneAt
  <2> QED
    BY <2>1, <2>2, <2>3, <2>5, AloneMoves, Zenon
<1>7. ASSUME NEW n \in Node, NEW g \in published, Deliver(n, g)
      PROVE  AloneInv'
  <2>1. /\ n # Chef /\ InstallSnapshot(n, g) /\ g \in Snapshot
        /\ RebuildRegistry(n) \/ CloseReadiness(n)
        /\ UNCHANGED <<up, saga, draft, published>>
    BY <1>1, <1>7, Zenon DEF Deliver, HandleReplicate, TypeOK
  <2>2. store'[Chef] = store[Chef] /\ conflict'[Chef] = conflict[Chef]
    BY <1>1, <2>1, InstallFacts, Zenon
  <2>3. ready'[Chef] = ready[Chef]
    BY <1>1, <2>1, Zenon DEF RebuildRegistry, CloseReadiness, TypeOK
  <2> QED
    BY <1>1, <2>1, <2>2, <2>3, AloneKept, Zenon
<1>8. ASSUME NEW m \in late, ExecuteLate(m)
      PROVE  AloneInv'
  <2>1. UNCHANGED <<store, conflict, up, saga, draft, published>> /\ m.node \in Node
    BY <1>1, <1>8, Zenon DEF ExecuteLate, HandlePrepare, HandleCommit, TypeOK, Request
  <2>2. ready' = ready \/ RebuildRegistry(m.node)
    BY <1>8, Zenon DEF ExecuteLate, HandlePrepare, HandleCommit
  <2>3. up[Chef] => ready'[Chef]
    BY <1>1, <2>1, <2>2, RebuildOpens, Zenon
  <2> QED
    BY <1>1, <2>1, <2>3, AloneKept, Zenon
<1>9. ASSUME NEW S \in SUBSET Scope, BootChef(S)
      PROVE  AloneInv'
  <2>1. /\ S \subseteq Missing /\ UNCHANGED <<conflict, saga, draft>> /\ ~up[Chef]
        /\ store' = [store EXCEPT ![Chef] = IF S # {} THEN Extended(S) ELSE @]
        /\ published' = published \cup {store'[Chef]}
        /\ store[Chef].revision = 0 => World \in S
        /\ RebuildRegistry(Chef)
    BY <1>9, Zenon DEF BootChef
  <2>2. /\ draft = NoSnapshot /\ \A k \in Saga : saga[k].pc = "idle"
    BY <2>1, Zenon DEF AnyInv, SagaOrders, OrderedSaga
  <2>3. ready'[Chef]
    BY <1>1, <2>1, Zenon DEF RebuildRegistry, TypeOK
  <2>4. \A k \in Saga : AloneAt(saga'[k], store'[Chef])
    BY <2>1, <2>2 DEF AloneAt
  <2>5. CASE S = {}
    <3>1. store'[Chef] = store[Chef] /\ store[Chef].revision # 0
      BY <1>1, <2>1, <2>5, Zenon
    <3>2. store[Chef] \in published
      BY <3>1, Constants DEF AnyInv, StoreOrders
    <3>3. published' = published
      BY <2>1, <3>1, <3>2, Zenon
    <3> QED
      BY <1>1, <2>1, <2>3, <2>4, <3>1, <3>3, AloneKept, Zenon
  <2>6. CASE S # {}
    <3>1. store'[Chef] = Extended(S) /\ published' = published \cup {Extended(S)}
      BY <1>1, <2>1, <2>6, Zenon
    <3> QED
      BY <1>1, <1>4, <2>1, <2>2, <2>3, <2>4, <3>1, AloneMoves, Zenon
  <2> QED
    BY <2>5, <2>6, Zenon
<1>10. ASSUME NEW n \in Node, BootMember(n)
       PROVE  AloneInv'
  <2>1. /\ n # Chef /\ UNCHANGED <<store, conflict, saga, draft, published>>
        /\ up' = [up EXCEPT ![n] = TRUE]
        /\ ready' = ready \/ RebuildRegistry(n)
    BY <1>10, Zenon DEF BootMember, durable, registry
  <2>2. up'[Chef] = up[Chef] /\ ready'[Chef] = ready[Chef]
    BY <1>1, <2>1, Zenon DEF RebuildRegistry, TypeOK
  <2> QED
    BY <1>1, <2>1, <2>2, AloneKept, Zenon
<1>11. ASSUME NEW n \in Node, Crash(n)
       PROVE  AloneInv'
  <2>1. UNCHANGED <<store, conflict, published>> /\ draft' \in {draft, NoSnapshot}
    BY <1>11, Zenon DEF Crash, durable
  <2>2. up'[Chef] => ready'[Chef]
    BY <1>1, <1>11, Zenon DEF Crash, TypeOK
  <2>3. ASSUME NEW h \in Saga
        PROVE  /\ saga'[h].pc # "idle" => saga[h].pc # "idle"
               /\ AloneAt(saga'[h], store[Chef])
    <3>1. CASE n = Chef
      <4>1. saga'[h] = IdleSaga
        BY <1>11, <3>1, Zenon DEF Crash
      <4> QED
        BY <4>1, Constants DEF AloneAt
    <3>2. CASE n # Chef
      <4>1. saga'[h] = saga[h] \/ saga'[h] = [saga[h] EXCEPT !.rpc = "refused"]
        BY <1>11, <3>2, Zenon DEF Crash
      <4>2. saga[h] \in SagaState
        BY <1>1, Zenon
      <4>3. /\ saga'[h].pc = saga[h].pc /\ saga'[h].snap = saga[h].snap
            /\ saga'[h].epoch = saga[h].epoch /\ saga'[h].scope = saga[h].scope
        BY <4>1, <4>2, Zenon DEF SagaState
      <4> QED
        BY <1>1, <4>3, Zenon DEF AloneAt
    <3> QED
      BY <3>1, <3>2, Zenon
  <2> QED
    BY <1>1, <2>1, <2>2, <2>3, AloneKept, Zenon
<1> QED
  BY <1>2, <1>3, <1>5, <1>6, <1>7, <1>8, <1>9, <1>10, <1>11, AloneProgress, Zenon DEF Next

LEMMA AloneAlways ==
    ASSUME Serial
    PROVE  Spec => [](AnyInv /\ AloneInv)
<1>1. AnyInv /\ ChainInv /\ [Next]_vars => ChainInv'
  BY ChainStep, ChainKept, ChainMoves, Zenon
<1>2. AnyInv /\ ChainInv /\ AloneInv /\ [Next]_vars => AloneInv'
  BY AloneStep, Zenon
<1> QED
  BY <1>1, <1>2, ChainInit, AloneInit, AnyAlways, PTL DEF Spec

\* For one ownership request at a time, also with requests that run late: no
\* node, the chef included, runs into the snapshot conflict that only manual
\* recovery resolves (install_owner_snapshot's SnapshotConflict), and every
\* request of the chef installs what it has built.
THEOREM NoNodeConflicts ==
    ASSUME Serial
    PROVE  Spec => []NoConflict
<1>1. AnyInv /\ AloneInv => NoConflict
  BY Zenon DEF AnyInv, StoreOrders, AloneInv, NoConflict
<1> QED
  BY <1>1, AloneAlways, PTL

\* For one ownership request at a time, also with requests that run late: an
\* epoch of a scope has one owner in every store of the cluster (run_handoff,
\* which counts the epoch up from the registry it has read).
THEOREM OneOwnerEach ==
    ASSUME Serial
    PROVE  Spec => []OneOwnerPerEpoch
<1>1. ASSUME AnyInv, AloneInv
      PROVE  OneOwnerPerEpoch
  <2> SUFFICES ASSUME NEW s \in Scope, NEW m \in Node, NEW n \in Node,
                      store[m].terms[s].epoch = store[n].terms[s].epoch
               PROVE  store[m].terms[s] = store[n].terms[s]
    BY DEF OneOwnerPerEpoch
  <2>1. /\ store[m] \in published \cup {NoSnapshot} /\ store[n] \in published \cup {NoSnapshot}
        /\ NoSnapshot.terms[s] = Unknown /\ Unknown.epoch = 0
    BY <1>1, Zenon DEF AnyInv, StoreOrders, NoSnapshot, Unknown
  <2> QED
    BY <1>1, <2>1 DEF AloneInv, EpochNames
<1> QED
  BY <1>1, AloneAlways, PTL

\* Where a handoff is, c being what the chef has installed and l the requests
\* that may still run late: none of them can retire the term it has given.
StageAt(r, c, l) ==
    /\ r.pc = "install" =>
         /\ r.epoch = c.terms[r.scope].epoch
         /\ r.snap.terms[r.scope] = [owner |-> r.target, epoch |-> r.epoch + 1]
    /\ r.pc \in {"source", "target", "commit"} =>
         /\ c.terms[r.scope] = [owner |-> r.target, epoch |-> r.epoch + 1]
         /\ \A m \in l : m.kind = "prepare" /\ m.scope = r.scope => m.epoch <= r.epoch

\* The target has answered OwnerCommit; t is its term and o its retirement.
ServedAt(r, t, o) == r.pc = "commit" /\ r.rpc = "ok" => t.epoch > r.epoch /\ o = 0

\* Late requests are about terms the chef has given.
LateAt(c, l) == \A m \in l : m.epoch <= c.terms[m.scope].epoch

ServeInv ==
    /\ LateAt(store[Chef], late)
    /\ \A h \in Saga : StageAt(saga[h], store[Chef], late)
    /\ \A h \in Saga : ServedAt(saga[h], store[saga[h].target].terms[saga[h].scope],
                                overlay[saga[h].target][saga[h].scope])

LEMMA ServeInit == Init => ServeInv
<1> SUFFICES ASSUME Init PROVE ServeInv
  OBVIOUS
<1>1. late = {} /\ \A h \in Saga : saga[h].pc = "idle"
  BY Constants, Zenon DEF Init
<1>2. LateAt(store[Chef], late)
  BY <1>1 DEF LateAt
<1>3. \A h \in Saga : StageAt(saga[h], store[Chef], late)
  BY <1>1 DEF StageAt
<1>4. \A h \in Saga : ServedAt(saga[h], store[saga[h].target].terms[saga[h].scope],
                               overlay[saga[h].target][saga[h].scope])
  BY <1>1 DEF ServedAt
<1> QED
  BY <1>2, <1>3, <1>4, Zenon DEF ServeInv

\* What a handoff gives up on is about the term it goes by, or has given.
LEMMA AbandonedBelow ==
    ASSUME AnyInv, AloneInv, ServeInv, NEW h \in Saga, NEW m \in Abandoned(h)
    PROVE  m \in Request /\ m.epoch <= store[Chef].terms[m.scope].epoch
<1> DEFINE r == saga[h]
           c == store[Chef]
<1>1. r \in SagaState /\ c \in Snapshot /\ m \in Request
  BY AbandonedFacts, Zenon DEF AnyInv, TypeOK
<1>2. /\ r.pc \in {"prepare", "commit"} /\ m.scope = r.scope
      /\ m.epoch = IF r.pc = "prepare" THEN r.epoch ELSE r.epoch + 1
  BY DEF Abandoned
<1>3. /\ r.pc = "prepare" => r.epoch = c.terms[r.scope].epoch
      /\ r.pc = "commit" => c.terms[r.scope] = [owner |-> r.target, epoch |-> r.epoch + 1]
  BY Zenon DEF AloneInv, AloneAt, ServeInv, StageAt
<1>4. r.scope \in Scope /\ c.terms[r.scope].epoch \in Nat
  BY <1>1, Zenon DEF SagaState
<1> HIDE DEF r, c
<1>5. m.epoch = c.terms[r.scope].epoch
  BY <1>2, <1>3
<1> QED
  BY <1>1, <1>2, <1>4, <1>5 DEF c

\* The chef's epochs do not fall, so late requests stay about given terms.
LEMMA LateBounded ==
    ASSUME AnyInv, AnyInv', ChainInv, AloneInv, ServeInv, [Next]_vars,
           \A m \in late' : m \in late \/ \E h \in Saga : m \in Abandoned(h)
    PROVE  LateAt(store'[Chef], late')
<1> SUFFICES ASSUME NEW m \in late'
             PROVE  m.epoch <= store'[Chef].terms[m.scope].epoch
  BY DEF LateAt
<1>1. m \in Request /\ m.epoch <= store[Chef].terms[m.scope].epoch
  <2>1. CASE m \in late
    BY <2>1, Zenon DEF AnyInv, TypeOK, ServeInv, LateAt
  <2>2. CASE \E h \in Saga : m \in Abandoned(h)
    BY <2>2, AbandonedBelow, Zenon
  <2> QED
    BY <2>1, <2>2, Zenon
<1>2. store[Chef] \in Snapshot /\ store'[Chef] \in Snapshot /\ Below(store[Chef], store'[Chef])
  BY StoresAdvance, Zenon DEF AnyInv, TypeOK
<1>3. m.scope \in Scope /\ m.epoch \in Nat
  BY <1>1, Zenon DEF Request
<1>4. /\ store[Chef].terms[m.scope].epoch \in Nat /\ store'[Chef].terms[m.scope].epoch \in Nat
      /\ store[Chef].terms[m.scope].epoch <= store'[Chef].terms[m.scope].epoch
  BY <1>2, <1>3, Zenon DEF Below
<1> QED
  BY <1>1, <1>3, <1>4

\* A step after which no handoff has built a snapshot.
LEMMA ServeIdle ==
    ASSUME AnyInv, AnyInv', ChainInv, AloneInv, ServeInv, [Next]_vars,
           \A m \in late' : m \in late \/ \E h \in Saga : m \in Abandoned(h),
           \A h \in Saga : saga'[h].pc \in {"idle", "prepare", "build"}
    PROVE  ServeInv'
<1>1. LateAt(store'[Chef], late')
  BY LateBounded, Zenon
<1>2. \A h \in Saga : StageAt(saga'[h], store'[Chef], late')
  BY DEF StageAt
<1>3. \A h \in Saga : ServedAt(saga'[h], store'[saga'[h].target].terms[saga'[h].scope],
                               overlay'[saga'[h].target][saga'[h].scope])
  BY DEF ServedAt
<1> QED
  BY <1>1, <1>2, <1>3, Zenon DEF ServeInv, LateAt, StageAt, ServedAt

\* A step that leaves the authority alone, and a target that has answered.
LEMMA ServeKept ==
    ASSUME AnyInv, AnyInv', ChainInv, AloneInv, ServeInv, [Next]_vars, late' \subseteq late,
           \A h \in Saga : StageAt(saga'[h], store'[Chef], late),
           \A h \in Saga : saga'[h].pc = "commit" /\ saga'[h].rpc = "ok" =>
             /\ saga'[h] = saga[h]
             /\ overlay'[saga[h].target][saga[h].scope] = overlay[saga[h].target][saga[h].scope]
    PROVE  ServeInv'
<1>1. LateAt(store'[Chef], late')
  BY LateBounded, Zenon
<1>2. \A h \in Saga : StageAt(saga'[h], store'[Chef], late')
  BY Zenon DEF StageAt
<1>3. ASSUME NEW h \in Saga, saga'[h].pc = "commit", saga'[h].rpc = "ok"
      PROVE  /\ store'[saga'[h].target].terms[saga'[h].scope].epoch > saga'[h].epoch
             /\ overlay'[saga'[h].target][saga'[h].scope] = 0
  <2> DEFINE t == saga[h].target
             s == saga[h].scope
             e == saga[h].epoch
  <2>1. /\ saga'[h] = saga[h] /\ saga[h].pc = "commit" /\ saga[h].rpc = "ok"
        /\ overlay'[t][s] = overlay[t][s]
    BY <1>3, Zenon
  <2>2. t \in Node /\ s \in Scope /\ e \in Nat
    BY Zenon DEF AnyInv, TypeOK, SagaState
  <2>3. store[t].terms[s].epoch > e /\ overlay[t][s] = 0
    BY <2>1, Zenon DEF ServeInv, ServedAt
  <2>4. Below(store[t], store'[t]) /\ store[t] \in Snapshot /\ store'[t] \in Snapshot
    BY <2>2, StoresAdvance, Zenon DEF AnyInv, TypeOK
  <2> HIDE DEF t, s, e
  <2>5. /\ store[t].terms[s].epoch \in Nat /\ store'[t].terms[s].epoch \in Nat
        /\ store[t].terms[s].epoch <= store'[t].terms[s].epoch
    BY <2>2, <2>4, Zenon DEF Below
  <2>6. store'[t].terms[s].epoch > e
    BY <2>2, <2>3, <2>5
  <2> QED
    BY <2>1, <2>3, <2>6, Zenon DEF t, s, e
<1>4. \A h \in Saga : ServedAt(saga'[h], store'[saga'[h].target].terms[saga'[h].scope],
                               overlay'[saga'[h].target][saga'[h].scope])
  BY <1>3, Zenon DEF ServedAt
<1> QED
  BY <1>1, <1>2, <1>4, Zenon DEF ServeInv, LateAt, StageAt, ServedAt

\* The steps of a handoff.
LEMMA ServeProgress ==
    ASSUME AnyInv, AnyInv', ChainInv, AloneInv, ServeInv, [Next]_vars,
           NEW h \in Saga, Progress(h)
    PROVE  ServeInv'
<1> DEFINE r == saga[h]
           c == store[Chef]
<1>1. /\ TypeOK /\ saga \in [Saga -> SagaState] /\ r \in SagaState /\ c \in Snapshot
      /\ store \in [Node -> Snapshot] /\ overlay \in [Node -> [Scope -> Nat]]
      /\ r.pc # "idle" /\ AloneAt(r, c) /\ StageAt(r, c, late)
      /\ \A k \in Saga \ {h} : saga[k].pc = "idle"
  <2>1. r.pc # "idle"
    BY Zenon DEF Progress, ExecutePrepare, Prepared, Abort, BuildSnapshot, InstallBuilt, InstallRefused,
                 ExecuteReplicate, Replicated, ExecuteCommit, Committed, Fail, Waiting
  <2> QED
    BY <2>1, Zenon DEF AnyInv, TypeOK, AloneInv, ServeInv
<1>2. ASSUME NEW q, saga' = [saga EXCEPT ![h] = q]
      PROVE  saga'[h] = q /\ \A k \in Saga \ {h} : saga'[k].pc = "idle"
  BY <1>1, <1>2, Zenon
\* The handoff ends, or has not built its snapshot.
<1>3. ASSUME NEW q, saga' = [saga EXCEPT ![h] = q], q.pc \in {"idle", "prepare", "build"},
             late' \subseteq late \cup Abandoned(h)
      PROVE  ServeInv'
  <2>1. \A k \in Saga : saga'[k].pc \in {"idle", "prepare", "build"}
    BY <1>2, <1>3, Zenon
  <2>2. \A m \in late' : m \in late \/ \E k \in Saga : m \in Abandoned(k)
    BY <1>3, Zenon
  <2> QED
    BY <2>1, <2>2, ServeIdle, Zenon
\* The handoff goes on.
<1>4. ASSUME NEW q, saga' = [saga EXCEPT ![h] = q], StageAt(q, store'[Chef], late), late' = late,
             q.pc # "commit" \/ q.rpc # "ok"
      PROVE  ServeInv'
  <2>1. saga'[h] = q /\ \A k \in Saga \ {h} : saga'[k].pc = "idle"
    BY <1>2, <1>4, Zenon
  <2>2. \A k \in Saga : StageAt(saga'[k], store'[Chef], late)
    <3> TAKE k \in Saga
    <3>1. CASE k = h
      BY <1>4, <2>1, <3>1, Zenon
    <3>2. CASE k # h
      BY <2>1, <3>2 DEF StageAt
    <3> QED
      BY <3>1, <3>2
  <2>3. \A k \in Saga : ~(saga'[k].pc = "commit" /\ saga'[k].rpc = "ok")
    BY <1>4, <2>1
  <2> QED
    BY <1>4, <2>2, <2>3, ServeKept, Zenon
<1>5. CASE Abort(h) \/ Committed(h) \/ Fail(h) \/ InstallRefused(h)
  <2>1. saga' = [saga EXCEPT ![h] = IdleSaga] /\ late' \subseteq late \cup Abandoned(h)
    BY <1>5, Zenon DEF Abort, Committed, Fail, InstallRefused
  <2> QED
    BY <1>3, <2>1, Constants, Zenon
<1>6. CASE Prepared(h)
  <2> DEFINE q == [r EXCEPT !.pc = "build", !.rpc = "none"]
  <2>1. saga' = [saga EXCEPT ![h] = q] /\ late' = late
    BY <1>1, <1>6, Zenon DEF Prepared
  <2>2. q.pc = "build"
    BY <1>1, Zenon DEF SagaState
  <2> QED
    BY <1>3, <2>1, <2>2, Zenon
<1>7. CASE ExecutePrepare(h)
  <2>1. PICK v : saga' = [saga EXCEPT ![h] = [r EXCEPT !.rpc = v]]
    BY <1>1, <1>7, Zenon DEF ExecutePrepare
  <2>2. [r EXCEPT !.rpc = v].pc = "prepare" /\ late' = late
    BY <1>1, <1>7, Zenon DEF ExecutePrepare, Waiting, SagaState
  <2> QED
    BY <1>3, <2>1, <2>2, Zenon
<1>8. CASE BuildSnapshot(h)
  <2> DEFINE T == [c.terms EXCEPT ![r.scope] = [owner |-> r.target, epoch |-> r.epoch + 1]]
             g == [revision |-> c.revision + 1, terms |-> T]
             q == [r EXCEPT !.pc = "install", !.snap = g]
  <2>1. saga' = [saga EXCEPT ![h] = q] /\ r.pc = "build" /\ store' = store /\ late' = late
    BY <1>1, <1>8, Zenon DEF BuildSnapshot, durable
  <2>2. r.epoch = c.terms[r.scope].epoch
    BY <1>1, <2>1, Zenon DEF AloneAt
  <2>3. T[r.scope] = [owner |-> r.target, epoch |-> r.epoch + 1]
    BY <1>1, Zenon DEF SagaState
  <2> HIDE DEF T
  <2>4. g.terms = T
    BY Zenon
  <2> HIDE DEF g
  <2>5. /\ q.pc = "install" /\ q.snap = g /\ q.scope = r.scope
        /\ q.target = r.target /\ q.epoch = r.epoch
    BY <1>1, SMTT(20) DEF SagaState
  <2> HIDE DEF q
  <2>6. StageAt(q, store'[Chef], late)
    BY <2>1, <2>2, <2>3, <2>4, <2>5 DEF StageAt
  <2> QED
    BY <1>4, <2>1, <2>5, <2>6, Zenon
<1>9. CASE InstallBuilt(h)
  <2> DEFINE p == IF r.source \in {Chef, r.target} THEN "target" ELSE "source"
             q == [r EXCEPT !.rpc = "sent", !.pc = p]
  <2>1. saga' = [saga EXCEPT ![h] = q] /\ r.pc = "install" /\ late' = late /\ HandleChefInstall(r.snap)
    BY <1>1, <1>9, Zenon DEF InstallBuilt
  <2>2. r.snap \in Snapshot /\ Follows(r.snap, c)
    BY <1>1, <2>1, Zenon DEF AloneAt, SagaState
  <2>3. store'[Chef] = r.snap
    BY <2>1, <2>2, FollowsInstalls, Zenon DEF AloneInv
  <2>4. /\ r.epoch = c.terms[r.scope].epoch
        /\ r.snap.terms[r.scope] = [owner |-> r.target, epoch |-> r.epoch + 1]
    BY <1>1, <2>1, Zenon DEF StageAt
  <2>5. \A m \in late : m.scope = r.scope => m.epoch <= r.epoch
    BY <2>4 DEF ServeInv, LateAt
  <2>6. /\ q.pc = p /\ q.rpc = "sent" /\ q.scope = r.scope
        /\ q.target = r.target /\ q.epoch = r.epoch
    BY <1>1, Zenon DEF SagaState
  <2> HIDE DEF q
  <2>7. q.pc \in {"source", "target"}
    BY <2>6, SMTT(20)
  <2>8. StageAt(q, store'[Chef], late)
    BY <2>3, <2>4, <2>5, <2>6, <2>7, Zenon DEF StageAt
  <2> QED
    BY <1>4, <2>1, <2>6, <2>8, Zenon
\* The authority stays what the handoff has made it.
<1>10. ASSUME NEW q, store'[Chef] = c, r.pc \in {"source", "target", "commit"},
              q.pc \in {"source", "target", "commit"}, q.scope = r.scope,
              q.target = r.target, q.epoch = r.epoch
       PROVE  StageAt(q, store'[Chef], late)
  BY <1>1, <1>10, SMTT(20) DEF StageAt
<1>11. CASE Replicated(h)
  <2> DEFINE p == IF r.pc = "source" THEN "target" ELSE "commit"
             q == [r EXCEPT !.rpc = "sent", !.pc = p]
  <2>1. /\ saga' = [saga EXCEPT ![h] = q] /\ r.pc \in {"source", "target"}
        /\ store' = store /\ late' = late
    BY <1>1, <1>11, Zenon DEF Replicated, durable
  <2>2. /\ q.pc = p /\ q.rpc = "sent" /\ q.scope = r.scope
        /\ q.target = r.target /\ q.epoch = r.epoch
    BY <1>1, Zenon DEF SagaState
  <2> HIDE DEF q
  <2>3. q.pc \in {"source", "target", "commit"} /\ r.pc \in {"source", "target", "commit"}
    BY <2>1, <2>2
  <2>4. StageAt(q, store'[Chef], late)
    BY <1>10, <2>1, <2>2, <2>3, Zenon
  <2>5. q.rpc # "ok"
    BY <2>2
  <2> QED
    BY <1>4, <2>1, <2>4, <2>5, Zenon
<1>12. CASE ExecuteReplicate(h)
  <2>1. PICK v : saga' = [saga EXCEPT ![h] = [r EXCEPT !.rpc = v]]
    BY <1>1, <1>12, Zenon DEF ExecuteReplicate
  <2> DEFINE q == [r EXCEPT !.rpc = v]
  <2>2. r.pc \in {"source", "target"} /\ late' = late /\ Peer(h) \in Node
    BY <1>1, <1>12, AbandonedFacts, Zenon DEF ExecuteReplicate, Waiting
  <2>3. q.pc = r.pc /\ q.scope = r.scope /\ q.target = r.target /\ q.epoch = r.epoch
    BY <1>1, Zenon DEF SagaState
  <2> HIDE DEF q
  <2>4. store'[Chef] = c
    <3>1. r.snap = c /\ r.snap \in Snapshot
      BY <1>1, <2>2, Zenon DEF AloneAt
    <3>2. InstallSnapshot(Peer(h), r.snap)
      BY <1>12, Zenon DEF ExecuteReplicate, HandleChefInstall, HandleReplicate
    <3> QED
      BY <1>1, <2>2, <3>1, <3>2, InstallFacts, Zenon
  <2>5. q.pc \in {"source", "target", "commit"} /\ r.pc \in {"source", "target", "commit"}
        /\ q.pc # "commit"
    BY <2>2, <2>3
  <2>6. StageAt(q, store'[Chef], late)
    BY <1>10, <2>3, <2>4, <2>5, Zenon
  <2> QED
    BY <1>4, <2>1, <2>2, <2>5, <2>6, Zenon DEF q
<1>13. CASE ExecuteCommit(h)
  <2> DEFINE t == r.target
             s == r.scope
             e == r.epoch
  <2>1. PICK v : saga' = [saga EXCEPT ![h] = [r EXCEPT !.rpc = v]]
    BY <1>1, <1>13, Zenon DEF ExecuteCommit
  <2> DEFINE q == [r EXCEPT !.rpc = v]
  <2>2. /\ r.pc = "commit" /\ late' = late /\ store' = store
        /\ t \in Node /\ s \in Scope /\ e \in Nat
    BY <1>1, <1>13, Zenon
       DEF ExecuteCommit, Waiting, HandleCommit, HandleChefCommit, SagaState
  <2>3. /\ q.pc = r.pc /\ q.scope = r.scope /\ q.target = r.target /\ q.epoch = r.epoch
        /\ q.rpc = v
    BY <1>1, Zenon DEF SagaState
  <2>4. saga'[h] = q /\ \A k \in Saga \ {h} : saga'[k].pc = "idle"
    BY <1>2, <2>1, Zenon
  <2>5. c.terms[s] = [owner |-> t, epoch |-> e + 1]
    BY <1>1, <2>2, Zenon DEF StageAt
  <2>6. v = "ok" => store[t].terms[s] = [owner |-> t, epoch |-> e + 1] /\ overlay'[t][s] = 0
    <3> SUFFICES ASSUME v = "ok"
                 PROVE  store[t].terms[s] = [owner |-> t, epoch |-> e + 1] /\ overlay'[t][s] = 0
      OBVIOUS
    <3>1. saga'[h].rpc = "ok"
      BY <2>3, <2>4
    <3>2. CASE t = Chef
      <4>1. HandleChefCommit(s, e + 1) /\ overlay[Chef][s] <= e + 1
        <5>1. /\ HandleChefCommit(s, e + 1)
              /\ saga' = [saga EXCEPT ![h].rpc = IF overlay[Chef][s] <= e + 1 /\ ~conflict[Chef]
                                                 THEN "ok" ELSE "refused"]
          BY <1>13, <3>2, Zenon DEF ExecuteCommit
        <5>2. saga'[h].rpc = IF overlay[Chef][s] <= e + 1 /\ ~conflict[Chef] THEN "ok" ELSE "refused"
          BY <1>1, <5>1, Zenon DEF SagaState
        <5>3. overlay[Chef][s] <= e + 1
          BY <3>1, <5>2
        <5> QED
          BY <5>1, <5>3, Zenon
      <4>2. overlay' = [overlay EXCEPT ![Chef][s] = 0]
        BY <4>1, Zenon DEF HandleChefCommit
      <4>3. overlay'[Chef][s] = 0
        BY <1>1, <2>2, <4>2, Zenon
      <4> QED
        BY <2>5, <3>2, <4>3, Zenon
    <3>3. CASE t # Chef
      <4>1. HandleCommit(t, s, e + 1) /\ MayCommit(t, s, e + 1)
        <5>1. /\ HandleCommit(t, s, e + 1)
              /\ saga' = [saga EXCEPT ![h].rpc = IF MayCommit(t, s, e + 1) THEN "ok" ELSE "refused"]
          BY <1>13, <3>3, Zenon DEF ExecuteCommit
        <5>2. saga'[h].rpc = IF MayCommit(t, s, e + 1) THEN "ok" ELSE "refused"
          BY <1>1, <5>1, Zenon DEF SagaState
        <5>3. MayCommit(t, s, e + 1)
          BY <3>1, <5>2
        <5> QED
          BY <5>1, <5>3, Zenon
      <4>2. overlay' = [overlay EXCEPT ![t][s] = 0]
        BY <4>1, Zenon DEF HandleCommit
      <4>3. overlay'[t][s] = 0
        BY <1>1, <2>2, <4>2, Zenon
      <4> QED
        BY <4>1, <4>3, Zenon DEF MayCommit
    <3> QED
      BY <3>2, <3>3, Zenon
  <2> HIDE DEF q
  <2>7. StageAt(q, store'[Chef], late)
    <3>1. q.pc \in {"source", "target", "commit"} /\ r.pc \in {"source", "target", "commit"}
      BY <2>2, <2>3
    <3> QED
      BY <1>10, <2>2, <2>3, <3>1, Zenon
  <2>8. \A k \in Saga : StageAt(saga'[k], store'[Chef], late')
    <3> TAKE k \in Saga
    <3>1. CASE k = h
      BY <2>2, <2>4, <2>7, <3>1, Zenon
    <3>2. CASE k # h
      BY <2>4, <3>2, SMTT(20) DEF StageAt
    <3> QED
      BY <3>1, <3>2
  <2>9. ASSUME v = "ok"
        PROVE  store'[t].terms[s].epoch > e /\ overlay'[t][s] = 0
    BY <2>2, <2>6, <2>9, SMTT(20)
  <2>10. \A k \in Saga : ServedAt(saga'[k], store'[saga'[k].target].terms[saga'[k].scope],
                                  overlay'[saga'[k].target][saga'[k].scope])
    <3> TAKE k \in Saga
    <3>1. CASE k = h
      <4>1. ServedAt(q, store'[t].terms[s], overlay'[t][s])
        BY <2>3, <2>9, Zenon DEF ServedAt
      <4> QED
        BY <2>3, <2>4, <3>1, <4>1, Zenon
    <3>2. CASE k # h
      BY <2>4, <3>2 DEF ServedAt
    <3> QED
      BY <3>1, <3>2
  <2>11. LateAt(store'[Chef], late')
    BY <2>2, LateBounded, Zenon
  <2> QED
    BY <2>8, <2>10, <2>11, Zenon DEF ServeInv, LateAt, StageAt, ServedAt
<1> QED
  BY <1>5, <1>6, <1>7, <1>8, <1>9, <1>11, <1>12, <1>13, Zenon DEF Progress

\* All steps.
LEMMA ServeStep ==
    ASSUME Serial, AnyInv, AnyInv', ChainInv, AloneInv, ServeInv, [Next]_vars
    PROVE  ServeInv'
<1>1. /\ TypeOK /\ store \in [Node -> Snapshot] /\ saga \in [Saga -> SagaState]
      /\ overlay \in [Node -> [Scope -> Nat]] /\ late \in SUBSET Request
      /\ \A k \in Saga : StageAt(saga[k], store[Chef], late)
  BY Zenon DEF AnyInv, TypeOK, ServeInv
<1>2. CASE UNCHANGED vars
  BY <1>1, <1>2, ServeKept, Zenon DEF vars
\* Nothing is under way, and the chef may move on.
<1>3. ASSUME \A k \in Saga : saga'[k].pc \in {"idle", "prepare"}, late' = late
      PROVE  ServeInv'
  BY <1>3, ServeIdle, Zenon
<1>4. ASSUME NEW h \in Saga, NEW s \in Scope, NEW t \in Node, BeginHandoff(h, s, t)
      PROVE  ServeInv'
  <2>1. /\ \A k \in Saga : saga[k].pc = "idle"
        /\ late' = late /\ \E q : q.pc = "prepare" /\ saga' = [saga EXCEPT ![h] = q]
    BY <1>4, Zenon DEF BeginHandoff, MayStart, Busy
  <2>2. \A k \in Saga : saga'[k].pc \in {"idle", "prepare"}
    BY <1>1, <2>1, Zenon
  <2> QED
    BY <1>3, <2>1, <2>2, Zenon
<1>5. ASSUME NEW S \in SUBSET Scope, DraftScopes(S)
      PROVE  ServeInv'
  BY <1>3, <1>5, Zenon DEF DraftScopes, MayStart, Busy
<1>6. ASSUME NEW S \in SUBSET Scope, BootChef(S)
      PROVE  ServeInv'
  <2>1. ~up[Chef] /\ saga' = saga /\ late' = late
    BY <1>6, Zenon DEF BootChef
  <2>2. \A k \in Saga : saga[k].pc = "idle"
    BY <2>1, Zenon DEF AnyInv, SagaOrders, OrderedSaga
  <2> QED
    BY <1>3, <2>1, <2>2, Zenon
<1>7. CASE InstallDraft
  <2>1. \A k \in Saga : saga[k].pc = "idle"
    BY <1>7, Zenon DEF InstallDraft, AloneInv
  <2> QED
    BY <1>3, <1>7, <2>1, Zenon DEF InstallDraft
<1>8. ASSUME NEW n \in Node, NEW g \in published, Deliver(n, g)
      PROVE  ServeInv'
  <2>1. n # Chef /\ InstallSnapshot(n, g) /\ g \in Snapshot /\ saga' = saga /\ late' = late
    BY <1>1, <1>8, Zenon DEF Deliver, HandleReplicate, TypeOK
  <2>2. store'[Chef] = store[Chef] /\ overlay' = overlay
    BY <1>1, <2>1, InstallFacts, Zenon
  <2> QED
    BY <1>1, <2>1, <2>2, ServeKept, Zenon
\* A late request at the target of a handoff does not take its term away.
<1>9. ASSUME NEW m \in late, ExecuteLate(m)
      PROVE  ServeInv'
  <2>1. /\ store' = store /\ saga' = saga /\ late' \subseteq late /\ m \in Request
        /\ \/ m.kind = "prepare" /\ HandlePrepare(m.node, m.scope, m.epoch)
           \/ HandleCommit(m.node, m.scope, m.epoch)
    BY <1>1, <1>9, Zenon DEF ExecuteLate, HandlePrepare, HandleCommit
  <2>2. ASSUME NEW h \in Saga, saga[h].pc = "commit", saga[h].rpc = "ok"
        PROVE  overlay'[saga[h].target][saga[h].scope] = overlay[saga[h].target][saga[h].scope]
    <3> DEFINE t == saga[h].target
               s == saga[h].scope
               e == saga[h].epoch
    <3>1. /\ t \in Node /\ s \in Scope /\ e \in Nat
          /\ store[t].terms[s].epoch > e /\ overlay[t][s] = 0
          /\ m.kind = "prepare" /\ m.scope = s => m.epoch <= e
      <4>1. t \in Node /\ s \in Scope /\ e \in Nat
        BY <1>1, Zenon DEF SagaState
      <4>2. store[t].terms[s].epoch > e /\ overlay[t][s] = 0
        BY <2>2, Zenon DEF ServeInv, ServedAt
      <4>3. m.kind = "prepare" /\ m.scope = s => m.epoch <= e
        BY <1>1, <2>2, Zenon DEF StageAt
      <4> QED
        BY <4>1, <4>2, <4>3, Zenon
    <3>2. m.node \in Node /\ m.scope \in Scope /\ m.epoch \in Nat
      BY <2>1, Zenon DEF Request
    <3> HIDE DEF t, s, e
    <3>3. CASE overlay' = overlay
      BY <3>3, Zenon DEF t, s
    <3>4. CASE overlay' = [overlay EXCEPT ![m.node][m.scope] = 0]
      <4>1. overlay'[t][s] = 0
        BY <1>1, <3>1, <3>2, <3>4, Zenon
      <4> QED
        BY <3>1, <4>1, Zenon DEF t, s
    <3>5. CASE /\ m.kind = "prepare" /\ MayRetire(m.node, m.scope, m.epoch)
               /\ overlay' = [overlay EXCEPT ![m.node][m.scope] = m.epoch]
      <4>1. CASE m.node = t /\ m.scope = s
        <5>1. store[t].terms[s].epoch = m.epoch
          BY <3>5, <4>1 DEF MayRetire
        <5> QED
          BY <3>1, <3>2, <3>5, <4>1, <5>1
      <4>2. CASE ~(m.node = t /\ m.scope = s)
        <5>1. overlay'[t][s] = overlay[t][s]
          BY <1>1, <3>1, <3>2, <3>5, <4>2, Zenon
        <5> QED
          BY <5>1, Zenon DEF t, s
      <4> QED
        BY <4>1, <4>2, Zenon
    <3> QED
      BY <2>1, <3>3, <3>4, <3>5, Zenon DEF HandlePrepare, HandleCommit
  <2> QED
    BY <1>1, <2>1, <2>2, ServeKept, Zenon
<1>10. ASSUME NEW n \in Node, BootMember(n)
       PROVE  ServeInv'
  <2>1. UNCHANGED <<store, overlay, saga, late>>
    BY <1>10, Zenon DEF BootMember, durable
  <2> QED
    BY <1>1, <2>1, ServeKept, Zenon
<1>11. ASSUME NEW n \in Node, Crash(n)
       PROVE  ServeInv'
  <2>1. UNCHANGED <<store, overlay>>
    BY <1>11, Zenon DEF Crash, durable
  <2>2. CASE n = Chef
    <3>1. \A k \in Saga : saga'[k] = IdleSaga
      BY <1>11, <2>2, Zenon DEF Crash
    <3>2. late' = late \cup UNION {Abandoned(k) : k \in Saga}
      BY <1>11, <2>2, Zenon DEF Crash
    <3>3. \A m \in late' : m \in late \/ \E k \in Saga : m \in Abandoned(k)
      BY <3>2, Zenon
    <3>4. \A k \in Saga : saga'[k].pc \in {"idle", "prepare", "build"}
      BY <3>1, Constants, Zenon
    <3> QED
      BY <3>3, <3>4, ServeIdle, Zenon
  <2>3. CASE n # Chef
    <3>1. /\ late' \subseteq late
          /\ \A k \in Saga : saga'[k] = IF saga[k].rpc = "sent" /\ Peer(k) = n
                                        THEN [saga[k] EXCEPT !.rpc = "refused"] ELSE saga[k]
      BY <1>11, <2>3, Zenon DEF Crash
    <3>2. ASSUME NEW k \in Saga
          PROVE  /\ StageAt(saga'[k], store[Chef], late)
                 /\ saga'[k].rpc = "ok" => saga'[k] = saga[k]
      <4>1. saga[k] \in SagaState /\ StageAt(saga[k], store[Chef], late)
        BY <1>1, Zenon
      <4>2. CASE saga'[k] = saga[k]
        BY <4>1, <4>2, Zenon
      <4>3. CASE saga'[k] = [saga[k] EXCEPT !.rpc = "refused"]
        <5>1. /\ saga'[k].pc = saga[k].pc /\ saga'[k].snap = saga[k].snap
              /\ saga'[k].epoch = saga[k].epoch /\ saga'[k].scope = saga[k].scope
              /\ saga'[k].target = saga[k].target /\ saga'[k].rpc = "refused"
          BY <4>1, <4>3, Zenon DEF SagaState
        <5>2. StageAt(saga'[k], store[Chef], late)
          BY <4>1, <5>1, Zenon DEF StageAt
        <5> QED
          BY <5>1, <5>2
      <4> QED
        BY <3>1, <4>2, <4>3, Zenon
    <3> QED
      BY <2>1, <3>1, <3>2, ServeKept, Zenon
  <2> QED
    BY <2>2, <2>3, Zenon
<1> QED
  BY <1>2, <1>4, <1>5, <1>6, <1>7, <1>8, <1>9, <1>10, <1>11, ServeProgress, Zenon DEF Next

\* For one ownership request at a time, also with requests that run late: when
\* run_handoff answers Committed, the target's store and registry let it write
\* at the new epoch.
THEOREM CommittedServes ==
    ASSUME Serial
    PROVE  Spec => CommitServes
<1> DEFINE Serves == \A h \in Saga : Committed(h) =>
                       LET n == saga[h].target s == saga[h].scope IN
                         /\ store[n].terms[s] = [owner |-> n, epoch |-> saga[h].epoch + 1]
                         /\ overlay[n][s] = 0
                         /\ up[n] => CanWrite(n, s)
<1>1. AnyInv /\ ChainInv /\ AloneInv /\ ServeInv /\ PeersOpen => Serves
  <2> SUFFICES ASSUME AnyInv, ChainInv, AloneInv, ServeInv, PeersOpen, NEW h \in Saga, Committed(h)
               PROVE  LET n == saga[h].target s == saga[h].scope IN
                         /\ store[n].terms[s] = [owner |-> n, epoch |-> saga[h].epoch + 1]
                         /\ overlay[n][s] = 0
                         /\ up[n] => CanWrite(n, s)
    BY Zenon
  <2> DEFINE n == saga[h].target
             s == saga[h].scope
             e == saga[h].epoch
             c == store[Chef]
  <2>1. /\ n \in Node /\ s \in Scope /\ e \in Nat /\ store[n] \in Snapshot /\ c \in Snapshot
        /\ saga[h].pc = "commit" /\ saga[h].rpc = "ok"
    BY Zenon DEF AnyInv, TypeOK, SagaState, Committed
  <2>2. c.terms[s] = [owner |-> n, epoch |-> e + 1]
    BY <2>1, Zenon DEF ServeInv, StageAt
  <2>3. store[n].terms[s].epoch > e /\ overlay[n][s] = 0
    BY <2>1, Zenon DEF ServeInv, ServedAt
  <2> HIDE DEF n, s, e
  <2>4. store[n] # NoSnapshot /\ c # NoSnapshot
    <3>1. NoSnapshot.terms[s].epoch = 0
      BY <2>1, Constants, Zenon
    <3> QED
      BY <2>1, <2>2, <2>3, <3>1
  <2>5. store[n] \in published /\ c \in published /\ store[n].revision > 0 /\ Below(store[n], c)
    <3>1. store[n] \in published /\ c \in published
      BY <2>1, <2>4, Zenon DEF AnyInv, StoreOrders
    <3> QED
      BY <3>1, Zenon DEF AnyInv, StoreOrders, ChainInv
  <2>6. store[n].terms[s].epoch = c.terms[s].epoch
    <3>1. store[n].terms[s].epoch \in Nat /\ store[n].terms[s].epoch <= c.terms[s].epoch
      BY <2>1, <2>5, Zenon DEF Below
    <3>2. c.terms[s].epoch = e + 1
      BY <2>2
    <3>3. e \in Nat /\ store[n].terms[s].epoch > e
      BY <2>1, <2>3, Zenon
    <3> HIDE DEF c
    <3> QED
      BY <3>1, <3>2, <3>3
  <2>7. store[n].terms[s] = [owner |-> n, epoch |-> e + 1]
    <3>1. \A p, q \in published : p.terms[s].epoch = q.terms[s].epoch => p.terms[s] = q.terms[s]
      <4>1. s \in Scope
        BY <2>1, Zenon
      <4>2. EpochNames
        BY Zenon DEF AloneInv
      <4> QED
        BY <4>1, <4>2 DEF EpochNames
    <3>2. store[n] \in published /\ c \in published
      BY <2>5, Zenon
    <3> HIDE DEF c
    <3>3. store[n].terms[s] = c.terms[s]
      BY <2>6, <3>1, <3>2, Zenon
    <3> QED
      BY <2>2, <3>3, Zenon
  <2>8. ASSUME up[n] PROVE CanWrite(n, s)
    <3>1. ready[n]
      BY <2>1, <2>5, <2>8, Zenon DEF AloneInv, PeersOpen
    <3>2. terms[n] = store[n].terms /\ retired[n] = Overlaid(overlay[n])
      BY <2>1, <3>1, Zenon DEF AnyInv, OpenInv, OpenAt
    <3>3. s \notin retired[n]
      BY <2>3, <3>2 DEF Overlaid
    <3>4. terms[n][s].epoch > 0 /\ terms[n][s].owner = n
      BY <2>1, <2>7, <3>2
    <3> QED
      BY <2>8, <3>1, <3>3, <3>4, Zenon DEF CanWrite
  <2> QED
    BY <2>3, <2>7, <2>8, Zenon DEF n, s, e
<1>2. AnyInv /\ ChainInv /\ [Next]_vars => ChainInv'
  BY ChainStep, ChainKept, ChainMoves, Zenon
<1>3. AnyInv /\ AnyInv' /\ ChainInv /\ AloneInv /\ ServeInv /\ [Next]_vars => ServeInv'
  BY ServeStep, Zenon
<1> QED
  BY <1>1, <1>2, <1>3, ChainInit, ServeInit, AloneAlways, PeersStayOpen, PTL DEF Spec, CommitServes

-----------------------------------------------------------------------------
(* What holds beyond it when the operator sends one ownership request at a *)
(* time and no request runs after its sender has given up.  TLC has a      *)
(* counterexample without either.                                          *)

\* The authority's term of a scope.
Authority(s) == store[Chef].terms[s]

\* No store is in conflict, and whoever runs with a snapshot has it open.
NodesOpen ==
    /\ \A n \in Node : ~conflict[n]
    /\ \A n \in Node : up[n] /\ store[n].revision > 0 => ready[n]
    /\ up[Chef] => store[Chef].revision > 0

\* Epochs never fall from one revision to a later one, and an epoch of a scope
\* names one term.
EpochsOrdered ==
    /\ \A p, q \in published : p.revision <= q.revision =>
         \A s \in Scope : p.terms[s].epoch <= q.terms[s].epoch
    /\ \A p, q \in published, s \in Scope :
         p.terms[s].epoch = q.terms[s].epoch => p.terms[s] = q.terms[s]
    /\ \A p \in published, s \in Scope : p.terms[s].epoch = 0 => p.terms[s] = Unknown

\* Whoever owned a scope at an epoch that is over has retired it, or has
\* installed a later term.
Fenced ==
    \A p \in published, s \in Scope : LET t == p.terms[s] IN
        (0 < t.epoch /\ t.epoch < Authority(s).epoch) =>
            overlay[t.owner][s] >= t.epoch \/ store[t.owner].terms[s].epoch > t.epoch

\* Nobody has retired a term the authority has not given.
RetiredPast == \A n \in Node, s \in Scope : overlay[n][s] <= Authority(s).epoch

\* Where a handoff is in the order retire, install, replicate, commit.
SagaAt(r) ==
    /\ r.pc \in {"prepare", "build", "install"} =>
         r.epoch > 0 /\ Authority(r.scope) = [owner |-> r.source, epoch |-> r.epoch]
    /\ r.pc \in {"build", "install"} \/ (r.pc = "prepare" /\ r.rpc = "ok") =>
         overlay[r.source][r.scope] >= r.epoch
    /\ r.pc = "install" =>
         r.snap = [revision |-> store[Chef].revision + 1,
                   terms |-> [store[Chef].terms EXCEPT ![r.scope] =
                                [owner |-> r.target, epoch |-> r.epoch + 1]]]
    /\ r.pc \in {"source", "target", "commit"} =>
         /\ r.snap = store[Chef]
         /\ Authority(r.scope) = [owner |-> r.target, epoch |-> r.epoch + 1]
         /\ \A n \in Node : overlay[n][r.scope] <= r.epoch
    /\ r.pc = "commit" /\ r.rpc = "ok" =>
         /\ store[r.target].terms[r.scope] = [owner |-> r.target, epoch |-> r.epoch + 1]
         /\ overlay[r.target][r.scope] = 0

\* One request at a time.
OneRequest ==
    /\ \A h, k \in Saga : Busy(h) /\ Busy(k) => h = k
    /\ \A h \in Saga : Busy(h) => draft = NoSnapshot
    /\ draft # NoSnapshot => \E S \in SUBSET Missing : S # {} /\ draft = Extended(S)
    /\ late = {}

SerialInv ==
    /\ AnyInv
    /\ NodesOpen /\ EpochsOrdered /\ Fenced /\ RetiredPast
    /\ \A h \in Saga : SagaAt(saga[h])
    /\ OneRequest
-----------------------------------------------------------------------------
HIDE DEF Term, Snapshot

\* The types the leaves need.
LEMMA Epochs ==
    ASSUME TypeOK
    PROVE  /\ \A n \in Node : store[n].revision \in Nat /\ store[n].terms \in [Scope -> Term]
           /\ \A n \in Node, s \in Scope : /\ store[n].terms[s] \in Term
                                          /\ store[n].terms[s].epoch \in Nat
                                          /\ store[n].terms[s].owner \in Node
                                          /\ overlay[n][s] \in Nat
           /\ \A p \in published : p.revision \in Nat /\ p.terms \in [Scope -> Term]
           /\ \A p \in published, s \in Scope : /\ p.terms[s] \in Term
                                               /\ p.terms[s].epoch \in Nat
                                               /\ p.terms[s].owner \in Node
<1>1. \A n \in Node : store[n] \in Snapshot /\ overlay[n] \in [Scope -> Nat]
  BY Zenon DEF TypeOK
<1>2. \A p \in published : p \in Snapshot
  BY Zenon DEF TypeOK
<1>3. QED
  BY <1>1, <1>2, Zenon DEF Snapshot, Term

\* No store is ahead of the authority, and at the authority's epoch it has the
\* authority's term.
LEMMA StoreBelow ==
    ASSUME AnyInv, EpochsOrdered, NEW n \in Node, NEW s \in Scope
    PROVE  /\ store[n].terms[s].epoch <= Authority(s).epoch
           /\ store[n].terms[s].epoch = Authority(s).epoch => store[n].terms[s] = Authority(s)
           /\ Authority(s).epoch = 0 => Authority(s) = Unknown
<1> USE DEF AnyInv, Authority
<1>1. store[n] \in published \cup {NoSnapshot} /\ store[Chef] \in published \cup {NoSnapshot}
  BY Zenon DEF StoreOrders
<1>2. NoSnapshot.terms[s] = Unknown /\ Unknown.epoch = 0
  BY Zenon DEF NoSnapshot, Unknown
<1>3. Authority(s).epoch = 0 => Authority(s) = Unknown
  BY <1>1, <1>2, Zenon DEF EpochsOrdered
<1>4. CASE store[n] = NoSnapshot
  <2>1. store[Chef].terms[s].epoch \in Nat
    BY Epochs, Zenon
  <2>2. QED
    BY <1>2, <1>3, <1>4, <2>1
<1>5. CASE store[n] \in published
  <2>1. store[n].revision > 0 /\ store[n].revision <= store[Chef].revision
    BY <1>5, Zenon DEF StoreOrders
  <2>2. store[Chef] \in published
    BY <1>1, <2>1, Constants, Epochs
  <2>3. QED
    BY <1>3, <1>5, <2>1, <2>2, Zenon DEF EpochsOrdered
<1>6. QED
  BY <1>1, <1>4, <1>5, Zenon

\* The same of every snapshot the chef has ever installed.
LEMMA PublishedBelow ==
    ASSUME AnyInv, EpochsOrdered, NEW p \in published, NEW s \in Scope
    PROVE  /\ p.terms[s].epoch \in Nat /\ p.terms[s].epoch <= Authority(s).epoch
           /\ p.terms[s].epoch = Authority(s).epoch => p.terms[s] = Authority(s)
           /\ p.revision \in Nat /\ p.revision <= store[Chef].revision
<1>1. /\ p.revision > 0 /\ p.revision <= store[Chef].revision
      /\ p.revision \in Nat /\ store[Chef].revision \in Nat
  BY Epochs, Zenon DEF AnyInv, StoreOrders
<1>2. store[Chef] \in published
  BY <1>1, Constants DEF AnyInv, StoreOrders
<1>3. p.terms[s].epoch \in Nat
  BY Epochs, Zenon DEF AnyInv
<1>4. QED
  BY <1>1, <1>2, <1>3, Zenon DEF EpochsOrdered, Authority

\* Whoever can write a scope holds the authority's term of it.
LEMMA WriterOwns ==
    ASSUME SerialInv, NEW n \in Node, NEW s \in Scope, CanWrite(n, s)
    PROVE  /\ Authority(s).epoch > 0 /\ Authority(s).owner = n
           /\ store[n].terms[s] = Authority(s)
           /\ overlay[n][s] = 0
<1> USE DEF SerialInv
<1>1. up[n] /\ ready[n] /\ terms[n][s].epoch > 0 /\ terms[n][s].owner = n /\ s \notin retired[n]
  BY Zenon DEF CanWrite
<1>2. terms[n] = store[n].terms /\ retired[n] = Overlaid(overlay[n])
  BY <1>1, Zenon DEF AnyInv, OpenInv, OpenAt
<1>3. overlay[n][s] = 0
  BY <1>1, <1>2, Epochs DEF Overlaid, AnyInv
<1>4. store[n].terms[s].epoch > 0 /\ store[n].terms[s].owner = n
  BY <1>1, <1>2, Zenon
<1>5. store[n] \in published
  BY <1>4, Constants, SMTT(20) DEF AnyInv, StoreOrders
<1>6. ~(store[n].terms[s].epoch < Authority(s).epoch)
  BY <1>3, <1>4, <1>5, Epochs DEF Fenced, AnyInv
<1>7. store[n].terms[s].epoch = Authority(s).epoch
  <2>1. store[n].terms[s].epoch <= Authority(s).epoch
    BY StoreBelow, Zenon
  <2>2. store[n].terms[s].epoch \in Nat /\ Authority(s).epoch \in Nat
    BY Epochs, Zenon DEF AnyInv, Authority
  <2>3. QED
    BY <1>6, <2>1, <2>2
<1>8. QED
  BY <1>3, <1>4, <1>7, StoreBelow, Zenon
\* A step that leaves the authority alone: stores only advance, and an overlay
\* goes only where the authority's own term is installed.
LEMMA SameAuthority ==
    ASSUME SerialInv, TypeOK', store'[Chef] = store[Chef], published' = published,
           \A n \in Node, s \in Scope :
             /\ store'[n].terms[s].epoch >= store[n].terms[s].epoch
             /\ overlay'[n][s] >= overlay[n][s] \/ store'[n].terms[s] = Authority(s)
             /\ overlay'[n][s] <= Authority(s).epoch
    PROVE  EpochsOrdered' /\ Fenced' /\ RetiredPast'
<1> USE DEF SerialInv
<1>1. EpochsOrdered'
  BY Zenon DEF EpochsOrdered
<1>2. RetiredPast'
  BY Zenon DEF RetiredPast, Authority
<1>3. ASSUME NEW p \in published, NEW s \in Scope,
             0 < p.terms[s].epoch, p.terms[s].epoch < Authority(s).epoch
      PROVE  \/ overlay'[p.terms[s].owner][s] >= p.terms[s].epoch
             \/ store'[p.terms[s].owner].terms[s].epoch > p.terms[s].epoch
  <2> DEFINE n == p.terms[s].owner
             e == p.terms[s].epoch
  <2>1. n \in Node /\ e \in Nat /\ store[n].terms[s].epoch \in Nat /\ overlay[n][s] \in Nat
    BY Epochs, Zenon DEF AnyInv
  <2>2. store'[n].terms[s].epoch \in Nat /\ overlay'[n][s] \in Nat
    <3>1. store'[n] \in Snapshot /\ overlay'[n] \in [Scope -> Nat]
      BY <2>1, Zenon DEF TypeOK
    <3>2. QED
      BY <3>1, Zenon DEF Snapshot, Term
  <2>3. overlay[n][s] >= e \/ store[n].terms[s].epoch > e
    BY <1>3, Zenon DEF Fenced
  <2>4. store'[n].terms[s].epoch >= store[n].terms[s].epoch
    BY <2>1, Zenon
  <2>5. overlay'[n][s] >= overlay[n][s] \/ store'[n].terms[s] = Authority(s)
    BY <2>1, Zenon
  <2>6. e < Authority(s).epoch
    BY <1>3, Zenon
  <2> HIDE DEF n, e
  <2>7. overlay'[n][s] >= e \/ store'[n].terms[s].epoch > e
    BY <2>1, <2>2, <2>3, <2>4, <2>5, <2>6
  <2>8. QED
    BY <2>7, Zenon DEF n, e
<1>4. Fenced'
  BY <1>3, Zenon DEF Fenced, Authority
<1>5. QED
  BY <1>1, <1>2, <1>4, Zenon

\* What a next snapshot of the chef may be: it keeps a term, or gives the next
\* epoch once the owner of the old one has retired.
Successor(g) ==
    /\ g.revision = store[Chef].revision + 1
    /\ \A s \in Scope :
         \/ g.terms[s] = Authority(s)
         \/ /\ g.terms[s].epoch = Authority(s).epoch + 1
            /\ Authority(s).epoch > 0 => overlay[Authority(s).owner][s] >= Authority(s).epoch

\* A successor of the authority is installed.
LEMMA SuccessorInstalls ==
    ASSUME SerialInv, NEW g \in Snapshot, Successor(g)
    PROVE  InstallOutcome(Chef, g) = "installed"
<1>1. ~conflict[Chef] /\ store[Chef].revision \in Nat /\ g.revision = store[Chef].revision + 1
  BY Epochs, Zenon DEF SerialInv, AnyInv, NodesOpen, Successor
<1>2. \A s \in Scope : g.terms[s].epoch >= store[Chef].terms[s].epoch /\ g.terms[s].epoch \in Nat
  <2> TAKE s \in Scope
  <2>1. g.terms[s] \in Term /\ store[Chef].terms[s].epoch \in Nat
    BY Epochs, Zenon DEF Snapshot, SerialInv, AnyInv
  <2>2. QED
    BY <2>1 DEF Successor, Authority, Term
<1>3. ~\E s \in Scope : g.terms[s].epoch > 0 /\ g.terms[s].epoch < store[Chef].terms[s].epoch
  <2>1. \A s \in Scope : store[Chef].terms[s].epoch \in Nat
    BY Epochs, Zenon DEF SerialInv, AnyInv
  <2>2. QED
    BY <1>2, <2>1
<1>4. QED
  BY <1>1, <1>3 DEF InstallOutcome

\* And it keeps what the epochs say of who has retired.
LEMMA NewAuthority ==
    ASSUME SerialInv, TypeOK', NEW g \in Snapshot, Successor(g),
           store' = [store EXCEPT ![Chef] = g], overlay' = overlay,
           published' = published \cup {g}
    PROVE  EpochsOrdered' /\ Fenced' /\ RetiredPast'
<1> USE DEF SerialInv
<1>1. /\ store'[Chef] = g /\ \A n \in Node \ {Chef} : store'[n] = store[n]
      /\ \A s \in Scope : Authority(s)' = g.terms[s]
  BY Zenon DEF AnyInv, TypeOK, Authority
<1>2. \A s \in Scope : /\ g.terms[s] \in Term /\ g.terms[s].epoch \in Nat
                       /\ Authority(s) \in Term /\ Authority(s).epoch \in Nat
                       /\ g.terms[s].epoch >= Authority(s).epoch
                       /\ g.terms[s].epoch = Authority(s).epoch => g.terms[s] = Authority(s)
  <2> TAKE s \in Scope
  <2>1. /\ g.terms[s] \in Term /\ g.terms[s].epoch \in Nat
        /\ Authority(s) \in Term /\ Authority(s).epoch \in Nat
    BY Epochs, Zenon DEF Snapshot, Term, AnyInv, Authority
  <2>2. QED
    BY <2>1 DEF Successor
<1>3. \A p \in published, s \in Scope :
         /\ p.terms[s].epoch \in Nat /\ p.terms[s].epoch <= Authority(s).epoch
         /\ p.terms[s].epoch = Authority(s).epoch => p.terms[s] = Authority(s)
         /\ p.revision \in Nat /\ p.revision < g.revision
  <2>1. store[Chef].revision \in Nat
    BY Epochs, Zenon DEF AnyInv
  <2>2. QED
    BY <2>1, PublishedBelow DEF Successor
<1>4. EpochsOrdered'
  <2>1. ASSUME NEW p \in published', NEW q \in published', p.revision <= q.revision,
               NEW s \in Scope
        PROVE  p.terms[s].epoch <= q.terms[s].epoch
    <3>1. CASE q = g
      BY <1>2, <1>3, <3>1
    <3>2. CASE q # g
      <4>1. q \in published /\ q.revision \in Nat /\ g.revision \in Nat /\ q.revision < g.revision
        BY <1>3, <3>2, Zenon DEF Snapshot
      <4>2. p \in published
        BY <2>1, <4>1
      <4>3. QED
        BY <2>1, <4>1, <4>2, Zenon DEF EpochsOrdered
    <3>3. QED
      BY <3>1, <3>2, Zenon
  <2>2. ASSUME NEW p \in published', NEW q \in published', NEW s \in Scope,
               p.terms[s].epoch = q.terms[s].epoch
        PROVE  p.terms[s] = q.terms[s]
    <3>1. \A r \in published : r.terms[s].epoch = g.terms[s].epoch => r.terms[s] = g.terms[s]
      BY <1>2, <1>3, SMTT(20)
    <3>2. QED
      BY <2>2, <3>1, Zenon DEF EpochsOrdered
  <2>3. ASSUME NEW p \in published', NEW s \in Scope, p.terms[s].epoch = 0
        PROVE  p.terms[s] = Unknown
    <3>1. Authority(s).epoch = 0 => Authority(s) = Unknown
      BY StoreBelow, Zenon
    <3>2. QED
      BY <1>2, <2>3, <3>1 DEF EpochsOrdered
  <2>4. QED
    BY <2>1, <2>2, <2>3, Zenon DEF EpochsOrdered
<1>5. RetiredPast'
  <2> SUFFICES ASSUME NEW n \in Node, NEW s \in Scope PROVE overlay'[n][s] <= g.terms[s].epoch
    BY <1>1, Zenon DEF RetiredPast
  <2>1. overlay[n][s] \in Nat /\ overlay[n][s] <= Authority(s).epoch
    BY Epochs, Zenon DEF AnyInv, RetiredPast
  <2>2. QED
    BY <1>2, <2>1
<1>6. Fenced'
  <2> SUFFICES ASSUME NEW p \in published', NEW s \in Scope,
                      0 < p.terms[s].epoch, p.terms[s].epoch < g.terms[s].epoch
               PROVE  \/ overlay[p.terms[s].owner][s] >= p.terms[s].epoch
                      \/ store'[p.terms[s].owner].terms[s].epoch > p.terms[s].epoch
    BY <1>1, Zenon DEF Fenced
  <2>1. p \in published
    <3>1. p # g
      BY <1>2
    <3>2. QED
      BY <3>1, Zenon
  <2> DEFINE n == p.terms[s].owner
             e == p.terms[s].epoch
  <2>2. n \in Node /\ e \in Nat /\ store[n].terms[s].epoch \in Nat
    BY <2>1, Epochs, Zenon DEF AnyInv
  <2>3. CASE p.terms[s].epoch < Authority(s).epoch
    <3>1. overlay[n][s] >= e \/ store[n].terms[s].epoch > e
      BY <2>1, <2>3, Zenon DEF Fenced
    <3> HIDE DEF n, e
    <3>2. CASE n = Chef
      <4>1. store'[n].terms[s].epoch >= store[n].terms[s].epoch /\ store'[n].terms[s].epoch \in Nat
        BY <1>1, <1>2, <3>2, Zenon DEF Authority
      <4>2. overlay[n][s] >= e \/ store'[n].terms[s].epoch > e
        BY <2>2, <3>1, <4>1
      <4>3. QED
        BY <4>2, Zenon DEF n, e
    <3>3. CASE n # Chef
      <4>1. store'[n] = store[n]
        BY <1>1, <2>2, <3>3, Zenon
      <4>2. overlay[n][s] >= e \/ store'[n].terms[s].epoch > e
        BY <3>1, <4>1, Zenon
      <4>3. QED
        BY <4>2, Zenon DEF n, e
    <3>4. QED
      BY <3>2, <3>3, Zenon
  <2>4. CASE p.terms[s].epoch = Authority(s).epoch
    <3>1. p.terms[s] = Authority(s)
      BY <1>3, <2>1, <2>4, Zenon
    <3>2. g.terms[s] # Authority(s)
      BY <1>2, <2>4
    <3>3. QED
      BY <2>4, <3>1, <3>2, Zenon DEF Successor
  <2> HIDE DEF n, e
  <2>5. p.terms[s].epoch < Authority(s).epoch \/ p.terms[s].epoch = Authority(s).epoch
    BY <1>2, <1>3, <2>1
  <2>6. QED
    BY <2>3, <2>4, <2>5, Zenon
<1>7. QED
  BY <1>4, <1>5, <1>6, Zenon
-----------------------------------------------------------------------------
(* The steps.                                                              *)

\* What the operator and the network do.
Quiet == Serial /\ ~LateExecution

\* A handoff's position is the same where the authority and the overlays are.
LEMMA SagaKept ==
    ASSUME SerialInv, NEW h \in Saga, saga'[h] = saga[h],
           store'[Chef] = store[Chef], overlay' = overlay,
           \A n \in Node, s \in Scope :
             store[n].terms[s] = Authority(s) => store'[n].terms[s] = Authority(s)
    PROVE  SagaAt(saga[h])'
<1>1. SagaAt(saga[h]) /\ saga[h].scope \in Scope /\ saga[h].target \in Node
  BY Zenon DEF SerialInv, AnyInv, TypeOK, SagaState
<1> DEFINE r == saga[h]
<1>2. \A s \in Scope : Authority(s)' = Authority(s)
  BY Zenon DEF Authority
<1>3. (r.pc = "commit" /\ r.rpc = "ok") =>
        store'[r.target].terms[r.scope] = [owner |-> r.target, epoch |-> r.epoch + 1]
  BY <1>1, Zenon DEF SagaAt
<1>4. QED
  BY <1>1, <1>2, <1>3, Zenon DEF SagaAt, Authority

\* A step adds no request to those there are, and leaves the authority alone.
LEMMA RequestsKept ==
    ASSUME SerialInv, \A h \in Saga : Busy(h)' => Busy(h),
           store'[Chef] = store[Chef], draft' \in {draft, NoSnapshot}, late' = {}
    PROVE  OneRequest'
<1>1. Missing' = Missing /\ \A S \in SUBSET Scope : Extended(S)' = Extended(S)
  BY Zenon DEF Missing, Extended
<1>2. Missing \in SUBSET Scope
  BY Zenon DEF Missing
<1>3. draft' # NoSnapshot => \E S \in SUBSET Missing' : S # {} /\ draft' = Extended(S)'
  BY <1>1, <1>2, Zenon DEF SerialInv, OneRequest
<1>4. QED
  BY <1>3, Zenon DEF SerialInv, OneRequest

\* A step of a handoff that touches no node.
LEMMA SerialLocal ==
    ASSUME SerialInv, AnyInv', NEW h \in Saga, late' = {},
           UNCHANGED <<durable, up, registry, draft, published>>,
           \A k \in Saga \ {h} : saga'[k] = saga[k],
           Busy(h)' => Busy(h) \/ (draft = NoSnapshot /\ \A k \in Saga : ~Busy(k)),
           SagaAt(saga[h])'
    PROVE  SerialInv'
<1>1. UNCHANGED <<store, conflict, overlay, up, terms, retired, ready, draft, published>>
  BY Zenon DEF durable, registry
<1>2. NodesOpen' /\ EpochsOrdered' /\ Fenced' /\ RetiredPast'
  BY <1>1, Zenon DEF SerialInv, NodesOpen, EpochsOrdered, Fenced, RetiredPast, Authority
<1>3. \A k \in Saga : SagaAt(saga[k])'
  <2> TAKE k \in Saga
  <2>1. CASE k = h
    BY <2>1, Zenon
  <2>2. CASE k # h
    BY <1>1, <2>2, SagaKept, Zenon
  <2>3. QED
    BY <2>1, <2>2, Zenon
<1>4. OneRequest'
  <2>1. Missing' = Missing /\ \A S \in SUBSET Scope : Extended(S)' = Extended(S)
    BY <1>1, Zenon DEF Missing, Extended
  <2>2. Missing \in SUBSET Scope
    BY Zenon DEF Missing
  <2>3. draft' # NoSnapshot => \E S \in SUBSET Missing' : S # {} /\ draft' = Extended(S)'
    BY <1>1, <2>1, <2>2, Zenon DEF SerialInv, OneRequest
  <2>4. \A k \in Saga \ {h} : Busy(k)' = Busy(k)
    BY Zenon DEF Busy
  <2>5. \A j, k \in Saga : Busy(j)' /\ Busy(k)' => j = k
    BY <2>4, Zenon DEF SerialInv, OneRequest
  <2>6. \A k \in Saga : Busy(k)' => draft' = NoSnapshot
    BY <1>1, <2>4, Zenon DEF SerialInv, OneRequest
  <2>7. QED
    BY <2>3, <2>5, <2>6, Zenon DEF OneRequest
<1>5. QED
  BY <1>2, <1>3, <1>4, Zenon DEF SerialInv
LEMMA SerialInit == Init => SerialInv
<1> SUFFICES ASSUME Init PROVE SerialInv
  BY Zenon
<1>1. AnyInv
  BY AnyInit, Zenon
<1>2. /\ \A n \in Node : ~up[n] /\ ~conflict[n] /\ \A s \in Scope : overlay[n][s] = 0
      /\ published = {} /\ late = {} /\ draft = NoSnapshot
      /\ \A h \in Saga : saga[h].pc = "idle"
  BY Constants, Zenon DEF Init
<1>3. \A s \in Scope : Authority(s).epoch \in Nat
  BY <1>1, Epochs, Zenon DEF AnyInv, Authority
<1>4. NodesOpen /\ EpochsOrdered /\ Fenced /\ RetiredPast
  BY <1>2, <1>3 DEF NodesOpen, EpochsOrdered, Fenced, RetiredPast
<1>5. OneRequest /\ \A h \in Saga : SagaAt(saga[h])
  BY <1>2, Zenon DEF OneRequest, SagaAt, Busy
<1>6. QED
  BY <1>1, <1>4, <1>5, Zenon DEF SerialInv

\* Nothing is left behind.
LEMMA NothingLate ==
    ASSUME Quiet, SerialInv, NEW h \in Saga
    PROVE  late = {} /\ Abandoned(h) = {}
  BY Zenon DEF Quiet, SerialInv, OneRequest, Abandoned

\* The steps of a handoff that touch no node.
LEMMA SerialLocals ==
    ASSUME Quiet, SerialInv, AnyInv', NEW h \in Saga,
           \/ \E s \in Scope, t \in Node : BeginHandoff(h, s, t)
           \/ Prepared(h) \/ Abort(h) \/ BuildSnapshot(h)
           \/ Replicated(h) \/ Committed(h) \/ Fail(h)
    PROVE  SerialInv'
<1>0. /\ saga[h] \in SagaState /\ saga \in [Saga -> SagaState] /\ SagaAt(saga[h])
      /\ late = {} /\ Abandoned(h) = {}
  BY NothingLate, Zenon DEF SerialInv, AnyInv, TypeOK
<1>1. ASSUME NEW s \in Scope, NEW t \in Node, BeginHandoff(h, s, t) PROVE SerialInv'
  <2> DEFINE r == [pc |-> "prepare", rpc |-> "sent", scope |-> s,
                   source |-> terms[Chef][s].owner, target |-> t,
                   epoch |-> terms[Chef][s].epoch, snap |-> NoSnapshot]
  <2>1. /\ MayStart /\ terms[Chef][s].epoch > 0
        /\ saga' = [saga EXCEPT ![h] = r]
        /\ UNCHANGED <<durable, up, registry, draft, published, late>>
    BY <1>1, Zenon DEF BeginHandoff
  <2>2. up[Chef] /\ draft = NoSnapshot /\ \A k \in Saga : ~Busy(k)
    BY <2>1, Zenon DEF MayStart, Quiet
  <2>3. ready[Chef]
    BY <2>2, Zenon DEF SerialInv, NodesOpen
  <2>4. terms[Chef] = store[Chef].terms
    BY <2>3, Zenon DEF SerialInv, AnyInv, OpenInv, OpenAt
  <2>5. store'[Chef] = store[Chef]
    BY <2>1, Zenon DEF durable
  <2>6. Authority(s)' = [owner |-> terms[Chef][s].owner, epoch |-> terms[Chef][s].epoch]
    <3>1. store[Chef].terms[s] \in Term
      BY Epochs, Zenon DEF SerialInv, AnyInv
    <3>2. QED
      BY <2>4, <2>5, <3>1, Zenon DEF Authority, Term
  <2>7. saga'[h] = r /\ \A k \in Saga \ {h} : saga'[k] = saga[k]
    BY <1>0, <2>1, Zenon
  <2>7a. /\ r.pc = "prepare" /\ r.rpc = "sent" /\ r.scope = s
         /\ r.source = terms[Chef][s].owner /\ r.epoch = terms[Chef][s].epoch
    BY Zenon
  <2> HIDE DEF r
  <2>8. SagaAt(saga[h])'
    <3>1. /\ saga'[h].pc = "prepare" /\ saga'[h].rpc = "sent" /\ saga'[h].scope = s
          /\ saga'[h].source = terms[Chef][s].owner /\ saga'[h].epoch = terms[Chef][s].epoch
      BY <2>7, <2>7a, Zenon
    <3>2. QED
      BY <2>1, <2>6, <3>1, Zenon DEF SagaAt
  <2>9. QED
    BY <1>0, <2>1, <2>2, <2>7, <2>8, SerialLocal, Zenon
<1>2. CASE Prepared(h)
  <2>1. /\ saga' = [saga EXCEPT ![h] = [saga[h] EXCEPT !.pc = "build", !.rpc = "none"]]
        /\ saga[h].pc = "prepare" /\ saga[h].rpc = "ok"
        /\ UNCHANGED <<durable, up, registry, draft, published, late>>
    BY <1>2, Zenon DEF Prepared
  <2>2. /\ saga'[h] = [saga[h] EXCEPT !.pc = "build", !.rpc = "none"]
        /\ \A k \in Saga \ {h} : saga'[k] = saga[k]
    BY <1>0, <2>1, Zenon
  <2>3. /\ saga'[h].pc = "build" /\ saga'[h].scope = saga[h].scope
        /\ saga'[h].source = saga[h].source /\ saga'[h].epoch = saga[h].epoch
    BY <1>0, <2>2, Zenon DEF SagaState
  <2>4. store' = store /\ overlay' = overlay
    BY <2>1, Zenon DEF durable
  <2>5. SagaAt(saga[h])'
    BY <1>0, <2>1, <2>3, <2>4 DEF SagaAt, Authority
  <2>6. QED
    BY <1>0, <2>1, <2>2, <2>5, SerialLocal, Zenon DEF Busy
<1>3. CASE Replicated(h)
  <2> DEFINE c == IF saga[h].pc = "source" THEN "target" ELSE "commit"
  <2>1. /\ saga' = [saga EXCEPT ![h] = [saga[h] EXCEPT !.pc = c, !.rpc = "sent"]]
        /\ saga[h].pc \in {"source", "target"}
        /\ UNCHANGED <<durable, up, registry, draft, published, late>>
    BY <1>3, Zenon DEF Replicated
  <2>2. /\ saga'[h] = [saga[h] EXCEPT !.pc = c, !.rpc = "sent"]
        /\ \A k \in Saga \ {h} : saga'[k] = saga[k]
    BY <1>0, <2>1, Zenon
  <2>3. /\ saga'[h].pc \in {"target", "commit"} /\ saga'[h].rpc = "sent"
        /\ saga'[h].scope = saga[h].scope /\ saga'[h].target = saga[h].target
        /\ saga'[h].epoch = saga[h].epoch /\ saga'[h].snap = saga[h].snap
    BY <1>0, <2>2 DEF SagaState
  <2>4. store' = store /\ overlay' = overlay
    BY <2>1, Zenon DEF durable
  <2>5. SagaAt(saga[h])'
    BY <1>0, <2>1, <2>3, <2>4, Zenon DEF SagaAt, Authority
  <2>6. QED
    BY <1>0, <2>1, <2>2, <2>5, SerialLocal, Zenon DEF Busy
<1>4. CASE BuildSnapshot(h)
  <2> DEFINE g == [revision |-> store[Chef].revision + 1,
                   terms |-> [store[Chef].terms EXCEPT ![saga[h].scope] =
                                [owner |-> saga[h].target, epoch |-> saga[h].epoch + 1]]]
  <2>1. /\ saga' = [saga EXCEPT ![h] = [saga[h] EXCEPT !.pc = "install", !.snap = g]]
        /\ saga[h].pc = "build"
        /\ UNCHANGED <<durable, up, registry, draft, published, late>>
    BY <1>4, Zenon DEF BuildSnapshot
  <2>2. /\ saga'[h] = [saga[h] EXCEPT !.pc = "install", !.snap = g]
        /\ \A k \in Saga \ {h} : saga'[k] = saga[k]
    BY <1>0, <2>1, Zenon
  <2>3. /\ saga'[h].pc = "install" /\ saga'[h].snap = g
        /\ saga'[h].scope = saga[h].scope /\ saga'[h].target = saga[h].target
        /\ saga'[h].source = saga[h].source /\ saga'[h].epoch = saga[h].epoch
    BY <1>0, <2>2, Zenon DEF SagaState
  <2>4. store' = store /\ overlay' = overlay
    BY <2>1, Zenon DEF durable
  <2>5. SagaAt(saga[h])'
    BY <1>0, <2>1, <2>3, <2>4, Zenon DEF SagaAt, Authority
  <2>6. QED
    BY <1>0, <2>1, <2>2, <2>5, SerialLocal, Zenon DEF Busy
<1>5. CASE Abort(h) \/ Committed(h) \/ Fail(h)
  <2>1. saga' = [saga EXCEPT ![h] = IdleSaga] /\ UNCHANGED <<durable, up, registry, draft, published>>
    BY <1>5, Zenon DEF Abort, Committed, Fail
  <2>2. late' = {}
    BY <1>0, <1>5, Zenon DEF Abort, Committed, Fail
  <2>3. saga'[h].pc = "idle" /\ \A k \in Saga \ {h} : saga'[k] = saga[k]
    BY <1>0, <2>1, Constants, Zenon
  <2>4. SagaAt(saga[h])' /\ ~Busy(h)'
    BY <2>3, Zenon DEF SagaAt, Busy
  <2>5. QED
    BY <2>1, <2>2, <2>3, <2>4, SerialLocal, Zenon
<1>6. QED
  BY <1>1, <1>2, <1>3, <1>4, <1>5, Zenon
\* A peer that gets a snapshot of the chef's advances, and is open.
LEMMA PeerAdvances ==
    ASSUME SerialInv, AnyInv', NEW n \in Node \ {Chef}, NEW g \in published, up[n],
           up' = up, published' = published, HandleReplicate(n, g)
    PROVE  /\ NodesOpen' /\ EpochsOrdered' /\ Fenced' /\ RetiredPast'
           /\ store'[Chef] = store[Chef] /\ overlay' = overlay
           /\ \A m \in Node, s \in Scope :
                store[m].terms[s] = Authority(s) => store'[m].terms[s] = Authority(s)
<1> USE DEF SerialInv
<1>1. g \in Snapshot /\ InstallSnapshot(n, g)
  BY Zenon DEF AnyInv, TypeOK, HandleReplicate
<1>2. /\ \A m \in Node \ {n} : store'[m] = store[m] /\ conflict'[m] = conflict[m]
      /\ overlay' = overlay
      /\ store'[n] = store[n] \/ (store'[n] = g /\ g.revision > store[n].revision)
  BY <1>1, InstallFacts, Zenon DEF AnyInv
<1>3. ~conflict'[n]
  BY PeerReplicates, Zenon
<1>4. RebuildRegistry(n)
  <2>1. InstallOutcome(n, g) # "conflict"
    BY <1>1, <1>3, InstallFacts, Zenon DEF AnyInv
  <2>2. QED
    BY <2>1, Zenon DEF HandleReplicate
<1>5. ready'[n] /\ \A m \in Node \ {n} : ready'[m] = ready[m]
  BY <1>4, RebuildFacts, Zenon DEF AnyInv, TypeOK
<1>6. store'[Chef] = store[Chef]
  BY <1>2, Zenon
<1>7. NodesOpen'
  <2>1. \A m \in Node : ~conflict'[m]
    BY <1>2, <1>3, Zenon DEF NodesOpen
  <2>2. ASSUME NEW m \in Node, up'[m], store'[m].revision > 0 PROVE ready'[m]
    <3>1. CASE m = n
      BY <1>5, <3>1, Zenon
    <3>2. CASE m # n
      BY <1>2, <1>5, <2>2, <3>2, Zenon DEF NodesOpen
    <3>3. QED
      BY <3>1, <3>2, Zenon
  <2>3. QED
    BY <1>6, <2>1, <2>2, Zenon DEF NodesOpen
<1>8. ASSUME NEW s \in Scope
      PROVE  /\ store'[n].terms[s].epoch >= store[n].terms[s].epoch
             /\ store[n].terms[s] = Authority(s) => store'[n].terms[s] = Authority(s)
  <2>1. store[n].terms[s].epoch \in Nat /\ store[n].revision \in Nat
    BY Epochs, Zenon DEF AnyInv
  <2>2. CASE store'[n] = store[n]
    <3>1. \A x \in Nat : x >= x
      OBVIOUS
    <3> QED
      BY <2>1, <2>2, <3>1, Zenon
  <2>3. CASE store'[n] = g /\ g.revision > store[n].revision
    <3>1. /\ g.terms[s].epoch \in Nat /\ g.terms[s].epoch <= Authority(s).epoch
          /\ g.terms[s].epoch = Authority(s).epoch => g.terms[s] = Authority(s)
          /\ g.revision \in Nat
      BY PublishedBelow, Zenon
    <3>2. g.terms[s].epoch >= store[n].terms[s].epoch
      <4>1. CASE store[n] = NoSnapshot
        BY <3>1, <4>1, Constants, SMTT(20)
      <4>2. CASE store[n] \in published
        BY <2>1, <2>3, <3>1, <4>2 DEF EpochsOrdered
      <4>3. QED
        BY <4>1, <4>2, Zenon DEF AnyInv, StoreOrders
    <3>3. QED
      BY <2>1, <2>3, <3>1, <3>2
  <2>4. QED
    BY <1>2, <2>2, <2>3, Zenon
<1>9. EpochsOrdered' /\ Fenced' /\ RetiredPast'
  <2>1. ASSUME NEW m \in Node, NEW s \in Scope
        PROVE  /\ store'[m].terms[s].epoch >= store[m].terms[s].epoch
               /\ overlay'[m][s] >= overlay[m][s]
               /\ overlay'[m][s] <= Authority(s).epoch
    <3>1. store[m].terms[s].epoch \in Nat /\ overlay[m][s] \in Nat
      BY Epochs, Zenon DEF AnyInv
    <3>2. overlay[m][s] <= Authority(s).epoch
      BY Zenon DEF RetiredPast
    <3>3. store'[m].terms[s].epoch >= store[m].terms[s].epoch
      BY <1>2, <1>8, <3>1
    <3>4. QED
      BY <1>2, <3>1, <3>2, <3>3
  <2>2. TypeOK'
    BY Zenon DEF AnyInv
  <2>3. QED
    BY <1>6, <2>1, <2>2, SameAuthority, Zenon
<1>10. QED
  BY <1>2, <1>6, <1>7, <1>8, <1>9, Zenon
\* The chef that installs a successor of the authority is open on it.
LEMMA ChefAdvances ==
    ASSUME SerialInv, AnyInv', NEW g \in Snapshot, Successor(g), up[Chef], up' = up,
           published' = published \cup {g}, HandleChefInstall(g)
    PROVE  /\ NodesOpen' /\ EpochsOrdered' /\ Fenced' /\ RetiredPast'
           /\ store' = [store EXCEPT ![Chef] = g] /\ overlay' = overlay
<1> USE DEF SerialInv
<1>1. InstallOutcome(Chef, g) = "installed"
  BY SuccessorInstalls, Zenon
<1>2. InstallSnapshot(Chef, g) /\ RebuildRegistry(Chef)
  BY <1>1, Zenon DEF HandleChefInstall
<1>3. store' = [store EXCEPT ![Chef] = g] /\ overlay' = overlay
  BY <1>1, <1>2, Zenon DEF InstallSnapshot
<1>4. EpochsOrdered' /\ Fenced' /\ RetiredPast'
  BY <1>3, NewAuthority, Zenon DEF AnyInv
<1>5. /\ ~conflict'[Chef] /\ store'[Chef] = g
      /\ \A m \in Node \ {Chef} : store'[m] = store[m] /\ conflict'[m] = conflict[m]
  BY <1>1, <1>2, InstallFacts, Zenon DEF AnyInv
<1>6. ready'[Chef] /\ \A m \in Node \ {Chef} : ready'[m] = ready[m]
  BY <1>2, RebuildFacts, Zenon DEF AnyInv, TypeOK
<1>7. \A m \in Node : ~conflict'[m]
  BY <1>5, Zenon DEF NodesOpen
<1>8. ASSUME NEW m \in Node, up'[m], store'[m].revision > 0 PROVE ready'[m]
  BY <1>5, <1>6, <1>8, Zenon DEF NodesOpen
<1>9. g.revision > 0
  BY Epochs DEF AnyInv, Successor
<1>10. QED
  BY <1>3, <1>4, <1>5, <1>7, <1>8, <1>9, Zenon DEF NodesOpen

\* A handoff that runs is the only one.
LEMMA SerialBusy ==
    ASSUME SerialInv, AnyInv', NEW h \in Saga, Busy(h), late' = {}, draft' = draft,
           \A k \in Saga \ {h} : saga'[k] = saga[k],
           NodesOpen', EpochsOrdered', Fenced', RetiredPast', SagaAt(saga[h])'
    PROVE  SerialInv'
<1>1. draft = NoSnapshot /\ \A k \in Saga \ {h} : saga[k].pc = "idle"
  BY Zenon DEF SerialInv, OneRequest, Busy
<1>2. \A k \in Saga \ {h} : saga'[k].pc = "idle"
  BY <1>1, Zenon
<1>3. OneRequest'
  BY <1>1, <1>2, Zenon DEF OneRequest, Busy
<1>4. \A k \in Saga : SagaAt(saga[k])'
  BY <1>2, Zenon DEF SagaAt
<1>5. QED
  BY <1>3, <1>4, Zenon DEF SerialInv

\* The source retires the scope.
LEMMA SerialPrepare ==
    ASSUME SerialInv, AnyInv', NEW h \in Saga, ExecutePrepare(h)
    PROVE  SerialInv'
<1> USE DEF SerialInv
<1> DEFINE n == saga[h].source
           s == saga[h].scope
           e == saga[h].epoch
<1>1. /\ HandlePrepare(n, s, e)
      /\ saga' = [saga EXCEPT ![h] = [saga[h] EXCEPT !.rpc = IF MayRetire(n, s, e) THEN "ok" ELSE "refused"]]
      /\ up' = up /\ draft' = draft /\ published' = published /\ late' = late
      /\ saga[h].pc = "prepare"
  BY Zenon DEF ExecutePrepare, Waiting
<1>2. /\ saga[h] \in SagaState /\ saga \in [Saga -> SagaState] /\ SagaAt(saga[h])
      /\ n \in Node /\ s \in Scope /\ e \in Nat /\ late = {}
  BY Zenon DEF AnyInv, TypeOK, SagaState, OneRequest
<1>3. /\ saga'[h].pc = "prepare" /\ saga'[h].scope = s /\ saga'[h].source = n /\ saga'[h].epoch = e
      /\ saga'[h].rpc = "ok" => MayRetire(n, s, e)
      /\ \A k \in Saga \ {h} : saga'[k] = saga[k]
  BY <1>1, <1>2, Zenon DEF SagaState
<1> HIDE DEF n, s, e
<1>4. store' = store /\ conflict' = conflict /\ ready' = ready
  BY <1>1, Zenon DEF HandlePrepare
<1>5. /\ \A m \in Node, t \in Scope : overlay'[m][t] >= overlay[m][t]
      /\ \A m \in Node, t \in Scope : overlay'[m][t] <= Authority(t).epoch
      /\ MayRetire(n, s, e) => overlay'[n][s] = e
  <2>1. \A m \in Node, t \in Scope : overlay[m][t] \in Nat /\ overlay[m][t] <= Authority(t).epoch
    BY Epochs, Zenon DEF AnyInv, RetiredPast
  <2>2. CASE MayRetire(n, s, e)
    <3>1. overlay' = [overlay EXCEPT ![n][s] = e] /\ overlay[n][s] <= e
      BY <1>1, <2>2, Zenon DEF HandlePrepare, MayRetire
    <3>2. e <= Authority(s).epoch
      <4>1. store[n].terms[s].epoch = e
        BY <2>2 DEF MayRetire
      <4>2. QED
        BY <1>2, <4>1, StoreBelow, Zenon
    <3>3. \A m \in Node, t \in Scope :
            overlay'[m][t] = IF m = n /\ t = s THEN e ELSE overlay[m][t]
      BY <1>2, <3>1, SMTT(20) DEF AnyInv, TypeOK
    <3>4. QED
      BY <1>2, <2>1, <3>1, <3>2, <3>3
  <2>3. CASE ~MayRetire(n, s, e)
    <3>1. overlay' = overlay
      BY <1>1, <2>3, Zenon DEF HandlePrepare
    <3>2. QED
      BY <2>1, <2>3, <3>1
  <2>4. QED
    BY <2>2, <2>3, Zenon
<1>6. EpochsOrdered' /\ Fenced' /\ RetiredPast'
  <2>1. \A m \in Node, t \in Scope : store'[m].terms[t].epoch >= store[m].terms[t].epoch
    BY <1>4, Epochs DEF AnyInv
  <2>2. TypeOK'
    BY Zenon DEF AnyInv
  <2>3. QED
    BY <1>1, <1>4, <1>5, <2>1, <2>2, SameAuthority, Zenon
<1>7. NodesOpen'
  BY <1>1, <1>4, Zenon DEF NodesOpen
<1>8. SagaAt(saga[h])'
  <2>1. e > 0 /\ Authority(s) = [owner |-> n, epoch |-> e]
    BY <1>1, <1>2, Zenon DEF SagaAt, n, s, e
  <2>2. store'[Chef].terms[s] = [owner |-> n, epoch |-> e]
    BY <1>4, <2>1, Zenon DEF Authority
  <2>3. saga'[h].rpc = "ok" => overlay'[n][s] >= e
    <3>1. e >= e
      BY <1>2
    <3>2. QED
      BY <1>3, <1>5, <3>1, Zenon
  <2>4. QED
    BY <1>3, <2>1, <2>2, <2>3, Zenon DEF SagaAt, Authority
<1>9. Busy(h)
  BY <1>1, Zenon DEF Busy
<1>10. QED
  BY <1>1, <1>2, <1>3, <1>6, <1>7, <1>8, <1>9, SerialBusy, Zenon
\* What a handoff has built is a successor of the authority.
LEMMA BuiltSuccessor ==
    ASSUME SerialInv, NEW h \in Saga, saga[h].pc = "install"
    PROVE  /\ saga[h].snap \in Snapshot /\ Successor(saga[h].snap)
           /\ saga[h].snap.terms[saga[h].scope] =
                [owner |-> saga[h].target, epoch |-> saga[h].epoch + 1]
<1> DEFINE g == saga[h].snap
           s == saga[h].scope
           e == saga[h].epoch
           t == saga[h].target
<1>1. SagaAt(saga[h]) /\ saga[h] \in SagaState
  BY Zenon DEF SerialInv, AnyInv, TypeOK
<1>2. g \in Snapshot /\ s \in Scope /\ e \in Nat /\ t \in Node
  BY <1>1, Zenon DEF SagaState
<1>3. /\ g = [revision |-> store[Chef].revision + 1,
              terms |-> [store[Chef].terms EXCEPT ![s] = [owner |-> t, epoch |-> e + 1]]]
      /\ Authority(s) = [owner |-> saga[h].source, epoch |-> e]
      /\ overlay[saga[h].source][s] >= e
  BY <1>1, Zenon DEF SagaAt
<1>4. /\ g.terms[s] = [owner |-> t, epoch |-> e + 1] /\ g.revision = store[Chef].revision + 1
      /\ \A x \in Scope \ {s} : g.terms[x] = Authority(x)
  <2>1. store[Chef].terms \in [Scope -> Term]
    BY Epochs, Zenon DEF SerialInv, AnyInv
  <2>2. g.revision = store[Chef].revision + 1
    BY <1>3
  <2>3. g.terms = [store[Chef].terms EXCEPT ![s] = [owner |-> t, epoch |-> e + 1]]
    BY <1>3
  <2> HIDE DEF g, s, t, e
  <2>4. QED
    BY <1>2, <2>1, <2>2, <2>3, Zenon DEF Authority
<1>5. Successor(g)
  <2> HIDE DEF g, s, t, e
  <2>1. /\ g.terms[s].epoch = Authority(s).epoch + 1
        /\ overlay[Authority(s).owner][s] >= Authority(s).epoch
    BY <1>3, <1>4
  <2>2. QED
    BY <1>2, <1>4, <2>1, Zenon DEF Successor
<1>6. QED
  BY <1>2, <1>4, <1>5, Zenon

\* The chef installs the new term; nothing can have come in between.
LEMMA SerialInstall ==
    ASSUME SerialInv, AnyInv', NEW h \in Saga, InstallBuilt(h) \/ InstallRefused(h)
    PROVE  SerialInv'
<1> USE DEF SerialInv
<1> DEFINE g == saga[h].snap
           s == saga[h].scope
           e == saga[h].epoch
           t == saga[h].target
<1>1. /\ saga[h].pc = "install" /\ up[Chef] /\ SagaAt(saga[h])
      /\ saga[h] \in SagaState /\ saga \in [Saga -> SagaState] /\ late = {}
  BY Zenon DEF InstallBuilt, InstallRefused, AnyInv, TypeOK, SagaOrders, OrderedSaga, OneRequest
<1>2. g \in Snapshot /\ s \in Scope /\ e \in Nat /\ t \in Node
  BY <1>1, Zenon DEF SagaState
<1>3. Authority(s) = [owner |-> saga[h].source, epoch |-> e]
  BY <1>1, Zenon DEF SagaAt
<1>4. g.terms[s] = [owner |-> t, epoch |-> e + 1]
  BY <1>1, BuiltSuccessor, Zenon
<1>5. Successor(g)
  BY <1>1, BuiltSuccessor, Zenon
<1>6. InstallOutcome(Chef, g) = "installed"
  BY <1>2, <1>5, SuccessorInstalls, Zenon
<1> DEFINE c == IF saga[h].source \in {Chef, saga[h].target} THEN "target" ELSE "source"
<1>7. /\ HandleChefInstall(g) /\ published' = published \cup {g}
      /\ saga' = [saga EXCEPT ![h] = [saga[h] EXCEPT !.rpc = "sent", !.pc = c]]
      /\ up' = up /\ draft' = draft /\ late' = late
  BY <1>6, Zenon DEF InstallBuilt, InstallRefused
<1>8. /\ saga'[h].pc \in {"source", "target"} /\ saga'[h].rpc = "sent" /\ saga'[h].snap = g
      /\ saga'[h].scope = s /\ saga'[h].epoch = e /\ saga'[h].target = t
      /\ \A k \in Saga \ {h} : saga'[k] = saga[k]
  BY <1>1, <1>7, Zenon DEF SagaState
<1> HIDE DEF g, s, e, t
<1>9. /\ NodesOpen' /\ EpochsOrdered' /\ Fenced' /\ RetiredPast'
      /\ store' = [store EXCEPT ![Chef] = g] /\ overlay' = overlay
  BY <1>1, <1>2, <1>5, <1>7, ChefAdvances, Zenon
<1>10. store'[Chef] = g
  BY <1>9, Zenon DEF AnyInv, TypeOK
<1>11. \A n \in Node : overlay'[n][s] <= e
  BY <1>2, <1>3, <1>9 DEF RetiredPast
<1>12. SagaAt(saga[h])'
  BY <1>4, <1>8, <1>10, <1>11, Zenon DEF SagaAt, Authority
<1>13. QED
  BY <1>1, <1>7, <1>8, <1>9, <1>12, SerialBusy, Zenon DEF Busy

\* A recipient of the new snapshot takes it or has it.
LEMMA SerialReplicate ==
    ASSUME SerialInv, AnyInv', NEW h \in Saga, ExecuteReplicate(h)
    PROVE  SerialInv'
<1> USE DEF SerialInv
<1> DEFINE g == saga[h].snap
           n == Peer(h)
           v == IF InstallOutcome(n, g) \in {"installed", "already"} THEN "ok" ELSE "refused"
<1>1. /\ saga[h] \in SagaState /\ saga \in [Saga -> SagaState] /\ SagaAt(saga[h])
      /\ OrderedSaga(saga[h]) /\ late = {} /\ n \in Node
  BY AbandonedFacts, Zenon DEF AnyInv, TypeOK, SagaOrders, OneRequest
<1>2. /\ IF n = Chef THEN HandleChefInstall(g) ELSE HandleReplicate(n, g)
      /\ saga' = [saga EXCEPT ![h] = [saga[h] EXCEPT !.rpc = v]]
      /\ published' = published /\ up' = up /\ draft' = draft /\ late' = late
      /\ up[n] /\ saga[h].pc \in {"source", "target"}
  BY Zenon DEF ExecuteReplicate, Waiting
<1>3. g \in published /\ g = store[Chef]
  BY <1>1, <1>2, Zenon DEF OrderedSaga, SagaAt
<1>4. /\ saga'[h].pc = saga[h].pc /\ saga'[h].snap = g /\ saga'[h].scope = saga[h].scope
      /\ saga'[h].epoch = saga[h].epoch /\ saga'[h].target = saga[h].target
      /\ \A k \in Saga \ {h} : saga'[k] = saga[k]
  BY <1>1, <1>2, Zenon DEF SagaState
<1> HIDE DEF g, n, v
<1>5. /\ NodesOpen' /\ EpochsOrdered' /\ Fenced' /\ RetiredPast'
      /\ store'[Chef] = store[Chef] /\ overlay' = overlay
  <2>1. CASE n # Chef
    BY <1>1, <1>2, <1>3, <2>1, PeerAdvances, Zenon
  <2>2. CASE n = Chef
    <3>1. g \in Snapshot /\ HandleChefInstall(g)
      BY <1>2, <1>3, <2>2, Zenon DEF AnyInv, TypeOK
    <3>2. InstallOutcome(Chef, g) = "already"
      <4>1. \A x \in Nat : ~(x < x)
        OBVIOUS
      <4>2. ~conflict[Chef] /\ store[Chef].revision \in Nat
        BY Epochs, Constants, Zenon DEF NodesOpen, AnyInv
      <4> QED
        BY <1>3, <4>1, <4>2, Zenon DEF InstallOutcome
    <3>3. InstallSnapshot(Chef, g) /\ RebuildRegistry(Chef)
      BY <3>1, <3>2, Zenon DEF HandleChefInstall
    <3>4. /\ \A m \in Node : store'[m] = store[m]
          /\ overlay' = overlay /\ ~conflict'[Chef]
          /\ \A m \in Node \ {Chef} : conflict'[m] = conflict[m]
      BY <3>1, <3>2, <3>3, InstallFacts, Zenon DEF AnyInv
    <3>5. ready'[Chef] /\ \A m \in Node \ {Chef} : ready'[m] = ready[m]
      BY <3>3, RebuildFacts, Zenon DEF AnyInv, TypeOK
    <3>6. \A m \in Node : ~conflict'[m]
      BY <3>4, Zenon DEF NodesOpen
    <3>7. NodesOpen'
      BY <1>2, <3>4, <3>5, <3>6, Zenon DEF NodesOpen
    <3>8. ASSUME NEW m \in Node, NEW x \in Scope
          PROVE  /\ store'[m].terms[x].epoch >= store[m].terms[x].epoch
                 /\ overlay'[m][x] >= overlay[m][x]
                 /\ overlay'[m][x] <= Authority(x).epoch
      <4>1. store[m].terms[x].epoch \in Nat /\ overlay[m][x] \in Nat
        BY Epochs, Zenon DEF AnyInv
      <4>2. overlay[m][x] <= Authority(x).epoch
        BY Zenon DEF RetiredPast
      <4> HIDE DEF SerialInv
      <4>3. QED
        BY <3>4, <4>1, <4>2
    <3>9. TypeOK'
      BY Zenon DEF AnyInv
    <3>10. EpochsOrdered' /\ Fenced' /\ RetiredPast'
      BY <1>2, <3>4, <3>8, <3>9, SameAuthority
    <3>11. QED
      BY <3>4, <3>7, <3>10, Zenon
  <2>3. QED
    BY <2>1, <2>2, Zenon
<1>6. SagaAt(saga[h])'
  BY <1>1, <1>2, <1>3, <1>4, <1>5, Zenon DEF SagaAt, Authority
<1>7. QED
  BY <1>1, <1>2, <1>4, <1>5, <1>6, SerialBusy DEF Busy
\* The target drops its own old retirement, and has the authority's term then.
LEMMA SerialCommit ==
    ASSUME SerialInv, AnyInv', NEW h \in Saga, ExecuteCommit(h)
    PROVE  SerialInv'
<1> USE DEF SerialInv
<1> DEFINE n == saga[h].target
           s == saga[h].scope
           e == saga[h].epoch
<1>1. /\ saga[h] \in SagaState /\ saga \in [Saga -> SagaState] /\ SagaAt(saga[h])
      /\ late = {} /\ n \in Node /\ s \in Scope /\ e \in Nat
  BY Zenon DEF AnyInv, TypeOK, SagaState, OneRequest
<1>2. /\ saga[h].pc = "commit" /\ up[n]
      /\ published' = published /\ up' = up /\ draft' = draft /\ late' = late
      /\ store' = store /\ conflict' = conflict
  BY Zenon DEF ExecuteCommit, Waiting, Peer, HandleCommit, HandleChefCommit
<1>3. /\ Authority(s) = [owner |-> n, epoch |-> e + 1]
      /\ saga[h].snap = store[Chef]
      /\ \A m \in Node : overlay[m][s] <= e
  BY <1>1, <1>2, Zenon DEF SagaAt
<1>4. PICK v \in {"ok", "refused"} :
        /\ saga' = [saga EXCEPT ![h] = [saga[h] EXCEPT !.rpc = v]]
        /\ \/ v = "refused" /\ UNCHANGED <<overlay, terms, retired, ready>>
           \/ /\ v = "ok" /\ RebuildRegistry(n)
              /\ overlay' = [overlay EXCEPT ![n][s] = 0]
              /\ store[n].terms[s] = [owner |-> n, epoch |-> e + 1]
  <2>1. CASE n = Chef
    <3>1. overlay[Chef][s] <= e + 1 /\ ~conflict[Chef]
      <4>1. ~conflict[Chef]
        BY Zenon DEF NodesOpen
      <4>2. overlay[Chef][s] \in Nat
        BY <1>1, Epochs, Zenon DEF AnyInv
      <4>3. overlay[Chef][s] <= e
        BY <1>3, Zenon
      <4> HIDE DEF SerialInv, s, e
      <4>4. QED
        BY <1>1, <4>1, <4>2, <4>3
    <3>2. /\ HandleChefCommit(s, e + 1)
          /\ saga' = [saga EXCEPT ![h] = [saga[h] EXCEPT !.rpc = "ok"]]
      BY <2>1, <3>1, Zenon DEF ExecuteCommit
    <3>3. RebuildRegistry(n) /\ overlay' = [overlay EXCEPT ![n][s] = 0]
      BY <2>1, <3>1, <3>2, Zenon DEF HandleChefCommit
    <3>4. store[n].terms[s] = [owner |-> n, epoch |-> e + 1]
      BY <1>3, <2>1, Zenon DEF Authority
    <3>5. QED
      BY <3>2, <3>3, <3>4, Zenon
  <2>2. CASE n # Chef /\ MayCommit(n, s, e + 1)
    <3>1. /\ HandleCommit(n, s, e + 1)
          /\ saga' = [saga EXCEPT ![h] = [saga[h] EXCEPT !.rpc = "ok"]]
      BY <2>2, Zenon DEF ExecuteCommit
    <3>2. QED
      BY <2>2, <3>1, Zenon DEF HandleCommit, MayCommit
  <2>3. CASE n # Chef /\ ~MayCommit(n, s, e + 1)
    <3>1. /\ HandleCommit(n, s, e + 1)
          /\ saga' = [saga EXCEPT ![h] = [saga[h] EXCEPT !.rpc = "refused"]]
      BY <2>3, Zenon DEF ExecuteCommit
    <3>2. QED
      BY <2>3, <3>1, Zenon DEF HandleCommit
  <2>4. QED
    BY <2>1, <2>2, <2>3, Zenon
<1>5. /\ saga'[h].pc = "commit" /\ saga'[h].rpc = v /\ saga'[h].snap = saga[h].snap
      /\ saga'[h].scope = s /\ saga'[h].epoch = e /\ saga'[h].target = n
      /\ \A k \in Saga \ {h} : saga'[k] = saga[k]
  BY <1>1, <1>2, <1>4, Zenon DEF SagaState
<1> HIDE DEF n, s, e
<1>6. \A m \in Node, x \in Scope :
        /\ overlay[m][x] \in Nat
        /\ overlay'[m][x] = overlay[m][x]
             \/ (m = n /\ x = s /\ overlay'[m][x] = 0 /\ store[m].terms[x] = Authority(x))
  <2>1. \A m \in Node, x \in Scope : overlay[m][x] \in Nat
    BY Epochs, Zenon DEF AnyInv
  <2>2. CASE overlay' = overlay
    BY <2>1, <2>2, Zenon
  <2>3. CASE overlay' = [overlay EXCEPT ![n][s] = 0] /\ store[n].terms[s] = Authority(s)
    BY <1>1, <2>1, <2>3 DEF AnyInv, TypeOK
  <2>4. QED
    BY <1>3, <1>4, <2>2, <2>3, Zenon
<1>7. EpochsOrdered' /\ Fenced' /\ RetiredPast'
  <2>1. ASSUME NEW m \in Node, NEW x \in Scope
        PROVE  /\ store'[m].terms[x].epoch >= store[m].terms[x].epoch
               /\ overlay'[m][x] >= overlay[m][x] \/ store'[m].terms[x] = Authority(x)
               /\ overlay'[m][x] <= Authority(x).epoch
    <3>1. store[m].terms[x].epoch \in Nat /\ overlay[m][x] <= Authority(x).epoch
          /\ Authority(x).epoch \in Nat
      BY Epochs, Zenon DEF AnyInv, RetiredPast, Authority
    <3>2. store'[m] = store[m]
      BY <1>2, Zenon
    <3>3. \/ overlay'[m][x] = overlay[m][x]
          \/ overlay'[m][x] = 0 /\ store[m].terms[x] = Authority(x)
      BY <1>6, Zenon
    <3>4. overlay[m][x] \in Nat
      BY <1>6, Zenon
    <3> HIDE DEF SerialInv
    <3>5. QED
      BY <3>1, <3>2, <3>3, <3>4
  <2>2. TypeOK'
    BY Zenon DEF AnyInv
  <2>3. QED
    BY <1>2, <2>1, <2>2, SameAuthority, Zenon
<1>8. NodesOpen'
  <2>1. \A m \in Node : ready[m] => ready'[m]
    BY <1>1, <1>2, <1>4, RebuildFacts, Zenon DEF AnyInv, TypeOK
  <2>2. QED
    BY <1>2, <2>1, Zenon DEF NodesOpen
<1>9. SagaAt(saga[h])'
  <2>1. store'[Chef].terms[s] = [owner |-> n, epoch |-> e + 1]
    BY <1>2, <1>3, Zenon DEF Authority
  <2>2. \A m \in Node : overlay'[m][s] <= e
    <3>1. 0 <= e
      BY <1>1
    <3>2. QED
      BY <1>1, <1>3, <1>6, <3>1, Zenon
  <2>3. v = "ok" => /\ store'[n].terms[s] = [owner |-> n, epoch |-> e + 1]
                    /\ overlay'[n][s] = 0
    BY <1>1, <1>2, <1>4 DEF AnyInv, TypeOK
  <2>4. QED
    BY <1>2, <1>3, <1>5, <2>1, <2>2, <2>3, Zenon DEF SagaAt, Authority
<1>10. QED
  BY <1>1, <1>2, <1>5, <1>7, <1>8, <1>9, SerialBusy, Zenon DEF Busy
\* A step outside handoffs that changes no store and no overlay.
LEMMA DurableKept ==
    ASSUME SerialInv, AnyInv', UNCHANGED <<store, overlay, published>>
    PROVE  EpochsOrdered' /\ Fenced' /\ RetiredPast'
  BY Zenon DEF SerialInv, EpochsOrdered, Fenced, RetiredPast, Authority

\* Without a running handoff there is nothing to keep.
LEMMA NoSagas ==
    ASSUME \A h \in Saga : ~Busy(h), saga' = saga
    PROVE  (\A h \in Saga : SagaAt(saga[h])') /\ (\A h \in Saga : ~Busy(h)')
  BY Zenon DEF Busy, SagaAt

\* New scopes are a successor of the authority: nobody has owned them.
LEMMA ExtendedSuccessor ==
    ASSUME SerialInv, NEW S \in SUBSET Missing
    PROVE  Extended(S) \in Snapshot /\ Successor(Extended(S))
<1>1. store[Chef].revision \in Nat /\ store[Chef].terms \in [Scope -> Term]
  BY Epochs, Zenon DEF SerialInv, AnyInv
<1>2. [owner |-> Chef, epoch |-> 1] \in Term
  BY Zenon DEF Term
<1>3. S \subseteq Scope /\ \A s \in S : Authority(s).epoch = 0
  BY Zenon DEF Missing, Authority
<1>4. Extended(S) \in Snapshot
  BY <1>1, <1>2 DEF Extended, Snapshot
<1>5. ASSUME NEW s \in Scope
      PROVE  \/ Extended(S).terms[s] = Authority(s)
             \/ /\ Extended(S).terms[s].epoch = Authority(s).epoch + 1
                /\ Authority(s).epoch > 0 => overlay[Authority(s).owner][s] >= Authority(s).epoch
  <2>1. CASE s \in S
    BY <1>3, <2>1 DEF Extended
  <2>2. CASE s \notin S
    BY <2>2, Zenon DEF Extended, Authority
  <2>3. QED
    BY <2>1, <2>2, Zenon
<1>6. Extended(S).revision = store[Chef].revision + 1
  BY Zenon DEF Extended
<1>7. QED
  BY <1>4, <1>5, <1>6, Zenon DEF Successor

LEMMA SerialScopes ==
    ASSUME Quiet, SerialInv, AnyInv',
           InstallDraft \/ \E S \in SUBSET Scope : DraftScopes(S)
    PROVE  SerialInv'
<1> USE DEF SerialInv
<1>1. ASSUME NEW S \in SUBSET Scope, DraftScopes(S) PROVE SerialInv'
  <2>1. /\ UNCHANGED <<store, conflict, overlay, up, ready, saga, published, late>>
        /\ draft' = Extended(S) /\ S \in SUBSET Missing /\ S # {}
        /\ \A h \in Saga : ~Busy(h)
    BY <1>1, Zenon DEF DraftScopes, MayStart, Quiet, durable, registry
  <2>2. EpochsOrdered' /\ Fenced' /\ RetiredPast'
    BY <2>1, DurableKept, Zenon
  <2>3. NodesOpen'
    BY <2>1, Zenon DEF NodesOpen
  <2>4. (\A h \in Saga : SagaAt(saga[h])') /\ (\A h \in Saga : ~Busy(h)')
    BY <2>1, NoSagas, Zenon
  <2>5. Missing' = Missing /\ Extended(S)' = Extended(S)
    BY <2>1, Zenon DEF Missing, Extended
  <2>6. OneRequest'
    BY <2>1, <2>4, <2>5, Zenon DEF OneRequest
  <2>7. QED
    BY <2>2, <2>3, <2>4, <2>6, Zenon
<1>2. CASE InstallDraft
  <2>1. draft # NoSnapshot /\ up[Chef]
    BY <1>2, Zenon DEF InstallDraft, AnyInv, SagaOrders
  <2>2. Successor(draft) /\ draft \in Snapshot
    <3>1. PICK S \in SUBSET Missing : draft = Extended(S)
      BY <2>1, Zenon DEF OneRequest
    <3>2. QED
      BY <3>1, ExtendedSuccessor, Zenon
  <2>3. InstallOutcome(Chef, draft) = "installed"
    BY <2>2, SuccessorInstalls, Zenon
  <2>4. /\ HandleChefInstall(draft) /\ published' = published \cup {draft}
        /\ draft' = NoSnapshot /\ up' = up /\ saga' = saga /\ late' = late
    BY <1>2, <2>3, Zenon DEF InstallDraft
  <2>5. NodesOpen' /\ EpochsOrdered' /\ Fenced' /\ RetiredPast'
    BY <2>1, <2>2, <2>4, ChefAdvances, Zenon
  <2>6. \A h \in Saga : ~Busy(h)
    BY <2>1, Zenon DEF OneRequest
  <2>7. (\A h \in Saga : SagaAt(saga[h])') /\ (\A h \in Saga : ~Busy(h)')
    BY <2>4, <2>6, NoSagas, Zenon
  <2>8. OneRequest'
    BY <2>4, <2>7, Zenon DEF OneRequest
  <2>9. QED
    BY <2>5, <2>7, <2>8, Zenon
<1>3. QED
  BY <1>1, <1>2, Zenon

LEMMA SerialDeliver ==
    ASSUME SerialInv, AnyInv', NEW n \in Node, NEW g \in published, Deliver(n, g)
    PROVE  SerialInv'
<1> USE DEF SerialInv
<1>1. /\ n # Chef /\ up[n] /\ HandleReplicate(n, g)
      /\ up' = up /\ saga' = saga /\ draft' = draft /\ published' = published /\ late' = late
  BY Zenon DEF Deliver
<1>2. /\ NodesOpen' /\ EpochsOrdered' /\ Fenced' /\ RetiredPast'
      /\ store'[Chef] = store[Chef] /\ overlay' = overlay
      /\ \A m \in Node, s \in Scope :
           store[m].terms[s] = Authority(s) => store'[m].terms[s] = Authority(s)
  BY <1>1, PeerAdvances, Zenon
<1>3. \A h \in Saga : SagaAt(saga[h])'
  BY <1>1, <1>2, SagaKept, Zenon
<1>4. OneRequest'
  <2>1. \A h \in Saga : Busy(h)' => Busy(h)
    BY <1>1, Zenon DEF Busy
  <2>2. late' = {}
    BY <1>1, Zenon DEF OneRequest
  <2>3. QED
    BY <1>1, <1>2, <2>1, <2>2, RequestsKept, Zenon
<1>5. QED
  BY <1>2, <1>3, <1>4, Zenon
LEMMA SerialBoot ==
    ASSUME SerialInv, AnyInv',
           (\E S \in SUBSET Scope : BootChef(S)) \/ (\E n \in Node : BootMember(n))
    PROVE  SerialInv'
<1> USE DEF SerialInv
<1>0. up \in [Node -> BOOLEAN] /\ store \in [Node -> Snapshot]
  BY Zenon DEF AnyInv, TypeOK
<1>1. ASSUME NEW S \in SUBSET Scope, BootChef(S) PROVE SerialInv'
  <2>1. /\ ~up[Chef] /\ S \in SUBSET Missing
        /\ store[Chef].revision = 0 => S # {}
        /\ store' = [store EXCEPT ![Chef] = IF S # {} THEN Extended(S) ELSE @]
        /\ published' = published \cup {store'[Chef]}
        /\ up' = [up EXCEPT ![Chef] = TRUE]
        /\ conflict' = conflict /\ overlay' = overlay
        /\ RebuildRegistry(Chef)
        /\ saga' = saga /\ draft' = draft /\ late' = late
    BY <1>1, Zenon DEF BootChef
  <2>2. draft = NoSnapshot /\ \A h \in Saga : ~Busy(h)
    BY <2>1, Zenon DEF AnyInv, SagaOrders, OrderedSaga, Busy
  <2>3. (\A h \in Saga : SagaAt(saga[h])') /\ (\A h \in Saga : ~Busy(h)')
    BY <2>1, <2>2, NoSagas, Zenon
  <2>4. OneRequest'
    BY <2>1, <2>2, <2>3, Zenon DEF OneRequest
  <2>5. EpochsOrdered' /\ Fenced' /\ RetiredPast'
    <3>1. CASE S = {}
      <4>1. store' = store
        BY <1>0, <2>1, <3>1, Zenon
      <4>2. store[Chef] \in published
        BY <2>1, <3>1, Constants, Zenon DEF AnyInv, StoreOrders
      <4>3. published' = published
        BY <2>1, <4>1, <4>2, Zenon
      <4>4. QED
        BY <2>1, <4>1, <4>3, DurableKept, Zenon
    <3>2. CASE S # {}
      <4>1. Extended(S) \in Snapshot /\ Successor(Extended(S))
        BY <2>1, ExtendedSuccessor, Zenon
      <4>2. /\ store' = [store EXCEPT ![Chef] = Extended(S)]
            /\ published' = published \cup {Extended(S)}
        BY <1>0, <2>1, <3>2, Zenon
      <4>3. TypeOK'
        BY Zenon DEF AnyInv
      <4>4. QED
        BY <2>1, <4>1, <4>2, <4>3, NewAuthority, Zenon
    <3>3. QED
      BY <3>1, <3>2, Zenon
  <2>6. NodesOpen'
    <3>1. ready'[Chef] /\ \A m \in Node \ {Chef} : ready'[m] = ready[m]
      BY <1>0, <2>1, RebuildFacts, Zenon DEF AnyInv, TypeOK
    <3>2. \A m \in Node \ {Chef} : store'[m] = store[m] /\ up'[m] = up[m]
      BY <1>0, <2>1, Zenon
    <3>3. store'[Chef].revision > 0
      <4>1. store[Chef].revision \in Nat
        BY Epochs, Zenon DEF AnyInv
      <4>2. CASE S = {}
        BY <1>0, <2>1, <4>1, <4>2, SMTT(20)
      <4>3. CASE S # {}
        BY <1>0, <2>1, <4>1, <4>3 DEF Extended
      <4>4. QED
        BY <4>2, <4>3, Zenon
    <3>4. QED
      BY <2>1, <3>1, <3>2, <3>3, Zenon DEF NodesOpen
  <2>7. QED
    BY <2>3, <2>4, <2>5, <2>6, Zenon
<1>2. ASSUME NEW n \in Node, BootMember(n) PROVE SerialInv'
  <2>1. /\ n # Chef
        /\ up' = [up EXCEPT ![n] = TRUE]
        /\ UNCHANGED <<store, conflict, overlay, saga, draft, published, late>>
        /\ IF store[n].revision > 0 THEN RebuildRegistry(n) ELSE UNCHANGED <<terms, retired, ready>>
    BY <1>2, Zenon DEF BootMember, durable, registry
  <2>2. EpochsOrdered' /\ Fenced' /\ RetiredPast'
    BY <2>1, DurableKept, Zenon
  <2>3. NodesOpen'
    <3>1. \A m \in Node \ {n} : up'[m] = up[m]
      BY <1>0, <2>1, Zenon
    <3>2. store[n].revision > 0 => ready'[n]
      BY <1>0, <2>1, RebuildFacts, Zenon DEF AnyInv
    <3>3. \A m \in Node \ {n} : ready'[m] = ready[m]
      BY <1>0, <2>1, RebuildFacts, Zenon DEF AnyInv
    <3>4. QED
      BY <2>1, <3>1, <3>2, <3>3, Zenon DEF NodesOpen
  <2>4. \A h \in Saga : SagaAt(saga[h])'
    BY <2>1, SagaKept, Zenon
  <2>5. OneRequest'
    <3>1. (\A h \in Saga : Busy(h)' => Busy(h)) /\ late' = {}
      BY <2>1, Zenon DEF Busy, OneRequest
    <3>2. QED
      BY <2>1, <3>1, RequestsKept, Zenon
  <2>6. QED
    BY <2>2, <2>3, <2>4, <2>5, Zenon
<1>3. QED
  BY <1>1, <1>2, Zenon

LEMMA SerialCrash ==
    ASSUME Quiet, SerialInv, AnyInv', NEW n \in Node, Crash(n)
    PROVE  SerialInv'
<1> USE DEF SerialInv
<1>1. /\ up' = [up EXCEPT ![n] = FALSE]
      /\ ready' = [ready EXCEPT ![n] = FALSE]
      /\ UNCHANGED <<store, conflict, overlay, published>>
  BY Zenon DEF Crash, durable
<1>2. EpochsOrdered' /\ Fenced' /\ RetiredPast'
  BY <1>1, DurableKept, Zenon
<1>3. NodesOpen'
  BY <1>1, Zenon DEF NodesOpen, AnyInv, TypeOK
<1>4. CASE n = Chef
  <2>1. /\ saga' = [h \in Saga |-> IdleSaga] /\ draft' = NoSnapshot
        /\ late' = late \cup UNION {Abandoned(h) : h \in Saga}
    BY <1>4, Zenon DEF Crash
  <2>2. late' = {}
    BY <2>1, NothingLate, Zenon DEF OneRequest
  <2>3. \A h \in Saga : saga'[h].pc = "idle"
    BY <2>1, Constants, Zenon
  <2>4. OneRequest' /\ \A h \in Saga : SagaAt(saga[h])'
    BY <2>1, <2>2, <2>3, Zenon DEF OneRequest, SagaAt, Busy
  <2>5. QED
    BY <1>2, <1>3, <2>4, Zenon
<1>5. CASE n # Chef
  <2>1. /\ saga' = [h \in Saga |-> IF saga[h].rpc = "sent" /\ Peer(h) = n
                                   THEN [saga[h] EXCEPT !.rpc = "refused"] ELSE saga[h]]
        /\ late' = {} /\ draft' = draft
    BY <1>5 DEF Crash, OneRequest
  <2>2. ASSUME NEW h \in Saga PROVE SagaAt(saga[h])' /\ saga'[h].pc = saga[h].pc
    <3>1. saga[h] \in SagaState /\ SagaAt(saga[h])
      BY Zenon DEF AnyInv, TypeOK
    <3>2. saga'[h] = saga[h] \/ saga'[h] = [saga[h] EXCEPT !.rpc = "refused"]
      BY <2>1, Zenon
    <3>3. /\ saga'[h].pc = saga[h].pc /\ saga'[h].snap = saga[h].snap
          /\ saga'[h].scope = saga[h].scope /\ saga'[h].source = saga[h].source
          /\ saga'[h].target = saga[h].target /\ saga'[h].epoch = saga[h].epoch
          /\ saga'[h].rpc = "ok" => saga[h].rpc = "ok"
      BY <3>1, <3>2, Zenon DEF SagaState
    <3>4. QED
      BY <1>1, <3>1, <3>3, Zenon DEF SagaAt, Authority
  <2>3. \A h \in Saga : Busy(h)' => Busy(h)
    BY <2>2, Zenon DEF Busy
  <2>4. OneRequest'
    BY <1>1, <2>1, <2>3, RequestsKept, Zenon
  <2>5. QED
    BY <1>2, <1>3, <2>2, <2>4, Zenon
<1>6. QED
  BY <1>4, <1>5, Zenon

LEMMA SerialStep == Quiet /\ SerialInv /\ [Next]_vars => SerialInv'
<1> SUFFICES ASSUME Quiet, SerialInv, [Next]_vars PROVE SerialInv'
  BY Zenon
<1>0. AnyInv'
  BY AnyStep, Zenon DEF SerialInv
<1>1. CASE UNCHANGED vars
  <2>1. UNCHANGED <<store, conflict, overlay, up, terms, retired, ready, saga, draft,
                    published, late>>
    BY <1>1, Zenon DEF vars
  <2>2. EpochsOrdered' /\ Fenced' /\ RetiredPast' /\ NodesOpen'
    BY <1>0, <2>1, DurableKept, Zenon DEF SerialInv, NodesOpen
  <2>3. \A h \in Saga : SagaAt(saga[h])'
    BY <2>1, SagaKept, Zenon
  <2>4. OneRequest'
    <3>1. (\A h \in Saga : Busy(h)' => Busy(h)) /\ late' = {}
      BY <2>1 DEF Busy, SerialInv, OneRequest
    <3>2. QED
      BY <2>1, <3>1, RequestsKept, Zenon
  <2>5. QED
    BY <1>0, <2>2, <2>3, <2>4, Zenon DEF SerialInv
<1>2. ASSUME NEW h \in Saga, Progress(h) PROVE SerialInv'
  BY <1>0, <1>2, SerialLocals, SerialPrepare, SerialInstall, SerialReplicate, SerialCommit, Zenon
  DEF Progress
<1>3. ASSUME NEW h \in Saga, NEW s \in Scope, NEW t \in Node, BeginHandoff(h, s, t)
      PROVE  SerialInv'
  BY <1>0, <1>3, SerialLocals, Zenon
<1>4. late = {}
  BY Zenon DEF SerialInv, OneRequest
<1>5. QED
  BY <1>0, <1>1, <1>2, <1>3, <1>4, SerialScopes, SerialDeliver, SerialBoot, SerialCrash, Zenon DEF Next

LEMMA SerialAlways ==
    ASSUME Quiet
    PROVE  Spec => []SerialInv
<1>1. SerialInv /\ [Next]_vars => SerialInv'
  BY SerialStep, Zenon
<1>2. QED
  BY <1>1, SerialInit, PTL DEF Spec

-----------------------------------------------------------------------------
(* The theorems.                                                           *)

\* At most one node can write a scope (OwnerRegistry::validate), for one
\* ownership request at a time and none run late.
THEOREM OneWriter ==
    ASSUME Quiet
    PROVE  Spec => []AtMostOneWriter
<1>1. SerialInv => AtMostOneWriter
  <2> SUFFICES ASSUME SerialInv, NEW s \in Scope, NEW m \in Node, NEW n \in Node,
                      CanWrite(m, s), CanWrite(n, s)
               PROVE  m = n
    BY Zenon DEF AtMostOneWriter
  <2>1. Authority(s).owner = m /\ Authority(s).owner = n
    BY WriterOwns, Zenon
  <2>2. QED
    BY <2>1, Zenon
<1>2. QED
  BY <1>1, SerialAlways, PTL

\* The authority stays, or moves on to a successor.
LEMMA AuthorityStep ==
    ASSUME SerialInv, Next
    PROVE  store'[Chef] = store[Chef] \/ Successor(store'[Chef])
<1> USE DEF SerialInv
<1>0. store \in [Node -> Snapshot] /\ late = {}
  BY Zenon DEF AnyInv, TypeOK, OneRequest
<1>1. ASSUME NEW g \in Snapshot, Successor(g), HandleChefInstall(g)
      PROVE  Successor(store'[Chef])
  <2>1. InstallOutcome(Chef, g) = "installed" /\ InstallSnapshot(Chef, g)
    BY <1>1, SuccessorInstalls, Zenon DEF HandleChefInstall
  <2>2. store'[Chef] = g
    BY <2>1, InstallFacts, Zenon DEF AnyInv
  <2>3. QED
    BY <1>1, <2>2, Zenon
<1>2. ASSUME NEW n \in Node \ {Chef}, NEW g \in published, HandleReplicate(n, g)
      PROVE  store'[Chef] = store[Chef]
  <2>1. InstallSnapshot(n, g) /\ g \in Snapshot
    BY <1>2, Zenon DEF HandleReplicate, AnyInv, TypeOK
  <2>2. QED
    BY <2>1, InstallFacts, Zenon DEF AnyInv
<1>3. ASSUME NEW h \in Saga, Progress(h)
      PROVE  store'[Chef] = store[Chef] \/ Successor(store'[Chef])
  <2>1. CASE Prepared(h) \/ Abort(h) \/ BuildSnapshot(h) \/ Replicated(h) \/ Committed(h) \/ Fail(h)
    BY <2>1, Zenon DEF Prepared, Abort, BuildSnapshot, Replicated, Committed, Fail, durable
  <2>2. CASE ExecutePrepare(h) \/ ExecuteCommit(h)
    BY <2>2, Zenon DEF ExecutePrepare, ExecuteCommit, HandlePrepare, HandleCommit, HandleChefCommit
  <2>3. CASE InstallBuilt(h) \/ InstallRefused(h)
    BY <1>1, <2>3, BuiltSuccessor, Zenon DEF InstallBuilt, InstallRefused
  <2>4. CASE ExecuteReplicate(h)
    <3>1. /\ saga[h].pc \in {"source", "target"} /\ Peer(h) \in Node
          /\ saga[h].snap \in published /\ saga[h].snap = store[Chef]
      BY <2>4, AbandonedFacts, Zenon
      DEF ExecuteReplicate, Waiting, AnyInv, SagaOrders, OrderedSaga, SagaAt
    <3>2. CASE Peer(h) # Chef
      BY <1>2, <2>4, <3>1, <3>2, Zenon DEF ExecuteReplicate
    <3>3. CASE Peer(h) = Chef
      <4>1. InstallSnapshot(Chef, store[Chef])
        BY <2>4, <3>1, <3>3, Zenon DEF ExecuteReplicate, HandleChefInstall
      <4>2. QED
        BY <1>0, <4>1, Zenon DEF InstallSnapshot
    <3>4. QED
      BY <3>2, <3>3, Zenon
  <2>5. QED
    BY <1>3, <2>1, <2>2, <2>3, <2>4, Zenon DEF Progress
<1>4. ASSUME NEW S \in SUBSET Scope, BootChef(S)
      PROVE  store'[Chef] = store[Chef] \/ Successor(store'[Chef])
  <2>1. S \in SUBSET Missing /\ store' = [store EXCEPT ![Chef] = IF S # {} THEN Extended(S) ELSE @]
    BY <1>4, Zenon DEF BootChef
  <2>2. store'[Chef] = store[Chef] \/ store'[Chef] = Extended(S)
    BY <1>0, <2>1, Zenon
  <2>3. QED
    BY <2>1, <2>2, ExtendedSuccessor, Zenon
<1>5. CASE InstallDraft
  <2>1. PICK S \in SUBSET Missing : draft = Extended(S)
    BY <1>5, Zenon DEF InstallDraft, OneRequest
  <2>2. QED
    BY <1>1, <1>5, <2>1, ExtendedSuccessor, Zenon DEF InstallDraft
<1>6. QED
  BY <1>0, <1>2, <1>3, <1>4, <1>5, Zenon
  DEF Next, BeginHandoff, DraftScopes, Deliver, BootMember, Crash, durable

\* V1: run_handoff gives a scope a new owner term only when the owner of the
\* term before has durably retired it.
THEOREM SourceRetiresFirst ==
    ASSUME Quiet
    PROVE  Spec => RetireBeforeServe
<1> DEFINE Served == \A s \in Scope : LET old == store[Chef].terms[s] IN
                       (old.epoch > 0 /\ store'[Chef].terms[s] # old)
                          => overlay[old.owner][s] >= old.epoch
<1>1. SerialInv /\ Next => Served
  BY AuthorityStep, Zenon DEF Successor, Authority
<1>2. QED
  BY <1>1, SerialAlways, PTL DEF Spec, RetireBeforeServe
\* WriterOwns as a formula, to be used of a step's second state.
Owned ==
    \A n \in Node, s \in Scope : CanWrite(n, s) =>
        /\ Authority(s).epoch > 0 /\ Authority(s).owner = n
        /\ store[n].terms[s] = Authority(s)
        /\ overlay[n][s] = 0

LEMMA OwnedAlways ==
    ASSUME Quiet
    PROVE  Spec => [](SerialInv /\ Owned)
<1>1. SerialInv => Owned
  BY WriterOwns DEF Owned
<1>2. QED
  BY <1>1, SerialAlways, PTL

\* Only OwnerCommit drops a retirement, and only one of an older epoch.
LEMMA OverlayStep ==
    ASSUME Quiet, SerialInv, Next, NEW n \in Node, NEW s \in Scope,
           overlay[n][s] > 0, overlay'[n][s] = 0
    PROVE  overlay[n][s] < store'[n].terms[s].epoch
<1> USE DEF SerialInv
<1>0. late = {} /\ overlay \in [Node -> [Scope -> Nat]] /\ overlay' # overlay
  BY SMTT(20) DEF AnyInv, TypeOK, OneRequest
<1>1. ASSUME NEW h \in Saga, ExecutePrepare(h) PROVE FALSE
  <2>1. /\ saga[h].source \in Node /\ saga[h].scope \in Scope /\ saga[h].epoch \in Nat
        /\ HandlePrepare(saga[h].source, saga[h].scope, saga[h].epoch)
    BY <1>1, Zenon DEF ExecutePrepare, AnyInv, TypeOK, SagaState
  <2>2. /\ overlay' = [overlay EXCEPT ![saga[h].source][saga[h].scope] = saga[h].epoch]
        /\ saga[h].epoch > 0
    BY <1>0, <2>1, Zenon DEF HandlePrepare, MayRetire
  <2>3. QED
    BY <1>0, <2>1, <2>2, SMTT(20)
<1>2. ASSUME NEW h \in Saga, ExecuteCommit(h) PROVE overlay[n][s] < store'[n].terms[s].epoch
  <2> DEFINE m == saga[h].target
             x == saga[h].scope
             e == saga[h].epoch
  <2>1. /\ m \in Node /\ x \in Scope /\ e \in Nat /\ SagaAt(saga[h])
        /\ saga[h].pc = "commit" /\ store' = store
        /\ overlay' = [overlay EXCEPT ![m][x] = 0]
        /\ m = Chef \/ MayCommit(m, x, e + 1)
    BY <1>0, <1>2, Zenon
    DEF ExecuteCommit, Waiting, HandleCommit, HandleChefCommit, AnyInv, TypeOK, SagaState
  <2>2. overlay[m][x] <= e /\ Authority(x) = [owner |-> m, epoch |-> e + 1]
    BY <2>1, Zenon DEF SagaAt
  <2>3. store'[m].terms[x] = [owner |-> m, epoch |-> e + 1]
    BY <2>1, <2>2, Zenon DEF MayCommit, Authority
  <2> HIDE DEF m, x, e, SerialInv
  <2>4. m = n /\ x = s
    BY <1>0, <2>1
  <2>5. overlay[m][x] \in Nat
    BY <1>0, <2>1
  <2>6. QED
    BY <2>1, <2>2, <2>3, <2>4, <2>5, SMTT(20)
<1>3. ASSUME NEW g, HandleChefInstall(g) \/ \E m \in Node : HandleReplicate(m, g) PROVE FALSE
  BY <1>0, <1>3, Zenon DEF HandleChefInstall, HandleReplicate, InstallSnapshot
<1>4. QED
  BY <1>0, <1>1, <1>2, <1>3, AbandonedFacts, Zenon
  DEF Next, Progress, BeginHandoff, Prepared, Abort, BuildSnapshot, InstallBuilt, InstallRefused,
      ExecuteReplicate, Replicated, Committed, Fail, DraftScopes, InstallDraft, Deliver, BootChef,
      BootMember, Crash, durable, AnyInv

\* V4: a node that has retired a scope (retire_local, put_local_state) does not
\* write it at that epoch or an older one, through restarts and replication.
THEOREM RetiredStaysRetired ==
    ASSUME Quiet
    PROVE  Spec => RetirementHolds
<1> DEFINE Holds == \A n \in Node, s \in Scope :
                      (overlay[n][s] > 0 /\ store'[n].terms[s].epoch <= overlay[n][s])
                         => ~CanWrite(n, s)'
<1>1. SerialInv /\ SerialInv' /\ Owned' /\ Next => Holds
  <2> SUFFICES ASSUME SerialInv, SerialInv', Owned', Next, NEW n \in Node, NEW s \in Scope,
                      overlay[n][s] > 0, store'[n].terms[s].epoch <= overlay[n][s],
                      CanWrite(n, s)'
               PROVE  FALSE
    BY Zenon
  <2>1. overlay'[n][s] = 0
    BY Zenon DEF Owned
  <2>2. overlay[n][s] < store'[n].terms[s].epoch
    BY <2>1, OverlayStep, Zenon
  <2>3. overlay[n][s] \in Nat
    BY Epochs, Zenon DEF SerialInv, AnyInv
  <2>4. store'[n].terms[s].epoch \in Nat
    <3>1. store'[n] \in Snapshot
      BY Zenon DEF SerialInv, AnyInv, TypeOK
    <3>2. QED
      BY <3>1, Zenon DEF Snapshot, Term
  <2>5. QED
    BY <2>2, <2>3, <2>4
<1>2. QED
  BY <1>1, OwnedAlways, PTL DEF Spec, RetirementHolds

\* The protocol implements ScopeOwnership: only the owner of the authority's term
\* writes a scope, and the term moves on only while nobody can.
THEOREM ImplementsScopeOwnership ==
    ASSUME Quiet
    PROVE  Spec => ImplementsOwnership
<1> DEFINE W == [s \in Scope |-> {n \in Node : CanWrite(n, s)}]
<1>1. Init => Ownership!Init
  <2> SUFFICES ASSUME Init PROVE Ownership!Init
    BY Zenon
  <2>1. store[Chef].terms = [s \in Scope |-> Unknown]
    BY Zenon DEF Init, NoSnapshot
  <2>2. \A n \in Node, s \in Scope : ~CanWrite(n, s)
    BY Zenon DEF Init, CanWrite
  <2>3. [s \in Scope |-> {n \in Node : CanWrite(n, s)}] = [s \in Scope |-> {}]
    BY <2>2, Zenon
  <2>4. Unknown \in [owner : Node, epoch : {0}]
    BY Zenon DEF Unknown
  <2>5. store[Chef].terms \in [Scope -> [owner : Node, epoch : {0}]]
    BY <2>1, <2>4, Zenon
  <2>6. QED
    BY <2>3, <2>5, Zenon DEF Ownership!Init
<1>2. /\ SerialInv /\ SerialInv' /\ Owned /\ Owned' /\ [Next]_vars
      => [Ownership!Next]_<<store[Chef].terms, W>>
  <2> SUFFICES ASSUME SerialInv, SerialInv', Owned, Owned', [Next]_vars
               PROVE  [Ownership!Next]_<<store[Chef].terms, W>>
    BY Zenon
  <2>1. CASE UNCHANGED vars
    BY <2>1, Zenon DEF vars, CanWrite
  <2>2. CASE Next
    <3>1. store'[Chef] \in Snapshot /\ store[Chef] \in Snapshot
      BY Zenon DEF SerialInv, AnyInv, TypeOK
    <3>2. store'[Chef].terms \in [Scope -> [owner : Node, epoch : Nat]]
      BY <3>1, Zenon DEF Snapshot, Term
    <3>3. W' \in [Scope -> SUBSET Node]
      BY Zenon
    <3>4. ASSUME NEW s \in Scope
          PROVE  Ownership!Switch(s) \/ Ownership!Advance(s)
      <4>1. /\ W[s] = {n \in Node : CanWrite(n, s)}
            /\ W'[s] = {n \in Node : CanWrite(n, s)'}
        BY Zenon
      <4>2. W'[s] \subseteq {store'[Chef].terms[s].owner}
        BY <4>1, Zenon DEF Owned, Authority
      <4>3. store'[Chef].terms[s].epoch = 0 => W'[s] = {}
        BY <4>1 DEF Owned, Authority
      <4>4. CASE store'[Chef].terms[s] = store[Chef].terms[s]
        BY <4>2, <4>3, <4>4, Zenon DEF Ownership!Switch
      <4>5. CASE store'[Chef].terms[s] # store[Chef].terms[s]
        <5>1. /\ store'[Chef].terms[s].epoch = store[Chef].terms[s].epoch + 1
              /\ Authority(s).epoch > 0 => overlay[Authority(s).owner][s] >= Authority(s).epoch
          BY <2>2, <4>5, AuthorityStep, Zenon DEF Successor, Authority
        <5>2. W[s] = {}
          <6> SUFFICES ASSUME NEW n \in Node, CanWrite(n, s) PROVE FALSE
            BY <4>1, Zenon
          <6>1. Authority(s).epoch > 0 /\ Authority(s).owner = n /\ overlay[n][s] = 0
            BY Zenon DEF Owned
          <6>2. Authority(s).epoch \in Nat
            BY Epochs, Zenon DEF SerialInv, AnyInv, Authority
          <6>3. QED
            BY <5>1, <6>1, <6>2
        <5>3. QED
          BY <4>2, <5>1, <5>2, Zenon DEF Ownership!Advance
      <4>6. QED
        BY <4>4, <4>5, Zenon
    <3>5. QED
      BY <3>2, <3>3, <3>4, Zenon DEF Ownership!Next
  <2>3. QED
    BY <2>1, <2>2, Zenon
<1>3. QED
  BY <1>1, <1>2, OwnedAlways, PTL DEF Spec, ImplementsOwnership, Ownership!Spec
=============================================================================
