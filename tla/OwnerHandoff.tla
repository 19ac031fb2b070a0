---------------------------- MODULE OwnerHandoff ----------------------------
(***************************************************************************)
(* Who may write a scope (the world, or one agent's container) in a        *)
(* cluster, and how that right moves from node to node.                    *)
(*                                                                         *)
(* One node, the chef, holds the authority: a snapshot of owner terms      *)
(* (scope |-> owner, epoch) under a revision number.  It moves a scope     *)
(* with a saga (handoff.rs run_handoff): the source durably retires the    *)
(* scope, the chef installs a snapshot with the new term, the snapshot is  *)
(* replicated to source and target, and OwnerCommit clears what the target *)
(* itself had once retired.  A reconciliation task keeps sending installed *)
(* snapshots to every peer (orchestrator.rs).                              *)
(*                                                                         *)
(* Each node has a durable store (cluster_meta.rs: the installed snapshot, *)
(* a sticky conflict mark, retirement overlays) and a volatile registry    *)
(* (fencing.rs OwnerRegistry) that the stores of the data plane ask before *)
(* they commit a write.  Every handler changes both under the node's tick  *)
(* barrier, so a handler is one step here; a node may crash between any    *)
(* two.  RPCs may be lost, or executed with the reply lost.                *)
(*                                                                         *)
(* Abstracted: aliases and wire names, checksums (two snapshots are the    *)
(* same or not), the coordinator generation (always Track A's), the        *)
(* recipient-local half of a snapshot (a function of the snapshot and the  *)
(* recipient), overlays of kinds no handoff writes, and the state of the   *)
(* scope itself, which a handoff does not move.                            *)
(***************************************************************************)
EXTENDS Naturals, FiniteSets

CONSTANTS
    Node,           \* members of the cluster
    Chef,           \* the seed, the only coordinator
    Scope,          \* what can be owned
    World,          \* the scope every first snapshot holds
    Saga,           \* handoff requests the operator API serves at a time
    MaxRevision,    \* bound: no request starts at this revision or beyond
    Serial,         \* the operator sends one ownership request at a time
    LateExecution   \* a request may run at a peer after the chef gave up on it

ASSUME HandoffAssumption ==
    /\ Chef \in Node
    /\ World \in Scope
    /\ MaxRevision \in Nat
    /\ Serial \in BOOLEAN
    /\ LateExecution \in BOOLEAN

\* OwnerTerm; epoch 0 stands for a scope that the snapshot does not hold.
Term == [owner : Node, epoch : Nat]
Unknown == [owner |-> Chef, epoch |-> 0]

\* OwnerTermSnapshot; revision 0 stands for no snapshot at all.
Snapshot == [revision : Nat, terms : [Scope -> Term]]
NoSnapshot == [revision |-> 0, terms |-> [s \in Scope |-> Unknown]]

\* What run_handoff has in its locals: how far it is, the fate of the RPC it
\* waits for, the request, the term it read, and the snapshot it built.
SagaState == [pc : {"idle", "prepare", "build", "install", "source", "target", "commit"},
              rpc : {"none", "sent", "ok", "refused"},
              scope : Scope, source : Node, target : Node, epoch : Nat, snap : Snapshot]

IdleSaga == [pc |-> "idle", rpc |-> "none", scope |-> World,
             source |-> Chef, target |-> Chef, epoch |-> 0, snap |-> NoSnapshot]

\* Requests whose execution can outlive the saga that sent them.
Request == [kind : {"prepare", "commit"}, node : Node, scope : Scope, epoch : Nat]

VARIABLES
    store,      \* durable: the installed snapshot of each node
    conflict,   \* durable: the marker says SnapshotConflict
    overlay,    \* durable: the epoch a node retired a scope at, 0 if it did not
    up,         \* the daemon runs
    terms,      \* registry: the owner terms
    retired,    \* registry: the scopes with an overlay
    ready,      \* registry: the write-readiness latch
    saga,       \* the chef's handoffs
    draft,      \* the chef's snapshot with newly configured scopes, before its install
    published,  \* every snapshot the chef has installed
    late        \* requests the chef has given up on and a peer may still run

durable == <<store, conflict, overlay>>
registry == <<terms, retired, ready>>
vars == <<store, conflict, overlay, up, terms, retired, ready, saga, draft, published, late>>

\* Stores, registries and sagas hold complete snapshots: install_owner_snapshot
\* replaces all terms of a node at once, and never leaves a scope without one.
TypeOK ==
    /\ store \in [Node -> Snapshot]
    /\ conflict \in [Node -> BOOLEAN]
    /\ overlay \in [Node -> [Scope -> Nat]]
    /\ up \in [Node -> BOOLEAN]
    /\ terms \in [Node -> [Scope -> Term]]
    /\ retired \in [Node -> SUBSET Scope]
    /\ ready \in [Node -> BOOLEAN]
    /\ saga \in [Saga -> SagaState]
    /\ draft \in Snapshot
    /\ published \in SUBSET Snapshot
    /\ late \in SUBSET Request

Init ==
    /\ store = [n \in Node |-> NoSnapshot]
    /\ conflict = [n \in Node |-> FALSE]
    /\ overlay = [n \in Node |-> [s \in Scope |-> 0]]
    /\ up = [n \in Node |-> FALSE]
    /\ terms = [n \in Node |-> NoSnapshot.terms]
    /\ retired = [n \in Node |-> {}]
    /\ ready = [n \in Node |-> FALSE]
    /\ saga = [h \in Saga |-> IdleSaga]
    /\ draft = NoSnapshot
    /\ published = {}
    /\ late = {}

-----------------------------------------------------------------------------
(* One node: its store, its registry and its handlers.  Each handler holds *)
(* the node's tick barrier.                                                *)

\* OwnerRegistry::validate accepts a guard of node n for scope s.
CanWrite(n, s) ==
    /\ up[n] /\ ready[n]
    /\ terms[n][s].epoch > 0 /\ terms[n][s].owner = n
    /\ s \notin retired[n]

\* Mutant: a snapshot of the installed revision replaces the installed one.
InstallOutcomeLastWins(n, g) ==
    IF conflict[n] THEN "conflict"
    ELSE IF g.revision < store[n].revision THEN "stale" ELSE "installed"

\* Mutant: a higher revision may carry an older epoch.
InstallOutcomeAnyEpoch(n, g) ==
    IF conflict[n] THEN "conflict"
    ELSE IF g.revision < store[n].revision THEN "stale"
    ELSE IF g.revision = store[n].revision
         THEN IF g = store[n] THEN "already" ELSE "conflict"
    ELSE "installed"

\* install_owner_snapshot's answer to snapshot g at node n.
InstallOutcome(n, g) ==
    IF conflict[n] THEN "conflict"
    ELSE IF g.revision < store[n].revision THEN "stale"
    ELSE IF g.revision = store[n].revision
         THEN IF g = store[n] THEN "already" ELSE "conflict"
    ELSE IF \E s \in Scope : /\ g.terms[s].epoch > 0
                             /\ g.terms[s].epoch < store[n].terms[s].epoch
         THEN "stale" ELSE "installed"

\* Mutant: a snapshot install clears the retirements of its recipient.
InstallClearsOverlay(n, g) ==
    /\ store' = [store EXCEPT ![n] = IF InstallOutcome(n, g) = "installed" THEN g ELSE @]
    /\ conflict' = [conflict EXCEPT ![n] = (InstallOutcome(n, g) = "conflict")]
    /\ overlay' = [overlay EXCEPT ![n] = [s \in Scope |-> 0]]

\* Its effect: the snapshot replaces the installed one, or the conflict sticks.
\* Overlays are left alone.
InstallSnapshot(n, g) ==
    /\ store' = [store EXCEPT ![n] = IF InstallOutcome(n, g) = "installed" THEN g ELSE @]
    /\ conflict' = [conflict EXCEPT ![n] = (InstallOutcome(n, g) = "conflict")]
    /\ UNCHANGED overlay

\* Mutant: the durable retirements are not loaded.
RebuildForgetsOverlays(n) ==
    /\ terms' = [terms EXCEPT ![n] = store'[n].terms]
    /\ retired' = [retired EXCEPT ![n] = {}]
    /\ ready' = [ready EXCEPT ![n] = TRUE]

\* rebuild_from_owner_snapshot, from what the store now holds.
RebuildRegistry(n) ==
    /\ terms' = [terms EXCEPT ![n] = store'[n].terms]
    /\ retired' = [retired EXCEPT ![n] = {s \in Scope : overlay'[n][s] > 0}]
    /\ ready' = [ready EXCEPT ![n] = TRUE]

CloseReadiness(n) ==
    /\ ready' = [ready EXCEPT ![n] = FALSE]
    /\ UNCHANGED <<terms, retired>>

\* ReplicateOwnerSnapshot at a peer: a stale snapshot reopens the registry on
\* the installed one, a conflict leaves it closed.
HandleReplicate(n, g) ==
    /\ InstallSnapshot(n, g)
    /\ IF InstallOutcome(n, g) = "conflict" THEN CloseReadiness(n) ELSE RebuildRegistry(n)

\* Mutant: a failed install leaves the registry as it was.
HandleChefInstallOpen(g) ==
    /\ InstallSnapshot(Chef, g)
    /\ IF InstallOutcome(Chef, g) \in {"installed", "already"}
       THEN RebuildRegistry(Chef) ELSE UNCHANGED registry

\* The chef installs a snapshot of its own: a stale one closes the registry too.
HandleChefInstall(g) ==
    /\ InstallSnapshot(Chef, g)
    /\ IF InstallOutcome(Chef, g) \in {"installed", "already"}
       THEN RebuildRegistry(Chef) ELSE CloseReadiness(Chef)

\* persist_source_retirement accepts: the node is the installed owner at this
\* epoch and holds no overlay of a later one.
MayRetire(n, s, e) ==
    /\ ~conflict[n]
    /\ store[n].terms[s] = [owner |-> n, epoch |-> e]
    /\ e > 0 /\ overlay[n][s] <= e

\* Mutant: the retirement is acknowledged from memory, nothing is stored.
HandlePrepareVolatile(n, s, e) ==
    /\ retired' = [retired EXCEPT ![n] = IF MayRetire(n, s, e) THEN @ \cup {s} ELSE @]
    /\ UNCHANGED <<store, conflict, overlay, terms, ready>>

\* PrepareHandoff: the retirement is durable before the registry has it.
HandlePrepare(n, s, e) ==
    /\ \/ /\ MayRetire(n, s, e)
          /\ overlay' = [overlay EXCEPT ![n][s] = e]
          /\ retired' = [retired EXCEPT ![n] = @ \cup {s}]
       \/ /\ ~MayRetire(n, s, e)
          /\ UNCHANGED <<overlay, retired>>
    /\ UNCHANGED <<store, conflict, terms, ready>>

\* persist_commit accepts at a peer: the term is the installed one and no later
\* retirement is in the way.
MayCommit(n, s, e) ==
    /\ ~conflict[n]
    /\ store[n].terms[s] = [owner |-> n, epoch |-> e]
    /\ overlay[n][s] <= e

\* Mutant: the target's own old retirement stays.
HandleCommitKeepsOverlay(n, s, e) ==
    /\ UNCHANGED <<store, conflict, overlay>>
    /\ RebuildRegistry(n)

\* OwnerCommit: clear the overlay, then rebuild.
HandleCommit(n, s, e) ==
    \/ /\ MayCommit(n, s, e)
       /\ overlay' = [overlay EXCEPT ![n][s] = 0]
       /\ UNCHANGED <<store, conflict>>
       /\ RebuildRegistry(n)
    \/ /\ ~MayCommit(n, s, e)
       /\ UNCHANGED <<store, conflict, overlay, terms, retired, ready>>

\* The chef's own commit clears the overlay without looking at the installed
\* term, and rebuilds unless its store is in conflict.
HandleChefCommit(s, e) ==
    /\ IF overlay[Chef][s] <= e
       THEN overlay' = [overlay EXCEPT ![Chef][s] = 0] ELSE UNCHANGED overlay
    /\ UNCHANGED <<store, conflict>>
    /\ IF overlay[Chef][s] <= e /\ ~conflict[Chef]
       THEN RebuildRegistry(Chef) ELSE UNCHANGED <<terms, retired, ready>>
-----------------------------------------------------------------------------
(* The chef: handoff sagas.                                                *)

Busy(h) == saga[h].pc # "idle"

\* The operator API serves requests concurrently; nothing but the operator's
\* own care keeps two of them apart.
MayStart ==
    /\ up[Chef]
    /\ store[Chef].revision < MaxRevision
    /\ Serial => (\A h \in Saga : ~Busy(h)) /\ draft = NoSnapshot

\* The node the saga's current RPC goes to; the chef's own step is a local call.
Peer(h) == IF saga[h].pc \in {"prepare", "source"} THEN saga[h].source ELSE saga[h].target

Waiting(h, stages) == saga[h].pc \in stages /\ saga[h].rpc = "sent" /\ up[Peer(h)]

\* A request the saga sent and the peer has not run, once the saga gives up.
Abandoned(h) ==
    IF LateExecution /\ saga[h].pc \in {"prepare", "commit"} /\ saga[h].rpc = "sent"
         /\ Peer(h) # Chef
    THEN {[kind |-> saga[h].pc, node |-> Peer(h), scope |-> saga[h].scope,
           epoch |-> IF saga[h].pc = "prepare" THEN saga[h].epoch ELSE saga[h].epoch + 1]}
    ELSE {}

\* run_handoff starts: read the current term from the registry and send
\* PrepareHandoff to its owner.
BeginHandoff(h, s, t) ==
    /\ ~Busy(h) /\ MayStart
    /\ terms[Chef][s].epoch > 0
    /\ saga' = [saga EXCEPT ![h] = [pc |-> "prepare", rpc |-> "sent", scope |-> s,
                                    source |-> terms[Chef][s].owner, target |-> t,
                                    epoch |-> terms[Chef][s].epoch, snap |-> NoSnapshot]]
    /\ UNCHANGED <<durable, up, registry, draft, published, late>>

ExecutePrepare(h) ==
    /\ Waiting(h, {"prepare"})
    /\ LET n == saga[h].source s == saga[h].scope e == saga[h].epoch IN
        /\ HandlePrepare(n, s, e)
        /\ saga' = [saga EXCEPT ![h].rpc = IF MayRetire(n, s, e) THEN "ok" ELSE "refused"]
    /\ UNCHANGED <<up, draft, published, late>>

\* Mutant: any answer of the source counts as its retirement.
PreparedByAnyReply(h) ==
    /\ saga[h].pc = "prepare" /\ saga[h].rpc \in {"ok", "refused"}
    /\ saga' = [saga EXCEPT ![h].pc = "build", ![h].rpc = "none"]
    /\ UNCHANGED <<durable, up, registry, draft, published, late>>

\* The source's durable SourceRetiredAck has arrived.
Prepared(h) ==
    /\ saga[h].pc = "prepare" /\ saga[h].rpc = "ok"
    /\ saga' = [saga EXCEPT ![h].pc = "build", ![h].rpc = "none"]
    /\ UNCHANGED <<durable, up, registry, draft, published, late>>

\* The source refused, or no answer came in time: AbortedSourceUnreachable.
Abort(h) ==
    /\ saga[h].pc = "prepare"
    /\ saga[h].rpc = "refused" \/ Peer(h) # Chef
    /\ saga' = [saga EXCEPT ![h] = IdleSaga]
    /\ late' = late \cup Abandoned(h)
    /\ UNCHANGED <<durable, up, registry, draft, published>>

\* Read the installed snapshot again and put the new term in it.
BuildSnapshot(h) ==
    /\ saga[h].pc = "build"
    /\ ~conflict[Chef] /\ store[Chef].terms[saga[h].scope].epoch > 0
    /\ saga' = [saga EXCEPT ![h].pc = "install",
                  ![h].snap = [revision |-> store[Chef].revision + 1,
                               terms |-> [store[Chef].terms EXCEPT ![saga[h].scope] =
                                   [owner |-> saga[h].target, epoch |-> saga[h].epoch + 1]]]]
    /\ UNCHANGED <<durable, up, registry, draft, published, late>>

\* The chef installs it, and goes on to the source unless the source is the
\* chef or the target.
InstallBuilt(h) ==
    /\ saga[h].pc = "install"
    /\ InstallOutcome(Chef, saga[h].snap) \in {"installed", "already"}
    /\ HandleChefInstall(saga[h].snap)
    /\ saga' = [saga EXCEPT ![h].rpc = "sent", ![h].pc =
                  IF saga[h].source \in {Chef, saga[h].target} THEN "target" ELSE "source"]
    /\ published' = published \cup {saga[h].snap}
    /\ UNCHANGED <<up, draft, late>>

\* Another request changed the authority since it was read: the handoff fails
\* after the source has retired, and the chef's registry stays closed.
InstallRefused(h) ==
    /\ saga[h].pc = "install"
    /\ InstallOutcome(Chef, saga[h].snap) \in {"stale", "conflict"}
    /\ HandleChefInstall(saga[h].snap)
    /\ saga' = [saga EXCEPT ![h] = IdleSaga]
    /\ UNCHANGED <<up, draft, published, late>>

ExecuteReplicate(h) ==
    /\ Waiting(h, {"source", "target"})
    /\ LET n == Peer(h) g == saga[h].snap IN
        /\ IF n = Chef THEN HandleChefInstall(g) ELSE HandleReplicate(n, g)
        /\ saga' = [saga EXCEPT ![h].rpc =
                      IF InstallOutcome(n, g) \in {"installed", "already"} THEN "ok" ELSE "refused"]
    /\ UNCHANGED <<up, draft, published, late>>

Replicated(h) ==
    /\ saga[h].pc \in {"source", "target"} /\ saga[h].rpc = "ok"
    /\ saga' = [saga EXCEPT ![h].rpc = "sent",
                            ![h].pc = IF saga[h].pc = "source" THEN "target" ELSE "commit"]
    /\ UNCHANGED <<durable, up, registry, draft, published, late>>

ExecuteCommit(h) ==
    /\ Waiting(h, {"commit"})
    /\ LET n == saga[h].target s == saga[h].scope e == saga[h].epoch + 1 IN
        IF n = Chef
        THEN /\ HandleChefCommit(s, e)
             /\ saga' = [saga EXCEPT ![h].rpc = IF overlay[Chef][s] <= e /\ ~conflict[Chef]
                                                THEN "ok" ELSE "refused"]
        ELSE /\ HandleCommit(n, s, e)
             /\ saga' = [saga EXCEPT ![h].rpc = IF MayCommit(n, s, e) THEN "ok" ELSE "refused"]
    /\ UNCHANGED <<up, draft, published, late>>

\* HandoffOutcome::Committed.
Committed(h) ==
    /\ saga[h].pc = "commit" /\ saga[h].rpc = "ok"
    /\ saga' = [saga EXCEPT ![h] = IdleSaga]
    /\ UNCHANGED <<durable, up, registry, draft, published, late>>

\* Mutant: no timeout, a silent peer is waited for.
FailOnRefusal(h) ==
    /\ saga[h].pc \in {"source", "target", "commit"} /\ saga[h].rpc = "refused"
    /\ saga' = [saga EXCEPT ![h] = IdleSaga]
    /\ UNCHANGED <<durable, up, registry, draft, published, late>>

\* An error after the retirement: the request fails with the authority as it is.
Fail(h) ==
    /\ \/ /\ saga[h].pc = "build"
          /\ conflict[Chef] \/ store[Chef].terms[saga[h].scope].epoch = 0
       \/ /\ saga[h].pc \in {"source", "target", "commit"}
          /\ saga[h].rpc = "refused" \/ Peer(h) # Chef
    /\ saga' = [saga EXCEPT ![h] = IdleSaga]
    /\ late' = late \cup Abandoned(h)
    /\ UNCHANGED <<durable, up, registry, draft, published>>

-----------------------------------------------------------------------------
(* The chef: newly configured scopes.                                      *)

Missing == {s \in Scope : store[Chef].terms[s].epoch = 0}

\* Mutant: the extended snapshot keeps the revision.
ExtendedSameRevision(S) ==
    [revision |-> store[Chef].revision,
     terms |-> [s \in Scope |-> IF s \in S THEN [owner |-> Chef, epoch |-> 1]
                                ELSE store[Chef].terms[s]]]

\* extend_owner_snapshot_for_agents: new scopes go to the chef at epoch 1.
Extended(S) == [revision |-> store[Chef].revision + 1,
                terms |-> [s \in Scope |-> IF s \in S THEN [owner |-> Chef, epoch |-> 1]
                                           ELSE store[Chef].terms[s]]]

\* materialize_config_owner_scopes reads the installed snapshot outside the
\* tick barrier (bound: one such request at a time, next to any handoffs) ...
DraftScopes(S) ==
    /\ MayStart /\ draft = NoSnapshot
    /\ ~conflict[Chef]
    /\ S # {} /\ S \subseteq Missing
    /\ draft' = Extended(S)
    /\ UNCHANGED <<durable, up, registry, saga, published, late>>

\* ... and installs under it; the peers get the snapshot by replication.
InstallDraft ==
    /\ draft # NoSnapshot
    /\ HandleChefInstall(draft)
    /\ published' = IF InstallOutcome(Chef, draft) \in {"installed", "already"}
                    THEN published \cup {draft} ELSE published
    /\ draft' = NoSnapshot
    /\ UNCHANGED <<up, saga, late>>

-----------------------------------------------------------------------------
(* Replication, crashes and restarts.                                      *)

\* Mutant: only peers without any snapshot are served.
DeliverFirst(n, g) ==
    /\ n # Chef /\ up[n] /\ g \in published /\ store[n].revision = 0
    /\ HandleReplicate(n, g)
    /\ UNCHANGED <<up, saga, draft, published, late>>

\* A snapshot the chef once sent reaches a peer: from the reconciliation task,
\* a restarted chef, a configuration change or an abandoned handoff.
Deliver(n, g) ==
    /\ n # Chef /\ up[n] /\ g \in published
    /\ HandleReplicate(n, g)
    /\ UNCHANGED <<up, saga, draft, published, late>>

\* A peer runs a request whose sender no longer waits.
ExecuteLate(m) ==
    /\ m \in late /\ up[m.node]
    /\ IF m.kind = "prepare" THEN HandlePrepare(m.node, m.scope, m.epoch)
       ELSE HandleCommit(m.node, m.scope, m.epoch)
    /\ late' = late \ {m}
    /\ UNCHANGED <<up, saga, draft, published>>

\* The chef boots: a first snapshot with the configured scopes S, or the
\* installed one extended by those of S it lacks.  A conflict stops the boot.
BootChef(S) ==
    /\ ~up[Chef] /\ ~conflict[Chef]
    /\ S \subseteq Missing
    /\ S = {} \/ store[Chef].revision < MaxRevision
    /\ store[Chef].revision = 0 => World \in S
    /\ store' = [store EXCEPT ![Chef] =
                   IF S # {} THEN Extended(S) ELSE @]
    /\ published' = published \cup {store'[Chef]}
    /\ up' = [up EXCEPT ![Chef] = TRUE]
    /\ UNCHANGED <<conflict, overlay>>
    /\ RebuildRegistry(Chef)
    /\ UNCHANGED <<saga, draft, late>>

\* A member boots from its store, or closed if it never had a snapshot.
BootMember(n) ==
    /\ n # Chef /\ ~up[n] /\ ~conflict[n]
    /\ up' = [up EXCEPT ![n] = TRUE]
    /\ UNCHANGED durable
    /\ IF store[n].revision > 0 THEN RebuildRegistry(n) ELSE UNCHANGED registry
    /\ UNCHANGED <<saga, draft, published, late>>

\* The daemon dies: its registry and, on the chef, its requests are gone; what
\* was sent to it and not yet run is lost.
Crash(n) ==
    /\ up[n]
    /\ up' = [up EXCEPT ![n] = FALSE]
    /\ terms' = [terms EXCEPT ![n] = NoSnapshot.terms]
    /\ retired' = [retired EXCEPT ![n] = {}]
    /\ ready' = [ready EXCEPT ![n] = FALSE]
    /\ \/ /\ n = Chef
          /\ saga' = [h \in Saga |-> IdleSaga]
          /\ draft' = NoSnapshot
          /\ late' = late \cup UNION {Abandoned(h) : h \in Saga}
       \/ /\ n # Chef
          /\ saga' = [h \in Saga |-> IF saga[h].rpc = "sent" /\ Peer(h) = n
                                     THEN [saga[h] EXCEPT !.rpc = "refused"] ELSE saga[h]]
          /\ late' = {m \in late : m.node # n}
          /\ UNCHANGED draft
    /\ UNCHANGED <<durable, published>>

-----------------------------------------------------------------------------
\* What the chef does on its own for a handoff it has begun.
Progress(h) ==
    \/ ExecutePrepare(h) \/ Prepared(h) \/ Abort(h)
    \/ BuildSnapshot(h) \/ InstallBuilt(h) \/ InstallRefused(h)
    \/ ExecuteReplicate(h) \/ Replicated(h)
    \/ ExecuteCommit(h) \/ Committed(h) \/ Fail(h)

Next ==
    \/ \E h \in Saga, s \in Scope, t \in Node : BeginHandoff(h, s, t)
    \/ \E h \in Saga : Progress(h)
    \/ \E S \in SUBSET Scope : DraftScopes(S) \/ BootChef(S)
    \/ InstallDraft
    \/ \E n \in Node, g \in published : Deliver(n, g)
    \/ \E m \in late : ExecuteLate(m)
    \/ \E n \in Node : BootMember(n) \/ Crash(n)

Spec == Init /\ [][Next]_vars

\* The operator handler runs to its end: an RPC whose peer is silent fails with
\* QUIC's idle timeout.  The reconciliation task sends the installed snapshot to
\* every peer, again and again.
FairSpec ==
    /\ Spec
    /\ \A h \in Saga : WF_vars(Progress(h))
    /\ \A n \in Node : WF_vars(up[Chef] /\ Deliver(n, store[Chef]))

-----------------------------------------------------------------------------
(* Properties                                                              *)

\* No two nodes can write a scope at the same time, whatever crashes and lost
\* messages leave behind on either side of a handoff.
AtMostOneWriter ==
    \A s \in Scope : \A m, n \in Node : (CanWrite(m, s) /\ CanWrite(n, s)) => m = n

\* V1 of handoff.rs: the chef gives a scope a new owner term only when the owner
\* of the term before has durably retired it.
RetireBeforeServe ==
    [][\A s \in Scope : LET old == store[Chef].terms[s] IN
         (old.epoch > 0 /\ store'[Chef].terms[s] # old)
            => overlay[old.owner][s] >= old.epoch]_vars

\* An epoch of a scope has one owner, in every store of the cluster.
OneOwnerPerEpoch ==
    \A s \in Scope : \A m, n \in Node :
        store[m].terms[s].epoch = store[n].terms[s].epoch
            => store[m].terms[s].owner = store[n].terms[s].owner

\* No node ever sees two different snapshots of one revision, so none ends up
\* in the conflict that only manual recovery resolves.
NoConflict ==
    \A n \in Node : ~conflict[n]

\* Even when requests overlap and run late, the chef is the one that orders them:
\* a revision names one snapshot in all stores, and only the chef can run into
\* a conflict.
RevisionNamesSnapshot ==
    /\ \A m, n \in Node : store[m].revision = store[n].revision => store[m] = store[n]
    /\ \A n \in Node \ {Chef} : ~conflict[n]

\* No store ever goes back, in its revision or in the epoch of any scope, and no
\* scope is ever dropped.
AuthorityAdvances ==
    [][\A n \in Node :
         /\ store'[n].revision >= store[n].revision
         /\ \A s \in Scope : store'[n].terms[s].epoch >= store[n].terms[s].epoch]_vars

\* What validate of an open registry goes by is what the store holds: no handler
\* leaves a node open on a view that a restart would not give it.
OpenOnInstalled ==
    \A n \in Node : ready[n] =>
        /\ ~conflict[n]
        /\ terms[n] = store[n].terms
        /\ retired[n] = {s \in Scope : overlay[n][s] > 0}

\* V4 of fencing.rs retire_local: once a node has retired a scope it does not
\* write it at that epoch or an older one, across restarts and replication.
RetirementHolds ==
    [][\A n \in Node, s \in Scope :
         (overlay[n][s] > 0 /\ store'[n].terms[s].epoch <= overlay[n][s])
            => ~CanWrite(n, s)']_vars

\* When the operator is told Committed, the target writes the scope at the new
\* epoch, or is down and will when it is back.
CommitServes ==
    [][\A h \in Saga : Committed(h) =>
         LET n == saga[h].target s == saga[h].scope IN
           /\ store[n].terms[s] = [owner |-> n, epoch |-> saga[h].epoch + 1]
           /\ overlay[n][s] = 0
           /\ up[n] => CanWrite(n, s)]_vars

\* The outcome of an abort is "before any ownership change": the source has
\* not retired the scope.
AbortLeavesSource ==
    [][\A h \in Saga : Abort(h) =>
         overlay[saga[h].source][saga[h].scope] < saga[h].epoch]_vars

\* The protocol does what ScopeOwnership promises: the chef's store is the
\* authority, the nodes whose registry accepts a write are the writers.
Ownership == INSTANCE ScopeOwnership
    WITH term <- store[Chef].terms,
         writers <- [s \in Scope |-> {n \in Node : CanWrite(n, s)}]

ImplementsOwnership == Ownership!Spec

\* Every handoff request ends, with whatever peers down or silent.
HandoffsEnd == \A h \in Saga : Busy(h) ~> ~Busy(h)

\* A peer that stays up with the chef ends up with the chef's snapshot and with
\* its registry open on it.
PeersConverge ==
    \A n \in Node :
        <>[](up[n] /\ up[Chef]) => <>[](store[n] = store[Chef] /\ ready[n])
=============================================================================
