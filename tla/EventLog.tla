------------------------------ MODULE EventLog ------------------------------
(***************************************************************************)
(* The event log of the daemon (crates/sentinel-limbo: event_store.rs,     *)
(* outbox_publisher.rs) under a jump back in time.  Each event is appended *)
(* with an outbox entry.  The publisher polls pending entries, sends them  *)
(* and marks them.  A restore of a world snapshot (orchestrator.rs) leaves *)
(* the discarded future in the log and records its ids as a dead range,    *)
(* which every read path excludes.  Pruning, batch by batch from the tick  *)
(* loop, deletes old events and dead ones.  The projection worker, in a    *)
(* process of its own, reads the log behind an offset.                     *)
(*                                                                         *)
(* The tick loop is one thread: it appends, takes snapshots, prunes and    *)
(* restores.  Beside it run the publisher, the projection worker, the      *)
(* operator API and other producers of events.  Publisher and worker meet  *)
(* only in can_prune; in each behaviour one of them is up, which keeps the *)
(* instances small (where only the worker is, nothing live is pruned).     *)
(*                                                                         *)
(* Simplifications: the dead ranges are a set.  A restore goes to a        *)
(* snapshot, without a bounded replay after it.  Of the stores a restore   *)
(* replaces, the model keeps what the world has lived through: its line of *)
(* events.  A crash of the daemon inside a restore, a rollback that fails  *)
(* (the world stays fenced) and the retention tiers of snapshots are left  *)
(* out.  Projection has the worker in detail.                              *)
(***************************************************************************)
EXTENDS Integers, Sequences, FiniteSets

CONSTANTS
    MaxId,      \* bound on the log
    MaxSnaps,   \* bound on snapshots
    PollLimit,  \* entries per poll of the outbox
    PruneLimit, \* rows per prune batch
    SizeRule,   \* the platform rule on the size of the log may start a prune
    Undo,       \* a restore may go to a snapshot of a discarded future
    LateFailure,\* the restore event may fail to be written
    RebuildBeside \* the projection may be rebuilt while a restore runs

ASSUME EventLogAssumption ==
    /\ MaxId \in Nat \ {0} /\ MaxSnaps \in Nat
    /\ PollLimit \in Nat \ {0} /\ PruneLimit \in Nat \ {0}
    /\ {SizeRule, Undo, LateFailure, RebuildBeside} \subseteq BOOLEAN

Id == 1..MaxId
None == -1
NoSnap == [tick |-> 0, last |-> 0, line |-> {}, mirrored |-> FALSE]

VARIABLES
    events,     \* rows of the events table
    nextId,     \* AUTOINCREMENT
    pending,    \* outbox rows with status pending
    dead,       \* dead_ranges: <<from_exclusive, to_inclusive>>
    delivered,  \* events the transport has accepted
    queue,      \* the rest of the batch the publisher has polled
    sent,       \* the first of it was accepted and is not marked yet
    tick,
    line,       \* the events the world has lived through
    snaps,      \* world_snapshots
    cutoff,     \* prune_cutoff of the tick loop, 0 if no prune is running
    asked,      \* a cutoff the operator API has sent, 0 if none
    rpc,        \* where a restore is: "idle" if there is none
    anchor, pre,\* its anchor and its rollback snapshot
    top,        \* the max_event_id it has read
    shown,      \* the events the read model shows
    wm, offset, \* watermark of the read model, offset in the event store
    up,         \* which of the publisher and the projection worker is up
    taken,      \* the batch the projection worker has read
    committed   \* it is in the read model, the offset is not moved yet

log == <<events, nextId, pending, dead>>
publisher == <<delivered, queue, sent>>
world == <<tick, line, snaps>>
prune == <<cutoff, asked>>
restore == <<rpc, anchor, pre, top>>
projection == <<up, shown, wm, offset, taken, committed>>
vars == <<log, publisher, world, prune, restore, projection>>

Snapshot == [tick : 0..MaxId, last : 0..MaxId, line : SUBSET Id, mirrored : BOOLEAN]

TypeOK ==
    /\ events \subseteq Id /\ pending \subseteq events
    /\ nextId \in 1..(MaxId + 1)
    /\ dead \subseteq (0..MaxId) \X Id
    /\ delivered \subseteq Id
    /\ queue \in Seq(Id) /\ Len(queue) <= PollLimit
    /\ sent \in BOOLEAN
    /\ tick \in 0..MaxId
    /\ line \subseteq Id
    /\ snaps \in Seq(Snapshot) /\ Len(snaps) <= MaxSnaps
    /\ cutoff \in 0..MaxId /\ asked \in 0..MaxId
    /\ rpc \in {"idle", "stores", "seeded", "mirrored", "marked"}
    /\ anchor \in Snapshot /\ pre \in Snapshot
    /\ top \in 0..MaxId
    /\ up \in {"publisher", "worker"} /\ shown \subseteq Id
    /\ wm \in 0..MaxId /\ offset \in {None} \cup (0..MaxId)
    /\ taken \subseteq Id /\ committed \in BOOLEAN

Init ==
    /\ events = {} /\ nextId = 1 /\ pending = {} /\ dead = {}
    /\ delivered = {} /\ queue = <<>> /\ sent = FALSE
    /\ tick = 0 /\ line = {} /\ snaps = <<>>
    /\ cutoff = 0 /\ asked = 0
    /\ rpc = "idle" /\ anchor = NoSnap /\ pre = NoSnap /\ top = 0
    /\ up \in {"publisher", "worker"}
    /\ shown = {} /\ wm = 0 /\ offset = None /\ taken = {} /\ committed = FALSE

-----------------------------------------------------------------------------
(* Reads                                                                   *)

InRange(i, r) == r[1] < i /\ i <= r[2]
Dead(i) == \E r \in dead : InRange(i, r)

\* What every read path serves (dead_range_exclusion).
Readable == {i \in events : ~ Dead(i)}

Last0(S) == IF S = {} THEN 0 ELSE CHOOSE i \in S : \A k \in S : k <= i

\* get_latest_event_id looks at every row.
Latest == Last0(events)

\* The first n of a set of ids, in order.
FirstOf(S, n) == {i \in S : Cardinality({k \in S : k < i}) < n}

Ascending(S) ==
    CHOOSE q \in [1..Cardinality(S) -> S] : \A j, k \in DOMAIN q : j < k => q[j] < q[k]

-----------------------------------------------------------------------------
(* append_with_outbox                                                      *)

Appended(i) ==
    /\ nextId <= MaxId /\ i = nextId
    /\ events' = events \cup {i}
    /\ pending' = pending \cup {i}
    /\ nextId' = nextId + 1
    /\ line' = line \cup {i}

\* One tick of the world.
LoopAppend ==
    /\ rpc = "idle"
    /\ Appended(nextId)
    /\ tick' = tick + 1
    /\ UNCHANGED <<dead, publisher, snaps, prune, restore, projection>>

\* A producer outside the tick loop, which the restore fence does not stop.  The
\* bound leaves room for the event that ends a restore.
OtherAppend ==
    /\ rpc = "idle" \/ nextId < MaxId
    /\ Appended(nextId)
    /\ UNCHANGED <<dead, publisher, tick, snaps, prune, restore, projection>>

-----------------------------------------------------------------------------
(* OutboxPublisher::process_batch                                          *)

Poll ==
    /\ up = "publisher" /\ queue = <<>>
    /\ pending \cap Readable # {}
    /\ queue' = Ascending(FirstOf(pending \cap Readable, PollLimit))
    /\ UNCHANGED <<log, delivered, sent, world, prune, restore, projection>>

Publish ==
    /\ queue # <<>> /\ ~ sent
    /\ delivered' = delivered \cup {Head(queue)}
    /\ sent' = TRUE
    /\ UNCHANGED <<log, queue, world, prune, restore, projection>>

\* Mutant: the batch is marked, sent or not.
PublishFailsMarks ==
    /\ queue # <<>> /\ ~ sent
    /\ queue' = Tail(queue)
    /\ pending' = pending \ {Head(queue)}
    /\ UNCHANGED <<events, nextId, dead, delivered, sent, world, prune, restore, projection>>

\* The transport refuses; the entry stays pending for a later cycle.
PublishFails ==
    /\ queue # <<>> /\ ~ sent
    /\ queue' = Tail(queue)
    /\ UNCHANGED <<log, delivered, sent, world, prune, restore, projection>>

Mark ==
    /\ sent
    /\ pending' = pending \ {Head(queue)}
    /\ queue' = Tail(queue)
    /\ sent' = FALSE
    /\ UNCHANGED <<events, nextId, dead, delivered, world, prune, restore, projection>>

\* The event store refuses the mark; the entry will be sent again.
MarkFails ==
    /\ sent
    /\ queue' = Tail(queue)
    /\ sent' = FALSE
    /\ UNCHANGED <<log, delivered, world, prune, restore, projection>>

-----------------------------------------------------------------------------
(* Pruning                                                                 *)

\* The last event id of a snapshot that ORDER BY tick DESC may list second.
Cutoffs ==
    {snaps[n].last : n \in {m \in DOMAIN snaps :
        /\ Cardinality({k \in DOMAIN snaps : snaps[k].tick > snaps[m].tick}) <= 1
        /\ \E k \in DOMAIN snaps \ {m} : snaps[k].tick >= snaps[m].tick}}

\* Mutant: entries of a discarded future count as a backlog.
CanPruneCountsDead(c) ==
    /\ offset = None \/ offset >= c
    /\ pending = {}

\* Mutant: only the offset is looked at.
CanPruneOffsetOnly(c) ==
    offset = None \/ offset >= c

\* can_prune: every mirrored offset is past the cutoff, and no live entry is
\* pending.
CanPrune(c) ==
    /\ offset = None \/ offset >= c
    /\ pending \cap Readable = {}

\* maintain, or the rule on the size of the log, which does not ask can_prune.
StartPrune(c) ==
    /\ rpc = "idle" /\ cutoff = 0
    /\ c \in Cutoffs
    /\ SizeRule \/ CanPrune(c)
    /\ cutoff' = c
    /\ UNCHANGED <<log, publisher, world, asked, restore, projection>>

\* The operator API checks and sends the cutoff to the loop.
AskPrune(c) ==
    /\ asked = 0
    /\ c \in Cutoffs /\ CanPrune(c)
    /\ asked' = c
    /\ UNCHANGED <<log, publisher, world, cutoff, restore, projection>>

\* The loop takes it up, unless a prune is running.
TakeAsked ==
    /\ rpc = "idle" /\ asked > 0
    /\ cutoff' = IF cutoff > 0 THEN cutoff ELSE asked
    /\ asked' = 0
    /\ UNCHANGED <<log, publisher, world, restore, projection>>

Doomed == {i \in events : i < cutoff \/ Dead(i)}

\* prune_tick: rows and outbox entries go, and with them the dead ranges that
\* have become empty.  A batch that finds nothing ends the prune.
PruneBatch ==
    /\ rpc = "idle" /\ cutoff > 0
    /\ LET ids == FirstOf(Doomed, PruneLimit)
       IN  /\ events' = events \ ids
           /\ pending' = pending \ ids
           /\ dead' = {r \in dead : \E i \in events \ ids : InRange(i, r)}
           /\ cutoff' = IF ids = {} THEN 0 ELSE cutoff
    /\ UNCHANGED <<nextId, publisher, world, asked, restore, projection>>

-----------------------------------------------------------------------------
(* Snapshots and restore                                                   *)

\* create_and_store.
Here == [tick |-> tick, last |-> Latest, line |-> line, mirrored |-> offset # None]

TakeSnapshot ==
    /\ rpc = "idle" /\ Len(snaps) < MaxSnaps
    /\ snaps' = Append(snaps, Here)
    /\ UNCHANGED <<log, publisher, tick, line, prune, restore, projection>>

\* The rollback snapshot, and the stores and the world set to the anchor.
RestoreStores(n) ==
    /\ rpc = "idle" /\ Len(snaps) < MaxSnaps /\ nextId <= MaxId
    /\ Undo \/ snaps[n].line \subseteq line
    /\ anchor' = snaps[n] /\ pre' = Here
    /\ snaps' = Append(snaps, Here)
    /\ line' = snaps[n].line
    /\ rpc' = "stores"
    /\ UNCHANGED <<log, publisher, tick, prune, top, projection>>

\* Mutant: the watermark of the seeded read model is the anchor's.
SeedProjectionAnchor ==
    /\ rpc = "stores"
    /\ top' = Latest
    /\ line' = anchor.line
    /\ shown' = anchor.line
    /\ wm' = anchor.last
    /\ rpc' = "seeded"
    /\ UNCHANGED <<log, publisher, tick, snaps, prune, up, anchor, pre, offset, taken, committed>>

\* seed_projection_from_world_snapshot: one transaction on the read model.
\* Everything up to the row read here is discarded, also what another producer
\* has added since the stores were set.
SeedProjection ==
    /\ rpc = "stores"
    /\ top' = Latest
    /\ line' = anchor.line
    /\ shown' = anchor.line
    /\ wm' = Latest
    /\ rpc' = "seeded"
    /\ UNCHANGED <<log, publisher, tick, snaps, prune, up, anchor, pre, offset, taken, committed>>

\* force_reset_offset, for the offsets that existed when the anchor was taken.
ResetOffsets ==
    /\ rpc = "seeded"
    /\ offset' = IF anchor.mirrored THEN top ELSE offset
    /\ rpc' = "mirrored"
    /\ UNCHANGED <<log, publisher, world, prune, up, anchor, pre, top, shown, wm, taken, committed>>

\* Mutant: the range starts with the last event of the anchor.
MarkDeadInclusive ==
    /\ rpc = "mirrored"
    /\ dead' = IF top > anchor.last THEN dead \cup {<<anchor.last - 1, top>>} ELSE dead
    /\ rpc' = "marked"
    /\ UNCHANGED <<events, nextId, pending, publisher, world, prune, anchor, pre, top, projection>>

\* increment_restore_generation and push_dead_range.
MarkDead ==
    /\ rpc = "mirrored"
    /\ dead' = IF top > anchor.last THEN dead \cup {<<anchor.last, top>>} ELSE dead
    /\ rpc' = "marked"
    /\ UNCHANGED <<events, nextId, pending, publisher, world, prune, anchor, pre, top, projection>>

\* The locals of the restore go with it.
Returned == rpc' = "idle" /\ anchor' = NoSnap /\ pre' = NoSnap /\ top' = 0

\* The snapshot_restored event ends the restore.
RestoreEvent ==
    /\ rpc = "marked"
    /\ Appended(nextId)
    /\ tick' = anchor.tick
    /\ Returned
    /\ UNCHANGED <<dead, publisher, snaps, prune, projection>>

\* Some store refuses: back to the rollback snapshot, and the read model is
\* seeded from it.  The dead ranges are left as they are.
Rollback ==
    /\ rpc \in {"stores", "seeded", "mirrored"} \/ (LateFailure /\ rpc = "marked")
    /\ line' = pre.line \cup {i \in events : i > pre.last}
    /\ shown' = pre.line
    /\ wm' = Latest
    /\ offset' = IF pre.mirrored THEN Latest ELSE offset
    /\ Returned
    /\ UNCHANGED <<log, publisher, tick, snaps, prune, up, taken, committed>>

-----------------------------------------------------------------------------
(* The projection worker                                                   *)

Ahead == {i \in Readable : i > (IF offset = None THEN 0 ELSE offset)}

ReadBatch ==
    /\ up = "worker" /\ taken = {} /\ Ahead # {}
    /\ taken' = FirstOf(Ahead, PollLimit)
    /\ UNCHANGED <<log, publisher, world, prune, up, restore, shown, wm, offset, committed>>

CommitBatch ==
    /\ taken # {} /\ ~ committed
    /\ shown' = shown \cup {i \in taken : i > wm}
    /\ wm' = IF Last0(taken) > wm THEN Last0(taken) ELSE wm
    /\ committed' = TRUE
    /\ UNCHANGED <<log, publisher, world, prune, up, restore, offset, taken>>

\* A refused offset ends the worker, which starts again.
Mirror ==
    /\ committed
    /\ offset' = IF offset = None \/ Last0(taken) >= offset THEN Last0(taken) ELSE offset
    /\ taken' = {} /\ committed' = FALSE
    /\ UNCHANGED <<log, publisher, world, prune, up, restore, shown, wm>>

\* rebuild starts over, with neither watermark nor offset.
Rebuild ==
    /\ taken = {} /\ offset # None
    /\ rpc = "idle" \/ RebuildBeside
    /\ shown' = {} /\ wm' = 0 /\ offset' = None
    /\ UNCHANGED <<log, publisher, world, prune, up, restore, taken, committed>>

\* A restart of the daemon, outside a restore, or of the worker.
CrashDaemon ==
    /\ rpc = "idle" /\ (queue # <<>> \/ cutoff > 0 \/ asked > 0)
    /\ queue' = <<>> /\ sent' = FALSE
    /\ cutoff' = 0 /\ asked' = 0
    /\ UNCHANGED <<log, delivered, world, restore, projection>>

CrashWorker ==
    /\ taken # {}
    /\ taken' = {} /\ committed' = FALSE
    /\ UNCHANGED <<log, publisher, world, prune, up, restore, shown, wm, offset>>

-----------------------------------------------------------------------------

Publisher == Poll \/ Publish \/ PublishFails \/ Mark \/ MarkFails
Worker == ReadBatch \/ CommitBatch \/ Mirror
RestoreSteps == SeedProjection \/ ResetOffsets \/ MarkDead \/ RestoreEvent \/ Rollback
Pruning == TakeAsked \/ PruneBatch \/ (\E c \in Cutoffs : StartPrune(c) \/ AskPrune(c))

Next ==
    \/ LoopAppend \/ OtherAppend \/ TakeSnapshot
    \/ \E n \in DOMAIN snaps : RestoreStores(n)
    \/ RestoreSteps
    \/ Publisher \/ Pruning \/ Worker
    \/ Rebuild \/ CrashDaemon \/ CrashWorker

Spec == Init /\ [][Next]_vars

\* A restore that has begun ends.  The publisher polls on, and its transport and
\* the event store do not refuse for ever.  Maintenance comes again and again,
\* and a prune is not cut off by a restart every time.  (The fairness of the
\* worker is Projection's.)
Fairness ==
    /\ WF_vars(RestoreSteps)
    /\ WF_vars(Publisher) /\ SF_vars(Publish) /\ SF_vars(Mark)
    /\ WF_vars(\E c \in Cutoffs : c > 0 /\ StartPrune(c))
    /\ SF_vars(PruneBatch)

FairSpec == Spec /\ Fairness

-----------------------------------------------------------------------------
(* Properties                                                              *)

\* What the read paths serve is the history of the world, as far as it is not
\* pruned: nothing of a discarded future, and all of the rest.
ReadableIsHistory ==
    rpc = "idle" => Readable = line \cap events

\* An event of the history that was pruned had been published before.
NoneLostUnpublished ==
    rpc = "idle" => \A i \in line \ events : i \in delivered

\* The read model shows nothing of a discarded future, also when the worker
\* had a batch of it in hand during the restore.
ShowsNoDiscarded ==
    rpc = "idle" => shown \subseteq line

\* A live event whose entry is pending is published or discarded in the end.
PublishedOrDiscarded ==
    \A i \in Id : (up = "publisher" /\ i \in pending \cap Readable) ~>
                   (i \in delivered \/ i \notin Readable)

\* A discarded future is removed in the end, once there is a cutoff at all: its
\* pending entries do not keep can_prune from allowing it.
DeadIsRemoved ==
    (up = "publisher" /\ dead # {} /\ \E c \in Cutoffs : c > 0) ~> (dead = {})

\* What the changelog says of poll_outbox: a discarded future is never
\* published.
NeverPublishesDiscarded ==
    [][\A i \in delivered' \ delivered : ~ Dead(i)]_vars

\* What can_prune says of itself: pruning is safe for the projections.  A live
\* event is pruned only when the read model has counted it.
PrunesWhatIsProjected ==
    [][\A i \in (events \ events') \cap line : i <= wm]_vars
=============================================================================
