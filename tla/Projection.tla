----------------------------- MODULE Projection -----------------------------
(***************************************************************************)
(* The projection worker (crates/sentinel-projection: worker.rs, store.rs, *)
(* retry.rs).  It reads rows of the event log in batches and folds them    *)
(* into a read model that lives in a database of its own.  A batch is      *)
(* committed there together with a watermark; only then is the offset in   *)
(* the event store, the mirror, moved.  Two projections share the worker:  *)
(* the main views and the cost hierarchy, each with watermark and offset.  *)
(* A rebuild clears the read model and replays the log.  It is asked for   *)
(* by a request file, which the live worker serves, or on the command line *)
(* of a process of its own.                                                *)
(*                                                                         *)
(* One SQLite transaction is one action.  clear_all is one call but not    *)
(* one transaction: each of its statements commits by itself, so it is     *)
(* three actions, one for each group of tables that the model tells apart. *)
(* A process may die between any two actions; an error that ends the       *)
(* worker (run returns it to the supervisor) is the same step.             *)
(*                                                                         *)
(* Simplifications: a view is the number of times each row was counted in  *)
(* it, which is what the additive KPI and cost tables depend on.  The rows *)
(* of a batch are consecutive.  The three attempts of sqlite_busy are one  *)
(* attempt with their common outcome.  The removal of expired smells, the  *)
(* list of rooms and the derived room counters are left out.               *)
(***************************************************************************)
EXTENDS Integers

CONSTANTS
    Proc,           \* the processes: "live", and "cli" for a rebuild by hand
    MaxRows,        \* bound on the log
    BatchSize,
    Malformed,      \* rows with a cost payload the hierarchy must refuse
    MaxCrashes,     \* bound on crashes
    MaxRequests     \* bound on rebuild requests

ASSUME ProjectionAssumption ==
    /\ Proc \subseteq {"live", "cli"}
    /\ MaxRows \in Nat
    /\ BatchSize \in Nat \ {0}
    /\ Malformed \subseteq Nat \ {0}
    /\ MaxCrashes \in Nat
    /\ MaxRequests \in Nat

Proj == {"main", "hier"}
Row == 1..MaxRows
None == -1      \* no row in projection_offsets

VARIABLES
    head,       \* the last row of the log
    views,      \* projection -> row -> how often the row was counted
    wm,         \* projection_watermarks in the read model, 0 if absent
    offset,     \* projection_offsets in the event store
    request,    \* the rebuild request file exists
    pc,         \* where each process is
    batch,      \* what a process has read: the rows after lo, up to hi, and
                \* whether there was an offset to resume from (mirrored)
    rebuilding, \* the process is inside rebuild
    crashes, requests

store == <<views, wm, offset>>
vars == <<head, views, wm, offset, request, pc, batch, rebuilding, crashes, requests>>

Label == {"down", "first", "poll", "clearMain", "clearHier", "clearMarks", "resetMain",
          "resetHier", "replayRead", "replayCommit", "replayMirror", "hierRead",
          "hierCommit", "hierMirror", "mainRead", "mainCommit", "mainMirror",
          "unlink", "done"}

NoBatch == [lo |-> 0, hi |-> 0, mirrored |-> FALSE]

TypeOK ==
    /\ head \in 0..MaxRows
    /\ views \in [Proj -> [Row -> Nat]]
    /\ wm \in [Proj -> 0..MaxRows]
    /\ offset \in [Proj -> {None} \cup (0..MaxRows)]
    /\ request \in BOOLEAN
    /\ pc \in [Proc -> Label]
    /\ batch \in [Proc -> [lo : 0..MaxRows, hi : 0..MaxRows, mirrored : BOOLEAN]]
    /\ rebuilding \in [Proc -> BOOLEAN]
    /\ crashes \in 0..MaxCrashes
    /\ requests \in 0..MaxRequests

Init ==
    /\ head = 0
    /\ views = [j \in Proj |-> [i \in Row |-> 0]]
    /\ wm = [j \in Proj |-> 0]
    /\ offset = [j \in Proj |-> None]
    /\ request = FALSE
    /\ pc = [p \in Proc |-> "down"]
    /\ batch = [p \in Proc |-> NoBatch]
    /\ rebuilding = [p \in Proc |-> FALSE]
    /\ crashes = 0
    /\ requests = 0

Goto(p, label) == pc' = [pc EXCEPT ![p] = label]

Maximum(a, b) == IF a >= b THEN a ELSE b

-----------------------------------------------------------------------------
(* The event store: get_events_since_with_id, update_offset                *)

\* The rows after lo, at most BatchSize of them.
RowsSince(lo, mirrored) ==
    [lo |-> lo,
     hi |-> IF lo + BatchSize <= head THEN lo + BatchSize ELSE Maximum(lo, head),
     mirrored |-> mirrored]

Empty(b) == b.hi = b.lo

\* get_offset and the batch after it.
Pending(j) == RowsSince(IF offset[j] = None THEN 0 ELSE offset[j], offset[j] # None)

\* update_offset refuses to move backwards (MonotonicityError).
Accepts(j, last) == offset[j] = None \/ last >= offset[j]

-----------------------------------------------------------------------------
(* One batch in the read model                                             *)

\* The rows of the batch that the read model has not committed yet.
Fresh(j, b) == {i \in (b.lo + 1)..b.hi : i > wm[j]}

\* The transaction: every fresh row through the handlers, then the watermark,
\* which never moves back.
CommitBatch(j, b) ==
    /\ views' = [views EXCEPT ![j] =
                    [i \in Row |-> @[i] + (IF i \in Fresh(j, b) THEN 1 ELSE 0)]]
    /\ wm' = [wm EXCEPT ![j] = Maximum(@, b.hi)]

\* The process is gone; only the two databases and the file remain.
Exit(p) ==
    /\ Goto(p, "down")
    /\ batch' = [batch EXCEPT ![p] = NoBatch]
    /\ rebuilding' = [rebuilding EXCEPT ![p] = FALSE]

-----------------------------------------------------------------------------
(* ReadModelStore::open and the head of the live loop                      *)

\* The watermark of the main views is raised to the newest row found in them.
Start(p) ==
    /\ pc[p] = "down"
    /\ \E newest \in 0..MaxRows :
          /\ \A i \in Row : views["main"][i] > 0 => i <= newest
          /\ newest > 0 => views["main"][newest] > 0
          /\ wm' = [wm EXCEPT !["main"] = Maximum(@, newest)]
    /\ Goto(p, IF p = "live" THEN "first" ELSE "clearMain")
    /\ rebuilding' = [rebuilding EXCEPT ![p] = (p = "cli")]
    /\ UNCHANGED <<head, views, offset, request, batch, crashes, requests>>

\* Mutant: the first look at the request file waits for the poll interval.
CheckRequestLater(p) ==
    /\ pc[p] \in {"first", "poll"}
    /\ Goto(p, IF request /\ pc[p] = "poll" THEN "clearMain" ELSE "hierRead")
    /\ rebuilding' = [rebuilding EXCEPT ![p] = request /\ pc[p] = "poll"]
    /\ UNCHANGED <<head, store, request, batch, crashes, requests>>

\* handle_rebuild_request_if_present, due at once in the first round.
CheckRequest(p) ==
    /\ pc[p] \in {"first", "poll"}
    /\ Goto(p, IF request THEN "clearMain" ELSE "hierRead")
    /\ rebuilding' = [rebuilding EXCEPT ![p] = request]
    /\ UNCHANGED <<head, store, request, batch, crashes, requests>>

\* The poll interval of the request file is not over.
NotDue(p) ==
    /\ pc[p] = "poll"
    /\ Goto(p, "hierRead")
    /\ UNCHANGED <<head, store, request, batch, rebuilding, crashes, requests>>

-----------------------------------------------------------------------------
(* rebuild                                                                 *)

ClearMain(p) ==
    /\ pc[p] = "clearMain"
    /\ views' = [views EXCEPT !["main"] = [i \in Row |-> 0]]
    /\ Goto(p, "clearHier")
    /\ UNCHANGED <<head, wm, offset, request, batch, rebuilding, crashes, requests>>

ClearHier(p) ==
    /\ pc[p] = "clearHier"
    /\ views' = [views EXCEPT !["hier"] = [i \in Row |-> 0]]
    /\ Goto(p, "clearMarks")
    /\ UNCHANGED <<head, wm, offset, request, batch, rebuilding, crashes, requests>>

ClearMarks(p) ==
    /\ pc[p] = "clearMarks"
    /\ wm' = [j \in Proj |-> 0]
    /\ Goto(p, "resetMain")
    /\ UNCHANGED <<head, views, offset, request, batch, rebuilding, crashes, requests>>

ResetMain(p) ==
    /\ pc[p] = "resetMain"
    /\ offset' = [offset EXCEPT !["main"] = None]
    /\ Goto(p, "resetHier")
    /\ UNCHANGED <<head, views, wm, request, batch, rebuilding, crashes, requests>>

ResetHier(p) ==
    /\ pc[p] = "resetHier"
    /\ offset' = [offset EXCEPT !["hier"] = None]
    /\ batch' = [batch EXCEPT ![p] = NoBatch]
    /\ Goto(p, "replayRead")
    /\ UNCHANGED <<head, views, wm, request, rebuilding, crashes, requests>>

\* The replay keeps its own place; an empty batch ends it.
ReplayRead(p) ==
    /\ pc[p] = "replayRead"
    /\ LET b == RowsSince(batch[p].hi, FALSE)
       IN  IF Empty(b)
           THEN Goto(p, "replayMirror") /\ UNCHANGED batch
           ELSE Goto(p, "replayCommit") /\ batch' = [batch EXCEPT ![p] = b]
    /\ UNCHANGED <<head, store, request, rebuilding, crashes, requests>>

ReplayCommit(p) ==
    /\ pc[p] = "replayCommit"
    /\ CommitBatch("main", batch[p])
    /\ Goto(p, "replayRead")
    /\ UNCHANGED <<head, offset, request, batch, rebuilding, crashes, requests>>

\* MonotonicityError: the offset stays and the error ends the process.
Rejected(p) == Exit(p) /\ UNCHANGED <<head, store, request, crashes, requests>>

ReplayMoves(p) ==
    /\ offset' = IF batch[p].hi > 0 THEN [offset EXCEPT !["main"] = batch[p].hi] ELSE offset
    /\ Goto(p, "hierRead")
    /\ UNCHANGED <<head, views, wm, request, batch, rebuilding, crashes, requests>>

\* The offset is written once, after the replay, unless the log was empty.
ReplayMirror(p) ==
    /\ pc[p] = "replayMirror"
    /\ IF batch[p].hi > 0 /\ ~ Accepts("main", batch[p].hi)
       THEN Rejected(p) ELSE ReplayMoves(p)

\* The request is served; the file goes last.
Unlink(p) ==
    /\ pc[p] = "unlink"
    /\ request' = FALSE
    /\ rebuilding' = [rebuilding EXCEPT ![p] = FALSE]
    /\ Goto(p, "hierRead")
    /\ UNCHANGED <<head, store, batch, crashes, requests>>

-----------------------------------------------------------------------------
(* process_hierarchy_pending_batch, process_pending_batch                  *)

\* Mutant: the mirror is moved before the batch is committed.
HierReadMirrors(p) ==
    /\ pc[p] = "hierRead"
    /\ LET b == Pending("hier")
       IN  IF Empty(b)
           THEN /\ Goto(p, IF ~ rebuilding[p] THEN "mainRead"
                           ELSE IF p = "live" THEN "unlink" ELSE "done")
                /\ UNCHANGED <<batch, offset>>
           ELSE /\ Goto(p, "hierCommit")
                /\ batch' = [batch EXCEPT ![p] = b]
                /\ offset' = [offset EXCEPT !["hier"] = b.hi]
    /\ UNCHANGED <<head, views, wm, request, rebuilding, crashes, requests>>

\* In a rebuild the hierarchy is caught up until nothing is pending.
HierRead(p) ==
    /\ pc[p] = "hierRead"
    /\ LET b == Pending("hier")
       IN  IF Empty(b)
           THEN /\ Goto(p, IF ~ rebuilding[p] THEN "mainRead"
                           ELSE IF p = "live" THEN "unlink" ELSE "done")
                /\ UNCHANGED batch
           ELSE Goto(p, "hierCommit") /\ batch' = [batch EXCEPT ![p] = b]
    /\ UNCHANGED <<head, store, request, rebuilding, crashes, requests>>

MainRead(p) ==
    /\ pc[p] = "mainRead"
    /\ LET b == Pending("main")
       IN  IF Empty(b)
           THEN Goto(p, "poll") /\ UNCHANGED batch
           ELSE Goto(p, "mainCommit") /\ batch' = [batch EXCEPT ![p] = b]
    /\ UNCHANGED <<head, store, request, rebuilding, crashes, requests>>

HierCommit(p) ==
    /\ pc[p] = "hierCommit"
    /\ Fresh("hier", batch[p]) \cap Malformed = {}
    /\ CommitBatch("hier", batch[p])
    /\ Goto(p, "hierMirror")
    /\ UNCHANGED <<head, offset, request, batch, rebuilding, crashes, requests>>

\* The transaction is rolled back and the error ends the worker.
HierRefuses(p) ==
    /\ pc[p] = "hierCommit"
    /\ Fresh("hier", batch[p]) \cap Malformed # {}
    /\ Exit(p)
    /\ UNCHANGED <<head, store, request, crashes, requests>>

MainCommit(p) ==
    /\ pc[p] = "mainCommit"
    /\ CommitBatch("main", batch[p])
    /\ Goto(p, "mainMirror")
    /\ UNCHANGED <<head, offset, request, batch, rebuilding, crashes, requests>>

MirrorLabel(j) == IF j = "main" THEN "mainMirror" ELSE "hierMirror"

AfterMirror(p, j) ==
    IF j = "main" THEN "poll" ELSE IF rebuilding[p] THEN "hierRead" ELSE "mainRead"

Moves(p, j) ==
    /\ offset' = [offset EXCEPT ![j] = batch[p].hi]
    /\ Goto(p, AfterMirror(p, j))
    /\ UNCHANGED <<head, views, wm, request, batch, rebuilding, crashes, requests>>

Mirror(p, j) ==
    /\ pc[p] = MirrorLabel(j)
    /\ IF Accepts(j, batch[p].hi) THEN Moves(p, j) ELSE Rejected(p)

\* Mutant: a postponed mirror drops the offset.
MirrorDeferredForgets(p, j) ==
    /\ pc[p] = MirrorLabel(j)
    /\ ~ rebuilding[p] /\ batch[p].mirrored
    /\ offset' = [offset EXCEPT ![j] = None]
    /\ Goto(p, AfterMirror(p, j))
    /\ UNCHANGED <<head, views, wm, request, batch, rebuilding, crashes, requests>>

\* The writer lock of the event store is busy on every attempt.  Only the live
\* loop may go on, and only where an offset was mirrored before.
MirrorDeferred(p, j) ==
    /\ pc[p] = MirrorLabel(j)
    /\ ~ rebuilding[p] /\ batch[p].mirrored
    /\ Goto(p, AfterMirror(p, j))
    /\ UNCHANGED <<head, store, request, batch, rebuilding, crashes, requests>>

-----------------------------------------------------------------------------
(* The environment                                                         *)

\* The daemon appends to the log.
Append ==
    /\ head < MaxRows
    /\ head' = head + 1
    /\ UNCHANGED <<store, request, pc, batch, rebuilding, crashes, requests>>

\* write_projection_rebuild_request, also over an existing file.
RequestRebuild ==
    /\ requests < MaxRequests
    /\ request' = TRUE
    /\ requests' = requests + 1
    /\ UNCHANGED <<head, store, pc, batch, rebuilding, crashes>>

\* Also every error that ends the worker.
Crash(p) ==
    /\ pc[p] \notin {"down", "done"}
    /\ crashes < MaxCrashes
    /\ crashes' = crashes + 1
    /\ Exit(p)
    /\ UNCHANGED <<head, store, request, requests>>

LiveLoop(p) ==
    \/ CheckRequest(p) \/ NotDue(p) \/ Unlink(p)
    \/ HierRead(p) \/ HierCommit(p) \/ HierRefuses(p)
    \/ MainRead(p) \/ MainCommit(p)
    \/ \E j \in Proj : Mirror(p, j) \/ MirrorDeferred(p, j)

Rebuild(p) ==
    \/ ClearMain(p) \/ ClearHier(p) \/ ClearMarks(p)
    \/ ResetMain(p) \/ ResetHier(p)
    \/ ReplayRead(p) \/ ReplayCommit(p) \/ ReplayMirror(p)

Next ==
    \/ Append
    \/ RequestRebuild
    \/ \E p \in Proc : Start(p) \/ LiveLoop(p) \/ Rebuild(p) \/ Crash(p)

Spec == Init /\ [][Next]_vars

\* The supervisor restarts the worker, the worker goes on, the request file is
\* looked at once a second, and a mirror that is tried again and again finds
\* the event store free in the end.
Fairness ==
    \A p \in Proc \cap {"live"} :
        /\ WF_vars(Start(p) \/ LiveLoop(p) \/ Rebuild(p))
        /\ SF_vars(CheckRequest(p))
        /\ \A j \in Proj : SF_vars(Mirror(p, j))

FairSpec == Spec /\ Fairness

-----------------------------------------------------------------------------
(* Properties                                                              *)

\* Every row up to the watermark was counted exactly once, no later row was.
Exact(j) ==
    \A i \in Row : views[j][i] = IF i <= wm[j] THEN 1 ELSE 0

\* The read model is in use: no rebuild is under way, and none was cut short
\* whose request is still there for the next start to find.
InUse ==
    \A p \in Proc : /\ ~ rebuilding[p]
                    /\ ~ (request /\ pc[p] \in {"down", "first"})

\* No row is ever counted twice (process_batch, clear_all): not when a batch
\* is read again because its mirror was deferred or lost in a crash, and not
\* when a crash leaves a rebuild half done.
NeverTwice ==
    \A j \in Proj, i \in Row : views[j][i] <= 1

\* A read model in use holds each row up to its watermark once and nothing
\* else, whatever crashed, was deferred or was rebuilt before.
EveryRowOnce == InUse => \A j \in Proj : Exact(j)

\* Views are committed before the offset moves: what the event store believes
\* is projected, and lets be pruned, is in a read model in use.
OffsetBehindViews ==
    InUse => \A j \in Proj : offset[j] <= wm[j]

\* process_hierarchy_batch never gets past a payload it must refuse, by
\* whichever way it comes to the row again.
RefusesMalformed ==
    \A m \in Malformed : wm["hier"] < m

\* The log holds a row that the hierarchy must refuse: the worker stops there.
Stuck == \E m \in Malformed : m <= head

\* The offsets follow, so that the log can be pruned.
OffsetsFollow ==
    \A j \in Proj, i \in Row : (head >= i) ~> (offset[j] >= i \/ Stuck)

\* What rebuild says of its single write of the offset: no risk of a conflict
\* with another process.
NoMonotonicityConflict ==
    \A p \in Proc :
        (pc[p] = "replayMirror" /\ batch[p].hi > 0) => Accepts("main", batch[p].hi)

\* What rebuild says of itself: all views are cleared and all events are
\* processed from the start.  So a rebuild that has ended leaves every row it
\* replayed counted once.
RebuildCountsAll ==
    \A p \in Proc :
        (pc[p] = "done") => \A i \in 1..wm["main"] : views["main"][i] = 1
=============================================================================
