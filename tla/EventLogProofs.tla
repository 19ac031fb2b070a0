--------------------------- MODULE EventLogProofs ---------------------------
(***************************************************************************)
(* Proofs about the event log under jumps back in time, for a log and      *)
(* snapshots of any size and any sizes of batches.                         *)
(*                                                                         *)
(* The argument: ids grow and the newest row is never pruned, so the       *)
(* latest id a restore reads is the last id given out.  Every snapshot     *)
(* holds all of the present history up to its last event.  A restore along *)
(* the history therefore discards exactly the ids between its anchor and   *)
(* that latest id, which is the range it marks.                            *)
(***************************************************************************)
EXTENDS EventLog, WellFoundedInduction, TLAPS

Phase == {"idle", "stores", "seeded", "mirrored", "marked"}
Shot == [tick : Nat, last : Nat, line : SUBSET Nat, mirrored : BOOLEAN]

\* What the world has lived through; during a restore, what it had before.
History == IF rpc = "idle" THEN line ELSE pre.line

\* Ids: the last one given out is in the log, no range or cutoff is ahead of it.
LogInv ==
    /\ nextId \in Nat \ {0}
    /\ events \subseteq 1..(nextId - 1)
    /\ nextId > 1 => nextId - 1 \in events
    /\ dead \subseteq Nat \X Nat
    /\ \A r \in dead : r[2] < nextId
    /\ tick \in Nat
    /\ rpc \in Phase
    /\ cutoff \in Nat /\ cutoff < nextId
    /\ asked \in Nat /\ asked < nextId

\* A snapshot ends with its last event.
Ended(s) ==
    /\ s \in Shot
    /\ s.last < nextId
    /\ s.line \subseteq 1..s.last
    /\ s.last > 0 => s.last \in s.line

\* A snapshot holds all of the history up to its last event.
SnapInv ==
    /\ snaps \in Seq(Shot)
    /\ \A n \in DOMAIN snaps :
          /\ Ended(snaps[n])
          /\ \A i \in History : i <= snaps[n].last => i \in snaps[n].line
    /\ History \subseteq 1..(nextId - 1)

\* A restore goes back along the history, and reads the latest id later.
RestoreInv ==
    /\ rpc # "idle" =>
          /\ Ended(pre) /\ Ended(anchor)
          /\ anchor.last <= pre.last
          /\ anchor.line = {i \in pre.line : i <= anchor.last}
          /\ \A n \in DOMAIN snaps : snaps[n].last <= pre.last
    /\ rpc \in {"seeded", "mirrored", "marked"} =>
          /\ top \in Nat /\ pre.last <= top /\ top < nextId
          /\ line = anchor.line \cup {i \in events : i > top}

\* The dead ranges hold what is not in the history, up to what a restore under
\* way has still to mark.
DeadInv ==
    /\ rpc = "idle" /\ nextId > 1 => nextId - 1 \in line
    /\ rpc \in {"idle", "marked"} => \A i \in events : Dead(i) <=> i \notin line
    /\ rpc \in {"stores", "seeded", "mirrored"} =>
          \A i \in events : Dead(i) <=> i <= pre.last /\ i \notin pre.line

\* An entry leaves the outbox after it was sent, or with its event; what a prune
\* may delete was sent.
OutboxInv ==
    /\ sent => queue # <<>> /\ Head(queue) \in delivered
    /\ events \subseteq pending \cup delivered
    /\ \A i \in events : (i < cutoff \/ i < asked) /\ ~ Dead(i) => i \in delivered
    /\ History \ events \subseteq delivered

\* The read model, and what the worker would add to it, is of the history; from
\* the seeding on its watermark is past everything discarded.
ShownInv ==
    /\ taken \subseteq 1..(nextId - 1)
    /\ wm \in Nat
    /\ rpc # "stores" => shown \subseteq line /\ \A i \in taken : i > wm => i \in line
    /\ rpc \in {"seeded", "mirrored", "marked"} => wm >= top

LineInv == LogInv /\ SnapInv /\ RestoreInv /\ DeadInv

-----------------------------------------------------------------------------
(* Operators                                                               *)

\* A set of numbers has a least element.
LEMMA LeastOf ==
    ASSUME NEW T \in SUBSET Nat, T # {}
    PROVE  \E x \in T : \A y \in T : x <= y
<1>1. PICK x \in T : \A y \in T : ~ (<<y, x>> \in OpToRel(<, Nat))
  BY WFMin, NatLessThanWellFounded, Zenon
<1>2. \A y \in T : y < x => <<y, x>> \in OpToRel(<, Nat)
  BY DEF OpToRel
<1>3. \A y \in T : ~ (y < x)
  BY <1>1, <1>2, Zenon
<1>4. QED
  BY <1>3

\* Last0 is the greatest of a set of ids.
LEMMA LastOf ==
    ASSUME NEW N \in Int, NEW S \in SUBSET (1..N), S # {}
    PROVE  /\ Last0(S) \in S
           /\ \A k \in S : k <= Last0(S)
<1> DEFINE T == {n \in Nat : \E i \in S : n = N - i}
<1>1. PICK i \in S : TRUE
  BY Zenon
<1>2. N - i \in T
  OBVIOUS
<1>3. PICK n \in T : \A m \in T : n <= m
  <2> HIDE DEF T
  <2>1. T \in SUBSET Nat
    BY DEF T
  <2>2. QED
    BY <1>2, <2>1, LeastOf
<1>4. PICK x \in S : n = N - x
  OBVIOUS
<1>5. ASSUME NEW y \in S PROVE y <= x
  <2>1. N - y \in T
    OBVIOUS
  <2>2. QED
    BY <1>3, <1>4, <2>1
<1>6. QED
  BY <1>5, Zenon DEF Last0

\* The latest id a restore or a snapshot reads is the last one given out.
LEMMA LatestIs ==
    ASSUME LogInv
    PROVE  Latest = nextId - 1
<1>1. CASE events = {}
  BY <1>1 DEF LogInv, Latest, Last0
<1>2. CASE events # {}
  <2>1. Latest \in events /\ \A k \in events : k <= Latest
    BY <1>2, LastOf DEF LogInv, Latest
  <2>2. QED
    BY <2>1 DEF LogInv
<1>3. QED
  BY <1>1, <1>2

LEMMA FirstOfWithin ==
    ASSUME NEW S, NEW n PROVE FirstOf(S, n) \subseteq S
  BY DEF FirstOf

LEMMA CutoffOfSnap ==
    ASSUME NEW c \in Cutoffs
    PROVE  \E n \in DOMAIN snaps : c = snaps[n].last
  BY Zenon DEF Cutoffs

\* Pruning keeps every remaining row as dead or alive as it was.
LEMMA PruneKeepsDead ==
    ASSUME PruneBatch
    PROVE  \A i \in events' : Dead(i)' <=> Dead(i)
  BY DEF PruneBatch, Dead

-----------------------------------------------------------------------------
(* The log, its snapshots and its dead ranges                              *)

Along == ~ Undo /\ ~ LateFailure

LEMMA LineInit == Init => LineInv
<1> SUFFICES ASSUME Init PROVE LineInv
  OBVIOUS
<1> USE DEF Init
<1>1. LogInv
  BY DEF LogInv, Phase
<1>2. SnapInv
  BY DEF SnapInv, History
<1>3. RestoreInv /\ DeadInv
  BY DEF RestoreInv, DeadInv
<1>4. QED
  BY <1>1, <1>2, <1>3 DEF LineInv

\* A row appended beside or outside a restore.
LEMMA LineAppend ==
    ASSUME LineInv, LoopAppend \/ OtherAppend
    PROVE  LineInv'
<1> USE DEF LineInv
<1>0. /\ events' = events \cup {nextId} /\ nextId' = nextId + 1
      /\ line' = line \cup {nextId} /\ tick' \in Nat
      /\ UNCHANGED <<dead, snaps, cutoff, asked, rpc, anchor, pre, top>>
  BY DEF LogInv, LoopAppend, OtherAppend, Appended, prune, restore
<1>1. LogInv'
  BY <1>0 DEF LogInv
<1>2. SnapInv'
  <2>1. History' = History \/ History' = History \cup {nextId}
    BY <1>0 DEF History
  <2>2. ASSUME NEW i \in History' PROVE i \in 1..(nextId' - 1)
    <3>1. i \in 1..(nextId - 1) \/ i = nextId
      BY <2>1, Zenon DEF SnapInv
    <3>2. QED
      BY <1>0, <3>1 DEF LogInv
  <2>3. ASSUME NEW n \in DOMAIN snaps
        PROVE  /\ Ended(snaps[n])'
               /\ \A i \in History' : i <= snaps[n].last => i \in snaps[n].line
    <3>1. Ended(snaps[n]) /\ ~ (nextId <= snaps[n].last)
      BY DEF SnapInv, Ended, LogInv, Shot
    <3>2. Ended(snaps[n])'
      BY <1>0, <3>1 DEF Ended, LogInv, Shot
    <3>3. QED
      BY <2>1, <3>1, <3>2, Zenon DEF SnapInv
  <2>4. QED
    BY <1>0, <2>2, <2>3 DEF SnapInv
<1>3. RestoreInv'
  BY <1>0 DEF RestoreInv, LogInv, SnapInv, History, Ended, Shot
<1>4. DeadInv'
  <2>1. \A i \in {nextId} : ~ Dead(i)'
    BY <1>0 DEF LogInv, Dead, InRange
  <2>2. \A i \in events : Dead(i)' <=> Dead(i)
    BY <1>0 DEF Dead
  <2>3. rpc \in {"stores", "seeded", "mirrored"} => ~ (nextId <= pre.last)
    BY DEF RestoreInv, LogInv, Ended, Shot
  <2>4. rpc = "idle" => nextId' - 1 \in line'
    BY <1>0 DEF LogInv
  <2>5. nextId \notin events
    BY DEF LogInv
  <2>6. rpc \in {"idle", "marked"} => \A i \in events' : Dead(i)' <=> i \notin line'
    BY <1>0, <2>1, <2>2, <2>5 DEF DeadInv
  <2>7. rpc \in {"stores", "seeded", "mirrored"} =>
           \A i \in events' : Dead(i)' <=> i <= pre.last /\ i \notin pre.line
    BY <1>0, <2>1, <2>2, <2>3, <2>5 DEF DeadInv
  <2>8. QED
    BY <1>0, <2>4, <2>6, <2>7 DEF DeadInv
<1>5. QED
  BY <1>1, <1>2, <1>3, <1>4

\* A cutoff is the last event of a snapshot.
LEMMA LineCutoffs ==
    ASSUME LineInv,
           \/ \E c \in Cutoffs : StartPrune(c) \/ AskPrune(c)
           \/ TakeAsked \/ CrashDaemon
    PROVE  LineInv'
<1> USE DEF LineInv
<1>0. UNCHANGED <<events, nextId, dead, tick, line, snaps, rpc, anchor, pre, top>>
  BY DEF StartPrune, AskPrune, TakeAsked, CrashDaemon, log, world, restore
<1>1. /\ cutoff' \in Nat /\ cutoff' < nextId
      /\ asked' \in Nat /\ asked' < nextId
  <2>1. \A c \in Cutoffs : c \in Nat /\ c < nextId
    BY CutoffOfSnap DEF SnapInv, Ended, Shot
  <2>2. QED
    BY <2>1 DEF LogInv, StartPrune, AskPrune, TakeAsked, CrashDaemon
<1>2. LogInv'
  BY <1>0, <1>1 DEF LogInv
<1>3. SnapInv' /\ RestoreInv' /\ DeadInv'
  BY <1>0 DEF SnapInv, RestoreInv, DeadInv, History, Ended, Dead
<1>4. QED
  BY <1>2, <1>3

\* A prune never takes the newest row: it is live and not before the cutoff.
LEMMA LinePrune ==
    ASSUME LineInv, PruneBatch
    PROVE  LineInv'
<1> USE DEF LineInv
<1>0. /\ rpc = "idle" /\ events' \subseteq events /\ dead' \subseteq dead
      /\ UNCHANGED <<nextId, tick, line, snaps, asked, rpc, anchor, pre, top>>
  BY DEF PruneBatch, world, restore
<1>1. nextId > 1 => nextId - 1 \in events'
  <2>1. SUFFICES ASSUME nextId > 1 PROVE nextId - 1 \notin Doomed
    BY FirstOfWithin DEF PruneBatch, LogInv
  <2>2. nextId - 1 \in events /\ ~ Dead(nextId - 1)
    BY <1>0, <2>1 DEF LogInv, DeadInv
  <2>3. QED
    BY <2>2 DEF Doomed, LogInv
<1>2. cutoff' \in Nat /\ cutoff' < nextId
  BY DEF PruneBatch, LogInv
<1>3. LogInv'
  BY <1>0, <1>1, <1>2 DEF LogInv
<1>4. SnapInv' /\ RestoreInv'
  BY <1>0 DEF SnapInv, RestoreInv, History, Ended
<1>5. DeadInv'
  BY <1>0, PruneKeepsDead DEF DeadInv
<1>6. QED
  BY <1>3, <1>4, <1>5

\* At rest a snapshot is of the whole history, up to the last id.
LEMMA HereEnds ==
    ASSUME LineInv, rpc = "idle"
    PROVE  /\ Here \in Shot
           /\ Here.last = nextId - 1 /\ Here.line = line
           /\ Ended(Here)
<1>1. Here.last = nextId - 1 /\ Here.line = line
  BY LatestIs DEF Here, LineInv
<1>2. line \subseteq 1..(nextId - 1)
  BY DEF LineInv, SnapInv, History
<1>3. Here \in Shot
  <2>1. /\ tick \in Nat /\ Latest \in Nat /\ line \in SUBSET Nat
        /\ (offset # None) \in BOOLEAN
    BY <1>2, LatestIs DEF LineInv, LogInv
  <2>2. QED
    BY <2>1 DEF Here, Shot
<1>4. Ended(Here)
  BY <1>1, <1>2, <1>3 DEF Ended, LineInv, LogInv, DeadInv
<1>5. QED
  BY <1>1, <1>3, <1>4

\* It can be added to the snapshots.
LEMMA ShotAdded ==
    ASSUME LineInv, rpc = "idle", snaps' = Append(snaps, Here),
           nextId' = nextId, History' = History
    PROVE  SnapInv'
<1>0. History = line
  BY DEF History
<1>1. snaps \in Seq(Shot) /\ Here \in Shot
  BY HereEnds DEF LineInv, SnapInv
<1>2. /\ snaps' \in Seq(Shot)
      /\ \A n \in DOMAIN snaps' :
            \/ n \in DOMAIN snaps /\ snaps'[n] = snaps[n]
            \/ snaps'[n] = Here
  BY <1>1
<1>3. ASSUME NEW s, Ended(s) PROVE Ended(s)'
  BY <1>3 DEF Ended
<1>4. ASSUME NEW n \in DOMAIN snaps'
      PROVE  /\ Ended(snaps[n])'
             /\ \A i \in History' : i <= snaps'[n].last => i \in snaps'[n].line
  <2>1. CASE n \in DOMAIN snaps /\ snaps'[n] = snaps[n]
    BY <1>3, <2>1, Zenon DEF LineInv, SnapInv, Ended
  <2>2. CASE snaps'[n] = Here
    <3>1. Ended(Here) /\ Here.line = line
      BY HereEnds
    <3>2. PICK s : s = Here
      OBVIOUS
    <3>3. Ended(s)'
      BY <1>3, <3>1, <3>2
    <3>4. QED
      BY <1>0, <2>2, <3>1, <3>2, <3>3 DEF Ended
  <2>3. QED
    BY <1>2, <2>1, <2>2
<1>5. History' \subseteq 1..(nextId' - 1)
  BY DEF LineInv, SnapInv
<1>6. QED
  BY <1>2, <1>4, <1>5 DEF SnapInv

LEMMA LineSnapshot ==
    ASSUME LineInv, TakeSnapshot
    PROVE  LineInv'
<1> USE DEF LineInv
<1>0. /\ rpc = "idle" /\ snaps' = Append(snaps, Here)
      /\ UNCHANGED <<events, nextId, dead, tick, line, cutoff, asked, rpc, anchor, pre, top>>
  BY DEF TakeSnapshot, log, prune, restore
<1>1. LogInv' /\ DeadInv'
  BY <1>0 DEF LogInv, DeadInv, Dead
<1>2. RestoreInv'
  BY <1>0 DEF RestoreInv
<1>3. SnapInv'
  <2>1. History' = History
    BY <1>0 DEF History
  <2>2. QED
    BY <1>0, <2>1, ShotAdded
<1>4. QED
  BY <1>1, <1>2, <1>3
\* The anchor of a restore along the history is the history up to its last event.
LEMMA LineRestore ==
    ASSUME Along, LineInv, NEW n \in DOMAIN snaps, RestoreStores(n)
    PROVE  LineInv'
<1> USE DEF LineInv
<1>0. /\ rpc = "idle" /\ snaps' = Append(snaps, Here) /\ rpc' = "stores"
      /\ anchor' = snaps[n] /\ pre' = Here
      /\ snaps[n].line \subseteq line
      /\ UNCHANGED <<events, nextId, dead, tick, cutoff, asked>>
  BY DEF RestoreStores, log, prune, Along
<1>1. Here.last = nextId - 1 /\ Here.line = line /\ Ended(Here) /\ Here \in Shot
  BY <1>0, HereEnds
<1>2. LogInv'
  BY <1>0 DEF LogInv, Phase
<1>3. SnapInv'
  <2>1. History' = History
    BY <1>0, <1>1 DEF History
  <2>2. QED
    BY <1>0, <2>1, ShotAdded
<1>4. Ended(pre)' /\ Ended(anchor)'
  BY <1>0, <1>1 DEF Ended, SnapInv
<1>5. snaps[n].line = {i \in line : i <= snaps[n].last}
  <2>1. /\ snaps[n].line \subseteq 1..snaps[n].last /\ snaps[n].last \in Nat
        /\ \A i \in line : i <= snaps[n].last => i \in snaps[n].line
    BY <1>0 DEF SnapInv, History, Ended, Shot
  <2>2. QED
    BY <1>0, <2>1
<1>6. \A m \in DOMAIN snaps' : snaps'[m].last <= nextId - 1
  <2>1. \A m \in DOMAIN snaps' : snaps'[m] \in Shot /\ snaps'[m].last < nextId
    BY <1>0, <1>3 DEF SnapInv, Ended
  <2>2. QED
    BY <2>1 DEF Shot, LogInv
<1>7. RestoreInv'
  <2>1. anchor'.last <= pre'.last
    BY <1>0, <1>1 DEF SnapInv, Ended, Shot, LogInv
  <2>2. QED
    BY <1>0, <1>1, <1>4, <1>5, <1>6, <2>1 DEF RestoreInv
<1>8. DeadInv'
  BY <1>0, <1>1 DEF DeadInv, Dead, LogInv
<1>9. QED
  BY <1>2, <1>3, <1>7, <1>8

\* The latest id is read behind the rollback snapshot.
LEMMA LineSeed ==
    ASSUME LineInv, SeedProjection
    PROVE  LineInv'
<1> USE DEF LineInv
<1>0. /\ rpc = "stores" /\ rpc' = "seeded" /\ top' = nextId - 1
      /\ line' = anchor.line
      /\ UNCHANGED <<events, nextId, dead, tick, snaps, cutoff, asked, anchor, pre>>
  BY LatestIs DEF SeedProjection, log, prune
<1>1. LogInv'
  BY <1>0 DEF LogInv, Phase
<1>2. SnapInv'
  BY <1>0 DEF SnapInv, History, Ended
<1>3. RestoreInv'
  <2>1. pre.last <= top' /\ top' \in Nat
    BY <1>0 DEF RestoreInv, Ended, Shot, LogInv
  <2>2. \A i \in events : ~ (i > nextId - 1)
    BY DEF LogInv
  <2>3. line' = anchor.line \cup {i \in events : i > top'}
    BY <1>0, <2>2
  <2>4. Ended(pre)' /\ Ended(anchor)'
    BY <1>0 DEF RestoreInv, Ended
  <2>5. QED
    BY <1>0, <1>1, <2>1, <2>3, <2>4 DEF RestoreInv, LogInv
<1>4. DeadInv'
  BY <1>0 DEF DeadInv, Dead
<1>5. QED
  BY <1>1, <1>2, <1>3, <1>4

LEMMA LineReset ==
    ASSUME LineInv, ResetOffsets
    PROVE  LineInv'
<1> USE DEF LineInv
<1>0. /\ rpc = "seeded" /\ rpc' = "mirrored"
      /\ UNCHANGED <<events, nextId, dead, tick, line, snaps, cutoff, asked, anchor, pre, top>>
  BY DEF ResetOffsets, log, world, prune
<1>1. LogInv'
  BY <1>0 DEF LogInv, Phase
<1>2. SnapInv' /\ RestoreInv' /\ DeadInv'
  BY <1>0 DEF SnapInv, RestoreInv, DeadInv, History, Ended, Dead
<1>3. QED
  BY <1>1, <1>2

\* The range marked is what the restore has left behind.
LEMMA LineMark ==
    ASSUME LineInv, MarkDead
    PROVE  LineInv'
<1> USE DEF LineInv
<1>0. /\ rpc = "mirrored" /\ rpc' = "marked"
      /\ dead' = IF top > anchor.last THEN dead \cup {<<anchor.last, top>>} ELSE dead
      /\ UNCHANGED <<events, nextId, tick, line, snaps, cutoff, asked, anchor, pre, top>>
  BY DEF MarkDead, world, prune
<1>1. /\ anchor.last \in Nat /\ pre.last \in Nat /\ top \in Nat /\ nextId \in Nat
      /\ anchor.last <= pre.last /\ pre.last <= top /\ top < nextId
      /\ events \subseteq Nat
  BY <1>0 DEF RestoreInv, Ended, Shot, LogInv
<1>2. LogInv'
  BY <1>0, <1>1 DEF LogInv, Phase
<1>3. SnapInv' /\ RestoreInv'
  BY <1>0 DEF SnapInv, RestoreInv, History, Ended
<1>4. \A i \in events : Dead(i)' <=> Dead(i) \/ (anchor.last < i /\ i <= top)
  <2>1. CASE top > anchor.last
    <3>1. dead' = dead \cup {<<anchor.last, top>>}
      BY <1>0, <2>1
    <3>2. ASSUME NEW i \in events
          PROVE  Dead(i)' <=> Dead(i) \/ InRange(i, <<anchor.last, top>>)
      BY <3>1 DEF Dead
    <3>3. QED
      BY <3>2 DEF InRange
  <2>2. CASE ~ (top > anchor.last)
    <3>1. dead' = dead
      BY <1>0, <2>2
    <3>2. QED
      BY <1>1, <2>2, <3>1 DEF Dead
  <2>3. QED
    BY <2>1, <2>2
<1>5. ASSUME NEW i \in events
      PROVE  Dead(i)' <=> i \notin line
  <2>1. /\ Dead(i) <=> i <= pre.last /\ i \notin pre.line
        /\ i \in line <=> (i \in pre.line /\ i <= anchor.last) \/ i > top
    BY <1>0 DEF DeadInv, RestoreInv
  <2>2. QED
    BY <1>1, <1>4, <2>1
<1>6. DeadInv'
  BY <1>0, <1>5 DEF DeadInv
<1>7. QED
  BY <1>2, <1>3, <1>6

\* The event that ends the restore is the newest row of the new line.
LEMMA LineReturn ==
    ASSUME LineInv, RestoreEvent
    PROVE  LineInv'
<1> USE DEF LineInv
<1>0. /\ rpc = "marked" /\ rpc' = "idle"
      /\ events' = events \cup {nextId} /\ nextId' = nextId + 1
      /\ line' = line \cup {nextId} /\ tick' = anchor.tick
      /\ UNCHANGED <<dead, snaps, cutoff, asked>>
  BY DEF RestoreEvent, Appended, Returned, prune
<1>1. /\ anchor.tick \in Nat /\ top \in Nat /\ pre.last \in Nat
      /\ pre.last <= top /\ top < nextId
      /\ line = {i \in pre.line : i <= anchor.last} \cup {i \in events : i > top}
      /\ pre.line \subseteq 1..pre.last
  BY <1>0 DEF RestoreInv, Ended, Shot
<1>2. LogInv'
  BY <1>0, <1>1 DEF LogInv, Phase
<1>3. History' = line' /\ History = pre.line
  BY <1>0 DEF History
<1>4. ASSUME NEW i \in History' PROVE i \in 1..(nextId' - 1)
  <2>1. i \in 1..pre.last \/ i \in events \/ i = nextId
    BY <1>0, <1>1, <1>3
  <2>2. nextId \in Nat \ {0} /\ nextId' - 1 = nextId
    BY <1>0 DEF LogInv
  <2>3. i \in events => i \in 1..nextId
    BY <2>2 DEF LogInv
  <2>4. i \in 1..pre.last => i \in 1..nextId
    BY <1>1, <2>2
  <2>5. QED
    BY <2>1, <2>2, <2>3, <2>4
<1>5. ASSUME NEW n \in DOMAIN snaps
      PROVE  /\ Ended(snaps[n])'
             /\ \A i \in History' : i <= snaps[n].last => i \in snaps[n].line
  <2>1. Ended(snaps[n]) /\ snaps[n].last <= pre.last
    BY <1>0 DEF SnapInv, RestoreInv
  <2>2. Ended(snaps[n])'
    BY <1>0, <2>1 DEF Ended, LogInv, Shot
  <2>3. \A i \in pre.line : i <= snaps[n].last => i \in snaps[n].line
    BY <1>3 DEF SnapInv
  <2>4. \A i \in History' : i \in pre.line \/ i > top
    BY <1>0, <1>1, <1>3 DEF LogInv
  <2>5. snaps[n].last \in Nat /\ snaps[n].last <= top
    BY <1>1, <2>1 DEF Ended, Shot
  <2>6. \A i \in History' : i \in Nat
    BY <1>0, <1>4 DEF LogInv
  <2>7. QED
    BY <1>1, <2>2, <2>3, <2>4, <2>5, <2>6
<1>6. SnapInv'
  BY <1>0, <1>4, <1>5 DEF SnapInv
<1>7. RestoreInv'
  BY <1>0 DEF RestoreInv
<1>8. DeadInv'
  <2>1. \A i \in {nextId} : ~ Dead(i)'
    BY <1>0 DEF LogInv, Dead, InRange
  <2>2. \A i \in events : Dead(i)' <=> Dead(i)
    BY <1>0 DEF Dead
  <2>3. nextId \notin events /\ nextId' - 1 = nextId
    BY <1>0 DEF LogInv
  <2>4. \A i \in events' : Dead(i)' <=> i \notin line'
    BY <1>0, <2>1, <2>2, <2>3 DEF DeadInv
  <2>5. QED
    BY <1>0, <2>3, <2>4 DEF DeadInv
<1>9. QED
  BY <1>2, <1>6, <1>7, <1>8

\* A rollback finds the ranges as they were, and keeps what was added meanwhile.
LEMMA LineRollback ==
    ASSUME Along, LineInv, Rollback
    PROVE  LineInv'
<1> USE DEF LineInv
<1>0. /\ rpc \in {"stores", "seeded", "mirrored"} /\ rpc' = "idle"
      /\ line' = pre.line \cup {i \in events : i > pre.last}
      /\ UNCHANGED <<events, nextId, dead, tick, snaps, cutoff, asked>>
  BY DEF Rollback, Returned, Along, log, prune
<1>1. /\ Ended(pre) /\ pre.last \in Nat /\ pre.line \subseteq 1..pre.last
      /\ History = pre.line /\ History' = line'
  BY <1>0 DEF RestoreInv, Ended, Shot, History
<1>2. LogInv'
  BY <1>0 DEF LogInv, Phase
<1>3. ASSUME NEW n \in DOMAIN snaps
      PROVE  \A i \in History' : i <= snaps[n].last => i \in snaps[n].line
  <2>1. Ended(snaps[n]) /\ snaps[n].last <= pre.last
    BY <1>0 DEF SnapInv, RestoreInv
  <2>2. \A i \in pre.line : i <= snaps[n].last => i \in snaps[n].line
    BY <1>1 DEF SnapInv
  <2>3. snaps[n].last \in Nat /\ events \subseteq Nat
    BY <2>1 DEF Ended, Shot, LogInv
  <2>4. ASSUME NEW i \in History', i <= snaps[n].last PROVE i \in pre.line
    <3>1. i \in pre.line \/ (i \in events /\ i > pre.last)
      BY <1>0, <1>1
    <3>2. i \in events => ~ (i > pre.last)
      BY <1>1, <2>1, <2>3, <2>4
    <3>3. QED
      BY <3>1, <3>2
  <2>5. QED
    BY <2>2, <2>4
<1>4. SnapInv'
  <2>1. History' \subseteq 1..(nextId' - 1)
    BY <1>0, <1>1, Zenon DEF LogInv, SnapInv
  <2>2. QED
    BY <1>0, <1>3, <2>1 DEF SnapInv, Ended
<1>5. RestoreInv'
  BY <1>0 DEF RestoreInv
<1>6. DeadInv'
  <2>1. \A i \in events : Dead(i)' <=> i \notin line'
    BY <1>0, <1>1 DEF DeadInv, Dead, LogInv
  <2>2. nextId > 1 => nextId - 1 \in line'
    BY <1>0, <1>1 DEF Ended, LogInv
  <2>3. QED
    BY <1>0, <2>1, <2>2 DEF DeadInv
<1>7. QED
  BY <1>2, <1>4, <1>5, <1>6

logVars == <<events, nextId, dead, tick, line, snaps, cutoff, asked, rpc, anchor, pre, top>>

LEMMA LineStep ==
    ASSUME Along, LineInv, [Next]_vars
    PROVE  LineInv'
<1>1. CASE UNCHANGED logVars
  BY <1>1 DEF logVars, LineInv, LogInv, SnapInv, RestoreInv, DeadInv, History, Ended, Dead
<1>2. CASE Publisher \/ Worker \/ Rebuild \/ CrashWorker \/ UNCHANGED vars
  <2>1. UNCHANGED logVars
    BY <1>2 DEF logVars, vars, log, world, prune, restore, Publisher, Worker, Poll, Publish,
       PublishFails, Mark, MarkFails, ReadBatch, CommitBatch, Mirror, Rebuild, CrashWorker
  <2>2. QED
    BY <1>1, <2>1, SMTT(20)
<1>3. CASE LoopAppend \/ OtherAppend
  BY <1>3, LineAppend
<1>4. CASE Pruning \/ CrashDaemon
  BY <1>4, LineCutoffs, LinePrune DEF Pruning
<1>5. CASE TakeSnapshot
  BY <1>5, LineSnapshot
<1>6. CASE \E n \in DOMAIN snaps : RestoreStores(n)
  BY <1>6, LineRestore
<1>7. CASE RestoreSteps
  BY <1>7, LineSeed, LineReset, LineMark, LineReturn, LineRollback DEF RestoreSteps
<1>8. QED
  BY <1>2, <1>3, <1>4, <1>5, <1>6, <1>7, SMTT(20) DEF Next
LEMMA LineAlways ==
    ASSUME Along PROVE Spec => []LineInv
<1>1. LineInv /\ [Next]_vars => LineInv'
  BY LineStep
<1>2. QED
  BY <1>1, LineInit, PTL DEF Spec

\* While restores go along the history and the event that ends one is written:
\* what dead_range_exclusion leaves of the log is the history of the world.
THEOREM ReadsServeHistory ==
    ASSUME Along
    PROVE  Spec => []ReadableIsHistory
<1>1. LineInv => ReadableIsHistory
  BY DEF LineInv, DeadInv, ReadableIsHistory, Readable
<1>2. QED
  BY <1>1, LineAlways, PTL

-----------------------------------------------------------------------------
(* What is pruned was published                                            *)

LEMMA OutboxInit == Init => OutboxInv
  BY DEF Init, OutboxInv, History

LEMMA OutboxAppend ==
    ASSUME LineInv, OutboxInv, LoopAppend \/ OtherAppend
    PROVE  OutboxInv'
<1>0. /\ events' = events \cup {nextId} /\ line' = line \cup {nextId}
      /\ pending' = pending \cup {nextId}
      /\ UNCHANGED <<dead, cutoff, asked, rpc, pre, queue, sent, delivered>>
  BY DEF LoopAppend, OtherAppend, Appended, prune, restore, publisher
<1>1. History' = History \/ History' = History \cup {nextId}
  BY <1>0 DEF History
<1>2. ~ (nextId < cutoff) /\ ~ (nextId < asked)
  BY DEF LineInv, LogInv
<1>3. \A i \in events : Dead(i)' <=> Dead(i)
  BY <1>0 DEF Dead
<1>4. QED
  BY <1>0, <1>1, <1>2, <1>3 DEF OutboxInv

LEMMA OutboxPublisher ==
    ASSUME OutboxInv, Publisher
    PROVE  OutboxInv'
<1>0. UNCHANGED <<events, dead, cutoff, asked, rpc, pre, line>>
  BY DEF Publisher, Poll, Publish, PublishFails, Mark, MarkFails, log, world, prune, restore
<1>1. delivered \subseteq delivered' /\ pending \subseteq pending' \cup delivered
  BY DEF Publisher, Poll, Publish, PublishFails, Mark, MarkFails, log, OutboxInv
<1>2. sent' => queue' # <<>> /\ Head(queue') \in delivered'
  BY Zenon DEF Publisher, Poll, Publish, PublishFails, Mark, MarkFails, OutboxInv
<1>3. \A i \in events : Dead(i)' <=> Dead(i)
  BY <1>0 DEF Dead
<1>4. History' = History
  BY <1>0 DEF History
<1>5. QED
  BY <1>0, <1>1, <1>2, <1>3, <1>4 DEF OutboxInv

\* can_prune sees no live entry pending, so every live row has been sent.
LEMMA OutboxCutoffs ==
    ASSUME ~ SizeRule, LineInv, OutboxInv,
           \/ \E c \in Cutoffs : StartPrune(c) \/ AskPrune(c)
           \/ TakeAsked
    PROVE  OutboxInv'
<1>0. UNCHANGED <<events, pending, dead, rpc, pre, line, queue, sent, delivered>>
  BY DEF StartPrune, AskPrune, TakeAsked, log, world, publisher, restore
<1>1. \A i \in events : Dead(i)' <=> Dead(i)
  BY <1>0 DEF Dead
<1>2. History' = History
  BY <1>0 DEF History
<1>3. CASE TakeAsked
  <2>1. ASSUME NEW i \in events, i < cutoff' \/ i < asked'
        PROVE  i < cutoff \/ i < asked
    <3>1. cutoff' \in {cutoff, asked} /\ asked' = 0 /\ i \in Nat
      BY <1>3 DEF TakeAsked, LineInv, LogInv
    <3>2. QED
      BY <2>1, <3>1
  <2>2. QED
    BY <1>0, <1>1, <1>2, <2>1 DEF OutboxInv
<1>4. ASSUME NEW c \in Cutoffs, StartPrune(c) \/ AskPrune(c)
      PROVE  OutboxInv'
  <2>1. \A i \in events : ~ Dead(i) => i \in delivered
    BY <1>4 DEF StartPrune, AskPrune, CanPrune, Readable, OutboxInv
  <2>2. QED
    BY <1>0, <1>1, <1>2, <2>1 DEF OutboxInv
<1>5. QED
  BY <1>3, <1>4

LEMMA OutboxPrune ==
    ASSUME LineInv, OutboxInv, PruneBatch
    PROVE  OutboxInv'
<1> DEFINE ids == FirstOf(Doomed, PruneLimit)
<1>0. /\ rpc = "idle" /\ events' = events \ ids /\ pending' = pending \ ids
      /\ cutoff' \in {0, cutoff} /\ ids \subseteq Doomed
      /\ UNCHANGED <<asked, rpc, pre, line, queue, sent, delivered>>
  BY FirstOfWithin DEF PruneBatch, world, publisher, restore
<1> HIDE DEF ids
<1>1. \A i \in events' : Dead(i)' <=> Dead(i)
  BY PruneKeepsDead
<1>2. ASSUME NEW i \in events', i < cutoff' PROVE i < cutoff
  <2>1. i \in Nat
    BY <1>0 DEF LineInv, LogInv
  <2>2. QED
    BY <1>0, <1>2, <2>1 DEF LineInv, LogInv
<1>3. \A i \in ids \cap line : i \in delivered
  <2>1. \A i \in events : Dead(i) <=> i \notin line
    BY <1>0 DEF LineInv, DeadInv
  <2>2. QED
    BY <1>0, <2>1 DEF Doomed, OutboxInv
<1>4. History = line /\ History' = line
  BY <1>0 DEF History
<1>5. QED
  BY <1>0, <1>1, <1>2, <1>3, <1>4 DEF OutboxInv

LEMMA OutboxRestore ==
    ASSUME Along, LineInv, OutboxInv,
           (\E n \in DOMAIN snaps : RestoreStores(n)) \/ RestoreSteps
    PROVE  OutboxInv'
<1>0. UNCHANGED <<cutoff, asked, queue, sent, delivered>>
  BY DEF RestoreStores, RestoreSteps, SeedProjection, ResetOffsets, MarkDead, RestoreEvent,
         Rollback, prune, publisher
<1>1. CASE (\E n \in DOMAIN snaps : RestoreStores(n)) \/ SeedProjection \/ ResetOffsets
  <2>1. UNCHANGED <<events, pending, dead>>
    BY <1>1, Zenon DEF RestoreStores, SeedProjection, ResetOffsets, log
  <2>2. \A i \in events : Dead(i)' <=> Dead(i)
    BY <2>1, SMTT(20) DEF Dead
  <2>3. History' = History
    BY <1>1, LatestIs DEF RestoreStores, SeedProjection, ResetOffsets, History, Here
  <2>4. QED
    BY <1>0, <2>1, <2>2, <2>3 DEF OutboxInv
<1>2. CASE MarkDead
  <2>1. UNCHANGED <<events, pending>> /\ dead \subseteq dead'
    BY <1>2 DEF MarkDead
  <2>2. \A i \in events : Dead(i) => Dead(i)'
    BY <2>1 DEF Dead
  <2>3. History' = History
    BY <1>2 DEF MarkDead, History
  <2>4. QED
    BY <1>0, <2>1, <2>2, <2>3 DEF OutboxInv
<1>3. CASE RestoreEvent
  <2>1. /\ rpc = "marked" /\ rpc' = "idle"
        /\ events' = events \cup {nextId} /\ line' = line \cup {nextId}
        /\ pending' = pending \cup {nextId} /\ dead' = dead
    BY <1>3 DEF RestoreEvent, Appended, Returned
  <2>2. ~ (nextId < cutoff) /\ ~ (nextId < asked)
    BY DEF LineInv, LogInv
  <2>3. \A i \in events : Dead(i)' <=> Dead(i)
    BY <2>1 DEF Dead
  <2>4. line \subseteq pre.line \cup events
    BY <2>1 DEF LineInv, RestoreInv
  <2>5. History = pre.line /\ History' = line'
    BY <2>1 DEF History
  <2>6. QED
    BY <1>0, <2>1, <2>2, <2>3, <2>4, <2>5 DEF OutboxInv
<1>4. CASE Rollback
  <2>1. /\ rpc # "idle" /\ rpc' = "idle" /\ UNCHANGED <<events, pending, dead>>
        /\ line' \subseteq pre.line \cup events
    BY <1>4 DEF Rollback, Returned, log
  <2>2. \A i \in events : Dead(i)' <=> Dead(i)
    BY <2>1 DEF Dead
  <2>3. History = pre.line /\ History' = line'
    BY <2>1 DEF History
  <2>4. QED
    BY <1>0, <2>1, <2>2, <2>3 DEF OutboxInv
<1>5. QED
  BY <1>1, <1>2, <1>3, <1>4, SMTT(20) DEF RestoreSteps

LEMMA OutboxStep ==
    ASSUME Along, ~ SizeRule, LineInv, OutboxInv, [Next]_vars
    PROVE  OutboxInv'
<1>1. CASE TakeSnapshot \/ Worker \/ Rebuild \/ CrashWorker \/ UNCHANGED vars
  <2>1. UNCHANGED <<events, pending, dead, cutoff, asked, rpc, pre, line, queue, sent, delivered>>
    BY <1>1 DEF TakeSnapshot, Worker, ReadBatch, CommitBatch, Mirror, Rebuild, CrashWorker,
       vars, log, world, prune, restore, publisher
  <2>2. QED
    BY <2>1, SMTT(20) DEF OutboxInv, History, Dead
<1>2. CASE LoopAppend \/ OtherAppend
  BY <1>2, OutboxAppend
<1>3. CASE Publisher
  BY <1>3, OutboxPublisher
<1>4. CASE Pruning
  BY <1>4, OutboxCutoffs, OutboxPrune DEF Pruning
<1>5. CASE (\E n \in DOMAIN snaps : RestoreStores(n)) \/ RestoreSteps
  BY <1>5, OutboxRestore
<1>6. CASE CrashDaemon
  <2>1. /\ UNCHANGED <<events, pending, dead, rpc, pre, line, delivered>>
        /\ sent' = FALSE /\ cutoff' = 0 /\ asked' = 0
    BY <1>6 DEF CrashDaemon, log, world, restore
  <2>2. \A i \in events : ~ (i < 0)
    BY DEF LineInv, LogInv
  <2>3. History' = History
    BY <2>1 DEF History
  <2>4. QED
    BY <2>1, <2>2, <2>3 DEF OutboxInv
<1>7. QED
  BY <1>1, <1>2, <1>3, <1>4, <1>5, <1>6 DEF Next

\* While every prune asks can_prune first: an event of the history that
\* prune_tick has deleted was published, through refused sends and marks,
\* restarts and restores between the check and the batches.
THEOREM PrunedWasPublished ==
    ASSUME Along, ~ SizeRule
    PROVE  Spec => []NoneLostUnpublished
<1>1. LineInv /\ OutboxInv /\ [Next]_vars => OutboxInv'
  BY OutboxStep
<1>2. OutboxInv => NoneLostUnpublished
  BY DEF OutboxInv, NoneLostUnpublished, History
<1>3. QED
  BY <1>1, <1>2, LineAlways, OutboxInit, PTL DEF Spec

-----------------------------------------------------------------------------
(* The read model                                                          *)

LEMMA ShownInit == Init => ShownInv
  BY DEF Init, ShownInv

LEMMA ShownWorker ==
    ASSUME LineInv, ShownInv, Worker
    PROVE  ShownInv'
<1>0. UNCHANGED <<events, nextId, dead, line, rpc, top>>
  BY DEF Worker, ReadBatch, CommitBatch, Mirror, log, world, restore
<1>1. CASE ReadBatch
  <2>1. UNCHANGED <<shown, wm>> /\ taken' \subseteq Readable
    BY <1>1, FirstOfWithin DEF ReadBatch, Ahead
  <2>2. Readable \subseteq events /\ events \subseteq 1..(nextId - 1)
    BY DEF Readable, LineInv, LogInv
  <2>3. ASSUME rpc # "stores", NEW i \in Readable, i > wm PROVE i \in line
    <3>1. CASE rpc = "idle"
      BY <2>3, <3>1 DEF Readable, LineInv, DeadInv
    <3>2. CASE rpc # "idle"
      <4>1. rpc \in {"seeded", "mirrored", "marked"}
        BY <2>3, <3>2 DEF LineInv, LogInv, Phase
      <4>2. wm >= top /\ wm \in Nat /\ top \in Nat /\ i \in Nat
        BY <2>2, <2>3, <4>1 DEF ShownInv, LineInv, RestoreInv
      <4>3. i > top
        BY <2>3, <4>2
      <4>4. QED
        BY <2>2, <2>3, <4>1, <4>3 DEF LineInv, RestoreInv
    <3>3. QED
      BY <3>1, <3>2
  <2>4. QED
    BY <1>0, <2>1, <2>2, <2>3 DEF ShownInv
<1>2. CASE CommitBatch
  <2>0. nextId - 1 \in Int /\ taken # {} /\ taken \in SUBSET (1..(nextId - 1))
    BY <1>2 DEF CommitBatch, LineInv, LogInv, ShownInv
  <2>1. Last0(taken) \in Nat
    <3>1. Last0(taken) \in taken
      BY <2>0, LastOf, Zenon
    <3>2. taken \subseteq Nat
      BY DEF LineInv, LogInv, ShownInv
    <3>3. QED
      BY <3>1, <3>2, Zenon
  <2>2. /\ shown' = shown \cup {i \in taken : i > wm} /\ taken' = taken
        /\ wm' = IF Last0(taken) > wm THEN Last0(taken) ELSE wm
    BY <1>2 DEF CommitBatch
  <2>3. wm' \in Nat /\ wm' >= wm
    BY <2>1, <2>2 DEF ShownInv
  <2>4. \A i \in taken : i > wm' => i > wm
    BY <2>0, <2>3 DEF ShownInv
  <2>5. rpc \in {"seeded", "mirrored", "marked"} => wm' >= top
    BY <2>3 DEF ShownInv, LineInv, RestoreInv
  <2>6. QED
    BY <1>0, <2>2, <2>3, <2>4, <2>5, Zenon DEF ShownInv
<1>3. CASE Mirror
  BY <1>0, <1>3 DEF Mirror, ShownInv
<1>4. QED
  BY <1>1, <1>2, <1>3 DEF Worker

\* The seeded watermark is past everything the worker can have in hand.
LEMMA ShownRestore ==
    ASSUME Along, LineInv, ShownInv,
           (\E n \in DOMAIN snaps : RestoreStores(n)) \/ RestoreSteps
    PROVE  ShownInv'
<1>0. Latest = nextId - 1 /\ nextId \in Nat \ {0}
  BY LatestIs DEF LineInv, LogInv
<1>1. CASE \E n \in DOMAIN snaps : RestoreStores(n)
  BY <1>1 DEF RestoreStores, ShownInv, log, projection
<1>2. CASE SeedProjection
  <2>1. /\ rpc' = "seeded" /\ top' = nextId - 1 /\ wm' = nextId - 1
        /\ line' = anchor.line /\ shown' = anchor.line
        /\ taken' = taken /\ nextId' = nextId
    BY <1>0, <1>2 DEF SeedProjection, log
  <2>2. \A i \in taken : ~ (i > nextId - 1)
    BY <1>0 DEF ShownInv
  <2>3. wm' \in Nat /\ wm' >= top'
    BY <1>0, <2>1
  <2>4. QED
    BY <2>1, <2>2, <2>3 DEF ShownInv
<1>3. CASE ResetOffsets \/ MarkDead
  <2>1. /\ rpc \in {"seeded", "mirrored"} /\ rpc' \in {"mirrored", "marked"}
        /\ UNCHANGED <<nextId, line, top, shown, wm, taken>>
    BY <1>3 DEF ResetOffsets, MarkDead, log, world, projection
  <2>2. QED
    BY <2>1 DEF ShownInv
<1>4. CASE RestoreEvent
  <2>1. /\ rpc = "marked" /\ rpc' = "idle" /\ nextId' = nextId + 1
        /\ line' = line \cup {nextId}
        /\ UNCHANGED <<shown, wm, taken>>
    BY <1>4 DEF RestoreEvent, Appended, Returned, projection
  <2>2. taken \subseteq 1..(nextId' - 1)
    BY <1>0, <2>1 DEF ShownInv
  <2>3. QED
    BY <2>1, <2>2 DEF ShownInv
<1>5. CASE Rollback
  <2>1. /\ rpc' = "idle" /\ wm' = nextId - 1 /\ shown' = pre.line
        /\ pre.line \subseteq line'
        /\ taken' = taken /\ nextId' = nextId
    BY <1>0, <1>5 DEF Rollback, Returned, log
  <2>2. \A i \in taken : ~ (i > nextId - 1)
    BY <1>0 DEF ShownInv
  <2>3. wm' \in Nat
    BY <1>0, <2>1
  <2>4. QED
    BY <2>1, <2>2, <2>3 DEF ShownInv
<1>6. QED
  BY <1>1, <1>2, <1>3, <1>4, <1>5 DEF RestoreSteps

LEMMA ShownStep ==
    ASSUME Along, ~ RebuildBeside, LineInv, ShownInv, [Next]_vars
    PROVE  ShownInv'
<1>1. CASE TakeSnapshot \/ Publisher \/ Pruning \/ CrashDaemon \/ UNCHANGED vars
  <2>1. UNCHANGED <<nextId, line, rpc, top, shown, wm, taken>>
    BY <1>1, Zenon DEF TakeSnapshot, Publisher, Poll, Publish, PublishFails, Mark, MarkFails, Pruning,
       TakeAsked, PruneBatch, StartPrune, AskPrune, CrashDaemon,
       vars, log, world, prune, restore, publisher, projection
  <2>2. QED
    BY <2>1 DEF ShownInv
<1>2. CASE LoopAppend \/ OtherAppend
  <2>1. /\ nextId' = nextId + 1 /\ line' = line \cup {nextId}
        /\ UNCHANGED <<rpc, top, shown, wm, taken>>
    BY <1>2 DEF LoopAppend, OtherAppend, Appended, restore, projection
  <2>2. taken \subseteq 1..(nextId' - 1)
    BY <2>1 DEF ShownInv, LineInv, LogInv
  <2>3. QED
    BY <2>1, <2>2 DEF ShownInv
<1>3. CASE Worker
  BY <1>3, ShownWorker
<1>4. CASE (\E n \in DOMAIN snaps : RestoreStores(n)) \/ RestoreSteps
  BY <1>4, ShownRestore
<1>5. CASE Rebuild \/ CrashWorker
  <2>1. /\ taken' = {} /\ UNCHANGED <<nextId, line, rpc, top>>
        /\ \/ rpc = "idle" /\ shown' = {} /\ wm' = 0
           \/ UNCHANGED <<shown, wm>>
    BY <1>5 DEF Rebuild, CrashWorker, log, world, restore
  <2>2. QED
    BY <2>1 DEF ShownInv
<1>6. QED
  BY <1>1, <1>2, <1>3, <1>4, <1>5 DEF Next

\* While no rebuild runs beside a restore: the read model shows nothing of a
\* discarded future, though the worker may hold a batch of it throughout
\* seed_projection_from_world_snapshot.
THEOREM ReadModelFollows ==
    ASSUME Along, ~ RebuildBeside
    PROVE  Spec => []ShowsNoDiscarded
<1>1. LineInv /\ ShownInv /\ [Next]_vars => ShownInv'
  BY ShownStep
<1>2. ShownInv => ShowsNoDiscarded
  BY DEF ShownInv, ShowsNoDiscarded
<1>3. QED
  BY <1>1, <1>2, LineAlways, ShownInit, PTL DEF Spec
-----------------------------------------------------------------------------
(***************************************************************************)
(* What holds however restores go: along the history or not, with a        *)
(* closing event that fails, with prunes nobody guards and rebuilds beside *)
(* a restore.                                                              *)
(***************************************************************************)

\* An entry leaves the outbox after it was sent, or with its event.
EntryInv ==
    /\ sent => queue # <<>> /\ Head(queue) \in delivered
    /\ events \subseteq pending \cup delivered

\* No event is forgotten by the outbox: every row of the log is still pending or
\* was accepted by the transport, through refused sends and marks, restarts
\* between the two, restores and prunes (append_with_outbox, process_batch).
THEOREM OutboxForgetsNothing == Spec => [](events \subseteq pending \cup delivered)
<1> DEFINE Kept == events \subseteq pending \cup delivered
<1>1. Init => EntryInv
  BY DEF Init, EntryInv
<1>2. ASSUME EntryInv, [Next]_vars
      PROVE  EntryInv'
  <2>1. CASE LoopAppend \/ OtherAppend \/ RestoreEvent
    BY <1>2, <2>1 DEF EntryInv, LoopAppend, OtherAppend, RestoreEvent, Appended, publisher
  <2>2. CASE Publisher
    <3>1. /\ events' = events /\ delivered \subseteq delivered'
          /\ pending \subseteq pending' \cup delivered
      BY <1>2, <2>2 DEF Publisher, Poll, Publish, PublishFails, Mark, MarkFails, log, EntryInv
    <3>2. sent' => queue' # <<>> /\ Head(queue') \in delivered'
      BY <1>2, <2>2, Zenon DEF Publisher, Poll, Publish, PublishFails, Mark, MarkFails, EntryInv
    <3> QED
      BY <1>2, <3>1, <3>2 DEF EntryInv
  <2>3. CASE PruneBatch
    BY <1>2, <2>3 DEF EntryInv, PruneBatch, publisher
  <2>4. CASE CrashDaemon
    BY <1>2, <2>4 DEF EntryInv, CrashDaemon, log
  <2>5. CASE UNCHANGED <<events, pending, delivered, queue, sent>>
    BY <1>2, <2>5 DEF EntryInv
  <2> QED
    BY <1>2, <2>1, <2>2, <2>3, <2>4, <2>5, ZenonT(30)
       DEF Next, RestoreSteps, Pruning, Worker, TakeSnapshot, RestoreStores, SeedProjection, ResetOffsets,
           MarkDead, Rollback, TakeAsked, StartPrune, AskPrune, ReadBatch, CommitBatch, Mirror, Rebuild,
           CrashWorker, vars, log, publisher
<1>3. EntryInv => Kept
  BY DEF EntryInv
<1> HIDE DEF Kept
<1>4. Spec => []Kept
  BY <1>1, <1>2, <1>3, PTL DEF Spec
<1> QED
  BY <1>4 DEF Kept

\* The latest id a restore has read is the id of a row, which stays as long as
\* the restore runs, and every range that is marked holds a row.
RowsInv ==
    /\ nextId \in Nat \ {0}
    /\ events \subseteq 1..(nextId - 1)
    /\ tick \in Nat /\ line \subseteq Nat
    /\ snaps \in Seq(Shot) /\ anchor \in Shot /\ pre \in Shot
    /\ top \in Nat
    /\ rpc \in {"seeded", "mirrored"} => top = 0 \/ top \in events
    /\ \A r \in dead : \E i \in events : InRange(i, r)

LEMMA LatestIsARow ==
    ASSUME RowsInv
    PROVE  Latest \in Nat /\ (Latest = 0 \/ Latest \in events)
<1>1. CASE events = {}
  BY <1>1 DEF Latest, Last0
<1>2. CASE events # {}
  <2>1. nextId - 1 \in Int /\ events \in SUBSET (1..(nextId - 1))
    BY DEF RowsInv
  <2>2. Last0(events) \in events
    BY <1>2, <2>1, LastOf, Zenon
  <2>3. events \subseteq Nat
    BY DEF RowsInv
  <2> QED
    BY <2>2, <2>3, Zenon DEF Latest
<1> QED
  BY <1>1, <1>2

LEMMA HereIsAShot ==
    ASSUME RowsInv
    PROVE  Here \in Shot
  BY LatestIsARow DEF Here, Shot, RowsInv

LEMMA RowsStep ==
    ASSUME RowsInv, [Next]_vars
    PROVE  RowsInv'
<1>1. CASE LoopAppend \/ OtherAppend
  <2>1. /\ events' = events \cup {nextId} /\ nextId' = nextId + 1 /\ line' = line \cup {nextId}
        /\ tick' = tick + 1 \/ tick' = tick
        /\ UNCHANGED <<dead, snaps, rpc, anchor, pre, top>>
    BY <1>1 DEF LoopAppend, OtherAppend, Appended, restore
  <2> QED
    BY <2>1 DEF RowsInv
<1>2. CASE RestoreEvent
  <2>1. /\ events' = events \cup {nextId} /\ nextId' = nextId + 1 /\ line' = line \cup {nextId}
        /\ tick' = anchor.tick /\ rpc' = "idle" /\ anchor' = NoSnap /\ pre' = NoSnap /\ top' = 0
        /\ UNCHANGED <<dead, snaps>>
    BY <1>2 DEF RestoreEvent, Returned, Appended
  <2>2. NoSnap \in Shot /\ anchor.tick \in Nat
    BY DEF NoSnap, Shot, RowsInv
  <2> QED
    BY <2>1, <2>2 DEF RowsInv
<1>3. CASE TakeSnapshot
  <2>1. snaps' = Append(snaps, Here) /\ UNCHANGED <<events, nextId, dead, tick, line, rpc, anchor, pre, top>>
    BY <1>3 DEF TakeSnapshot, log, restore
  <2>2. snaps' \in Seq(Shot)
    BY <2>1, HereIsAShot DEF RowsInv
  <2> QED
    BY <2>1, <2>2 DEF RowsInv
<1>4. ASSUME NEW n \in DOMAIN snaps, RestoreStores(n)
      PROVE  RowsInv'
  <2>1. /\ snaps' = Append(snaps, Here) /\ anchor' = snaps[n] /\ pre' = Here
        /\ line' = snaps[n].line /\ rpc' = "stores"
        /\ UNCHANGED <<events, nextId, dead, tick, top>>
    BY <1>4 DEF RestoreStores, log
  <2>2. snaps[n] \in Shot /\ Here \in Shot
    BY HereIsAShot DEF RowsInv
  <2>3. snaps' \in Seq(Shot) /\ snaps[n].line \subseteq Nat
    BY <2>1, <2>2, SMTT(20) DEF RowsInv, Shot
  <2> QED
    BY <2>1, <2>2, <2>3 DEF RowsInv
<1>5. CASE SeedProjection
  <2>1. /\ top' = Latest /\ line' = anchor.line /\ rpc' = "seeded"
        /\ UNCHANGED <<events, nextId, dead, tick, snaps, anchor, pre>>
    BY <1>5 DEF SeedProjection, log
  <2>2. anchor.line \subseteq Nat
    BY DEF RowsInv, Shot
  <2> QED
    BY <2>1, <2>2, LatestIsARow DEF RowsInv
<1>6. CASE ResetOffsets
  <2>1. rpc = "seeded" /\ UNCHANGED <<events, nextId, dead, tick, line, snaps, anchor, pre, top>>
    BY <1>6 DEF ResetOffsets, log, world
  <2> QED
    BY <2>1 DEF RowsInv
<1>7. CASE MarkDead
  <2>1. /\ rpc = "mirrored" /\ rpc' = "marked"
        /\ dead' = IF top > anchor.last THEN dead \cup {<<anchor.last, top>>} ELSE dead
        /\ UNCHANGED <<events, nextId, tick, line, snaps, anchor, pre, top>>
    BY <1>7 DEF MarkDead, world
  <2>2. anchor.last \in Nat /\ top \in Nat
    BY DEF RowsInv, Shot
  <2>3. top > anchor.last => top \in events /\ InRange(top, <<anchor.last, top>>)
    BY <2>1, <2>2 DEF RowsInv, InRange
  <2>4. \A r \in dead' : \E i \in events : InRange(i, r)
    BY <2>1, <2>3 DEF RowsInv
  <2> QED
    BY <2>1, <2>4 DEF RowsInv
<1>8. CASE Rollback
  <2>1. /\ line' = pre.line \cup {i \in events : i > pre.last}
        /\ rpc' = "idle" /\ anchor' = NoSnap /\ pre' = NoSnap /\ top' = 0
        /\ UNCHANGED <<events, nextId, dead, tick, snaps>>
    BY <1>8 DEF Rollback, Returned, log
  <2>2. NoSnap \in Shot
    BY DEF NoSnap, Shot
  <2>3. pre.line \subseteq Nat /\ events \subseteq Nat
    BY DEF Shot, RowsInv
  <2>4. line' \subseteq Nat
    BY <2>1, <2>3, ZenonT(30)
  <2> QED
    BY <2>1, <2>2, <2>4 DEF RowsInv
<1>9. CASE PruneBatch
  <2>1. /\ rpc = "idle" /\ events' \subseteq events
        /\ \A r \in dead' : \E i \in events' : InRange(i, r)
        /\ UNCHANGED <<nextId, tick, line, snaps, rpc, anchor, pre, top>>
    BY <1>9 DEF PruneBatch, world, restore
  <2> QED
    BY <2>1 DEF RowsInv
<1>10. CASE UNCHANGED <<events, nextId, dead, tick, line, snaps, rpc, anchor, pre, top>>
  BY <1>10 DEF RowsInv
<1>11. CASE TakeAsked \/ (\E c \in Cutoffs : StartPrune(c) \/ AskPrune(c)) \/ Publisher \/ Worker
            \/ Rebuild \/ CrashDaemon \/ CrashWorker \/ UNCHANGED vars
  <2>1. UNCHANGED <<events, nextId, dead, tick, line, snaps, rpc, anchor, pre, top>>
    BY <1>11, Zenon DEF TakeAsked, StartPrune, AskPrune, Publisher, Poll, Publish, PublishFails, Mark, MarkFails,
       Worker, ReadBatch, CommitBatch, Mirror, Rebuild, CrashDaemon, CrashWorker, vars, log, world, restore
  <2> QED
    BY <2>1, <1>10
<1> QED
  BY <1>1, <1>2, <1>3, <1>4, <1>5, <1>6, <1>7, <1>8, <1>9, <1>11 DEF Next, RestoreSteps, Pruning

\* No dead range outlives the rows it hides: every range that is recorded holds
\* at least one row of the log, however restores overlap in what they discard.
\* So the table of ranges is empty as soon as nothing discarded is left, and no
\* range waits for a prune that has nothing to delete (push_dead_range,
\* prune_tick).
THEOREM DeadRangesHoldRows == Spec => [](\A r \in dead : \E i \in events : InRange(i, r))
<1> DEFINE Held == \A r \in dead : \E i \in events : InRange(i, r)
<1>1. Init => RowsInv
  <2>1. NoSnap \in Shot
    BY DEF NoSnap, Shot
  <2> QED
    BY <2>1 DEF Init, RowsInv
<1>2. RowsInv => Held
  BY DEF RowsInv
<1> HIDE DEF Held
<1>3. Spec => []Held
  BY <1>1, <1>2, RowsStep, PTL DEF Spec
<1> QED
  BY <1>3 DEF Held
=============================================================================
