-------------------------- MODULE ProjectionProofs --------------------------
(***************************************************************************)
(* The live worker alone, with rebuilds by request and any number of       *)
(* crashes: no row is counted twice, a read model in use holds each row up *)
(* to its watermark once, and the offset stays behind it.                  *)
(***************************************************************************)
EXTENDS Projection, TLAPS

pcL == pc["live"]
batchL == batch["live"]

Clearing == {"clearMain", "clearHier", "clearMarks", "resetMain", "resetHier"}
Replaying == {"replayRead", "replayCommit", "replayMirror"}
Serving == {"hierRead", "hierCommit", "hierMirror", "mainRead", "mainCommit",
            "mainMirror", "poll", "unlink"}

\* Nothing of the projection is counted.
Blank(j) == \A i \in Row : views[j][i] = 0

\* A row is counted at most once, and only below the watermark.
Once == \A j \in Proj, i \in Row : views[j][i] <= 1 /\ (views[j][i] > 0 => i <= wm[j])

\* What a rebuild has undone and redone at each label.
Progress ==
    /\ pcL \in Clearing \ {"clearMain"} => Blank("main")
    /\ pcL \in Clearing \ {"clearMain", "clearHier"} => Blank("hier")
    /\ pcL \in {"resetMain", "resetHier"} => wm["main"] = 0 /\ wm["hier"] = 0
    /\ pcL = "resetHier" => offset["main"] = None
    /\ pcL \in Replaying =>
          /\ Exact("main") /\ Exact("hier")
          /\ offset["main"] = None /\ offset["hier"] = None

\* The rows a batch starts after are committed, and all its rows once it is
\* being mirrored.
Seamless ==
    /\ pcL \in {"replayRead", "replayMirror", "mainMirror"} => batchL.hi <= wm["main"]
    /\ pcL \in {"replayCommit", "mainCommit"} => batchL.lo <= wm["main"]
    /\ pcL = "hierMirror" => batchL.hi <= wm["hier"]
    /\ pcL = "hierCommit" => batchL.lo <= wm["hier"]

\* The request outlives the rebuild.
Requested ==
    /\ rebuilding["live"] => request
    /\ pcL \in Clearing \cup Replaying \cup {"unlink"} => rebuilding["live"]
    /\ pcL \in {"down", "first", "poll", "mainRead", "mainCommit", "mainMirror"}
          => ~ rebuilding["live"]
    /\ pcL # "done"

\* The read model is whole and the offset behind it.
Whole == \A j \in Proj : Exact(j) /\ offset[j] <= wm[j]

Settled ==
    /\ pcL \in Serving => Whole
    /\ ~ request => Whole

IInv == TypeOK /\ Once /\ Progress /\ Seamless /\ Requested /\ Settled

-----------------------------------------------------------------------------
(* Facts about one step                                                    *)

\* Steps that leave the two databases alone leave what is said of them alone.
LEMMA SameStore ==
    ASSUME UNCHANGED store
    PROVE  /\ Once' <=> Once
           /\ Whole' <=> Whole
           /\ \A j \in Proj : (Exact(j)' <=> Exact(j)) /\ (Blank(j)' <=> Blank(j))
  BY DEF store, Once, Whole, Exact, Blank

\* What rebuild and open read from the log is a batch after its start.
LEMMA RowsSinceType ==
    ASSUME ProjectionAssumption, head \in 0..MaxRows,
           NEW lo \in 0..MaxRows, NEW m \in BOOLEAN
    PROVE  /\ RowsSince(lo, m) \in [lo : 0..MaxRows, hi : 0..MaxRows, mirrored : BOOLEAN]
           /\ RowsSince(lo, m).lo = lo
  BY DEF ProjectionAssumption, RowsSince, Maximum

\* The transaction of a batch that starts at or below the watermark keeps the
\* projection exact, and takes the watermark to the end of the batch.
LEMMA CommitExact ==
    ASSUME MaxRows \in Nat, wm \in [Proj -> 0..MaxRows], views \in [Proj -> [Row -> Nat]],
           NEW j \in Proj, NEW b \in [lo : 0..MaxRows, hi : 0..MaxRows, mirrored : BOOLEAN],
           b.lo <= wm[j], Exact(j), CommitBatch(j, b)
    PROVE  /\ Exact(j)'
           /\ b.hi <= wm'[j] /\ wm[j] <= wm'[j]
           /\ views' \in [Proj -> [Row -> Nat]] /\ wm' \in [Proj -> 0..MaxRows]
           /\ \A k \in Proj \ {j} : views'[k] = views[k] /\ wm'[k] = wm[k]
  <1>1. wm' = [wm EXCEPT ![j] = Maximum(wm[j], b.hi)]
    BY DEF CommitBatch
  <1>2. wm'[j] = Maximum(wm[j], b.hi) /\ wm'[j] \in 0..MaxRows
    BY <1>1 DEF Maximum
  <1>3. wm' \in [Proj -> 0..MaxRows] /\ \A k \in Proj \ {j} : wm'[k] = wm[k]
    BY <1>1, <1>2
  <1>4. views'[j] = [i \in Row |-> views[j][i] + (IF i \in Fresh(j, b) THEN 1 ELSE 0)]
    BY DEF CommitBatch
  <1>5. views' \in [Proj -> [Row -> Nat]] /\ \A k \in Proj \ {j} : views'[k] = views[k]
    BY DEF CommitBatch
  <1>6. ASSUME NEW i \in Row
        PROVE  views'[j][i] = IF i <= wm'[j] THEN 1 ELSE 0
    <2>1. i \in Nat /\ i >= 1
      BY DEF Row
    <2>2. i \in Fresh(j, b) <=> (wm[j] < i /\ i <= b.hi)
      BY <2>1 DEF Fresh
    <2>3. views[j][i] = IF i <= wm[j] THEN 1 ELSE 0
      BY DEF Exact
    <2>4. views'[j][i] = views[j][i] + (IF i \in Fresh(j, b) THEN 1 ELSE 0)
      BY <1>4
    <2> QED BY <1>2, <2>1, <2>2, <2>3, <2>4 DEF Maximum
  <1>7. Exact(j)'
    BY <1>6 DEF Exact
  <1>8. b.hi <= wm'[j] /\ wm[j] <= wm'[j]
    BY <1>2 DEF Maximum
  <1> QED BY <1>3, <1>5, <1>7, <1>8

\* Where both projections are exact no row is counted twice.
LEMMA ExactOnce ==
    ASSUME \A j \in Proj : Exact(j)'
    PROVE  Once'
  <1> SUFFICES ASSUME NEW j \in Proj, NEW i \in Row
               PROVE  views'[j][i] <= 1 /\ (views'[j][i] > 0 => i <= wm'[j])
    BY DEF Once
  <1>1. views'[j][i] = IF i <= wm'[j] THEN 1 ELSE 0
    BY DEF Exact
  <1> QED BY <1>1

-----------------------------------------------------------------------------
(* The steps of the worker                                                 *)

\* The program counter after a step.
LEMMA GotoLabel ==
    ASSUME Proc = {"live"}, pc \in [Proc -> Label], NEW l \in Label, Goto("live", l)
    PROVE  pc' \in [Proc -> Label] /\ pc'["live"] = l
  BY DEF Goto

\* A worker that ends leaves the databases and the request as they are.
LEMMA ExitStep ==
    ASSUME Proc = {"live"}, ProjectionAssumption, IInv, Exit("live"),
           crashes' \in 0..MaxCrashes, UNCHANGED <<head, store, request, requests>>
    PROVE  IInv'
  <1>1. pc' \in [Proc -> Label] /\ pc'["live"] = "down"
    BY GotoLabel DEF Exit, IInv, TypeOK, Label
  <1>2. batch' \in [Proc -> [lo : 0..MaxRows, hi : 0..MaxRows, mirrored : BOOLEAN]]
    BY DEF Exit, IInv, TypeOK, NoBatch, ProjectionAssumption
  <1>3. rebuilding' \in [Proc -> BOOLEAN] /\ rebuilding'["live"] = FALSE
    BY DEF Exit, IInv, TypeOK
  <1>4. TypeOK'
    BY <1>1, <1>2, <1>3 DEF IInv, TypeOK, store
  <1>5. Progress' /\ Seamless' /\ Requested'
    BY <1>1, <1>3, Zenon DEF Progress, Seamless, Requested, pcL, Clearing, Replaying
  <1>6. Once' /\ Settled'
    BY <1>1, SameStore, Zenon DEF IInv, Settled, pcL, Serving
  <1> QED BY <1>4, <1>5, <1>6 DEF IInv

\* The bootstrap of the watermark finds nothing above it.
LEMMA StartStep ==
    ASSUME Proc = {"live"}, ProjectionAssumption, IInv, Start("live")
    PROVE  IInv'
  <1>1. pc' \in [Proc -> Label] /\ pc'["live"] = "first"
    BY GotoLabel DEF Start, IInv, TypeOK, Label
  <1>2. PICK newest \in 0..MaxRows :
              /\ newest > 0 => views["main"][newest] > 0
              /\ wm' = [wm EXCEPT !["main"] = Maximum(@, newest)]
    BY Zenon DEF Start
  <1>3. newest <= wm["main"]
    BY <1>2 DEF IInv, TypeOK, Once, Proj, Row, ProjectionAssumption
  <1>4. Maximum(wm["main"], newest) = wm["main"]
    BY <1>3 DEF Maximum, IInv, TypeOK, Proj, ProjectionAssumption
  <1>5. wm' = wm
    BY <1>2, <1>4 DEF IInv, TypeOK
  <1>6. UNCHANGED store
    BY <1>5 DEF Start, store
  <1>7. rebuilding' = [rebuilding EXCEPT !["live"] = FALSE]
    BY Zenon DEF Start
  <1>8. rebuilding' \in [Proc -> BOOLEAN] /\ rebuilding'["live"] = FALSE
    BY <1>7 DEF IInv, TypeOK
  <1>9. TypeOK'
    BY <1>1, <1>5, <1>8, Zenon DEF IInv, TypeOK, Start
  <1>10. Progress' /\ Seamless' /\ Requested'
    BY <1>1, <1>8, Zenon DEF Progress, Seamless, Requested, pcL, Clearing, Replaying
  <1>11. Once' /\ Settled'
    BY <1>1, <1>6, SameStore, Zenon DEF IInv, Settled, pcL, Serving, Start
  <1> QED BY <1>9, <1>10, <1>11 DEF IInv

\* The request file is found, or the loop goes on.
LEMMA CheckStep ==
    ASSUME Proc = {"live"}, ProjectionAssumption, IInv, CheckRequest("live")
    PROVE  IInv'
  <1>1. /\ pc' \in [Proc -> Label]
        /\ pc'["live"] = IF request THEN "clearMain" ELSE "hierRead"
    BY GotoLabel DEF CheckRequest, IInv, TypeOK, Label
  <1>2. rebuilding' \in [Proc -> BOOLEAN] /\ rebuilding'["live"] = request
    BY DEF CheckRequest, IInv, TypeOK
  <1>3. TypeOK'
    BY <1>1, <1>2 DEF IInv, TypeOK, CheckRequest, store
  <1>4. Progress' /\ Seamless' /\ Requested'
    BY <1>1, <1>2, Zenon DEF Progress, Seamless, Requested, pcL, Clearing, Replaying, CheckRequest
  <1>5. Once' /\ Settled'
    BY <1>1, SameStore, Zenon DEF IInv, Settled, pcL, Serving, CheckRequest
  <1> QED BY <1>3, <1>4, <1>5 DEF IInv

LEMMA NotDueStep ==
    ASSUME Proc = {"live"}, ProjectionAssumption, IInv, NotDue("live")
    PROVE  IInv'
  <1>1. pc' \in [Proc -> Label] /\ pc'["live"] = "hierRead" /\ pc["live"] = "poll"
    BY GotoLabel DEF NotDue, IInv, TypeOK, Label
  <1>2. TypeOK'
    BY <1>1 DEF IInv, TypeOK, NotDue, store
  <1>3. Progress' /\ Seamless' /\ Requested'
    BY <1>1, Zenon DEF Progress, Seamless, Requested, pcL, Clearing, Replaying, NotDue, IInv
  <1>4. Once' /\ Settled'
    BY <1>1, SameStore, Zenon DEF IInv, Settled, pcL, Serving, NotDue
  <1> QED BY <1>2, <1>3, <1>4 DEF IInv

\* The three statements of clear_all, in this order.
LEMMA ClearMainStep ==
    ASSUME Proc = {"live"}, ProjectionAssumption, IInv, ClearMain("live")
    PROVE  IInv'
  <1>1. pc' \in [Proc -> Label] /\ pc'["live"] = "clearHier" /\ pc["live"] = "clearMain"
    BY GotoLabel DEF ClearMain, IInv, TypeOK, Label
  <1>2. views' \in [Proj -> [Row -> Nat]]
    BY Zenon DEF ClearMain, IInv, TypeOK
  <1>3. Blank("main")' /\ views'["hier"] = views["hier"]
    BY DEF ClearMain, IInv, TypeOK, Blank, Proj
  <1>4. TypeOK'
    BY <1>1, <1>2 DEF IInv, TypeOK, ClearMain
  <1>5. Once'
    BY <1>3 DEF Once, Blank, IInv, ClearMain, Proj
  <1>6. Progress' /\ Seamless' /\ Requested' /\ Settled'
    BY <1>1, <1>3, Zenon DEF Progress, Seamless, Requested, Settled, pcL, Clearing, Replaying,
       Serving, ClearMain, IInv
  <1> QED BY <1>4, <1>5, <1>6 DEF IInv

LEMMA ClearHierStep ==
    ASSUME Proc = {"live"}, ProjectionAssumption, IInv, ClearHier("live")
    PROVE  IInv'
  <1>1. pc' \in [Proc -> Label] /\ pc'["live"] = "clearMarks" /\ pc["live"] = "clearHier"
    BY GotoLabel DEF ClearHier, IInv, TypeOK, Label
  <1>2. views' \in [Proj -> [Row -> Nat]]
    BY Zenon DEF ClearHier, IInv, TypeOK
  <1>3. Blank("main")
    BY <1>1, Zenon DEF IInv, Progress, pcL, Clearing
  <1>4. Blank("hier")' /\ views'["main"] = views["main"]
    BY DEF ClearHier, IInv, TypeOK, Blank, Proj
  <1>5. Blank("main")'
    BY <1>3, <1>4 DEF Blank
  <1>6. TypeOK'
    BY <1>1, <1>2 DEF IInv, TypeOK, ClearHier
  <1>7. Once'
    BY <1>4, <1>5 DEF Once, Blank, Proj
  <1>8. Progress' /\ Seamless' /\ Requested' /\ Settled'
    BY <1>1, <1>4, <1>5, Zenon DEF Progress, Seamless, Requested, Settled, pcL, Clearing,
       Replaying, Serving, ClearHier, IInv
  <1> QED BY <1>6, <1>7, <1>8 DEF IInv

LEMMA ClearMarksStep ==
    ASSUME Proc = {"live"}, ProjectionAssumption, IInv, ClearMarks("live")
    PROVE  IInv'
  <1>1. pc' \in [Proc -> Label] /\ pc'["live"] = "resetMain" /\ pc["live"] = "clearMarks"
    BY GotoLabel DEF ClearMarks, IInv, TypeOK, Label
  <1>2. wm' \in [Proj -> 0..MaxRows] /\ wm'["main"] = 0 /\ wm'["hier"] = 0
    BY DEF ClearMarks, Proj, ProjectionAssumption
  <1>3. Blank("main") /\ Blank("hier")
    BY <1>1, Zenon DEF IInv, Progress, pcL, Clearing
  <1>4. Blank("main")' /\ Blank("hier")'
    BY <1>3 DEF Blank, ClearMarks
  <1>5. TypeOK'
    BY <1>1, <1>2 DEF IInv, TypeOK, ClearMarks
  <1>6. Once'
    BY <1>4 DEF Once, Blank, Proj
  <1>7. Progress' /\ Seamless' /\ Requested' /\ Settled'
    BY <1>1, <1>2, <1>4, Zenon DEF Progress, Seamless, Requested, Settled, pcL, Clearing,
       Replaying, Serving, ClearMarks, IInv
  <1> QED BY <1>5, <1>6, <1>7 DEF IInv

\* The offsets go next, and the replay begins with an empty batch.
LEMMA ResetMainStep ==
    ASSUME Proc = {"live"}, ProjectionAssumption, IInv, ResetMain("live")
    PROVE  IInv'
  <1>1. pc' \in [Proc -> Label] /\ pc'["live"] = "resetHier" /\ pc["live"] = "resetMain"
    BY GotoLabel DEF ResetMain, IInv, TypeOK, Label
  <1>2. offset' \in [Proj -> {None} \cup (0..MaxRows)] /\ offset'["main"] = None
    BY DEF ResetMain, IInv, TypeOK, Proj
  <1>3. Blank("main") /\ Blank("hier") /\ wm["main"] = 0 /\ wm["hier"] = 0
    BY <1>1, Zenon DEF IInv, Progress, pcL, Clearing
  <1>4. Blank("main")' /\ Blank("hier")' /\ wm' = wm
    BY <1>3 DEF Blank, ResetMain
  <1>5. TypeOK'
    BY <1>1, <1>2 DEF IInv, TypeOK, ResetMain
  <1>6. Once'
    BY <1>4 DEF Once, Blank, Proj
  <1>7. Progress' /\ Seamless' /\ Requested' /\ Settled'
    BY <1>1, <1>2, <1>3, <1>4, Zenon DEF Progress, Seamless, Requested, Settled, pcL, Clearing,
       Replaying, Serving, ResetMain, IInv
  <1> QED BY <1>5, <1>6, <1>7 DEF IInv

LEMMA ResetHierStep ==
    ASSUME Proc = {"live"}, ProjectionAssumption, IInv, ResetHier("live")
    PROVE  IInv'
  <1>1. pc' \in [Proc -> Label] /\ pc'["live"] = "replayRead" /\ pc["live"] = "resetHier"
    BY GotoLabel DEF ResetHier, IInv, TypeOK, Label
  <1>2. /\ offset' \in [Proj -> {None} \cup (0..MaxRows)]
        /\ offset'["hier"] = None /\ offset'["main"] = offset["main"]
    BY DEF ResetHier, IInv, TypeOK, Proj
  <1>3. /\ batch' \in [Proc -> [lo : 0..MaxRows, hi : 0..MaxRows, mirrored : BOOLEAN]]
        /\ batch'["live"].hi = 0
    BY DEF ResetHier, IInv, TypeOK, NoBatch, ProjectionAssumption
  <1>4. /\ Blank("main") /\ Blank("hier") /\ wm["main"] = 0 /\ wm["hier"] = 0
        /\ offset["main"] = None
    BY <1>1, Zenon DEF IInv, Progress, pcL, Clearing
  <1>5. Exact("main")' /\ Exact("hier")'
    BY <1>4 DEF Blank, ResetHier, Exact, Row
  <1>6. TypeOK'
    BY <1>1, <1>2, <1>3 DEF IInv, TypeOK, ResetHier
  <1>7. Once'
    BY <1>4 DEF Once, Blank, Proj, ResetHier
  <1>8. batch'["live"].hi <= wm'["main"]
    BY <1>3, <1>4 DEF ResetHier
  <1>9. Progress' /\ Requested' /\ Settled'
    BY <1>1, <1>2, <1>4, <1>5, Zenon DEF Progress, Requested, Settled, pcL,
       Clearing, Replaying, Serving, ResetHier, IInv
  <1>10. Seamless'
    BY <1>1, <1>8, Zenon DEF Seamless, pcL, batchL
  <1> QED BY <1>6, <1>7, <1>9, <1>10 DEF IInv

\* The replay reads on from its own place.
LEMMA ReplayReadStep ==
    ASSUME Proc = {"live"}, ProjectionAssumption, IInv, ReplayRead("live")
    PROVE  IInv'
  <1> DEFINE b == RowsSince(batch["live"].hi, FALSE)
  <1>1. /\ b \in [lo : 0..MaxRows, hi : 0..MaxRows, mirrored : BOOLEAN]
        /\ b.lo = batch["live"].hi
    BY RowsSinceType, Zenon DEF IInv, TypeOK
  <1>2. pc["live"] = "replayRead" /\ UNCHANGED <<head, store, request, rebuilding, crashes, requests>>
    BY DEF ReplayRead
  <1>3. \/ Goto("live", "replayMirror") /\ batch' = batch
        \/ Goto("live", "replayCommit") /\ batch' = [batch EXCEPT !["live"] = b]
    BY Zenon DEF ReplayRead
  <1> HIDE DEF b
  <1>4. batch["live"].hi <= wm["main"]
    BY <1>2, Zenon DEF IInv, Seamless, pcL, batchL
  <1>5. /\ pc' \in [Proc -> Label] /\ pc'["live"] \in {"replayMirror", "replayCommit"}
        /\ batch' \in [Proc -> [lo : 0..MaxRows, hi : 0..MaxRows, mirrored : BOOLEAN]]
        /\ pc'["live"] = "replayMirror" => batch'["live"].hi <= wm["main"]
        /\ pc'["live"] = "replayCommit" => batch'["live"].lo <= wm["main"]
    <2>1. CASE Goto("live", "replayMirror") /\ batch' = batch
      BY <2>1, <1>4, GotoLabel DEF IInv, TypeOK, Label
    <2>2. CASE Goto("live", "replayCommit") /\ batch' = [batch EXCEPT !["live"] = b]
      BY <2>2, <1>1, <1>4, GotoLabel DEF IInv, TypeOK, Label
    <2> QED BY <1>3, <2>1, <2>2
  <1>6. TypeOK'
    BY <1>2, <1>5 DEF IInv, TypeOK, store
  <1>7. Seamless'
    BY <1>2, <1>5, Zenon DEF Seamless, pcL, batchL, store
  <1>8. Progress'
    BY <1>2, <1>5, SameStore, Zenon DEF Progress, IInv, pcL, Clearing, Replaying, Proj, store
  <1>9. Requested'
    BY <1>2, <1>5, Zenon DEF Requested, IInv, pcL, Clearing, Replaying
  <1>10. Once' /\ Settled'
    BY <1>2, <1>5, SameStore, Zenon DEF IInv, Settled, pcL, Serving
  <1> QED BY <1>6, <1>7, <1>8, <1>9, <1>10 DEF IInv

LEMMA ReplayCommitStep ==
    ASSUME Proc = {"live"}, ProjectionAssumption, IInv, ReplayCommit("live")
    PROVE  IInv'
  <1>1. pc' \in [Proc -> Label] /\ pc'["live"] = "replayRead" /\ pc["live"] = "replayCommit"
    BY GotoLabel DEF ReplayCommit, IInv, TypeOK, Label
  <1>2. /\ Exact("main") /\ Exact("hier") /\ offset["main"] = None /\ offset["hier"] = None
        /\ batch["live"].lo <= wm["main"]
    BY <1>1, Zenon DEF IInv, Progress, Seamless, pcL, batchL, Replaying
  <1>3. /\ Exact("main")' /\ batch["live"].hi <= wm'["main"]
        /\ views' \in [Proj -> [Row -> Nat]] /\ wm' \in [Proj -> 0..MaxRows]
        /\ views'["hier"] = views["hier"] /\ wm'["hier"] = wm["hier"]
    BY <1>2, CommitExact DEF ReplayCommit, IInv, TypeOK, Proj, ProjectionAssumption
  <1>4. Exact("hier")'
    BY <1>2, <1>3 DEF Exact
  <1>5. TypeOK'
    BY <1>1, <1>3 DEF IInv, TypeOK, ReplayCommit
  <1>6. Once'
    BY <1>3, <1>4, ExactOnce DEF Proj
  <1>7. Progress' /\ Seamless' /\ Requested' /\ Settled'
    BY <1>1, <1>2, <1>3, <1>4, Zenon DEF Progress, Seamless, Requested, Settled, pcL, batchL,
       Clearing, Replaying, Serving, ReplayCommit, IInv
  <1> QED BY <1>5, <1>6, <1>7 DEF IInv

\* The offset of the replay is behind its watermark, and the hierarchy's is
\* still absent.
LEMMA ReplayMovesStep ==
    ASSUME Proc = {"live"}, ProjectionAssumption, IInv,
           pc["live"] = "replayMirror", ReplayMoves("live")
    PROVE  IInv'
  <1>1. pc' \in [Proc -> Label] /\ pc'["live"] = "hierRead" /\ pc["live"] = "replayMirror"
    BY GotoLabel DEF ReplayMoves, IInv, TypeOK, Label
  <1>2. /\ Exact("main") /\ Exact("hier") /\ offset["main"] = None /\ offset["hier"] = None
        /\ batch["live"].hi <= wm["main"]
    BY <1>1, Zenon DEF IInv, Progress, Seamless, pcL, batchL, Replaying
  <1>3. /\ offset' \in [Proj -> {None} \cup (0..MaxRows)]
        /\ offset'["main"] \in {None, batch["live"].hi}
        /\ offset'["hier"] = None
    BY <1>2 DEF ReplayMoves, IInv, TypeOK, Proj
  <1>4. offset'["main"] <= wm["main"] /\ offset'["hier"] <= wm["hier"]
    BY <1>2, <1>3 DEF IInv, TypeOK, Proj, None
  <1>5. Exact("main")' /\ Exact("hier")' /\ UNCHANGED <<views, wm>>
    BY <1>2 DEF Exact, ReplayMoves
  <1>6. Whole'
    BY <1>4, <1>5 DEF Whole, Proj
  <1>7. TypeOK'
    BY <1>1, <1>3 DEF IInv, TypeOK, ReplayMoves
  <1>8. Once'
    BY <1>5 DEF Once, IInv
  <1>9. Progress' /\ Seamless' /\ Requested' /\ Settled'
    BY <1>1, <1>6, Zenon DEF Progress, Seamless, Requested, Settled, pcL,
       Clearing, Replaying, Serving, ReplayMoves, IInv
  <1> QED BY <1>7, <1>8, <1>9 DEF IInv

\* The request is withdrawn only when the read model is whole again.
LEMMA UnlinkStep ==
    ASSUME Proc = {"live"}, ProjectionAssumption, IInv, Unlink("live")
    PROVE  IInv'
  <1>1. pc' \in [Proc -> Label] /\ pc'["live"] = "hierRead" /\ pc["live"] = "unlink"
    BY GotoLabel DEF Unlink, IInv, TypeOK, Label
  <1>2. rebuilding' \in [Proc -> BOOLEAN] /\ rebuilding'["live"] = FALSE
    BY DEF Unlink, IInv, TypeOK
  <1>3. TypeOK'
    BY <1>1, <1>2, Zenon DEF IInv, TypeOK, Unlink, store
  <1>4. Progress' /\ Seamless' /\ Requested'
    BY <1>1, <1>2, Zenon DEF Progress, Seamless, Requested, pcL, Clearing, Replaying, Unlink
  <1>5. Once' /\ Settled'
    BY <1>1, SameStore, Zenon DEF IInv, Settled, pcL, Serving, Unlink
  <1> QED BY <1>3, <1>4, <1>5 DEF IInv

\* A batch is read from the offset, which is behind the watermark.
LEMMA PendingBatch ==
    ASSUME ProjectionAssumption, TypeOK, Whole, NEW j \in Proj
    PROVE  /\ Pending(j) \in [lo : 0..MaxRows, hi : 0..MaxRows, mirrored : BOOLEAN]
           /\ Pending(j).lo <= wm[j]
  <1> DEFINE from == IF offset[j] = None THEN 0 ELSE offset[j]
  <1>1. from \in 0..MaxRows /\ from <= wm[j]
    BY DEF TypeOK, Whole, None, ProjectionAssumption
  <1>2. (offset[j] # None) \in BOOLEAN
    OBVIOUS
  <1> HIDE DEF from
  <1>3. /\ RowsSince(from, offset[j] # None) \in [lo : 0..MaxRows, hi : 0..MaxRows, mirrored : BOOLEAN]
        /\ RowsSince(from, offset[j] # None).lo = from
    BY <1>1, <1>2, RowsSinceType, Zenon DEF TypeOK
  <1>4. Pending(j) = RowsSince(from, offset[j] # None)
    BY DEF Pending, from
  <1> QED BY <1>1, <1>3, <1>4

LEMMA HierReadStep ==
    ASSUME Proc = {"live"}, ProjectionAssumption, IInv, HierRead("live")
    PROVE  IInv'
  <1> DEFINE b == Pending("hier")
  <1>1. pc["live"] = "hierRead" /\ UNCHANGED <<head, store, request, rebuilding, crashes, requests>>
    BY DEF HierRead
  <1>2. Whole
    BY <1>1, Zenon DEF IInv, Settled, pcL, Serving
  <1>3. b \in [lo : 0..MaxRows, hi : 0..MaxRows, mirrored : BOOLEAN] /\ b.lo <= wm["hier"]
    BY <1>2, PendingBatch DEF IInv, Proj
  <1>4. \/ /\ Goto("live", IF ~ rebuilding["live"] THEN "mainRead" ELSE "unlink")
           /\ batch' = batch
        \/ Goto("live", "hierCommit") /\ batch' = [batch EXCEPT !["live"] = b]
    BY DEF HierRead
  <1> HIDE DEF b
  <1>5. /\ pc' \in [Proc -> Label]
        /\ \/ pc'["live"] = "hierCommit"
           \/ pc'["live"] = "mainRead" /\ ~ rebuilding["live"]
           \/ pc'["live"] = "unlink" /\ rebuilding["live"]
        /\ batch' \in [Proc -> [lo : 0..MaxRows, hi : 0..MaxRows, mirrored : BOOLEAN]]
        /\ pc'["live"] = "hierCommit" => batch'["live"].lo <= wm["hier"]
    <2>1. CASE Goto("live", IF ~ rebuilding["live"] THEN "mainRead" ELSE "unlink") /\ batch' = batch
      <3>1. (IF ~ rebuilding["live"] THEN "mainRead" ELSE "unlink") \in Label
        BY DEF Label
      <3>2. pc' \in [Proc -> Label] /\ pc'["live"] = IF ~ rebuilding["live"] THEN "mainRead" ELSE "unlink"
        BY <2>1, <3>1, GotoLabel DEF IInv, TypeOK
      <3> QED BY <2>1, <3>2 DEF IInv, TypeOK
    <2>2. CASE Goto("live", "hierCommit") /\ batch' = [batch EXCEPT !["live"] = b]
      BY <2>2, <1>3, GotoLabel DEF IInv, TypeOK, Label
    <2> QED BY <1>4, <2>1, <2>2
  <1>6. TypeOK'
    BY <1>1, <1>5 DEF IInv, TypeOK, store
  <1>7. Seamless'
    BY <1>1, <1>5, Zenon DEF Seamless, pcL, batchL, store
  <1>8. Progress' /\ Requested'
    BY <1>1, <1>5, Zenon DEF Progress, Requested, IInv, pcL, Clearing, Replaying
  <1>9. Once' /\ Settled'
    BY <1>1, <1>2, SameStore, Zenon DEF IInv, Settled
  <1> QED BY <1>6, <1>7, <1>8, <1>9 DEF IInv

LEMMA MainReadStep ==
    ASSUME Proc = {"live"}, ProjectionAssumption, IInv, MainRead("live")
    PROVE  IInv'
  <1> DEFINE b == Pending("main")
  <1>1. pc["live"] = "mainRead" /\ UNCHANGED <<head, store, request, rebuilding, crashes, requests>>
    BY DEF MainRead
  <1>2. Whole /\ ~ rebuilding["live"]
    BY <1>1, Zenon DEF IInv, Settled, Requested, pcL, Serving
  <1>3. b \in [lo : 0..MaxRows, hi : 0..MaxRows, mirrored : BOOLEAN] /\ b.lo <= wm["main"]
    BY <1>2, PendingBatch DEF IInv, Proj
  <1>4. \/ Goto("live", "poll") /\ batch' = batch
        \/ Goto("live", "mainCommit") /\ batch' = [batch EXCEPT !["live"] = b]
    BY DEF MainRead
  <1> HIDE DEF b
  <1>5. /\ pc' \in [Proc -> Label] /\ pc'["live"] \in {"poll", "mainCommit"}
        /\ batch' \in [Proc -> [lo : 0..MaxRows, hi : 0..MaxRows, mirrored : BOOLEAN]]
        /\ pc'["live"] = "mainCommit" => batch'["live"].lo <= wm["main"]
    <2>1. CASE Goto("live", "poll") /\ batch' = batch
      BY <2>1, GotoLabel DEF IInv, TypeOK, Label
    <2>2. CASE Goto("live", "mainCommit") /\ batch' = [batch EXCEPT !["live"] = b]
      BY <2>2, <1>3, GotoLabel DEF IInv, TypeOK, Label
    <2> QED BY <1>4, <2>1, <2>2
  <1>6. TypeOK'
    BY <1>1, <1>5 DEF IInv, TypeOK, store
  <1>7. Seamless'
    BY <1>1, <1>5, Zenon DEF Seamless, pcL, batchL, store
  <1>8. Progress' /\ Requested'
    BY <1>1, <1>2, <1>5, Zenon DEF Progress, Requested, IInv, pcL, Clearing, Replaying
  <1>9. Once' /\ Settled'
    BY <1>1, <1>2, SameStore, Zenon DEF IInv, Settled
  <1> QED BY <1>6, <1>7, <1>8, <1>9 DEF IInv

\* A live batch is committed to a whole read model and leaves it whole.
LEMMA CommitWhole ==
    ASSUME ProjectionAssumption, TypeOK, Whole, UNCHANGED offset, NEW j \in Proj,
           NEW b \in [lo : 0..MaxRows, hi : 0..MaxRows, mirrored : BOOLEAN],
           b.lo <= wm[j], CommitBatch(j, b)
    PROVE  /\ Whole' /\ Once' /\ b.hi <= wm'[j]
           /\ views' \in [Proj -> [Row -> Nat]] /\ wm' \in [Proj -> 0..MaxRows]
  <1>1. /\ Exact(j)' /\ b.hi <= wm'[j] /\ wm[j] <= wm'[j]
        /\ views' \in [Proj -> [Row -> Nat]] /\ wm' \in [Proj -> 0..MaxRows]
        /\ \A k \in Proj \ {j} : views'[k] = views[k] /\ wm'[k] = wm[k]
    BY CommitExact DEF Whole, TypeOK, ProjectionAssumption
  <1>2. ASSUME NEW k \in Proj PROVE Exact(k)' /\ offset'[k] <= wm'[k]
    <2>1. CASE k = j
      <3>1. offset'[k] \in Int /\ offset'[k] <= wm[k] /\ wm[k] \in Int /\ wm'[k] \in Int
        BY <1>1 DEF Whole, TypeOK, None
      <3> QED BY <1>1, <2>1, <3>1
    <2>2. CASE k # j
      <3>1. views'[k] = views[k] /\ wm'[k] = wm[k]
        BY <1>1, <2>2
      <3> QED BY <3>1 DEF Whole, Exact
    <2> QED BY <2>1, <2>2
  <1>3. Whole'
    BY <1>2 DEF Whole
  <1>4. Once'
    BY <1>2, ExactOnce
  <1> QED BY <1>1, <1>3, <1>4

LEMMA HierCommitStep ==
    ASSUME Proc = {"live"}, ProjectionAssumption, IInv, HierCommit("live")
    PROVE  IInv'
  <1>1. pc' \in [Proc -> Label] /\ pc'["live"] = "hierMirror" /\ pc["live"] = "hierCommit"
    BY GotoLabel DEF HierCommit, IInv, TypeOK, Label
  <1>2. Whole /\ batch["live"].lo <= wm["hier"]
    BY <1>1, Zenon DEF IInv, Settled, Seamless, pcL, batchL, Serving
  <1>3. /\ Whole' /\ Once' /\ batch["live"].hi <= wm'["hier"]
        /\ views' \in [Proj -> [Row -> Nat]] /\ wm' \in [Proj -> 0..MaxRows]
    BY <1>2, CommitWhole DEF HierCommit, IInv, TypeOK, Proj
  <1>4. TypeOK'
    BY <1>1, <1>3 DEF IInv, TypeOK, HierCommit
  <1>5. Progress' /\ Seamless' /\ Requested' /\ Settled'
    BY <1>1, <1>3, Zenon DEF Progress, Seamless, Requested, Settled, pcL, batchL,
       Clearing, Replaying, Serving, HierCommit, IInv
  <1> QED BY <1>3, <1>4, <1>5 DEF IInv

LEMMA MainCommitStep ==
    ASSUME Proc = {"live"}, ProjectionAssumption, IInv, MainCommit("live")
    PROVE  IInv'
  <1>1. pc' \in [Proc -> Label] /\ pc'["live"] = "mainMirror" /\ pc["live"] = "mainCommit"
    BY GotoLabel DEF MainCommit, IInv, TypeOK, Label
  <1>2. Whole /\ batch["live"].lo <= wm["main"]
    BY <1>1, Zenon DEF IInv, Settled, Seamless, pcL, batchL, Serving
  <1>3. /\ Whole' /\ Once' /\ batch["live"].hi <= wm'["main"]
        /\ views' \in [Proj -> [Row -> Nat]] /\ wm' \in [Proj -> 0..MaxRows]
    BY <1>2, CommitWhole DEF MainCommit, IInv, TypeOK, Proj
  <1>4. TypeOK'
    BY <1>1, <1>3 DEF IInv, TypeOK, MainCommit
  <1>5. Progress' /\ Seamless' /\ Requested' /\ Settled'
    BY <1>1, <1>3, Zenon DEF Progress, Seamless, Requested, Settled, pcL, batchL,
       Clearing, Replaying, Serving, MainCommit, IInv
  <1> QED BY <1>3, <1>4, <1>5 DEF IInv

\* Only what is committed is mirrored.
LEMMA MovesStep ==
    ASSUME Proc = {"live"}, ProjectionAssumption, IInv, NEW j \in Proj,
           pc["live"] = MirrorLabel(j), Moves("live", j)
    PROVE  IInv'
  <1>1. AfterMirror("live", j) \in Label
    BY DEF AfterMirror, Label
  <1>2. /\ pc' \in [Proc -> Label] /\ pc'["live"] = AfterMirror("live", j)
        /\ pc["live"] = MirrorLabel(j)
    BY <1>1, GotoLabel DEF Moves, IInv, TypeOK
  <1>3. Whole /\ batch["live"].hi <= wm[j]
    <2>1. CASE j = "main"
      BY <2>1, <1>2, Zenon DEF IInv, Settled, Seamless, pcL, batchL, Serving, MirrorLabel
    <2>2. CASE j = "hier"
      <3>1. pc["live"] = "hierMirror"
        BY <2>2, <1>2 DEF MirrorLabel
      <3> QED BY <2>2, <3>1, Zenon DEF IInv, Settled, Seamless, pcL, batchL, Serving
    <2> QED BY <2>1, <2>2 DEF Proj
  <1>4. /\ offset' = [offset EXCEPT ![j] = batch["live"].hi]
        /\ offset' \in [Proj -> {None} \cup (0..MaxRows)]
    BY DEF Moves, IInv, TypeOK
  <1>5. Whole'
    <2> SUFFICES ASSUME NEW k \in Proj PROVE Exact(k)' /\ offset'[k] <= wm'[k]
      BY DEF Whole
    <2>1. Exact(k)'
      BY <1>3 DEF Whole, Exact, Moves
    <2>2. offset'[k] <= wm[k]
      BY <1>3, <1>4 DEF Whole, IInv, TypeOK
    <2> QED BY <2>1, <2>2 DEF Moves
  <1>6. Once'
    BY <1>5, ExactOnce DEF Whole
  <1>7. TypeOK'
    BY <1>2, <1>4 DEF IInv, TypeOK, Moves
  <1>8. /\ pc'["live"] \in {"poll", "hierRead", "mainRead"}
        /\ pc'["live"] \in {"poll", "mainRead"} => ~ rebuilding["live"]
    <2>1. CASE j = "main"
      BY <2>1, <1>2, Zenon DEF AfterMirror, MirrorLabel, IInv, Requested, pcL
    <2>2. CASE j # "main"
      BY <2>2, <1>2 DEF AfterMirror
    <2> QED BY <2>1, <2>2
  <1>9. Progress' /\ Seamless' /\ Requested'
    BY <1>8, Zenon DEF Progress, Seamless, Requested, pcL, Clearing, Replaying, Moves, IInv
  <1>10. Settled'
    BY <1>5, Zenon DEF Settled
  <1> QED BY <1>6, <1>7, <1>9, <1>10 DEF IInv

LEMMA MirrorDeferredStep ==
    ASSUME Proc = {"live"}, ProjectionAssumption, IInv, NEW j \in Proj, MirrorDeferred("live", j)
    PROVE  IInv'
  <1>1. AfterMirror("live", j) \in Label
    BY DEF AfterMirror, Label
  <1>2. /\ pc' \in [Proc -> Label] /\ pc'["live"] = AfterMirror("live", j)
        /\ pc["live"] = MirrorLabel(j)
    BY <1>1, GotoLabel DEF MirrorDeferred, IInv, TypeOK
  <1>3. pc["live"] \in {"mainMirror", "hierMirror"}
    BY <1>2 DEF MirrorLabel
  <1>4. Whole
    BY <1>3, Zenon DEF IInv, Settled, pcL, Serving
  <1>5. pc'["live"] \in {"poll", "mainRead"} /\ ~ rebuilding["live"]
    BY <1>2 DEF AfterMirror, MirrorDeferred
  <1>6. TypeOK'
    BY <1>2 DEF IInv, TypeOK, MirrorDeferred, store
  <1>7. Progress' /\ Seamless' /\ Requested'
    BY <1>5, Zenon DEF Progress, Seamless, Requested, pcL, Clearing, Replaying, MirrorDeferred
  <1>8. Once' /\ Settled'
    BY <1>4, SameStore, Zenon DEF IInv, Settled, MirrorDeferred
  <1> QED BY <1>6, <1>7, <1>8 DEF IInv

\* The daemon's steps.
LEMMA AppendStep ==
    ASSUME Proc = {"live"}, ProjectionAssumption, IInv, Append
    PROVE  IInv'
  <1>1. TypeOK'
    BY DEF IInv, TypeOK, Append, store, ProjectionAssumption
  <1>2. Once' /\ Settled'
    BY SameStore, Zenon DEF IInv, Settled, pcL, Append
  <1>3. Progress'
    BY SameStore, Zenon DEF Progress, IInv, pcL, Proj, Append, store
  <1>4. Seamless' /\ Requested'
    BY Zenon DEF Seamless, Requested, IInv, pcL, batchL, Append, store
  <1> QED BY <1>1, <1>2, <1>3, <1>4 DEF IInv

LEMMA RequestStep ==
    ASSUME Proc = {"live"}, ProjectionAssumption, IInv, RequestRebuild
    PROVE  IInv'
  <1>1. TypeOK'
    BY DEF IInv, TypeOK, RequestRebuild, store, ProjectionAssumption
  <1>2. Once' /\ Settled'
    BY SameStore, Zenon DEF IInv, Settled, pcL, RequestRebuild
  <1>3. Progress'
    BY SameStore, Zenon DEF Progress, IInv, pcL, Proj, RequestRebuild, store
  <1>4. Seamless' /\ Requested'
    BY Zenon DEF Seamless, Requested, IInv, pcL, batchL, RequestRebuild, store
  <1> QED BY <1>1, <1>2, <1>3, <1>4 DEF IInv

\* A refused offset ends the worker.
LEMMA RejectedStep ==
    ASSUME Proc = {"live"}, ProjectionAssumption, IInv, Rejected("live")
    PROVE  IInv'
  BY ExitStep DEF Rejected, IInv, TypeOK

-----------------------------------------------------------------------------
(* The theorems                                                            *)

\* The state before the first start.
LEMMA InitInv ==
    ASSUME Proc = {"live"}, ProjectionAssumption, Init
    PROVE  IInv
  <1>1. TypeOK
    <2>1. request \in BOOLEAN /\ rebuilding \in [Proc -> BOOLEAN]
      BY Zenon DEF Init
    <2>2. pc \in [Proc -> Label]
      BY DEF Init, Label
    <2>3. batch \in [Proc -> [lo : 0..MaxRows, hi : 0..MaxRows, mirrored : BOOLEAN]]
      BY DEF Init, NoBatch, ProjectionAssumption
    <2>4. views \in [Proj -> [Row -> Nat]] /\ wm \in [Proj -> 0..MaxRows]
      BY DEF Init, ProjectionAssumption
    <2>5. offset \in [Proj -> {None} \cup (0..MaxRows)]
      BY DEF Init
    <2>6. head \in 0..MaxRows /\ crashes \in 0..MaxCrashes /\ requests \in 0..MaxRequests
      BY DEF Init, ProjectionAssumption
    <2> QED BY <2>1, <2>2, <2>3, <2>4, <2>5, <2>6, Zenon DEF TypeOK
  <1>2. pc["live"] = "down" /\ rebuilding["live"] = FALSE
    BY DEF Init
  <1>3. Whole
    BY DEF Init, Whole, Exact, Row, None
  <1>4. Once
    BY DEF Init, Once
  <1>5. Progress /\ Seamless /\ Requested /\ Settled
    BY <1>2, <1>3, Zenon DEF Progress, Seamless, Requested, Settled, pcL, Clearing, Replaying
  <1> QED BY <1>1, <1>4, <1>5 DEF IInv

\* Every step of the worker, the daemon and the supervisor preserves IInv.
LEMMA NextInv ==
    ASSUME Proc = {"live"}, ProjectionAssumption, IInv, [Next]_vars
    PROVE  IInv'
  <1>1. CASE Append
    BY <1>1, AppendStep
  <1>2. CASE RequestRebuild
    BY <1>2, RequestStep
  <1>3. CASE Start("live")
    BY <1>3, StartStep
  <1>4. CASE LiveLoop("live")
    <2>1. ASSUME NEW j \in Proj, Mirror("live", j) PROVE IInv'
      <3>1. CASE Rejected("live")
        BY <3>1, RejectedStep
      <3>2. CASE pc["live"] = MirrorLabel(j) /\ Moves("live", j)
        BY <3>2, MovesStep
      <3> QED BY <2>1, <3>1, <3>2, Zenon DEF Mirror
    <2>2. CASE HierRefuses("live")
      BY <2>2, ExitStep DEF HierRefuses, IInv, TypeOK
    <2> QED BY <1>4, <2>1, <2>2, CheckStep, NotDueStep, UnlinkStep, HierReadStep,
               HierCommitStep, MainReadStep, MainCommitStep,
               MirrorDeferredStep, Zenon DEF LiveLoop
  <1>5. CASE Rebuild("live")
    <2>1. CASE ReplayMirror("live")
      <3>1. CASE Rejected("live")
        BY <3>1, RejectedStep
      <3>2. CASE pc["live"] = "replayMirror" /\ ReplayMoves("live")
        BY <3>2, ReplayMovesStep
      <3> QED BY <2>1, <3>1, <3>2, Zenon DEF ReplayMirror
    <2> QED BY <1>5, <2>1, ClearMainStep, ClearHierStep, ClearMarksStep, ResetMainStep,
               ResetHierStep, ReplayReadStep, ReplayCommitStep,
               Zenon DEF Rebuild
  <1>6. CASE Crash("live")
    <2>1. crashes' \in 0..MaxCrashes
      BY <1>6, SMTT(20) DEF Crash, IInv, TypeOK, ProjectionAssumption
    <2> QED BY <1>6, <2>1, ExitStep, SMTT(20) DEF Crash
  <1>7. CASE UNCHANGED vars
    BY <1>7, SMTT(20) DEF vars, IInv, TypeOK, Once, Progress, Seamless, Requested, Settled, Whole,
       Exact, Blank, pcL, batchL
  <1> QED BY <1>1, <1>2, <1>3, <1>4, <1>5, <1>6, <1>7, Zenon DEF Next

\* Outside a rebuild, and not on the way back to one, the read model is whole.
LEMMA InUseWhole ==
    ASSUME Proc = {"live"}, IInv, ~ rebuilding["live"],
           ~ (request /\ pc["live"] \in {"down", "first"})
    PROVE  Whole
  <1>1. CASE ~ request
    BY <1>1 DEF IInv, Settled
  <1>2. CASE request
    <2>1. pc["live"] \in Label
      BY DEF IInv, TypeOK
    <2>2. pc["live"] \in Serving \cup {"done"}
      BY <1>2, <2>1 DEF IInv, Requested, Label, Serving, Clearing, Replaying, pcL
    <2>3. pc["live"] # "done"
      BY DEF IInv, Requested, pcL
    <2> QED BY <2>2, <2>3 DEF IInv, Settled, pcL
  <1> QED BY <1>1, <1>2

\* The invariant of the live worker, in every reachable state.
LEMMA Invariance ==
    ASSUME Proc = {"live"}
    PROVE  Spec => []IInv
  <1>1. Init => IInv
    BY InitInv, ProjectionAssumption
  <1>2. IInv /\ [Next]_vars => IInv'
    BY NextInv, ProjectionAssumption
  <1> QED BY <1>1, <1>2, PTL DEF Spec

\* No row is counted twice, however often the worker dies, postpones a mirror
\* or is asked to rebuild.
THEOREM CountsNeverTwice ==
    ASSUME Proc = {"live"}
    PROVE  Spec => []NeverTwice
  <1>1. IInv => NeverTwice
    BY DEF IInv, Once, NeverTwice
  <1> QED BY <1>1, Invariance, PTL

\* A read model in use holds each row up to its watermark exactly once.
THEOREM CountsEveryRow ==
    ASSUME Proc = {"live"}
    PROVE  Spec => []EveryRowOnce
  <1>1. IInv => EveryRowOnce
    <2> SUFFICES ASSUME IInv, InUse PROVE Whole
      BY DEF EveryRowOnce, Whole
    <2>1. ~ rebuilding["live"] /\ ~ (request /\ pc["live"] \in {"down", "first"})
      BY DEF InUse
    <2> QED BY <2>1, InUseWhole
  <1> QED BY <1>1, Invariance, PTL

\* The offset of a read model in use never runs ahead of its watermark.
THEOREM OffsetStaysBehind ==
    ASSUME Proc = {"live"}
    PROVE  Spec => []OffsetBehindViews
  <1>1. IInv => OffsetBehindViews
    <2> SUFFICES ASSUME IInv, InUse PROVE Whole
      BY DEF OffsetBehindViews, Whole
    <2>1. ~ rebuilding["live"] /\ ~ (request /\ pc["live"] \in {"down", "first"})
      BY DEF InUse
    <2> QED BY <2>1, InUseWhole
  <1> QED BY <1>1, Invariance, PTL

\* A batch of the hierarchy ends before the first row it must refuse.
LEMMA HierCommitRefuses ==
    ASSUME Proc = {"live"}, ProjectionAssumption, IInv, RefusesMalformed, HierCommit("live")
    PROVE  RefusesMalformed'
  <1> SUFFICES ASSUME NEW m \in Malformed PROVE wm'["hier"] < m
    BY DEF RefusesMalformed
  <1>1. batch["live"].lo <= wm["hier"] /\ wm["hier"] < m
    BY DEF HierCommit, IInv, Seamless, pcL, batchL, RefusesMalformed
  <1>2. m \notin Fresh("hier", batch["live"])
    BY DEF HierCommit
  <1>3. /\ m \in Nat /\ wm["hier"] \in Nat
        /\ batch["live"].lo \in Nat /\ batch["live"].hi \in Nat
    BY DEF ProjectionAssumption, IInv, TypeOK, Proj
  <1>4. batch["live"].hi < m
    BY <1>1, <1>2, <1>3 DEF Fresh
  <1>5. wm'["hier"] = Maximum(wm["hier"], batch["live"].hi)
    BY DEF HierCommit, CommitBatch, IInv, TypeOK, Proj
  <1> QED BY <1>1, <1>4, <1>5 DEF Maximum

\* No other step raises the watermark of the hierarchy.
LEMMA OtherStepsRefuse ==
    ASSUME Proc = {"live"}, ProjectionAssumption, IInv, RefusesMalformed, [Next]_vars,
           ~ HierCommit("live")
    PROVE  RefusesMalformed'
  <1>1. wm \in [Proj -> 0..MaxRows] /\ "hier" \in Proj
    BY DEF IInv, TypeOK, Proj
  <1>2. CASE ClearMarks("live")
    BY <1>1, <1>2 DEF ClearMarks, RefusesMalformed, ProjectionAssumption
  <1>3. ASSUME wm'["hier"] = wm["hier"] PROVE RefusesMalformed'
    BY <1>3 DEF RefusesMalformed
  <1>4. CASE Start("live")
    BY <1>1, <1>3, <1>4 DEF Start
  <1>5. CASE ReplayCommit("live") \/ MainCommit("live")
    BY <1>1, <1>3, <1>5 DEF ReplayCommit, MainCommit, CommitBatch
  <1>6. CASE UNCHANGED wm
    BY <1>3, <1>6
  <1>7. ASSUME LiveLoop("live"), ~ MainCommit("live") PROVE UNCHANGED wm
    BY <1>7, Zenon DEF LiveLoop, CheckRequest, NotDue, Unlink, HierRead, HierRefuses, MainRead,
       Mirror, Moves, Rejected, MirrorDeferred, store
  <1>8. ASSUME Rebuild("live"), ~ ReplayCommit("live"), ~ ClearMarks("live") PROVE UNCHANGED wm
    BY <1>8, Zenon DEF Rebuild, ClearMain, ClearHier, ResetMain, ResetHier, ReplayRead,
       ReplayMirror, ReplayMoves, Rejected, store
  <1>9. CASE Append \/ RequestRebuild \/ Crash("live") \/ UNCHANGED vars
    BY <1>6, <1>9, Zenon DEF Append, RequestRebuild, Crash, vars, store
  <1> QED BY <1>2, <1>4, <1>5, <1>6, <1>7, <1>8, <1>9, Zenon DEF Next

\* The hierarchy never gets past a payload it must refuse.
THEOREM StopsAtMalformed ==
    ASSUME Proc = {"live"}
    PROVE  Spec => []RefusesMalformed
  <1>1. Init => RefusesMalformed
    BY ProjectionAssumption DEF Init, RefusesMalformed, Proj, ProjectionAssumption
  <1>2. IInv /\ RefusesMalformed /\ [Next]_vars => RefusesMalformed'
    BY HierCommitRefuses, OtherStepsRefuse, ProjectionAssumption
  <1> QED BY <1>1, <1>2, Invariance, PTL DEF Spec

=============================================================================
