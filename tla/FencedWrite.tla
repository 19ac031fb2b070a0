----------------------------- MODULE FencedWrite -----------------------------
(***************************************************************************)
(* A fenced write on one node, beside the handlers that change ownership   *)
(* (crates/sentinel-common/src/fencing.rs: OwnerRegistry; FencedRedbWrite  *)
(* and FencedSqliteWrite in the stores; owner_handler.rs, handoff.rs).     *)
(* OwnerHandoff takes a handler, and the validation of a guard, for one    *)
(* step.  Here every lock and every atomic of the registry is a step of    *)
(* its own: validate reads the readiness latch, the terms, the overlays    *)
(* and the base states one after the other, and rebuild writes terms, base *)
(* states, overlays and the latch one after the other.  The handlers hold  *)
(* the tick barrier, so there is one at a time; a writer outside the tick  *)
(* (operator API, projection, outbox) does not hold it.                    *)
(*                                                                         *)
(* Simplifications: one scope, and the registry of a cluster node, whose   *)
(* mode and generation never change.  A base state is the term it was made *)
(* from: local_snapshot_for makes the owner's Routable and all others      *)
(* Follower.  The snapshot of a handler is its term for this scope.        *)
(***************************************************************************)
EXTENDS Naturals

CONSTANTS
    Writer,         \* threads that write outside the tick
    MaxEpoch,       \* bound on the epochs of the scope
    MaxCrashes,     \* bound on restarts of the node
    ReopenStale     \* the recovery may open the latch beside a handler, or
                    \* after one that failed between its install and rebuild

ASSUME FencedWriteAssumption ==
    /\ MaxEpoch \in Nat
    /\ MaxCrashes \in Nat
    /\ ReopenStale \in BOOLEAN

VARIABLES
    store,      \* the installed term in the cluster meta store
    overlay,    \* the epoch of the durable retirement there, 0 if none
    terms, base, retired, ready,    \* the registry: its three maps and its latch
    hpc,        \* where the handler that holds the barrier is
    draft,      \* the snapshot it was sent
    recovering, \* the config-apply recovery of the startup has closed the latch
    pc,         \* where each writer is
    stage,      \* which of its validations it is in
    guard,      \* its guard
    since,      \* the installed epoch when that validation began
    whole,      \* its guard was valid as a whole at some instant since then
    crashes

durable == <<store, overlay>>
maps == <<terms, base, retired>>
handler == <<hpc, draft, recovering>>
writers == <<pc, stage, guard, since, whole>>
vars == <<durable, maps, ready, handler, writers, crashes>>

Term == [mine : BOOLEAN, epoch : 0..MaxEpoch]
NoTerm == [mine |-> FALSE, epoch |-> 0]

Checking == {"term", "overlay", "base", "accepted"}

TypeOK ==
    /\ store \in Term /\ draft \in Term
    /\ overlay \in 0..MaxEpoch
    /\ terms \in Term /\ base \in Term /\ retired \in BOOLEAN
    /\ ready \in BOOLEAN /\ recovering \in BOOLEAN
    /\ hpc \in {"idle", "install", "retire", "close", "terms", "bases", "overlays", "open"}
    /\ pc \in [Writer -> {"idle", "mint", "check"} \cup Checking]
    /\ stage \in [Writer -> {"issue", "begin", "commit"}]
    /\ guard \in [Writer -> Term]
    /\ since \in [Writer -> 0..MaxEpoch]
    /\ whole \in [Writer -> BOOLEAN]
    /\ crashes \in 0..MaxCrashes

\* No snapshot is installed yet; the registry is closed and empty.
Init ==
    /\ store = NoTerm /\ overlay = 0
    /\ terms = NoTerm /\ base = NoTerm /\ retired = FALSE /\ ready = FALSE
    /\ hpc = "idle" /\ draft = NoTerm /\ recovering = FALSE
    /\ pc = [w \in Writer |-> "idle"]
    /\ stage = [w \in Writer |-> "issue"]
    /\ guard = [w \in Writer |-> NoTerm]
    /\ since = [w \in Writer |-> 0]
    /\ whole = [w \in Writer |-> FALSE]
    /\ crashes = 0

-----------------------------------------------------------------------------
(* The handlers                                                            *)

\* The guard of a writer agrees with the three maps.
Agrees(g, t, b, r) == t = g /\ b = g /\ ~ r

\* Every change of a map is an instant at which a guard may be valid.
Observe ==
    whole' = [w \in Writer |->
                whole[w] \/ (pc[w] \in Checking /\ Agrees(guard[w], terms', base', retired'))]

\* Mutant: the latch stays open until the rebuild.
ReplicateOpen(g) ==
    /\ hpc = "idle"
    /\ g.epoch > 0 /\ (g.epoch = store.epoch => g = store)
    /\ draft' = g
    /\ hpc' = "install"
    /\ UNCHANGED <<durable, maps, ready, recovering, writers, crashes>>

\* ReplicateOwnerSnapshot, and the installs of the chef's own snapshots: the
\* latch is closed first.  Snapshots may come late; no two of them disagree on
\* an epoch.
Replicate(g) ==
    /\ hpc = "idle"
    /\ g.epoch > 0 /\ (g.epoch = store.epoch => g = store)
    /\ ready' = FALSE
    /\ draft' = g
    /\ hpc' = "install"
    /\ UNCHANGED <<durable, maps, recovering, writers, crashes>>

\* install_owner_snapshot installs a newer term, finds the same one or keeps a
\* newer one; then comes the rebuild.  A conflict, an error of the store before
\* or after its commit, and at the chef a stale snapshot, end the handler here.
Install ==
    /\ hpc = "install"
    /\ LET installed == IF draft.epoch > store.epoch THEN draft ELSE store
       IN  \/ store' = installed /\ hpc' = "close"
           \/ store' \in {store, installed} /\ hpc' = "idle"
    /\ draft' = NoTerm
    /\ UNCHANGED <<overlay, maps, ready, recovering, writers, crashes>>

\* OwnerCommit: complete_handoff_overlay, then the rebuild, unless the store
\* cannot be read back.  A peer asks that the term is the installed one; the
\* chef does not look.
OwnerCommit ==
    /\ hpc = "idle"
    /\ store # NoTerm
    /\ overlay' = 0
    /\ hpc' \in {"close", "idle"}
    /\ UNCHANGED <<store, maps, ready, draft, recovering, writers, crashes>>

\* PrepareHandoff: the retirement is durable first.
PrepareHandoff ==
    /\ hpc = "idle"
    /\ store.mine /\ overlay <= store.epoch
    /\ overlay' = store.epoch
    /\ hpc' = "retire"
    /\ UNCHANGED <<store, maps, ready, draft, recovering, writers, crashes>>

\* retire_local.
RetireLocal ==
    /\ hpc = "retire"
    /\ retired' = TRUE
    /\ hpc' = "idle"
    /\ UNCHANGED <<durable, terms, base, ready, draft, recovering, pc, stage, guard, since,
                   crashes>>
    /\ Observe

-----------------------------------------------------------------------------
(* rebuild_from_owner_snapshot, from what the store holds                  *)

CloseLatch ==
    /\ hpc = "close"
    /\ ready' = FALSE
    /\ hpc' = "terms"
    /\ UNCHANGED <<durable, maps, draft, recovering, writers, crashes>>

WriteTerms ==
    /\ hpc = "terms"
    /\ terms' = store
    /\ hpc' = "bases"
    /\ UNCHANGED <<durable, base, retired, ready, draft, recovering, pc, stage, guard, since,
                   crashes>>
    /\ Observe

WriteBases ==
    /\ hpc = "bases"
    /\ base' = store
    /\ hpc' = "overlays"
    /\ UNCHANGED <<durable, terms, retired, ready, draft, recovering, pc, stage, guard, since,
                   crashes>>
    /\ Observe

WriteOverlays ==
    /\ hpc = "overlays"
    /\ retired' = (overlay > 0)
    /\ hpc' = "open"
    /\ UNCHANGED <<durable, terms, base, ready, draft, recovering, pc, stage, guard, since,
                   crashes>>
    /\ Observe

OpenLatch ==
    /\ hpc = "open"
    /\ ready' = TRUE
    /\ hpc' = "idle"
    /\ UNCHANGED <<durable, maps, draft, recovering, writers, crashes>>

-----------------------------------------------------------------------------
(* The recovery of a config apply, on the tick thread                      *)

\* close_owner_readiness: at startup, where it is opened again, without the
\* barrier; in a tick, where only a rebuild or a restart opens it, with it.
FenceRecovery(startup) ==
    /\ startup \/ hpc = "idle"
    /\ ready' = FALSE
    /\ recovering' = (recovering \/ startup)
    /\ UNCHANGED <<durable, maps, hpc, draft, writers, crashes>>

\* reopen_owner_readiness_after_verified_local_recovery: the three maps are
\* read-locked while they are checked and the latch is opened.  The barrier is
\* not taken.
Reopen ==
    /\ recovering
    /\ (hpc = "idle" /\ terms = store) \/ ReopenStale
    /\ terms.mine /\ base = terms /\ ~ retired
    /\ ready' = TRUE
    /\ recovering' = FALSE
    /\ UNCHANGED <<durable, maps, hpc, draft, writers, crashes>>

-----------------------------------------------------------------------------
(* A writer: issue, begin_fenced_write, commit                             *)

Step(w, label) == pc' = [pc EXCEPT ![w] = label]

\* The write is over, with or without success.
Leave(w) ==
    /\ Step(w, "idle")
    /\ stage' = [stage EXCEPT ![w] = "issue"]
    /\ guard' = [guard EXCEPT ![w] = NoTerm]
    /\ since' = [since EXCEPT ![w] = 0]
    /\ whole' = [whole EXCEPT ![w] = FALSE]

\* issue looks at the latch, then at the term.
Issue(w) ==
    /\ pc[w] = "idle"
    /\ ready
    /\ Step(w, "mint")
    /\ UNCHANGED <<durable, maps, ready, handler, stage, guard, since, whole, crashes>>

Mint(w) ==
    /\ pc[w] = "mint"
    /\ terms # NoTerm
    /\ guard' = [guard EXCEPT ![w] = terms]
    /\ Step(w, "check")
    /\ UNCHANGED <<durable, maps, ready, handler, stage, since, whole, crashes>>

\* Mutant: the latch is looked at when the guard is issued, not again.
CheckReadyOnce(w) ==
    /\ pc[w] = "check"
    /\ stage[w] = "issue" => ready
    /\ since' = [since EXCEPT ![w] = store.epoch]
    /\ whole' = [whole EXCEPT ![w] = Agrees(guard[w], terms, base, retired)]
    /\ Step(w, "term")
    /\ UNCHANGED <<durable, maps, ready, handler, stage, guard, crashes>>

\* validate begins.
CheckReady(w) ==
    /\ pc[w] = "check"
    /\ ready
    /\ since' = [since EXCEPT ![w] = store.epoch]
    /\ whole' = [whole EXCEPT ![w] = Agrees(guard[w], terms, base, retired)]
    /\ Step(w, "term")
    /\ UNCHANGED <<durable, maps, ready, handler, stage, guard, crashes>>

CheckTerm(w) ==
    /\ pc[w] = "term"
    /\ terms = guard[w] /\ terms.mine
    /\ Step(w, "overlay")
    /\ UNCHANGED <<durable, maps, ready, handler, stage, guard, since, whole, crashes>>

\* Mutant: the base state is read before the overlay.
CheckLocalSwapped(w) ==
    /\ \/ pc[w] = "overlay" /\ base = guard[w] /\ Step(w, "base")
       \/ pc[w] = "base" /\ ~ retired /\ Step(w, "accepted")
    /\ UNCHANGED <<durable, maps, ready, handler, stage, guard, since, whole, crashes>>

\* The overlay of the scope, then its base state.
CheckLocal(w) ==
    /\ \/ pc[w] = "overlay" /\ ~ retired /\ Step(w, "base")
       \/ pc[w] = "base" /\ base = guard[w] /\ Step(w, "accepted")
    /\ UNCHANGED <<durable, maps, ready, handler, stage, guard, since, whole, crashes>>

\* A check fails: the error is returned and the transaction is dropped.
Refused(w) ==
    /\ \/ pc[w] = "check" /\ ~ ready
       \/ pc[w] = "mint" /\ terms = NoTerm
       \/ pc[w] = "term" /\ ~ (terms = guard[w] /\ terms.mine)
       \/ pc[w] = "overlay" /\ retired
       \/ pc[w] = "base" /\ base # guard[w]
    /\ Leave(w)
    /\ UNCHANGED <<durable, maps, ready, handler, crashes>>

\* The guard goes on to the next validation, or the store commits.
Accepted(w) ==
    /\ pc[w] = "accepted"
    /\ \/ /\ stage[w] # "commit"
          /\ stage' = [stage EXCEPT ![w] = IF @ = "issue" THEN "begin" ELSE "commit"]
          /\ Step(w, "check")
          /\ UNCHANGED <<guard, since, whole>>
       \/ stage[w] = "commit" /\ Leave(w)
    /\ UNCHANGED <<durable, maps, ready, handler, crashes>>

\* The node dies and comes up again: boot rebuilds from an installed snapshot.
Restart ==
    /\ crashes < MaxCrashes
    /\ crashes' = crashes + 1
    /\ terms' = NoTerm /\ base' = NoTerm /\ retired' = FALSE /\ ready' = FALSE
    /\ hpc' = IF store = NoTerm THEN "idle" ELSE "close"
    /\ draft' = NoTerm /\ recovering' = FALSE
    /\ pc' = [w \in Writer |-> "idle"]
    /\ stage' = [w \in Writer |-> "issue"]
    /\ guard' = [w \in Writer |-> NoTerm]
    /\ since' = [w \in Writer |-> 0]
    /\ whole' = [w \in Writer |-> FALSE]
    /\ UNCHANGED durable

-----------------------------------------------------------------------------

Handle ==
    \/ \E g \in Term : Replicate(g)
    \/ Install \/ OwnerCommit \/ PrepareHandoff \/ RetireLocal
    \/ CloseLatch \/ WriteTerms \/ WriteBases \/ WriteOverlays \/ OpenLatch

Write(w) ==
    \/ Issue(w) \/ Mint(w) \/ CheckReady(w) \/ CheckTerm(w) \/ CheckLocal(w)
    \/ Refused(w) \/ Accepted(w)

Next ==
    \/ Handle
    \/ \E startup \in BOOLEAN : FenceRecovery(startup)
    \/ Reopen
    \/ \E w \in Writer : Write(w)
    \/ Restart

Spec == Init /\ [][Next]_vars

-----------------------------------------------------------------------------
(* Properties                                                              *)

\* validate reads four things at four instants.  When it accepts a guard, all
\* of them spoke for the guard at one and the same instant of the validation:
\* the term was current, the base state was of that term and nothing retired
\* the scope.  The overlay is read before the base state, rebuild writes them
\* the other way round.
AcceptedWasWhole ==
    \A w \in Writer : pc[w] = "accepted" => whole[w]

\* The latch is closed before a snapshot is installed, so a validation that
\* begins when a newer term is already durable never accepts an older guard.
RefusesOldCache ==
    \A w \in Writer : pc[w] = "accepted" => guard[w].epoch >= since[w]

\* An open registry shows the installed term in both maps, and a durable
\* retirement that was acknowledged, also after a restart between the two.
OpenIsCurrent ==
    ready => /\ terms = store /\ base = store
             /\ (overlay > 0 /\ hpc # "retire") => retired

\* What the readiness latch says of itself: an unresolved recovery keeps
\* normal writes out.
RecoveryFences == recovering => ~ ready
=============================================================================
