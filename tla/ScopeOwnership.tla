--------------------------- MODULE ScopeOwnership ---------------------------
(***************************************************************************)
(* What the ownership protocol promises, without nodes failing, messages   *)
(* or stores: every scope has one authoritative term, only the owner of    *)
(* that term may write the scope, and the term moves on only while nobody  *)
(* can write the scope at all.                                             *)
(***************************************************************************)
EXTENDS Naturals

CONSTANTS Node, Scope

VARIABLES
    term,       \* the authoritative term of each scope; epoch 0: not yet known
    writers     \* the nodes that can write each scope

Init ==
    /\ term \in [Scope -> [owner : Node, epoch : {0}]]
    /\ writers = [s \in Scope |-> {}]

\* The right to write is taken away, or given (back) to the owner.
Switch(s) ==
    /\ term'[s] = term[s]
    /\ term[s].epoch = 0 => writers'[s] = {}
    /\ writers'[s] \subseteq {term[s].owner}

\* The scope gets its next term, and its new owner may start at once.
Advance(s) ==
    /\ writers[s] = {}
    /\ term'[s].epoch = term[s].epoch + 1
    /\ writers'[s] \subseteq {term'[s].owner}

Next ==
    /\ term' \in [Scope -> [owner : Node, epoch : Nat]]
    /\ writers' \in [Scope -> SUBSET Node]
    /\ \A s \in Scope : Switch(s) \/ Advance(s)

Spec == Init /\ [][Next]_<<term, writers>>
=============================================================================
