------------------------ MODULE MCIdempotencyCache ------------------------
(***************************************************************************)
(* Two places where one caller works for all that ask for the same thing,  *)
(* for model checking: the cell of a request in the idempotency cache, and *)
(* the gate of a block in the resolver (BlockGossip).  They share no       *)
(* state: in each behaviour one of them moves, and their states add up     *)
(* instead of multiplying.                                                 *)
(***************************************************************************)
EXTENDS IdempotencyCache, TLC

CONSTANTS
    NBlocks, NPeers, Reader, PageLimit, MaxFaults

VARIABLES
    part,
    held, damaged, up, inv, cursor, known, local, negative,
    open, gateOf, readPc, want, gate, at, ok, faults

Blocks == INSTANCE BlockGossip WITH pc <- readPc

ASSUME BlocksAssumption == Blocks!ConstantsOK

blockVars == <<held, damaged, up, inv, cursor, known, local, negative,
               open, gateOf, readPc, want, gate, at, ok, faults>>
flightVars == <<part, vars, blockVars>>

FlightInit ==
    /\ part \in {"cache", "blocks"} /\ Init /\ Blocks!Init
    /\ part = "cache" => \A p \in 1..NPeers : held[p] = {}

FlightNext ==
    \/ part = "cache" /\ Next /\ UNCHANGED <<part, blockVars>>
    \/ part = "blocks" /\ Blocks!Next /\ UNCHANGED <<part, vars>>

FlightSpec == FlightInit /\ [][FlightNext]_flightVars

\* Keys, payloads, callers and cells are interchangeable.  Used by the safety
\* run only: liveness is checked without symmetry.
CacheSymmetry ==
    Permutations(Key) \cup Permutations(Digest) \cup Permutations(Caller)
        \cup Permutations(Cell)

-----------------------------------------------------------------------------

\* However many readers miss a block, one at a time pulls it: no order of
\* failures and returns lets a second one through while the first is pulling
\* (BlockResolver::guarded).
OnePull == Blocks!OnePull
=============================================================================
