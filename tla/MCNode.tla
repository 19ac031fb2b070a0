------------------------------- MODULE MCNode -------------------------------
(***************************************************************************)
(* The control server of one node, for model checking: the requests it     *)
(* answers from its idempotency cache (IdempotencyCache), the registry     *)
(* that the handlers of those requests change beside fenced writes         *)
(* (FencedWrite), and the block map that gossip fills and reads consult    *)
(* (BlockGossip).  They share no state: in each behaviour one of them      *)
(* moves, and their states add up instead of multiplying.                  *)
(***************************************************************************)
EXTENDS FencedWrite

CONSTANTS
    Key, Digest, Caller, Cell, Ttl, Capacity, MaxClock, None,
    NBlocks, NPeers, Reader, PageLimit, MaxFaults

VARIABLES
    part,
    clock, entries, cellState, cellValue, callPc, req, cell, outcome,
    held, damaged, up, inv, cursor, known, local, negative,
    open, gateOf, readPc, want, gate, at, ok, faults

Cache == INSTANCE IdempotencyCache WITH pc <- callPc

Blocks == INSTANCE BlockGossip WITH pc <- readPc

ASSUME BlocksAssumption == Blocks!ConstantsOK

cacheVars == <<clock, entries, cellState, cellValue, callPc, req, cell, outcome>>
blockVars == <<held, damaged, up, inv, cursor, known, local, negative,
               open, gateOf, readPc, want, gate, at, ok, faults>>
nodeVars == <<part, vars, cacheVars, blockVars>>

NodeInit ==
    /\ Init /\ Cache!Init /\ Blocks!Init
    /\ \/ part \in {"fence", "cache"} /\ \A p \in 1..NPeers : held[p] = {}
       \/ part = "blocks"

NodeNext ==
    \/ part = "fence" /\ Next /\ UNCHANGED <<part, cacheVars, blockVars>>
    \/ part = "cache" /\ Cache!Next /\ UNCHANGED <<part, vars, blockVars>>
    \/ part = "blocks" /\ Blocks!Next /\ UNCHANGED <<part, vars, cacheVars>>

NodeSpec ==
    /\ NodeInit /\ [][NodeNext]_nodeVars
    /\ \/ part = "fence"
       \/ part = "cache" /\ Cache!Fairness
       \/ part = "blocks" /\ Blocks!Fairness

-----------------------------------------------------------------------------

\* Every call of the control server returns: a caller parked on a cell is
\* answered even when the handler that was to fill it panics, provided that
\* handlers do not go on panicking for ever.
CallsReturn == Cache!CallsReturn

\* Reads of a block that some reachable peer with a sound disk holds for good
\* end up never failing, whatever was lost, restarted or refused before, on
\* whichever page the block is advertised (run_cas_gossip_republish, guarded).
ReadsServed == Blocks!ReadsServed
=============================================================================
