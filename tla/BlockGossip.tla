----------------------------- MODULE BlockGossip -----------------------------
(***************************************************************************)
(* Reading a block that is on another node.  Every node advertises the     *)
(* blobs on its disk to its peers, page by page and round after round      *)
(* (run_cas_gossip_republish); the receiver merges the pages into its      *)
(* block map.  A read that misses locally asks the BlockResolver, which    *)
(* lets one reader per block through a gate, asks the block map, and pulls *)
(* the block from the first peer that serves a good copy.                  *)
(*                                                                         *)
(* The module takes the view of one reading node: its disk, block map,     *)
(* resolver and reader threads, and the disks and gossip tasks of its      *)
(* peers.  Blocks and peers are numbered in the order the code walks them. *)
(*                                                                         *)
(* The daemon only ever sends Add advertisements, at incarnation 0 and     *)
(* without an expiry, so a slot of the block map that is there is present, *)
(* and whether a later Add replaces it is not seen by any reader: the map  *)
(* is the set of peers known for each block.                               *)
(***************************************************************************)
EXTENDS Integers, FiniteSets

CONSTANTS
    NBlocks,      \* number of blocks
    NPeers,       \* number of pinned peers of the reading node
    Reader,       \* reader threads of the reading node
    PageLimit,    \* advertisements per page
    MaxFaults     \* bound: disconnections, crashes and changes of disks

ConstantsOK == NBlocks \in Nat /\ NPeers \in Nat /\ PageLimit \in Nat \ {0}

Block == 1..NBlocks
Peer == 1..NPeers
Idle == -1        \* no round is under way
FromStart == 0    \* cursor None: the first page

VARIABLES
    held,      \* the blobs on each peer's disk
    damaged,   \* those of them that cannot be decoded
    up,        \* the peers that can be reached
    inv,       \* the inventory each peer's round works from
    cursor,    \* where its next page starts
    known,     \* block map of the reading node: the holders of each block
    local,     \* the blobs on the reading node's disk
    negative,  \* blocks whose last pull failed less than the TTL ago
    open,      \* blocks with a gate in the resolver's map of gates
    gateOf,    \* that gate
    pc, want, gate, at, ok,    \* the reader threads
    faults

peerVars == <<held, damaged, up, inv, cursor>>
gateVars == <<open, gateOf>>
readerVars == <<pc, want, gate, at, ok>>
vars == <<peerVars, known, local, negative, gateVars, readerVars, faults>>

Init ==
    /\ held \in [Peer -> SUBSET Block]
    /\ damaged = [p \in Peer |-> {}]
    /\ up = [p \in Peer |-> TRUE]
    /\ inv = [p \in Peer |-> {}]
    /\ cursor = [p \in Peer |-> Idle]
    /\ known = [b \in Block |-> {}]
    /\ local = {}
    /\ negative = {}
    /\ open = {}
    /\ gateOf = [b \in Block |-> 0]
    /\ pc = [r \in Reader |-> "idle"]
    /\ want = [r \in Reader |-> 1]
    /\ gate = [r \in Reader |-> 0]
    /\ at = [r \in Reader |-> 1]
    /\ ok = [r \in Reader |-> FALSE]
    /\ faults = 0

-----------------------------------------------------------------------------
(* The gossip task of a peer. *)

\* A round takes the inventory from the disk.  Listing decodes every blob to
\* learn its size, and fails as a whole when one cannot be decoded: the round
\* is then skipped, which changes nothing.
StartRound(p) ==
    /\ cursor[p] = Idle
    /\ damaged[p] = {}
    /\ inv' = [inv EXCEPT ![p] = held[p]]
    /\ cursor' = [cursor EXCEPT ![p] = IF held[p] = {} THEN Idle ELSE FromStart]
    /\ UNCHANGED <<held, damaged, up, known, local, negative, gateVars, readerVars, faults>>

\* Mutant: a cursor is taken for the last block of the page before.
RestExclusive(p) == {b \in inv[p] : b > cursor[p]}

\* A cursor is the first block of its page.
Rest(p) == {b \in inv[p] : b >= cursor[p]}

Page(p) == {b \in Rest(p) : Cardinality({x \in Rest(p) : x < b}) < PageLimit}

NextCursor(p) ==
    LET more == Rest(p) \ Page(p)
    IN  IF more = {} THEN Idle ELSE CHOOSE b \in more : \A x \in more : b <= x

\* The block map with a page merged into it, under its lock.
Merged(p, page) ==
    [b \in Block |-> IF b \in page THEN known[b] \cup {p} ELSE known[b]]

\* A page that cannot be delivered is given up.
BroadcastHolders(p) == known' = IF up[p] THEN Merged(p, Page(p)) ELSE known

\* One page goes to the reading node, and the round goes on in any case.
\* Nothing reads an inventory between rounds, and the model forgets it.
SendPage(p) ==
    /\ cursor[p] # Idle
    /\ BroadcastHolders(p)
    /\ cursor' = [cursor EXCEPT ![p] = NextCursor(p)]
    /\ inv' = [inv EXCEPT ![p] = IF NextCursor(p) = Idle THEN {} ELSE @]
    /\ UNCHANGED <<held, damaged, up, local, negative, gateVars, readerVars, faults>>

-----------------------------------------------------------------------------
(* A read on the reading node: CasStore::read, ensure_blob, guarded. *)

Goto(r, l) == pc' = [pc EXCEPT ![r] = l]

\* The read returns, and its locals are gone.
End(r) ==
    /\ Goto(r, "idle")
    /\ want' = [want EXCEPT ![r] = 1]
    /\ at' = [at EXCEPT ![r] = 1]
    /\ ok' = [ok EXCEPT ![r] = FALSE]

\* A reader looks for the block on its own disk.
Read(r, b) ==
    /\ pc[r] = "idle"
    /\ b \notin local
    /\ want' = [want EXCEPT ![r] = b]
    /\ Goto(r, "missing")
    /\ UNCHANGED <<peerVars, known, local, negative, gateVars, gate, at, ok, faults>>

\* Readers that have a reference to their gate, and those that have locked it.
HasGate(r) == pc[r] \in {"gate", "locate", "pull", "finish", "release", "leave"}
HoldsLock(r) == pc[r] \in {"locate", "pull", "finish", "release"}

FreshGate(b) ==
    CHOOSE g \in 1..Cardinality(Reader) :
        \A s \in Reader : HasGate(s) /\ want[s] = b => gate[s] # g

\* The block has appeared meanwhile, or the reader takes the gate of its block
\* from the map of gates, or puts a new one there.
TakeGate(r) ==
    LET b == want[r]
        g == IF b \in open THEN gateOf[b] ELSE FreshGate(b)
    IN  /\ pc[r] = "missing"
        /\ \/ /\ b \in local
              /\ Goto(r, "retry")
              /\ UNCHANGED <<gateVars, gate>>
           \/ /\ b \notin local
              /\ open' = open \cup {b}
              /\ gateOf' = [gateOf EXCEPT ![b] = g]
              /\ gate' = [gate EXCEPT ![r] = g]
              /\ Goto(r, "gate")
        /\ UNCHANGED <<peerVars, known, local, negative, want, at, ok, faults>>

\* With the gate locked the reader looks again: the block may have been pulled
\* while it waited, and a recent failure is not tried again.
LockGate(r) ==
    LET b == want[r]
    IN  /\ pc[r] = "gate"
        /\ \A s \in Reader : HoldsLock(s) => <<want[s], gate[s]>> # <<b, gate[r]>>
        /\ ok' = [ok EXCEPT ![r] = b \in local]
        /\ Goto(r, IF b \in local \cup negative THEN "finish" ELSE "locate")
        /\ UNCHANGED <<peerVars, known, local, negative, gateVars, want, gate, at, faults>>

\* The pull is over: its failure is remembered, its success forgets an earlier one.
PullEnds(r, success) ==
    /\ ok' = [ok EXCEPT ![r] = success]
    /\ negative' = IF success THEN negative \ {want[r]} ELSE negative \cup {want[r]}
    /\ Goto(r, "finish")

\* Without a known holder nothing is asked; the block may be there by now.
Locate(r) ==
    LET b == want[r]
    IN  /\ pc[r] = "locate"
        /\ \/ /\ known[b] = {} \/ b \in local
              /\ PullEnds(r, known[b] # {} /\ b \in local)
              /\ UNCHANGED at
           \/ /\ known[b] # {} /\ b \notin local
              /\ at' = [at EXCEPT ![r] = 1]
              /\ Goto(r, "pull")
              /\ UNCHANGED <<negative, ok>>
        /\ UNCHANGED <<peerVars, known, local, gateVars, want, gate, faults>>

\* Peers are asked in turn, whether the map names them or not.  One that cannot
\* be reached, does not hold the block or sends a damaged copy is passed over.
Serves(p, b) == up[p] /\ b \in held[p] \ damaged[p]

TryPeer(r) ==
    LET b == want[r]
    IN  /\ pc[r] = "pull"
        /\ \/ /\ Serves(at[r], b)
              /\ local' = local \cup {b}
              /\ PullEnds(r, TRUE)
              /\ UNCHANGED at
           \/ /\ ~Serves(at[r], b)
              /\ at[r] < NPeers
              /\ at' = [at EXCEPT ![r] = @ + 1]
              /\ UNCHANGED <<local, negative, pc, ok>>
           \/ /\ ~Serves(at[r], b)
              /\ at[r] = NPeers
              /\ PullEnds(r, FALSE)
              /\ UNCHANGED <<local, at>>
        /\ UNCHANGED <<peerVars, known, gateVars, want, gate, faults>>

\* Mutant: the gate leaves the map, whoever waits on it.
FinishAlways(r) ==
    /\ pc[r] = "finish"
    /\ open' = open \ {want[r]}
    /\ gateOf' = [gateOf EXCEPT ![want[r]] = 0]
    /\ Goto(r, "release")
    /\ UNCHANGED <<peerVars, known, local, negative, want, gate, at, ok, faults>>

\* The gate leaves the map unless another reader refers to it.
Finish(r) ==
    LET b == want[r]
        shared == \E s \in Reader \ {r} :
                      HasGate(s) /\ want[s] = b /\ gate[s] = gateOf[b]
    IN  /\ pc[r] = "finish"
        /\ \/ shared /\ UNCHANGED gateVars
           \/ /\ ~shared
              /\ open' = open \ {b}
              /\ gateOf' = [gateOf EXCEPT ![b] = 0]
        /\ Goto(r, "release")
        /\ UNCHANGED <<peerVars, known, local, negative, want, gate, at, ok, faults>>

\* The lock is dropped first, the reference to the gate after it.
Release(r) ==
    /\ pc[r] = "release"
    /\ Goto(r, "leave")
    /\ UNCHANGED <<peerVars, known, local, negative, gateVars, want, gate, at, ok, faults>>

Leave(r) ==
    /\ pc[r] = "leave"
    /\ gate' = [gate EXCEPT ![r] = 0]
    /\ Goto(r, IF ok[r] THEN "retry" ELSE "failed")
    /\ UNCHANGED <<peerVars, known, local, negative, gateVars, want, at, ok, faults>>

\* The read is repeated once, and returns the block or an error.
Retry(r) ==
    /\ pc[r] = "retry"
    /\ \/ want[r] \in local /\ End(r)
       \/ want[r] \notin local /\ Goto(r, "failed") /\ UNCHANGED <<want, at, ok>>
    /\ UNCHANGED <<peerVars, known, local, negative, gateVars, gate, faults>>

Return(r) ==
    /\ pc[r] = "failed"
    /\ End(r)
    /\ UNCHANGED <<peerVars, known, local, negative, gateVars, gate, faults>>

\* The TTL of a failure has passed.
NegativeExpires(b) ==
    /\ b \in negative
    /\ negative' = negative \ {b}
    /\ UNCHANGED <<peerVars, known, local, gateVars, readerVars, faults>>

\* A write on the reading node stores the block.
StoreLocal(b) ==
    /\ b \notin local
    /\ local' = local \cup {b}
    /\ UNCHANGED <<peerVars, known, negative, gateVars, readerVars, faults>>

-----------------------------------------------------------------------------
(* Faults, and changes of the disks. *)

Fault == faults < MaxFaults /\ faults' = faults + 1

Disconnect(p) ==
    /\ Fault
    /\ up[p]
    /\ up' = [up EXCEPT ![p] = FALSE]
    /\ UNCHANGED <<held, damaged, inv, cursor, known, local, negative, gateVars, readerVars>>

\* The inventory is in memory.
Crash(p) ==
    /\ Fault
    /\ up[p]
    /\ up' = [up EXCEPT ![p] = FALSE]
    /\ inv' = [inv EXCEPT ![p] = {}]
    /\ cursor' = [cursor EXCEPT ![p] = Idle]
    /\ UNCHANGED <<held, damaged, known, local, negative, gateVars, readerVars>>

Reconnect(p) ==
    /\ ~up[p]
    /\ up' = [up EXCEPT ![p] = TRUE]
    /\ UNCHANGED <<held, damaged, inv, cursor, known, local, negative, gateVars, readerVars, faults>>

Store(p, b) ==
    /\ Fault
    /\ b \notin held[p]
    /\ held' = [held EXCEPT ![p] = @ \cup {b}]
    /\ UNCHANGED <<damaged, up, inv, cursor, known, local, negative, gateVars, readerVars>>

Unlink(p, b) ==
    /\ Fault
    /\ b \in held[p]
    /\ held' = [held EXCEPT ![p] = @ \ {b}]
    /\ damaged' = [damaged EXCEPT ![p] = @ \ {b}]
    /\ UNCHANGED <<up, inv, cursor, known, local, negative, gateVars, readerVars>>

\* A collection on the reading node; it does not ask which blocks were pulled
\* for a read that is under way.
UnlinkLocal(b) ==
    /\ Fault
    /\ b \in local
    /\ local' = local \ {b}
    /\ UNCHANGED <<peerVars, known, negative, gateVars, readerVars>>

Damage(p, b) ==
    /\ Fault
    /\ b \in held[p] \ damaged[p]
    /\ damaged' = [damaged EXCEPT ![p] = @ \cup {b}]
    /\ UNCHANGED <<held, up, inv, cursor, known, local, negative, gateVars, readerVars>>

\* The reading node restarts: block map, resolver and readers are in memory.
Restart ==
    /\ Fault
    /\ known' = [b \in Block |-> {}]
    /\ negative' = {}
    /\ open' = {}
    /\ gateOf' = [b \in Block |-> 0]
    /\ pc' = [r \in Reader |-> "idle"]
    /\ want' = [r \in Reader |-> 1]
    /\ gate' = [r \in Reader |-> 0]
    /\ at' = [r \in Reader |-> 1]
    /\ ok' = [r \in Reader |-> FALSE]
    /\ UNCHANGED <<peerVars, local>>

-----------------------------------------------------------------------------

ReaderStep(r) ==
    \/ TakeGate(r) \/ LockGate(r) \/ Locate(r) \/ TryPeer(r)
    \/ Finish(r) \/ Release(r) \/ Leave(r) \/ Retry(r) \/ Return(r)

Next ==
    \/ \E p \in Peer :
         \/ StartRound(p) \/ SendPage(p)
         \/ Disconnect(p) \/ Crash(p) \/ Reconnect(p)
         \/ \E b \in Block : Store(p, b) \/ Unlink(p, b) \/ Damage(p, b)
    \/ \E r \in Reader : ReaderStep(r) \/ \E b \in Block : Read(r, b)
    \/ \E b \in Block : NegativeExpires(b) \/ StoreLocal(b) \/ UnlinkLocal(b)
    \/ Restart

\* The republish interval fires and its pages are sent, threads that can run
\* do, and time passes.  Nothing makes anybody read, and no mutex is fair.
Fairness ==
    /\ \A p \in Peer : WF_vars(StartRound(p)) /\ WF_vars(SendPage(p))
    /\ \A r \in Reader : WF_vars(ReaderStep(r))
    /\ \A b \in Block : WF_vars(NegativeExpires(b))

Spec == Init /\ [][Next]_vars /\ Fairness

-----------------------------------------------------------------------------

\* At most one reader of a block is pulling it, however reads, failures and
\* returns interleave with the removal of the gate from the map.
OnePull ==
    \A r, s \in Reader :
        /\ pc[r] \in {"locate", "pull"}
        /\ pc[s] \in {"locate", "pull"}
        /\ want[r] = want[s]
        => r = s

\* Once some peer that can be reached, and whose disk is sound, holds a block
\* for good, reads of the block end up never failing: the rounds of gossip
\* bring its name through every page, restart and lost message, and no reader
\* is held off for ever by an earlier failure or by another peer's bad copy.
Offers(p, b) == up[p] /\ b \in held[p] /\ damaged[p] = {}
Fails(b) == \E r \in Reader : pc[r] = "failed" /\ want[r] = b

ReadsServed ==
    \A b \in Block : (\E p \in Peer : <>[]Offers(p, b)) => <>[]~Fails(b)
=============================================================================
