-------------------------- MODULE IdempotencyCache --------------------------
(***************************************************************************)
(* The process-local deduplication cache in front of every control RPC     *)
(* (crates/sentinel-cluster-control/src/idempotency.rs, used by            *)
(* server.rs serve_request).  A request arrives with a key (the            *)
(* authenticated peer, the method and the operator's idempotency key, one  *)
(* value here) and the digest of its payload.  get_or_compute has two      *)
(* parts with an unlock between them: the map is searched under a mutex,   *)
(* which yields a once-cell; the handler then runs inside the cell's       *)
(* get_or_init, outside the mutex, where concurrent callers of the cell    *)
(* wait for the one that runs.                                             *)
(*                                                                         *)
(* Simplifications: a cell is named by a model value and never reused (an  *)
(* Arc allocation); a response is the digest it was computed for; time is  *)
(* a counter of ticks.                                                     *)
(***************************************************************************)
EXTENDS Naturals, FiniteSets

CONSTANTS
    Key,        \* IdempotencyScope values: peer, method, operator key
    Digest,     \* digests of request payloads
    Caller,     \* concurrent serve_request tasks
    Cell,       \* identities of once-cells
    Ttl,        \* ticks a completed entry is served for
    Capacity,   \* most entries the map may hold
    MaxClock,   \* bound: ticks a run may take
    None        \* no entry, no cell, no digest

Request == [key : Key, digest : Digest]

Entry == [digest : Digest, at : Nat, cell : Cell]

ASSUME CacheAssumption ==
    /\ Ttl \in Nat
    /\ Capacity \in Nat \ {0}
    /\ MaxClock \in Nat
    /\ None \notin Cell \cup Digest
    /\ None \notin Request \cup Entry
    /\ IsFiniteSet(Key)

VARIABLES
    clock,      \* Instant::now()
    entries,    \* the map: key |-> entry or None
    cellState,  \* the once-cells: unused, empty, running or done
    cellValue,  \* the response a done cell holds
    pc,         \* where each caller is
    req,        \* the request each caller carries
    cell,       \* the cell each caller took out of the map
    outcome     \* what the caller's last call returned

vars == <<clock, entries, cellState, cellValue, pc, req, cell, outcome>>

Outcomes == {"none", "response", "conflict", "exhausted", "panic"}

TypeOK ==
    /\ clock \in Nat
    /\ entries \in [Key -> Entry \cup {None}]
    /\ cellState \in [Cell -> {"unused", "empty", "running", "done"}]
    /\ cellValue \in [Cell -> Digest \cup {None}]
    /\ pc \in [Caller -> {"idle", "init", "running"}]
    /\ req \in [Caller -> Request \cup {None}]
    /\ cell \in [Caller -> Cell \cup {None}]
    /\ outcome \in [Caller -> Outcomes]

Init ==
    /\ clock = 0
    /\ entries = [k \in Key |-> None]
    /\ cellState = [x \in Cell |-> "unused"]
    /\ cellValue = [x \in Cell |-> None]
    /\ pc = [c \in Caller |-> "idle"]
    /\ req = [c \in Caller |-> None]
    /\ cell = [c \in Caller |-> None]
    /\ outcome = [c \in Caller |-> "none"]

-----------------------------------------------------------------------------
(* The first half of get_or_compute: under the map's mutex.                *)

Completed(e) == cellState[e.cell] = "done"

\* Mutant: age alone decides, so a request still in flight can be purged.
RetainedByAge ==
    [k \in Key |->
        IF entries[k] # None /\ clock - entries[k].at >= Ttl THEN None ELSE entries[k]]

\* The retain at the head of the critical section: an entry goes when its
\* response is there and its age has reached the TTL.
Retained ==
    [k \in Key |->
        IF entries[k] # None /\ Completed(entries[k]) /\ clock - entries[k].at >= Ttl
        THEN None ELSE entries[k]]

Keys(m) == {k \in Key : m[k] # None}

\* The completed entries inserted first: what a full map gives up.
OldestCompleted(m) ==
    LET done == {k \in Keys(m) : Completed(m[k])}
    IN  {k \in done : \A j \in done : m[k].at <= m[j].at}

\* The key is bound to another payload.
LookupConflict(c, k, d) ==
    /\ pc[c] = "idle"
    /\ Retained[k] # None
    /\ Retained[k].digest # d
    /\ entries' = Retained
    /\ req' = [req EXCEPT ![c] = [key |-> k, digest |-> d]]
    /\ outcome' = [outcome EXCEPT ![c] = "conflict"]
    /\ UNCHANGED <<clock, cellState, cellValue, pc, cell>>

\* Mutant: the payload digest is not compared.
LookupHitAnyDigest(c, k, d) ==
    /\ pc[c] = "idle"
    /\ Retained[k] # None
    /\ entries' = Retained
    /\ req' = [req EXCEPT ![c] = [key |-> k, digest |-> d]]
    /\ cell' = [cell EXCEPT ![c] = Retained[k].cell]
    /\ pc' = [pc EXCEPT ![c] = "init"]
    /\ outcome' = [outcome EXCEPT ![c] = "none"]
    /\ UNCHANGED <<clock, cellState, cellValue>>

\* The key is bound to this payload: share its cell.
LookupHit(c, k, d) ==
    /\ pc[c] = "idle"
    /\ Retained[k] # None
    /\ Retained[k].digest = d
    /\ entries' = Retained
    /\ req' = [req EXCEPT ![c] = [key |-> k, digest |-> d]]
    /\ cell' = [cell EXCEPT ![c] = Retained[k].cell]
    /\ pc' = [pc EXCEPT ![c] = "init"]
    /\ outcome' = [outcome EXCEPT ![c] = "none"]
    /\ UNCHANGED <<clock, cellState, cellValue>>

\* Mutant: the capacity test is off by one.
VictimsOffByOne(m) ==
    IF Cardinality(Keys(m)) <= Capacity THEN {{}} ELSE {{k} : k \in OldestCompleted(m)}

\* The keys that may be given up to make room for one more.
Victims(m) ==
    IF Cardinality(Keys(m)) < Capacity THEN {{}} ELSE {{k} : k \in OldestCompleted(m)}

\* The key is unknown: insert a fresh cell, evicting a completed entry if full.
LookupInsert(c, k, d) ==
    /\ pc[c] = "idle"
    /\ Retained[k] = None
    /\ \E victim \in Victims(Retained), x \in Cell :
        /\ cellState[x] = "unused"
        /\ entries' = [j \in Key |->
                         IF j = k THEN [digest |-> d, at |-> clock, cell |-> x]
                         ELSE IF j \in victim THEN None ELSE Retained[j]]
        /\ cellState' = [cellState EXCEPT ![x] = "empty"]
        /\ cell' = [cell EXCEPT ![c] = x]
    /\ req' = [req EXCEPT ![c] = [key |-> k, digest |-> d]]
    /\ pc' = [pc EXCEPT ![c] = "init"]
    /\ outcome' = [outcome EXCEPT ![c] = "none"]
    /\ UNCHANGED <<clock, cellValue>>

\* The map is full of requests whose handlers have not finished.
LookupExhausted(c, k, d) ==
    /\ pc[c] = "idle"
    /\ Retained[k] = None
    /\ Victims(Retained) = {}
    /\ entries' = Retained
    /\ req' = [req EXCEPT ![c] = [key |-> k, digest |-> d]]
    /\ outcome' = [outcome EXCEPT ![c] = "exhausted"]
    /\ UNCHANGED <<clock, cellState, cellValue, pc, cell>>

-----------------------------------------------------------------------------
(* The second half: get_or_init on the cell, outside the mutex.            *)

\* The cell is empty and no other caller runs in it: run the handler.
RunHandler(c) ==
    /\ pc[c] = "init"
    /\ cellState[cell[c]] = "empty"
    /\ cellState' = [cellState EXCEPT ![cell[c]] = "running"]
    /\ pc' = [pc EXCEPT ![c] = "running"]
    /\ UNCHANGED <<clock, entries, cellValue, req, cell, outcome>>

\* The handler returned: the cell holds the response for good.
FinishHandler(c) ==
    /\ pc[c] = "running"
    /\ cellState' = [cellState EXCEPT ![cell[c]] = "done"]
    /\ cellValue' = [cellValue EXCEPT ![cell[c]] = req[c].digest]
    /\ pc' = [pc EXCEPT ![c] = "idle"]
    /\ outcome' = [outcome EXCEPT ![c] = "response"]
    /\ UNCHANGED <<clock, entries, req, cell>>

\* Mutant: a panic leaves the cell locked.
PanicHandlerKeepsCell(c) ==
    /\ pc[c] = "running"
    /\ pc' = [pc EXCEPT ![c] = "idle"]
    /\ outcome' = [outcome EXCEPT ![c] = "panic"]
    /\ UNCHANGED <<clock, entries, cellState, cellValue, req, cell>>

\* The handler panicked: the cell is empty again and the next caller of the
\* cell runs its own handler.
PanicHandler(c) ==
    /\ pc[c] = "running"
    /\ cellState' = [cellState EXCEPT ![cell[c]] = "empty"]
    /\ pc' = [pc EXCEPT ![c] = "idle"]
    /\ outcome' = [outcome EXCEPT ![c] = "panic"]
    /\ UNCHANGED <<clock, entries, cellValue, req, cell>>

\* Another caller finished the cell first: take its response.
TakeResponse(c) ==
    /\ pc[c] = "init"
    /\ cellState[cell[c]] = "done"
    /\ pc' = [pc EXCEPT ![c] = "idle"]
    /\ outcome' = [outcome EXCEPT ![c] = "response"]
    /\ UNCHANGED <<clock, entries, cellState, cellValue, req, cell>>

Tick ==
    /\ clock < MaxClock
    /\ clock' = clock + 1
    /\ UNCHANGED <<entries, cellState, cellValue, pc, req, cell, outcome>>

Lookup(c, k, d) ==
    \/ LookupConflict(c, k, d)
    \/ LookupHit(c, k, d)
    \/ LookupInsert(c, k, d)
    \/ LookupExhausted(c, k, d)

Resolve(c) == RunHandler(c) \/ FinishHandler(c) \/ TakeResponse(c)

Next ==
    \/ \E c \in Caller, k \in Key, d \in Digest : Lookup(c, k, d)
    \/ \E c \in Caller : Resolve(c) \/ PanicHandler(c)
    \/ Tick

Spec == Init /\ [][Next]_vars

\* Every handler is synchronous code that returns or panics, and a waiter on a
\* once-cell is woken when the cell is filled or left empty.
Fairness == \A c \in Caller : WF_vars(Resolve(c))

FairSpec == Spec /\ Fairness

-----------------------------------------------------------------------------
(* Properties                                                              *)

\* Two handlers never run at once for one key: until the handler of a key has
\* finished, every other caller of that key shares its cell, whatever the
\* TTL purge and the eviction do to the map in the meantime.
SingleFlight ==
    \A c, d \in Caller :
        (pc[c] = "running" /\ pc[d] = "running" /\ req[c].key = req[d].key) => c = d

\* A caller is answered with a response that was computed for its own payload,
\* also when another caller's handler filled the cell, or refilled it after a
\* panic ("reusing the operator key with another payload is a conflict, never
\* a cache hit").
OwnResponse ==
    \A c \in Caller :
        (pc[c] = "idle" /\ outcome[c] = "response") => cellValue[cell[c]] = req[c].digest

\* The map never outgrows its capacity, neither by keys in flight, which
\* cannot be evicted, nor by completed ones.
WithinCapacity == Cardinality(Keys(entries)) <= Capacity

\* Every call returns: a caller parked on a cell is answered even when the
\* caller that was running the handler panics, provided that handlers do not
\* go on panicking for ever (the once-cell promises its waiters no order).
PanicsStop == <>[][\A c \in Caller : ~PanicHandler(c)]_vars

CallsReturn == PanicsStop => \A c \in Caller : (pc[c] # "idle") ~> (pc[c] = "idle")
=============================================================================
