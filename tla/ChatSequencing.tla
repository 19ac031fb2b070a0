--------------------------- MODULE ChatSequencing ---------------------------
(***************************************************************************)
(* Chat sequencing in the gateway (cmd/cortex-gateway/internal/sequencing/ *)
(* queue.go, used by interceptInboundRequest and ServeHTTP in              *)
(* proxy/pipeline.go).  A P1 request (an agent that is addressed directly) *)
(* marks itself active in its room and completes with what the agent said; *)
(* a P3 request (a listener) that finds an active P1 waits for the oldest  *)
(* one, and is sent on with what that agent said, or without it when its   *)
(* timer fires.                                                            *)
(*                                                                         *)
(* Every critical section of Sequencer.mu is one action; a listener takes  *)
(* the lock twice, in HasActiveP1 and in WaitForP1.  The timer is a step   *)
(* that may happen at any time while the listener waits.                   *)
(*                                                                         *)
(* Simplifications: what a P1 says is named by the P1, and may be empty    *)
(* ("silent").  A request is used once.  A P1 whose metadata spells the    *)
(* flag other than "true" is marked by interceptInboundRequest, which      *)
(* folds case and trims, and not completed by ServeHTTP, which does not.   *)
(***************************************************************************)
EXTENDS Integers, Sequences

CONSTANTS
    Room,
    P1,         \* directly addressed requests
    P3,         \* listening requests
    RoomOf,     \* the room of each request
    Exact,      \* the P1 requests that spell is_directly_addressed as "true"
    None

ConstantsOK ==
    /\ RoomOf \in [P1 \cup P3 -> Room]
    /\ Exact \subseteq P1
    /\ None \notin P1
    /\ P1 \cap P3 = {}

VARIABLES
    rooms,      \* the map: room |-> active P1 requests, oldest first
    done,       \* P1 requests whose p1Done channel is closed
    content,    \* the P1 requests that said something
    pc,         \* where each request is
    watches,    \* the P1 each listener waits for
    heard,      \* the P1 whose words each listener was sent on with
    timedOut    \* history: listeners whose timer fired

vars == <<rooms, done, content, pc, watches, heard, timedOut>>

TypeOK ==
    /\ rooms \in [Room -> Seq(P1)]
    /\ done \subseteq P1
    /\ content \subseteq done
    /\ pc \in [P1 \cup P3 -> {"start", "checked", "waiting", "sending", "end"}]
    /\ watches \in [P3 -> P1 \cup {None}]
    /\ heard \in [P3 -> P1 \cup {None}]
    /\ timedOut \subseteq P3

Init ==
    /\ rooms = [m \in Room |-> <<>>]
    /\ done = {} /\ content = {}
    /\ pc = [x \in P1 \cup P3 |-> "start"]
    /\ watches = [x \in P3 |-> None]
    /\ heard = [x \in P3 |-> None]
    /\ timedOut = {}

Goto(x, label) == pc' = [pc EXCEPT ![x] = label]

Active(p) == \E i \in DOMAIN rooms[RoomOf[p]] : rooms[RoomOf[p]][i] = p

-----------------------------------------------------------------------------
(* A directly addressed request                                            *)

MarkP1Active(p) ==
    /\ pc[p] = "start"
    /\ rooms' = [rooms EXCEPT ![RoomOf[p]] = Append(@, p)]
    /\ Goto(p, "sending")
    /\ UNCHANGED <<done, content, watches, heard, timedOut>>

\* append(q[:i], q[i+1:]...), where i is the place of x in q.
Without(q, x) ==
    LET i == CHOOSE k \in DOMAIN q : q[k] = x
    IN  SubSeq(q, 1, i - 1) \o SubSeq(q, i + 1, Len(q))

\* The provider answered and every check passed.  CompleteP1 finds the request
\* among the active ones, stores its content, closes its channel, removes it.
CompleteP1(p, says) ==
    /\ pc[p] = "sending"
    /\ p \in Exact
    /\ done' = done \cup {p}
    /\ content' = IF says THEN content \cup {p} ELSE content
    /\ rooms' = [rooms EXCEPT ![RoomOf[p]] = Without(@, p)]
    /\ Goto(p, "end")
    /\ UNCHANGED <<watches, heard, timedOut>>

\* ServeHTTP returns without CompleteP1: the model policy rejects it, the
\* provider fails, the answer is stale or dropped, or the spelling differs.
ReturnsIncomplete(p) ==
    /\ pc[p] = "sending"
    /\ Goto(p, "end")
    /\ UNCHANGED <<rooms, done, content, watches, heard, timedOut>>

-----------------------------------------------------------------------------
(* A listening request                                                     *)

\* HasActiveP1 says no: sent on at once.
NoActiveP1(x) ==
    /\ pc[x] = "start"
    /\ rooms[RoomOf[x]] = <<>>
    /\ Goto(x, "sending")
    /\ UNCHANGED <<rooms, done, content, watches, heard, timedOut>>

HasActiveP1(x) ==
    /\ pc[x] = "start"
    /\ rooms[RoomOf[x]] # <<>>
    /\ Goto(x, "checked")
    /\ UNCHANGED <<rooms, done, content, watches, heard, timedOut>>

\* WaitForP1 takes the oldest P1 that is active now.
WaitForP1(x) ==
    /\ pc[x] = "checked"
    /\ rooms[RoomOf[x]] # <<>>
    /\ watches' = [watches EXCEPT ![x] = Head(rooms[RoomOf[x]])]
    /\ Goto(x, "waiting")
    /\ UNCHANGED <<rooms, done, content, heard, timedOut>>

\* The last P1 has completed between HasActiveP1 and WaitForP1: sent on
\* without its words, as after a timeout.
WaitForNobody(x) ==
    /\ pc[x] = "checked"
    /\ rooms[RoomOf[x]] = <<>>
    /\ Goto(x, "sending")
    /\ UNCHANGED <<rooms, done, content, watches, heard, timedOut>>

\* Mutant: the listener is woken by any completion in its room.
ReleasedByAny(x) ==
    /\ pc[x] = "waiting"
    /\ \E p \in done : RoomOf[p] = RoomOf[x]
    /\ heard' = [heard EXCEPT ![x] = watches[x]]
    /\ Goto(x, "sending")
    /\ UNCHANGED <<rooms, done, content, watches, timedOut>>

\* The watched P1 has completed: its words are injected unless there are none.
Released(x) ==
    /\ pc[x] = "waiting"
    /\ watches[x] \in done
    /\ heard' = [heard EXCEPT ![x] = IF watches[x] \in content THEN watches[x] ELSE None]
    /\ Goto(x, "sending")
    /\ UNCHANGED <<rooms, done, content, watches, timedOut>>

\* Mutant: the timer is only honoured while the watched P1 is active.
TimesOutWhileActive(x) ==
    /\ pc[x] = "waiting"
    /\ Active(watches[x])
    /\ pc[watches[x]] # "end"
    /\ timedOut' = timedOut \cup {x}
    /\ Goto(x, "sending")
    /\ UNCHANGED <<rooms, done, content, watches, heard>>

TimesOut(x) ==
    /\ pc[x] = "waiting"
    /\ timedOut' = timedOut \cup {x}
    /\ Goto(x, "sending")
    /\ UNCHANGED <<rooms, done, content, watches, heard>>

\* The provider's answer to the listener plays no part here.
ListenerEnds(x) ==
    /\ pc[x] = "sending"
    /\ Goto(x, "end")
    /\ UNCHANGED <<rooms, done, content, watches, heard, timedOut>>

\* The periodic Cleanup deletes the rooms without an active P1.  CompleteP1
\* deletes such a room itself, so there is none.
Cleanup ==
    /\ rooms' = [m \in Room |-> IF rooms[m] = <<>> THEN <<>> ELSE rooms[m]]
    /\ UNCHANGED <<done, content, pc, watches, heard, timedOut>>

-----------------------------------------------------------------------------
StepP1(p) == ReturnsIncomplete(p) \/ \E says \in BOOLEAN : CompleteP1(p, says)

StepP3(x) ==
    \/ NoActiveP1(x) \/ HasActiveP1(x) \/ WaitForP1(x) \/ WaitForNobody(x)
    \/ Released(x) \/ TimesOut(x) \/ ListenerEnds(x)

Next ==
    \/ \E p \in P1 : MarkP1Active(p) \/ StepP1(p)
    \/ \E x \in P3 : StepP3(x)
    \/ Cleanup

Spec == Init /\ [][Next]_vars

\* Handlers run, provider calls end, timers fire, the cleanup ticker ticks.
Fairness ==
    /\ \A p \in P1 : WF_vars(StepP1(p))
    /\ \A x \in P3 : WF_vars(StepP3(x))
    /\ WF_vars(Cleanup)

LiveSpec == Spec /\ Fairness

-----------------------------------------------------------------------------
(* Properties                                                              *)

\* A listener is sent on with words that were really said, by the P1 of its
\* own room that it waited for, and only once that P1 has completed: with
\* several P1 requests in a room none is mistaken for another.
HearsWhatWasSaid ==
    \A x \in P3 : heard[x] # None =>
        /\ heard[x] = watches[x]
        /\ heard[x] \in content
        /\ RoomOf[heard[x]] = RoomOf[x]

\* Nobody waits for good: a listener is sent on whatever becomes of the P1 it
\* waits for, also when that P1 returned without completing.
ListenersLeave == \A x \in P3 : pc[x] = "waiting" ~> pc[x] = "end"

\* The comment on Sequencer: listeners "wait until P1 responds, then get P1's
\* response injected as context", and on WaitForP1 "timeout releases P3 without
\* context": a listener that found an active P1, all of whose P1 requests say
\* something, is sent on with context or by its timer.
ContextOrTimeout ==
    [][\A x \in P3 : pc[x] \in {"checked", "waiting"} /\ pc'[x] = "sending" =>
         \/ heard'[x] # None
         \/ x \in timedOut'
         \/ \E p \in done \ content : RoomOf[p] = RoomOf[x]]_vars

\* The comment on Cleanup: it "removes stale room states".  A P1 whose handler
\* has returned is stale and leaves its room in the end.
StaleIsRemoved == \A p \in P1 : pc[p] = "end" ~> ~ Active(p)
=============================================================================
