---------------------------- MODULE ForwardQueue ----------------------------
(***************************************************************************)
(* The gateway's forward queue (cmd/cortex-gateway/internal/forwardqueue/  *)
(* manager.go) and its only user, queuedProvider.Send (proxy/              *)
(* queued_provider.go).  A request takes one of maxConcurrent slots or     *)
(* waits in a FIFO queue; a slot that comes free is handed to the head of  *)
(* the queue; a waiter may give up, and the operator may change the limit  *)
(* at any time.                                                            *)
(*                                                                         *)
(* Every critical section of Manager.mu is one action.  What happens       *)
(* outside of it are steps of their own: SetMaxConcurrent closes the       *)
(* channels of the waiters it granted after it has unlocked, and Send      *)
(* checks its context and the provider's known error once more after it    *)
(* has its slot.                                                           *)
(*                                                                         *)
(* Simplifications: a waiter is named by its caller; a caller that has     *)
(* returned may come again with a new context, so requests are unbounded.  *)
(* SetMaxConcurrent turns a limit below one into one, so Limit holds       *)
(* positive numbers.                                                       *)
(***************************************************************************)
EXTENDS Integers, Sequences, FiniteSets

CONSTANTS
    Caller,     \* concurrent calls of queuedProvider.Send
    Limit       \* the values maxConcurrent is given

ASSUME QueueAssumption ==
    /\ IsFiniteSet(Caller)
    /\ Limit \subseteq Nat \ {0}

VARIABLES
    maxConcurrent,
    active,         \* slots taken
    queue,          \* the waiters, in order of arrival
    granted,        \* the waiters whose granted flag is set
    closed,         \* the waiters whose channel is closed
    ready,          \* granted by SetMaxConcurrent, channel not closed yet
    pc,             \* where each caller is in Send
    ctxDone,        \* callers whose context has ended
    knownError      \* the provider reports an error it already knows of

vars == <<maxConcurrent, active, queue, granted, closed, ready, pc, ctxDone, knownError>>

manager == <<maxConcurrent, active, queue, granted, closed, ready>>

TypeOK ==
    /\ maxConcurrent \in Limit
    /\ active \in Nat
    /\ queue \in Seq(Caller)
    /\ granted \subseteq Caller
    /\ closed \subseteq granted
    /\ ready = granted \ closed
    /\ pc \in [Caller -> {"idle", "acquire", "wait", "check", "send", "release"}]
    /\ ctxDone \subseteq Caller
    /\ knownError \in BOOLEAN

Init ==
    /\ maxConcurrent \in Limit
    /\ active = 0
    /\ queue = <<>>
    /\ granted = {}
    /\ closed = {}
    /\ ready = {}
    /\ pc = [c \in Caller |-> "idle"]
    /\ ctxDone = {}
    /\ knownError = FALSE

Goto(c, label) == pc' = [pc EXCEPT ![c] = label]

-----------------------------------------------------------------------------
(* Manager.Acquire                                                         *)

\* A free slot and nobody waiting.
AcquireFast(c) ==
    /\ pc[c] = "acquire"
    /\ active < maxConcurrent
    /\ queue = <<>>
    /\ active' = active + 1
    /\ Goto(c, "check")
    /\ UNCHANGED <<maxConcurrent, queue, granted, closed, ready, ctxDone, knownError>>

Enqueue(c) ==
    /\ pc[c] = "acquire"
    /\ ~ (active < maxConcurrent /\ queue = <<>>)
    /\ queue' = Append(queue, c)
    /\ Goto(c, "wait")
    /\ UNCHANGED <<maxConcurrent, active, granted, closed, ready, ctxDone, knownError>>

\* The select takes the closed channel.  The waiter is garbage afterwards.
Wake(c) ==
    /\ pc[c] = "wait"
    /\ c \in closed
    /\ granted' = granted \ {c}
    /\ closed' = closed \ {c}
    /\ Goto(c, "check")
    /\ UNCHANGED <<maxConcurrent, active, queue, ready, ctxDone, knownError>>

\* Mutant: a waiter whose context has ended gives up, granted or not.
CancelGrantedGivesUp(c) ==
    /\ pc[c] = "wait"
    /\ c \in ctxDone \cap granted
    /\ granted' = granted \ {c}
    /\ closed' = closed \ {c}
    /\ ready' = ready \ {c}
    /\ Goto(c, "idle")
    /\ ctxDone' = ctxDone \ {c}
    /\ UNCHANGED <<maxConcurrent, active, queue, knownError>>

\* The select takes ctx.Done, and under the lock the slot turns out to have
\* been granted: Acquire succeeds.
CancelGranted(c) ==
    /\ pc[c] = "wait"
    /\ c \in ctxDone \cap granted
    /\ granted' = granted \ {c}
    /\ closed' = closed \ {c}
    /\ ready' = ready \ {c}
    /\ Goto(c, "check")
    /\ UNCHANGED <<maxConcurrent, active, queue, ctxDone, knownError>>

\* append(q[:i], q[i+1:]...), where i is the place of x in q.
Without(q, x) ==
    LET i == CHOOSE k \in DOMAIN q : q[k] = x
    IN  SubSeq(q, 1, i - 1) \o SubSeq(q, i + 1, Len(q))

\* The select takes ctx.Done and the waiter is still in the queue.
CancelWaiting(c) ==
    /\ pc[c] = "wait"
    /\ c \in ctxDone \ granted
    /\ queue' = Without(queue, c)
    /\ Goto(c, "idle")
    /\ ctxDone' = ctxDone \ {c}
    /\ UNCHANGED <<maxConcurrent, active, granted, closed, ready, knownError>>

-----------------------------------------------------------------------------
(* Manager.release and Manager.SetMaxConcurrent                            *)

\* The deferred release: hand the slot to the head of the queue, or free it.
\* The limit is not looked at.
Release(c) ==
    /\ pc[c] = "release"
    /\ IF queue # <<>>
       THEN /\ granted' = granted \cup {Head(queue)}
            /\ closed' = closed \cup {Head(queue)}
            /\ queue' = Tail(queue)
            /\ UNCHANGED active
       ELSE /\ active' = IF active > 0 THEN active - 1 ELSE active
            /\ UNCHANGED <<queue, granted, closed>>
    /\ Goto(c, "idle")
    /\ ctxDone' = ctxDone \ {c}
    /\ UNCHANGED <<maxConcurrent, ready, knownError>>

\* How many waiters a new limit lets in.
Admitted(max) ==
    LET free == max - active
    IN  IF free <= 0 THEN 0 ELSE IF free < Len(queue) THEN free ELSE Len(queue)

\* Mutant: a raised limit lets nobody in; the waiters stay where they are.
SetMaxConcurrentLater(max) ==
    /\ maxConcurrent' = max
    /\ UNCHANGED <<active, queue, granted, closed, ready, pc, ctxDone, knownError>>

\* Mutant: the waiters are granted, their channels are never closed.
SetMaxConcurrentSilent(max) ==
    /\ maxConcurrent' = max
    /\ LET n == Admitted(max)
       IN  /\ active' = active + n
           /\ queue' = SubSeq(queue, n + 1, Len(queue))
           /\ granted' = granted \cup {queue[i] : i \in 1..n}
    /\ UNCHANGED <<closed, ready, pc, ctxDone, knownError>>

\* Everything SetMaxConcurrent does under the lock.
SetMaxConcurrent(max) ==
    /\ maxConcurrent' = max
    /\ LET n == Admitted(max)
           in == {queue[i] : i \in 1..n}
       IN  /\ active' = active + n
           /\ queue' = SubSeq(queue, n + 1, Len(queue))
           /\ granted' = granted \cup in
           /\ ready' = ready \cup in
    /\ UNCHANGED <<closed, pc, ctxDone, knownError>>

\* ... and what it does after the unlock, one channel at a time.  (A waiter that
\* took its grant by ctx.Done in the meantime is no longer in ready: its channel
\* is closed as well, which nobody sees.)
CloseReady(c) ==
    /\ c \in ready
    /\ ready' = ready \ {c}
    /\ closed' = closed \cup {c}
    /\ UNCHANGED <<maxConcurrent, active, queue, granted, pc, ctxDone, knownError>>

-----------------------------------------------------------------------------
(* queuedProvider.Send around it                                           *)

Enter(c) ==
    /\ pc[c] = "idle"
    /\ ~ knownError
    /\ Goto(c, "acquire")
    /\ UNCHANGED <<manager, ctxDone, knownError>>

\* After the grant: the context or the provider may have gone in between.
Refuse(c) ==
    /\ pc[c] = "check"
    /\ c \in ctxDone \/ knownError
    /\ Goto(c, "release")
    /\ UNCHANGED <<manager, ctxDone, knownError>>

Dispatch(c) ==
    /\ pc[c] = "check"
    /\ c \notin ctxDone
    /\ ~ knownError
    /\ Goto(c, "send")
    /\ UNCHANGED <<manager, ctxDone, knownError>>

\* The wrapped provider returns, with an answer or an error.
ProviderReturns(c) ==
    /\ pc[c] = "send"
    /\ Goto(c, "release")
    /\ UNCHANGED <<manager, ctxDone, knownError>>

\* The caller's context is cancelled or its deadline passes.
EndContext(c) ==
    /\ pc[c] # "idle"
    /\ c \notin ctxDone
    /\ ctxDone' = ctxDone \cup {c}
    /\ UNCHANGED <<manager, pc, knownError>>

\* The provider's cached status changes.
ProviderStatus ==
    /\ knownError' = ~ knownError
    /\ UNCHANGED <<manager, pc, ctxDone>>

-----------------------------------------------------------------------------
Step(c) ==
    \/ AcquireFast(c) \/ Enqueue(c) \/ Wake(c)
    \/ CancelGranted(c) \/ CancelWaiting(c)
    \/ Release(c) \/ Refuse(c) \/ Dispatch(c) \/ ProviderReturns(c)

Next ==
    \/ \E c \in Caller : Step(c) \/ CloseReady(c) \/ Enter(c) \/ EndContext(c)
    \/ \E max \in Limit : SetMaxConcurrent(max)
    \/ ProviderStatus

Spec == Init /\ [][Next]_vars

\* Goroutines that can run do; the provider's own timeout ends every call.
\* Nobody is obliged to come, to cancel or to change the limit.
Fairness == \A c \in Caller : WF_vars(Step(c)) /\ WF_vars(CloseReady(c))

LiveSpec == Spec /\ Fairness

-----------------------------------------------------------------------------
(* Properties                                                              *)

\* The callers that have a slot: past Acquire and not yet released, or
\* granted one that they have not noticed yet.
Holders == granted \cup {c \in Caller : pc[c] \in {"check", "send", "release"}}

\* No slot is lost and none is given twice: active counts the holders, through
\* every race of a grant with a cancellation (Acquire's re-check of granted,
\* release's hand-over, SetMaxConcurrent's late close).
SlotsAccounted == active = Cardinality(Holders)

\* Nobody waits while a slot is free: a waiting queue means that the limit is
\* reached, also after a cancellation and after a raised limit.
NoIdleSlot == queue # <<>> => active >= maxConcurrent

\* A queued caller is queued once, is not granted yet, and still waits: no grant
\* can go to a caller that has left.  And no waiter is forgotten: it is in the
\* queue or has its grant.
QueueIsLive ==
    /\ \A i, j \in DOMAIN queue : queue[i] = queue[j] => i = j
    /\ \A i \in DOMAIN queue : pc[queue[i]] = "wait" /\ queue[i] \notin granted
    /\ \A c \in granted : pc[c] = "wait"
    /\ \A c \in Caller : pc[c] = "wait" => c \in granted \/ \E i \in DOMAIN queue : queue[i] = c

\* The limit bounds every new grant: the number of slots grows only up to the
\* limit of that moment.  (It need not fall to a lowered limit: release hands
\* its slot on without looking at it.)
GrowsWithinLimit == [][active' > active => active' <= maxConcurrent']_vars

\* First come, first served: a waiter that gets a slot leaves nobody behind
\* that came before it (TestManagerLimitsConcurrencyAndPreservesFIFO).
ServedInOrder ==
    [][\A i, j \in DOMAIN queue :
          i < j /\ queue[j] \in granted' => queue[i] \in granted']_vars

\* Every request leaves the queue, with a slot or with its own cancellation.
WaitersLeave == \A c \in Caller : pc[c] = "wait" ~> pc[c] # "wait"
=============================================================================
