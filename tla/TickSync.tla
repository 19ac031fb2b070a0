------------------------------ MODULE TickSync ------------------------------
(***************************************************************************)
(* The gateway's tick-sync buffer (cmd/cortex-gateway/internal/ticksync/   *)
(* buffer.go) and the handlers that deliver through it                     *)
(* (writePipelineResponse in proxy/pipeline.go).  A handler asks Enabled,  *)
(* and if so holds its response under its simulation tick and waits until  *)
(* somebody has written it: the flush loop once the tick's oldest response *)
(* is old enough, or whoever switches the buffer off.                      *)
(*                                                                         *)
(* Every critical section of Buffer.mu is one action.  Writing happens     *)
(* outside of it, one response at a time, and so does the close of the     *)
(* loop's stop channel.  Switching off and on again quickly leaves an old  *)
(* loop and a new one running side by side.                                *)
(*                                                                         *)
(* Simplifications: a response is the number of its place in the order of  *)
(* priority, agent and request id.  An age stops at the largest timeout.   *)
(* A failed write reports to the handler as a successful one does.         *)
(***************************************************************************)
EXTENDS Integers, Sequences, FiniteSets

CONSTANTS
    Response,   \* responses, numbered in the order a flush sorts them
    SimTick,    \* simulation ticks
    TickOf,     \* the tick of each response
    Loop,       \* flush-loop goroutines, reused after they have ended
    Toggler,    \* control-plane requests that change the setting
    Timeouts,   \* values of the flush timeout
    None

ConstantsOK ==
    /\ Response \subseteq Nat /\ SimTick \subseteq Nat
    /\ TickOf \in [Response -> SimTick]
    /\ Timeouts \subseteq Nat \ {0}
    /\ None \notin Loop
    /\ Loop \cap Toggler = {}

VARIABLES
    enabled, timeout,
    pending,    \* the map: tick |-> responses in order of arrival
    stopCh,     \* the loop whose stop channel the buffer holds, or None
    running,    \* loops that have not returned
    stopped,    \* loops whose stop channel is closed
    closing,    \* the stop channel each toggler has yet to close
    batch,      \* what each flusher has taken out and not written yet
    pc,         \* where each response's handler is
    age,        \* time since it was held
    met         \* history: pairs of one tick that were in the buffer together

buffer == <<enabled, timeout, pending, stopCh>>
vars == <<buffer, running, stopped, closing, batch, pc, age, met>>

Flusher == Loop \cup Toggler
MaxTimeout == CHOOSE d \in Timeouts : \A e \in Timeouts : e <= d

TypeOK ==
    /\ enabled \in BOOLEAN
    /\ timeout \in Timeouts
    /\ pending \in [SimTick -> Seq(Response)]
    /\ stopCh \in Loop \cup {None}
    /\ running \subseteq Loop /\ stopped \subseteq running
    /\ closing \in [Toggler -> Loop \cup {None}]
    /\ batch \in [Flusher -> Seq(Response)]
    /\ pc \in [Response -> {"start", "hold", "held", "written"}]
    /\ age \in [Response -> 0..MaxTimeout]
    /\ met \subseteq Response \X Response

Init ==
    /\ enabled = FALSE
    /\ timeout \in Timeouts
    /\ pending = [t \in SimTick |-> <<>>]
    /\ stopCh = None
    /\ running = {} /\ stopped = {}
    /\ closing = [g \in Toggler |-> None]
    /\ batch = [f \in Flusher |-> <<>>]
    /\ pc = [r \in Response |-> "start"]
    /\ age = [r \in Response |-> 0]
    /\ met = {}

\* The responses that are pending for a tick.
Group(t) == {pending[t][i] : i \in DOMAIN pending[t]}

-----------------------------------------------------------------------------
(* The handler: writePipelineResponse                                      *)

\* Enabled says no: the handler writes the response itself.
WriteDirectly(r) ==
    /\ pc[r] = "start"
    /\ ~ enabled
    /\ pc' = [pc EXCEPT ![r] = "written"]
    /\ UNCHANGED <<buffer, running, stopped, closing, batch, age, met>>

DecideToHold(r) ==
    /\ pc[r] = "start"
    /\ enabled
    /\ pc' = [pc EXCEPT ![r] = "hold"]
    /\ UNCHANGED <<buffer, running, stopped, closing, batch, age, met>>

\* Hold: the setting is not looked at again.
Hold(r) ==
    /\ pc[r] = "hold"
    /\ pending' = [pending EXCEPT ![TickOf[r]] = Append(@, r)]
    /\ pc' = [pc EXCEPT ![r] = "held"]
    /\ age' = [age EXCEPT ![r] = 0]
    /\ met' = met \cup {p \in Response \X Response :
                          p[1] < p[2] /\ {p[1], p[2]} \subseteq {r} \cup Group(TickOf[r])}
    /\ UNCHANGED <<enabled, timeout, stopCh, running, stopped, closing, batch>>

-----------------------------------------------------------------------------
(* Flushing                                                                *)

\* Mutant: the responses of a tick are written in their order of arrival.
BeforeByArrival(a, b) ==
    LET arrived(r) == CHOOSE i \in DOMAIN pending[TickOf[r]] : pending[TickOf[r]][i] = r
    IN  \/ TickOf[a] < TickOf[b]
        \/ TickOf[a] = TickOf[b] /\ arrived(a) < arrived(b)

\* The order of flushEntries: ticks ascending, and the responses of a tick by
\* priority, agent and request.
Before(a, b) == TickOf[a] < TickOf[b] \/ (TickOf[a] = TickOf[b] /\ a < b)

Rank(S, r) == Cardinality({q \in S : Before(q, r)})

Sorted(S) == [i \in 1..Cardinality(S) |-> CHOOSE r \in S : Rank(S, r) = i - 1]

FlushOrder(ticks) == Sorted(UNION {Group(t) : t \in ticks})

Without(ticks) == [t \in SimTick |-> IF t \in ticks THEN <<>> ELSE pending[t]]

Expired(t) == pending[t] # <<>> /\ age[Head(pending[t])] >= timeout

\* Mutant: the groups are copied, not taken out.
FlushExpiredCopies(l) ==
    /\ l \in running
    /\ batch[l] = <<>>
    /\ LET ticks == {t \in SimTick : Expired(t)}
       IN  /\ ticks # {}
           /\ batch' = [batch EXCEPT ![l] = FlushOrder(ticks)]
    /\ UNCHANGED <<buffer, running, stopped, closing, pc, age, met>>

\* The loop's ticker fires; flushExpired takes the groups whose oldest response
\* has waited long enough.  A loop that has been stopped may do this once more:
\* select picks either channel.
FlushExpired(l) ==
    /\ l \in running
    /\ batch[l] = <<>>
    /\ LET ticks == {t \in SimTick : Expired(t)}
       IN  /\ ticks # {}
           /\ batch' = [batch EXCEPT ![l] = FlushOrder(ticks)]
           /\ pending' = Without(ticks)
    /\ UNCHANGED <<enabled, timeout, stopCh, running, stopped, closing, pc, age, met>>

\* Mutant: a batch ends with its first response.
WriteNextSkips(f) ==
    /\ batch[f] # <<>>
    /\ f \in Toggler => closing[f] = None
    /\ batch' = [batch EXCEPT ![f] = <<>>]
    /\ pc' = [pc EXCEPT ![Head(batch[f])] = "written"]
    /\ UNCHANGED <<buffer, running, stopped, closing, age, met>>

\* The next response of the batch is written and its handler released.
WriteNext(f) ==
    /\ batch[f] # <<>>
    /\ f \in Toggler => closing[f] = None
    /\ batch' = [batch EXCEPT ![f] = Tail(@)]
    /\ pc' = [pc EXCEPT ![Head(batch[f])] = "written"]
    /\ UNCHANGED <<buffer, running, stopped, closing, age, met>>

LoopEnds(l) ==
    /\ l \in stopped
    /\ batch[l] = <<>>
    /\ running' = running \ {l}
    /\ stopped' = stopped \ {l}
    /\ UNCHANGED <<buffer, closing, batch, pc, age, met>>

-----------------------------------------------------------------------------
(* SetEnabled and SetTimeout                                               *)

\* Switch on: a new stop channel and a new loop.
Enable(l) ==
    /\ ~ enabled
    /\ l \notin running
    /\ \A g \in Toggler : closing[g] # l
    /\ enabled' = TRUE
    /\ stopCh' = l
    /\ running' = running \cup {l}
    /\ UNCHANGED <<timeout, pending, stopped, closing, batch, pc, age, met>>

\* Switch off: take everything that is pending ...
Disable(g) ==
    /\ enabled
    /\ batch[g] = <<>> /\ closing[g] = None
    /\ enabled' = FALSE
    /\ closing' = [closing EXCEPT ![g] = stopCh]
    /\ stopCh' = None
    /\ batch' = [batch EXCEPT ![g] = FlushOrder({t \in SimTick : pending[t] # <<>>})]
    /\ pending' = [t \in SimTick |-> <<>>]
    /\ UNCHANGED <<timeout, running, stopped, pc, age, met>>

\* ... stop the loop, and (WriteNext) write what was taken.
CloseStopCh(g) ==
    /\ closing[g] # None
    /\ stopped' = stopped \cup {closing[g]}
    /\ closing' = [closing EXCEPT ![g] = None]
    /\ UNCHANGED <<buffer, running, batch, pc, age, met>>

SetTimeout(d) ==
    /\ timeout' = d
    /\ UNCHANGED <<enabled, pending, stopCh, running, stopped, closing, batch, pc, age, met>>

Time ==
    /\ age' = [r \in Response |->
                 IF pc[r] = "held" /\ age[r] < MaxTimeout THEN age[r] + 1 ELSE age[r]]
    /\ UNCHANGED <<buffer, running, stopped, closing, batch, pc, met>>

-----------------------------------------------------------------------------
Next ==
    \/ \E r \in Response : WriteDirectly(r) \/ DecideToHold(r) \/ Hold(r)
    \/ \E l \in Loop : FlushExpired(l) \/ LoopEnds(l) \/ Enable(l)
    \/ \E f \in Flusher : WriteNext(f)
    \/ \E g \in Toggler : Disable(g) \/ CloseStopCh(g)
    \/ \E d \in Timeouts : SetTimeout(d)
    \/ Time

Spec == Init /\ [][Next]_vars

\* Goroutines that can run do, and time passes.  Nobody has to switch anything.
Fairness ==
    /\ \A r \in Response : WF_vars(WriteDirectly(r) \/ DecideToHold(r)) /\ WF_vars(Hold(r))
    /\ \A l \in Loop : WF_vars(FlushExpired(l)) /\ WF_vars(LoopEnds(l))
    /\ \A f \in Flusher : WF_vars(WriteNext(f))
    /\ \A g \in Toggler : WF_vars(CloseStopCh(g))
    /\ WF_vars(Time)

LiveSpec == Spec /\ Fairness

-----------------------------------------------------------------------------
(* Properties                                                              *)

Places(r) ==
    {<<"pending", i>> : i \in {i \in DOMAIN pending[TickOf[r]] : pending[TickOf[r]][i] = r}}
        \cup UNION {{<<f, i>> : i \in {i \in DOMAIN batch[f] : batch[f][i] = r}} :
                      f \in Flusher}

\* A response that is held is in exactly one place, in the buffer or in the
\* batch of one goroutine, and a written one is nowhere: two loops and a
\* switch-off that overlap never write the same response twice or lose one.
OnePlace == \A r \in Response : Cardinality(Places(r)) = (IF pc[r] = "held" THEN 1 ELSE 0)

\* Deterministic order: of two responses of one tick that were in the buffer
\* together, the one with the higher priority (then the lower agent id) is
\* written first, whoever writes them.
InOrder ==
    [][\A p \in met : pc[p[2]] # "written" /\ pc'[p[2]] = "written" => pc[p[1]] = "written"]_vars

\* While tick sync is on, or is switched on again and again, every response
\* that was held gets written: by a loop, or by the switching off.
HeldIsWritten == []<>enabled => \A r \in Response : pc[r] = "held" ~> pc[r] = "written"

\* The comment on Hold: "The response will be flushed when the tick's timeout
\* expires."
HeldIsFlushed == \A r \in Response : pc[r] = "held" ~> pc[r] = "written"
=============================================================================
