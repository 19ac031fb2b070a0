----------------------------- MODULE MCAnswers -----------------------------
(***************************************************************************)
(* What the gateway does with the answers of its providers, for model      *)
(* checking: it counts them in the circuit breaker (CircuitBreaker) and    *)
(* may hold them back in the tick-sync buffer (TickSync).  The two share   *)
(* no state: in each behaviour one of them moves, as in MCAdmission.       *)
(***************************************************************************)
EXTENDS CircuitBreaker

CONSTANTS
    Response, SimTick, TickOf, Loop, Toggler, Timeouts, None

VARIABLES
    part,
    enabled, timeout, pending, stopCh, running, stopped, closing, batch, responsePc, age, met

\* Two responses of the first tick and the rest of the second.
TwoTicks == [r \in Response |-> IF r <= 2 THEN 1 ELSE 2]

Sync == INSTANCE TickSync WITH pc <- responsePc

ASSUME SyncAssumption == Sync!ConstantsOK

syncVars ==
    <<enabled, timeout, pending, stopCh, running, stopped, closing, batch, responsePc, age, met>>
answerVars == <<part, vars, syncVars>>

AnswersInit == part \in {"breaker", "sync"} /\ Init /\ Sync!Init

AnswersNext ==
    \/ part = "breaker" /\ Next /\ UNCHANGED <<part, syncVars>>
    \/ part = "sync" /\ Sync!Next /\ UNCHANGED <<part, vars>>

AnswersSpec ==
    /\ AnswersInit /\ [][AnswersNext]_answerVars
    /\ part = "breaker" => Fairness
    /\ part = "sync" => Sync!Fairness

-----------------------------------------------------------------------------

\* A response that is held is in exactly one place, in the buffer or in the
\* batch of one goroutine, and a written one is nowhere: two loops and a
\* switch-off that overlap never write the same response twice or lose one.
OnePlace == Sync!OnePlace

\* Deterministic order: of two responses of one tick that were in the buffer
\* together, the one with the higher priority (then the lower agent id) is
\* written first, whoever writes them.
InOrder == Sync!InOrder

\* While tick sync is on, or is switched on again and again, every response
\* that was held gets written: by a loop, or by the switching off.
HeldIsWritten == Sync!HeldIsWritten
=============================================================================
