---------------------------- MODULE MCAdmission ----------------------------
(***************************************************************************)
(* What a request of the gateway waits for before it is sent, for model    *)
(* checking: the directly addressed request of its room (ChatSequencing)   *)
(* and a slot of the forward queue (ForwardQueue).  The two share no       *)
(* state, so the steps of one leave what is said of the other as it is: in *)
(* each behaviour one of them moves, and their states add up instead of    *)
(* multiplying.                                                            *)
(***************************************************************************)
EXTENDS ForwardQueue

CONSTANTS
    Room, P1, P3, RoomOf, Exact, None,
    m1, m2, away

VARIABLES
    part,
    rooms, done, content, chatPc, watches, heard, timedOut

\* Everybody is in one room, but for one directly addressed request.
OneRoomButOne == [x \in P1 \cup P3 |-> IF x = away THEN m2 ELSE m1]

Chat == INSTANCE ChatSequencing WITH pc <- chatPc

ASSUME ChatAssumption == Chat!ConstantsOK

chatVars == <<rooms, done, content, chatPc, watches, heard, timedOut>>
admissionVars == <<part, vars, chatVars>>

AdmissionInit == part \in {"queue", "chat"} /\ Init /\ Chat!Init

AdmissionNext ==
    \/ part = "queue" /\ Next /\ UNCHANGED <<part, chatVars>>
    \/ part = "chat" /\ Chat!Next /\ UNCHANGED <<part, vars>>

AdmissionSpec ==
    /\ AdmissionInit /\ [][AdmissionNext]_admissionVars
    /\ part = "queue" => Fairness
    /\ part = "chat" => Chat!Fairness

-----------------------------------------------------------------------------

\* A listener is sent on with words that were really said, by the P1 of its
\* own room that it waited for, and only once that P1 has completed: with
\* several P1 requests in a room none is mistaken for another.
HearsWhatWasSaid == Chat!HearsWhatWasSaid

\* Nobody waits for good: a listener is sent on whatever becomes of the P1 it
\* waits for, also when that P1 returned without completing.
ListenersLeave == Chat!ListenersLeave
=============================================================================
