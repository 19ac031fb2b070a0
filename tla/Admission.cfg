\* Three callers and limits from one to three; two directly addressed requests
\* in a room of two listeners and one elsewhere.
CONSTANTS
    Caller = {c1, c2, c3}
    Limit = {1, 2, 3}
    m1 = m1
    m2 = m2
    away = a3
    Room = {m1, m2}
    P1 = {a1, a2, a3}
    P3 = {x1, x2}
    RoomOf <- OneRoomButOne
    Exact = {a1, a3}
    None = None
SPECIFICATION AdmissionSpec
INVARIANT SlotsAccounted
INVARIANT NoIdleSlot
 
PROPERTY WaitersLeave
PROPERTY ListenersLeave
