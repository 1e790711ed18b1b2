---------------------------- MODULE AtomicEdits ----------------------------
(* What the handlers that edit one JSON value or one row promise their     *)
(* callers: a request that is answered took effect, once, on the value the *)
(* record had at that moment, whatever other requests were doing.          *)
CONSTANTS
    Edits,           \* the requests
    Record(_),       \* the record a request edits
    Apply(_, _),     \* what a request makes of a value
    Initial          \* record -> its first value

VARIABLES records, answered

AtomicInit == records = Initial /\ answered = {}

Answer(q) ==
    /\ q \notin answered
    /\ answered' = answered \cup {q}
    /\ records' = [records EXCEPT ![Record(q)] = Apply(q, records[Record(q)])]

AtomicNext == \E q \in Edits : Answer(q)

AtomicSpec == AtomicInit /\ [][AtomicNext]_<<records, answered>>
=============================================================================
