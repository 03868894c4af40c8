----------------------- MODULE MCConversationJournal -----------------------
(* Small conversations for the model checker. *)
EXTENDS ConversationJournal

CONSTANTS d1, d2, f1

File2(a, b, x, y) == [n \in a..b |-> IF n = a THEN x ELSE y]

\* The second delivery repeats the end of the first and adds a message; its id
\* may also be used for a delivery of the new message alone.
Reused == {[id |-> d1, batch |-> File2(0, 1, "a", "b")],
           [id |-> d2, batch |-> File2(1, 2, "b", "c")],
           [id |-> d2, batch |-> File2(2, 2, "c", "c")]}

One == {f1}
=============================================================================
