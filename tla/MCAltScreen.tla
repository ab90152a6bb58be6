---------------------------- MODULE MCAltScreen ----------------------------
(* A panel that shrinks and grows by a row and a column. *)
EXTENDS AltScreen

Size(r, c) == [rows |-> r, cols |-> c]
MCSizes == {Size(3, 1), Size(2, 3)}
MCFirst == Size(3, 1)
=============================================================================
