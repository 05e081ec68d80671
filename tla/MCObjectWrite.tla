----------------------------- MODULE MCObjectWrite -----------------------------
(* Small instances of ObjectWrite. *)
EXTENDS ObjectWrite

CONSTANTS one, two

TwoWriters == {one, two}

\* Three parts of the requested size, two of the grown one; and a small body.
LargeAndSmall == [w \in TwoWriters |-> IF w = one THEN {5, 7} ELSE {1}]
OneLarge      == [w \in {one} |-> {3}]
===============================================================================
