------------------------------ MODULE OutputFeed ------------------------------
(***************************************************************************)
(* What a process handle promises its caller, with no connection, frame or *)
(* replay in sight: a reader moves forward through the numbered bytes of   *)
(* one output, gets each byte at most once, and gets nothing after the end.*)
(***************************************************************************)
EXTENDS Naturals

CONSTANTS
  Readers,  \* the handles reading the output
  Size      \* how many bytes the output can have

VARIABLES
  pos,   \* the next offset each reader is interested in
  got,   \* the bytes each reader was given
  done   \* the readers that were told the output has ended

vars == <<pos, got, done>>

Init ==
  /\ pos = [r \in Readers |-> 0]
  /\ got = [r \in Readers |-> {}]
  /\ done = [r \in Readers |-> FALSE]

\* A reader that was given nothing yet chooses where to begin.
Seek(r, to) ==
  /\ got[r] = {} /\ ~done[r]
  /\ pos' = [pos EXCEPT ![r] = to]
  /\ UNCHANGED <<got, done>>

\* The bytes from .. to - 1, none of which it was given before.
Read(r, from, to) ==
  /\ ~done[r] /\ pos[r] <= from /\ from < to
  /\ got[r] \cap (from..(to - 1)) = {}
  /\ got' = [got EXCEPT ![r] = @ \cup (from..(to - 1))]
  /\ pos' = [pos EXCEPT ![r] = to]
  /\ UNCHANGED done

\* The end, possibly after bytes that were not available any more.
Finish(r, to) ==
  /\ ~done[r] /\ pos[r] <= to
  /\ pos' = [pos EXCEPT ![r] = to]
  /\ done' = [done EXCEPT ![r] = TRUE]
  /\ UNCHANGED got

Next ==
  \E r \in Readers : \E to \in 0..Size :
    \/ Seek(r, to)
    \/ \E from \in 0..Size : Read(r, from, to)
    \/ Finish(r, to)

Spec == Init /\ [][Next]_vars
=============================================================================
