------------------------------ MODULE BytePipe ------------------------------
(***************************************************************************)
(* What the reader of a stream is promised: the bytes come out as they     *)
(* were written, in order and once, no more of them than the limit, and    *)
(* the end is announced when there is nothing left. Bytes are numbered.    *)
(***************************************************************************)
EXTENDS Naturals, Sequences

VARIABLES
  limit,    \* the most bytes that are let through
  written,  \* the bytes put in
  read,     \* the bytes taken out
  finished  \* the end has been announced

vars == <<limit, written, read, finished>>

Init ==
  /\ limit \in Nat
  /\ written = <<>>
  /\ read = <<>>
  /\ finished = FALSE

Write ==
  /\ ~finished
  /\ \E n \in 1..(limit - Len(written)) :
       written' = written \o [k \in 1..n |-> Len(written) + k]
  /\ UNCHANGED <<limit, read, finished>>

Read ==
  /\ ~finished
  /\ \E n \in (Len(read) + 1)..Len(written) : read' = SubSeq(written, 1, n)
  /\ UNCHANGED <<limit, written, finished>>

Finish ==
  /\ ~finished
  /\ read = written
  /\ finished' = TRUE
  /\ UNCHANGED <<limit, written, read>>

Next == Write \/ Read \/ Finish

Spec == Init /\ [][Next]_vars
=============================================================================
