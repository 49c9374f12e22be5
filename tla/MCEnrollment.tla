---------------------------- MODULE MCEnrollment -----------------------------
(* Two authorities: the old one alone, both while Control rotates, the new *)
(* one alone; chains that lack the authority beside them, of another       *)
(* authority and of blank entries; a chain with no authority beside it.    *)
EXTENDS Enrollment

Rotation == { [ca |-> 1, chain |-> None], [ca |-> 1, chain |-> {1, 2}],
              [ca |-> 2, chain |-> None], [ca |-> 1, chain |-> {2}],
              [ca |-> 1, chain |-> {}], [ca |-> None, chain |-> {2}] }
=============================================================================
