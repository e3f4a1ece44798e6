------------------------------ MODULE Selection ------------------------------
(***************************************************************************)
(* The loop with which the code keeps part of a slice: for each entry, in  *)
(* order, append it if it qualifies.  It is SelectSeq with the entries     *)
(* that qualify given as a set, defined here because the definition of     *)
(* SelectSeq is not one the proofs can expand.                             *)
(***************************************************************************)
EXTENDS Integers, Sequences

Select(s, S) ==
  LET kept[i \in 0..Len(s)] ==
        IF i = 0 THEN <<>>
        ELSE IF s[i] \in S THEN Append(kept[i - 1], s[i]) ELSE kept[i - 1]
  IN kept[Len(s)]
=============================================================================
