-------------------------------- MODULE Lists --------------------------------
(***************************************************************************)
(* What the tools do with lists: picking elements in their order, and the  *)
(* first of equal ones.                                                    *)
(***************************************************************************)
EXTENDS Integers, Sequences, FiniteSets

\* The elements of seq at some of its places, in their order.
Picked(seq, places) ==
    LET place == [k \in 1..Cardinality(places) |->
                     CHOOSE i \in places : Cardinality({j \in places : j <= i}) = k]
    IN [k \in 1..Cardinality(places) |-> seq[place[k]]]

\* _add_unique: the first occurrence counts.
Unique(seq) == Picked(seq, {i \in DOMAIN seq : \A j \in 1..i - 1 : seq[j] # seq[i]})

Elements(seq) == {seq[i] : i \in DOMAIN seq}
=============================================================================
