------------------------------- MODULE Lists --------------------------------
(***************************************************************************)
(* Lists, as the code filters and sorts them: in place or into a new       *)
(* slice, keeping the order where nothing says otherwise.                  *)
(***************************************************************************)
EXTENDS Naturals, SequencesExt

IsList(s) == s \in Seq(Range(s))

(* The elements of s at the positions in K, in their order. *)
Sublist(s, K) ==
  [k \in 1..Cardinality(K) |-> s[CHOOSE i \in K : Cardinality({j \in K : j <= i}) = k]]

(* The elements of s by the numbers key[i], the least first; ties keep their order. *)
SortBy(s, key) ==
  LET ahead(i) == {j \in DOMAIN s : key[j] < key[i] \/ (key[j] = key[i] /\ j < i)}
  IN [k \in DOMAIN s |-> s[CHOOSE i \in DOMAIN s : Cardinality(ahead(i)) = k - 1]]
=============================================================================
