------------------------------ MODULE Ordering ------------------------------
(***************************************************************************)
(* Array.sort and Array.filter.  upto is a set of pairs of places: <<j, i>>*)
(* if j is i or what j holds goes before what i holds.                     *)
(***************************************************************************)
EXTENDS Integers, Sequences, FiniteSets

\* The members of S with the places they take.
Placed(S, upto) == {<<Cardinality({j \in S : <<j, i>> \in upto}), i>> : i \in S}

Listed(S, upto) ==
  LET placed == Placed(S, upto)
  IN  [k \in 1..Cardinality(S) |-> (CHOOSE p \in placed : p[1] = k)[2]]

\* Array.sort leaves what before does not order as it was.
Sorted(s, before) ==
  LET upto == {p \in (DOMAIN s) \X (DOMAIN s) :
                 p \in before \/ (<<p[2], p[1]>> \notin before /\ p[1] <= p[2])}
      order == Listed(DOMAIN s, upto)
  IN  [k \in DOMAIN s |-> s[order[k]]]

\* Array.filter: the members at the places in keep.
Filtered(s, keep) ==
  LET order == Listed(keep, {p \in keep \X keep : p[1] <= p[2]})
  IN  [k \in 1..Cardinality(keep) |-> s[order[k]]]
=============================================================================
