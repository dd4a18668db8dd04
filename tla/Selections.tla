------------------------------ MODULE Selections ------------------------------
(***************************************************************************)
(* What a filter keeps of a sequence: the rows a query returns (History),  *)
(* the keys of a cache but one (Catalog).                                  *)
(***************************************************************************)
EXTENDS Naturals, Sequences

(* The members of s at the positions in I, in order.                                       *)
Picked(s, I) ==
  LET f[n \in 0..Len(s)] == IF n = 0 THEN <<>> ELSE IF n \in I THEN Append(f[n - 1], s[n]) ELSE f[n - 1]
  IN f[Len(s)]

(* SelectSeq, by positions: tlapm has no definition of SelectSeq to unfold.                *)
Select(s, Test(_)) == Picked(s, {i \in DOMAIN s : Test(s[i])})
===============================================================================
