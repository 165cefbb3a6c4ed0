----------------------------- MODULE Arrangement -----------------------------
(***************************************************************************)
(* What Python's sorted() and a filtering list comprehension make of a     *)
(* list, and how an entry of a list is replaced.  The library sorts and    *)
(* selects with SortSeq and SelectSeq, in definitions that cannot be       *)
(* reasoned about; these ones can.                                         *)
(***************************************************************************)
EXTENDS Naturals, FiniteSets, Sequences

\* The elements of the finite set K in the order R, a set of pairs.
Arranged(K, R) ==
  LET Before(k) == {j \in K : <<j, k>> \in R}
  IN  [n \in 1 .. Cardinality(K) |-> CHOOSE k \in K : Cardinality(Before(k)) = n - 1]

\* The elements of the list s at the positions K, in the order R of positions.
ArrangedBy(s, K, R) == [n \in 1 .. Cardinality(K) |-> s[Arranged(K, R)[n]]]

Ascending(K) == {jk \in K \X K : jk[1] < jk[2]}

\* The list s without the elements at other positions than K.
Kept(s, K) == ArrangedBy(s, K, Ascending(K))

-----------------------------------------------------------------------------
(* Lists of things that carry ids: ids[x] is the id of the entry x. *)

\* The list without the entries that carry id.
Others(s, id, ids) == Kept(s, {k \in DOMAIN s : ids[s[k]] # id})

\* Mutants: the old entry stays; the new one moves to the end.
ReboundBeside(s, new, id, ids) == Append(s, new)
ReboundAtEnd(s, new, id, ids) == Append(Others(s, id, ids), new)

\* The list with new at the place k and no other entry of the plugin.
Replaced(s, k, new, id, ids) ==
  Kept([s EXCEPT ![k] = new], {n \in DOMAIN s : n = k \/ ids[s[n]] # id})

\* The list with the entries of the plugin replaced by new: at the place of
\* the first of them, at the end when there is none.
Rebound(s, new, id, ids) ==
  IF \E k \in DOMAIN s : ids[s[k]] = id
  THEN LET first == CHOOSE n \in DOMAIN s :
                      ids[s[n]] = id /\ \A m \in 1..(n - 1) : ids[s[m]] # id
       IN  Replaced(s, first, new, id, ids)
  ELSE Append(s, new)

=============================================================================
