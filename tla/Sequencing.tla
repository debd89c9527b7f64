------------------------------ MODULE Sequencing ------------------------------
(***************************************************************************)
(* The loops that build one sequence from another, as recursive functions: *)
(* operators that take sets in the place of predicates, about which        *)
(* Induction has proofs.                                                   *)
(***************************************************************************)
EXTENDS Integers, Sequences

(* The elements of a sequence                                              *)
ToSet(s) == {s[i] : i \in DOMAIN s}

(* The elements of s that are in S, in their order                         *)
Keep(s, S) ==
    LET kept[n \in 0 .. Len(s)] ==
            IF n = 0 THEN <<>>
            ELSE IF s[n] \in S THEN Append(kept[n - 1], s[n]) ELSE kept[n - 1]
    IN  kept[Len(s)]

(* The first element of s that is in S; d when there is none               *)
FirstIn(s, S, d) ==
    LET places == {i \in DOMAIN s : s[i] \in S}
    IN  IF places = {} THEN d ELSE s[CHOOSE i \in places : \A j \in places : i <= j]

(* The sequences of ss one behind the other                                *)
FlattenSeq(ss) ==
    LET upTo[n \in 0 .. Len(ss)] == IF n = 0 THEN <<>> ELSE upTo[n - 1] \o ss[n]
    IN  upTo[Len(ss)]

(* n, put into the sequence p before the first place whose element it goes *)
(* before; R has the pairs of which the first goes before the second.      *)
Inserted(p, n, R) ==
    LET m == CHOOSE m \in 1 .. n : /\ m < n => <<n, p[m]>> \in R
                                   /\ \A k \in 1 .. (m - 1) : <<n, p[k]>> \notin R
    IN  SubSeq(p, 1, m - 1) \o <<n>> \o SubSeq(p, m, n - 1)

(* s sorted by the relation R on its places; equal ones keep their order.  *)
Arranged(s, R) ==
    LET order[n \in 0 .. Len(s)] == IF n = 0 THEN <<>> ELSE Inserted(order[n - 1], n, R)
    IN  [i \in DOMAIN s |-> s[order[Len(s)][i]]]
===============================================================================
