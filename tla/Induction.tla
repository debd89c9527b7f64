------------------------------ MODULE Induction ------------------------------
(***************************************************************************)
(* Induction over the natural numbers, with sets in the place of           *)
(* predicates, and what it gives for the loops that the models write as    *)
(* recursive functions.                                                    *)
(***************************************************************************)
EXTENDS Sequencing, WellFoundedInduction, TLAPS

(* A set of natural numbers that has a member has a least one.             *)
LEMMA Least ==
    ASSUME NEW T, T \subseteq Nat, T # {}
    PROVE  \E m \in T : \A k \in T : m <= k
<1> DEFINE R == {ss \in Nat \X Nat : ss[1] < ss[2]}
<1>1. IsWellFoundedOn(R, Nat)
  BY NatLessThanWellFounded DEF OpToRel
<1> HIDE DEF R
<1>2. PICK m \in T : \A k \in T : ~(<<k, m>> \in R)
  BY <1>1, WFMin
<1>3. \A k \in T : ~(k < m)
  <2> TAKE k \in T
  <2>1. k \in Nat /\ m \in Nat
    OBVIOUS
  <2>2. <<k, m>> \in R <=> k < m
    BY <2>1 DEF R
  <2> QED
    BY <1>2, <2>2
<1> QED
  BY <1>3

(* What 0 has, and what passes from each number below N to the next, all   *)
(* numbers up to N have.                                                   *)
LEMMA UpTo ==
    ASSUME NEW N \in Nat, NEW S, 0 \in S, \A n \in 0 .. N : n \in S /\ n < N => n + 1 \in S
    PROVE  \A n \in 0 .. N : n \in S
<1> DEFINE T == {n \in 0 .. N : n \notin S}
<1> SUFFICES ASSUME T # {} PROVE FALSE
  OBVIOUS
<1>1. PICK m \in T : \A k \in T : m <= k
  <2>1. T \subseteq Nat
    OBVIOUS
  <2> QED
    BY <2>1, Least
<1>2. m # 0 /\ m - 1 \in 0 .. N /\ m - 1 < N /\ ~(m <= m - 1)
  BY <1>1
<1>3. m - 1 \in S
  BY <1>1, <1>2
<1> QED
  BY <1>1, <1>2, <1>3

(* f has the values of a loop that starts with x and applies step[n] in    *)
(* its nth round.                                                          *)
Iterates(f, N, x, step) == f[0] = x /\ \A n \in 1 .. N : f[n] = step[n][f[n - 1]]

(* There is such a function when no round leaves D.                        *)
LEMMA Recursion ==
    ASSUME NEW N \in Nat, NEW D, NEW x \in D, NEW step \in [1 .. N -> [D -> D]]
    PROVE  \E f \in [0 .. N -> D] : Iterates(f, N, x, step)
<1> DEFINE Good(f, k) == f[0] = x /\ \A n \in 1 .. k : f[n] = step[n][f[n - 1]]
           S == {k \in 0 .. N : \E f \in [0 .. N -> D] : Good(f, k)}
<1>1. 0 \in S
  <2>1. [n \in 0 .. N |-> x] \in [0 .. N -> D] /\ Good([n \in 0 .. N |-> x], 0)
    OBVIOUS
  <2>2. 0 \in 0 .. N
    OBVIOUS
  <2> HIDE DEF Good
  <2> QED
    BY <2>1, <2>2
<1>2. ASSUME NEW k \in 0 .. N, k \in S, k < N PROVE k + 1 \in S
  <2>1. PICK f \in [0 .. N -> D] : Good(f, k)
    BY <1>2
  <2> DEFINE g == [f EXCEPT ![k + 1] = step[k + 1][f[k]]]
  <2>2. k + 1 \in 1 .. N /\ f[k] \in D
    BY <1>2
  <2>3. step[k + 1][f[k]] \in D
    BY <2>2
  <2>4. g \in [0 .. N -> D]
    BY <2>3
  <2>5. g[0] = x
    BY <2>1
  <2>6. ASSUME NEW n \in 1 .. k + 1 PROVE g[n] = step[n][g[n - 1]]
    <3>1. CASE n = k + 1
      BY <3>1, <2>2
    <3>2. CASE n \in 1 .. k
      BY <3>2, <2>1, <2>2
    <3> QED
      BY <3>1, <3>2
  <2>7. Good(g, k + 1)
    BY <2>5, <2>6
  <2>8. k + 1 \in 0 .. N
    BY <2>2
  <2> HIDE DEF Good, g
  <2> QED
    BY <2>4, <2>7, <2>8
<1>3. N \in S
  <2> HIDE DEF S
  <2>1. \A k \in 0 .. N : k \in S /\ k < N => k + 1 \in S
    BY <1>2
  <2>2. \A k \in 0 .. N : k \in S
    BY <1>1, <2>1, UpTo
  <2> QED
    BY <2>2
<1> QED
  BY <1>3 DEF Iterates

-------------------------------------------------------------------------------
(* Appending an element.                                                   *)
LEMMA ToSetAppend ==
    ASSUME NEW S, NEW s \in Seq(S), NEW x \in S
    PROVE  Append(s, x) \in Seq(S) /\ ToSet(Append(s, x)) = ToSet(s) \cup {x}
<1>1. /\ Append(s, x) \in Seq(S)
      /\ DOMAIN Append(s, x) = DOMAIN s \cup {Len(s) + 1}
      /\ \A i \in DOMAIN s : Append(s, x)[i] = s[i]
      /\ Append(s, x)[Len(s) + 1] = x
  OBVIOUS
<1> QED
  BY <1>1 DEF ToSet


(* A function on the first numbers is a sequence.                          *)
LEMMA SeqOf ==
    ASSUME NEW N \in Nat, NEW X, NEW f \in [1 .. N -> X]
    PROVE  f \in Seq(X) /\ Len(f) = N /\ DOMAIN f = 1 .. N
  OBVIOUS

(* What the members of Seq(X) are.                                         *)
LEMMA SeqFacts ==
    ASSUME NEW X, NEW s \in Seq(X)
    PROVE  Len(s) \in Nat /\ DOMAIN s = 1 .. Len(s) /\ \A i \in DOMAIN s : s[i] \in X
  OBVIOUS

(* Putting one sequence behind another.                                    *)
LEMMA ToSetConcat ==
    ASSUME NEW X, NEW s \in Seq(X), NEW t \in Seq(X)
    PROVE  /\ s \o t \in Seq(X) /\ Len(s \o t) = Len(s) + Len(t)
           /\ ToSet(s \o t) = ToSet(s) \cup ToSet(t)
<1>1. /\ s \o t \in Seq(X) /\ Len(s \o t) = Len(s) + Len(t) /\ Len(s) \in Nat /\ Len(t) \in Nat
      /\ DOMAIN s = 1 .. Len(s) /\ DOMAIN t = 1 .. Len(t)
      /\ DOMAIN (s \o t) = 1 .. (Len(s) + Len(t))
      /\ \A i \in 1 .. Len(s) : (s \o t)[i] = s[i]
      /\ \A i \in 1 .. Len(t) : (s \o t)[Len(s) + i] = t[i]
  OBVIOUS
<1>2. ASSUME NEW i \in DOMAIN (s \o t) PROVE (s \o t)[i] \in ToSet(s) \cup ToSet(t)
  <2>1. CASE i \in 1 .. Len(s)
    BY <2>1, <1>1 DEF ToSet
  <2>2. CASE i \notin 1 .. Len(s)
    <3>1. i - Len(s) \in 1 .. Len(t) /\ i = Len(s) + (i - Len(s))
      BY <2>2, <1>1
    <3>2. (s \o t)[i] = t[i - Len(s)]
      BY <3>1, <1>1
    <3> QED
      BY <3>1, <3>2, <1>1, Zenon DEF ToSet
  <2> QED
    BY <2>1, <2>2
<1>3. ASSUME NEW i \in DOMAIN s PROVE s[i] \in ToSet(s \o t)
  <2>1. i \in DOMAIN (s \o t) /\ (s \o t)[i] = s[i]
    BY <1>1
  <2> QED
    BY <2>1, Zenon DEF ToSet
<1>4. ASSUME NEW i \in DOMAIN t PROVE t[i] \in ToSet(s \o t)
  <2>1. Len(s) + i \in DOMAIN (s \o t) /\ (s \o t)[Len(s) + i] = t[i]
    BY <1>1
  <2> QED
    BY <2>1, Zenon DEF ToSet
<1>5. ToSet(s \o t) \subseteq ToSet(s) \cup ToSet(t)
  BY <1>2, Zenon DEF ToSet
<1>6. ToSet(s) \subseteq ToSet(s \o t) /\ ToSet(t) \subseteq ToSet(s \o t)
  BY <1>3, <1>4, Zenon DEF ToSet
<1> QED
  BY <1>1, <1>5, <1>6, Zenon

(* The rounds of Keep.                                                     *)
KeepRounds(g, s, S) ==
    /\ g[0] = <<>>
    /\ \A n \in 1 .. Len(s) :
           g[n] = IF s[n] \in S THEN Append(g[n - 1], s[n]) ELSE g[n - 1]

(* Keep ends with the last of its rounds.                                  *)
LEMMA KeepLoop ==
    ASSUME NEW X, NEW s \in Seq(X), NEW S
    PROVE  \E g \in [0 .. Len(s) -> Seq(X)] :
               KeepRounds(g, s, S) /\ Keep(s, S) = g[Len(s)]
<1> DEFINE N == Len(s)
           D == Seq(X)
           Next(q, n) == IF s[n] \in S THEN Append(q, s[n]) ELSE q
           Body(f, n) == IF n = 0 THEN <<>> ELSE IF s[n] \in S THEN Append(f[n - 1], s[n]) ELSE f[n - 1]
           step == [n \in 1 .. N |-> [q \in D |-> Next(q, n)]]
<1>1. N \in Nat /\ (\A n \in 1 .. N : s[n] \in X) /\ <<>> \in D
  OBVIOUS
<1>2. ASSUME NEW q \in D, NEW n \in 1 .. N PROVE Next(q, n) \in D
  BY <1>1
<1>3. Keep(s, S) = (CHOOSE f : f = [n \in 0 .. N |-> Body(f, n)])[N]
  BY Zenon DEF Keep
<1>4. \A f, n : n # 0 => Body(f, n) = Next(f[n - 1], n)
  BY Zenon
<1>5. \A f : Body(f, 0) = <<>>
  BY Zenon
<1>6. \A n, f : n # 0 => (Body(f, n) = IF s[n] \in S THEN Append(f[n - 1], s[n]) ELSE f[n - 1])
  BY Zenon
<1> HIDE DEF N, D, Next, Body
<1>7. step \in [1 .. N -> [D -> D]]
  BY <1>2, Zenon
<1>8. \A n \in 1 .. N, q \in D : step[n][q] = Next(q, n)
  OBVIOUS
<1> HIDE DEF step
<1>9. \A n \in 1 .. N : n - 1 \in 0 .. N /\ n \in 0 .. N /\ n # 0
  BY <1>1
<1>10. 0 \in 0 .. N /\ N \in 0 .. N
  BY <1>1
<1>11. PICK f \in [0 .. N -> D] : Iterates(f, N, <<>>, step)
  BY <1>1, <1>7, Recursion, Zenon
<1>12. ASSUME NEW n \in 0 .. N PROVE f[n] = Body(f, n)
  <2>1. CASE n = 0
    BY <2>1, <1>5, <1>11, Zenon DEF Iterates
  <2>2. CASE n # 0
    <3>1. n \in 1 .. N
      BY <2>2, <1>1
    <3>2. f[n] = step[n][f[n - 1]] /\ f[n - 1] \in D
      BY <3>1, <1>9, <1>11, Zenon DEF Iterates
    <3>3. step[n][f[n - 1]] = Next(f[n - 1], n)
      BY <3>1, <3>2, <1>8, Zenon
    <3>4. Body(f, n) = Next(f[n - 1], n)
      BY <2>2, <1>4, Zenon
    <3> QED
      BY <3>2, <3>3, <3>4, Zenon
  <2> QED
    BY <2>1, <2>2, Zenon
<1>13. f = [n \in 0 .. N |-> Body(f, n)]
  BY <1>11, <1>12, Zenon
<1> DEFINE g == CHOOSE h : h = [n \in 0 .. N |-> Body(h, n)]
<1>14. g = [n \in 0 .. N |-> Body(g, n)]
  BY <1>13, Zenon
<1>15. Keep(s, S) = g[N]
  BY <1>3, Zenon
<1> HIDE DEF g
<1>16. \A n \in 0 .. N : g[n] = Body(g, n)
  BY <1>14, Zenon
<1>17. g[0] = <<>>
  BY <1>5, <1>10, <1>16, Zenon
<1>18. \A n \in 1 .. N : g[n] = Next(g[n - 1], n) /\ g[n] = IF s[n] \in S THEN Append(g[n - 1], s[n]) ELSE g[n - 1]
  BY <1>4, <1>6, <1>9, <1>16, Zenon
<1> DEFINE T == {n \in 0 .. N : g[n] \in D}
<1>19. \A n \in 0 .. N : n \in T /\ n < N => n + 1 \in T
  <2> SUFFICES ASSUME NEW n \in 0 .. N, n \in T, n < N PROVE n + 1 \in T
    OBVIOUS
  <2>1. n + 1 \in 1 .. N /\ (n + 1) - 1 = n /\ n + 1 \in 0 .. N
    BY <1>1
  <2> QED
    BY <2>1, <1>2, <1>18, Zenon
<1>20. 0 \in T
  BY <1>1, <1>10, <1>17, Zenon
<1>21. \A n \in 0 .. N : g[n] \in D
  <2> HIDE DEF T
  <2>1. \A n \in 0 .. N : n \in T
    BY <1>1, <1>19, <1>20, UpTo
  <2> QED
    BY <2>1 DEF T
<1>22. g \in [0 .. N -> D]
  BY <1>14, <1>21, Zenon
<1> QED
  <2>1. KeepRounds(g, s, S)
    BY <1>17, <1>18, Zenon DEF N, KeepRounds
  <2> QED
    BY <2>1, <1>15, <1>22, Zenon DEF N, D

(* What Keep keeps.                                                        *)
LEMMA KeepFacts ==
    ASSUME NEW X, NEW s \in Seq(X), NEW S
    PROVE  Keep(s, S) \in Seq(X) /\ ToSet(Keep(s, S)) = ToSet(s) \cap S
<1>1. PICK g \in [0 .. Len(s) -> Seq(X)] :
          KeepRounds(g, s, S) /\ Keep(s, S) = g[Len(s)]
  BY KeepLoop, Zenon
<1> DEFINE N == Len(s)
           Read(n) == {s[i] : i \in 1 .. n}
           T == {n \in 0 .. N : ToSet(g[n]) = Read(n) \cap S}
<1>2. N \in Nat /\ 0 \in 0 .. N /\ N \in 0 .. N /\ DOMAIN s = 1 .. N /\ \A n \in 1 .. N : s[n] \in X
  OBVIOUS
<1> HIDE DEF N
<1>3. 0 \in T
  <2>1. ToSet(<<>>) = {}
    BY DEF ToSet
  <2>2. Read(0) = {}
    OBVIOUS
  <2> QED
    BY <2>1, <2>2, <1>1, <1>2, Zenon DEF KeepRounds, N
<1>4. \A n \in 0 .. N : n \in T /\ n < N => n + 1 \in T
  <2> SUFFICES ASSUME NEW n \in 0 .. N, n \in T, n < N PROVE n + 1 \in T
    OBVIOUS
  <2>1. n + 1 \in 1 .. N /\ (n + 1) - 1 = n /\ n + 1 \in 0 .. N
    BY <1>2
  <2>2. Read(n + 1) = Read(n) \cup {s[n + 1]}
    <3>1. 1 .. (n + 1) = (1 .. n) \cup {n + 1}
      BY <1>2
    <3> QED
      BY <3>1, Zenon
  <2>3. g[n + 1] = IF s[n + 1] \in S THEN Append(g[n], s[n + 1]) ELSE g[n]
    BY <2>1, <1>1, Zenon DEF KeepRounds, N
  <2>4. g[n] \in Seq(X) /\ s[n + 1] \in X
    BY <2>1, <1>1, <1>2, Zenon DEF N
  <2>5. ToSet(Append(g[n], s[n + 1])) = ToSet(g[n]) \cup {s[n + 1]}
    BY <2>4, ToSetAppend
  <2>6. ToSet(g[n]) = Read(n) \cap S
    OBVIOUS
  <2> HIDE DEF Read
  <2>7. ToSet(g[n + 1]) = Read(n + 1) \cap S
    BY <2>2, <2>3, <2>5, <2>6
  <2> QED
    BY <2>1, <2>7, Zenon
<1>5. \A n \in 0 .. N : n \in T
  <2> HIDE DEF T
  <2> QED
    BY <1>2, <1>3, <1>4, UpTo
<1>6. Read(N) = ToSet(s)
  BY <1>2, Zenon DEF ToSet
<1>7. ToSet(g[N]) = Read(N) \cap S
  BY <1>2, <1>5, Zenon
<1>8. Keep(s, S) \in Seq(X)
  BY <1>1, <1>2, Zenon DEF N
<1> HIDE DEF Read
<1> QED
  BY <1>1, <1>6, <1>7, <1>8, Zenon DEF N

(* The rounds of FlattenSeq.                                               *)
FlattenRounds(g, ss) == g[0] = <<>> /\ \A n \in 1 .. Len(ss) : g[n] = g[n - 1] \o ss[n]

(* FlattenSeq ends with the last of its rounds.                            *)
LEMMA FlattenLoop ==
    ASSUME NEW X, NEW ss \in Seq(Seq(X))
    PROVE  \E g \in [0 .. Len(ss) -> Seq(X)] :
               FlattenRounds(g, ss) /\ FlattenSeq(ss) = g[Len(ss)]
<1> DEFINE N == Len(ss)
           D == Seq(X)
           Next(q, n) == q \o ss[n]
           Body(f, n) == IF n = 0 THEN <<>> ELSE f[n - 1] \o ss[n]
           step == [n \in 1 .. N |-> [q \in D |-> Next(q, n)]]
<1>1. N \in Nat /\ (\A n \in 1 .. N : ss[n] \in D) /\ <<>> \in D
  OBVIOUS
<1>2. ASSUME NEW q \in D, NEW n \in 1 .. N PROVE Next(q, n) \in D
  BY <1>1
<1>3. FlattenSeq(ss) = (CHOOSE f : f = [n \in 0 .. N |-> Body(f, n)])[N]
  BY Zenon DEF FlattenSeq
<1>4. \A f, n : n # 0 => Body(f, n) = Next(f[n - 1], n)
  BY Zenon
<1>5. \A f : Body(f, 0) = <<>>
  BY Zenon
<1>6. \A n, f : n # 0 => (Body(f, n) = f[n - 1] \o ss[n])
  BY Zenon
<1> HIDE DEF N, D, Next, Body
<1>7. step \in [1 .. N -> [D -> D]]
  BY <1>2, Zenon
<1>8. \A n \in 1 .. N, q \in D : step[n][q] = Next(q, n)
  OBVIOUS
<1> HIDE DEF step
<1>9. \A n \in 1 .. N : n - 1 \in 0 .. N /\ n \in 0 .. N /\ n # 0
  BY <1>1
<1>10. 0 \in 0 .. N /\ N \in 0 .. N
  BY <1>1
<1>11. PICK f \in [0 .. N -> D] : Iterates(f, N, <<>>, step)
  BY <1>1, <1>7, Recursion, Zenon
<1>12. ASSUME NEW n \in 0 .. N PROVE f[n] = Body(f, n)
  <2>1. CASE n = 0
    BY <2>1, <1>5, <1>11, Zenon DEF Iterates
  <2>2. CASE n # 0
    <3>1. n \in 1 .. N
      BY <2>2, <1>1
    <3>2. f[n] = step[n][f[n - 1]] /\ f[n - 1] \in D
      BY <3>1, <1>9, <1>11, Zenon DEF Iterates
    <3>3. step[n][f[n - 1]] = Next(f[n - 1], n)
      BY <3>1, <3>2, <1>8, Zenon
    <3>4. Body(f, n) = Next(f[n - 1], n)
      BY <2>2, <1>4, Zenon
    <3> QED
      BY <3>2, <3>3, <3>4, Zenon
  <2> QED
    BY <2>1, <2>2, Zenon
<1>13. f = [n \in 0 .. N |-> Body(f, n)]
  BY <1>11, <1>12, Zenon
<1> DEFINE g == CHOOSE h : h = [n \in 0 .. N |-> Body(h, n)]
<1>14. g = [n \in 0 .. N |-> Body(g, n)]
  BY <1>13, Zenon
<1>15. FlattenSeq(ss) = g[N]
  BY <1>3, Zenon
<1> HIDE DEF g
<1>16. \A n \in 0 .. N : g[n] = Body(g, n)
  BY <1>14, Zenon
<1>17. g[0] = <<>>
  BY <1>5, <1>10, <1>16, Zenon
<1>18. \A n \in 1 .. N : g[n] = Next(g[n - 1], n) /\ g[n] = g[n - 1] \o ss[n]
  BY <1>4, <1>6, <1>9, <1>16, Zenon
<1> DEFINE T == {n \in 0 .. N : g[n] \in D}
<1>19. \A n \in 0 .. N : n \in T /\ n < N => n + 1 \in T
  <2> SUFFICES ASSUME NEW n \in 0 .. N, n \in T, n < N PROVE n + 1 \in T
    OBVIOUS
  <2>1. n + 1 \in 1 .. N /\ (n + 1) - 1 = n /\ n + 1 \in 0 .. N
    BY <1>1
  <2> QED
    BY <2>1, <1>2, <1>18, Zenon
<1>20. 0 \in T
  BY <1>1, <1>10, <1>17, Zenon
<1>21. \A n \in 0 .. N : g[n] \in D
  <2> HIDE DEF T
  <2>1. \A n \in 0 .. N : n \in T
    BY <1>1, <1>19, <1>20, UpTo
  <2> QED
    BY <2>1 DEF T
<1>22. g \in [0 .. N -> D]
  BY <1>14, <1>21, Zenon
<1> QED
  <2>1. FlattenRounds(g, ss)
    BY <1>17, <1>18, Zenon DEF N, FlattenRounds
  <2> QED
    BY <2>1, <1>15, <1>22, Zenon DEF N, D

(* What FlattenSeq has.                                                    *)
LEMMA FlattenFacts ==
    ASSUME NEW X, NEW ss \in Seq(Seq(X))
    PROVE  /\ FlattenSeq(ss) \in Seq(X)
           /\ ToSet(FlattenSeq(ss)) = UNION {ToSet(ss[i]) : i \in DOMAIN ss}
<1>1. PICK g \in [0 .. Len(ss) -> Seq(X)] :
          FlattenRounds(g, ss) /\ FlattenSeq(ss) = g[Len(ss)]
  BY FlattenLoop, Zenon
<1> DEFINE N == Len(ss)
           Read(n) == UNION {ToSet(ss[i]) : i \in 1 .. n}
           T == {n \in 0 .. N : ToSet(g[n]) = Read(n)}
<1>2. /\ N \in Nat /\ 0 \in 0 .. N /\ N \in 0 .. N /\ DOMAIN ss = 1 .. N
      /\ \A n \in 1 .. N : ss[n] \in Seq(X)
  OBVIOUS
<1> HIDE DEF N
<1>3. 0 \in T
  <2>1. ToSet(<<>>) = {}
    BY DEF ToSet
  <2>2. Read(0) = {}
    OBVIOUS
  <2> QED
    BY <2>1, <2>2, <1>1, <1>2, Zenon DEF FlattenRounds, N
<1>4. \A n \in 0 .. N : n \in T /\ n < N => n + 1 \in T
  <2> SUFFICES ASSUME NEW n \in 0 .. N, n \in T, n < N PROVE n + 1 \in T
    OBVIOUS
  <2>1. n + 1 \in 1 .. N /\ (n + 1) - 1 = n /\ n + 1 \in 0 .. N
    BY <1>2
  <2>2. Read(n + 1) = Read(n) \cup ToSet(ss[n + 1])
    <3>1. 1 .. (n + 1) = (1 .. n) \cup {n + 1}
      BY <1>2
    <3> QED
      BY <3>1, Zenon
  <2>3. g[n + 1] = g[n] \o ss[n + 1]
    BY <2>1, <1>1, Zenon DEF FlattenRounds, N
  <2>4. g[n] \in Seq(X) /\ ss[n + 1] \in Seq(X)
    BY <2>1, <1>1, <1>2, Zenon DEF N
  <2>5. ToSet(g[n] \o ss[n + 1]) = ToSet(g[n]) \cup ToSet(ss[n + 1])
    BY <2>4, ToSetConcat
  <2>6. ToSet(g[n]) = Read(n)
    OBVIOUS
  <2> HIDE DEF Read
  <2>7. ToSet(g[n + 1]) = Read(n + 1)
    BY <2>2, <2>3, <2>5, <2>6, Zenon
  <2> QED
    BY <2>1, <2>7, Zenon
<1>5. \A n \in 0 .. N : n \in T
  <2> HIDE DEF T
  <2> QED
    BY <1>2, <1>3, <1>4, UpTo
<1>6. Read(N) = UNION {ToSet(ss[i]) : i \in DOMAIN ss}
  BY <1>2, Zenon
<1>7. ToSet(g[N]) = Read(N)
  BY <1>2, <1>5, Zenon
<1>8. FlattenSeq(ss) \in Seq(X)
  BY <1>1, <1>2, Zenon DEF N
<1> HIDE DEF Read
<1> QED
  BY <1>1, <1>6, <1>7, <1>8, Zenon DEF N

(* A sequence cut in two.                                                  *)
LEMMA ToSetCut ==
    ASSUME NEW X, NEW p \in Seq(X), NEW m \in 1 .. (Len(p) + 1)
    PROVE  /\ SubSeq(p, 1, m - 1) \in Seq(X) /\ Len(SubSeq(p, 1, m - 1)) = m - 1
           /\ SubSeq(p, m, Len(p)) \in Seq(X) /\ Len(SubSeq(p, m, Len(p))) = (Len(p) - m) + 1
           /\ ToSet(SubSeq(p, 1, m - 1)) \cup ToSet(SubSeq(p, m, Len(p))) = ToSet(p)
<1> DEFINE L == Len(p)
           a == SubSeq(p, 1, m - 1)
           b == SubSeq(p, m, L)
<1>1. L \in Nat /\ m \in Nat /\ 1 <= m /\ m <= L + 1 /\ DOMAIN p = 1 .. L
  OBVIOUS
<1>2. a \in Seq(X) /\ Len(a) = m - 1 /\ DOMAIN a = 1 .. (m - 1) /\ \A i \in 1 .. (m - 1) : a[i] = p[i]
  BY <1>1
<1>3. /\ b \in Seq(X) /\ Len(b) = (L - m) + 1 /\ DOMAIN b = 1 .. ((L - m) + 1)
      /\ \A i \in 1 .. ((L - m) + 1) : b[i] = p[(m + i) - 1]
  BY <1>1
<1> HIDE DEF L, a, b
<1>4. ASSUME NEW i \in DOMAIN p PROVE p[i] \in ToSet(a) \cup ToSet(b)
  <2>1. CASE i < m
    <3>1. i \in DOMAIN a /\ a[i] = p[i]
      BY <2>1, <1>1, <1>2
    <3> QED
      BY <3>1, Zenon DEF ToSet
  <2>2. CASE ~(i < m)
    <3>1. (i - m) + 1 \in 1 .. ((L - m) + 1) /\ (m + ((i - m) + 1)) - 1 = i
      BY <2>2, <1>1
    <3>2. b[(i - m) + 1] = p[i] /\ (i - m) + 1 \in DOMAIN b
      BY <3>1, <1>3, Zenon
    <3> QED
      BY <3>2, Zenon DEF ToSet
  <2> QED
    BY <2>1, <2>2, Zenon
<1>5. ASSUME NEW i \in DOMAIN a PROVE a[i] \in ToSet(p)
  <2>1. i \in DOMAIN p /\ a[i] = p[i]
    BY <1>1, <1>2
  <2> QED
    BY <2>1, Zenon DEF ToSet
<1>6. ASSUME NEW i \in DOMAIN b PROVE b[i] \in ToSet(p)
  <2>1. (m + i) - 1 \in DOMAIN p /\ b[i] = p[(m + i) - 1]
    BY <1>1, <1>3
  <2> QED
    BY <2>1, Zenon DEF ToSet
<1>7. ToSet(a) \cup ToSet(b) = ToSet(p)
  BY <1>4, <1>5, <1>6, Zenon DEF ToSet
<1> QED
  BY <1>2, <1>3, <1>7, Zenon DEF L, a, b

(* Inserting the next place into an arrangement of the places before it.   *)
LEMMA InsertedFacts ==
    ASSUME NEW X, NEW n \in Nat \ {0}, NEW R, NEW p \in Seq(X), Len(p) = n - 1, n \in X
    PROVE  /\ Inserted(p, n, R) \in Seq(X) /\ Len(Inserted(p, n, R)) = n
           /\ ToSet(Inserted(p, n, R)) = ToSet(p) \cup {n}
<1> DEFINE Fits(m) == /\ m < n => <<n, p[m]>> \in R
                      /\ \A k \in 1 .. (m - 1) : <<n, p[k]>> \notin R
           T == {m \in 1 .. n : m < n => <<n, p[m]>> \in R}
           m == CHOOSE m \in 1 .. n : Fits(m)
<1>1. \E k \in 1 .. n : Fits(k)
  <2>1. n \in T /\ T \subseteq Nat
    OBVIOUS
  <2>2. PICK k \in T : \A l \in T : k <= l
    <3> HIDE DEF T
    <3> QED
      BY <2>1, Least
  <2>3. k \in 1 .. n /\ (k < n => <<n, p[k]>> \in R)
    BY <2>2
  <2>4. ASSUME NEW l \in 1 .. (k - 1) PROVE <<n, p[l]>> \notin R
    <3>1. l \in 1 .. n /\ ~(k <= l)
      BY <2>3
    <3>2. l \notin T
      BY <3>1, <2>2, Zenon
    <3> QED
      BY <3>1, <3>2, Zenon
  <2> QED
    BY <2>3, <2>4, Zenon
<1>2. m \in 1 .. n
  <2> HIDE DEF Fits
  <2> QED
    BY <1>1, Zenon
<1>3. Inserted(p, n, R) = SubSeq(p, 1, m - 1) \o <<n>> \o SubSeq(p, m, n - 1)
  BY Zenon DEF Inserted
<1> HIDE DEF m
<1> DEFINE a == SubSeq(p, 1, m - 1)
           b == SubSeq(p, m, n - 1)
<1>4. /\ a \in Seq(X) /\ Len(a) = m - 1
      /\ b \in Seq(X) /\ Len(b) = n - m
      /\ ToSet(a) \cup ToSet(b) = ToSet(p)
  <2>1. m \in 1 .. (Len(p) + 1) /\ (Len(p) - m) + 1 = n - m
    BY <1>2
  <2>2. /\ SubSeq(p, 1, m - 1) \in Seq(X) /\ Len(SubSeq(p, 1, m - 1)) = m - 1
        /\ SubSeq(p, m, Len(p)) \in Seq(X) /\ Len(SubSeq(p, m, Len(p))) = (Len(p) - m) + 1
        /\ ToSet(SubSeq(p, 1, m - 1)) \cup ToSet(SubSeq(p, m, Len(p))) = ToSet(p)
    BY <2>1, ToSetCut, Zenon
  <2> QED
    BY <2>1, <2>2, Zenon
<1> HIDE DEF a, b
<1> DEFINE u == <<n>>
<1>5. u \in Seq(X) /\ Len(u) = 1 /\ ToSet(u) = {n}
  BY DEF ToSet
<1> HIDE DEF u
<1>6. a \o u \in Seq(X) /\ Len(a \o u) = m /\ ToSet(a \o u) = ToSet(a) \cup {n}
  <2>1. a \in Seq(X) /\ u \in Seq(X)
    BY <1>4, <1>5, Zenon
  <2>2. /\ a \o u \in Seq(X) /\ Len(a \o u) = Len(a) + Len(u)
        /\ ToSet(a \o u) = ToSet(a) \cup ToSet(u)
    BY <2>1, ToSetConcat
  <2> QED
    BY <2>2, <1>2, <1>4, <1>5
<1> DEFINE c == a \o u
<1> HIDE DEF c
<1>7. c \o b \in Seq(X) /\ Len(c \o b) = n /\ ToSet(c \o b) = ToSet(c) \cup ToSet(b)
  <2>1. c \in Seq(X) /\ Len(c) = m
    BY <1>6 DEF c
  <2>2. c \in Seq(X) /\ b \in Seq(X)
    BY <2>1, <1>4, Zenon
  <2>3. /\ c \o b \in Seq(X) /\ Len(c \o b) = Len(c) + Len(b)
        /\ ToSet(c \o b) = ToSet(c) \cup ToSet(b)
    BY <2>2, ToSetConcat
  <2> QED
    BY <2>1, <2>3, <1>2, <1>4
<1>8. ToSet(c) \cup ToSet(b) = ToSet(p) \cup {n}
  BY <1>4, <1>6, Zenon DEF c
<1>9. Inserted(p, n, R) = c \o b
  BY <1>3, Zenon DEF a, b, c, u
<1> QED
  BY <1>7, <1>8, <1>9, Zenon

(* Sorting loses nothing and adds nothing.                                 *)
LEMMA ArrangedFacts ==
    ASSUME NEW X, NEW s \in Seq(X), NEW R
    PROVE  /\ Arranged(s, R) \in Seq(X) /\ Len(Arranged(s, R)) = Len(s)
           /\ ToSet(Arranged(s, R)) = ToSet(s)
<1> DEFINE N == Len(s)
           P == 1 .. N
           D == Seq(P)
           Next(p, n) == IF Len(p) = n - 1 THEN Inserted(p, n, R) ELSE p
           Body(f, n) == IF n = 0 THEN <<>> ELSE Inserted(f[n - 1], n, R)
           step == [n \in 1 .. N |-> [p \in D |-> Next(p, n)]]
           order == CHOOSE f : f = [n \in 0 .. N |-> Body(f, n)]
           arranged == [i \in DOMAIN s |-> s[order[N][i]]]
<1>1. N \in Nat /\ DOMAIN s = P /\ \A n \in P : s[n] \in X
  OBVIOUS
<1>2. Arranged(s, R) = arranged
  BY Zenon DEF Arranged
<1>3. \A f, n : n # 0 => Body(f, n) = Inserted(f[n - 1], n, R)
  BY Zenon
<1>4. \A f : Body(f, 0) = <<>>
  BY Zenon
<1>5. <<>> \in D /\ Len(<<>>) = 0 /\ ToSet(<<>>) = {}
  BY DEF ToSet
<1> HIDE DEF N, Body
<1>6. \A n \in 1 .. N : /\ n - 1 \in 0 .. N /\ n \in 0 .. N /\ n # 0 /\ n \in Nat \ {0} /\ n \in P
  BY <1>1
<1>7. 0 \in 0 .. N /\ N \in 0 .. N
  BY <1>1
<1>8. ASSUME NEW p \in D, NEW n \in 1 .. N, Len(p) = n - 1
      PROVE  /\ Inserted(p, n, R) \in D /\ Len(Inserted(p, n, R)) = n
             /\ ToSet(Inserted(p, n, R)) = ToSet(p) \cup {n}
  <2>1. p \in Seq(P) /\ n \in Nat \ {0} /\ n \in P /\ Len(p) = n - 1
    BY <1>6, <1>8, Zenon
  <2> HIDE DEF P
  <2> QED
    BY <2>1, InsertedFacts
<1> HIDE DEF D
<1>9. \A p \in D, n \in 1 .. N : Next(p, n) \in D
  BY <1>8, Zenon
<1>10. \A p \in D, n \in 1 .. N : Len(p) = n - 1 => Next(p, n) = Inserted(p, n, R)
  BY Zenon
<1> HIDE DEF Next
<1>11. step \in [1 .. N -> [D -> D]]
  BY <1>9, Zenon
<1>12. \A n \in 1 .. N, p \in D : step[n][p] = Next(p, n)
  OBVIOUS
<1> HIDE DEF step
<1>13. \E f : f = [n \in 0 .. N |-> Body(f, n)]
  <2>1. PICK f \in [0 .. N -> D] : Iterates(f, N, <<>>, step)
    BY <1>1, <1>5, <1>11, Recursion, Zenon
  <2> DEFINE T == {n \in 0 .. N : Len(f[n]) = n}
  <2>2. 0 \in T
    BY <2>1, <1>5, <1>7, Zenon DEF Iterates
  <2>3. \A n \in 0 .. N : n \in T /\ n < N => n + 1 \in T
    <3> SUFFICES ASSUME NEW n \in 0 .. N, n \in T, n < N PROVE n + 1 \in T
      OBVIOUS
    <3>1. n + 1 \in 1 .. N /\ (n + 1) - 1 = n /\ n + 1 \in 0 .. N
      BY <1>1
    <3>2. f[n + 1] = step[n + 1][f[n]] /\ f[n] \in D /\ Len(f[n]) = (n + 1) - 1
      BY <3>1, <2>1, Zenon DEF Iterates
    <3>3. f[n + 1] = Inserted(f[n], n + 1, R)
      BY <3>1, <3>2, <1>10, <1>12, Zenon
    <3> QED
      BY <3>1, <3>2, <3>3, <1>8, Zenon
  <2>4. \A n \in 0 .. N : n \in T
    <3> HIDE DEF T
    <3> QED
      BY <1>1, <2>2, <2>3, UpTo
  <2>5. ASSUME NEW n \in 0 .. N PROVE f[n] = Body(f, n)
    <3>1. CASE n = 0
      BY <3>1, <1>4, <2>1, Zenon DEF Iterates
    <3>2. CASE n # 0
      <4>1. n \in 1 .. N
        BY <3>2, <1>1
      <4>2. f[n] = step[n][f[n - 1]] /\ f[n - 1] \in D /\ Len(f[n - 1]) = n - 1
        BY <4>1, <1>6, <2>1, <2>4, Zenon DEF Iterates
      <4>3. step[n][f[n - 1]] = Inserted(f[n - 1], n, R)
        BY <4>1, <4>2, <1>10, <1>12, Zenon
      <4>4. Body(f, n) = Inserted(f[n - 1], n, R)
        BY <3>2, <1>3, Zenon
      <4> QED
        BY <4>2, <4>3, <4>4, Zenon
    <3> QED
      BY <3>1, <3>2, Zenon
  <2> QED
    BY <2>1, <2>5, Zenon
<1>14. order = [n \in 0 .. N |-> Body(order, n)]
  BY <1>13, Zenon
<1> HIDE DEF order
<1>15. \A n \in 0 .. N : order[n] = Body(order, n)
  BY <1>14, Zenon
<1> DEFINE T == {n \in 0 .. N : order[n] \in D /\ Len(order[n]) = n /\ ToSet(order[n]) = 1 .. n}
<1>16. 0 \in T
  <2>1. order[0] = <<>>
    BY <1>4, <1>7, <1>15, Zenon
  <2>2. 1 .. 0 = {}
    OBVIOUS
  <2> QED
    BY <2>1, <2>2, <1>5, <1>7, Zenon
<1>17. \A n \in 0 .. N : n \in T /\ n < N => n + 1 \in T
  <2> SUFFICES ASSUME NEW n \in 0 .. N, n \in T, n < N PROVE n + 1 \in T
    OBVIOUS
  <2>1. n + 1 \in 1 .. N /\ (n + 1) - 1 = n /\ n + 1 \in 0 .. N /\ n + 1 # 0
    BY <1>1
  <2>2. order[n + 1] = Inserted(order[n], n + 1, R)
    BY <2>1, <1>3, <1>15, Zenon
  <2>3. order[n] \in D /\ Len(order[n]) = (n + 1) - 1 /\ ToSet(order[n]) = 1 .. n
    BY <2>1, Zenon
  <2>4. (1 .. n) \cup {n + 1} = 1 .. (n + 1)
    BY <1>1
  <2>5. /\ order[n + 1] \in D /\ Len(order[n + 1]) = n + 1
        /\ ToSet(order[n + 1]) = ToSet(order[n]) \cup {n + 1}
    BY <2>1, <2>2, <2>3, <1>8, Zenon
  <2> QED
    BY <2>1, <2>3, <2>4, <2>5, Zenon
<1>18. order[N] \in Seq(P) /\ Len(order[N]) = N /\ ToSet(order[N]) = P
  <2>1. \A n \in 0 .. N : n \in T
    <3> HIDE DEF T
    <3> QED
      BY <1>1, <1>16, <1>17, UpTo
  <2> QED
    BY <2>1, <1>7, Zenon DEF D
<1> DEFINE o == order[N]
<1> HIDE DEF o
<1>19. DOMAIN o = P /\ \A i \in P : o[i] \in P
  <2> HIDE DEF P
  <2>1. o \in Seq(P) /\ Len(o) = N
    BY <1>18 DEF o
  <2>2. DOMAIN o = 1 .. N /\ \A i \in 1 .. N : o[i] \in P
    BY <2>1, <1>1
  <2> QED
    BY <2>2 DEF P
<1>20. arranged = [i \in P |-> s[o[i]]]
  BY <1>1, Zenon DEF o
<1>21. arranged \in [P -> X]
  BY <1>1, <1>19, <1>20, Zenon
<1>22. arranged \in Seq(X) /\ Len(arranged) = N /\ DOMAIN arranged = P
  <2> HIDE DEF arranged
  <2> QED
    BY <1>1, <1>21
<1>23. ToSet(arranged) = ToSet(s)
  <2>1. \A i \in P : arranged[i] = s[o[i]]
    BY <1>20, Zenon
  <2>2. \A j \in P : \E i \in P : o[i] = j
    BY <1>18, <1>19, Zenon DEF o, ToSet
  <2> HIDE DEF arranged, P
  <2> QED
    <3>1. ASSUME NEW i \in P PROVE arranged[i] \in ToSet(s)
      <4>1. o[i] \in DOMAIN s /\ arranged[i] = s[o[i]]
        BY <2>1, <1>1, <1>19, Zenon
      <4> QED
        BY <4>1, Zenon DEF ToSet
    <3>2. ASSUME NEW j \in P PROVE s[j] \in ToSet(arranged)
      <4>1. PICK i \in P : o[i] = j
        BY <2>2, Zenon
      <4>2. i \in DOMAIN arranged /\ arranged[i] = s[j]
        BY <4>1, <2>1, <1>22, Zenon
      <4> QED
        BY <4>2, Zenon DEF ToSet
    <3>3. DOMAIN s = P /\ DOMAIN arranged = P
      BY <1>1, <1>22, Zenon
    <3> QED
      BY <3>1, <3>2, <3>3, Zenon DEF ToSet
<1> QED
  BY <1>2, <1>22, <1>23, Zenon DEF N

(* i is the first place of s whose element is in S.                        *)
FirstAt(i, s, S) ==
    i \in DOMAIN s /\ s[i] \in S /\ \A j \in DOMAIN s : s[j] \in S => i <= j

(* FirstIn has the element of that place, or there is none.                *)
LEMMA FirstInFacts ==
    ASSUME NEW X, NEW s \in Seq(X), NEW S, NEW d
    PROVE  \/ ToSet(s) \cap S = {} /\ FirstIn(s, S, d) = d
           \/ \E i \in DOMAIN s : FirstAt(i, s, S) /\ FirstIn(s, S, d) = s[i]
<1> DEFINE places == {i \in DOMAIN s : s[i] \in S}
           m == CHOOSE i \in places : \A j \in places : i <= j
<1>1. places \subseteq Nat
  OBVIOUS
<1>2. FirstIn(s, S, d) = IF places = {} THEN d ELSE s[m]
  BY Zenon DEF FirstIn
<1>3. CASE places = {}
  <2>1. ToSet(s) \cap S = {}
    BY <1>3, Zenon DEF ToSet
  <2> QED
    BY <2>1, <1>2, <1>3, Zenon
<1>4. CASE places # {}
  <2>1. \E i \in places : \A j \in places : i <= j
    <3> HIDE DEF places
    <3> QED
      BY <1>1, <1>4, Least
  <2>2. m \in places /\ \A j \in places : m <= j
    <3> HIDE DEF places
    <3> QED
      BY <2>1, Zenon
  <2> HIDE DEF m
  <2>3. FirstAt(m, s, S) /\ m \in DOMAIN s
    BY <2>2, Zenon DEF FirstAt
  <2> QED
    BY <1>2, <1>4, <2>3, Zenon
<1> QED
  BY <1>3, <1>4, Zenon

(* There is one first place.                                               *)
LEMMA FirstInAt ==
    ASSUME NEW X, NEW s \in Seq(X), NEW S, NEW d, NEW i, FirstAt(i, s, S)
    PROVE  FirstIn(s, S, d) = s[i] /\ ToSet(s) \cap S # {}
<1>1. ToSet(s) \cap S # {}
  BY Zenon DEF FirstAt, ToSet
<1>2. PICK k \in DOMAIN s : FirstAt(k, s, S) /\ FirstIn(s, S, d) = s[k]
  BY <1>1, FirstInFacts, Zenon
<1>3. i \in DOMAIN s /\ i <= k /\ k <= i
  BY <1>2, Zenon DEF FirstAt
<1>4. i = k
  <2>1. i \in Nat /\ k \in Nat
    BY <1>3
  <2> QED
    BY <1>3, <2>1
<1> QED
  BY <1>1, <1>2, <1>4, Zenon

(* The first element of s in S and that of t in T are at the same place,   *)
(* or there is neither.                                                    *)
SameFirst(s, S, d, t, T, e) ==
    \/ /\ ToSet(s) \cap S = {} /\ ToSet(t) \cap T = {}
       /\ FirstIn(s, S, d) = d /\ FirstIn(t, T, e) = e
    \/ \E i \in DOMAIN s : /\ s[i] \in S /\ t[i] \in T
                           /\ FirstIn(s, S, d) = s[i] /\ FirstIn(t, T, e) = t[i]

(* Sequences that agree at every place on what is looked for.              *)
LEMMA FirstInSame ==
    ASSUME NEW X, NEW s \in Seq(X), NEW Y, NEW t \in Seq(Y), NEW S, NEW T, NEW d, NEW e,
           DOMAIN s = DOMAIN t, \A i \in DOMAIN s : s[i] \in S <=> t[i] \in T
    PROVE  SameFirst(s, S, d, t, T, e)
<1>1. CASE ToSet(s) \cap S = {} /\ FirstIn(s, S, d) = d
  <2>1. ToSet(t) \cap T = {}
    BY <1>1, Zenon DEF ToSet
  <2>2. \A i \in DOMAIN t : ~FirstAt(i, t, T)
    BY <2>1, Zenon DEF ToSet, FirstAt
  <2>3. FirstIn(t, T, e) = e
    BY <2>2, FirstInFacts, Zenon
  <2> QED
    BY <1>1, <2>1, <2>3, Zenon DEF SameFirst
<1>2. ASSUME NEW i \in DOMAIN s, FirstAt(i, s, S), FirstIn(s, S, d) = s[i]
      PROVE  s[i] \in S /\ t[i] \in T /\ FirstIn(t, T, e) = t[i]
  <2>1. s[i] \in S /\ FirstAt(i, t, T)
    BY <1>2, Zenon DEF FirstAt
  <2>2. FirstIn(t, T, e) = t[i]
    BY <2>1, FirstInAt, Zenon
  <2> QED
    BY <2>1, <2>2, Zenon DEF FirstAt
<1>3. \/ ToSet(s) \cap S = {} /\ FirstIn(s, S, d) = d
      \/ \E i \in DOMAIN s : FirstAt(i, s, S) /\ FirstIn(s, S, d) = s[i]
  BY FirstInFacts, Zenon
<1> QED
  BY <1>1, <1>2, <1>3, Zenon DEF SameFirst

(* The first element of two sequences one behind the other.                *)
LEMMA FirstInConcat ==
    ASSUME NEW X, NEW s \in Seq(X), NEW t \in Seq(X), NEW S, NEW d
    PROVE  /\ ToSet(s) \cap S # {} => FirstIn(s \o t, S, d) = FirstIn(s, S, d)
           /\ ToSet(s) \cap S = {} => FirstIn(s \o t, S, d) = FirstIn(t, S, d)
<1> DEFINE u == s \o t
<1>1. /\ u \in Seq(X) /\ Len(s) \in Nat /\ Len(t) \in Nat
      /\ DOMAIN s = 1 .. Len(s) /\ DOMAIN t = 1 .. Len(t)
      /\ DOMAIN u = 1 .. (Len(s) + Len(t))
      /\ \A i \in 1 .. Len(s) : u[i] = s[i]
      /\ \A i \in 1 .. Len(t) : u[Len(s) + i] = t[i]
  OBVIOUS
<1>2. ASSUME NEW j \in DOMAIN u, j \notin DOMAIN s
      PROVE  j - Len(s) \in DOMAIN t /\ Len(s) + (j - Len(s)) = j /\ u[j] = t[j - Len(s)]
  <2>1. j - Len(s) \in DOMAIN t /\ Len(s) + (j - Len(s)) = j
    BY <1>1, <1>2
  <2> QED
    BY <1>1, <2>1
<1>3. u \in Seq(X)
  BY <1>1
<1> HIDE DEF u
<1>4. ASSUME ToSet(s) \cap S # {} PROVE FirstIn(u, S, d) = FirstIn(s, S, d)
  <2>1. PICK i \in DOMAIN s : FirstAt(i, s, S) /\ FirstIn(s, S, d) = s[i]
    BY <1>4, FirstInFacts, Zenon
  <2>2. i \in DOMAIN u /\ u[i] = s[i]
    BY <1>1
  <2>3. ASSUME NEW j \in DOMAIN u, u[j] \in S PROVE i <= j
    <3>1. CASE j \in DOMAIN s
      <4>1. u[j] = s[j]
        BY <3>1, <1>1, Zenon
      <4> QED
        BY <4>1, <3>1, <2>1, <2>3, Zenon DEF FirstAt
    <3>2. CASE j \notin DOMAIN s
      BY <3>2, <1>1
    <3> QED
      BY <3>1, <3>2
  <2>4. FirstAt(i, u, S)
    BY <2>1, <2>2, <2>3, Zenon DEF FirstAt
  <2>5. FirstIn(u, S, d) = u[i]
    BY <2>4, <1>3, FirstInAt, Zenon
  <2> QED
    BY <2>1, <2>2, <2>5, Zenon
<1>5. ASSUME ToSet(s) \cap S = {} PROVE FirstIn(u, S, d) = FirstIn(t, S, d)
  <2>1. \A i \in DOMAIN s : u[i] \notin S
    <3>1. \A i \in DOMAIN s : s[i] \notin S
      BY <1>5, Zenon DEF ToSet
    <3> QED
      BY <3>1, <1>1, Zenon
  <2>2. CASE ToSet(t) \cap S = {} /\ FirstIn(t, S, d) = d
    <3>1. \A i \in DOMAIN t : t[i] \notin S
      BY <2>2, Zenon DEF ToSet
    <3>2. \A j \in DOMAIN u : u[j] \notin S
      BY <2>1, <3>1, <1>2, Zenon
    <3>3. \A j \in DOMAIN u : ~FirstAt(j, u, S)
      BY <3>2, Zenon DEF FirstAt
    <3>4. FirstIn(u, S, d) = d
      BY <3>3, <1>3, FirstInFacts, Zenon
    <3> QED
      BY <2>2, <3>4, Zenon
  <2>3. ASSUME NEW i \in DOMAIN t, FirstAt(i, t, S), FirstIn(t, S, d) = t[i]
        PROVE  FirstIn(u, S, d) = FirstIn(t, S, d)
    <3>1. Len(s) + i \in DOMAIN u /\ u[Len(s) + i] = t[i]
      BY <1>1
    <3>2. ASSUME NEW j \in DOMAIN u, u[j] \in S PROVE Len(s) + i <= j
      <4>1. j \notin DOMAIN s
        BY <2>1, <3>2, Zenon
      <4>2. i <= j - Len(s)
        BY <4>1, <1>2, <2>3, <3>2, Zenon DEF FirstAt
      <4> QED
        BY <4>2, <1>1
    <3>3. FirstAt(Len(s) + i, u, S)
      BY <3>1, <3>2, <2>3, Zenon DEF FirstAt
    <3>4. FirstIn(u, S, d) = u[Len(s) + i]
      BY <3>3, <1>3, FirstInAt, Zenon
    <3> QED
      BY <3>1, <3>4, <2>3, Zenon
  <2>4. \/ ToSet(t) \cap S = {} /\ FirstIn(t, S, d) = d
        \/ \E i \in DOMAIN t : FirstAt(i, t, S) /\ FirstIn(t, S, d) = t[i]
    BY FirstInFacts, Zenon
  <2> QED
    BY <2>2, <2>3, <2>4, Zenon
<1> QED
  BY <1>4, <1>5, Zenon DEF u

(* The first element of a sequence to which one is appended.               *)
LEMMA FirstInAppend ==
    ASSUME NEW X, NEW s \in Seq(X), NEW x \in X, NEW S, NEW d
    PROVE  /\ ToSet(s) \cap S # {} => FirstIn(Append(s, x), S, d) = FirstIn(s, S, d)
           /\ ToSet(s) \cap S = {} => FirstIn(Append(s, x), S, d) = IF x \in S THEN x ELSE d
<1> DEFINE t == <<x>>
<1>1. Append(s, x) = s \o t
  OBVIOUS
<1>2. t \in Seq(X) /\ DOMAIN t = {1} /\ t[1] = x
  OBVIOUS
<1> HIDE DEF t
<1>3. /\ ToSet(s) \cap S # {} => FirstIn(s \o t, S, d) = FirstIn(s, S, d)
      /\ ToSet(s) \cap S = {} => FirstIn(s \o t, S, d) = FirstIn(t, S, d)
  BY <1>2, FirstInConcat
<1>4. FirstIn(t, S, d) = IF x \in S THEN x ELSE d
  <2>1. CASE x \in S
    <3>1. FirstAt(1, t, S)
      BY <1>2, <2>1 DEF FirstAt
    <3>2. FirstIn(t, S, d) = t[1]
      BY <1>2, <3>1, FirstInAt, Zenon
    <3> QED
      BY <1>2, <2>1, <3>2, Zenon
  <2>2. CASE x \notin S
    <3>1. \A i \in DOMAIN t : ~FirstAt(i, t, S)
      BY <1>2, <2>2, Zenon DEF FirstAt
    <3>2. FirstIn(t, S, d) = d
      BY <1>2, <3>1, FirstInFacts, Zenon
    <3> QED
      BY <2>2, <3>2, Zenon
  <2> QED
    BY <2>1, <2>2, Zenon
<1> QED
  BY <1>1, <1>3, <1>4, Zenon

(* The first n elements of a sequence                                      *)
Front(s, n) == [i \in 1 .. n |-> s[i]]

(* One more element.                                                       *)
LEMMA FrontFacts ==
    ASSUME NEW X, NEW s \in Seq(X)
    PROVE  /\ Front(s, 0) = <<>> /\ Front(s, Len(s)) = s
           /\ \A n \in 0 .. Len(s) : Front(s, n) \in Seq(X)
           /\ \A n \in 0 .. Len(s) : n < Len(s) => Front(s, n + 1) = Append(Front(s, n), s[n + 1])
<1>1. Front(s, 0) = <<>> /\ Front(s, Len(s)) = s
  BY DEF Front
<1>2. ASSUME NEW n \in 0 .. Len(s)
      PROVE  Front(s, n) \in Seq(X) /\ Len(Front(s, n)) = n /\ Front(s, n) = [i \in 1 .. n |-> s[i]]
  <2>1. Front(s, n) \in [1 .. n -> X] /\ n \in Nat
    BY DEF Front
  <2> QED
    BY <2>1 DEF Front
<1>3. ASSUME NEW n \in 0 .. Len(s), n < Len(s)
      PROVE  Front(s, n + 1) = Append(Front(s, n), s[n + 1])
  <2>1. n \in Nat /\ n + 1 \in 0 .. Len(s) /\ s[n + 1] \in X
    BY <1>3
  <2> DEFINE a == Front(s, n)
             b == Front(s, n + 1)
  <2>2. a \in Seq(X) /\ Len(a) = n /\ a = [i \in 1 .. n |-> s[i]]
    BY <1>2
  <2>3. b \in Seq(X) /\ Len(b) = n + 1 /\ b = [i \in 1 .. (n + 1) |-> s[i]]
    BY <1>2, <2>1
  <2> HIDE DEF a, b
  <2> QED
    <3>1. b = Append(a, s[n + 1])
      BY <2>1, <2>2, <2>3
    <3> QED
      BY <3>1 DEF a, b
<1> QED
  BY <1>1, <1>2, <1>3, Zenon

(* What is looked for in what was kept is looked for among the kept.       *)
LEMMA FirstInKeep ==
    ASSUME NEW X, NEW s \in Seq(X), NEW S, NEW T, NEW d
    PROVE  FirstIn(Keep(s, T), S, d) = FirstIn(s, S \cap T, d)
<1>1. PICK g \in [0 .. Len(s) -> Seq(X)] :
          KeepRounds(g, s, T) /\ Keep(s, T) = g[Len(s)]
  BY KeepLoop, Zenon
<1> DEFINE N == Len(s)
           Same == {n \in 0 .. N : /\ ToSet(g[n]) = ToSet(Front(s, n)) \cap T
                                   /\ FirstIn(g[n], S, d) = FirstIn(Front(s, n), S \cap T, d)}
<1>2. N \in Nat /\ 0 \in 0 .. N /\ N \in 0 .. N /\ \A n \in 1 .. N : s[n] \in X
  OBVIOUS
<1>3. /\ Front(s, 0) = <<>> /\ Front(s, N) = s
      /\ \A n \in 0 .. N : Front(s, n) \in Seq(X)
      /\ \A n \in 0 .. N : n < N => Front(s, n + 1) = Append(Front(s, n), s[n + 1])
  BY FrontFacts
<1> HIDE DEF N
<1>4. 0 \in Same
  <2>1. DOMAIN <<>> = {} /\ ToSet(<<>>) = {}
    BY DEF ToSet
  <2>2. \A A : FirstIn(<<>>, A, d) = d
    BY <2>1, Zenon DEF FirstIn
  <2>3. g[0] = <<>>
    BY <1>1, Zenon DEF KeepRounds
  <2> QED
    BY <2>1, <2>2, <2>3, <1>2, <1>3, Zenon
<1>5. \A n \in 0 .. N : n \in Same /\ n < N => n + 1 \in Same
  <2> SUFFICES ASSUME NEW n \in 0 .. N, n \in Same, n < N PROVE n + 1 \in Same
    OBVIOUS
  <2> DEFINE x == s[n + 1]
             a == g[n]
             b == Front(s, n)
  <2>1. n + 1 \in 1 .. N /\ (n + 1) - 1 = n /\ n + 1 \in 0 .. N
    BY <1>2
  <2>2. a \in Seq(X) /\ b \in Seq(X) /\ x \in X
    BY <2>1, <1>1, <1>2, <1>3, Zenon DEF N
  <2>3. ToSet(a) = ToSet(b) \cap T /\ FirstIn(a, S, d) = FirstIn(b, S \cap T, d)
    BY Zenon
  <2>4. g[n + 1] = IF x \in T THEN Append(a, x) ELSE a
    BY <2>1, <1>1, Zenon DEF KeepRounds, N
  <2>5. Front(s, n + 1) = Append(b, x)
    BY <1>3, Zenon
  <2> HIDE DEF x, a, b
  <2>6. ToSet(Append(b, x)) = ToSet(b) \cup {x} /\ ToSet(Append(a, x)) = ToSet(a) \cup {x}
    BY <2>2, ToSetAppend
  <2>7. /\ ToSet(b) \cap (S \cap T) # {} => FirstIn(Append(b, x), S \cap T, d) = FirstIn(b, S \cap T, d)
        /\ ToSet(b) \cap (S \cap T) = {} =>
               FirstIn(Append(b, x), S \cap T, d) = IF x \in S \cap T THEN x ELSE d
    <3> DEFINE U == S \cap T
    <3> HIDE DEF U
    <3>1. /\ ToSet(b) \cap U # {} => FirstIn(Append(b, x), U, d) = FirstIn(b, U, d)
          /\ ToSet(b) \cap U = {} => FirstIn(Append(b, x), U, d) = IF x \in U THEN x ELSE d
      BY <2>2, FirstInAppend
    <3> QED
      BY <3>1, Zenon DEF U
  <2>8. /\ ToSet(a) \cap S # {} => FirstIn(Append(a, x), S, d) = FirstIn(a, S, d)
        /\ ToSet(a) \cap S = {} => FirstIn(Append(a, x), S, d) = IF x \in S THEN x ELSE d
    BY <2>2, FirstInAppend
  <2>9. ToSet(b) \cap (S \cap T) = ToSet(a) \cap S
    BY <2>3, Zenon
  <2>10. ToSet(a) \cap S = {} => FirstIn(a, S, d) = d
    <3>1. ASSUME ToSet(a) \cap S = {} PROVE \A i \in DOMAIN a : ~FirstAt(i, a, S)
      BY <3>1, Zenon DEF ToSet, FirstAt
    <3> QED
      BY <2>2, <3>1, FirstInFacts, Zenon
  <2>11. ToSet(g[n + 1]) = ToSet(Front(s, n + 1)) \cap T
    BY <2>3, <2>4, <2>5, <2>6
  <2>12. FirstIn(g[n + 1], S, d) = FirstIn(Front(s, n + 1), S \cap T, d)
    <3>1. CASE ToSet(a) \cap S # {}
      BY <3>1, <2>3, <2>4, <2>5, <2>7, <2>8, <2>9, Zenon
    <3>2. CASE ToSet(a) \cap S = {} /\ x \in T
      BY <3>2, <2>4, <2>5, <2>7, <2>8, <2>9, Zenon
    <3>3. CASE ToSet(a) \cap S = {} /\ x \notin T
      BY <3>3, <2>4, <2>5, <2>7, <2>9, <2>10, Zenon
    <3> QED
      BY <3>1, <3>2, <3>3, Zenon
  <2> QED
    BY <2>1, <2>11, <2>12, Zenon
<1>6. \A n \in 0 .. N : n \in Same
  <2> HIDE DEF Same
  <2> QED
    BY <1>2, <1>4, <1>5, UpTo
<1> QED
  BY <1>1, <1>2, <1>3, <1>6, Zenon DEF N

(* Everything is kept, or nothing.                                         *)
LEMMA KeepAll ==
    ASSUME NEW X, NEW s \in Seq(X), NEW S
    PROVE  /\ ToSet(s) \subseteq S => Keep(s, S) = s
           /\ ToSet(s) \cap S = {} => Keep(s, S) = <<>>
<1>1. PICK g \in [0 .. Len(s) -> Seq(X)] :
          KeepRounds(g, s, S) /\ Keep(s, S) = g[Len(s)]
  BY KeepLoop, Zenon
<1> DEFINE N == Len(s)
           Kept == {n \in 0 .. N : g[n] = Front(s, n)}
           Nothing == {n \in 0 .. N : g[n] = <<>>}
<1>2. N \in Nat /\ 0 \in 0 .. N /\ N \in 0 .. N /\ DOMAIN s = 1 .. N
  OBVIOUS
<1>3. /\ Front(s, 0) = <<>> /\ Front(s, N) = s
      /\ \A n \in 0 .. N : n < N => Front(s, n + 1) = Append(Front(s, n), s[n + 1])
  BY FrontFacts
<1> HIDE DEF N
<1>4. 0 \in Kept /\ 0 \in Nothing
  BY <1>1, <1>2, <1>3, Zenon DEF KeepRounds
<1>5. \A n \in 0 .. N : n < N => n + 1 \in 1 .. N /\ (n + 1) - 1 = n /\ n + 1 \in 0 .. N
  BY <1>2
<1>6. \A n \in 0 .. N : n < N =>
          /\ s[n + 1] \in ToSet(s)
          /\ g[n + 1] = IF s[n + 1] \in S THEN Append(g[n], s[n + 1]) ELSE g[n]
  BY <1>1, <1>2, <1>5, Zenon DEF KeepRounds, ToSet, N
<1>7. ASSUME ToSet(s) \subseteq S PROVE Keep(s, S) = s
  <2>1. \A n \in 0 .. N : n \in Kept /\ n < N => n + 1 \in Kept
    BY <1>3, <1>5, <1>6, <1>7, Zenon
  <2>2. \A n \in 0 .. N : n \in Kept
    <3> HIDE DEF Kept
    <3> QED
      BY <1>2, <1>4, <2>1, UpTo
  <2> QED
    BY <1>1, <1>2, <1>3, <2>2, Zenon DEF N
<1>8. ASSUME ToSet(s) \cap S = {} PROVE Keep(s, S) = <<>>
  <2>1. \A n \in 0 .. N : n \in Nothing /\ n < N => n + 1 \in Nothing
    BY <1>5, <1>6, <1>8, Zenon
  <2>2. \A n \in 0 .. N : n \in Nothing
    <3> HIDE DEF Nothing
    <3> QED
      BY <1>2, <1>4, <2>1, UpTo
  <2> QED
    BY <1>1, <1>2, <2>2, Zenon DEF N
<1> QED
  BY <1>7, <1>8, Zenon

(* The first element of sequences one behind the other is one of the first *)
(* that has any.                                                           *)
LEMMA FirstInFlatten ==
    ASSUME NEW X, NEW ss \in Seq(Seq(X)), NEW S, NEW d
    PROVE  \/ /\ \A i \in DOMAIN ss : ToSet(ss[i]) \cap S = {}
              /\ FirstIn(FlattenSeq(ss), S, d) = d
           \/ \E i \in DOMAIN ss : /\ FirstIn(FlattenSeq(ss), S, d) \in ToSet(ss[i]) \cap S
                                   /\ \A j \in 1 .. (i - 1) : ToSet(ss[j]) \cap S = {}
<1>1. PICK g \in [0 .. Len(ss) -> Seq(X)] :
          FlattenRounds(g, ss) /\ FlattenSeq(ss) = g[Len(ss)]
  BY FlattenLoop, Zenon
<1> DEFINE N == Len(ss)
           Without(n) == /\ \A i \in 1 .. n : ToSet(ss[i]) \cap S = {}
                         /\ ToSet(g[n]) \cap S = {} /\ FirstIn(g[n], S, d) = d
           With(n) == /\ ToSet(g[n]) \cap S # {}
                      /\ \E i \in 1 .. n : /\ FirstIn(g[n], S, d) \in ToSet(ss[i]) \cap S
                                           /\ \A j \in 1 .. (i - 1) : ToSet(ss[j]) \cap S = {}
           T == {n \in 0 .. N : Without(n) \/ With(n)}
<1>2. /\ N \in Nat /\ 0 \in 0 .. N /\ N \in 0 .. N /\ DOMAIN ss = 1 .. N
      /\ \A n \in 1 .. N : ss[n] \in Seq(X)
  OBVIOUS
<1> HIDE DEF N
<1>3. 0 \in T
  <2>1. DOMAIN <<>> = {} /\ ToSet(<<>>) = {} /\ 1 .. 0 = {}
    BY DEF ToSet
  <2>2. FirstIn(<<>>, S, d) = d
    BY <2>1, Zenon DEF FirstIn
  <2>3. g[0] = <<>>
    BY <1>1, Zenon DEF FlattenRounds
  <2> QED
    BY <2>1, <2>2, <2>3, <1>2, Zenon
<1>4. \A n \in 0 .. N : n \in T /\ n < N => n + 1 \in T
  <2> SUFFICES ASSUME NEW n \in 0 .. N, n \in T, n < N PROVE n + 1 \in T
    OBVIOUS
  <2>1. n + 1 \in 1 .. N /\ (n + 1) - 1 = n /\ n + 1 \in 0 .. N
    BY <1>2
  <2>2. 1 .. (n + 1) = (1 .. n) \cup {n + 1} /\ n + 1 \in 1 .. (n + 1)
    BY <1>2
  <2> DEFINE a == g[n]
             b == ss[n + 1]
  <2>3. g[n + 1] = a \o b
    BY <2>1, <1>1, Zenon DEF FlattenRounds, N
  <2>4. a \in Seq(X) /\ b \in Seq(X)
    BY <2>1, <1>1, <1>2, Zenon DEF N
  <2> HIDE DEF a, b
  <2>5. ToSet(a \o b) = ToSet(a) \cup ToSet(b)
    BY <2>4, ToSetConcat
  <2>6. /\ ToSet(a) \cap S # {} => FirstIn(a \o b, S, d) = FirstIn(a, S, d)
        /\ ToSet(a) \cap S = {} => FirstIn(a \o b, S, d) = FirstIn(b, S, d)
    BY <2>4, FirstInConcat
  <2>7. CASE With(n)
    <3>1. ToSet(g[n + 1]) \cap S # {}
      BY <2>3, <2>5, <2>7, Zenon DEF a
    <3>2. FirstIn(g[n + 1], S, d) = FirstIn(g[n], S, d)
      BY <2>3, <2>6, <2>7, Zenon DEF a
    <3> QED
      BY <3>1, <3>2, <2>1, <2>2, <2>7, Zenon
  <2>8. CASE Without(n)
    <3>1. FirstIn(g[n + 1], S, d) = FirstIn(b, S, d)
      BY <2>3, <2>6, <2>8, Zenon DEF a
    <3>2. ToSet(g[n + 1]) \cap S = ToSet(b) \cap S
      BY <2>3, <2>5, <2>8, Zenon DEF a
    <3>3. CASE ToSet(b) \cap S = {}
      <4>1. \A i \in DOMAIN b : ~FirstAt(i, b, S)
        BY <3>3, Zenon DEF ToSet, FirstAt
      <4>2. FirstIn(b, S, d) = d
        BY <4>1, <2>4, FirstInFacts, Zenon
      <4> QED
        BY <4>2, <3>1, <3>2, <3>3, <2>1, <2>2, <2>8, Zenon DEF b
    <3>4. CASE ToSet(b) \cap S # {}
      <4>1. PICK k \in DOMAIN b : FirstAt(k, b, S) /\ FirstIn(b, S, d) = b[k]
        BY <3>4, <2>4, FirstInFacts, Zenon
      <4>2. FirstIn(b, S, d) \in ToSet(b) \cap S
        BY <4>1, Zenon DEF FirstAt, ToSet
      <4>3. \A j \in 1 .. ((n + 1) - 1) : ToSet(ss[j]) \cap S = {}
        BY <2>1, <2>8, Zenon
      <4> QED
        BY <4>2, <4>3, <3>1, <3>2, <3>4, <2>1, <2>2, Zenon DEF b
    <3> QED
      BY <3>3, <3>4, Zenon
  <2> QED
    BY <2>7, <2>8, Zenon
<1>5. \A n \in 0 .. N : n \in T
  <2> HIDE DEF T
  <2> QED
    BY <1>2, <1>3, <1>4, UpTo
<1> QED
  BY <1>1, <1>2, <1>5, Zenon DEF N

(* Only the elements of the sequence matter.                               *)
LEMMA FirstInOnly ==
    ASSUME NEW s, NEW S, NEW T, NEW d, \A i \in DOMAIN s : s[i] \in S <=> s[i] \in T
    PROVE  FirstIn(s, S, d) = FirstIn(s, T, d)
<1> DEFINE A == {i \in DOMAIN s : s[i] \in S}
           B == {i \in DOMAIN s : s[i] \in T}
           First(P) == IF P = {} THEN d ELSE s[CHOOSE i \in P : \A j \in P : i <= j]
<1>1. A = B
  BY Zenon
<1>2. FirstIn(s, S, d) = First(A) /\ FirstIn(s, T, d) = First(B)
  BY Zenon DEF FirstIn
<1> HIDE DEF A, B, First
<1> QED
  BY <1>1, <1>2, Zenon

(* One sequence alone is as it was.                                        *)
LEMMA FlattenOne ==
    ASSUME NEW X, NEW ss \in Seq(Seq(X)), Len(ss) = 1
    PROVE  FlattenSeq(ss) = ss[1]
<1>1. PICK g \in [0 .. Len(ss) -> Seq(X)] :
          FlattenRounds(g, ss) /\ FlattenSeq(ss) = g[Len(ss)]
  BY FlattenLoop, Zenon
<1>2. g[0] = <<>> /\ g[1] = g[1 - 1] \o ss[1]
  BY <1>1 DEF FlattenRounds
<1>3. ss[1] \in Seq(X)
  <2> DEFINE Y == Seq(X)
  <2> HIDE DEF Y
  <2>1. ss \in Seq(Y)
    BY DEF Y
  <2>2. ss[1] \in Y
    BY <2>1, SeqFacts
  <2> QED
    BY <2>2 DEF Y
<1>4. <<>> \o ss[1] = ss[1]
  BY <1>3
<1>5. g[1] = ss[1]
  <2>1. 1 - 1 = 0
    OBVIOUS
  <2> QED
    BY <2>1, <1>2, <1>4, Zenon
<1> QED
  BY <1>1, <1>5, Zenon
==============================================================================
