-------------------------- MODULE QueryStatsProofs --------------------------
(***************************************************************************)
(* Proofs about QueryText and QueryStats for all databases, batches and    *)
(* sizes of the bit vector.                                                *)
(*                                                                         *)
(* What is read: the parts of a joined text lie one behind the other with  *)
(* a separator between two of them (Laid), so that Split gives them back   *)
(* (SplitLaid).  The first scan counts one sign for each predicate         *)
(* (PredicatesCounted), the second makes of each what was written          *)
(* (FieldsRead), and both agree on its kind (ReadBack).                    *)
(*                                                                         *)
(* What is loaded: the least and the greatest value of a column are values *)
(* of it, so a bit is at most the span away from bit 0 and the words that  *)
(* are allocated hold it (BitsFit); where the span is at most N different  *)
(* values have different bits (DistinctCounted).                           *)
(*                                                                         *)
(* What a query makes of it: EstimatesInv says that the statistics still   *)
(* expect every row that is left.  A filter keeps the values it lets       *)
(* through in its column (FilterKeepsItsRows), and what it does to the     *)
(* other columns makes none of them empty (OthersKeep); so it keeps the    *)
(* rows of its relation (FilterOfRelation), and so does a self join whose  *)
(* range is not empty (SelfJoinOfRelation).  The invariant carries three   *)
(* facts that EstimatesSound does not state: bit 0 stays set, and during   *)
(* the filters distinct values never outnumber rows unless that has been   *)
(* recorded, which = needs; the columns agree on the number of rows        *)
(* (OneCount), without which the formula for the distinct values could     *)
(* give 0.  WordCounts, which it carries for the type invariant, holds     *)
(* even behind what flaws records.  Widths and Accuracy are any that the   *)
(* assumptions allow, the 64 bits and the doubles of the code among them.  *)
(***************************************************************************)
EXTENDS QueryStats, FiniteSetTheorems, SequenceTheorems, WellFoundedInduction,
        TLAPS

-----------------------------------------------------------------------------
(* Facts about numbers                                                     *)

(* A set of natural numbers has a least element.                           *)
LEMMA LeastOf ==
  ASSUME NEW T, T \subseteq Nat, T # {}
  PROVE  \E x \in T : \A y \in T : x <= y
<1>1. PICK x \in T : \A y \in T : <<y, x>> \notin OpToRel(<, Nat)
  BY WFMin, NatLessThanWellFounded, Zenon
<1>2. \A y \in T : ~(y < x)
  BY <1>1, Zenon DEF OpToRel
<1>3. \A y \in T : x <= y
  BY <1>2
<1>. QED  BY <1>3

(* Induction, for a set that is given by what is to be shown.              *)
LEMMA InductionInSet ==
  ASSUME NEW T, 0 \in T, \A n \in Nat : n \in T => n + 1 \in T
  PROVE  Nat \subseteq T
<1>. DEFINE missing == Nat \ T
<1>1. SUFFICES ASSUME missing # {} PROVE FALSE
  OBVIOUS
<1>2. PICK x \in missing : \A y \in missing : x <= y
  BY <1>1, LeastOf
<1>3. x # 0 /\ x - 1 \in Nat
  BY <1>2
<1>4. x - 1 \in T
  BY <1>2, <1>3
<1>5. (x - 1) + 1 \in T
  BY <1>3, <1>4
<1>. QED  BY <1>5, <1>2

(* The same up to a bound, for what a sequence or a prefix satisfies.      *)
LEMMA InductionUpTo ==
  ASSUME NEW m \in Nat, NEW T, 0 \in T,
         \A n \in 0..m-1 : n \in T => n + 1 \in T
  PROVE  0..m \subseteq T
<1>. DEFINE U == T \cup {n \in Nat : n > m}
<1>1. 0 \in U
  OBVIOUS
<1>2. \A n \in Nat : n \in U => n + 1 \in U
  OBVIOUS
<1>. HIDE DEF U
<1>3. Nat \subseteq U
  BY <1>1, <1>2, InductionInSet
<1>. QED  BY <1>3 DEF U

(* FlattenSeq                                                              *)

Flattens(ss, n, f) ==
  f = [i \in 1..n |-> IF i = 1 THEN ss[i] ELSE f[i-1] \o ss[i]]

(* The function by which FlattenSeq is defined exists.                     *)
LEMMA FlattensExists ==
  ASSUME NEW ss, NEW m \in Nat
  PROVE  \E f : Flattens(ss, m, f)
<1>. DEFINE T == {n \in Nat : \E f : Flattens(ss, n, f)}
<1>1. 0 \in T
  <2>. DEFINE f == [i \in 1..0 |-> ss[i]]
  <2>1. f = [i \in 1..0 |-> IF i = 1 THEN ss[i] ELSE f[i-1] \o ss[i]]
    OBVIOUS
  <2>. QED  BY <2>1 DEF Flattens
<1>2. ASSUME NEW n \in Nat, n \in T
      PROVE  n + 1 \in T
  <2>1. PICK f : Flattens(ss, n, f)
    BY <1>2
  <2>. DEFINE g == [i \in 1..n+1 |-> IF i \in 1..n THEN f[i]
                                     ELSE IF i = 1 THEN ss[i] ELSE f[i-1] \o ss[i]]
  <2>2. ASSUME NEW i \in 1..n+1
        PROVE  g[i] = IF i = 1 THEN ss[i] ELSE g[i-1] \o ss[i]
    <3>1. CASE i \in 1..n
      <4>1. f[i] = IF i = 1 THEN ss[i] ELSE f[i-1] \o ss[i]
        BY <2>1, <3>1 DEF Flattens
      <4>2. i # 1 => i - 1 \in 1..n /\ i - 1 \in 1..n+1
        BY <3>1
      <4>. QED  BY <3>1, <4>1, <4>2
    <3>2. CASE i = n + 1
      <4>1. i # 1 => i - 1 \in 1..n /\ i - 1 \in 1..n+1
        BY <3>2
      <4>2. i \notin 1..n
        BY <3>2
      <4>. QED  BY <4>1, <4>2
    <3>. QED  BY <3>1, <3>2
  <2>3. g = [i \in 1..n+1 |-> IF i = 1 THEN ss[i] ELSE g[i-1] \o ss[i]]
    BY <2>2
  <2>4. \E h : Flattens(ss, n + 1, h)
    BY <2>3, Zenon DEF Flattens
  <2>. QED  BY <2>4
<1>. HIDE DEF T
<1>3. m \in T
  BY <1>1, <1>2, InductionInSet
<1>. QED  BY <1>3 DEF T

(* FlattenSeq is the last value of such a function.                        *)
LEMMA FlattenSeqDef ==
  ASSUME NEW ss, Len(ss) \in Nat, Len(ss) # 0
  PROVE  \E f : Flattens(ss, Len(ss), f) /\ FlattenSeq(ss) = f[Len(ss)]
<1>. DEFINE m == Len(ss)
            flatten == CHOOSE f : f = [i \in 1..m |-> IF i = 1 THEN ss[i] ELSE f[i-1] \o ss[i]]
<1>1. \E f : f = [i \in 1..m |-> IF i = 1 THEN ss[i] ELSE f[i-1] \o ss[i]]
  BY FlattensExists, Zenon DEF Flattens
<1>2. flatten = [i \in 1..m |-> IF i = 1 THEN ss[i] ELSE flatten[i-1] \o ss[i]]
  BY <1>1, Zenon
<1>3. FlattenSeq(ss) = flatten[m]
  BY Zenon DEF FlattenSeq
<1>. QED  BY <1>2, <1>3, Zenon DEF Flattens

LEMMA FlattensStep ==
  ASSUME NEW ss, NEW m \in Nat, NEW f, Flattens(ss, m, f), NEW n \in Nat, n + 1 \in 1..m
  PROVE  f[n + 1] = IF n = 0 THEN ss[n + 1] ELSE f[n] \o ss[n + 1]
<1>1. f[n + 1] = IF n + 1 = 1 THEN ss[n + 1] ELSE f[(n + 1) - 1] \o ss[n + 1]
  BY Zenon DEF Flattens
<1>2. (n + 1) - 1 = n /\ (n + 1 = 1 <=> n = 0)
  OBVIOUS
<1>. QED  BY <1>1, <1>2, Zenon

LEMMA FlattenSeqEmpty == FlattenSeq(<<>>) = <<>>
BY DEF FlattenSeq

-----------------------------------------------------------------------------
(* Positions in their order                                                *)

(* e lists the numbers of S in ascending order.                            *)
Lists(e, m, S) ==
  /\ e \in [1..m -> Nat]
  /\ \A i, j \in 1..m : i < j => e[i] < e[j]
  /\ S = {e[i] : i \in 1..m}

(* A set that is numbered has as many elements as numbers.                 *)
LEMMA Numbered ==
  ASSUME NEW D, IsFiniteSet(D), NEW f, NEW S, S = {f[x] : x \in D},
         \A x, y \in D : f[x] = f[y] => x = y
  PROVE  IsFiniteSet(S) /\ Cardinality(S) = Cardinality(D)
<1>. DEFINE g == [x \in D |-> f[x]]
<1>1. g \in Bijection(D, S)
  BY DEF Bijection, Injection, Surjection, IsInjective
<1>2. ExistsBijection(D, S)
  BY <1>1 DEF ExistsBijection
<1>. QED  BY <1>2, FS_Bijection

(* Its nth element is the nth of the list.                                 *)
LEMMA NthOf ==
  ASSUME NEW m \in Nat, NEW e, NEW S, Lists(e, m, S)
  PROVE  /\ IsFiniteSet(S) /\ Cardinality(S) = m
         /\ \A n \in 1..m : Nth(S, n) = e[n]
<1>1. /\ e \in [1..m -> Nat] /\ S = {e[i] : i \in 1..m}
      /\ \A i, j \in 1..m : i < j => e[i] < e[j]
  BY DEF Lists
<1>2. \A i, j \in 1..m : e[i] = e[j] => i = j
  BY <1>1
<1>3. \A n \in 0..m : IsFiniteSet(1..n) /\ Cardinality(1..n) = n
  BY FS_Interval
<1>4. IsFiniteSet(S) /\ Cardinality(S) = m
  <2>1. IsFiniteSet(1..m) /\ Cardinality(1..m) = m
    BY <1>3
  <2>. QED  BY <1>1, <1>2, <2>1, Numbered
<1>5. ASSUME NEW n \in 1..m
      PROVE  Cardinality({j \in S : j <= e[n]}) = n
  <2>. DEFINE U == {j \in S : j <= e[n]}
  <2>1. U = {e[i] : i \in 1..n}
    <3>1. \A i \in 1..m : e[i] <= e[n] <=> i \in 1..n
      BY <1>1
    <3>. QED  BY <1>1, <3>1
  <2>2. \A i, j \in 1..n : e[i] = e[j] => i = j
    BY <1>2
  <2>3. IsFiniteSet(1..n) /\ Cardinality(1..n) = n
    BY <1>3
  <2>. HIDE DEF U
  <2>4. Cardinality(U) = n
    BY <2>1, <2>2, <2>3, Numbered
  <2>. QED  BY <2>4 DEF U
<1>6. ASSUME NEW n \in 1..m
      PROVE  Nth(S, n) = e[n]
  <2>1. e[n] \in S /\ Cardinality({j \in S : j <= e[n]}) = n
    BY <1>1, <1>5
  <2>2. Nth(S, n) \in S /\ Cardinality({j \in S : j <= Nth(S, n)}) = n
    BY <2>1, Zenon DEF Nth
  <2>3. PICK k \in 1..m : Nth(S, n) = e[k]
    BY <1>1, <2>2
  <2>4. k = n
    BY <1>5, <2>2, <2>3
  <2>. QED  BY <2>3, <2>4
<1>. QED  BY <1>4, <1>6

(* Every set of positions has such a list.                                 *)
LEMMA Listed ==
  ASSUME NEW m \in Nat, NEW S, S \subseteq 1..m
  PROVE  \E n \in Nat : \E e : Lists(e, n, S)
<1>. DEFINE T == {k \in Nat : \E n \in Nat : \E e : Lists(e, n, S \cap (1..k))}
<1>1. 0 \in T
  <2>. DEFINE e == [i \in 1..0 |-> 0]
  <2>1. Lists(e, 0, S \cap (1..0))
    BY DEF Lists
  <2>. HIDE DEF e
  <2>. QED  BY <2>1
<1>2. ASSUME NEW k \in 0..m-1, k \in T
      PROVE  k + 1 \in T
  <2>0. PICK n \in Nat : \E e : Lists(e, n, S \cap (1..k))
    BY <1>2
  <2>1. PICK e : Lists(e, n, S \cap (1..k))
    BY <2>0
  <2>2. CASE k + 1 \notin S
    <3>1. S \cap (1..k+1) = S \cap (1..k)
      BY <2>2
    <3>. QED  BY <2>1, <3>1
  <2>3. CASE k + 1 \in S
    <3>. DEFINE g == [i \in 1..n+1 |-> IF i = n + 1 THEN k + 1 ELSE e[i]]
    <3>1. /\ e \in [1..n -> Nat] /\ S \cap (1..k) = {e[i] : i \in 1..n}
          /\ \A i, j \in 1..n : i < j => e[i] < e[j]
      BY <2>1 DEF Lists
    <3>2. \A i \in 1..n : e[i] < k + 1
      BY <3>1
    <3>3. g \in [1..n+1 -> Nat] /\ \A i, j \in 1..n+1 : i < j => g[i] < g[j]
      BY <3>1, <3>2
    <3>4. S \cap (1..k+1) = {g[i] : i \in 1..n+1}
      <4>1. S \cap (1..k+1) = (S \cap (1..k)) \cup {k + 1}
        BY <2>3
      <4>2. \A i \in 1..n : g[i] = e[i] /\ i \in 1..n+1
        OBVIOUS
      <4>3. g[n + 1] = k + 1 /\ n + 1 \in 1..n+1 /\ \A i \in 1..n+1 : i = n + 1 \/ i \in 1..n
        OBVIOUS
      <4>. HIDE DEF g
      <4>. QED  BY <3>1, <4>1, <4>2, <4>3
    <3>5. Lists(g, n + 1, S \cap (1..k+1))
      BY <3>3, <3>4 DEF Lists
    <3>6. n + 1 \in Nat
      OBVIOUS
    <3>. HIDE DEF g
    <3>. QED  BY <3>5, <3>6
  <2>. QED  BY <2>2, <2>3
<1>. HIDE DEF T
<1>3. 0..m \subseteq T
  BY <1>1, <1>2, InductionUpTo
<1>4. m \in T
  BY <1>3
<1>5. S \cap (1..m) = S
  OBVIOUS
<1>. QED  BY <1>4, <1>5 DEF T

(* What is selected are the elements at those positions.                   *)
LEMMA NthIsOneOf ==
  ASSUME NEW m \in Nat, NEW S, S \subseteq 1..m
  PROVE  /\ IsFiniteSet(S) /\ Cardinality(S) \in Nat
         /\ \A n \in 1..Cardinality(S) : Nth(S, n) \in S
<1>0. PICK n \in Nat : \E e : Lists(e, n, S)
  BY Listed
<1>1. PICK e : Lists(e, n, S)
  BY <1>0
<1>2. /\ IsFiniteSet(S) /\ Cardinality(S) = n
      /\ \A k \in 1..n : Nth(S, k) = e[k]
  BY <1>1, NthOf
<1>3. \A k \in 1..n : e[k] \in S
  BY <1>1 DEF Lists
<1>. QED  BY <1>2, <1>3

-----------------------------------------------------------------------------
(* How a text with separators is laid out                                  *)

Marks == {"number", ".", "|", "&", " ", "<", ">", "="}
Units == Marks \X Nat

(* Part k is behind position start[k], and there is the separator, but in  *)
(* front of the first part; nothing else is in the text.                   *)
Laid(J, parts, c, n, start) ==
  /\ J \in Seq(Units) /\ start \in [1..n+1 -> Nat]
  /\ start[1] = 0 /\ start[n + 1] = Len(J) + 1
  /\ \A k \in 1..n : start[k + 1] = start[k] + Len(parts[k]) + 1
  /\ \A k \in 1..n : \A i \in 1..Len(parts[k]) : J[start[k] + i] = parts[k][i]
  /\ \A k \in 2..n : J[start[k]] = Sign(c)
  /\ \A k, l \in 1..n+1 : k < l => start[k] < start[l]
  /\ \A j \in 1..Len(J) : \/ \E k \in 2..n : j = start[k]
                         \/ \E k \in 1..n : \E i \in 1..Len(parts[k]) : j = start[k] + i

(* What lies at the positions of a concatenation.                          *)
LEMMA Behind ==
  ASSUME NEW s \in Seq(Units), NEW t \in Seq(Units), NEW u \in Units
  PROVE  LET J == s \o (<<u>> \o t)
         IN  /\ J \in Seq(Units) /\ Len(J) = Len(s) + 1 + Len(t)
             /\ \A i \in 1..Len(s) : J[i] = s[i]
             /\ J[Len(s) + 1] = u
             /\ \A i \in 1..Len(t) : J[(Len(s) + 1) + i] = t[i]
<1>. DEFINE r == <<u>> \o t
<1>1. r \in Seq(Units) /\ Len(r) = Len(t) + 1 /\ r[1] = u
      /\ \A i \in 1..Len(t) : r[i + 1] = t[i]
  OBVIOUS
<1>. HIDE DEF r
<1>2. /\ s \o r \in Seq(Units) /\ Len(s \o r) = Len(s) + Len(r)
      /\ \A i \in 1..Len(s) : (s \o r)[i] = s[i]
      /\ \A i \in 1..Len(r) : (s \o r)[Len(s) + i] = r[i]
  <2>1. Len(s) \in Nat /\ Len(r) \in Nat
    BY <1>1
  <2>2. /\ s \o r \in Seq(Units) /\ Len(s \o r) = Len(s) + Len(r)
        /\ \A i \in 1..Len(s) + Len(r) : (s \o r)[i] = IF i <= Len(s) THEN s[i] ELSE r[i - Len(s)]
    BY <1>1, ConcatProperties
  <2>3. \A i \in 1..Len(s) : i \in 1..Len(s) + Len(r) /\ i <= Len(s)
    BY <2>1
  <2>4. \A i \in 1..Len(r) : /\ Len(s) + i \in 1..Len(s) + Len(r) /\ ~(Len(s) + i <= Len(s))
                            /\ (Len(s) + i) - Len(s) = i
    BY <2>1
  <2>. QED  BY <2>2, <2>3, <2>4
<1>3. \A i \in 1..Len(t) : /\ i + 1 \in 1..Len(r)
                           /\ (Len(s) + 1) + i = Len(s) + (i + 1)
  BY <1>1
<1>4. 1 \in 1..Len(r) /\ Len(s) + Len(r) = Len(s) + 1 + Len(t)
  BY <1>1
<1>5. /\ \A i \in 1..Len(t) : (s \o r)[(Len(s) + 1) + i] = t[i]
      /\ (s \o r)[Len(s) + 1] = u
  BY <1>1, <1>2, <1>3, <1>4
<1>. QED  BY <1>2, <1>4, <1>5 DEF r

LEMMA OnePartLaid ==
  ASSUME NEW parts \in Seq(Seq(Units)), NEW c, 1 \in DOMAIN parts
  PROVE  \E start : Laid(parts[1], parts, c, 1, start)
<1>. DEFINE p == parts[1]
            start == [k \in 1..1+1 |-> IF k = 1 THEN 0 ELSE Len(p) + 1]
<1>1. p \in Seq(Units) /\ Len(p) \in Nat
  OBVIOUS
<1>2. \A k \in 1..1 : k = 1
  OBVIOUS
<1>3. start \in [1..1+1 -> Nat] /\ start[1] = 0 /\ start[1 + 1] = Len(p) + 1
  BY <1>1
<1>4. \A k, l \in 1..1+1 : k < l => start[k] < start[l]
  BY <1>1, <1>3
<1>. HIDE DEF start
<1>5. \A i \in 1..Len(p) : start[1] + i = i
  BY <1>1, <1>3
<1>6. Laid(p, parts, c, 1, start)
  BY <1>1, <1>2, <1>3, <1>4, <1>5 DEF Laid
<1>. QED  BY <1>6

(* The last of ascending numbers is the greatest.                          *)
LEMMA LastIsGreatest ==
  ASSUME NEW n \in Nat, NEW f \in [1..n+1 -> Nat], \A k, l \in 1..n+1 : k < l => f[k] < f[l]
  PROVE  /\ f[n + 1] \in Nat
         /\ \A k \in 1..n+1 : f[k] \in Nat /\ f[k] <= f[n + 1] /\ (k \in 1..n => f[k] < f[n + 1])
<1>1. n + 1 \in 1..n+1 /\ \A k \in 1..n+1 : k = n + 1 \/ k < n + 1
  OBVIOUS
<1>. QED  BY <1>1

(* An ascending list goes on with what is greater than its last.           *)
LEMMA AscendsOn ==
  ASSUME NEW n \in Nat, NEW f \in [1..n+1 -> Nat], NEW g \in [1..(n+1)+1 -> Nat],
         \A k, l \in 1..n+1 : k < l => f[k] < f[l],
         \A k \in 1..n+1 : g[k] = f[k], f[n + 1] < g[(n + 1) + 1]
  PROVE  \A k, l \in 1..(n+1)+1 : k < l => g[k] < g[l]
<1>1. \A k \in 1..n+1 : f[k] \in Nat /\ f[k] <= f[n + 1] /\ f[n + 1] \in Nat
  BY LastIsGreatest
<1>2. g[(n + 1) + 1] \in Nat
  OBVIOUS
<1>. SUFFICES ASSUME NEW k \in 1..(n+1)+1, NEW l \in 1..(n+1)+1, k < l
              PROVE  g[k] < g[l]
  OBVIOUS
<1>3. k \in 1..n+1 /\ (l = (n + 1) + 1 \/ l \in 1..n+1)
  OBVIOUS
<1>4. CASE l = (n + 1) + 1
  BY <1>1, <1>2, <1>3, <1>4
<1>5. CASE l \in 1..n+1
  BY <1>3, <1>5
<1>. QED  BY <1>3, <1>4, <1>5

(* A separator and one part more behind parts that are laid out.           *)
LEMMA OnePartMore ==
  ASSUME NEW parts \in Seq(Seq(Units)), NEW c \in Marks, NEW n \in Nat \ {0}, n + 1 \in DOMAIN parts,
         NEW J, \E start : Laid(J, parts, c, n, start)
  PROVE  \E start : Laid(J \o (<<Sign(c)>> \o parts[n + 1]), parts, c, n + 1, start)
<1>. DEFINE p == parts[n + 1]
            K == J \o (<<Sign(c)>> \o p)
<1>1. PICK old : Laid(J, parts, c, n, old)
  OBVIOUS
<1>2. /\ J \in Seq(Units) /\ old \in [1..n+1 -> Nat] /\ old[1] = 0 /\ old[n + 1] = Len(J) + 1
      /\ \A k \in 1..n : old[k + 1] = old[k] + Len(parts[k]) + 1
      /\ \A k, l \in 1..n+1 : k < l => old[k] < old[l]
  BY <1>1 DEF Laid
<1>3. /\ \A k \in 1..n : \A i \in 1..Len(parts[k]) : J[old[k] + i] = parts[k][i]
      /\ \A k \in 2..n : J[old[k]] = Sign(c)
      /\ \A j \in 1..Len(J) : \/ \E k \in 2..n : j = old[k]
                             \/ \E k \in 1..n : \E i \in 1..Len(parts[k]) : j = old[k] + i
  BY <1>1 DEF Laid
<1>4. p \in Seq(Units) /\ Len(p) \in Nat /\ Sign(c) \in Units /\ Len(J) \in Nat
      /\ \A k \in 1..n : Len(parts[k]) \in Nat
  BY <1>2 DEF Sign, Units
<1>5. /\ K \in Seq(Units) /\ Len(K) = Len(J) + 1 + Len(p)
      /\ \A i \in 1..Len(J) : K[i] = J[i]
      /\ K[Len(J) + 1] = Sign(c)
      /\ \A i \in 1..Len(p) : K[(Len(J) + 1) + i] = p[i]
  BY <1>2, <1>4, Behind
<1>. HIDE DEF K
<1>. DEFINE start == [k \in 1..(n+1)+1 |-> IF k = n + 2 THEN (Len(J) + 1) + Len(p) + 1 ELSE old[k]]
<1>6. /\ start \in [1..(n+1)+1 -> Nat]
      /\ \A k \in 1..n+1 : start[k] = old[k]
      /\ start[(n + 1) + 1] = (Len(J) + 1) + Len(p) + 1
  BY <1>2, <1>4
<1>. HIDE DEF start
<1>7. start[1] = 0 /\ start[(n + 1) + 1] = Len(K) + 1 /\ start[n + 1] = Len(J) + 1
  BY <1>2, <1>4, <1>5, <1>6
<1>8. \A k \in 1..n+1 : start[k + 1] = start[k] + Len(parts[k]) + 1
  <2>. SUFFICES ASSUME NEW k \in 1..n+1
                PROVE  start[k + 1] = start[k] + Len(parts[k]) + 1
    OBVIOUS
  <2>2. CASE k = n + 1
    BY <2>2, <1>4, <1>6, <1>7
  <2>3. CASE k \in 1..n
    <3>1. k + 1 \in 1..n+1 /\ k \in 1..n+1
      BY <2>3
    <3>. QED  BY <3>1, <2>3, <1>2, <1>6
  <2>. QED  BY <2>2, <2>3
<1>9. \A k, l \in 1..(n+1)+1 : k < l => start[k] < start[l]
  <2>1. old[n + 1] < start[(n + 1) + 1]
    BY <1>2, <1>4, <1>6
  <2>2. n \in Nat /\ old \in [1..n+1 -> Nat] /\ \A k, l \in 1..n+1 : k < l => old[k] < old[l]
    BY <1>2
  <2>. QED  BY <2>1, <2>2, <1>6, AscendsOn
<1>a. \A k \in 1..n+1 : old[k] \in Nat /\ old[k] <= Len(J) + 1 /\ (k \in 1..n => old[k] < Len(J) + 1)
  <2>1. n \in Nat /\ old \in [1..n+1 -> Nat] /\ \A k, l \in 1..n+1 : k < l => old[k] < old[l]
    BY <1>2
  <2>2. \A k \in 1..n+1 : old[k] \in Nat /\ old[k] <= old[n + 1] /\ (k \in 1..n => old[k] < old[n + 1])
    BY <2>1, LastIsGreatest
  <2>. QED  BY <2>2, <1>2
<1>10. \A k \in 1..n : old[k] + Len(parts[k]) <= Len(J)
  <2>. SUFFICES ASSUME NEW k \in 1..n
                PROVE  old[k] + Len(parts[k]) <= Len(J)
    OBVIOUS
  <2>1. k \in 1..n+1 /\ k + 1 \in 1..n+1
    OBVIOUS
  <2>2. old[k + 1] <= Len(J) + 1 /\ old[k] \in Nat
    BY <2>1, <1>a
  <2>3. old[k + 1] = old[k] + Len(parts[k]) + 1 /\ Len(parts[k]) \in Nat
    BY <1>2, <1>4
  <2>4. Len(J) \in Nat
    BY <1>4
  <2>5. PICK l \in Nat : l = Len(parts[k])
    BY <2>3
  <2>6. PICK m \in Nat : m = Len(J)
    BY <2>4
  <2>7. PICK o \in Nat : o = old[k]
    BY <2>2
  <2>8. old[k + 1] = o + l + 1 /\ old[k + 1] <= m + 1
    BY <2>2, <2>3, <2>5, <2>6, <2>7
  <2>9. o + l <= m
    BY <2>8
  <2>. QED  BY <2>5, <2>6, <2>7, <2>9
<1>11. \A k \in 1..n+1 : \A i \in 1..Len(parts[k]) : K[start[k] + i] = parts[k][i]
  <2>. SUFFICES ASSUME NEW k \in 1..n+1, NEW i \in 1..Len(parts[k])
                PROVE  K[start[k] + i] = parts[k][i]
    OBVIOUS
  <2>1. CASE k = n + 1
    BY <2>1, <1>5, <1>7
  <2>2. CASE k \in 1..n
    <3>1. start[k] = old[k] /\ old[k] \in Nat
      BY <2>2, <1>2, <1>6
    <3>2. old[k] + i \in 1..Len(J)
      <4>1. Len(parts[k]) \in Nat /\ old[k] + Len(parts[k]) <= Len(J)
        BY <2>2, <1>4, <1>10
      <4>2. PICK l \in Nat : l = Len(parts[k])
        BY <4>1
      <4>3. Len(J) \in Nat
        BY <1>4
      <4>4. PICK m \in Nat : m = Len(J)
        BY <4>3
      <4>5. PICK o \in Nat : o = old[k]
        BY <3>1
      <4>6. i \in 1..l /\ o + l <= m
        BY <4>1, <4>2, <4>4, <4>5
      <4>7. o + i \in 1..m
        BY <4>6
      <4>. QED  BY <4>4, <4>5, <4>7
    <3>. QED  BY <2>2, <3>1, <3>2, <1>3, <1>5
  <2>. QED  BY <2>1, <2>2
<1>12. \A k \in 2..n+1 : K[start[k]] = Sign(c)
  <2>. SUFFICES ASSUME NEW k \in 2..n+1
                PROVE  K[start[k]] = Sign(c)
    OBVIOUS
  <2>1. CASE k = n + 1
    BY <2>1, <1>5, <1>7
  <2>2. CASE k \in 2..n
    <3>1. k \in 1..n+1 /\ 1 \in 1..n+1 /\ n + 1 \in 1..n+1 /\ k < n + 1 /\ 1 < k
      BY <2>2
    <3>2. old[k] \in 1..Len(J)
      <4>1. old[k] \in Nat /\ 0 < old[k] /\ old[k] < Len(J) + 1
        BY <3>1, <1>2
      <4>. QED  BY <4>1, <1>4
    <3>. QED  BY <2>2, <3>1, <3>2, <1>3, <1>5, <1>6
  <2>. QED  BY <2>1, <2>2
<1>13. ASSUME NEW j \in 1..Len(K)
       PROVE  \/ \E k \in 2..n+1 : j = start[k]
              \/ \E k \in 1..n+1 : \E i \in 1..Len(parts[k]) : j = start[k] + i
  <2>1. CASE j \in 1..Len(J)
    <3>1. CASE \E k \in 2..n : j = old[k]
      BY <3>1, <1>6
    <3>2. CASE \E k \in 1..n : \E i \in 1..Len(parts[k]) : j = old[k] + i
      <4>1. PICK k \in 1..n : \E i \in 1..Len(parts[k]) : j = old[k] + i
        BY <3>2
      <4>2. k \in 1..n+1 /\ start[k] = old[k]
        BY <1>6
      <4>. QED  BY <4>1, <4>2
    <3>. QED  BY <2>1, <3>1, <3>2, <1>3
  <2>2. CASE j = Len(J) + 1
    <3>1. n + 1 \in 2..n+1
      OBVIOUS
    <3>. QED  BY <2>2, <3>1, <1>7
  <2>3. CASE j > Len(J) + 1
    <3>1. j - (Len(J) + 1) \in 1..Len(p) /\ j = (Len(J) + 1) + (j - (Len(J) + 1))
      BY <2>3, <1>4, <1>5
    <3>2. n + 1 \in 1..n+1 /\ start[n + 1] = Len(J) + 1
      BY <1>7
    <3>. QED  BY <3>1, <3>2
  <2>4. j \in Nat /\ (j \in 1..Len(J) \/ j = Len(J) + 1 \/ j > Len(J) + 1)
    <3>1. Len(J) \in Nat /\ Len(K) \in Nat
      BY <1>4, <1>5
    <3>2. PICK m \in Nat : m = Len(J)
      BY <3>1
    <3>3. PICK l \in Nat : l = Len(K)
      BY <3>1
    <3>4. j \in 1..l
      BY <3>3
    <3>5. j \in Nat /\ (j \in 1..m \/ j = m + 1 \/ j > m + 1)
      BY <3>4
    <3>. QED  BY <3>2, <3>5
  <2>. QED  BY <2>1, <2>2, <2>3, <2>4
<1>14. Laid(K, parts, c, n + 1, start)
  BY <1>5, <1>6, <1>7, <1>8, <1>9, <1>11, <1>12, <1>13 DEF Laid
<1>. QED  BY <1>14 DEF K

(* Joined lays out its parts, of which there is one at least.              *)
LEMMA JoinedLaid ==
  ASSUME NEW parts \in Seq(Seq(Units)), parts # <<>>, NEW c \in Marks
  PROVE  \E start : Laid(Joined(parts, c), parts, c, Len(parts), start)
<1>. DEFINE m == Len(parts)
            ss == [i \in DOMAIN parts |-> IF i = 1 THEN parts[i] ELSE <<Sign(c)>> \o parts[i]]
<1>1. m \in Nat \ {0} /\ DOMAIN parts = 1..m /\ 1 \in DOMAIN parts
  OBVIOUS
<1>2. /\ Len(ss) = m
      /\ ss[1] = parts[1]
      /\ \A k \in 2..m : ss[k] = <<Sign(c)>> \o parts[k]
  BY <1>1
<1>3. Joined(parts, c) = FlattenSeq(ss)
  BY Zenon DEF Joined
<1>. HIDE DEF ss
<1>4. Len(ss) \in Nat /\ Len(ss) # 0
  BY <1>1, <1>2
<1>5. PICK f : Flattens(ss, m, f) /\ FlattenSeq(ss) = f[m]
  BY <1>2, <1>4, FlattenSeqDef
<1>. DEFINE T == {n \in Nat : n \in 1..m => \E start : Laid(f[n], parts, c, n, start)}
<1>6. 0 \in T
  OBVIOUS
<1>7. ASSUME NEW n \in 0..m-1, n \in T
      PROVE  n + 1 \in T
  <2>1. n \in Nat /\ m \in Nat /\ n + 1 \in 1..m
    BY <1>1
  <2>2. f[n + 1] = IF n = 0 THEN ss[n + 1] ELSE f[n] \o ss[n + 1]
    BY <2>1, <1>5, FlattensStep
  <2>3. CASE n = 0
    <3>1. f[n + 1] = parts[1] /\ n + 1 = 1
      BY <2>2, <2>3, <1>2
    <3>2. \E start : Laid(parts[1], parts, c, 1, start)
      BY <1>1, OnePartLaid
    <3>. QED  BY <3>1, <3>2
  <2>4. CASE n # 0
    <3>1. n \in Nat \ {0} /\ n \in 1..m /\ n + 1 \in 2..m /\ n + 1 \in DOMAIN parts
      BY <2>1, <2>4, <1>1
    <3>2. f[n + 1] = f[n] \o (<<Sign(c)>> \o parts[n + 1])
      BY <2>2, <2>4, <3>1, <1>2
    <3>3. \E start : Laid(f[n], parts, c, n, start)
      BY <3>1, <1>7
    <3>4. \E start : Laid(f[n] \o (<<Sign(c)>> \o parts[n + 1]), parts, c, n + 1, start)
      BY <3>1, <3>3, OnePartMore
    <3>5. \E start : Laid(f[n + 1], parts, c, n + 1, start)
      BY <3>2, <3>4, Zenon
    <3>6. n + 1 \in Nat
      BY <2>1
    <3>. QED  BY <3>5, <3>6
  <2>. QED  BY <2>3, <2>4
<1>. HIDE DEF T
<1>8. 0..m \subseteq T
  BY <1>1, <1>6, <1>7, InductionUpTo
<1>9. m \in T /\ m \in 1..m
  BY <1>1, <1>8
<1>10. \E start : Laid(f[m], parts, c, m, start)
  BY <1>9 DEF T
<1>. QED  BY <1>3, <1>5, <1>10

LEMMA JoinedType ==
  ASSUME NEW parts \in Seq(Seq(Units)), NEW c \in Marks
  PROVE  Joined(parts, c) \in Seq(Units)
<1>1. CASE parts = <<>>
  <2>. DEFINE ss == [i \in DOMAIN parts |-> IF i = 1 THEN parts[i] ELSE <<Sign(c)>> \o parts[i]]
  <2>1. ss = <<>>
    BY <1>1
  <2>2. Joined(parts, c) = FlattenSeq(ss)
    BY Zenon DEF Joined
  <2>3. Joined(parts, c) = <<>>
    BY <2>1, <2>2, FlattenSeqEmpty
  <2>. QED  BY <2>3
<1>2. CASE parts # <<>>
  <2>1. PICK start : Laid(Joined(parts, c), parts, c, Len(parts), start)
    BY <1>2, JoinedLaid
  <2>. QED  BY <2>1 DEF Laid
<1>. QED  BY <1>1, <1>2

(* Where the separators are, and where everything else is.                 *)
LEMMA PositionsLaid ==
  ASSUME NEW n \in Nat \ {0}, NEW parts \in Seq(Seq(Units)), Len(parts) = n, NEW c,
         NEW J, NEW start, Laid(J, parts, c, n, start)
  PROVE  /\ \A k \in 2..n : start[k] \in 1..Len(J)
         /\ \A k \in 1..n : \A i \in 1..Len(parts[k]) : start[k] + i \in 1..Len(J)
<1>1. /\ J \in Seq(Units) /\ start \in [1..n+1 -> Nat] /\ start[1] = 0 /\ start[n + 1] = Len(J) + 1
      /\ \A k \in 1..n : start[k + 1] = start[k] + Len(parts[k]) + 1
      /\ \A k, l \in 1..n+1 : k < l => start[k] < start[l]
  BY DEF Laid
<1>3. Len(J) \in Nat /\ \A k \in 1..n : Len(parts[k]) \in Nat
  BY <1>1
<1>4. \A k \in 1..n+1 : start[k] \in Nat /\ start[k] <= Len(J) + 1 /\ (k \in 1..n => start[k] < Len(J) + 1)
  <2>1. \A k \in 1..n+1 : start[k] \in Nat /\ start[k] <= start[n + 1]
                          /\ (k \in 1..n => start[k] < start[n + 1])
    <3>1. n \in Nat /\ start \in [1..n+1 -> Nat] /\ \A k, l \in 1..n+1 : k < l => start[k] < start[l]
      BY <1>1
    <3>. QED  BY <3>1, LastIsGreatest
  <2>. QED  BY <2>1, <1>1
<1>5. ASSUME NEW k \in 2..n
      PROVE  start[k] \in 1..Len(J)
  <2>1. k \in 1..n+1 /\ k \in 1..n /\ 1 \in 1..n+1 /\ 1 < k
    OBVIOUS
  <2>2. 0 < start[k] /\ start[k] \in Nat /\ start[k] < Len(J) + 1
    BY <2>1, <1>1, <1>4
  <2>. QED  BY <2>2, <1>3
<1>6. ASSUME NEW k \in 1..n, NEW i \in 1..Len(parts[k])
      PROVE  start[k] + i \in 1..Len(J)
  <2>1. k \in 1..n+1 /\ k + 1 \in 1..n+1
    OBVIOUS
  <2>2. PICK l \in Nat : l = Len(parts[k])
    BY <1>3
  <2>3. start[k] \in Nat /\ start[k] + l + 1 <= Len(J) + 1
    BY <2>1, <2>2, <1>1, <1>4
  <2>. QED  BY <2>2, <2>3, <1>3
<1>. QED  BY <1>5, <1>6

(* Signs that are no separators are those of the parts, where these lie.   *)
LEMMA OthersLaid ==
  ASSUME NEW n \in Nat \ {0}, NEW parts \in Seq(Seq(Units)), Len(parts) = n, NEW c,
         NEW J, NEW start, Laid(J, parts, c, n, start), NEW d, d # c
  PROVE  /\ \A j \in Places(J, d) : \E k \in 1..n : \E i \in Places(parts[k], d) : j = start[k] + i
         /\ \A k \in 1..n : \A i \in Places(parts[k], d) : start[k] + i \in Places(J, d)
<1>2. /\ \A k \in 1..n : \A i \in 1..Len(parts[k]) : J[start[k] + i] = parts[k][i]
      /\ \A k \in 2..n : J[start[k]] = Sign(c)
      /\ \A j \in 1..Len(J) : \/ \E k \in 2..n : j = start[k]
                             \/ \E k \in 1..n : \E i \in 1..Len(parts[k]) : j = start[k] + i
  BY DEF Laid
<1>3. DOMAIN J = 1..Len(J) /\ \A k \in 1..n : DOMAIN parts[k] = 1..Len(parts[k])
  BY DEF Laid
<1>7. /\ \A j \in Places(J, d) : \E k \in 1..n : \E i \in Places(parts[k], d) : j = start[k] + i
      /\ \A k \in 1..n : \A i \in Places(parts[k], d) : start[k] + i \in Places(J, d)
  <2>1. ASSUME NEW j \in 1..Len(J), J[j][1] = d
        PROVE  \E k \in 1..n : \E i \in Places(parts[k], d) : j = start[k] + i
    <3>1. ~ \E k \in 2..n : j = start[k]
      BY <2>1, <1>2 DEF Sign
    <3>2. PICK k \in 1..n : \E i \in 1..Len(parts[k]) : j = start[k] + i
      BY <3>1, <1>2
    <3>3. PICK i \in 1..Len(parts[k]) : j = start[k] + i
      BY <3>2
    <3>4. parts[k][i][1] = d
      BY <3>3, <2>1, <1>2
    <3>5. i \in Places(parts[k], d)
      BY <3>4, <1>3 DEF Places
    <3>. QED  BY <3>3, <3>5
  <2>2. ASSUME NEW k \in 1..n, NEW i \in Places(parts[k], d)
        PROVE  start[k] + i \in 1..Len(J) /\ J[start[k] + i][1] = d
    <3>1. i \in 1..Len(parts[k]) /\ parts[k][i][1] = d
      BY <1>3 DEF Places
    <3>2. start[k] + i \in 1..Len(J)
      BY <3>1, PositionsLaid
    <3>. QED  BY <3>1, <3>2, <1>2
  <2>. QED  BY <2>1, <2>2, <1>3 DEF Places
<1>. QED  BY <1>7

(* If no part contains it, the separator is in front of each part but the  *)
(* first.                                                                  *)
LEMMA SeparatorsLaid ==
  ASSUME NEW n \in Nat \ {0}, NEW parts \in Seq(Seq(Units)), Len(parts) = n, NEW c,
         NEW J, NEW start, Laid(J, parts, c, n, start),
         \A k \in 1..n : Places(parts[k], c) = {}
  PROVE  /\ \A j \in Places(J, c) : \E k \in 2..n : j = start[k]
         /\ \A k \in 2..n : start[k] \in Places(J, c)
<1>2. /\ \A k \in 1..n : \A i \in 1..Len(parts[k]) : J[start[k] + i] = parts[k][i]
      /\ \A k \in 2..n : J[start[k]] = Sign(c)
      /\ \A j \in 1..Len(J) : \/ \E k \in 2..n : j = start[k]
                             \/ \E k \in 1..n : \E i \in 1..Len(parts[k]) : j = start[k] + i
  BY DEF Laid
<1>3. DOMAIN J = 1..Len(J) /\ \A k \in 1..n : DOMAIN parts[k] = 1..Len(parts[k])
  BY DEF Laid
<1>5. \A k \in 2..n : start[k] \in 1..Len(J)
  BY PositionsLaid
<1>8. /\ \A j \in Places(J, c) : \E k \in 2..n : j = start[k]
      /\ \A k \in 2..n : start[k] \in Places(J, c)
  <2>1. ASSUME NEW j \in 1..Len(J), J[j][1] = c
        PROVE  \E k \in 2..n : j = start[k]
    <3>1. ASSUME NEW k \in 1..n, NEW i \in 1..Len(parts[k]), j = start[k] + i
          PROVE  FALSE
      <4>1. parts[k][i][1] = c
        BY <3>1, <2>1, <1>2
      <4>2. i \in Places(parts[k], c)
        BY <4>1, <1>3 DEF Places
      <4>. QED  BY <4>2
    <3>. QED  BY <3>1, <1>2
  <2>2. ASSUME NEW k \in 2..n
        PROVE  start[k] \in 1..Len(J) /\ J[start[k]][1] = c
    BY <1>2, <1>5 DEF Sign
  <2>3. Places(J, c) = {j \in 1..Len(J) : J[j][1] = c}
    BY <1>3 DEF Places
  <2>4. \A j \in Places(J, c) : \E k \in 2..n : j = start[k]
    BY <2>1, <2>3
  <2>5. \A k \in 2..n : start[k] \in Places(J, c)
    BY <2>2, <2>3
  <2>. QED  BY <2>4, <2>5
<1>. QED  BY <1>8

-----------------------------------------------------------------------------
(* Reading the parts back                                                  *)

(* A sequence that lies in another is cut out of it.                       *)
LEMMA SubSeqIs ==
  ASSUME NEW U, NEW s \in Seq(U), NEW t \in Seq(U), NEW a \in Nat, a + Len(t) <= Len(s),
         \A i \in 1..Len(t) : s[a + i] = t[i]
  PROVE  SubSeq(s, a + 1, a + Len(t)) = t
<1>. DEFINE r == SubSeq(s, a + 1, a + Len(t))
<1>1. Len(t) \in Nat /\ t = [i \in 1..Len(t) |-> t[i]]
  OBVIOUS
<1>2. r = [i \in 1..(1 + (a + Len(t)) - (a + 1)) |-> s[i + (a + 1) - 1]]
  OBVIOUS
<1>3. 1 + (a + Len(t)) - (a + 1) = Len(t)
  BY <1>1
<1>4. r = [i \in 1..Len(t) |-> s[i + (a + 1) - 1]]
  BY <1>2, <1>3, Zenon
<1>5. \A i \in 1..Len(t) : s[i + (a + 1) - 1] = t[i]
  <2>1. \A i \in 1..Len(t) : i + (a + 1) - 1 = a + i
    BY <1>1
  <2>. QED  BY <2>1
<1>. HIDE DEF r
<1>6. r = [i \in 1..Len(t) |-> t[i]]
  BY <1>4, <1>5
<1>. QED  BY <1>1, <1>6, Zenon DEF r

(* Split gives back the parts that were joined.                            *)
LEMMA SplitLaid ==
  ASSUME NEW n \in Nat \ {0}, NEW parts \in Seq(Seq(Units)), Len(parts) = n, NEW c,
         NEW J, NEW start, Laid(J, parts, c, n, start),
         \A k \in 1..n : Places(parts[k], c) = {}
  PROVE  Split(J, c) = parts
<1>1. /\ J \in Seq(Units) /\ start \in [1..n+1 -> Nat] /\ start[1] = 0 /\ start[n + 1] = Len(J) + 1
      /\ \A k \in 1..n : start[k + 1] = start[k] + Len(parts[k]) + 1
      /\ \A k, l \in 1..n+1 : k < l => start[k] < start[l]
      /\ \A k \in 1..n : \A i \in 1..Len(parts[k]) : J[start[k] + i] = parts[k][i]
  BY DEF Laid
<1>2. /\ \A j \in Places(J, c) : \E k \in 2..n : j = start[k]
      /\ \A k \in 2..n : start[k] \in Places(J, c)
  BY SeparatorsLaid
<1>. DEFINE ends == Places(J, c) \cup {Len(J) + 1}
            e == [k \in 1..n |-> start[k + 1]]
<1>3. Lists(e, n, ends)
  <2>1. \A k \in 1..n : k + 1 \in 1..n+1
    OBVIOUS
  <2>2. e \in [1..n -> Nat] /\ \A k, l \in 1..n : k < l => e[k] < e[l]
    <3>1. \A k \in 1..n : start[k + 1] \in Nat
      BY <2>1, <1>1
    <3>2. e \in [1..n -> Nat]
      BY <3>1
    <3>3. \A k \in 1..n : e[k] = start[k + 1]
      OBVIOUS
    <3>. HIDE DEF e
    <3>4. ASSUME NEW k \in 1..n, NEW l \in 1..n, k < l
          PROVE  e[k] < e[l]
      <4>1. k + 1 \in 1..n+1 /\ l + 1 \in 1..n+1 /\ k + 1 < l + 1
        BY <2>1, <3>4
      <4>2. start[k + 1] < start[l + 1]
        BY <4>1, <1>1
      <4>. QED  BY <3>3, <4>2
    <3>. QED  BY <3>2, <3>4
  <2>3. ASSUME NEW k \in 1..n
        PROVE  e[k] \in ends
    <3>1. e[k] = start[k + 1]
      OBVIOUS
    <3>2. k + 1 \in 2..n \/ k + 1 = n + 1
      OBVIOUS
    <3>. HIDE DEF e
    <3>. QED  BY <3>1, <3>2, <1>1, <1>2
  <2>4. ASSUME NEW j \in ends
        PROVE  \E k \in 1..n : j = e[k]
    <3>1. CASE j \in Places(J, c)
      <4>1. PICK k \in 2..n : j = start[k]
        BY <3>1, <1>2
      <4>2. k - 1 \in 1..n /\ (k - 1) + 1 = k
        OBVIOUS
      <4>3. e[k - 1] = start[k]
        BY <4>2
      <4>. HIDE DEF e
      <4>. QED  BY <4>1, <4>2, <4>3
    <3>2. CASE j = Len(J) + 1
      <4>1. n \in 1..n /\ e[n] = Len(J) + 1
        BY <1>1
      <4>. HIDE DEF e
      <4>. QED  BY <3>2, <4>1
    <3>. QED  BY <3>1, <3>2
  <2>. HIDE DEF e, ends
  <2>5. ends = {e[k] : k \in 1..n}
    <3>1. ends \subseteq {e[k] : k \in 1..n}
      BY <2>4
    <3>2. {e[k] : k \in 1..n} \subseteq ends
      BY <2>3
    <3>. QED  BY <3>1, <3>2
  <2>. QED  BY <2>2, <2>5 DEF Lists
<1>4. Cardinality(ends) = n /\ \A k \in 1..n : Nth(ends, k) = e[k]
  <2>. n \in Nat
    OBVIOUS
  <2>. HIDE DEF e, ends
  <2>. QED  BY <1>3, NthOf
<1>5. Split(J, c) = [k \in 1..Cardinality(ends) |->
                       SubSeq(J, IF k = 1 THEN 1 ELSE Nth(ends, k - 1) + 1, Nth(ends, k) - 1)]
  BY Zenon DEF Split
<1>6. \A k \in 1..n : Nth(ends, k) = start[k + 1]
  BY <1>4
<1>. HIDE DEF ends, e
<1>7. ASSUME NEW k \in 1..n
      PROVE  SubSeq(J, IF k = 1 THEN 1 ELSE Nth(ends, k - 1) + 1, Nth(ends, k) - 1) = parts[k]
  <2>1. parts[k] \in Seq(Units) /\ Len(parts[k]) \in Nat
    OBVIOUS
  <2>2. start[k] \in Nat /\ start[k + 1] = start[k] + Len(parts[k]) + 1
    BY <1>1
  <2>3. start[k] + Len(parts[k]) <= Len(J)
    <3>1. start[k + 1] <= Len(J) + 1 /\ Len(J) \in Nat
      <4>1. n \in Nat /\ start \in [1..n+1 -> Nat] /\ \A j, l \in 1..n+1 : j < l => start[j] < start[l]
        BY <1>1
      <4>2. k + 1 \in 1..n+1
        OBVIOUS
      <4>3. start[k + 1] <= start[n + 1]
        BY <4>1, <4>2, LastIsGreatest
      <4>. QED  BY <4>3, <1>1
    <3>2. PICK l \in Nat : l = Len(parts[k])
      BY <2>1
    <3>. QED  BY <3>1, <3>2, <2>2
  <2>4. (IF k = 1 THEN 1 ELSE Nth(ends, k - 1) + 1) = start[k] + 1
    <3>1. CASE k = 1
      BY <3>1, <1>1
    <3>2. CASE k # 1
      <4>1. k - 1 \in 1..n /\ (k - 1) + 1 = k
        BY <3>2
      <4>2. Nth(ends, k - 1) = start[k]
        BY <4>1, <1>6, Zenon
      <4>. QED  BY <3>2, <4>2
    <3>. QED  BY <3>1, <3>2
  <2>5. Nth(ends, k) - 1 = start[k] + Len(parts[k])
    <3>1. PICK l \in Nat : l = Len(parts[k])
      BY <2>1
    <3>. QED  BY <3>1, <2>2, <1>6
  <2>6. SubSeq(J, start[k] + 1, start[k] + Len(parts[k])) = parts[k]
    <3>1. \A i \in 1..Len(parts[k]) : J[start[k] + i] = parts[k][i]
      BY <1>1
    <3>. QED  BY <3>1, <1>1, <2>1, <2>2, <2>3, SubSeqIs
  <2>. QED  BY <2>4, <2>5, <2>6, Zenon
<1>8. Split(J, c) = [k \in 1..n |-> parts[k]]
  BY <1>4, <1>5, <1>7, Zenon
<1>9. parts = [k \in 1..n |-> parts[k]]
  OBVIOUS
<1>. QED  BY <1>8, <1>9, Zenon

LEMMA SplitJoined ==
  ASSUME NEW parts \in Seq(Seq(Units)), parts # <<>>, NEW c \in Marks,
         \A k \in 1..Len(parts) : Places(parts[k], c) = {}
  PROVE  Split(Joined(parts, c), c) = parts
<1>1. PICK start : Laid(Joined(parts, c), parts, c, Len(parts), start)
  BY JoinedLaid
<1>2. Len(parts) \in Nat \ {0}
  OBVIOUS
<1>. QED  BY <1>1, <1>2, SplitLaid

LEMMA TwoLaid ==
  ASSUME NEW s \in Seq(Units), NEW t \in Seq(Units), NEW c \in Marks
  PROVE  \E start : Laid(s \o (<<Sign(c)>> \o t), <<s, t>>, c, 2, start)
<1>. DEFINE parts == <<s, t>>
<1>1. /\ parts \in Seq(Seq(Units)) /\ 1 \in DOMAIN parts /\ 1 + 1 \in DOMAIN parts
      /\ parts[1] = s /\ parts[1 + 1] = t
  OBVIOUS
<1>. HIDE DEF parts
<1>2. \E start : Laid(s, parts, c, 1, start)
  BY <1>1, OnePartLaid
<1>3. \E start : Laid(s \o (<<Sign(c)>> \o parts[1 + 1]), parts, c, 1 + 1, start)
  <2>. 1 \in Nat \ {0}
    OBVIOUS
  <2>. QED  BY <1>1, <1>2, OnePartMore
<1>4. 1 + 1 = 2
  OBVIOUS
<1>. QED  BY <1>1, <1>3, <1>4, Zenon DEF parts

LEMMA ThreeLaid ==
  ASSUME NEW s \in Seq(Units), NEW t \in Seq(Units), NEW u \in Seq(Units), NEW c \in Marks
  PROVE  \E start : Laid((s \o (<<Sign(c)>> \o t)) \o (<<Sign(c)>> \o u), <<s, t, u>>, c, 3, start)
<1>. DEFINE parts == <<s, t, u>>
<1>1. /\ parts \in Seq(Seq(Units)) /\ 1 \in DOMAIN parts /\ 1 + 1 \in DOMAIN parts /\ 2 + 1 \in DOMAIN parts
      /\ parts[1] = s /\ parts[1 + 1] = t /\ parts[2 + 1] = u
  OBVIOUS
<1>. HIDE DEF parts
<1>2. \E start : Laid(s, parts, c, 1, start)
  BY <1>1, OnePartLaid
<1>3. \E start : Laid(s \o (<<Sign(c)>> \o parts[1 + 1]), parts, c, 1 + 1, start)
  <2>. 1 \in Nat \ {0}
    OBVIOUS
  <2>. QED  BY <1>1, <1>2, OnePartMore
<1>4. 1 + 1 = 2 /\ 2 + 1 = 3
  OBVIOUS
<1>5. \E start : Laid(s \o (<<Sign(c)>> \o t), parts, c, 2, start)
  BY <1>1, <1>3, <1>4, Zenon
<1>6. \E start : Laid((s \o (<<Sign(c)>> \o t)) \o (<<Sign(c)>> \o parts[2 + 1]), parts, c, 2 + 1, start)
  <2>. 2 \in Nat \ {0}
    OBVIOUS
  <2>. QED  BY <1>1, <1>5, OnePartMore
<1>. QED  BY <1>1, <1>4, <1>6, Zenon DEF parts

-----------------------------------------------------------------------------
(* Numbers, columns and predicates                                         *)

LEMMA MinimumOfTwo ==
  ASSUME NEW a \in Nat, NEW b \in Nat, a <= b
  PROVE  Min({a, b}) = a
<1>1. a \in {a, b} /\ \A y \in {a, b} : a <= y
  OBVIOUS
<1>2. Min({a, b}) \in {a, b} /\ \A y \in {a, b} : Min({a, b}) <= y
  BY <1>1, Zenon DEF Min
<1>. QED  BY <1>2

(* atoi gives the number that is written if an int holds it.               *)
LEMMA AtoiOfNumber ==
  ASSUME NEW n \in Nat, n <= IntMax
  PROVE  atoi(<<Number(n)>>) = n
<1>. DEFINE ints == 2^IntBits
            half == 2^(IntBits - 1)
            most == 2^(WordBits - 1)
<1>1. ints \in Nat /\ half \in 1..ints /\ most \in half..WordRange /\ IntMax = half - 1
  <2>1. ints \in 1..WordRange /\ half \in 1..ints /\ most \in half..WordRange
    BY IntsAreWordsAssumption
  <2>. QED  BY <2>1 DEF IntMax
<1>2. atoi(<<Number(n)>>) = Truncated(Min({n, most - 1}))
  <2>1. <<Number(n)>> # <<>> /\ <<Number(n)>>[1][1] = "number" /\ <<Number(n)>>[1][2] = n
    BY DEF Number
  <2>. QED  BY <2>1, Zenon DEF atoi
<1>3. Truncated(n) = IF n % ints <= IntMax THEN n % ints ELSE (n % ints) + WordRange - ints
  BY Zenon DEF Truncated
<1>. HIDE DEF ints, half, most
<1>4. Min({n, most - 1}) = n
  <2>1. most - 1 \in Nat /\ n <= most - 1
    BY <1>1
  <2>. QED  BY <2>1, MinimumOfTwo
<1>5. n % ints = n
  <2>1. n \in 0..ints-1
    BY <1>1
  <2>. QED  BY <2>1, <1>1
<1>. QED  BY <1>2, <1>3, <1>4, <1>5

LEMMA UnitsOf ==
  /\ \A n \in Nat : Number(n) \in Units
  /\ \A c \in Marks : Sign(c) \in Units
  /\ \A n : Number(n)[1] = "number" /\ Number(n)[2] = n
  /\ \A c : Sign(c)[1] = c
BY DEF Number, Sign, Units, Marks

LEMMA FewUnits ==
  ASSUME NEW a \in Units, NEW b \in Units, NEW c \in Units, NEW d \in Units,
         NEW e \in Units, NEW f \in Units, NEW g \in Units
  PROVE  /\ <<a>> \in Seq(Units) /\ Len(<<a>>) = 1
         /\ <<a, b, c>> \in Seq(Units) /\ Len(<<a, b, c>>) = 3
         /\ <<a, b, c, d, e>> \in Seq(Units) /\ Len(<<a, b, c, d, e>>) = 5
         /\ <<a, b, c, d, e, f, g>> \in Seq(Units) /\ Len(<<a, b, c, d, e, f, g>>) = 7
OBVIOUS

(* Two sequences of one length with the same elements are equal.           *)
LEMMA SameSequence ==
  ASSUME NEW U, NEW s \in Seq(U), NEW t \in Seq(U), Len(s) = Len(t),
         \A i \in 1..Len(t) : s[i] = t[i]
  PROVE  s = t
<1>1. s = [i \in 1..Len(s) |-> s[i]] /\ t = [i \in 1..Len(t) |-> t[i]]
  OBVIOUS
<1>. QED  BY <1>1

LEMMA JoinedIs ==
  ASSUME NEW s \in Seq(Units), NEW t \in Seq(Units), NEW r \in Seq(Units), Len(r) = Len(s) + Len(t),
         \A i \in 1..Len(s) : s[i] = r[i], \A i \in 1..Len(t) : t[i] = r[Len(s) + i]
  PROVE  s \o t = r
<1>1. /\ s \o t \in Seq(Units) /\ Len(s \o t) = Len(r)
      /\ \A i \in 1..Len(s) + Len(t) : (s \o t)[i] = IF i <= Len(s) THEN s[i] ELSE t[i - Len(s)]
  BY ConcatProperties
<1>2. Len(s) \in Nat /\ Len(t) \in Nat
  OBVIOUS
<1>3. ASSUME NEW i \in 1..Len(r)
      PROVE  (s \o t)[i] = r[i]
  <2>1. CASE i <= Len(s)
    BY <2>1, <1>1, <1>2
  <2>2. CASE ~(i <= Len(s))
    <3>1. i - Len(s) \in 1..Len(t) /\ Len(s) + (i - Len(s)) = i
      BY <2>2, <1>2
    <3>2. (s \o t)[i] = t[i - Len(s)]
      BY <2>2, <1>1
    <3>3. t[i - Len(s)] = r[Len(s) + (i - Len(s))]
      BY <3>1
    <3>. QED  BY <3>1, <3>2, <3>3
  <2>. QED  BY <2>1, <2>2
<1>. QED  BY <1>1, <1>3, SameSequence

LEMMA BehindIs ==
  ASSUME NEW s \in Seq(Units), NEW t \in Seq(Units), NEW u \in Units, NEW r \in Seq(Units),
         Len(r) = Len(s) + 1 + Len(t), \A i \in 1..Len(s) : s[i] = r[i], u = r[Len(s) + 1],
         \A i \in 1..Len(t) : t[i] = r[(Len(s) + 1) + i]
  PROVE  s \o (<<u>> \o t) = r
<1>. DEFINE J == s \o (<<u>> \o t)
<1>1. /\ J \in Seq(Units) /\ Len(J) = Len(s) + 1 + Len(t)
      /\ \A i \in 1..Len(s) : J[i] = s[i]
      /\ J[Len(s) + 1] = u
      /\ \A i \in 1..Len(t) : J[(Len(s) + 1) + i] = t[i]
  BY Behind
<1>2. Len(s) \in Nat /\ Len(t) \in Nat
  OBVIOUS
<1>. HIDE DEF J
<1>3. ASSUME NEW i \in 1..Len(r)
      PROVE  J[i] = r[i]
  <2>1. CASE i <= Len(s)
    BY <2>1, <1>1, <1>2
  <2>2. CASE i = Len(s) + 1
    BY <2>2, <1>1
  <2>3. CASE i > Len(s) + 1
    <3>1. i - (Len(s) + 1) \in 1..Len(t) /\ (Len(s) + 1) + (i - (Len(s) + 1)) = i
      BY <2>3, <1>2
    <3>2. J[(Len(s) + 1) + (i - (Len(s) + 1))] = t[i - (Len(s) + 1)]
      BY <3>1, <1>1
    <3>3. t[i - (Len(s) + 1)] = r[(Len(s) + 1) + (i - (Len(s) + 1))]
      BY <3>1
    <3>. QED  BY <3>1, <3>2, <3>3
  <2>. QED  BY <2>1, <2>2, <2>3, <1>2
<1>4. J = r
  BY <1>1, <1>3, SameSequence
<1>. QED  BY <1>4 DEF J

(* The short texts of columns and predicates, sign by sign.                *)
LEMMA ThreeJoined ==
  ASSUME NEW a \in Units, NEW b \in Units, NEW c \in Units
  PROVE  <<a>> \o (<<b>> \o <<c>>) = <<a, b, c>>
<1>. DEFINE r == <<a, b, c>>
<1>1. /\ r \in Seq(Units) /\ <<a>> \in Seq(Units) /\ <<c>> \in Seq(Units)
      /\ Len(r) = 3 /\ Len(<<a>>) = 1 /\ Len(<<c>>) = 1
  OBVIOUS
<1>2. /\ \A i \in 1..1 : <<a>>[i] = r[i]
      /\ r[1 + 1] = b
      /\ \A i \in 1..1 : <<c>>[i] = r[(1 + 1) + i]
  OBVIOUS
<1>. HIDE DEF r
<1>3. <<a>> \o (<<b>> \o <<c>>) = r
  BY <1>1, <1>2, BehindIs
<1>. QED  BY <1>3 DEF r

(* The units of a filter and of a join, cut before and around their sign.  *)
FiveJoin(a, b, c, d, e) ==
  /\ <<a, b, c, d>> \o <<e>> = <<a, b, c, d, e>>
  /\ <<a, b, c>> \o (<<d>> \o <<e>>) = <<a, b, c, d, e>>
SevenJoin(a, b, c, d, e, f, g) ==
  /\ <<a, b, c, d>> \o <<e, f, g>> = <<a, b, c, d, e, f, g>>
  /\ <<a, b, c>> \o (<<d>> \o <<e, f, g>>) = <<a, b, c, d, e, f, g>>

LEMMA FiveJoined ==
  ASSUME NEW a \in Units, NEW b \in Units, NEW c \in Units, NEW d \in Units, NEW e \in Units
  PROVE  FiveJoin(a, b, c, d, e)
<1>. DEFINE r == <<a, b, c, d, e>>
<1>1. /\ r \in Seq(Units) /\ <<a, b, c>> \in Seq(Units) /\ <<a, b, c, d>> \in Seq(Units)
      /\ <<e>> \in Seq(Units)
      /\ Len(r) = 5 /\ Len(<<a, b, c>>) = 3 /\ Len(<<a, b, c, d>>) = 4 /\ Len(<<e>>) = 1
  OBVIOUS
<1>2. /\ \A i \in 1..3 : <<a, b, c>>[i] = r[i]
      /\ r[3 + 1] = d
      /\ \A i \in 1..1 : <<e>>[i] = r[(3 + 1) + i]
  OBVIOUS
<1>3. /\ \A i \in 1..4 : <<a, b, c, d>>[i] = r[i]
      /\ \A i \in 1..1 : <<e>>[i] = r[4 + i]
  OBVIOUS
<1>. HIDE DEF r
<1>4. <<a, b, c>> \o (<<d>> \o <<e>>) = r
  BY <1>1, <1>2, BehindIs
<1>5. <<a, b, c, d>> \o <<e>> = r
  BY <1>1, <1>3, JoinedIs
<1>. QED  BY <1>4, <1>5, Zenon DEF r, FiveJoin

LEMMA SevenJoined ==
  ASSUME NEW a \in Units, NEW b \in Units, NEW c \in Units, NEW d \in Units, NEW e \in Units,
         NEW f \in Units, NEW g \in Units
  PROVE  SevenJoin(a, b, c, d, e, f, g)
<1>. DEFINE r == <<a, b, c, d, e, f, g>>
<1>1. /\ r \in Seq(Units) /\ <<a, b, c>> \in Seq(Units) /\ <<a, b, c, d>> \in Seq(Units)
      /\ <<e, f, g>> \in Seq(Units)
      /\ Len(r) = 7 /\ Len(<<a, b, c>>) = 3 /\ Len(<<a, b, c, d>>) = 4 /\ Len(<<e, f, g>>) = 3
  OBVIOUS
<1>2. /\ \A i \in 1..3 : <<a, b, c>>[i] = r[i]
      /\ r[3 + 1] = d
      /\ \A i \in 1..3 : <<e, f, g>>[i] = r[(3 + 1) + i]
  OBVIOUS
<1>3. /\ \A i \in 1..4 : <<a, b, c, d>>[i] = r[i]
      /\ \A i \in 1..3 : <<e, f, g>>[i] = r[4 + i]
  OBVIOUS
<1>. HIDE DEF r
<1>4. <<a, b, c>> \o (<<d>> \o <<e, f, g>>) = r
  BY <1>1, <1>2, BehindIs
<1>5. <<a, b, c, d>> \o <<e, f, g>> = r
  BY <1>1, <1>3, JoinedIs
<1>. QED  BY <1>4, <1>5, Zenon DEF r, SevenJoin

ColumnText(rel, col) == <<Number(rel), Sign("."), Number(col)>>

LEMMA ColumnIsText ==
  ASSUME NEW rel \in Nat, NEW col \in Nat
  PROVE  LET T == ColumnText(rel, col)
         IN  /\ T \in Seq(Units) /\ Len(T) = 3
             /\ T = <<Number(rel)>> \o (<<Sign(".")>> \o <<Number(col)>>)
             /\ Places(T, ".") = {2}
             /\ \A c \in Marks \ {".", "number"} : Places(T, c) = {}
<1>. DEFINE T == ColumnText(rel, col)
<1>0. Number(rel) \in Units /\ Sign(".") \in Units /\ Number(col) \in Units
  BY UnitsOf DEF Marks
<1>1. T \in Seq(Units) /\ Len(T) = 3 /\ DOMAIN T = 1..3
  <2>1. T \in Seq(Units) /\ Len(T) = 3
    BY <1>0, FewUnits, Zenon DEF ColumnText
  <2>. HIDE DEF T
  <2>. QED  BY <2>1
<1>2. T = <<Number(rel)>> \o (<<Sign(".")>> \o <<Number(col)>>)
  <2>1. <<Number(rel)>> \o (<<Sign(".")>> \o <<Number(col)>>) = T
    BY <1>0, ThreeJoined, Zenon DEF ColumnText
  <2>. HIDE DEF T
  <2>. QED  BY <2>1
<1>3. T[1][1] = "number" /\ T[2][1] = "." /\ T[3][1] = "number"
  BY UnitsOf DEF ColumnText
<1>4. \A i \in 1..3 : i = 1 \/ i = 2 \/ i = 3
  OBVIOUS
<1>. HIDE DEF T
<1>5. Places(T, ".") = {2}
  BY <1>1, <1>3, <1>4 DEF Places
<1>6. \A c \in Marks \ {".", "number"} : Places(T, c) = {}
  BY <1>1, <1>3, <1>4 DEF Places, Marks
<1>. QED  BY <1>1, <1>2, <1>5, <1>6 DEF T

(* A column is read as it is written.                                      *)
LEMMA ColumnRead ==
  ASSUME NEW rel \in Nat, NEW col \in Nat, rel <= IntMax, col <= IntMax, NEW rels, NEW rows
  PROVE  ParticipantOf(ColumnText(rel, col), rels, rows) = Participant(rels, rows, rel, col)
<1>. DEFINE T == ColumnText(rel, col)
            parts == <<<<Number(rel)>>, <<Number(col)>>>>
<1>1. /\ <<Number(rel)>> \in Seq(Units) /\ <<Number(col)>> \in Seq(Units) /\ "." \in Marks
      /\ parts \in Seq(Seq(Units)) /\ Len(parts) = 2
  <2>1. Number(rel) \in Units /\ Number(col) \in Units /\ "." \in Marks
    BY UnitsOf DEF Marks
  <2>2. <<Number(rel)>> \in Seq(Units) /\ <<Number(col)>> \in Seq(Units)
    BY <2>1
  <2>3. \A s, t \in Seq(Units) : <<s, t>> \in Seq(Seq(Units)) /\ Len(<<s, t>>) = 2
    OBVIOUS
  <2>. QED  BY <2>1, <2>2, <2>3, Zenon
<1>2. \A k \in 1..2 : Places(parts[k], ".") = {}
  BY DEF Places, Number
<1>3. T = <<Number(rel)>> \o (<<Sign(".")>> \o <<Number(col)>>)
  BY ColumnIsText
<1>4. PICK start : Laid(T, parts, ".", 2, start)
  BY <1>1, <1>3, TwoLaid
<1>5. Split(T, ".") = parts
  <2>. 2 \in Nat \ {0}
    OBVIOUS
  <2>. HIDE DEF T, parts
  <2>. QED  BY <1>1, <1>2, <1>4, SplitLaid
<1>6. atoi(<<Number(rel)>>) = rel /\ atoi(<<Number(col)>>) = col
  BY AtoiOfNumber
<1>7. ParticipantOf(T, rels, rows)
      = Participant(rels, rows, atoi(Split(T, ".")[1]), atoi(Split(T, ".")[2]))
  BY Zenon DEF ParticipantOf
<1>8. parts[1] = <<Number(rel)>> /\ parts[2] = <<Number(col)>>
  OBVIOUS
<1>. HIDE DEF T, parts
<1>. QED  BY <1>5, <1>6, <1>7, <1>8, Zenon DEF T

LeftOf(p) == ColumnText(p.rel1, p.col1)
RightOf(p) == IF p.join THEN ColumnText(p.rel2, p.col2) ELSE <<Number(p.value)>>

LEMMA PredicateFields ==
  ASSUME NEW p \in WrittenPredicates
  PROVE  /\ p.rel1 \in Nat /\ p.col1 \in Nat /\ p.op \in {"<", ">", "="} /\ p.join \in BOOLEAN
         /\ p.join => p.op = "=" /\ p.rel2 \in Nat /\ p.col2 \in Nat
         /\ ~p.join => p.value \in Nat
BY DEF WrittenPredicates

(* The units of a predicate: its sign is the fourth.                       *)
LEMMA PredicateUnits ==
  ASSUME NEW p \in WrittenPredicates
  PROVE  LET T == PredicateText(p)
         IN  /\ T \in Seq(Units) /\ Len(T) = (IF p.join THEN 7 ELSE 5)
             /\ T[1][1] = "number" /\ T[2][1] = "." /\ T[3][1] = "number" /\ T[4][1] = p.op
             /\ T[5] = Number(IF p.join THEN p.rel2 ELSE p.value)
             /\ p.join => T[6][1] = "." /\ T[7][1] = "number"
             /\ T = LeftOf(p) \o (<<Sign(p.op)>> \o RightOf(p))
<1>. DEFINE T == PredicateText(p)
<1>0. /\ Number(p.rel1) \in Units /\ Sign(".") \in Units /\ Number(p.col1) \in Units
      /\ Sign(p.op) \in Units
      /\ p.join => Number(p.rel2) \in Units /\ Number(p.col2) \in Units
      /\ ~p.join => Number(p.value) \in Units
  <2>1. p.op \in Marks /\ "." \in Marks
    BY PredicateFields DEF Marks
  <2>. QED  BY <2>1, PredicateFields, UnitsOf
<1>1. CASE p.join
  <2>0. SevenJoin(Number(p.rel1), Sign("."), Number(p.col1), Sign(p.op),
                  Number(p.rel2), Sign("."), Number(p.col2))
    BY <1>0, <1>1, SevenJoined, Zenon
  <2>1. T = <<Number(p.rel1), Sign("."), Number(p.col1), Sign(p.op)>>
            \o <<Number(p.rel2), Sign("."), Number(p.col2)>>
    BY <1>1, Zenon DEF PredicateText
  <2>2. T = <<Number(p.rel1), Sign("."), Number(p.col1), Sign(p.op),
              Number(p.rel2), Sign("."), Number(p.col2)>>
    BY <2>0, <2>1, Zenon DEF SevenJoin
  <2>3. LeftOf(p) \o (<<Sign(p.op)>> \o RightOf(p))
        = <<Number(p.rel1), Sign("."), Number(p.col1), Sign(p.op),
            Number(p.rel2), Sign("."), Number(p.col2)>>
    BY <1>1, <2>0, Zenon DEF SevenJoin, LeftOf, RightOf, ColumnText
  <2>. HIDE DEF T
  <2>4. T \in Seq(Units) /\ Len(T) = 7
    BY <2>2, <1>0, <1>1, FewUnits, Zenon
  <2>5. /\ T[1][1] = "number" /\ T[2][1] = "." /\ T[3][1] = "number" /\ T[4][1] = p.op
        /\ T[5] = Number(p.rel2) /\ T[6][1] = "." /\ T[7][1] = "number"
    BY <2>2, UnitsOf
  <2>. QED  BY <2>2, <2>3, <2>4, <2>5, <1>1 DEF T
<1>2. CASE ~p.join
  <2>0. FiveJoin(Number(p.rel1), Sign("."), Number(p.col1), Sign(p.op), Number(p.value))
    BY <1>0, <1>2, FiveJoined, Zenon
  <2>1. T = <<Number(p.rel1), Sign("."), Number(p.col1), Sign(p.op)>> \o <<Number(p.value)>>
    BY <1>2, Zenon DEF PredicateText
  <2>2. T = <<Number(p.rel1), Sign("."), Number(p.col1), Sign(p.op), Number(p.value)>>
    BY <2>0, <2>1, Zenon DEF FiveJoin
  <2>3. LeftOf(p) \o (<<Sign(p.op)>> \o RightOf(p))
        = <<Number(p.rel1), Sign("."), Number(p.col1), Sign(p.op), Number(p.value)>>
    BY <1>2, <2>0, Zenon DEF FiveJoin, LeftOf, RightOf, ColumnText
  <2>. HIDE DEF T
  <2>4. T \in Seq(Units) /\ Len(T) = 5
    BY <2>2, <1>0, <1>2, FewUnits, Zenon
  <2>5. /\ T[1][1] = "number" /\ T[2][1] = "." /\ T[3][1] = "number" /\ T[4][1] = p.op
        /\ T[5] = Number(p.value)
    BY <2>2, UnitsOf
  <2>. QED  BY <2>2, <2>3, <2>4, <2>5, <1>2 DEF T
<1>. QED  BY <1>1, <1>2, PredicateFields

(* Where a predicate has its sign and its dots.                            *)
LEMMA PredicatePlaces ==
  ASSUME NEW p \in WrittenPredicates
  PROVE  LET T == PredicateText(p)
         IN  /\ Places(T, p.op) = {4}
             /\ Places(T, ".") = IF p.join THEN {2, 6} ELSE {2}
             /\ \A c \in Marks \ {".", "number", p.op} : Places(T, c) = {}
<1>. DEFINE T == PredicateText(p)
<1>1. /\ T \in Seq(Units) /\ Len(T) = (IF p.join THEN 7 ELSE 5)
      /\ T[1][1] = "number" /\ T[2][1] = "." /\ T[3][1] = "number" /\ T[4][1] = p.op
      /\ T[5][1] = "number" /\ (p.join => T[6][1] = "." /\ T[7][1] = "number")
  <2>1. /\ T \in Seq(Units) /\ Len(T) = (IF p.join THEN 7 ELSE 5)
        /\ T[1][1] = "number" /\ T[2][1] = "." /\ T[3][1] = "number" /\ T[4][1] = p.op
        /\ T[5] = Number(IF p.join THEN p.rel2 ELSE p.value)
        /\ p.join => T[6][1] = "." /\ T[7][1] = "number"
    BY PredicateUnits, Zenon
  <2>2. \A n : Number(n)[1] = "number"
    BY UnitsOf, Zenon
  <2>. HIDE DEF T
  <2>3. T[5][1] = "number"
    BY <2>1, <2>2, Zenon
  <2>. QED  BY <2>1, <2>3, Zenon
<1>2. p.op \in {"<", ">", "="}
  BY PredicateFields
<1>. HIDE DEF T
<1>3. CASE p.join
  <2>1. DOMAIN T = 1..7 /\ \A i \in 1..7 : i \in {1, 2, 3, 4, 5, 6, 7}
    BY <1>1, <1>3
  <2>2. \A i \in DOMAIN T : T[i][1] = IF i = 4 THEN p.op ELSE IF i \in {2, 6} THEN "." ELSE "number"
    BY <1>1, <1>3, <2>1
  <2>3. Places(T, p.op) = {4} /\ Places(T, ".") = {2, 6}
        /\ \A c \in Marks \ {".", "number", p.op} : Places(T, c) = {}
    BY <1>2, <2>1, <2>2 DEF Places
  <2>. QED  BY <2>3, <1>3 DEF T
<1>4. CASE ~p.join
  <2>1. DOMAIN T = 1..5 /\ \A i \in 1..5 : i \in {1, 2, 3, 4, 5}
    BY <1>1, <1>4
  <2>2. \A i \in DOMAIN T : T[i][1] = IF i = 4 THEN p.op ELSE IF i = 2 THEN "." ELSE "number"
    BY <1>1, <1>4, <2>1
  <2>3. Places(T, p.op) = {4} /\ Places(T, ".") = {2}
        /\ \A c \in Marks \ {".", "number", p.op} : Places(T, c) = {}
    BY <1>2, <2>1, <2>2 DEF Places
  <2>. QED  BY <2>3, <1>4 DEF T
<1>. QED  BY <1>3, <1>4, PredicateFields

(* What ConstructQuery takes a predicate for.                              *)
LEMMA PredicateKind ==
  ASSUME NEW p \in WrittenPredicates
  PROVE  LET T == PredicateText(p)
         IN  /\ IsFilter(T) <=> ~p.join
             /\ IsJoin(T) <=> p.join
             /\ Operation(T) = p.op
<1>. DEFINE T == PredicateText(p)
<1>1. p.op \in {"<", ">", "="} /\ (p.join => p.op = "=") /\ p.join \in BOOLEAN
  BY PredicateFields
<1>2. \A c \in {"<", ">", "="} : Has(T, c) <=> c = p.op
  <2>1. Places(T, p.op) = {4} /\ \A c \in Marks \ {".", "number", p.op} : Places(T, c) = {}
    BY PredicatePlaces
  <2>. HIDE DEF T
  <2>. QED  BY <2>1 DEF Has, Marks
<1>3. SubStrOccur(T, ".") = IF p.join THEN 2 ELSE 1
  <2>1. Places(T, ".") = IF p.join THEN {2, 6} ELSE {2}
    BY PredicatePlaces
  <2>2. Cardinality({2}) = 1 /\ Cardinality({2, 6}) = 2
    BY FS_Singleton, FS_AddElement, FS_EmptySet
  <2>. HIDE DEF T
  <2>. QED  BY <2>1, <2>2, <1>1 DEF SubStrOccur
<1>. HIDE DEF T
<1>4. IsFilter(T) <=> ~p.join
  BY <1>1, <1>2, <1>3 DEF IsFilter
<1>5. IsJoin(T) <=> p.join
  BY <1>1, <1>2, <1>3 DEF IsJoin
<1>6. Operation(T) = p.op
  BY <1>1, <1>2 DEF Operation
<1>. QED  BY <1>4, <1>5, <1>6 DEF T

(* Its two sides.                                                          *)
LEMMA PredicateSides ==
  ASSUME NEW p \in WrittenPredicates
  PROVE  /\ Split(PredicateText(p), p.op) = <<LeftOf(p), RightOf(p)>>
         /\ PredicateText(p) \in Seq(Units)
<1>. DEFINE T == PredicateText(p)
            parts == <<LeftOf(p), RightOf(p)>>
<1>1. p.op \in Marks \ {".", "number"}
  BY PredicateFields DEF Marks
<1>2. LeftOf(p) \in Seq(Units) /\ Places(LeftOf(p), p.op) = {}
  BY <1>1, PredicateFields, ColumnIsText, Zenon DEF LeftOf
<1>3. RightOf(p) \in Seq(Units) /\ Places(RightOf(p), p.op) = {}
  <2>1. CASE p.join
    BY <2>1, <1>1, PredicateFields, ColumnIsText, Zenon DEF RightOf
  <2>2. CASE ~p.join
    <3>1. RightOf(p) = <<Number(p.value)>>
      BY <2>2, Zenon DEF RightOf
    <3>2. Number(p.value) \in Units /\ Number(p.value)[1] = "number"
      BY <2>2, PredicateFields, UnitsOf
    <3>. QED  BY <1>1, <3>1, <3>2 DEF Places
  <2>. QED  BY <2>1, <2>2
<1>4. T = LeftOf(p) \o (<<Sign(p.op)>> \o RightOf(p)) /\ T \in Seq(Units)
  BY PredicateUnits
<1>5. PICK start : Laid(T, parts, p.op, 2, start)
  BY <1>1, <1>2, <1>3, <1>4, TwoLaid
<1>6. /\ parts \in Seq(Seq(Units)) /\ Len(parts) = 2
      /\ \A k \in 1..2 : Places(parts[k], p.op) = {}
  <2>1. \A s, t \in Seq(Units) : <<s, t>> \in Seq(Seq(Units)) /\ Len(<<s, t>>) = 2
    OBVIOUS
  <2>2. parts[1] = LeftOf(p) /\ parts[2] = RightOf(p) /\ \A k \in 1..2 : k = 1 \/ k = 2
    OBVIOUS
  <2>3. parts \in Seq(Seq(Units)) /\ Len(parts) = 2
    BY <1>2, <1>3, <2>1, Zenon
  <2>. HIDE DEF parts
  <2>. QED  BY <1>2, <1>3, <2>2, <2>3
<1>7. Split(T, p.op) = parts
  <2>. 2 \in Nat \ {0}
    OBVIOUS
  <2>. HIDE DEF T, parts
  <2>. QED  BY <1>5, <1>6, SplitLaid
<1>. QED  BY <1>4, <1>7

(* A filter and a join are read as they are written.                       *)
LEMMA FilterRead ==
  ASSUME NEW p \in WrittenPredicates, ~p.join, \A n \in NumbersOf(p) : n <= IntMax, NEW rels, NEW rows
  PROVE  fillFilterInfo(PredicateText(p), rels, rows)
         = [participant |-> Participant(rels, rows, p.rel1, p.col1), op |-> p.op, value |-> p.value]
<1>1. p.rel1 \in Nat /\ p.col1 \in Nat /\ p.value \in Nat
      /\ p.rel1 <= IntMax /\ p.col1 <= IntMax /\ p.value <= IntMax
  BY PredicateFields DEF NumbersOf
<1>2. Operation(PredicateText(p)) = p.op
  BY PredicateKind
<1>3. Split(PredicateText(p), p.op) = <<ColumnText(p.rel1, p.col1), <<Number(p.value)>>>>
  BY PredicateSides, Zenon DEF LeftOf, RightOf
<1>4. ParticipantOf(ColumnText(p.rel1, p.col1), rels, rows) = Participant(rels, rows, p.rel1, p.col1)
  BY <1>1, ColumnRead
<1>5. atoi(<<Number(p.value)>>) = p.value
  BY <1>1, AtoiOfNumber
<1>. DEFINE sides == Split(PredicateText(p), Operation(PredicateText(p)))
<1>6. sides[1] = ColumnText(p.rel1, p.col1) /\ sides[2] = <<Number(p.value)>>
  BY <1>2, <1>3
<1>7. fillFilterInfo(PredicateText(p), rels, rows)
      = [participant |-> ParticipantOf(sides[1], rels, rows),
         op |-> Operation(PredicateText(p)), value |-> atoi(sides[2])]
  BY Zenon DEF fillFilterInfo
<1>. HIDE DEF sides
<1>. QED  BY <1>2, <1>4, <1>5, <1>6, <1>7, Zenon

LEMMA JoinRead ==
  ASSUME NEW p \in WrittenPredicates, p.join, \A n \in NumbersOf(p) : n <= IntMax, NEW rels, NEW rows
  PROVE  fillJoinInfo(PredicateText(p), rels, rows)
         = [participant1 |-> Participant(rels, rows, p.rel1, p.col1),
            participant2 |-> Participant(rels, rows, p.rel2, p.col2)]
<1>1. /\ p.rel1 \in Nat /\ p.col1 \in Nat /\ p.rel2 \in Nat /\ p.col2 \in Nat /\ p.op = "="
      /\ p.rel1 <= IntMax /\ p.col1 <= IntMax /\ p.rel2 <= IntMax /\ p.col2 <= IntMax
  BY PredicateFields DEF NumbersOf
<1>2. Split(PredicateText(p), p.op) = <<ColumnText(p.rel1, p.col1), ColumnText(p.rel2, p.col2)>>
  BY PredicateSides, Zenon DEF LeftOf, RightOf
<1>3. /\ ParticipantOf(ColumnText(p.rel1, p.col1), rels, rows) = Participant(rels, rows, p.rel1, p.col1)
      /\ ParticipantOf(ColumnText(p.rel2, p.col2), rels, rows) = Participant(rels, rows, p.rel2, p.col2)
  BY <1>1, ColumnRead
<1>. DEFINE sides == Split(PredicateText(p), "=")
<1>4. sides[1] = ColumnText(p.rel1, p.col1) /\ sides[2] = ColumnText(p.rel2, p.col2)
  BY <1>1, <1>2
<1>5. fillJoinInfo(PredicateText(p), rels, rows)
      = [participant1 |-> ParticipantOf(sides[1], rels, rows),
         participant2 |-> ParticipantOf(sides[2], rels, rows)]
  BY Zenon DEF fillJoinInfo
<1>. HIDE DEF sides
<1>. QED  BY <1>3, <1>4, <1>5, Zenon

-----------------------------------------------------------------------------
(* Where the units of a list with separators are                           *)

(* What is in no part is not in the list.                                  *)
LEMMA NoneJoined ==
  ASSUME NEW parts \in Seq(Seq(Units)), NEW c \in Marks, NEW d \in Marks, d # c,
         \A k \in 1..Len(parts) : Places(parts[k], d) = {}
  PROVE  Places(Joined(parts, c), d) = {}
<1>1. CASE parts = <<>>
  <2>1. Joined(parts, c) = <<>>
    <3>. DEFINE ss == [i \in DOMAIN parts |-> IF i = 1 THEN parts[i] ELSE <<Sign(c)>> \o parts[i]]
    <3>1. ss = <<>>
      BY <1>1
    <3>2. Joined(parts, c) = FlattenSeq(ss)
      BY Zenon DEF Joined
    <3>. QED  BY <3>1, <3>2, FlattenSeqEmpty
  <2>2. DOMAIN <<>> = {}
    OBVIOUS
  <2>. QED  BY <2>1, <2>2 DEF Places
<1>2. CASE parts # <<>>
  <2>1. PICK start : Laid(Joined(parts, c), parts, c, Len(parts), start)
    BY <1>2, JoinedLaid
  <2>2. Len(parts) \in Nat \ {0}
    BY <1>2
  <2>. DEFINE J == Joined(parts, c)
  <2>3. \A j \in Places(J, d) : \E k \in 1..Len(parts) : \E i \in Places(parts[k], d) : j = start[k] + i
    <3>. HIDE DEF J
    <3>1. Laid(J, parts, c, Len(parts), start)
      BY <2>1 DEF J
    <3>. QED  BY <3>1, <2>2, OthersLaid
  <2>. HIDE DEF J
  <2>4. Places(J, d) = {}
    BY <2>3
  <2>. QED  BY <2>4 DEF J
<1>. QED  BY <1>1, <1>2

(* One separator less than there are parts.                                *)
LEMMA SeparatorsNumber ==
  ASSUME NEW n \in Nat \ {0}, NEW parts \in Seq(Seq(Units)), Len(parts) = n, NEW c,
         NEW J, NEW start, Laid(J, parts, c, n, start),
         \A k \in 1..n : Places(parts[k], c) = {}
  PROVE  IsFiniteSet(Places(J, c)) /\ Cardinality(Places(J, c)) = n - 1
<1>1. /\ \A j \in Places(J, c) : \E k \in 2..n : j = start[k]
      /\ \A k \in 2..n : start[k] \in Places(J, c)
  BY SeparatorsLaid
<1>2. \A k, l \in 2..n : start[k] = start[l] => k = l
  <2>1. \A k, l \in 1..n+1 : k < l => start[k] < start[l]
    BY DEF Laid
  <2>2. start \in [1..n+1 -> Nat]
    BY DEF Laid
  <2>. QED  BY <2>1, <2>2
<1>3. IsFiniteSet(2..n) /\ Cardinality(2..n) = n - 1
  BY FS_Interval
<1>4. IsFiniteSet(Places(J, c)) /\ Cardinality(Places(J, c)) = Cardinality(2..n)
  <2>. DEFINE D == 2..n
  <2>1. /\ IsFiniteSet(D) /\ \A x, y \in D : start[x] = start[y] => x = y
        /\ \A j \in Places(J, c) : \E x \in D : j = start[x]
        /\ \A x \in D : start[x] \in Places(J, c)
    BY <1>1, <1>2, <1>3
  <2>. HIDE DEF D
  <2>3. Places(J, c) = {start[x] : x \in D}
    <3>1. Places(J, c) \subseteq {start[x] : x \in D}
      BY <2>1
    <3>2. {start[x] : x \in D} \subseteq Places(J, c)
      BY <2>1
    <3>. QED  BY <3>1, <3>2
  <2>2. IsFiniteSet(Places(J, c)) /\ Cardinality(Places(J, c)) = Cardinality(D)
    BY <2>1, <2>3, Numbered
  <2>. QED  BY <2>2 DEF D
<1>. QED  BY <1>3, <1>4

LEMMA SeparatorsCounted ==
  ASSUME NEW parts \in Seq(Seq(Units)), parts # <<>>, NEW c \in Marks,
         \A k \in 1..Len(parts) : Places(parts[k], c) = {}
  PROVE  /\ IsFiniteSet(Places(Joined(parts, c), c))
         /\ Cardinality(Places(Joined(parts, c), c)) = Len(parts) - 1
<1>1. PICK start : Laid(Joined(parts, c), parts, c, Len(parts), start)
  BY JoinedLaid
<1>2. Len(parts) \in Nat \ {0}
  OBVIOUS
<1>. QED  BY <1>1, <1>2, SeparatorsNumber

-----------------------------------------------------------------------------
(* The three slices of a line                                              *)

RelTexts(q) == [i \in DOMAIN q.rels |-> <<Number(q.rels[i])>>]
PredicateTexts(q) == [i \in DOMAIN q.predicates |-> PredicateText(q.predicates[i])]
SumTexts(q) == [i \in DOMAIN q.sums |-> SumText(q.sums[i])]
RelSlice(q) == Joined(RelTexts(q), " ")
PredicateSlice(q) == Joined(PredicateTexts(q), "&")
SumSlice(q) == Joined(SumTexts(q), " ")
Slices(q) == <<RelSlice(q), PredicateSlice(q), SumSlice(q)>>

LEMMA ElementsOf ==
  ASSUME NEW S, NEW s \in Seq(S)
  PROVE  DOMAIN s = 1..Len(s) /\ \A i \in 1..Len(s) : s[i] \in S
OBVIOUS

LEMMA QueryFields ==
  ASSUME NEW q \in WrittenQueries
  PROVE  /\ q.rels \in Seq(Nat) /\ q.rels # <<>>
         /\ q.predicates \in Seq(WrittenPredicates)
         /\ q.sums \in Seq([rel : Nat, col : Nat]) /\ q.sums # <<>>
BY DEF WrittenQueries

(* The texts of the parts of a query.                                      *)
LEMMA PartTexts ==
  ASSUME NEW q \in WrittenQueries
  PROVE  /\ RelTexts(q) \in Seq(Seq(Units)) /\ Len(RelTexts(q)) = Len(q.rels)
         /\ PredicateTexts(q) \in Seq(Seq(Units)) /\ Len(PredicateTexts(q)) = Len(q.predicates)
         /\ SumTexts(q) \in Seq(Seq(Units)) /\ Len(SumTexts(q)) = Len(q.sums)
<1>1. \A i \in DOMAIN q.rels : <<Number(q.rels[i])>> \in Seq(Units)
  <2>1. \A i \in DOMAIN q.rels : q.rels[i] \in Nat
    BY QueryFields
  <2>2. \A n \in Nat : Number(n) \in Units
    BY UnitsOf, Zenon
  <2>. QED  BY <2>1, <2>2
<1>2. \A i \in DOMAIN q.predicates : PredicateText(q.predicates[i]) \in Seq(Units)
  <2>1. \A i \in DOMAIN q.predicates : q.predicates[i] \in WrittenPredicates
    BY QueryFields
  <2>. QED  BY <2>1, PredicateSides
<1>3. \A i \in DOMAIN q.sums : SumText(q.sums[i]) \in Seq(Units)
  <2>1. \A i \in DOMAIN q.sums : q.sums[i].rel \in Nat /\ q.sums[i].col \in Nat
    <3>1. q.sums \in Seq([rel : Nat, col : Nat])
      BY QueryFields
    <3>2. \A i \in DOMAIN q.sums : q.sums[i] \in [rel : Nat, col : Nat]
      BY <3>1, ElementsOf, Zenon
    <3>. QED  BY <3>2
  <2>2. \A r, k \in Nat : ColumnText(r, k) \in Seq(Units)
    BY ColumnIsText
  <2>. QED  BY <2>1, <2>2, Zenon DEF SumText, ColumnText
<1>4. RelTexts(q) \in Seq(Seq(Units)) /\ Len(RelTexts(q)) = Len(q.rels)
  <2>1. q.rels \in Seq(Nat)
    BY QueryFields
  <2>2. PICK n \in Nat : n = Len(q.rels) /\ DOMAIN q.rels = 1..n
    BY <2>1
  <2>3. [i \in 1..n |-> <<Number(q.rels[i])>>] \in Seq(Seq(Units))
    BY <1>1, <2>2
  <2>4. RelTexts(q) = [i \in 1..n |-> <<Number(q.rels[i])>>]
    BY <2>2, Zenon DEF RelTexts
  <2>. QED  BY <2>2, <2>3, <2>4
<1>5. PredicateTexts(q) \in Seq(Seq(Units)) /\ Len(PredicateTexts(q)) = Len(q.predicates)
  <2>1. q.predicates \in Seq(WrittenPredicates)
    BY QueryFields
  <2>2. PICK n \in Nat : n = Len(q.predicates) /\ DOMAIN q.predicates = 1..n
    BY <2>1
  <2>3. [i \in 1..n |-> PredicateText(q.predicates[i])] \in Seq(Seq(Units))
    BY <1>2, <2>2
  <2>4. PredicateTexts(q) = [i \in 1..n |-> PredicateText(q.predicates[i])]
    BY <2>2, Zenon DEF PredicateTexts
  <2>. QED  BY <2>2, <2>3, <2>4
<1>6. SumTexts(q) \in Seq(Seq(Units)) /\ Len(SumTexts(q)) = Len(q.sums)
  BY <1>3, QueryFields DEF SumTexts
<1>. QED  BY <1>4, <1>5, <1>6

(* What is in which of them.                                               *)
LEMMA PartPlaces ==
  ASSUME NEW q \in WrittenQueries
  PROVE  /\ \A k \in 1..Len(RelTexts(q)) : \A c \in Marks \ {"number"} : Places(RelTexts(q)[k], c) = {}
         /\ \A k \in 1..Len(PredicateTexts(q)) : \A c \in {"|", "&", " "} :
              Places(PredicateTexts(q)[k], c) = {}
         /\ \A k \in 1..Len(SumTexts(q)) : \A c \in Marks \ {"number", "."} :
              Places(SumTexts(q)[k], c) = {}
<1>1. ASSUME NEW k \in 1..Len(RelTexts(q)), NEW c \in Marks \ {"number"}
      PROVE  Places(RelTexts(q)[k], c) = {}
  <2>1. k \in DOMAIN q.rels
    BY PartTexts, QueryFields
  <2>2. RelTexts(q)[k] = <<Number(q.rels[k])>>
    BY <2>1 DEF RelTexts
  <2>. QED  BY <2>2 DEF Places, Number
<1>2. ASSUME NEW k \in 1..Len(PredicateTexts(q)), NEW c \in {"|", "&", " "}
      PROVE  Places(PredicateTexts(q)[k], c) = {}
  <2>1. k \in DOMAIN q.predicates /\ q.predicates[k] \in WrittenPredicates
    <3>1. q.predicates \in Seq(WrittenPredicates) /\ k \in 1..Len(q.predicates)
      BY PartTexts, QueryFields
    <3>. QED  BY <3>1, ElementsOf, Zenon
  <2>2. PredicateTexts(q)[k] = PredicateText(q.predicates[k])
    BY <2>1 DEF PredicateTexts
  <2>3. c \in Marks \ {".", "number", q.predicates[k].op}
    BY <2>1, PredicateFields DEF Marks
  <2>. QED  BY <2>1, <2>2, <2>3, PredicatePlaces, Zenon
<1>3. ASSUME NEW k \in 1..Len(SumTexts(q)), NEW c \in Marks \ {"number", "."}
      PROVE  Places(SumTexts(q)[k], c) = {}
  <2>1. k \in DOMAIN q.sums /\ q.sums[k].rel \in Nat /\ q.sums[k].col \in Nat
    <3>1. q.sums \in Seq([rel : Nat, col : Nat]) /\ k \in 1..Len(q.sums)
      BY PartTexts, QueryFields
    <3>2. k \in DOMAIN q.sums /\ q.sums[k] \in [rel : Nat, col : Nat]
      BY <3>1, ElementsOf, Zenon
    <3>. QED  BY <3>2
  <2>2. SumTexts(q)[k] = ColumnText(q.sums[k].rel, q.sums[k].col)
    BY <2>1 DEF SumTexts, SumText, ColumnText
  <2>. QED  BY <2>1, <2>2, ColumnIsText, Zenon
<1>. QED  BY <1>1, <1>2, <1>3

(* What is in which slice.                                                 *)
LEMMA SlicePlaces ==
  ASSUME NEW q \in WrittenQueries
  PROVE  /\ RelSlice(q) \in Seq(Units) /\ PredicateSlice(q) \in Seq(Units) /\ SumSlice(q) \in Seq(Units)
         /\ \A c \in Marks \ {"number", " "} : Places(RelSlice(q), c) = {}
         /\ \A c \in {"|", " "} : Places(PredicateSlice(q), c) = {}
         /\ \A c \in Marks \ {"number", ".", " "} : Places(SumSlice(q), c) = {}
         /\ Cardinality(Places(RelSlice(q), " ")) = Len(q.rels) - 1
         /\ Cardinality(Places(SumSlice(q), " ")) = Len(q.sums) - 1
<1>1. " " \in Marks /\ "&" \in Marks /\ "|" \in Marks
  BY DEF Marks
<1>2. RelSlice(q) \in Seq(Units) /\ PredicateSlice(q) \in Seq(Units) /\ SumSlice(q) \in Seq(Units)
  BY <1>1, PartTexts, JoinedType DEF RelSlice, PredicateSlice, SumSlice
<1>3. ASSUME NEW c \in Marks \ {"number", " "}
      PROVE  Places(RelSlice(q), c) = {}
  <2>1. RelTexts(q) \in Seq(Seq(Units)) /\ c \in Marks /\ c # " "
        /\ \A k \in 1..Len(RelTexts(q)) : Places(RelTexts(q)[k], c) = {}
    BY PartTexts, PartPlaces
  <2>. QED  BY <1>1, <2>1, NoneJoined DEF RelSlice
<1>4. ASSUME NEW c \in {"|", " "}
      PROVE  Places(PredicateSlice(q), c) = {}
  <2>1. PredicateTexts(q) \in Seq(Seq(Units)) /\ c \in Marks /\ c # "&"
        /\ \A k \in 1..Len(PredicateTexts(q)) : Places(PredicateTexts(q)[k], c) = {}
    BY <1>1, PartTexts, PartPlaces
  <2>. QED  BY <1>1, <2>1, NoneJoined DEF PredicateSlice
<1>5. ASSUME NEW c \in Marks \ {"number", ".", " "}
      PROVE  Places(SumSlice(q), c) = {}
  <2>1. SumTexts(q) \in Seq(Seq(Units)) /\ c \in Marks /\ c # " "
        /\ \A k \in 1..Len(SumTexts(q)) : Places(SumTexts(q)[k], c) = {}
    BY PartTexts, PartPlaces
  <2>. QED  BY <1>1, <2>1, NoneJoined DEF SumSlice
<1>6. Cardinality(Places(RelSlice(q), " ")) = Len(q.rels) - 1
  <2>1. RelTexts(q) \in Seq(Seq(Units)) /\ RelTexts(q) # <<>> /\ Len(RelTexts(q)) = Len(q.rels)
        /\ \A k \in 1..Len(RelTexts(q)) : Places(RelTexts(q)[k], " ") = {}
    <3>1. RelTexts(q) \in Seq(Seq(Units)) /\ Len(RelTexts(q)) = Len(q.rels) /\ Len(q.rels) # 0
      BY PartTexts, QueryFields
    <3>2. " " \in Marks \ {"number"}
      BY DEF Marks
    <3>. QED  BY <3>1, <3>2, PartPlaces
  <2>. QED  BY <1>1, <2>1, SeparatorsCounted DEF RelSlice
<1>7. Cardinality(Places(SumSlice(q), " ")) = Len(q.sums) - 1
  <2>1. SumTexts(q) \in Seq(Seq(Units)) /\ SumTexts(q) # <<>> /\ Len(SumTexts(q)) = Len(q.sums)
        /\ \A k \in 1..Len(SumTexts(q)) : Places(SumTexts(q)[k], " ") = {}
    <3>1. SumTexts(q) \in Seq(Seq(Units)) /\ Len(SumTexts(q)) = Len(q.sums) /\ Len(q.sums) # 0
      BY PartTexts, QueryFields
    <3>2. " " \in Marks \ {"number", "."}
      BY DEF Marks
    <3>. QED  BY <3>1, <3>2, PartPlaces
  <2>. QED  BY <1>1, <2>1, SeparatorsCounted DEF SumSlice
<1>. QED  BY <1>2, <1>3, <1>4, <1>5, <1>6, <1>7

(* The provers take these two for something else inside a string.          *)
Bar == "|"
Blank == " "

LEMMA SignMarks ==
  /\ Bar \in Marks /\ Blank \in Marks /\ Blank # Bar
  /\ \A c \in {"=", "<", ">"} : /\ c # Bar /\ c \in Marks \ {"number", Blank}
                               /\ c \in Marks \ {"number", ".", Blank}
BY Zenon DEF Marks, Bar, Blank

(* Three parts between bars.                                               *)
Bars(line, parts, n, start) ==
  /\ n \in Nat \ {0} /\ n = 3
  /\ parts \in Seq(Seq(Units)) /\ Len(parts) = n
  /\ Laid(line, parts, Bar, n, start)
  /\ \A k \in 1..n : Places(parts[k], Bar) = {}

(* A line is three parts between two bars.                                 *)
LEMMA TextLaid ==
  ASSUME NEW q \in WrittenQueries
  PROVE  \E n \in Nat : \E start : Bars(Text(q), Slices(q), n, start)
<1>. DEFINE bar == <<Sign(Bar)>>
<1>1. /\ RelSlice(q) \in Seq(Units) /\ PredicateSlice(q) \in Seq(Units) /\ SumSlice(q) \in Seq(Units)
      /\ bar \in Seq(Units) /\ Bar \in Marks
  <2>1. Bar \in Marks
    BY SignMarks
  <2>2. bar \in Seq(Units)
    BY <2>1, UnitsOf
  <2>. QED  BY <2>1, <2>2, SlicePlaces
<1>2. Text(q) = (((RelSlice(q) \o bar) \o PredicateSlice(q)) \o bar) \o SumSlice(q)
  BY Zenon DEF Text, RelSlice, PredicateSlice, SumSlice, RelTexts, PredicateTexts, SumTexts, Bar
<1>. HIDE DEF bar
<1>3. (RelSlice(q) \o bar) \o PredicateSlice(q) = RelSlice(q) \o (bar \o PredicateSlice(q))
  BY <1>1, ConcatAssociative
<1>4. RelSlice(q) \o (bar \o PredicateSlice(q)) \in Seq(Units)
  <2>1. bar \o PredicateSlice(q) \in Seq(Units)
    BY <1>1, ConcatProperties
  <2>. QED  BY <1>1, <2>1, ConcatProperties
<1>5. ((RelSlice(q) \o (bar \o PredicateSlice(q))) \o bar) \o SumSlice(q)
      = (RelSlice(q) \o (bar \o PredicateSlice(q))) \o (bar \o SumSlice(q))
  <2>. DEFINE first == RelSlice(q) \o (bar \o PredicateSlice(q))
  <2>1. first \in Seq(Units)
    BY <1>4
  <2>. HIDE DEF first
  <2>2. (first \o bar) \o SumSlice(q) = first \o (bar \o SumSlice(q))
    <3>1. first \in Seq(Units) /\ bar \in Seq(Units) /\ SumSlice(q) \in Seq(Units)
      BY <1>1, <2>1
    <3>. QED  BY ONLY <3>1, ConcatAssociative
  <2>. QED  BY <2>2 DEF first
<1>6. \E start : Laid((RelSlice(q) \o (bar \o PredicateSlice(q))) \o (bar \o SumSlice(q)),
                      Slices(q), Bar, 3, start)
  BY <1>1, ThreeLaid, Zenon DEF bar, Slices
<1>7. Slices(q) \in Seq(Seq(Units)) /\ Len(Slices(q)) = 3
  BY <1>1 DEF Slices
<1>8. \A k \in 1..3 : Places(Slices(q)[k], Bar) = {}
  <2>1. Places(RelSlice(q), Bar) = {} /\ Places(PredicateSlice(q), Bar) = {} /\ Places(SumSlice(q), Bar) = {}
    <3>1. Bar \in Marks \ {"number", " "} /\ Bar \in {"|", " "} /\ Bar \in Marks \ {"number", ".", " "}
      BY Zenon DEF Bar, Marks
    <3>. QED  BY <3>1, SlicePlaces, Zenon
  <2>2. Slices(q)[1] = RelSlice(q) /\ Slices(q)[2] = PredicateSlice(q) /\ Slices(q)[3] = SumSlice(q)
    BY DEF Slices
  <2>. QED  BY <2>1, <2>2
<1>9. PICK start : Laid(Text(q), Slices(q), Bar, 3, start)
  BY <1>2, <1>3, <1>5, <1>6
<1>10. Bars(Text(q), Slices(q), 3, start)
  BY <1>7, <1>8, <1>9 DEF Bars
<1>. QED  BY <1>10

(* The nth slice is the nth part between bars.                             *)
LEMMA BarsFacts ==
  ASSUME NEW line, NEW parts, NEW n \in Nat, NEW start, Bars(line, parts, n, start)
  PROVE  /\ n = 3 /\ n \in Nat \ {0}
         /\ start \in [1..n+1 -> Nat]
         /\ \A k \in 1..n : start[k + 1] = start[k] + Len(parts[k]) + 1
         /\ \A k \in 1..n : parts[k] \in Seq(Units) /\ DOMAIN parts[k] = 1..Len(parts[k])
         /\ \A k \in 1..n : Len(parts[k]) \in Nat
         /\ \A k \in 1..n : \A c : Places(parts[k], c) \subseteq 1..Len(parts[k])
<1>1. n = 3 /\ n \in Nat \ {0} /\ start \in [1..n+1 -> Nat]
      /\ \A k \in 1..n : start[k + 1] = start[k] + Len(parts[k]) + 1
  BY DEF Bars, Laid
<1>2. \A k \in 1..n : parts[k] \in Seq(Units)
  <2>1. parts \in Seq(Seq(Units)) /\ Len(parts) = n
    BY DEF Bars
  <2>. QED  BY <2>1, ElementsOf, Zenon
<1>3. \A s \in Seq(Units) : DOMAIN s = 1..Len(s) /\ Len(s) \in Nat
  OBVIOUS
<1>4. \A k \in 1..n : DOMAIN parts[k] = 1..Len(parts[k]) /\ Len(parts[k]) \in Nat
  BY <1>2, <1>3, Zenon
<1>5. \A k \in 1..n : \A c : Places(parts[k], c) \subseteq 1..Len(parts[k])
  BY <1>4, Zenon DEF Places
<1>. QED  BY <1>1, <1>2, <1>4, <1>5, Zenon

(* The slice of a position is the number of the part that it lies in.      *)
LEMMA BarsLaid ==
  ASSUME NEW line, NEW parts, NEW n \in Nat, NEW start, Bars(line, parts, n, start),
         NEW k \in 1..n, NEW i \in 1..Len(parts[k])
  PROVE  Slice(line, start[k] + i) = k - 1
<1>1. /\ \A j \in Places(line, Bar) : \E m \in 2..n : j = start[m]
      /\ \A m \in 2..n : start[m] \in Places(line, Bar)
  BY SeparatorsLaid DEF Bars
<1>2. n = 3
  BY DEF Bars
<1>3. PICK x \in Nat, y \in Nat : x = start[2] /\ y = start[3] /\ x < y
  <2>1. start \in [1..n+1 -> Nat] /\ \A m, l \in 1..n+1 : m < l => start[m] < start[l]
    BY DEF Bars, Laid
  <2>. QED  BY <1>2, <2>1
<1>4. (\A j \in Places(line, Bar) : j = x \/ j = y) /\ x \in Places(line, Bar) /\ y \in Places(line, Bar)
  BY <1>1, <1>2, <1>3
<1>5. PICK z \in Nat : /\ z = start[k] + i
                       /\ k = 1 => z < x
                       /\ k = 2 => x < z /\ z < y
                       /\ k = 3 => y < z
  <2>1. PICK l \in Nat : l = Len(parts[k])
    BY BarsFacts
  <2>2. start[k] \in Nat /\ start[k + 1] = start[k] + l + 1
    <3>1. start \in [1..n+1 -> Nat] /\ start[k + 1] = start[k] + Len(parts[k]) + 1
      BY DEF Bars, Laid
    <3>. QED  BY <1>2, <2>1, <3>1
  <2>3. i >= 1 /\ i <= l /\ i \in Nat
    BY <2>1
  <2>4. start[k] < start[k] + i /\ start[k] + i < start[k + 1] /\ start[k] + i \in Nat
    BY <2>2, <2>3
  <2>. QED  BY <1>2, <1>3, <2>4
<1>6. PICK before : before = {j \in Places(line, Bar) : j < z}
  OBVIOUS
<1>7. Slice(line, start[k] + i) = Cardinality(before)
  BY <1>5, <1>6, Zenon DEF Slice, Bar
<1>8. \A j : j \in before <=> (j = x \/ j = y) /\ j < z
  BY <1>4, <1>6
<1>9. CASE k = 1
  <2>1. before = {}
    BY <1>3, <1>5, <1>8, <1>9
  <2>2. Cardinality({}) = 0
    BY FS_EmptySet
  <2>. QED  BY <1>7, <1>9, <2>1, <2>2
<1>10. CASE k = 2
  <2>1. before = {x}
    BY <1>3, <1>5, <1>8, <1>10
  <2>2. Cardinality({x}) = 1
    BY FS_Singleton
  <2>. QED  BY <1>7, <1>10, <2>1, <2>2
<1>11. CASE k = 3
  <2>1. before = {x} \cup {y}
    BY <1>3, <1>5, <1>8, <1>11
  <2>2. IsFiniteSet({x}) /\ Cardinality({x}) = 1
    BY FS_Singleton
  <2>4. y \notin {x}
    BY <1>3
  <2>3. Cardinality({x} \cup {y}) = 1 + 1
    BY <2>2, <2>4, FS_AddElement
  <2>6. 1 + 1 = 2
    OBVIOUS
  <2>5. Cardinality(before) = 2
    BY <2>1, <2>3, <2>6, Zenon
  <2>. QED  BY <1>7, <1>11, <2>5
<1>. QED  BY <1>2, <1>9, <1>10, <1>11

(* The signs of a slice are those of its part.                             *)
LEMMA InSliceLaid ==
  ASSUME NEW line, NEW parts, NEW n \in Nat, NEW start, Bars(line, parts, n, start),
         NEW c, c # Bar, NEW k \in 1..n
  PROVE  /\ \A j \in InSlice(line, c, k - 1) : \E i \in Places(parts[k], c) : j = start[k] + i
         /\ \A i \in Places(parts[k], c) : start[k] + i \in InSlice(line, c, k - 1)
<1>1. /\ \A j \in Places(line, c) : \E l \in 1..n : \E i \in Places(parts[l], c) : j = start[l] + i
      /\ \A l \in 1..n : \A i \in Places(parts[l], c) : start[l] + i \in Places(line, c)
  <2>1. /\ n \in Nat \ {0} /\ parts \in Seq(Seq(Units)) /\ Len(parts) = n
        /\ Laid(line, parts, Bar, n, start)
    BY DEF Bars
  <2>. QED  BY <2>1, OthersLaid
<1>2. \A l \in 1..n : \A i \in 1..Len(parts[l]) : Slice(line, start[l] + i) = l - 1
  BY BarsLaid
<1>3. \A l \in 1..n : \A i \in 1..Len(parts[l]) : start[l] + i \in 1..Len(line)
  BY PositionsLaid DEF Bars
<1>4. \A l \in 1..n : Places(parts[l], c) \subseteq 1..Len(parts[l])
  BY BarsFacts
<1>5. ASSUME NEW j \in InSlice(line, c, k - 1)
      PROVE  \E i \in Places(parts[k], c) : j = start[k] + i
  <2>1. j \in Places(line, c) /\ Slice(line, j) = k - 1
    BY <1>5 DEF InSlice
  <2>2. PICK l \in 1..n : \E i \in Places(parts[l], c) : j = start[l] + i
    BY <1>1, <2>1
  <2>3. l - 1 = k - 1
    BY <1>2, <1>4, <2>1, <2>2
  <2>4. l = k
    BY <2>3
  <2>. QED  BY <2>2, <2>4
<1>6. ASSUME NEW i \in Places(parts[k], c)
      PROVE  start[k] + i \in InSlice(line, c, k - 1)
  <2>1. i \in 1..Len(parts[k])
    BY <1>4
  <2>2. start[k] + i \in 1..Len(line) /\ Slice(line, start[k] + i) = k - 1
    BY <1>2, <1>3, <2>1
  <2>3. start[k] + i \in Places(line, c)
    BY <1>1, <2>2
  <2>. QED  BY <2>2, <2>3 DEF InSlice
<1>. QED  BY <1>5, <1>6

(* In which slice a sign is.                                               *)
LEMMA SliceOf ==
  ASSUME NEW line, NEW parts, NEW n \in Nat, NEW start, Bars(line, parts, n, start),
         NEW c, c # Bar, NEW j \in Places(line, c)
  PROVE  \E k \in 1..n : Places(parts[k], c) # {} /\ Slice(line, j) = k - 1
<1>1. \E l \in 1..n : \E m \in Places(parts[l], c) : j = start[l] + m
  <2>1. /\ n \in Nat \ {0} /\ parts \in Seq(Seq(Units)) /\ Len(parts) = n
        /\ Laid(line, parts, Bar, n, start)
    BY DEF Bars
  <2>. QED  BY <2>1, OthersLaid
<1>2. PICK l \in 1..n : \E m \in Places(parts[l], c) : j = start[l] + m
  BY <1>1
<1>3. PICK m \in Places(parts[l], c) : j = start[l] + m
  BY <1>2
<1>4. m \in 1..Len(parts[l])
  BY BarsFacts
<1>5. Slice(line, start[l] + m) = l - 1
  BY <1>4, BarsLaid
<1>. QED  BY <1>3, <1>5

(* As many in the slice as in the part.                                    *)
LEMMA InSliceCounted ==
  ASSUME NEW line, NEW parts, NEW n \in Nat, NEW start, Bars(line, parts, n, start),
         NEW c, c # Bar, NEW k \in 1..n
  PROVE  Cardinality(InSlice(line, c, k - 1)) = Cardinality(Places(parts[k], c))
<1>1. /\ \A j \in InSlice(line, c, k - 1) : \E i \in Places(parts[k], c) : j = start[k] + i
      /\ \A i \in Places(parts[k], c) : start[k] + i \in InSlice(line, c, k - 1)
  BY InSliceLaid
<1>. DEFINE D == Places(parts[k], c)
            f == [i \in D |-> start[k] + i]
            S == InSlice(line, c, k - 1)
<1>2. D \subseteq 1..Len(parts[k]) /\ Len(parts[k]) \in Nat
  BY BarsFacts
<1>3. start[k] \in Nat
  <2>1. start \in [1..n+1 -> Nat] /\ n \in Nat
    BY BarsFacts
  <2>. QED  BY <2>1
<1>4. IsFiniteSet(D)
  <2>1. IsFiniteSet(1..Len(parts[k]))
    BY <1>2, FS_Interval
  <2>. QED  BY <1>2, <2>1, FS_Subset
<1>5. S = {f[x] : x \in D}
  BY <1>1
<1>6. \A x, y \in D : f[x] = f[y] => x = y
  <2>1. \A x \in D : x \in Nat /\ f[x] = start[k] + x
    BY <1>2
  <2>. HIDE DEF D, f
  <2>. QED  BY <1>3, <2>1
<1>. HIDE DEF D, f, S
<1>7. Cardinality(S) = Cardinality(D)
  BY <1>4, <1>5, <1>6, Numbered
<1>. QED  BY <1>7 DEF D, S

(* main finds each sign where it expects it, and counts the relations and  *)
(* the checksums.                                                          *)
LEMMA FormatAndEnds ==
  ASSUME NEW q \in WrittenQueries
  PROVE  /\ ~WrongFormat(Text(q))
         /\ Cardinality(InSlice(Text(q), Blank, 0)) = Len(q.rels) - 1
         /\ Cardinality(InSlice(Text(q), Blank, 2)) = Len(q.sums) - 1
<1>0. PICK n \in Nat : \E start : Bars(Text(q), Slices(q), n, start)
  BY TextLaid
<1>1. PICK start : Bars(Text(q), Slices(q), n, start)
  BY <1>0
<1>. DEFINE line == Text(q)
            parts == Slices(q)
<1>2. parts[1] = RelSlice(q) /\ parts[2] = PredicateSlice(q) /\ parts[3] = SumSlice(q)
  BY DEF Slices
<1>3. Bars(line, parts, n, start)
  BY <1>1
<1>. HIDE DEF line, parts
<1>4. n = 3
  BY <1>3 DEF Bars
<1>5. \A k \in 1..n : k = 1 \/ k = 2 \/ k = 3
  BY <1>4
<1>6. \A j \in Places(line, Blank) : Slice(line, j) \in {0, 2}
  <2>1. Places(parts[2], Blank) = {}
    <3>1. Blank \in {"|", " "}
      BY Zenon DEF Blank
    <3>2. Places(PredicateSlice(q), Blank) = {}
      BY <3>1, SlicePlaces, Zenon
    <3>. QED  BY <1>2, <3>2
  <2>2. ASSUME NEW j \in Places(line, Blank)
        PROVE  Slice(line, j) \in {0, 2}
    <3>0. Blank # Bar
      BY SignMarks
    <3>1. PICK k \in 1..n : Places(parts[k], Blank) # {} /\ Slice(line, j) = k - 1
      BY <1>3, <3>0, SliceOf
    <3>2. k = 1 \/ k = 3
      BY <1>5, <2>1, <3>1
    <3>. QED  BY <1>4, <3>1, <3>2
  <2>. QED  BY <2>2
<1>12. \A c : c # Bar => \A j \in Places(line, c) :
         \E k \in 1..n : Places(parts[k], c) # {} /\ Slice(line, j) = k - 1
  BY <1>3, SliceOf
<1>7. \A c \in {"=", "<", ">"} : \A j \in Places(line, c) : Slice(line, j) = 1
  <2>1. ASSUME NEW c \in {"=", "<", ">"}, NEW j \in Places(line, c)
        PROVE  Slice(line, j) = 1
    <3>1. c # Bar /\ c \in Marks \ {"number", Blank} /\ c \in Marks \ {"number", ".", Blank}
      BY SignMarks
    <3>4. Places(RelSlice(q), c) = {} /\ Places(SumSlice(q), c) = {}
      BY <3>1, SlicePlaces, Zenon DEF Blank
    <3>2. Places(parts[1], c) = {} /\ Places(parts[3], c) = {}
      BY <1>2, <3>4
    <3>3. PICK k \in 1..n : Places(parts[k], c) # {} /\ Slice(line, j) = k - 1
      BY <1>12, <3>1, Zenon
    <3>5. k = 2
      BY <1>5, <3>2, <3>3
    <3>. QED  BY <3>3, <3>5
  <2>. QED  BY <2>1
<1>8. ~WrongFormat(line)
  BY <1>6, <1>7, Zenon DEF WrongFormat, Blank
<1>9. \A k \in 1..n : Cardinality(InSlice(line, Blank, k - 1)) = Cardinality(Places(parts[k], Blank))
  <2>1. Blank # Bar
    BY SignMarks
  <2>. QED  BY <1>3, <2>1, InSliceCounted
<1>10. Cardinality(InSlice(line, Blank, 0)) = Len(q.rels) - 1
  <2>1. Cardinality(InSlice(line, Blank, 1 - 1)) = Cardinality(Places(parts[1], Blank))
    BY <1>4, <1>9
  <2>2. 1 - 1 = 0
    OBVIOUS
  <2>3. /\ Cardinality(Places(RelSlice(q), Blank)) = Len(q.rels) - 1
        /\ Cardinality(Places(SumSlice(q), Blank)) = Len(q.sums) - 1
    BY SlicePlaces, Zenon DEF Blank
  <2>. QED  BY <1>2, <2>1, <2>2, <2>3
<1>11. Cardinality(InSlice(line, Blank, 2)) = Len(q.sums) - 1
  <2>1. Cardinality(InSlice(line, Blank, 3 - 1)) = Cardinality(Places(parts[3], Blank))
    BY <1>4, <1>9
  <2>2. 3 - 1 = 2
    OBVIOUS
  <2>3. /\ Cardinality(Places(RelSlice(q), Blank)) = Len(q.rels) - 1
        /\ Cardinality(Places(SumSlice(q), Blank)) = Len(q.sums) - 1
    BY SlicePlaces, Zenon DEF Blank
  <2>. QED  BY <1>2, <2>1, <2>2, <2>3
<1>. QED  BY <1>8, <1>10, <1>11 DEF line

-----------------------------------------------------------------------------
(* Filters and joins are counted                                           *)

(* How the predicates are laid out in a line, and where their signs are.   *)
Placed(q, n, start, m, begin) ==
  /\ Bars(Text(q), Slices(q), n, start)
  /\ m = Len(q.predicates) /\ m \in Nat \ {0}
  /\ Laid(PredicateSlice(q), PredicateTexts(q), "&", m, begin)
SignAt(start, begin, k) == start[2] + (begin[k] + 4)

LEMMA PlacedExists ==
  ASSUME NEW q \in WrittenQueries, q.predicates # <<>>
  PROVE  \E n \in Nat : \E start : \E m \in Nat : \E begin : Placed(q, n, start, m, begin)
<1>1. PICK n \in Nat : \E start : Bars(Text(q), Slices(q), n, start)
  BY TextLaid
<1>2. PICK start : Bars(Text(q), Slices(q), n, start)
  BY <1>1
<1>3. PredicateTexts(q) \in Seq(Seq(Units)) /\ Len(PredicateTexts(q)) = Len(q.predicates)
  BY PartTexts
<1>4. Len(q.predicates) \in Nat \ {0}
  <2>1. q.predicates \in Seq(WrittenPredicates)
    BY QueryFields
  <2>. QED  BY <2>1
<1>5. "&" \in Marks
  BY DEF Marks
<1>6. PICK begin : Laid(PredicateSlice(q), PredicateTexts(q), "&", Len(PredicateTexts(q)), begin)
  <2>1. PredicateTexts(q) # <<>>
    BY <1>3, <1>4
  <2>. QED  BY <1>3, <1>5, <2>1, JoinedLaid DEF PredicateSlice
<1>7. Placed(q, n, start, Len(q.predicates), begin)
  BY <1>2, <1>3, <1>4, <1>6, Zenon DEF Placed
<1>8. Len(q.predicates) \in Nat
  BY <1>4
<1>. QED  BY <1>7, <1>8, Zenon

(* The units of predicate k in the line.                                   *)
UnitsPlaced(q, start, m, begin) ==
  /\ start \in [1..4 -> Nat] /\ begin \in [1..m+1 -> Nat]
  /\ \A k, l \in 1..m : begin[k] = begin[l] => k = l
  /\ \A k \in 1..m : k \in DOMAIN q.predicates /\ q.predicates[k] \in WrittenPredicates
  /\ \A k \in 1..m : PredicateTexts(q)[k] = PredicateText(q.predicates[k])
  /\ \A k \in 1..m : \A i \in 1..Len(PredicateTexts(q)[k]) :
       /\ start[2] + (begin[k] + i) \in DOMAIN Text(q)
       /\ Text(q)[start[2] + (begin[k] + i)] = PredicateTexts(q)[k][i]
  /\ \A k \in 1..m :
       Text(q)[start[2] + (begin[k] + (Len(PredicateTexts(q)[k]) + 1))][1] \in {"&", Bar}

(* Every unit of every predicate at its place in the line.                 *)
LEMMA PredicateUnitsAt ==
  ASSUME NEW q \in WrittenQueries, NEW n \in Nat, NEW start, NEW m \in Nat, NEW begin,
         Placed(q, n, start, m, begin)
  PROVE  UnitsPlaced(q, start, m, begin)
<1>. DEFINE line == Text(q)
            parts == Slices(q)
            B == PredicateSlice(q)
            T == PredicateTexts(q)
<1>1. Bars(line, parts, n, start) /\ m = Len(q.predicates) /\ m \in Nat \ {0} /\ Laid(B, T, "&", m, begin)
  BY Zenon DEF Placed
<1>2. T \in Seq(Seq(Units)) /\ Len(T) = m
  BY <1>1, PartTexts
<1>3. \A k \in 1..m : /\ k \in DOMAIN q.predicates /\ q.predicates[k] \in WrittenPredicates
                      /\ T[k] = PredicateText(q.predicates[k])
  <2>1. q.predicates \in Seq(WrittenPredicates)
    BY QueryFields
  <2>2. \A k \in 1..m : k \in DOMAIN q.predicates /\ q.predicates[k] \in WrittenPredicates
    BY <1>1, <2>1, ElementsOf, Zenon
  <2>. QED  BY <2>2 DEF PredicateTexts
<1>4. parts[2] = B
  BY DEF Slices
<1>. HIDE DEF line, parts, B, T
<1>5. n = 3 /\ Laid(line, parts, Bar, n, start)
  BY <1>1 DEF Bars
<1>6. /\ line \in Seq(Units) /\ start \in [1..n+1 -> Nat]
      /\ start[2 + 1] = start[2] + Len(B) + 1
      /\ \A i \in 1..Len(B) : line[start[2] + i] = B[i]
      /\ line[start[2 + 1]] = Sign(Bar)
      /\ \A i \in 1..Len(B) : start[2] + i \in 1..Len(line)
  <2>1. /\ line \in Seq(Units) /\ start \in [1..n+1 -> Nat]
        /\ \A k \in 1..n : start[k + 1] = start[k] + Len(parts[k]) + 1
        /\ \A k \in 1..n : \A i \in 1..Len(parts[k]) : line[start[k] + i] = parts[k][i]
        /\ \A k \in 2..n : line[start[k]] = Sign(Bar)
    BY <1>5 DEF Laid
  <2>2. \A k \in 1..n : \A i \in 1..Len(parts[k]) : start[k] + i \in 1..Len(line)
    <3>1. n \in Nat \ {0} /\ parts \in Seq(Seq(Units)) /\ Len(parts) = n
      BY <1>1 DEF Bars
    <3>. QED  BY <1>5, <3>1, PositionsLaid
  <2>3. 2 \in 1..n /\ 2 + 1 \in 2..n
    BY <1>5
  <2>. QED  BY <1>4, <2>1, <2>2, <2>3
<1>7. /\ B \in Seq(Units) /\ begin \in [1..m+1 -> Nat]
      /\ begin[m + 1] = Len(B) + 1
      /\ \A k \in 1..m : begin[k + 1] = begin[k] + Len(T[k]) + 1
      /\ \A k \in 1..m : \A i \in 1..Len(T[k]) : B[begin[k] + i] = T[k][i]
      /\ \A k \in 2..m : B[begin[k]] = Sign("&")
      /\ \A k, l \in 1..m+1 : k < l => begin[k] < begin[l]
  BY <1>1 DEF Laid
<1>8. /\ \A k \in 2..m : begin[k] \in 1..Len(B)
      /\ \A k \in 1..m : \A i \in 1..Len(T[k]) : begin[k] + i \in 1..Len(B)
  BY <1>1, <1>2, PositionsLaid
<1>9. \A k, l \in 1..m : begin[k] = begin[l] => k = l
  BY <1>7
<1>10. ASSUME NEW k \in 1..m, NEW i \in 1..Len(T[k])
       PROVE  /\ start[2] + (begin[k] + i) \in DOMAIN line
              /\ line[start[2] + (begin[k] + i)] = T[k][i]
  <2>1. begin[k] + i \in 1..Len(B) /\ B[begin[k] + i] = T[k][i]
    BY <1>7, <1>8
  <2>2. DOMAIN line = 1..Len(line)
    BY <1>6
  <2>. QED  BY <1>6, <2>1, <2>2
<1>11. ASSUME NEW k \in 1..m
       PROVE  line[start[2] + (begin[k] + (Len(T[k]) + 1))][1] \in {"&", Bar}
  <2>1. T[k] \in Seq(Units)
    BY <1>2, ElementsOf, Zenon
  <2>2. Len(T[k]) \in Nat /\ begin[k] \in Nat
    BY <1>7, <2>1
  <2>3. begin[k] + (Len(T[k]) + 1) = begin[k + 1]
    BY <1>7, <2>2
  <2>4. CASE k = m
    <3>1. start[2] + (begin[k] + (Len(T[k]) + 1)) = start[2 + 1]
      <4>1. begin[k + 1] = Len(B) + 1
        BY <1>7, <2>4
      <4>2. PICK s \in Nat, l \in Nat : s = start[2] /\ l = Len(B)
        BY <1>5, <1>6, <1>7
      <4>3. start[2 + 1] = s + (l + 1)
        <5>1. start[2 + 1] = s + l + 1
          BY <1>6, <4>2
        <5>. QED  BY <4>2, <5>1
      <4>4. begin[k] + (Len(T[k]) + 1) = l + 1
        BY <2>3, <4>1, <4>2
      <4>. QED  BY <4>2, <4>3, <4>4
    <3>2. line[start[2 + 1]][1] = Bar
      BY <1>6 DEF Sign
    <3>. QED  BY <3>1, <3>2
  <2>5. CASE k # m
    <3>1. k + 1 \in 2..m
      BY <2>5
    <3>2. B[begin[k + 1]] = Sign("&") /\ begin[k + 1] \in 1..Len(B)
      BY <1>7, <1>8, <3>1
    <3>3. line[start[2] + begin[k + 1]] = Sign("&")
      BY <1>6, <3>2
    <3>. QED  BY <2>3, <3>3 DEF Sign
  <2>. QED  BY <2>4, <2>5
<1>12. start \in [1..4 -> Nat]
  BY <1>5, <1>6
<1>13. \A k \in 1..m : \A i \in 1..Len(T[k]) :
         /\ start[2] + (begin[k] + i) \in DOMAIN line
         /\ line[start[2] + (begin[k] + i)] = T[k][i]
  BY <1>10, Zenon
<1>14. \A k \in 1..m : line[start[2] + (begin[k] + (Len(T[k]) + 1))][1] \in {"&", Bar}
  BY <1>11, Zenon
<1>15. begin \in [1..m+1 -> Nat]
  BY <1>7
<1>. QED  BY <1>3, <1>9, <1>12, <1>13, <1>14, <1>15, Zenon DEF UnitsPlaced, line, T

(* Where the signs of the predicates are, and what is behind them.         *)
LEMMA SignsPlaced ==
  ASSUME NEW q \in WrittenQueries, NEW n \in Nat, NEW start, NEW m \in Nat, NEW begin,
         Placed(q, n, start, m, begin), NEW c \in {"=", "<", ">"}
  PROVE  /\ \A j \in InSlice(Text(q), c, 1) :
              \E k \in 1..m : q.predicates[k].op = c /\ j = SignAt(start, begin, k)
         /\ \A k \in 1..m : q.predicates[k].op = c => SignAt(start, begin, k) \in InSlice(Text(q), c, 1)
<1>. DEFINE B == PredicateSlice(q)
            T == PredicateTexts(q)
<1>0. UnitsPlaced(q, start, m, begin)
  BY PredicateUnitsAt
<1>1. Bars(Text(q), Slices(q), n, start) /\ m \in Nat \ {0} /\ m = Len(q.predicates) /\ Laid(B, T, "&", m, begin)
  BY Zenon DEF Placed
<1>2. T \in Seq(Seq(Units)) /\ Len(T) = m
  BY <1>1, PartTexts
<1>3. c # Bar /\ c \in Marks \ {"number", Blank} /\ c # "&" /\ c # "." /\ c # "number" /\ c \in Marks
  <2>1. c # Bar /\ c \in Marks \ {"number", Blank}
    BY SignMarks
  <2>. QED  BY <2>1
<1>4. n = 3 /\ Slices(q)[2] = B
  BY <1>1 DEF Bars, Slices
<1>5. /\ \A j \in InSlice(Text(q), c, 1) : \E i \in Places(B, c) : j = start[2] + i
      /\ \A i \in Places(B, c) : start[2] + i \in InSlice(Text(q), c, 1)
  <2>1. 2 \in 1..n /\ 2 - 1 = 1
    BY <1>4
  <2>2. /\ \A j \in InSlice(Text(q), c, 2 - 1) : \E i \in Places(Slices(q)[2], c) : j = start[2] + i
        /\ \A i \in Places(Slices(q)[2], c) : start[2] + i \in InSlice(Text(q), c, 2 - 1)
    BY <1>1, <1>3, <2>1, InSliceLaid
  <2>. QED  BY <1>4, <2>1, <2>2
<1>6. /\ \A j \in Places(B, c) : \E k \in 1..m : \E i \in Places(T[k], c) : j = begin[k] + i
      /\ \A k \in 1..m : \A i \in Places(T[k], c) : begin[k] + i \in Places(B, c)
  BY <1>1, <1>2, <1>3, OthersLaid
<1>7. \A k \in 1..m : Places(T[k], c) = IF q.predicates[k].op = c THEN {4} ELSE {}
  <2>1. ASSUME NEW k \in 1..m
        PROVE  Places(T[k], c) = IF q.predicates[k].op = c THEN {4} ELSE {}
    <3>1. q.predicates[k] \in WrittenPredicates /\ T[k] = PredicateText(q.predicates[k])
      BY <1>0, Zenon DEF UnitsPlaced
    <3>2. CASE q.predicates[k].op = c
      BY <3>1, <3>2, PredicatePlaces
    <3>3. CASE q.predicates[k].op # c
      <4>1. c \in Marks \ {".", "number", q.predicates[k].op}
        BY <1>3, <3>3
      <4>2. Places(PredicateText(q.predicates[k]), c) = {}
        BY <3>1, <4>1, PredicatePlaces, Zenon
      <4>. QED  BY <3>1, <3>3, <4>2
    <3>. QED  BY <3>2, <3>3
  <2>. QED  BY <2>1
<1>. HIDE DEF B, T
<1>8. \A k \in 1..m : \A i \in Places(T[k], c) : i = 4 /\ q.predicates[k].op = c
  BY <1>7
<1>9. \A k \in 1..m : q.predicates[k].op = c => 4 \in Places(T[k], c)
  BY <1>7
<1>10. ASSUME NEW j \in InSlice(Text(q), c, 1)
       PROVE  \E k \in 1..m : q.predicates[k].op = c /\ j = SignAt(start, begin, k)
  <2>1. PICK i \in Places(B, c) : j = start[2] + i
    BY <1>5
  <2>2. PICK k \in 1..m : \E l \in Places(T[k], c) : i = begin[k] + l
    BY <1>6
  <2>3. i = begin[k] + 4 /\ q.predicates[k].op = c
    BY <1>8, <2>2
  <2>. QED  BY <2>1, <2>3 DEF SignAt
<1>11. ASSUME NEW k \in 1..m, q.predicates[k].op = c
       PROVE  SignAt(start, begin, k) \in InSlice(Text(q), c, 1)
  <2>1. begin[k] + 4 \in Places(B, c)
    BY <1>6, <1>9, <1>11
  <2>. QED  BY <1>5, <2>1 DEF SignAt
<1>. QED  BY <1>10, <1>11

(* The scan looks ahead of an equals sign and sees a dot only in a join.   *)
LEMMA DotBehindJoin ==
  ASSUME NEW q \in WrittenQueries, NEW n \in Nat, NEW start, NEW m \in Nat, NEW begin,
         Placed(q, n, start, m, begin), NEW k \in 1..m,
         q.predicates[k].join => q.predicates[k].rel2 < 100
  PROVE  DotAhead(Text(q), SignAt(start, begin, k)) <=> q.predicates[k].join
<1>. DEFINE p == q.predicates[k]
            T == PredicateTexts(q)[k]
<1>0. UnitsPlaced(q, start, m, begin)
  BY PredicateUnitsAt
<1>1. p \in WrittenPredicates /\ T = PredicateText(p)
  BY <1>0, Zenon DEF UnitsPlaced
<1>2. /\ Len(T) = IF p.join THEN 7 ELSE 5
      /\ T[5] = Number(IF p.join THEN p.rel2 ELSE p.value)
      /\ p.join => T[6][1] = "."
  <2>. HIDE DEF p, T
  <2>. QED  BY <1>1, PredicateUnits
<1>3. /\ \A i \in 1..Len(T) : /\ start[2] + (begin[k] + i) \in DOMAIN Text(q)
                              /\ Text(q)[start[2] + (begin[k] + i)] = T[i]
      /\ Text(q)[start[2] + (begin[k] + (Len(T) + 1))][1] \in {"&", Bar}
  BY <1>0, Zenon DEF UnitsPlaced
<1>4. p.join \in BOOLEAN
  BY <1>1, PredicateFields
<1>5. PICK s \in Nat, b \in Nat : s = start[2] /\ b = begin[k]
  <2>1. start \in [1..4 -> Nat] /\ begin \in [1..m+1 -> Nat]
    BY <1>0, Zenon DEF UnitsPlaced
  <2>. QED  BY <2>1
<1>6. SignAt(start, begin, k) + 1 = s + (b + 5) /\ SignAt(start, begin, k) + 2 = s + (b + 6)
  BY <1>5 DEF SignAt
<1>. HIDE DEF p, T
<1>7. CASE p.join
  <2>1. Text(q)[s + (b + 5)] = Number(p.rel2)
    BY <1>2, <1>3, <1>5, <1>7
  <2>2. Text(q)[s + (b + 6)][1] = "." /\ s + (b + 6) \in DOMAIN Text(q)
    BY <1>2, <1>3, <1>5, <1>7
  <2>3. Text(q)[s + (b + 5)][2] < 100
    BY <1>7, <2>1 DEF Number, p
  <2>4. s + (b + 6) \in Places(Text(q), ".")
    BY <2>2 DEF Places
  <2>. QED  BY <1>6, <1>7, <2>3, <2>4 DEF DotAhead, p
<1>8. CASE ~p.join
  <2>1. Text(q)[s + (b + 6)][1] \in {"&", Bar}
    BY <1>2, <1>3, <1>5, <1>8
  <2>2. "." \notin {"&", Bar}
    BY Zenon DEF Bar
  <2>3. s + (b + 6) \notin Places(Text(q), ".")
    BY <2>1, <2>2, Zenon DEF Places
  <2>. QED  BY <1>6, <1>8, <2>3 DEF DotAhead, p
<1>. QED  BY <1>4, <1>7, <1>8

(* The signs S are those of the predicates D.                              *)
SignsOf(S, D, m, start, begin) ==
  /\ D \subseteq 1..m
  /\ \A j \in S : \E k \in D : j = SignAt(start, begin, k)
  /\ \A k \in D : SignAt(start, begin, k) \in S

(* As many signs as predicates they are in.                                *)
LEMMA SignsNumbered ==
  ASSUME NEW q \in WrittenQueries, NEW start, NEW m \in Nat, NEW begin,
         UnitsPlaced(q, start, m, begin), NEW D, NEW S, SignsOf(S, D, m, start, begin)
  PROVE  Cardinality(S) = Cardinality(D)
<1>0. /\ D \subseteq 1..m
      /\ \A j \in S : \E k \in D : j = SignAt(start, begin, k)
      /\ \A k \in D : SignAt(start, begin, k) \in S
  BY DEF SignsOf
<1>1. start \in [1..4 -> Nat] /\ begin \in [1..m+1 -> Nat]
      /\ \A k, l \in 1..m : begin[k] = begin[l] => k = l
  BY Zenon DEF UnitsPlaced
<1>. DEFINE f == [k \in D |-> SignAt(start, begin, k)]
<1>2. IsFiniteSet(D)
  <2>1. IsFiniteSet(1..m)
    BY FS_Interval
  <2>. QED  BY <1>0, <2>1, FS_Subset
<1>3. S = {f[x] : x \in D}
  <2>1. \A x \in D : f[x] = SignAt(start, begin, x)
    OBVIOUS
  <2>. HIDE DEF f
  <2>2. S \subseteq {f[x] : x \in D}
    BY <1>0, <2>1
  <2>3. {f[x] : x \in D} \subseteq S
    BY <1>0, <2>1
  <2>. QED  BY <2>2, <2>3
<1>4. \A x, y \in D : f[x] = f[y] => x = y
  <2>1. ASSUME NEW x \in D, NEW y \in D, f[x] = f[y]
        PROVE  x = y
    <3>1. PICK s \in Nat, b \in Nat, d \in Nat : s = start[2] /\ b = begin[x] /\ d = begin[y]
      <4>1. start[2] \in Nat
        BY <1>1
      <4>2. x \in 1..m+1 /\ y \in 1..m+1
        BY <1>0
      <4>3. begin[x] \in Nat /\ begin[y] \in Nat
        BY <1>1, <4>2
      <4>. QED  BY <4>1, <4>3
    <3>2. s + (b + 4) = s + (d + 4)
      BY <2>1, <3>1 DEF SignAt
    <3>3. b = d
      BY <3>2
    <3>. QED  BY <1>0, <1>1, <3>1, <3>3
  <2>. QED  BY <2>1
<1>. HIDE DEF f
<1>. QED  BY <1>2, <1>3, <1>4, Numbered

(* The two kinds of predicates, and the signs of each in the line.         *)
FilterPlaces(q) == {k \in DOMAIN q.predicates : ~q.predicates[k].join}
JoinPlaces(q) == {k \in DOMAIN q.predicates : q.predicates[k].join}
JoinSigns(line) == {i \in InSlice(line, "=", 1) : DotAhead(line, i)}
FilterSigns(line) == InSlice(line, "<", 1) \cup InSlice(line, ">", 1)
                     \cup (InSlice(line, "=", 1) \ JoinSigns(line))

(* The first scan counts a sign for every filter and every join.           *)
LEMMA PredicatesCounted ==
  ASSUME NEW q \in WrittenQueries, q.predicates # <<>>,
         \A k \in DOMAIN q.predicates : q.predicates[k].join => q.predicates[k].rel2 < 100
  PROVE  /\ Cardinality(JoinSigns(Text(q))) = Cardinality(JoinPlaces(q))
         /\ Cardinality(FilterSigns(Text(q))) = Cardinality(FilterPlaces(q))
<1>1. PICK n \in Nat : \E start : \E m \in Nat : \E begin : Placed(q, n, start, m, begin)
  BY PlacedExists
<1>2. PICK start : \E m \in Nat : \E begin : Placed(q, n, start, m, begin)
  BY <1>1
<1>3. PICK m \in Nat : \E begin : Placed(q, n, start, m, begin)
  BY <1>2
<1>4. PICK begin : Placed(q, n, start, m, begin)
  BY <1>3
<1>5. UnitsPlaced(q, start, m, begin)
  BY <1>4, PredicateUnitsAt
<1>6. DOMAIN q.predicates = 1..m
  <2>1. q.predicates \in Seq(WrittenPredicates) /\ m = Len(q.predicates)
    BY <1>4, QueryFields DEF Placed
  <2>. QED  BY <2>1
<1>. DEFINE line == Text(q)
            At(k) == SignAt(start, begin, k)
<1>7. \A c \in {"=", "<", ">"} :
        /\ \A j \in InSlice(line, c, 1) : \E k \in 1..m : q.predicates[k].op = c /\ j = At(k)
        /\ \A k \in 1..m : q.predicates[k].op = c => At(k) \in InSlice(line, c, 1)
  BY <1>4, SignsPlaced
<1>8. \A k \in 1..m : DotAhead(line, At(k)) <=> q.predicates[k].join
  BY <1>4, <1>6, DotBehindJoin
<1>9. \A k \in 1..m : /\ q.predicates[k].op \in {"<", ">", "="} /\ q.predicates[k].join \in BOOLEAN
                      /\ q.predicates[k].join => q.predicates[k].op = "="
  <2>1. \A k \in 1..m : q.predicates[k] \in WrittenPredicates
    BY <1>5, Zenon DEF UnitsPlaced
  <2>. QED  BY <2>1, PredicateFields
<1>. HIDE DEF line, At
<1>10. \A j \in JoinSigns(line) : \E k \in JoinPlaces(q) : j = At(k)
  <2>1. ASSUME NEW j \in JoinSigns(line)
        PROVE  \E k \in JoinPlaces(q) : j = At(k)
    <3>1. j \in InSlice(line, "=", 1) /\ DotAhead(line, j)
      BY DEF JoinSigns
    <3>2. PICK k \in 1..m : j = At(k)
      BY <1>7, <3>1
    <3>3. q.predicates[k].join
      BY <1>8, <3>1, <3>2
    <3>. QED  BY <1>6, <3>2, <3>3 DEF JoinPlaces
  <2>. QED  BY <2>1
<1>11. \A k \in JoinPlaces(q) : At(k) \in JoinSigns(line)
  BY <1>6, <1>7, <1>8, <1>9 DEF JoinPlaces, JoinSigns
<1>12. \A j \in FilterSigns(line) : \E k \in FilterPlaces(q) : j = At(k)
  <2>1. ASSUME NEW j \in FilterSigns(line)
        PROVE  \E k \in FilterPlaces(q) : j = At(k)
    <3>1. \/ j \in InSlice(line, "<", 1) \/ j \in InSlice(line, ">", 1)
          \/ j \in InSlice(line, "=", 1) /\ ~DotAhead(line, j)
      BY DEF FilterSigns, JoinSigns
    <3>2. PICK k \in 1..m : j = At(k) /\ (q.predicates[k].op = "=" => ~DotAhead(line, j))
      BY <1>7, <3>1
    <3>3. ~q.predicates[k].join
      BY <1>8, <1>9, <3>2
    <3>. QED  BY <1>6, <3>2, <3>3 DEF FilterPlaces
  <2>. QED  BY <2>1
<1>13. \A k \in FilterPlaces(q) : At(k) \in FilterSigns(line)
  <2>1. ASSUME NEW k \in FilterPlaces(q)
        PROVE  At(k) \in FilterSigns(line)
    <3>1. k \in 1..m /\ ~q.predicates[k].join
      BY <1>6 DEF FilterPlaces
    <3>2. ~DotAhead(line, At(k))
      BY <1>8, <3>1
    <3>3. \/ At(k) \in InSlice(line, "<", 1) \/ At(k) \in InSlice(line, ">", 1)
          \/ At(k) \in InSlice(line, "=", 1)
      BY <1>7, <1>9, <3>1
    <3>. QED  BY <3>2, <3>3 DEF FilterSigns, JoinSigns
  <2>. QED  BY <2>1
<1>14. JoinPlaces(q) \subseteq 1..m /\ FilterPlaces(q) \subseteq 1..m
  BY <1>6 DEF JoinPlaces, FilterPlaces
<1>17. m \in Nat /\ UnitsPlaced(q, start, m, begin)
       /\ \A k : At(k) = SignAt(start, begin, k)
  BY <1>5 DEF At
<1>18. m \in Nat /\ UnitsPlaced(q, start, m, begin)
  BY <1>17
<1>15. Cardinality(JoinSigns(line)) = Cardinality(JoinPlaces(q))
  <2>. DEFINE S == JoinSigns(line)
              D == JoinPlaces(q)
  <2>1. SignsOf(S, D, m, start, begin)
    BY <1>10, <1>11, <1>14, <1>17, Zenon DEF SignsOf
  <2>. HIDE DEF S, D
  <2>2. Cardinality(S) = Cardinality(D)
    BY <1>18, <2>1, SignsNumbered
  <2>. QED  BY <2>2 DEF S, D
<1>16. Cardinality(FilterSigns(line)) = Cardinality(FilterPlaces(q))
  <2>. DEFINE S == FilterSigns(line)
              D == FilterPlaces(q)
  <2>1. SignsOf(S, D, m, start, begin)
    BY <1>12, <1>13, <1>14, <1>17, Zenon DEF SignsOf
  <2>. HIDE DEF S, D
  <2>2. Cardinality(S) = Cardinality(D)
    BY <1>18, <2>1, SignsNumbered
  <2>. QED  BY <2>2 DEF S, D
<1>. QED  BY <1>15, <1>16 DEF line

(* What main counts from the start.                                        *)
LEMMA TextCounted ==
  ASSUME NEW q \in WrittenQueries, q.predicates # <<>>,
         \A k \in DOMAIN q.predicates : q.predicates[k].join => q.predicates[k].rel2 < 100
  PROVE  LET counts == Counted(Text(q), NoCounts)
         IN  /\ counts.rels = Len(q.rels) /\ counts.sums = Len(q.sums)
             /\ counts.joins = Cardinality(JoinPlaces(q))
             /\ counts.filters = Cardinality(FilterPlaces(q))
<1>1. Counted(Text(q), NoCounts)
      = [rels |-> NoCounts.rels + Cardinality(InSlice(Text(q), Blank, 0)),
         joins |-> NoCounts.joins + Cardinality(JoinSigns(Text(q))),
         sums |-> NoCounts.sums + Cardinality(InSlice(Text(q), Blank, 2)),
         filters |-> NoCounts.filters + Cardinality(FilterSigns(Text(q)))]
  BY Zenon DEF Counted, Blank, FilterSigns, JoinSigns
<1>2. NoCounts.rels = 1 /\ NoCounts.joins = 0 /\ NoCounts.sums = 1 /\ NoCounts.filters = 0
  BY DEF NoCounts
<1>3. /\ Cardinality(InSlice(Text(q), Blank, 0)) = Len(q.rels) - 1
      /\ Cardinality(InSlice(Text(q), Blank, 2)) = Len(q.sums) - 1
  BY FormatAndEnds
<1>4. Len(q.rels) \in Nat /\ Len(q.sums) \in Nat
  BY QueryFields
<1>5. /\ Cardinality(JoinSigns(Text(q))) = Cardinality(JoinPlaces(q))
      /\ Cardinality(FilterSigns(Text(q))) = Cardinality(FilterPlaces(q))
  BY PredicatesCounted
<1>6. Cardinality(JoinPlaces(q)) \in Nat /\ Cardinality(FilterPlaces(q)) \in Nat
  <2>1. PICK m \in Nat : DOMAIN q.predicates = 1..m
    <3>1. q.predicates \in Seq(WrittenPredicates)
      BY QueryFields
    <3>. QED  BY <3>1
  <2>2. JoinPlaces(q) \subseteq 1..m /\ FilterPlaces(q) \subseteq 1..m
    BY <2>1 DEF JoinPlaces, FilterPlaces
  <2>. QED  BY <2>2, NthIsOneOf
<1>. QED  BY <1>1, <1>2, <1>3, <1>4, <1>5, <1>6

-----------------------------------------------------------------------------
(* What is written is read                                                 *)

(* The parts that the two scans of ConstructQuery give.                    *)
LEMMA PartsRead ==
  ASSUME NEW q \in WrittenQueries, q.predicates # <<>>, NEW counts, NEW rows
  PROVE  ConstructQuery(Text(q), counts, rows)
         = QueryOf(RelTexts(q), PredicateTexts(q), SumTexts(q), counts, rows)
<1>1. Split(Text(q), Bar) = Slices(q)
  <2>1. PICK n \in Nat : \E start : Bars(Text(q), Slices(q), n, start)
    BY TextLaid
  <2>2. PICK start : Bars(Text(q), Slices(q), n, start)
    BY <2>1
  <2>3. /\ n \in Nat \ {0} /\ Slices(q) \in Seq(Seq(Units)) /\ Len(Slices(q)) = n
        /\ Laid(Text(q), Slices(q), Bar, n, start)
        /\ \A k \in 1..n : Places(Slices(q)[k], Bar) = {}
    BY <2>2 DEF Bars
  <2>. QED  BY <2>3, SplitLaid
<1>2. Slices(q)[1] = RelSlice(q) /\ Slices(q)[2] = PredicateSlice(q) /\ Slices(q)[3] = SumSlice(q)
  BY DEF Slices
<1>3. /\ RelTexts(q) \in Seq(Seq(Units)) /\ RelTexts(q) # <<>>
      /\ PredicateTexts(q) \in Seq(Seq(Units)) /\ PredicateTexts(q) # <<>>
      /\ SumTexts(q) \in Seq(Seq(Units)) /\ SumTexts(q) # <<>>
  <2>1. Len(q.rels) # 0 /\ Len(q.predicates) # 0 /\ Len(q.sums) # 0
    BY QueryFields
  <2>. QED  BY <2>1, PartTexts
<1>4. "&" \in {"|", "&", " "} /\ "&" \in Marks /\ Blank \in Marks \ {"number"} /\ Blank \in Marks \ {"number", "."}
  BY Zenon DEF Blank, Marks
<1>5. Split(RelSlice(q), Blank) = RelTexts(q)
  <2>1. \A k \in 1..Len(RelTexts(q)) : Places(RelTexts(q)[k], Blank) = {}
    BY <1>4, PartPlaces, Zenon
  <2>2. RelSlice(q) = Joined(RelTexts(q), Blank)
    BY Zenon DEF RelSlice, Blank
  <2>. QED  BY <1>3, <1>4, <2>1, <2>2, SplitJoined
<1>6. Split(SumSlice(q), Blank) = SumTexts(q)
  <2>1. \A k \in 1..Len(SumTexts(q)) : Places(SumTexts(q)[k], Blank) = {}
    BY <1>4, PartPlaces, Zenon
  <2>2. SumSlice(q) = Joined(SumTexts(q), Blank)
    BY Zenon DEF SumSlice, Blank
  <2>. QED  BY <1>3, <1>4, <2>1, <2>2, SplitJoined
<1>7. Split(PredicateSlice(q), "&") = PredicateTexts(q)
  <2>1. \A k \in 1..Len(PredicateTexts(q)) : Places(PredicateTexts(q)[k], "&") = {}
    BY <1>4, PartPlaces, Zenon
  <2>2. "&" \in Marks
    BY <1>4, Zenon
  <2>. QED  BY <1>3, <2>1, <2>2, SplitJoined DEF PredicateSlice
<1>8. ConstructQuery(Text(q), counts, rows)
      = QueryOf(Split(Split(Text(q), Bar)[1], Blank), Split(Split(Text(q), Bar)[2], "&"),
                Split(Split(Text(q), Bar)[3], Blank), counts, rows)
  BY Zenon DEF ConstructQuery, Bar, Blank
<1>. QED  BY <1>1, <1>2, <1>5, <1>6, <1>7, <1>8

(* Its predicates are told apart as they are written.                      *)
LEMMA KindsRead ==
  ASSUME NEW q \in WrittenQueries
  PROVE  /\ \A k \in DOMAIN q.predicates :
              /\ q.predicates[k] \in WrittenPredicates
              /\ PredicateTexts(q)[k] = PredicateText(q.predicates[k])
         /\ DOMAIN PredicateTexts(q) = DOMAIN q.predicates
         /\ {i \in DOMAIN PredicateTexts(q) : IsFilter(PredicateTexts(q)[i])} = FilterPlaces(q)
         /\ {i \in DOMAIN PredicateTexts(q) : IsJoin(PredicateTexts(q)[i])} = JoinPlaces(q)
         /\ ~ \E i \in DOMAIN PredicateTexts(q) :
                ~IsFilter(PredicateTexts(q)[i]) /\ ~IsJoin(PredicateTexts(q)[i])
<1>1. \A k \in DOMAIN q.predicates : q.predicates[k] \in WrittenPredicates
  <2>1. q.predicates \in Seq(WrittenPredicates)
    BY QueryFields
  <2>. QED  BY <2>1, ElementsOf, Zenon
<1>2. DOMAIN PredicateTexts(q) = DOMAIN q.predicates
      /\ \A k \in DOMAIN q.predicates : PredicateTexts(q)[k] = PredicateText(q.predicates[k])
  BY DEF PredicateTexts
<1>3. \A k \in DOMAIN q.predicates :
        /\ IsFilter(PredicateTexts(q)[k]) <=> ~q.predicates[k].join
        /\ IsJoin(PredicateTexts(q)[k]) <=> q.predicates[k].join
  <2>1. ASSUME NEW k \in DOMAIN q.predicates
        PROVE  /\ IsFilter(PredicateTexts(q)[k]) <=> ~q.predicates[k].join
               /\ IsJoin(PredicateTexts(q)[k]) <=> q.predicates[k].join
    <3>1. /\ IsFilter(PredicateText(q.predicates[k])) <=> ~q.predicates[k].join
          /\ IsJoin(PredicateText(q.predicates[k])) <=> q.predicates[k].join
      BY <1>1, PredicateKind
    <3>. QED  BY <1>2, <3>1, Zenon
  <2>. QED  BY <2>1, Zenon
<1>4. {i \in DOMAIN PredicateTexts(q) : IsFilter(PredicateTexts(q)[i])} = FilterPlaces(q)
  BY <1>2, <1>3, Zenon DEF FilterPlaces
<1>5. {i \in DOMAIN PredicateTexts(q) : IsJoin(PredicateTexts(q)[i])} = JoinPlaces(q)
  BY <1>2, <1>3, Zenon DEF JoinPlaces
<1>6. ~ \E i \in DOMAIN PredicateTexts(q) :
          ~IsFilter(PredicateTexts(q)[i]) /\ ~IsJoin(PredicateTexts(q)[i])
  BY <1>2, <1>3, Zenon
<1>. QED  BY <1>1, <1>2, <1>4, <1>5, <1>6

(* The numbers of the relations are read.                                  *)
LEMMA RelsRead ==
  ASSUME NEW q \in WrittenQueries, \A i \in DOMAIN q.rels : q.rels[i] <= IntMax
  PROVE  [i \in DOMAIN RelTexts(q) |-> atoi(RelTexts(q)[i])] = q.rels
<1>1. q.rels \in Seq(Nat)
  BY QueryFields
<1>2. PICK n \in Nat : q.rels \in [1..n -> Nat]
  BY <1>1
<1>3. DOMAIN RelTexts(q) = 1..n /\ \A i \in 1..n : RelTexts(q)[i] = <<Number(q.rels[i])>>
  BY <1>2 DEF RelTexts
<1>4. \A i \in 1..n : q.rels[i] \in Nat /\ q.rels[i] <= IntMax
  BY <1>2
<1>5. \A i \in 1..n : atoi(RelTexts(q)[i]) = q.rels[i]
  BY <1>3, <1>4, AtoiOfNumber
<1>. QED  BY <1>2, <1>3, <1>5

(* A selection of what is written from where the texts of it are.          *)
LEMMA SelectedAt ==
  ASSUME NEW q \in WrittenQueries, NEW S, S \subseteq DOMAIN q.predicates
  PROVE  /\ Cardinality(S) \in Nat
         /\ DOMAIN Selected(q.predicates, S) = 1..Cardinality(S)
         /\ DOMAIN Selected(PredicateTexts(q), S) = 1..Cardinality(S)
         /\ \A i \in 1..Cardinality(S) :
              /\ Nth(S, i) \in S
              /\ Selected(q.predicates, S)[i] = q.predicates[Nth(S, i)]
              /\ Selected(PredicateTexts(q), S)[i] = PredicateText(q.predicates[Nth(S, i)])
              /\ q.predicates[Nth(S, i)] \in WrittenPredicates
<1>1. PICK m \in Nat : DOMAIN q.predicates = 1..m
  <2>1. q.predicates \in Seq(WrittenPredicates)
    BY QueryFields
  <2>. QED  BY <2>1
<1>2. Cardinality(S) \in Nat /\ \A i \in 1..Cardinality(S) : Nth(S, i) \in S
  BY <1>1, NthIsOneOf
<1>3. \A k \in DOMAIN q.predicates : /\ q.predicates[k] \in WrittenPredicates
                                     /\ PredicateTexts(q)[k] = PredicateText(q.predicates[k])
  BY KindsRead, Zenon
<1>4. /\ DOMAIN Selected(q.predicates, S) = 1..Cardinality(S)
      /\ DOMAIN Selected(PredicateTexts(q), S) = 1..Cardinality(S)
      /\ \A i \in 1..Cardinality(S) :
           /\ Selected(q.predicates, S)[i] = q.predicates[Nth(S, i)]
           /\ Selected(PredicateTexts(q), S)[i] = PredicateTexts(q)[Nth(S, i)]
  BY DEF Selected
<1>. QED  BY <1>2, <1>3, <1>4

FilterAsWritten(q, rows, p) ==
  [participant |-> Participant(q.rels, rows, p.rel1, p.col1), op |-> p.op, value |-> p.value]
JoinAsWritten(q, rows, p) ==
  [participant1 |-> Participant(q.rels, rows, p.rel1, p.col1),
   participant2 |-> Participant(q.rels, rows, p.rel2, p.col2)]

(* What is read of a list of texts, and what is written of it.             *)
FiltersOf(texts, rels, rows) == [i \in DOMAIN texts |-> fillFilterInfo(texts[i], rels, rows)]
JoinsOf(texts, rels, rows) == [i \in DOMAIN texts |-> fillJoinInfo(texts[i], rels, rows)]
SumsOf(texts, rels, rows) == [i \in DOMAIN texts |-> ParticipantOf(texts[i], rels, rows)]
FiltersAsWritten(q, rows) == [i \in DOMAIN Filters(q) |-> FilterAsWritten(q, rows, Filters(q)[i])]
JoinsAsWritten(q, rows) == [i \in DOMAIN Joins(q) |-> JoinAsWritten(q, rows, Joins(q)[i])]
SumsAsWritten(q, rows) ==
  [i \in DOMAIN q.sums |-> Participant(q.rels, rows, q.sums[i].rel, q.sums[i].col)]

(* The arrays of newQuery hold what is written, predicate by predicate.    *)
LEMMA FiltersRead ==
  ASSUME NEW q \in WrittenQueries, Ordinary(q), NEW rows
  PROVE  LET read == FiltersOf(Selected(PredicateTexts(q), FilterPlaces(q)), q.rels, rows)
         IN  read = FiltersAsWritten(q, rows) /\ Len(read) = Cardinality(FilterPlaces(q))
<1>. DEFINE S == FilterPlaces(q)
            texts == Selected(PredicateTexts(q), S)
            size == Cardinality(S)
<1>1. S \subseteq DOMAIN q.predicates /\ \A k \in S : ~q.predicates[k].join
  BY DEF FilterPlaces
<1>2. Filters(q) = Selected(q.predicates, S)
  BY Zenon DEF Filters, FilterPlaces
<1>3. \A k \in S : \A e \in NumbersOf(q.predicates[k]) : e <= IntMax
  BY <1>1 DEF Ordinary
<1>. HIDE DEF S
<1>4. /\ size \in Nat /\ DOMAIN Filters(q) = 1..size /\ DOMAIN texts = 1..size
      /\ \A i \in 1..size : /\ Nth(S, i) \in S
                         /\ Filters(q)[i] = q.predicates[Nth(S, i)]
                         /\ texts[i] = PredicateText(q.predicates[Nth(S, i)])
                         /\ q.predicates[Nth(S, i)] \in WrittenPredicates
  BY <1>1, <1>2, SelectedAt
<1>. HIDE DEF texts, size
<1>5. ASSUME NEW i \in 1..size
      PROVE  fillFilterInfo(texts[i], q.rels, rows) = FilterAsWritten(q, rows, Filters(q)[i])
  <2>1. PICK p : p = q.predicates[Nth(S, i)]
    OBVIOUS
  <2>2. p \in WrittenPredicates /\ ~p.join /\ \A e \in NumbersOf(p) : e <= IntMax
    BY <1>1, <1>3, <1>4, <2>1
  <2>3. fillFilterInfo(PredicateText(p), q.rels, rows) = FilterAsWritten(q, rows, p)
    BY <2>2, FilterRead DEF FilterAsWritten
  <2>. QED  BY <1>4, <2>1, <2>3
<1>6. [i \in DOMAIN texts |-> fillFilterInfo(texts[i], q.rels, rows)]
      = [i \in DOMAIN Filters(q) |-> FilterAsWritten(q, rows, Filters(q)[i])]
  BY <1>4, <1>5
<1>7. Len([i \in DOMAIN texts |-> fillFilterInfo(texts[i], q.rels, rows)]) = size
  <2>. DEFINE F(i) == fillFilterInfo(texts[i], q.rels, rows)
  <2>. HIDE DEF F
  <2>1. Len([i \in 1..size |-> F(i)]) = size
    BY <1>4
  <2>. QED  BY <1>4, <2>1 DEF F
<1>8. FiltersOf(texts, q.rels, rows) = FiltersAsWritten(q, rows)
  BY <1>6, Zenon DEF FiltersOf, FiltersAsWritten
<1>9. Len(FiltersOf(texts, q.rels, rows)) = size
  BY <1>7, Zenon DEF FiltersOf
<1>. QED  BY <1>8, <1>9, Zenon DEF texts, size, S

LEMMA JoinsRead ==
  ASSUME NEW q \in WrittenQueries, Ordinary(q), NEW rows
  PROVE  LET read == JoinsOf(Selected(PredicateTexts(q), JoinPlaces(q)), q.rels, rows)
         IN  read = JoinsAsWritten(q, rows) /\ Len(read) = Cardinality(JoinPlaces(q))
<1>. DEFINE S == JoinPlaces(q)
            texts == Selected(PredicateTexts(q), S)
            size == Cardinality(S)
<1>1. S \subseteq DOMAIN q.predicates /\ \A k \in S : q.predicates[k].join
  BY DEF JoinPlaces
<1>2. Joins(q) = Selected(q.predicates, S)
  BY Zenon DEF Joins, JoinPlaces
<1>3. \A k \in S : \A e \in NumbersOf(q.predicates[k]) : e <= IntMax
  BY <1>1 DEF Ordinary
<1>. HIDE DEF S
<1>4. /\ size \in Nat /\ DOMAIN Joins(q) = 1..size /\ DOMAIN texts = 1..size
      /\ \A i \in 1..size : /\ Nth(S, i) \in S
                         /\ Joins(q)[i] = q.predicates[Nth(S, i)]
                         /\ texts[i] = PredicateText(q.predicates[Nth(S, i)])
                         /\ q.predicates[Nth(S, i)] \in WrittenPredicates
  BY <1>1, <1>2, SelectedAt
<1>. HIDE DEF texts, size
<1>5. ASSUME NEW i \in 1..size
      PROVE  fillJoinInfo(texts[i], q.rels, rows) = JoinAsWritten(q, rows, Joins(q)[i])
  <2>1. PICK p : p = q.predicates[Nth(S, i)]
    OBVIOUS
  <2>2. p \in WrittenPredicates /\ p.join /\ \A e \in NumbersOf(p) : e <= IntMax
    BY <1>1, <1>3, <1>4, <2>1
  <2>3. fillJoinInfo(PredicateText(p), q.rels, rows) = JoinAsWritten(q, rows, p)
    BY <2>2, JoinRead DEF JoinAsWritten
  <2>. QED  BY <1>4, <2>1, <2>3
<1>6. [i \in DOMAIN texts |-> fillJoinInfo(texts[i], q.rels, rows)]
      = [i \in DOMAIN Joins(q) |-> JoinAsWritten(q, rows, Joins(q)[i])]
  BY <1>4, <1>5
<1>7. Len([i \in DOMAIN texts |-> fillJoinInfo(texts[i], q.rels, rows)]) = size
  <2>. DEFINE F(i) == fillJoinInfo(texts[i], q.rels, rows)
  <2>. HIDE DEF F
  <2>1. Len([i \in 1..size |-> F(i)]) = size
    BY <1>4
  <2>. QED  BY <1>4, <2>1 DEF F
<1>8. JoinsOf(texts, q.rels, rows) = JoinsAsWritten(q, rows)
  BY <1>6, Zenon DEF JoinsOf, JoinsAsWritten
<1>9. Len(JoinsOf(texts, q.rels, rows)) = size
  BY <1>7, Zenon DEF JoinsOf
<1>. QED  BY <1>8, <1>9, Zenon DEF texts, size, S

LEMMA SumsRead ==
  ASSUME NEW q \in WrittenQueries, Ordinary(q), NEW rows
  PROVE  LET read == SumsOf(SumTexts(q), q.rels, rows)
         IN  read = SumsAsWritten(q, rows) /\ Len(read) = Len(q.sums)
<1>1. q.sums \in Seq([rel : Nat, col : Nat])
  BY QueryFields
<1>2. PICK n \in Nat : n = Len(q.sums) /\ DOMAIN q.sums = 1..n
  BY <1>1
<1>3. \A i \in 1..n : q.sums[i] \in [rel : Nat, col : Nat]
  BY <1>1, <1>2, ElementsOf, Zenon
<1>4. DOMAIN SumTexts(q) = 1..n /\ \A i \in 1..n : SumTexts(q)[i] = SumText(q.sums[i])
  BY <1>2 DEF SumTexts
<1>5. \A i \in 1..n : q.sums[i].rel <= IntMax /\ q.sums[i].col <= IntMax
  BY <1>2 DEF Ordinary
<1>6. ASSUME NEW i \in 1..n
      PROVE  ParticipantOf(SumTexts(q)[i], q.rels, rows)
             = Participant(q.rels, rows, q.sums[i].rel, q.sums[i].col)
  <2>1. PICK r \in Nat, c \in Nat : r = q.sums[i].rel /\ c = q.sums[i].col
    BY <1>3
  <2>2. SumText(q.sums[i]) = ColumnText(r, c)
    BY <2>1 DEF SumText, ColumnText
  <2>3. r <= IntMax /\ c <= IntMax
    BY <1>5, <2>1
  <2>4. ParticipantOf(ColumnText(r, c), q.rels, rows) = Participant(q.rels, rows, r, c)
    BY <2>3, ColumnRead
  <2>. QED  BY <1>4, <2>1, <2>2, <2>4
<1>7. [i \in DOMAIN SumTexts(q) |-> ParticipantOf(SumTexts(q)[i], q.rels, rows)]
      = [i \in DOMAIN q.sums |-> Participant(q.rels, rows, q.sums[i].rel, q.sums[i].col)]
  BY <1>2, <1>4, <1>6
<1>8. Len([i \in DOMAIN SumTexts(q) |-> ParticipantOf(SumTexts(q)[i], q.rels, rows)]) = n
  <2>. DEFINE F(i) == ParticipantOf(SumTexts(q)[i], q.rels, rows)
  <2>. HIDE DEF F
  <2>1. Len([i \in 1..n |-> F(i)]) = n
    OBVIOUS
  <2>. QED  BY <1>4, <2>1 DEF F
<1>9. SumsOf(SumTexts(q), q.rels, rows) = SumsAsWritten(q, rows)
  BY <1>7, Zenon DEF SumsOf, SumsAsWritten
<1>10. Len(SumsOf(SumTexts(q), q.rels, rows)) = n
  BY <1>8, Zenon DEF SumsOf
<1>. QED  BY <1>2, <1>9, <1>10

(* What ConstructQuery gives, field by field.                              *)
LEMMA FieldsRead ==
  ASSUME NEW q \in WrittenQueries, Ordinary(q), NEW counts, NEW rows
  PROVE  LET made == ConstructQuery(Text(q), counts, rows)
         IN  /\ ~made.null
             /\ made.counts = counts
             /\ made.rels = q.rels
             /\ made.filters = FiltersAsWritten(q, rows)
             /\ made.joins = JoinsAsWritten(q, rows)
             /\ made.sums = SumsAsWritten(q, rows)
             /\ Len(made.filters) = Cardinality(FilterPlaces(q))
             /\ Len(made.joins) = Cardinality(JoinPlaces(q))
             /\ Len(made.sums) = Len(q.sums)
<1>. DEFINE names == RelTexts(q)
            predicates == PredicateTexts(q)
            sums == SumTexts(q)
            made == QueryOf(names, predicates, sums, counts, rows)
            rels == [i \in DOMAIN names |-> atoi(names[i])]
            filters == Selected(predicates, {i \in DOMAIN predicates : IsFilter(predicates[i])})
            joins == Selected(predicates, {i \in DOMAIN predicates : IsJoin(predicates[i])})
<1>1. ConstructQuery(Text(q), counts, rows) = made
  <2>1. q.predicates # <<>>
    BY DEF Ordinary
  <2>. QED  BY <2>1, PartsRead
<1>2. made = [null |-> \E i \in DOMAIN predicates : ~IsFilter(predicates[i]) /\ ~IsJoin(predicates[i]),
               counts |-> counts,
               rels |-> rels,
               filters |-> FiltersOf(filters, rels, rows),
               joins |-> JoinsOf(joins, rels, rows),
               sums |-> SumsOf(sums, rels, rows)]
  BY Zenon DEF QueryOf, FiltersOf, JoinsOf, SumsOf
<1>3. ~ \E i \in DOMAIN predicates : ~IsFilter(predicates[i]) /\ ~IsJoin(predicates[i])
  BY KindsRead
<1>4. rels = q.rels
  BY RelsRead DEF Ordinary
<1>5. filters = Selected(predicates, FilterPlaces(q)) /\ joins = Selected(predicates, JoinPlaces(q))
  BY KindsRead, Zenon
<1>. HIDE DEF made, rels, filters, joins, names, predicates, sums
<1>6. ~made.null /\ made.counts = counts /\ made.rels = q.rels
  BY <1>2, <1>3, <1>4
<1>7. /\ made.filters = FiltersOf(filters, q.rels, rows)
      /\ made.joins = JoinsOf(joins, q.rels, rows)
      /\ made.sums = SumsOf(sums, q.rels, rows)
  BY <1>2, <1>4
<1>8. /\ made.filters = FiltersAsWritten(q, rows)
      /\ Len(made.filters) = Cardinality(FilterPlaces(q))
  BY <1>5, <1>7, FiltersRead DEF predicates
<1>9. /\ made.joins = JoinsAsWritten(q, rows)
      /\ Len(made.joins) = Cardinality(JoinPlaces(q))
  BY <1>5, <1>7, JoinsRead DEF predicates
<1>10. /\ made.sums = SumsAsWritten(q, rows)
       /\ Len(made.sums) = Len(q.sums)
  BY <1>7, SumsRead DEF sums
<1>. QED  BY <1>1, <1>6, <1>8, <1>9, <1>10

(* A query is read as it is written, and fills what was counted for it.    *)
LEMMA ReadBack ==
  ASSUME NEW q \in WrittenQueries, Ordinary(q), NEW rows
  PROVE  LET made == ConstructQuery(Text(q), Counted(Text(q), NoCounts), rows)
         IN  ~made.null /\ Filled(made) /\ ReadAs(q, rows, made)
<1>. DEFINE counts == Counted(Text(q), NoCounts)
            made == ConstructQuery(Text(q), counts, rows)
<1>1. /\ counts.rels = Len(q.rels) /\ counts.sums = Len(q.sums)
      /\ counts.joins = Cardinality(JoinPlaces(q))
      /\ counts.filters = Cardinality(FilterPlaces(q))
  <2>1. q.predicates # <<>>
        /\ \A k \in DOMAIN q.predicates : q.predicates[k].join => q.predicates[k].rel2 < 100
    BY DEF Ordinary
  <2>. QED  BY <2>1, TextCounted
<1>2. /\ ~made.null
      /\ made.counts = counts
      /\ made.rels = q.rels
      /\ made.filters = FiltersAsWritten(q, rows)
      /\ made.joins = JoinsAsWritten(q, rows)
      /\ made.sums = SumsAsWritten(q, rows)
      /\ Len(made.filters) = Cardinality(FilterPlaces(q))
      /\ Len(made.joins) = Cardinality(JoinPlaces(q))
      /\ Len(made.sums) = Len(q.sums)
  <2>. HIDE DEF counts
  <2>. QED  BY FieldsRead
<1>. HIDE DEF counts, made
<1>3. Filled(made)
  BY <1>1, <1>2 DEF Filled
<1>4. ReadAs(q, rows, made)
  BY <1>2, Zenon DEF ReadAs, FiltersAsWritten, JoinsAsWritten, SumsAsWritten, FilterAsWritten, JoinAsWritten
<1>. QED  BY <1>2, <1>3, <1>4 DEF made, counts

-----------------------------------------------------------------------------
Words == 0..WordRange-1
ColumnsOfWords == Seq(Words) \ {<<>>}
Files == Seq(ColumnsOfWords) \ {<<>>}

-----------------------------------------------------------------------------
(* Words                                                                   *)

LEMMA Sizes ==
  /\ WordRange \in Nat \ {0}
  /\ N \in Nat \ {0} /\ N < WordRange
  /\ WordBits \in Nat \ {0}
  /\ Accuracy \in Nat /\ Accuracy >= 2
<1>1. WordBits \in Nat \ {0}
  BY WidthsAssumption
<1>2. WordRange \in Int
  BY <1>1 DEF WordRange
<1>. QED  BY <1>1, <1>2, VectorAssumption, AccuracyAssumption

(* An int that atoi returns becomes a word.                                *)
LEMMA AtoiGivesWords == AtoiResults \subseteq Words
<1>. SUFFICES ASSUME NEW n \in Nat
              PROVE  Truncated(n) \in Words
  <2>1. 2^(WordBits - 1) - 1 \in Int
    BY Sizes
  <2>. QED  BY <2>1 DEF AtoiResults
<1>. DEFINE ints == 2^IntBits
            low == n % ints
<1>1. ints \in 1..WordRange /\ WordRange \in Nat
  BY IntsAreWordsAssumption, Sizes
<1>2. Truncated(n) = IF low <= IntMax THEN low ELSE low + WordRange - ints
  BY Zenon DEF Truncated
<1>. HIDE DEF ints
<1>3. low \in 0..ints-1
  BY <1>1
<1>. HIDE DEF low
<1>. QED  BY <1>1, <1>2, <1>3 DEF Words

LEMMA ModOnce ==
  ASSUME NEW w \in Nat \ {0}, NEW a \in Nat, a < 2 * w
  PROVE  a % w = IF a < w THEN a ELSE a - w
OBVIOUS

(* Sums and differences of words wrap around once.                         *)
LEMMA PlusOnce ==
  ASSUME NEW a \in Words, NEW b \in Words
  PROVE  /\ Plus(a, b) = IF a + b < WordRange THEN a + b ELSE a + b - WordRange
         /\ Plus(a, b) \in Words
<1>. DEFINE d == a + b
<1>1. /\ WordRange \in Nat \ {0}
      /\ d \in Nat /\ d < 2 * WordRange
  BY Sizes DEF Words
<1>2. d % WordRange = IF d < WordRange THEN d ELSE d - WordRange
  <2>. HIDE DEF d
  <2>. QED  BY <1>1, ModOnce
<1>3. Plus(a, b) = IF d < WordRange THEN d ELSE d - WordRange
  BY <1>2, Zenon DEF Plus
<1>. QED  BY <1>1, <1>3 DEF Words

LEMMA MinusOnce ==
  ASSUME NEW a \in Words, NEW b \in Words
  PROVE  /\ Minus(a, b) = IF a >= b THEN a - b ELSE a - b + WordRange
         /\ Minus(a, b) \in Words
<1>. DEFINE d == a - b + WordRange
<1>1. /\ WordRange \in Nat \ {0}
      /\ d \in Nat /\ d < 2 * WordRange
  BY Sizes DEF Words
<1>2. d % WordRange = IF d < WordRange THEN d ELSE d - WordRange
  BY <1>1, ModOnce
<1>3. Minus(a, b) = IF d < WordRange THEN d ELSE d - WordRange
  BY <1>2, Zenon DEF Minus
<1>. QED  BY <1>1, <1>3 DEF Words

LEMMA DivMod ==
  ASSUME NEW a \in Nat, NEW b \in Nat \ {0}
  PROVE  a \div b \in Nat /\ a % b \in 0..b-1 /\ a = b * (a \div b) + (a % b)
OBVIOUS

(* A quotient that is rounded up is the least that covers the dividend.    *)
LEMMA CeilDivCovers ==
  ASSUME NEW a \in Nat, NEW b \in Nat \ {0}
  PROVE  /\ CeilDiv(a, b) \in Nat
         /\ a <= b * CeilDiv(a, b)
<1>. DEFINE n == a + b - 1
            q == n \div b
            r == n % b
<1>1. n \in Nat
  OBVIOUS
<1>2. q \in Nat /\ r \in 0..b-1 /\ n = b * q + r
  BY <1>1
<1>3. CeilDiv(a, b) = q
  BY DEF CeilDiv
<1>. HIDE DEF q, r
<1>4. b * q \in Nat
  BY <1>2
<1>. DEFINE p == b * q
<1>5. p \in Nat /\ n = p + r
  BY <1>2, <1>4
<1>. HIDE DEF p
<1>6. a <= p
  BY <1>2, <1>5
<1>. QED  BY <1>2, <1>3, <1>6 DEF p

-----------------------------------------------------------------------------
(* The statistics of a column                                              *)

LEMMA ValuesOf ==
  ASSUME NEW column \in ColumnsOfWords
  PROVE  /\ Range(column) \subseteq Words /\ Range(column) # {}
         /\ IsFiniteSet(Range(column))
<1>1. column \in Seq(Words) /\ column # <<>>
  BY DEF ColumnsOfWords
<1>2. Range(column) \subseteq Words
  <2>1. \A i \in DOMAIN column : column[i] \in Words
    BY <1>1, ElementOfSeq, LenProperties
  <2>. QED  BY <2>1, Zenon DEF Range
<1>3. 1 \in DOMAIN column
  BY <1>1
<1>4. IsFiniteSet(Words)
  BY FS_Interval, Sizes DEF Words
<1>5. IsFiniteSet(Range(column))
  BY <1>2, <1>4, FS_Subset
<1>. QED  BY <1>2, <1>3, <1>5 DEF Range

(* The extremes of a column are values of it.                              *)
LEMMA Extremes ==
  ASSUME NEW column \in ColumnsOfWords
  PROVE  /\ MinOf(column) \in Range(column) /\ MaxOf(column) \in Range(column)
         /\ MinOf(column) \in Words /\ MaxOf(column) \in Words
         /\ \A v \in Range(column) : MinOf(column) <= v /\ v <= MaxOf(column)
<1>. DEFINE R == Range(column)
            Above == {m \in Words : \A y \in R : y <= m}
<1>1. R \subseteq Words /\ R # {}
  BY ValuesOf
<1>. HIDE DEF R
<1>2. Words \subseteq Nat /\ WordRange - 1 \in Words /\ \A y \in Words : y <= WordRange - 1
  BY Sizes DEF Words
<1>3. \E x \in R : \A y \in R : x <= y
  BY <1>1, <1>2, LeastOf
<1>4. Min(R) \in R /\ \A y \in R : Min(R) <= y
  BY <1>3, Zenon DEF Min
<1>5. \E x \in R : \A y \in R : x >= y
  <2>1. Above \subseteq Nat /\ Above # {}
    BY <1>1, <1>2
  <2>2. PICK m \in Above : \A n \in Above : m <= n
    BY <2>1, LeastOf
  <2>3. m \in Words /\ \A y \in R : y <= m
    BY <2>2
  <2>4. m \in R
    <3>1. SUFFICES ASSUME m \notin R PROVE FALSE
      OBVIOUS
    <3>2. \A y \in R : y <= m - 1
      BY <2>3, <3>1, <1>1, <1>2
    <3>3. m - 1 \in Words
      <4>1. PICK y \in R : TRUE
        BY <1>1
      <4>2. y \in Words /\ y <= m - 1
        BY <4>1, <3>2, <1>1
      <4>. QED  BY <4>2, <2>3, Sizes DEF Words
    <3>4. m - 1 \in Above
      BY <3>2, <3>3
    <3>. QED  BY <3>4, <2>2, <2>3, <1>2
  <2>. QED  BY <2>3, <2>4, <1>1, <1>2
<1>6. Max(R) \in R /\ \A y \in R : Max(R) >= y
  BY <1>5, Zenon DEF Max
<1>7. MinOf(column) = Min(R) /\ MaxOf(column) = Max(R)
  BY DEF MinOf, MaxOf, R
<1>. QED  BY <1>1, <1>2, <1>4, <1>6, <1>7 DEF R

LEMMA SpanOf ==
  ASSUME NEW column \in ColumnsOfWords, Span(column) # 0
  PROVE  Span(column) = MaxOf(column) - MinOf(column) + 1
<1>1. /\ MinOf(column) \in Words /\ MaxOf(column) \in Words
      /\ MinOf(column) <= MaxOf(column)
  BY Extremes
<1>. DEFINE min == MinOf(column)
            max == MaxOf(column)
            d == Minus(max, min)
<1>2. Span(column) = Plus(d, 1)
  BY DEF Span
<1>. HIDE DEF min, max
<1>3. d = max - min /\ d \in Words
  BY <1>1, MinusOnce, Sizes DEF min, max, Words
<1>. HIDE DEF d
<1>4. 1 \in Words
  BY Sizes DEF Words
<1>5. Plus(d, 1) = IF d + 1 < WordRange THEN d + 1 ELSE d + 1 - WordRange
  BY <1>3, <1>4, PlusOnce
<1>6. d + 1 < WordRange
  BY <1>2, <1>3, <1>5, Sizes DEF Words
<1>. QED  BY <1>2, <1>3, <1>5, <1>6 DEF min, max

(* The bit of a value lies in the bits that the span asks for.             *)
LEMMA BitsFit ==
  ASSUME NEW column \in ColumnsOfWords, Span(column) # 0
  PROVE  /\ Bits(column) \in Nat
         /\ \A v \in Range(column) : BitOf(column, v) \in 0..Bits(column)-1
         /\ Span(column) <= N => \A v \in Range(column) : BitOf(column, v) = v - MinOf(column)
<1>. DEFINE min == MinOf(column)
            max == MaxOf(column)
            span == Span(column)
<1>1. span = max - min + 1
  BY SpanOf
<1>2. /\ min \in Words /\ max \in Words /\ min <= max
      /\ Range(column) \subseteq Words
      /\ \A v \in Range(column) : min <= v /\ v <= max
  BY Extremes, ValuesOf
<1>3. /\ Bits(column) = IF span > N THEN N ELSE span
      /\ \A v : BitOf(column, v) = IF span > N THEN Minus(v, min) % N ELSE Minus(v, min)
  BY DEF Bits, BitOf
<1>. HIDE DEF min, max, span
<1>4. span \in Nat /\ N \in Nat \ {0}
  BY <1>1, <1>2, Sizes DEF Words
<1>5. ASSUME NEW v \in Range(column)
      PROVE  /\ BitOf(column, v) \in 0..Bits(column)-1
             /\ span <= N => BitOf(column, v) = v - min
  <2>1. v \in Words /\ min <= v /\ v <= max
    BY <1>2
  <2>2. Minus(v, min) = v - min
    BY <2>1, <1>2, MinusOnce, Sizes DEF Words
  <2>3. v - min \in Nat /\ v - min < span
    BY <2>1, <1>1, <1>2 DEF Words
  <2>4. (v - min) % N \in 0..N-1
    BY <2>3, <1>4
  <2>5. BitOf(column, v) = IF span > N THEN (v - min) % N ELSE v - min
    BY <1>3, <2>2
  <2>. QED  BY <1>3, <1>4, <2>3, <2>4, <2>5
<1>. QED  BY <1>3, <1>4, <1>5 DEF min, span

(* Different values have different bits where the span is at most N.       *)
LEMMA DistinctCounted ==
  ASSUME NEW column \in ColumnsOfWords, Span(column) # 0
  PROVE  LET d == Cardinality({BitOf(column, v) : v \in Range(column)})
         IN  /\ d \in 1..Cardinality(Range(column))
             /\ Span(column) <= N => d = Cardinality(Range(column))
<1>. DEFINE R == Range(column)
            B == {BitOf(column, v) : v \in R}
            f == [v \in R |-> BitOf(column, v)]
<1>1. R # {} /\ IsFiniteSet(R) /\ R \subseteq Words
  BY ValuesOf
<1>2. f \in Surjection(R, B)
  BY DEF Surjection
<1>3. IsFiniteSet(B) /\ Cardinality(B) <= Cardinality(R)
      /\ (Cardinality(B) = Cardinality(R) <=> f \in Injection(R, B))
  <2>. HIDE DEF R, B, f
  <2>. QED  BY <1>1, <1>2, FS_Surjection
<1>4. B # {}
  BY <1>1
<1>5. Cardinality(B) \in Nat \ {0} /\ Cardinality(R) \in Nat
  <2>. HIDE DEF R, B
  <2>. QED  BY <1>1, <1>3, <1>4, FS_CardinalityType, FS_EmptySet
<1>6. ASSUME Span(column) <= N
      PROVE  f \in Injection(R, B)
  <2>1. \A v \in R : BitOf(column, v) = v - MinOf(column)
    BY <1>6, BitsFit
  <2>2. MinOf(column) \in Words
    BY Extremes
  <2>3. \A v, w \in R : BitOf(column, v) = BitOf(column, w) => v = w
    BY <2>1, <2>2, <1>1 DEF Words
  <2>4. f \in [R -> B]
    OBVIOUS
  <2>. QED  BY <2>3, <2>4 DEF Injection, IsInjective
<1>. HIDE DEF R, B, f
<1>7. Cardinality(B) \in 1..Cardinality(R)
  BY <1>3, <1>5
<1>8. Span(column) <= N => Cardinality(B) = Cardinality(R)
  BY <1>3, <1>6
<1>. QED  BY <1>7, <1>8 DEF R, B

(* FillStatsArray: every bit is in the words that are allocated and the    *)
(* distinct values are counted, exactly where the span is at most N.       *)
LEMMA StatsOfColumn ==
  ASSUME NEW column \in ColumnsOfWords, Span(column) # 0
  PROVE  LET s == FillStatsArray(column)
         IN  /\ \A k \in s.bits : k < s.words * WordBits
             /\ s.distinctVals \in 1..Cardinality(Range(column))
             /\ Span(column) <= N => s.distinctVals = Cardinality(Range(column))
<1>. DEFINE s == FillStatsArray(column)
            d == Cardinality({BitOf(column, v) : v \in Range(column)})
<1>1. /\ s.bits = {BitOf(column, v) : v \in Range(column)}
      /\ s.words = CeilDiv(Bits(column), WordBits)
      /\ s.distinctVals = d
  BY DEF FillStatsArray
<1>2. /\ d \in 1..Cardinality(Range(column))
      /\ Span(column) <= N => d = Cardinality(Range(column))
  BY DistinctCounted
<1>. HIDE DEF s, d
<1>3. Bits(column) \in Nat /\ \A v \in Range(column) : BitOf(column, v) \in 0..Bits(column)-1
  BY BitsFit
<1>4. s.words \in Nat /\ Bits(column) <= WordBits * s.words
  BY <1>1, <1>3, CeilDivCovers, Sizes
<1>5. WordBits * s.words = s.words * WordBits /\ s.words * WordBits \in Nat
  BY <1>4, Sizes
<1>6. \A k \in s.bits : k \in 0..Bits(column)-1
  BY <1>1, <1>3
<1>. DEFINE p == s.words * WordBits
<1>. HIDE DEF p
<1>7. p \in Nat /\ Bits(column) <= p
  BY <1>4, <1>5 DEF p
<1>8. \A k \in s.bits : k < p
  BY <1>6, <1>7, <1>3
<1>. QED  BY <1>1, <1>2, <1>8 DEF s, p

-----------------------------------------------------------------------------
(* What is loaded                                                          *)

StatsOf(file) == [c \in DOMAIN file |-> FillStatsArray(file[c])]

(* The relations are loaded in their order, each with the statistics of    *)
(* all its columns.                                                        *)
LoadedInOrder ==
  /\ db \in Databases
  /\ relArray \in Seq({StatsOf(file) : file \in Range(db)})
  /\ Len(relArray) <= Len(db)
  /\ \A r \in 1..Len(relArray) : relArray[r] = StatsOf(db[r])

LEMMA LoadedStep ==
  ASSUME LoadedInOrder, FillRel
  PROVE  LoadedInOrder'
<1>. DEFINE S == {StatsOf(file) : file \in Range(db)}
            n == Len(relArray)
            new == StatsOf(db[n + 1])
<1>1. /\ db \in Databases /\ relArray \in Seq(S) /\ n <= Len(db)
      /\ \A r \in 1..n : relArray[r] = StatsOf(db[r])
  BY Zenon DEF LoadedInOrder
<1>2. n < Len(db) /\ relArray' = Append(relArray, new) /\ db' = db
  BY Zenon DEF FillRel, StatsOf
<1>3. db \in Seq(Files)
  BY <1>1, DatabasesAssumption DEF Files, ColumnsOfWords, Words
<1>4. n \in Nat /\ Len(db) \in Nat /\ DOMAIN db = 1..Len(db)
  BY <1>1, <1>3, LenProperties
<1>5. n + 1 \in DOMAIN db
  BY <1>2, <1>4
<1>6. new \in S
  BY <1>5, Zenon DEF Range
<1>. HIDE DEF S, new
<1>7. /\ relArray' \in Seq(S) /\ Len(relArray') = n + 1
      /\ \A r \in 1..n : relArray'[r] = relArray[r]
      /\ relArray'[n + 1] = new
  BY <1>1, <1>2, <1>6, AppendProperties
<1>8. \A r \in 1..n+1 : relArray'[r] = StatsOf(db[r])
  BY <1>1, <1>4, <1>7 DEF new
<1>9. Len(relArray') <= Len(db)
  BY <1>2, <1>4, <1>7
<1>. QED  BY <1>1, <1>2, <1>7, <1>8, <1>9, Zenon DEF LoadedInOrder, S

(* The statistics stay what they were loaded as, whatever queries do to    *)
(* the copies they have.                                                   *)
THEOREM LoadedInvariant == Spec => []LoadedInOrder
<1>1. Init => LoadedInOrder
  <2>. SUFFICES ASSUME Init PROVE LoadedInOrder
    OBVIOUS
  <2>1. db \in Databases /\ relArray = <<>>
    BY Zenon DEF Init
  <2>2. Len(db) \in Nat
    BY <2>1, DatabasesAssumption, LenProperties
  <2>. QED  BY <2>1, <2>2 DEF LoadedInOrder
<1>2. LoadedInOrder /\ [Next]_vars => LoadedInOrder'
  <2>. SUFFICES ASSUME LoadedInOrder, [Next]_vars PROVE LoadedInOrder'
    OBVIOUS
  <2>1. CASE FillRel
    BY <2>1, LoadedStep
  <2>2. CASE UNCHANGED <<db, relArray>>
    BY <2>2, Zenon DEF LoadedInOrder
  <2>3. \/ FillRel
        \/ UNCHANGED <<db, relArray>>
    BY Zenon DEF Next, vars, FillRelFails, Loaded, Scan, EndOfBatch, Construct, FreeQuery,
                 ExecuteFilter, EndFilters, ExecuteSelfJoin, SkipJoin, EndJoins, Stopped
  <2>. QED  BY <2>1, <2>2, <2>3
<1>. QED  BY <1>1, <1>2, PTL DEF Spec

(* No bit of a loaded column lies outside the words that are allocated for *)
(* it, its distinct values are never overcounted, and they are exact where *)
(* the values span at most N, for all databases.                           *)
THEOREM StatsCorrect == Spec => []StatsExact
<1>1. LoadedInOrder => StatsExact
  <2>. SUFFICES ASSUME LoadedInOrder, NEW r \in DOMAIN relArray, NEW c \in DOMAIN relArray[r],
                       Span(db[r][c]) # 0
                PROVE  LET column == db[r][c]
                           s == relArray[r][c]
                       IN  /\ \A k \in s.bits : k < s.words * WordBits
                           /\ s.distinctVals \in 1..Cardinality(Range(column))
                           /\ Span(column) <= N => s.distinctVals = Cardinality(Range(column))
    BY Zenon DEF StatsExact
  <2>1. r \in 1..Len(relArray) /\ Len(relArray) \in Nat /\ Len(relArray) <= Len(db)
    BY LenProperties DEF LoadedInOrder
  <2>2. db \in Seq(Files)
    BY DatabasesAssumption DEF LoadedInOrder, Files, ColumnsOfWords, Words
  <2>3. db[r] \in Seq(ColumnsOfWords)
    BY <2>1, <2>2, ElementOfSeq, LenProperties DEF Files
  <2>4. relArray[r] = StatsOf(db[r])
    BY <2>1, Zenon DEF LoadedInOrder
  <2>5. c \in DOMAIN db[r] /\ relArray[r][c] = FillStatsArray(db[r][c])
    BY <2>4, Zenon DEF StatsOf
  <2>6. db[r][c] \in ColumnsOfWords
    BY <2>3, <2>5, ElementOfSeq, LenProperties
  <2>. QED  BY <2>5, <2>6, StatsOfColumn, Zenon
<1>. QED  BY <1>1, LoadedInvariant, PTL

-----------------------------------------------------------------------------
(* What a filter makes of the statistics of its column                     *)

LEMMA TimesMonotone ==
  ASSUME NEW a \in Nat, NEW b \in Nat, NEW c \in Nat, a <= b
  PROVE  c * a \in Nat /\ c * b \in Nat /\ c * a <= c * b
<1>1. b - a \in Nat
  OBVIOUS
<1>2. c * (b - a) \in Nat
  BY <1>1
<1>3. c * (b - a) = c * b - c * a
  OBVIOUS
<1>4. c * a \in Nat /\ c * b \in Nat
  OBVIOUS
<1>. DEFINE p == c * a
            q == c * b
            r == c * (b - a)
<1>5. p \in Nat /\ q \in Nat /\ r \in Nat /\ r = q - p
  BY <1>2, <1>3, <1>4
<1>. HIDE DEF p, q, r
<1>6. p <= q
  BY <1>5
<1>. QED  BY <1>5, <1>6 DEF p, q

(* It is the least one.                                                    *)
LEMMA CeilDivLeast ==
  ASSUME NEW a \in Nat, NEW b \in Nat \ {0}, NEW m \in Nat, a <= b * m
  PROVE  CeilDiv(a, b) <= m
<1>. DEFINE n == a + b - 1
            q == n \div b
            r == n % b
<1>1. n \in Nat
  OBVIOUS
<1>2. q \in Nat /\ r \in 0..b-1 /\ n = b * q + r
  BY <1>1
<1>3. CeilDiv(a, b) = q
  BY DEF CeilDiv
<1>. HIDE DEF q, r
<1>4. SUFFICES ASSUME m + 1 <= q PROVE FALSE
  BY <1>2, <1>3
<1>5. b * (m + 1) \in Nat /\ b * q \in Nat /\ b * (m + 1) <= b * q
  BY <1>2, <1>4, TimesMonotone
<1>6. b * (m + 1) = b * m + b /\ b * m \in Nat
  OBVIOUS
<1>. DEFINE p == b * q
            k == b * m
            l == b * (m + 1)
<1>7. p \in Nat /\ k \in Nat /\ l = k + b /\ l <= p /\ a <= k /\ a + b - 1 = p + r
  BY <1>2, <1>5, <1>6
<1>. HIDE DEF p, k, l
<1>. QED  BY <1>2, <1>7

LEMMA CeilDivPositive ==
  ASSUME NEW a \in Nat \ {0}, NEW b \in Nat \ {0}
  PROVE  CeilDiv(a, b) \in Nat \ {0}
<1>1. CeilDiv(a, b) \in Nat /\ a <= b * CeilDiv(a, b)
  BY CeilDivCovers
<1>2. CASE CeilDiv(a, b) = 0
  <2>1. b * 0 = 0
    OBVIOUS
  <2>. QED  BY <1>1, <1>2, <2>1
<1>. QED  BY <1>1, <1>2

(* The ceiling of a double near a quotient is 0 only if the dividend is.   *)
LEMMA CeilOfPositive ==
  ASSUME NEW e \in Nat, NEW a \in Nat \ {0}, NEW b \in Nat, CeilOf(e, a, b)
  PROVE  e > 0
<1>. SUFFICES ASSUME e = 0 PROVE FALSE
  OBVIOUS
<1>1. Accuracy \in Nat /\ Accuracy - 1 \in Nat \ {0}
  BY Sizes
<1>2. a * (Accuracy - 1) <= e * b * Accuracy
  BY DEF CeilOf
<1>3. e * b * Accuracy = 0
  <2>1. 0 * b = 0 /\ 0 * Accuracy = 0
    BY <1>1
  <2>. QED  BY <2>1
<1>4. a * 1 <= a * (Accuracy - 1) /\ a * 1 = a
  BY <1>1, TimesMonotone
<1>. DEFINE p == a * (Accuracy - 1)
<1>5. p \in Nat
  BY <1>1
<1>. HIDE DEF p
<1>. QED  BY <1>2, <1>3, <1>4, <1>5 DEF p

(* A part of n that is rounded up is at most n, and not 0 unless n is.     *)
LEMMA CeilsBetween ==
  ASSUME NEW x \in Nat \ {0}, NEW y \in Nat, NEW n \in Nat, NEW e \in Ceils(x, y, n)
  PROVE  /\ e \in Nat /\ e <= n
         /\ n > 0 => e > 0
<1>1. e \in 0..n /\ CeilOf(e, x * n, y)
  BY DEF Ceils
<1>2. e \in Nat /\ e <= n
  BY <1>1
<1>3. ASSUME n > 0
      PROVE  e > 0
  <2>. DEFINE a == x * n
  <2>1. a \in Nat \ {0}
    <3>1. x * 1 <= x * n /\ x * 1 = x /\ x * n \in Nat
      BY <1>3, TimesMonotone
    <3>. HIDE DEF a
    <3>2. a \in Nat /\ x <= a
      BY <3>1 DEF a
    <3>. QED  BY <3>2
  <2>2. CeilOf(e, a, y)
    BY <1>1
  <2>. HIDE DEF a
  <2>. QED  BY <2>1, <2>2, <1>2, CeilOfPositive
<1>. QED  BY <1>2, <1>3

StatsRecords == [minI : Words, maxU : Words, numElements : Nat, distinctVals : Nat,
                 bits : SUBSET Nat, words : Nat]

(* An estimate promises no more than another.                              *)
AtMost(t, s) == /\ t.numElements \in Nat /\ t.numElements <= s.numElements
                /\ t.distinctVals \in Nat /\ t.distinctVals <= s.distinctVals

(* Rows with a value are expected.                                         *)
Expects(s, v) == v \in s.minI..s.maxU /\ s.numElements > 0 /\ s.distinctVals > 0

LEMMA Scales ==
  ASSUME NEW s \in StatsRecords, NEW min \in Words, NEW max \in Words,
         NEW x \in Nat \ {0}, NEW y \in Nat, x < y,
         NEW t \in Scaled(s, min, max, x, y)
  PROVE  /\ t.minI = min /\ t.maxU = max
         /\ AtMost(t, s)
         /\ s.numElements > 0 /\ s.distinctVals > 0 => t.numElements > 0 /\ t.distinctVals > 0
<1>1. s.numElements \in Nat /\ s.distinctVals \in Nat
  BY DEF StatsRecords
<1>. DEFINE E == Ceils(x, y, s.distinctVals) \X Ceils(x, y, s.numElements)
<1>2. PICK e \in E :
        t = [s EXCEPT !.minI = min, !.maxU = max, !.distinctVals = e[1], !.numElements = e[2]]
  BY Zenon DEF Scaled
<1>3. e[1] \in Ceils(x, y, s.distinctVals) /\ e[2] \in Ceils(x, y, s.numElements)
  BY <1>2
<1>4. t.minI = min /\ t.maxU = max /\ t.distinctVals = e[1] /\ t.numElements = e[2]
  BY <1>2 DEF StatsRecords
<1>5. /\ e[1] \in Nat /\ e[1] <= s.distinctVals /\ (s.distinctVals > 0 => e[1] > 0)
      /\ e[2] \in Nat /\ e[2] <= s.numElements /\ (s.numElements > 0 => e[2] > 0)
  BY <1>1, <1>3, CeilsBetween
<1>. QED  BY <1>4, <1>5 DEF AtMost

LEMMA Zeros ==
  ASSUME NEW s \in StatsRecords
  PROVE  AtMost(Zero(s), s)
<1>1. Zero(s).numElements = 0 /\ Zero(s).distinctVals = 0
  BY DEF Zero, StatsRecords
<1>. QED  BY <1>1 DEF AtMost, StatsRecords

LEMMA Singles ==
  ASSUME NEW s \in StatsRecords, NEW w \in Words
  PROVE  /\ AtMost(Single(s, w), s)
         /\ s.numElements > 0 /\ s.distinctVals > 0 => Expects(Single(s, w), w)
<1>. DEFINE n == s.numElements
            d == s.distinctVals
            t == Single(s, w)
<1>1. n \in Nat /\ d \in Nat
  BY DEF StatsRecords
<1>2. CASE d = 0
  <2>1. t = Zero(s)
    BY <1>2, Zenon DEF Single
  <2>. QED  BY <2>1, <1>2, Zeros
<1>3. CASE d # 0
  <2>1. t = [s EXCEPT !.minI = w, !.maxU = w, !.distinctVals = 1, !.numElements = CeilDiv(n, d)]
    BY <1>3, Zenon DEF Single
  <2>2. t.minI = w /\ t.maxU = w /\ t.distinctVals = 1 /\ t.numElements = CeilDiv(n, d)
    BY <2>1 DEF StatsRecords
  <2>3. d \in Nat \ {0} /\ 1 <= d
    BY <1>1, <1>3
  <2>4. CeilDiv(n, d) \in Nat
    BY <1>1, <2>3, CeilDivCovers
  <2>5. n <= d * n
    <3>1. n * 1 <= n * d
      BY <1>1, <2>3, TimesMonotone
    <3>2. n * 1 = n /\ n * d = d * n
      BY <1>1
    <3>. QED  BY <3>1, <3>2
  <2>6. CeilDiv(n, d) <= n
    BY <1>1, <2>3, <2>5, CeilDivLeast
  <2>7. n > 0 => CeilDiv(n, d) > 0
    BY <1>1, <2>3, CeilDivPositive
  <2>8. w \in Nat
    BY Sizes DEF Words
  <2>9. AtMost(t, s)
    <3>. HIDE DEF t
    <3>. QED  BY <1>1, <2>2, <2>3, <2>4, <2>6 DEF AtMost
  <2>10. n > 0 => t.numElements > 0 /\ t.distinctVals > 0 /\ w \in t.minI..t.maxU
    <3>. HIDE DEF t
    <3>. QED  BY <2>2, <2>4, <2>7, <2>8
  <2>. QED  BY <2>9, <2>10, Zenon DEF Expects
<1>. QED  BY <1>2, <1>3

(* <                                                                       *)
LEMMA LessKeeps ==
  ASSUME NEW s \in StatsRecords, NEW value \in Words, NEW t \in Less(s, value)
  PROVE  /\ AtMost(t, s)
         /\ \A v : v < value /\ Expects(s, v) => Expects(t, v)
<1>. DEFINE k2 == Minus(value, 1)
            min == s.minI
            max == s.maxU
<1>1. min \in Words /\ max \in Words /\ s.numElements \in Nat /\ s.distinctVals \in Nat
  BY DEF StatsRecords
<1>2. k2 \in Words /\ (value >= 1 => k2 = value - 1)
  <2>1. 1 \in Words
    BY Sizes DEF Words
  <2>. QED  BY <2>1, MinusOnce DEF Words
<1>3. Less(s, value) = IF k2 >= max THEN {s}
                       ELSE IF k2 < min THEN {Zero(s)}
                       ELSE IF k2 = min THEN {Single(s, k2)}
                       ELSE Scaled(s, min, k2, k2 - min, max - min)
  BY Zenon DEF Less
<1>. HIDE DEF k2
<1>4. ASSUME NEW v, v < value, Expects(s, v)
      PROVE  /\ v \in Nat /\ min <= v /\ v <= k2
             /\ s.numElements > 0 /\ s.distinctVals > 0
  <2>1. v \in min..max /\ s.numElements > 0 /\ s.distinctVals > 0
    BY <1>4 DEF Expects
  <2>. QED  BY <2>1, <1>1, <1>2, <1>4, Sizes DEF Words
<1>5. CASE k2 >= max
  <2>1. t = s
    BY <1>3, <1>5
  <2>. QED  BY <2>1, <1>1 DEF AtMost
<1>6. CASE k2 < max /\ k2 < min
  <2>1. t = Zero(s)
    BY <1>3, <1>6, <1>1, <1>2 DEF Words
  <2>2. \A v : ~(v < value /\ Expects(s, v))
    BY <1>4, <1>6, <1>1, <1>2 DEF Words
  <2>. QED  BY <2>1, <2>2, Zeros
<1>7. CASE k2 < max /\ k2 = min
  <2>1. t = Single(s, k2)
    BY <1>3, <1>7, <1>1, <1>2 DEF Words
  <2>2. \A v : v < value /\ Expects(s, v) => v = k2
    BY <1>4, <1>7, <1>1, <1>2 DEF Words
  <2>. QED  BY <2>1, <2>2, <1>2, <1>4, Singles
<1>8. CASE k2 < max /\ k2 > min
  <2>1. t \in Scaled(s, min, k2, k2 - min, max - min)
    BY <1>3, <1>8, <1>1, <1>2 DEF Words
  <2>2. k2 - min \in Nat \ {0} /\ max - min \in Nat /\ k2 - min < max - min
    BY <1>8, <1>1, <1>2, Sizes DEF Words
  <2>3. /\ t.minI = min /\ t.maxU = k2 /\ AtMost(t, s)
        /\ s.numElements > 0 /\ s.distinctVals > 0 => t.numElements > 0 /\ t.distinctVals > 0
    <3>. HIDE DEF min, max
    <3>. QED  BY <2>1, <2>2, <1>1, <1>2, Scales
  <2>4. \A v : v < value /\ Expects(s, v) => v \in min..k2
    BY <1>4, <1>1, <1>2, Sizes DEF Words
  <2>. QED  BY <2>3, <2>4, <1>4 DEF Expects
<1>. QED  BY <1>5, <1>6, <1>7, <1>8, <1>1, <1>2 DEF Words

(* >=, which > calls with the next word.                                   *)
LEMMA GreaterOrEqualKeeps ==
  ASSUME NEW s \in StatsRecords, NEW value \in Words, NEW t \in GreaterOrEqual(s, value)
  PROVE  /\ AtMost(t, s)
         /\ \A v : v >= value /\ Expects(s, v) => Expects(t, v)
<1>. DEFINE min == s.minI
            max == s.maxU
<1>1. min \in Words /\ max \in Words /\ s.numElements \in Nat /\ s.distinctVals \in Nat
  BY DEF StatsRecords
<1>2. GreaterOrEqual(s, value) = IF value <= min THEN {s}
                                 ELSE IF value > max THEN {Zero(s)}
                                 ELSE IF value = max THEN {Single(s, value)}
                                 ELSE Scaled(s, value, max, max - value, max - min)
  BY Zenon DEF GreaterOrEqual
<1>3. ASSUME NEW v, v >= value, Expects(s, v)
      PROVE  /\ v \in Nat /\ value <= v /\ v <= max
             /\ s.numElements > 0 /\ s.distinctVals > 0
  <2>1. v \in min..max /\ s.numElements > 0 /\ s.distinctVals > 0
    BY <1>3 DEF Expects
  <2>. QED  BY <2>1, <1>1, <1>3, Sizes DEF Words
<1>4. CASE value <= min
  <2>1. t = s
    BY <1>2, <1>4
  <2>. QED  BY <2>1, <1>1 DEF AtMost
<1>5. CASE value > min /\ value > max
  <2>1. t = Zero(s)
    BY <1>2, <1>5, <1>1 DEF Words
  <2>2. \A v : ~(v >= value /\ Expects(s, v))
    BY <1>3, <1>5, <1>1 DEF Words
  <2>. QED  BY <2>1, <2>2, Zeros
<1>6. CASE value > min /\ value = max
  <2>1. t = Single(s, value)
    BY <1>2, <1>6, <1>1 DEF Words
  <2>2. \A v : v >= value /\ Expects(s, v) => v = value
    BY <1>3, <1>6, <1>1 DEF Words
  <2>. QED  BY <2>1, <2>2, <1>3, Singles
<1>7. CASE value > min /\ value < max
  <2>1. t \in Scaled(s, value, max, max - value, max - min)
    BY <1>2, <1>7, <1>1 DEF Words
  <2>2. max - value \in Nat \ {0} /\ max - min \in Nat /\ max - value < max - min
    BY <1>7, <1>1, Sizes DEF Words
  <2>3. /\ t.minI = value /\ t.maxU = max /\ AtMost(t, s)
        /\ s.numElements > 0 /\ s.distinctVals > 0 => t.numElements > 0 /\ t.distinctVals > 0
    <3>. HIDE DEF min, max
    <3>. QED  BY <2>1, <2>2, <1>1, Scales
  <2>4. \A v : v >= value /\ Expects(s, v) => v \in value..max
    BY <1>3, <1>1, Sizes DEF Words
  <2>. QED  BY <2>3, <2>4, <1>3 DEF Expects
<1>. QED  BY <1>4, <1>5, <1>6, <1>7, <1>1 DEF Words

(* =, where the range of the column starts with a value that it has and no *)
(* more values are distinct than there are.                                *)
LEMMA EqualKeeps ==
  ASSUME NEW s \in StatsRecords, NEW value \in Words, NEW t \in Equal(s, value)
  PROVE  /\ AtMost(t, s)
         /\ 0 \in s.bits /\ s.distinctVals <= s.numElements =>
              \A v : v = value /\ Expects(s, v) => Expects(t, v)
<1>. DEFINE n == s.numElements
            d == s.distinctVals
            u == [s EXCEPT !.minI = value, !.maxU = value]
            rows == IF d = 0 THEN 0 ELSE n \div d
<1>1. n \in Nat /\ d \in Nat /\ value \in Nat
  BY Sizes DEF StatsRecords, Words
<1>2. u.maxU = value /\ u.minI = value
  BY DEF StatsRecords
<1>3. Minus(u.maxU, value) = 0
  BY <1>1, <1>2, MinusOnce
<1>4. t = IF 0 \in s.bits
          THEN [u EXCEPT !.distinctVals = IF d = 0 THEN 0 ELSE 1, !.numElements = rows]
          ELSE [u EXCEPT !.distinctVals = 0, !.numElements = 0]
  BY <1>3 DEF Equal, TestBit
<1>5. /\ t.minI = value /\ t.maxU = value
      /\ t.distinctVals = IF 0 \in s.bits /\ d # 0 THEN 1 ELSE 0
      /\ t.numElements = IF 0 \in s.bits THEN rows ELSE 0
  BY <1>4 DEF StatsRecords
<1>6. /\ rows \in Nat /\ rows <= n
      /\ d > 0 /\ d <= n => rows > 0
  <2>1. CASE d = 0
    BY <2>1, <1>1
  <2>2. CASE d # 0
    <3>. DEFINE q == n \div d
                r == n % d
    <3>1. d \in Nat \ {0}
      BY <2>2, <1>1
    <3>2. q \in Nat /\ r \in 0..d-1 /\ n = d * q + r
      BY <1>1, <3>1, DivMod
    <3>3. rows = q
      BY <2>2
    <3>. HIDE DEF q, r, rows
    <3>4. q * 1 <= q * d /\ q * d \in Nat /\ q * d = d * q /\ q * 1 = q
      BY <3>1, <3>2, TimesMonotone
    <3>. DEFINE p == d * q
    <3>5. p \in Nat /\ q <= p /\ n = p + r
      BY <3>2, <3>4
    <3>6. q = 0 => p = 0
      <4>1. d * 0 = 0
        BY <3>1
      <4>. QED  BY <4>1
    <3>. HIDE DEF p
    <3>. QED  BY <1>1, <3>1, <3>2, <3>3, <3>5, <3>6
  <2>. QED  BY <2>1, <2>2
<1>. HIDE DEF rows
<1>7. AtMost(t, s)
  <2>1. t.numElements \in Nat /\ t.numElements <= n
    BY <1>1, <1>5, <1>6
  <2>2. t.distinctVals \in Nat /\ t.distinctVals <= d
    BY <1>1, <1>5
  <2>. QED  BY <2>1, <2>2 DEF AtMost
<1>8. ASSUME 0 \in s.bits, d <= n, NEW v, v = value, Expects(s, v)
      PROVE  Expects(t, v)
  <2>1. n > 0 /\ d > 0
    BY <1>8, Zenon DEF Expects
  <2>2. t.numElements > 0 /\ t.distinctVals > 0
    BY <1>1, <1>5, <1>6, <1>8, <2>1
  <2>3. v \in t.minI..t.maxU
    BY <1>1, <1>5, <1>8
  <2>. QED  BY <2>2, <2>3 DEF Expects
<1>. QED  BY <1>7, <1>8

(* The statistics that FillStatsArray takes are of this kind.              *)
LEMMA StatsAreRecords ==
  ASSUME NEW column \in ColumnsOfWords
  PROVE  LET s == FillStatsArray(column)
         IN  /\ s \in StatsRecords /\ 0 \in s.bits
             /\ s.distinctVals > 0 /\ s.distinctVals <= s.numElements
<1>. DEFINE n == Len(column)
            bits == {BitOf(column, v) : v \in Range(column)}
            words == CeilDiv(Bits(column), WordBits)
            f == [i \in 1..n |-> BitOf(column, column[i])]
<1>1. n \in Nat /\ DOMAIN column = 1..n
  BY LenProperties DEF ColumnsOfWords
<1>2. /\ MinOf(column) \in Range(column) /\ MinOf(column) \in Words
      /\ MaxOf(column) \in Words /\ Range(column) \subseteq Words
  BY Extremes, ValuesOf
<1>3. \A v \in Range(column) : Minus(v, MinOf(column)) \in Words
  BY <1>2, MinusOnce
<1>4. bits \subseteq Nat
  <2>1. \A w \in Words : w \in Nat /\ w % N \in Nat
    BY Sizes DEF Words
  <2>. QED  BY <1>3, <2>1 DEF BitOf
<1>5. 0 \in bits
  <2>1. Minus(MinOf(column), MinOf(column)) = 0
    BY <1>2, MinusOnce DEF Words
  <2>2. 0 % N = 0
    BY Sizes
  <2>3. BitOf(column, MinOf(column)) = 0
    BY <2>1, <2>2, Zenon DEF BitOf
  <2>. QED  BY <1>2, <2>3
<1>6. words \in Nat
  <2>1. Minus(MaxOf(column), MinOf(column)) \in Words /\ 1 \in Words
    BY <1>2, MinusOnce, Sizes DEF Words
  <2>2. Span(column) \in Words
    BY <2>1, PlusOnce DEF Span
  <2>3. Bits(column) \in Nat
    BY <2>2, Sizes DEF Bits, Words
  <2>. QED  BY <2>3, CeilDivCovers, Sizes
<1>7. Cardinality(bits) \in Nat /\ Cardinality(bits) > 0 /\ Cardinality(bits) <= n
  <2>1. bits = {f[i] : i \in 1..n}
    BY <1>1, Zenon DEF Range
  <2>2. f \in Surjection(1..n, bits)
    <3>. HIDE DEF bits
    <3>. QED  BY <2>1 DEF Surjection
  <2>3. IsFiniteSet(1..n) /\ Cardinality(1..n) = n
    <3>. HIDE DEF n
    <3>1. IsFiniteSet(1..n) /\ Cardinality(1..n) = IF 1 > n THEN 0 ELSE n - 1 + 1
      BY <1>1, FS_Interval
    <3>. QED  BY <3>1, <1>1
  <2>. HIDE DEF bits, f
  <2>4. IsFiniteSet(bits) /\ Cardinality(bits) <= Cardinality(1..n)
    BY <2>2, <2>3, FS_Surjection
  <2>5. Cardinality(bits) \in Nat /\ Cardinality(bits) # 0
    BY <1>5, <2>4, FS_CardinalityType, FS_EmptySet
  <2>. QED  BY <2>3, <2>4, <2>5
<1>8. FillStatsArray(column) =
        [minI |-> MinOf(column), maxU |-> MaxOf(column), numElements |-> n,
         distinctVals |-> Cardinality(bits), bits |-> bits, words |-> words]
  BY Zenon DEF FillStatsArray
<1>. HIDE DEF n, bits, words, f
<1>. QED  BY <1>1, <1>2, <1>4, <1>5, <1>6, <1>7, <1>8 DEF StatsRecords

(* A filter never adds to what is expected of its column, and it keeps     *)
(* every value that it lets through: the value lies in the new range and   *)
(* rows with it are expected.  For = this needs the bit of the least value *)
(* and no more distinct values than rows.                                  *)
THEOREM FilterKeepsItsRows ==
  ASSUME NEW s \in StatsRecords, NEW f, f.op \in {"<", ">", "="}, f.value \in Words,
         NEW t \in Filtered(s, f.op, f.value)
  PROVE  /\ AtMost(t, s)
         /\ 0 \in s.bits /\ s.distinctVals <= s.numElements =>
              \A v \in Words : Holds(f, v) /\ Expects(s, v) => Expects(t, v)
<1>1. CASE f.op = "<"
  <2>1. t \in Less(s, f.value)
    BY <1>1 DEF Filtered
  <2>2. \A v : Holds(f, v) => v < f.value
    BY <1>1 DEF Holds
  <2>. QED  BY <2>1, <2>2, LessKeeps
<1>2. CASE f.op = ">"
  <2>. DEFINE next1 == Plus(f.value, 1)
  <2>1. t \in GreaterOrEqual(s, next1)
    BY <1>2 DEF Filtered, Greater
  <2>2. \A v : Holds(f, v) => v > f.value
    BY <1>2 DEF Holds
  <2>3. next1 \in Words /\ (next1 = f.value + 1 \/ next1 = 0)
    <3>1. 1 \in Words
      BY Sizes DEF Words
    <3>2. next1 \in Words /\ next1 = IF f.value + 1 < WordRange THEN f.value + 1
                                      ELSE f.value + 1 - WordRange
      BY <3>1, PlusOnce
    <3>. QED  BY <3>2, Sizes DEF Words
  <2>. HIDE DEF next1
  <2>4. \A v \in Words : Holds(f, v) => v >= next1
    BY <2>2, <2>3, Sizes DEF Words
  <2>. QED  BY <2>1, <2>3, <2>4, GreaterOrEqualKeeps
<1>3. CASE f.op = "="
  <2>1. t \in Equal(s, f.value)
    BY <1>3 DEF Filtered
  <2>2. \A v : Holds(f, v) => v = f.value
    BY <1>3 DEF Holds
  <2>. QED  BY <2>1, <2>2, EqualKeeps
<1>. QED  BY <1>1, <1>2, <1>3

-----------------------------------------------------------------------------
(* What becomes of all the columns of a relation                           *)

(* Statistics whose bit vector has the bit of the least value.             *)
Kept == {s \in StatsRecords : 0 \in s.bits}

LEMMA Recounted ==
  ASSUME NEW s \in Kept, NEW d \in Nat, NEW n \in Nat
  PROVE  LET t == [s EXCEPT !.numElements = n, !.distinctVals = d]
         IN  /\ t \in Kept
             /\ t.minI = s.minI /\ t.maxU = s.maxU /\ t.distinctVals = d /\ t.numElements = n
BY DEF Kept, StatsRecords

LEMMA ZeroKept ==
  ASSUME NEW s \in Kept
  PROVE  Zero(s) \in Kept /\ Zero(s).numElements = 0 /\ Zero(s).distinctVals = 0
<1>1. 0 \in Words
  BY Sizes DEF Words
<1>. QED  BY <1>1 DEF Kept, StatsRecords, Zero

(* A filter sets only the range and the two counts.                        *)
LEMMA FilteredKept ==
  ASSUME NEW s \in Kept, NEW op, NEW value \in Words, NEW t \in Filtered(s, op, value)
  PROVE  t \in Kept
<1>1. s \in StatsRecords /\ s.minI \in Words /\ s.maxU \in Words /\ 1 \in Words
      /\ s.numElements \in Nat /\ s.distinctVals \in Nat
  BY Sizes DEF Kept, StatsRecords, Words
<1>2. ASSUME NEW w \in Words
      PROVE  Single(s, w) \in Kept
  <2>1. CASE s.distinctVals = 0
    BY <2>1, ZeroKept DEF Single
  <2>2. CASE s.distinctVals # 0
    <3>. DEFINE n == CeilDiv(s.numElements, s.distinctVals)
                u == Single(s, w)
    <3>1. n \in Nat
      BY <2>2, <1>1, CeilDivCovers
    <3>2. u = [s EXCEPT !.minI = w, !.maxU = w, !.distinctVals = 1, !.numElements = n]
      BY <2>2, Zenon DEF Single
    <3>3. u \in Kept
      <4>. HIDE DEF n, u
      <4>. QED  BY <3>1, <3>2 DEF Kept, StatsRecords
    <3>. QED  BY <3>3
  <2>. QED  BY <2>1, <2>2
<1>3. ASSUME NEW min \in Words, NEW max \in Words, NEW x \in Nat \ {0}, NEW y \in Nat, x < y,
             NEW u \in Scaled(s, min, max, x, y)
      PROVE  u \in Kept
  <2>. DEFINE E == Ceils(x, y, s.distinctVals) \X Ceils(x, y, s.numElements)
  <2>1. PICK e \in E :
          u = [s EXCEPT !.minI = min, !.maxU = max, !.distinctVals = e[1], !.numElements = e[2]]
    BY <1>3, Zenon DEF Scaled
  <2>2. e[1] \in Ceils(x, y, s.distinctVals) /\ e[2] \in Ceils(x, y, s.numElements)
    BY <2>1
  <2>3. e[1] \in Nat /\ e[2] \in Nat
    BY <2>2, <1>1, <1>3, CeilsBetween
  <2>. QED  BY <2>1, <2>3 DEF Kept, StatsRecords
<1>4. CASE op = "<"
  <2>. DEFINE k2 == Minus(value, 1)
              min == s.minI
              max == s.maxU
  <2>1. k2 \in Words
    BY <1>1, MinusOnce
  <2>2. t \in IF k2 >= max THEN {s}
              ELSE IF k2 < min THEN {Zero(s)}
              ELSE IF k2 = min THEN {Single(s, k2)}
              ELSE Scaled(s, min, k2, k2 - min, max - min)
    BY <1>4, Zenon DEF Filtered, Less
  <2>3. \/ t = s \/ t = Zero(s) \/ t = Single(s, k2)
        \/ k2 > min /\ k2 < max /\ t \in Scaled(s, min, k2, k2 - min, max - min)
    <3>. HIDE DEF k2
    <3>. QED  BY <2>1, <2>2, <1>1, Sizes DEF Words
  <2>4. CASE k2 > min /\ k2 < max /\ t \in Scaled(s, min, k2, k2 - min, max - min)
    <3>. HIDE DEF k2, min, max
    <3>1. min \in Words /\ max \in Words
      BY <1>1 DEF min, max
    <3>2. k2 - min \in Nat \ {0} /\ max - min \in Nat /\ k2 - min < max - min
      BY <2>4, <2>1, <3>1, Sizes DEF Words
    <3>. QED  BY <3>1, <3>2, <2>4, <2>1, <1>3
  <2>. QED  BY <2>1, <2>3, <2>4, <1>2, ZeroKept
<1>5. CASE op = ">"
  <2>. DEFINE v == Plus(value, 1)
              min == s.minI
              max == s.maxU
  <2>1. v \in Words
    BY <1>1, PlusOnce
  <2>2. t \in IF v <= min THEN {s}
              ELSE IF v > max THEN {Zero(s)}
              ELSE IF v = max THEN {Single(s, v)}
              ELSE Scaled(s, v, max, max - v, max - min)
    BY <1>5, Zenon DEF Filtered, Greater, GreaterOrEqual
  <2>3. \/ t = s \/ t = Zero(s) \/ t = Single(s, v)
        \/ v > min /\ v < max /\ t \in Scaled(s, v, max, max - v, max - min)
    <3>. HIDE DEF v
    <3>. QED  BY <2>1, <2>2, <1>1, Sizes DEF Words
  <2>4. CASE v > min /\ v < max /\ t \in Scaled(s, v, max, max - v, max - min)
    <3>. HIDE DEF v, min, max
    <3>1. min \in Words /\ max \in Words
      BY <1>1 DEF min, max
    <3>2. max - v \in Nat \ {0} /\ max - min \in Nat /\ max - v < max - min
      BY <2>4, <2>1, <3>1, Sizes DEF Words
    <3>. QED  BY <3>1, <3>2, <2>4, <2>1, <1>3
  <2>. QED  BY <2>1, <2>3, <2>4, <1>2, ZeroKept
<1>6. CASE op \notin {"<", ">"}
  <2>1. t \in Equal(s, value)
    BY <1>6 DEF Filtered
  <2>2. t.distinctVals \in Nat /\ t.numElements \in Nat
    BY <2>1, <1>1, EqualKeeps, Zenon DEF AtMost
  <2>3. \E d, n : t = [s EXCEPT !.minI = value, !.maxU = value, !.distinctVals = d,
                                !.numElements = n]
    BY <2>1 DEF Equal
  <2>4. PICK d, n : t = [s EXCEPT !.minI = value, !.maxU = value, !.distinctVals = d,
                                  !.numElements = n]
    BY <2>3
  <2>5. t.distinctVals = d /\ t.numElements = n
    BY <2>4, <1>1 DEF StatsRecords
  <2>. QED  BY <2>2, <2>4, <2>5 DEF Kept, StatsRecords
<1>. QED  BY <1>4, <1>5, <1>6

LEMMA MinOfTwo ==
  ASSUME NEW a \in Nat, NEW b \in Nat
  PROVE  Min({a, b}) = IF a <= b THEN a ELSE b
<1>1. \E x \in {a, b} : \A y \in {a, b} : x <= y
  OBVIOUS
<1>2. Min({a, b}) \in {a, b} /\ \A y \in {a, b} : Min({a, b}) <= y
  BY <1>1, Zenon DEF Min
<1>. QED  BY <1>2

LEMMA MaxOfTwo ==
  ASSUME NEW a \in Nat, NEW b \in Nat
  PROVE  Max({a, b}) = IF a >= b THEN a ELSE b
<1>1. \E x \in {a, b} : \A y \in {a, b} : x >= y
  OBVIOUS
<1>2. Max({a, b}) \in {a, b} /\ \A y \in {a, b} : Max({a, b}) >= y
  BY <1>1, Zenon DEF Max
<1>. QED  BY <1>2

LEMMA InBoth ==
  ASSUME NEW a1 \in Int, NEW b1 \in Int, NEW a2 \in Int, NEW b2 \in Int,
         NEW v, v \in a1..b1, v \in a2..b2,
         NEW min, min = IF a1 >= a2 THEN a1 ELSE a2,
         NEW max, max = IF b1 <= b2 THEN b1 ELSE b2
  PROVE  v \in min..max
OBVIOUS

(* The formula for the distinct values gives at most what there were.  It  *)
(* gives 0 only where there were none, or more than a double counts.       *)
LEMMA DistinctBetween ==
  ASSUME NEW d \in Nat, NEW n \in Nat, NEW new \in Nat, NEW old \in Nat,
         NEW e \in Distinct(d, n, new, old)
  PROVE  /\ e \in Nat /\ e <= d
         /\ d > 0 /\ n > 0 /\ new > 0 /\ n = old /\ old <= Accuracy /\ d <= Accuracy => e > 0
<1>1. CASE new = 0 \/ n = 0
  <2>1. e = 0
    BY <1>1 DEF Distinct
  <2>. QED  BY <2>1, <1>1
<1>2. CASE ~(new = 0 \/ n = 0) /\ new >= old
  <2>1. e = d
    BY <1>2 DEF Distinct
  <2>. QED  BY <2>1
<1>3. CASE ~(new = 0 \/ n = 0) /\ ~(new >= old)
  <2>1. /\ e \in 0..d
        /\ old <= Accuracy => (old * d <= n * new * Accuracy => e > 0)
    BY <1>3 DEF Distinct
  <2>2. e \in Nat /\ e <= d
    BY <2>1
  <2>3. ASSUME n = old, old <= Accuracy, d <= Accuracy
        PROVE  e > 0
    <3>1. Accuracy \in Nat /\ new \in Nat \ {0}
      BY <1>3, Sizes
    <3>. DEFINE k == new * Accuracy
    <3>2. k \in Nat /\ d <= k
      <4>1. Accuracy * 1 <= Accuracy * new /\ Accuracy * 1 = Accuracy
        BY <3>1, TimesMonotone
      <4>2. k \in Nat /\ Accuracy * new = k
        BY <3>1
      <4>. HIDE DEF k
      <4>. QED  BY <4>1, <4>2, <3>1, <2>3
    <3>3. old * d <= old * k
      <4>. HIDE DEF k
      <4>. QED  BY <3>2, TimesMonotone
    <3>4. n * new * Accuracy = old * k
      BY <3>1, <2>3
    <3>. QED  BY <3>3, <3>4, <2>1, <2>3
  <2>. QED  BY <2>2, <2>3
<1>. QED  BY <1>1, <1>2, <1>3

(* A double counts the rows and the distinct values of a column.           *)
Countable(s) == s.numElements <= Accuracy /\ s.distinctVals <= Accuracy

(* A column that is not filtered keeps its range; it has distinct values   *)
(* and rows as long as the one that is filtered has.                       *)
LEMMA OthersKeep ==
  ASSUME NEW s \in Kept, NEW new \in Nat, NEW old \in Nat, NEW t \in Others(s, new, old)
  PROVE  /\ t \in Kept
         /\ t.numElements \in {0, new} /\ t.distinctVals <= s.distinctVals
         /\ \A v : Expects(s, v) /\ new > 0 /\ s.numElements = old /\ Countable(s) => Expects(t, v)
<1>1. s.numElements \in Nat /\ s.distinctVals \in Nat
  BY DEF Kept, StatsRecords
<1>2. CASE old = 0 \/ s.distinctVals = 0
  <2>1. t = Zero(s)
    BY <1>2 DEF Others
  <2>2. \A v : ~(Expects(s, v) /\ s.numElements = old)
    BY <1>2 DEF Expects
  <2>. QED  BY <2>1, <2>2, <1>1, ZeroKept
<1>3. CASE ~(old = 0 \/ s.distinctVals = 0)
  <2>1. PICK d \in Distinct(s.distinctVals, s.numElements, new, old) :
          t = [s EXCEPT !.numElements = new, !.distinctVals = d]
    BY <1>3, Zenon DEF Others
  <2>2. /\ d \in Nat /\ d <= s.distinctVals
        /\ (s.distinctVals > 0 /\ s.numElements > 0 /\ new > 0 /\ s.numElements = old
             /\ Countable(s)) => d > 0
    BY <1>1, DistinctBetween DEF Countable
  <2>3. /\ t \in Kept
        /\ t.minI = s.minI /\ t.maxU = s.maxU /\ t.distinctVals = d /\ t.numElements = new
    BY <2>1, <2>2 DEF Kept, StatsRecords
  <2>. QED  BY <2>2, <2>3 DEF Expects
<1>. QED  BY <1>2, <1>3

LEMMA SpreadOver ==
  ASSUME NEW cols, NEW done, NEW new, NEW old, NEW g \in Spread(cols, done, new, old)
  PROVE  /\ g = [c \in DOMAIN cols |-> g[c]]
         /\ \A c \in DOMAIN cols : IF c \in done THEN g[c] = cols[c]
                                   ELSE g[c] \in Others(cols[c], new, old)
<1>. DEFINE options(c) == IF c \in done THEN {cols[c]} ELSE Others(cols[c], new, old)
            U == UNION {options(c) : c \in DOMAIN cols}
<1>1. g \in {f \in [DOMAIN cols -> U] : \A c \in DOMAIN cols : f[c] \in options(c)}
  BY Zenon DEF Spread
<1>. HIDE DEF U
<1>2. g \in [DOMAIN cols -> U] /\ \A c \in DOMAIN cols : g[c] \in options(c)
  BY <1>1
<1>. QED  BY <1>2

(* The columns of a relation promise no more than those that were loaded.  *)
AllAtMost(cols, loaded) == \A k \in DOMAIN cols : AtMost(cols[k], loaded[k])

(* A row is expected: every value it has lies in the range of its column   *)
(* and no column is believed empty.                                        *)
RowExpected(cols, row) == \A k \in DOMAIN cols : Expects(cols[k], row[k])

(* Statistics of a relation of n rows and columns C, as they were loaded.  *)
AreStatistics(C, cols, n, loaded) ==
  /\ cols \in [C -> Kept] /\ n \in Nat
  /\ \A k \in C : /\ loaded[k] \in StatsRecords
                  /\ loaded[k].numElements = n /\ loaded[k].distinctVals <= n

(* The columns that are not believed empty have the same number of rows.   *)
OneCount(cols) == \E m \in Nat : \A k \in DOMAIN cols : cols[k].numElements \in {0, m}

(* What a step makes of such statistics it makes of the numbers that       *)
(* doubles count.                                                          *)
WithinAccuracy(cols, n, loaded) ==
  n <= Accuracy /\ AllAtMost(cols, loaded) /\ OneCount(cols)

LEMMA ColumnsCountable ==
  ASSUME NEW C, NEW cols, NEW n, NEW loaded, AreStatistics(C, cols, n, loaded),
         WithinAccuracy(cols, n, loaded)
  PROVE  \A k \in C : Countable(cols[k])
<1>1. /\ cols \in [C -> Kept] /\ n \in Nat
      /\ \A k \in C : /\ loaded[k] \in StatsRecords
                      /\ loaded[k].numElements = n /\ loaded[k].distinctVals <= n
  BY Zenon DEF AreStatistics
<1>2. n <= Accuracy /\ DOMAIN cols = C /\ Accuracy \in Nat
  BY <1>1, Sizes DEF WithinAccuracy
<1>3. \A k \in C : AtMost(cols[k], loaded[k])
  BY <1>2, Zenon DEF WithinAccuracy, AllAtMost
<1>. QED  BY <1>1, <1>2, <1>3 DEF AtMost, Countable, StatsRecords

(* Rows that are expected are expected by all columns, as many of them.    *)
LEMMA CountsAgree ==
  ASSUME NEW C, NEW cols \in [C -> Kept], OneCount(cols), NEW row, RowExpected(cols, row),
         NEW c \in C, NEW k \in C
  PROVE  cols[k].numElements = cols[c].numElements
<1>1. PICK m \in Nat : \A j \in C : cols[j].numElements \in {0, m}
  BY DEF OneCount
<1>2. \A j \in C : cols[j].numElements > 0
  BY DEF RowExpected, Expects
<1>. QED  BY <1>1, <1>2

(* A filter on column c makes g of them.                                   *)
MadeByFilter(C, cols, c, f, s, changed, g) ==
  /\ c \in C /\ f.op \in {"<", ">", "="} /\ f.value \in Words
  /\ s \in Filtered(cols[c], f.op, f.value)
  /\ DOMAIN changed = C /\ changed[c] = s
  /\ \A k \in C \ {c} : changed[k] = cols[k]
  /\ g \in Spread(changed, {c}, s.numElements, cols[c].numElements)

LEMMA FilterOfRelation ==
  ASSUME NEW C, NEW cols, NEW n, NEW loaded, AreStatistics(C, cols, n, loaded),
         NEW c, NEW f, NEW s, NEW changed, NEW g, MadeByFilter(C, cols, c, f, s, changed, g)
  PROVE  /\ g \in [C -> Kept]
         /\ AllAtMost(cols, loaded) => AllAtMost(g, loaded)
         /\ OneCount(g)
         /\ WithinAccuracy(cols, n, loaded)
            /\ (\A k \in C : cols[k].distinctVals <= cols[k].numElements) =>
              \A row : row[c] \in Words /\ Holds(f, row[c]) /\ RowExpected(cols, row)
                       => RowExpected(g, row)
<1>. DEFINE new == s.numElements
            old == cols[c].numElements
<1>a. /\ cols \in [C -> Kept] /\ n \in Nat
      /\ \A k \in C : loaded[k] \in StatsRecords /\ loaded[k].numElements = n
  BY DEF AreStatistics
<1>b. /\ c \in C /\ f.op \in {"<", ">", "="} /\ f.value \in Words
      /\ s \in Filtered(cols[c], f.op, f.value)
      /\ DOMAIN changed = C /\ changed[c] = s
      /\ \A k \in C \ {c} : changed[k] = cols[k]
      /\ g \in Spread(changed, {c}, s.numElements, cols[c].numElements)
  BY Zenon DEF MadeByFilter
<1>1. /\ cols[c] \in StatsRecords /\ 0 \in cols[c].bits /\ s \in Kept
  BY <1>a, <1>b, FilteredKept DEF Kept
<1>2. /\ AtMost(s, cols[c])
      /\ cols[c].distinctVals <= cols[c].numElements =>
           \A v \in Words : Holds(f, v) /\ Expects(cols[c], v) => Expects(s, v)
  BY <1>1, <1>b, FilterKeepsItsRows
<1>4. new \in Nat /\ old \in Nat
  BY <1>1 DEF Kept, StatsRecords
<1>3. g \in Spread(changed, {c}, new, old)
  BY <1>b
<1>. HIDE DEF new, old
<1>5. /\ g = [k \in C |-> g[k]]
      /\ g[c] = s
      /\ \A k \in C \ {c} : g[k] \in Others(cols[k], new, old)
  <2>1. /\ g = [k \in DOMAIN changed |-> g[k]]
        /\ \A k \in DOMAIN changed : IF k \in {c} THEN g[k] = changed[k]
                                     ELSE g[k] \in Others(changed[k], new, old)
    BY <1>3, SpreadOver, Zenon
  <2>. QED  BY <2>1, <1>b
<1>6. \A k \in C \ {c} :
        /\ g[k] \in Kept
        /\ g[k].numElements \in {0, new} /\ g[k].distinctVals <= cols[k].distinctVals
        /\ \A v : Expects(cols[k], v) /\ new > 0 /\ cols[k].numElements = old
                  /\ Countable(cols[k]) => Expects(g[k], v)
  <2>. TAKE k \in C \ {c}
  <2>1. cols[k] \in Kept /\ g[k] \in Others(cols[k], new, old)
    BY <1>5, <1>a
  <2>. QED  BY <2>1, <1>4, OthersKeep
<1>7. g \in [C -> Kept]
  BY <1>1, <1>5, <1>6
<1>8. DOMAIN g = C /\ DOMAIN cols = C
  BY <1>7, <1>a
<1>9. ASSUME AllAtMost(cols, loaded), NEW k \in C
      PROVE  AtMost(g[k], loaded[k])
  <2>1. \A j \in C : /\ cols[j].numElements \in Nat /\ cols[j].numElements <= n
                     /\ cols[j].distinctVals \in Nat
                     /\ cols[j].distinctVals <= loaded[j].distinctVals
    BY <1>9, <1>8, <1>a, Zenon DEF AllAtMost, AtMost
  <2>6. \A j \in C : loaded[j].numElements = n /\ loaded[j].distinctVals \in Nat
    BY <1>a DEF StatsRecords
  <2>2. /\ new \in Nat /\ new <= old /\ s.distinctVals \in Nat
        /\ s.distinctVals <= cols[c].distinctVals
    BY <1>2, Zenon DEF AtMost, new, old
  <2>3. old \in Nat /\ old <= n
    BY <2>1, <1>b DEF old
  <2>4. CASE k = c
    <3>1. AtMost(s, loaded[c]) <=> /\ new \in Nat /\ new <= n
                                   /\ s.distinctVals \in Nat
                                   /\ s.distinctVals <= loaded[c].distinctVals
      BY <1>a, <1>b, Zenon DEF AtMost, new
    <3>2. s.distinctVals <= loaded[c].distinctVals
      BY <2>1, <2>2, <2>6, <1>b
    <3>. QED  BY <3>1, <3>2, <2>2, <2>3, <2>4, <1>5, <1>a, <1>b
  <2>5. CASE k # c
    <3>1. /\ g[k].numElements \in {0, new} /\ g[k].distinctVals <= cols[k].distinctVals
          /\ g[k].distinctVals \in Nat
      BY <2>5, <1>6 DEF Kept, StatsRecords
    <3>2. g[k].numElements \in Nat /\ g[k].numElements <= n
      BY <3>1, <2>2, <2>3, <1>a
    <3>3. g[k].distinctVals <= loaded[k].distinctVals
      BY <3>1, <2>1, <2>6
    <3>. QED  BY <3>1, <3>2, <3>3, <2>6, Zenon DEF AtMost
  <2>. QED  BY <2>4, <2>5
<1>10. ASSUME WithinAccuracy(cols, n, loaded),
              \A k \in C : cols[k].distinctVals <= cols[k].numElements,
              NEW row, row[c] \in Words, Holds(f, row[c]), RowExpected(cols, row)
       PROVE  RowExpected(g, row)
  <2>1. \A k \in C : Expects(cols[k], row[k])
    BY <1>8, <1>10, Zenon DEF RowExpected
  <2>2. Expects(s, row[c])
    BY <2>1, <1>2, <1>10, <1>b
  <2>3. new > 0
    BY <2>2, Zenon DEF Expects, new
  <2>5. \A k \in C : Countable(cols[k])
    BY <1>10, ColumnsCountable
  <2>6. \A k \in C : cols[k].numElements = old
    <3>1. OneCount(cols)
      BY <1>10, Zenon DEF WithinAccuracy
    <3>. QED  BY <3>1, <1>10, <1>a, <1>b, CountsAgree DEF old
  <2>4. \A k \in C : Expects(g[k], row[k])
    BY <2>1, <2>2, <2>3, <2>5, <2>6, <1>5, <1>6
  <2>. QED  BY <2>4, <1>8, Zenon DEF RowExpected
<1>11. AllAtMost(cols, loaded) => AllAtMost(g, loaded)
  BY <1>8, <1>9, Zenon DEF AllAtMost
<1>12. OneCount(g)
  <2>1. \A k \in C : g[k].numElements \in {0, new}
    BY <1>5, <1>6 DEF new
  <2>. QED  BY <2>1, <1>4, <1>8 DEF OneCount
<1>. QED  BY <1>7, <1>10, <1>11, <1>12

(* The range that two columns have in common.                              *)
LEMMA CommonRange ==
  ASSUME NEW s \in StatsRecords, NEW t \in StatsRecords
  PROVE  LET min == Max({s.minI, t.minI})
             max == Min({s.maxU, t.maxU})
         IN  /\ min \in Words /\ max \in Words
             /\ Plus(Minus(max, min), 1) \in Nat
             /\ \A v : v \in s.minI..s.maxU /\ v \in t.minI..t.maxU => v \in min..max
<1>. DEFINE min == Max({s.minI, t.minI})
            max == Min({s.maxU, t.maxU})
<1>1. /\ s.minI \in Words /\ s.maxU \in Words /\ t.minI \in Words /\ t.maxU \in Words
      /\ 1 \in Words
  BY Sizes DEF StatsRecords, Words
<1>2. \A w \in Words : w \in Nat /\ w \in Int
  BY Sizes DEF Words
<1>3. /\ min = IF s.minI >= t.minI THEN s.minI ELSE t.minI
      /\ max = IF s.maxU <= t.maxU THEN s.maxU ELSE t.maxU
  BY <1>1, <1>2, MinOfTwo, MaxOfTwo
<1>. HIDE DEF min, max
<1>4. min \in Words /\ max \in Words
  BY <1>1, <1>3
<1>5. Plus(Minus(max, min), 1) \in Nat
  BY <1>1, <1>2, <1>4, MinusOnce, PlusOnce
<1>6. \A v : v \in s.minI..s.maxU /\ v \in t.minI..t.maxU => v \in min..max
  BY <1>1, <1>2, <1>3, InBoth
<1>. QED  BY <1>4, <1>5, <1>6 DEF min, max

LEMMA QuotientBounds ==
  ASSUME NEW n \in Nat, NEW range \in Nat, NEW new \in Quotients(n, range)
  PROVE  /\ new \in Nat
         /\ range # 0 => new <= n /\ (n > 0 => new > 0)
         /\ n < WordRange => new < WordRange
<1>0. WordRange \in Nat \ {0}
  BY Sizes
<1>1. CASE range = 0
  <2>1. WordRange \div 2 \in Nat /\ WordRange \div 2 < WordRange
    BY <1>0
  <2>2. new = WordRange \div 2 \/ new = 0
    BY <1>1 DEF Quotients
  <2>. QED  BY <1>0, <1>1, <2>1, <2>2
<1>2. CASE range # 0 /\ n <= Accuracy
  <2>1. new = CeilDiv(n, range) /\ range \in Nat \ {0}
    BY <1>2 DEF Quotients
  <2>2. n * 1 <= n * range
    BY <2>1, TimesMonotone
  <2>3. n <= range * n
    BY <2>1, <2>2
  <2>4. new \in Nat /\ new <= n /\ (n > 0 => new > 0)
    BY <2>1, <2>3, CeilDivCovers, CeilDivLeast, CeilDivPositive
  <2>. QED  BY <1>0, <2>4
<1>3. CASE range # 0 /\ ~(n <= Accuracy)
  <2>1. new \in 0..n /\ CeilOf(new, n, range)
    BY <1>3 DEF Quotients
  <2>2. n > 0 => new > 0
    BY <2>1, CeilOfPositive
  <2>. QED  BY <1>0, <2>1, <2>2
<1>. QED  BY <1>1, <1>2, <1>3

(* The first column of a self join, whose range is set.                    *)
LEMMA FirstOfSelfJoin ==
  ASSUME NEW s \in Kept, NEW min \in Words, NEW max \in Words, NEW new \in Nat,
         NEW t \in SelfJoined([s EXCEPT !.minI = min, !.maxU = max], s.numElements, new)
  PROVE  /\ t \in Kept
         /\ t.numElements \in {0, new} /\ t.distinctVals <= s.distinctVals
         /\ \A v : v \in min..max /\ Expects(s, v) /\ new > 0 /\ Countable(s) => Expects(t, v)
<1>. DEFINE old == s.numElements
            r == [s EXCEPT !.minI = min, !.maxU = max]
<1>1. old \in Nat /\ s.distinctVals \in Nat
  BY DEF Kept, StatsRecords
<1>2. /\ r \in Kept /\ r.minI = min /\ r.maxU = max
      /\ r.distinctVals = s.distinctVals /\ r.numElements = old
  BY DEF Kept, StatsRecords
<1>3. t \in SelfJoined(r, old, new)
  OBVIOUS
<1>4. \A v : Expects(s, v) => old > 0 /\ s.distinctVals > 0
  BY DEF Expects
<1>. HIDE DEF r, old
<1>5. CASE old = 0 \/ r.distinctVals = 0
  <2>1. t = Zero(r)
    BY <1>3, <1>5 DEF SelfJoined
  <2>2. \A v : ~Expects(s, v)
    BY <1>1, <1>2, <1>4, <1>5
  <2>. QED  BY <2>1, <2>2, <1>1, <1>2, ZeroKept
<1>6. CASE ~(old = 0 \/ r.distinctVals = 0)
  <2>1. PICK d \in Distinct(r.distinctVals, old, new, old) :
          t = [r EXCEPT !.numElements = new, !.distinctVals = d]
    BY <1>3, <1>6, Zenon DEF SelfJoined
  <2>2. /\ d \in Nat /\ d <= r.distinctVals
        /\ (r.distinctVals > 0 /\ old > 0 /\ new > 0 /\ old <= Accuracy
             /\ r.distinctVals <= Accuracy) => d > 0
    BY <1>1, <1>2, DistinctBetween
  <2>3. /\ t \in Kept
        /\ t.minI = min /\ t.maxU = max /\ t.distinctVals = d /\ t.numElements = new
    BY <2>1, <2>2, <1>2 DEF Kept, StatsRecords
  <2>5. Countable(s) => old <= Accuracy /\ r.distinctVals <= Accuracy
    BY <1>2 DEF Countable, old
  <2>4. \A v : v \in min..max /\ Expects(s, v) /\ new > 0 /\ Countable(s) => Expects(t, v)
    BY <2>2, <2>3, <2>5, <1>2, <1>4 DEF Expects
  <2>. QED  BY <2>2, <2>3, <2>4, <1>2
<1>. QED  BY <1>5, <1>6

(* The second one keeps its distinct values.                               *)
LEMMA SecondOfSelfJoin ==
  ASSUME NEW s \in Kept, NEW min \in Words, NEW max \in Words, NEW new \in Nat, NEW t,
         t = [[s EXCEPT !.minI = min, !.maxU = max] EXCEPT !.numElements = new]
  PROVE  /\ t \in Kept
         /\ t.numElements = new /\ t.distinctVals = s.distinctVals
         /\ \A v : v \in min..max /\ Expects(s, v) /\ new > 0 => Expects(t, v)
<1>1. /\ t \in Kept /\ t.minI = min /\ t.maxU = max
      /\ t.numElements = new /\ t.distinctVals = s.distinctVals
  BY DEF Kept, StatsRecords
<1>2. \A v : v \in min..max /\ Expects(s, v) /\ new > 0 => Expects(t, v)
  BY <1>1 DEF Expects
<1>. QED  BY <1>1, <1>2

(* A self join of the columns c1 and c2, with new rows expected and the     *)
(* range min..max, makes g of the statistics cols.                          *)
MadeBySelfJoin(C, cols, n, loaded, c1, c2, min, max, new, s1, changed, g) ==
  /\ AreStatistics(C, cols, n, loaded)
  /\ c1 \in C /\ c2 \in C /\ c1 # c2
  /\ min \in Words /\ max \in Words /\ new \in Nat
  /\ s1 \in SelfJoined([cols[c1] EXCEPT !.minI = min, !.maxU = max], cols[c1].numElements, new)
  /\ DOMAIN changed = C /\ changed[c1] = s1
  /\ changed[c2] = [[cols[c2] EXCEPT !.minI = min, !.maxU = max] EXCEPT !.numElements = new]
  /\ \A k \in C \ {c1, c2} : changed[k] = cols[k]
  /\ g \in Spread(changed, {c1, c2}, s1.numElements, cols[c1].numElements)

(* What the division by a range that is not empty makes of a count.        *)
Shrinks(old, new) == new <= old /\ (old > 0 => new > 0)

LEMMA SelfJoinOfRelation ==
  ASSUME NEW C, NEW cols, NEW n, NEW loaded, NEW c1, NEW c2, NEW min, NEW max, NEW new,
         NEW s1, NEW changed, NEW g,
         MadeBySelfJoin(C, cols, n, loaded, c1, c2, min, max, new, s1, changed, g)
  PROVE  /\ g \in [C -> Kept]
         /\ new <= n /\ AllAtMost(cols, loaded) => AllAtMost(g, loaded)
         /\ Shrinks(cols[c1].numElements, new) /\ AllAtMost(cols, loaded) => AllAtMost(g, loaded)
         /\ OneCount(g)
         /\ Shrinks(cols[c1].numElements, new) /\ WithinAccuracy(cols, n, loaded) =>
              \A row : row[c1] = row[c2] /\ row[c1] \in min..max /\ RowExpected(cols, row)
                       => RowExpected(g, row)
<1>. DEFINE old == cols[c1].numElements
            m == s1.numElements
            s2 == changed[c2]
            ok == Shrinks(old, new)
<1>0. AreStatistics(C, cols, n, loaded)
  BY Zenon DEF MadeBySelfJoin
<1>a. /\ cols \in [C -> Kept] /\ n \in Nat
      /\ \A k \in C : loaded[k] \in StatsRecords /\ loaded[k].numElements = n
  BY <1>0 DEF AreStatistics
<1>b. /\ c1 \in C /\ c2 \in C /\ c1 # c2
      /\ min \in Words /\ max \in Words /\ new \in Nat
      /\ s1 \in SelfJoined([cols[c1] EXCEPT !.minI = min, !.maxU = max], old, new)
      /\ DOMAIN changed = C /\ changed[c1] = s1
      /\ \A k \in C \ {c1, c2} : changed[k] = cols[k]
      /\ g \in Spread(changed, {c1, c2}, m, old)
  BY Zenon DEF MadeBySelfJoin
<1>1. /\ cols[c1] \in Kept /\ cols[c2] \in Kept
      /\ old \in Nat /\ cols[c2].distinctVals \in Nat
  BY <1>a, <1>b DEF Kept, StatsRecords
<1>2. /\ s1 \in Kept
      /\ m \in {0, new} /\ s1.distinctVals <= cols[c1].distinctVals
      /\ \A v : v \in min..max /\ Expects(cols[c1], v) /\ new > 0 /\ Countable(cols[c1])
                => Expects(s1, v)
  BY <1>1, <1>b, FirstOfSelfJoin
<1>c. /\ s2 \in Kept
      /\ s2.numElements = new /\ s2.distinctVals = cols[c2].distinctVals
      /\ \A v : v \in min..max /\ Expects(cols[c2], v) /\ new > 0 => Expects(s2, v)
  <2>1. s2 = [[cols[c2] EXCEPT !.minI = min, !.maxU = max] EXCEPT !.numElements = new]
    BY Zenon DEF MadeBySelfJoin
  <2>. QED  BY <2>1, <1>1, <1>b, SecondOfSelfJoin
<1>3. m \in Nat
  BY <1>2, <1>b
<1>4. ok => new <= old /\ (old > 0 => new > 0)
  BY DEF Shrinks
<1>5. g \in Spread(changed, {c1, c2}, m, old)
  BY <1>b
<1>. HIDE DEF old, m, s2, ok
<1>6. /\ g = [k \in DOMAIN changed |-> g[k]]
      /\ \A k \in DOMAIN changed : IF k \in {c1, c2} THEN g[k] = changed[k]
                                   ELSE g[k] \in Others(changed[k], m, old)
  BY <1>5, SpreadOver, Zenon
<1>7. /\ g = [k \in C |-> g[k]]
      /\ g[c1] = s1 /\ g[c2] = s2
      /\ \A k \in C \ {c1, c2} : g[k] \in Others(cols[k], m, old)
  BY <1>6, <1>b DEF s2
<1>8. \A k \in C \ {c1, c2} :
        /\ g[k] \in Kept
        /\ g[k].numElements \in {0, m} /\ g[k].distinctVals <= cols[k].distinctVals
        /\ \A v : Expects(cols[k], v) /\ m > 0 /\ cols[k].numElements = old
                  /\ Countable(cols[k]) => Expects(g[k], v)
  <2>. TAKE k \in C \ {c1, c2}
  <2>1. cols[k] \in Kept /\ g[k] \in Others(cols[k], m, old)
    BY <1>7, <1>a
  <2>. QED  BY <2>1, <1>1, <1>3, OthersKeep
<1>9. g \in [C -> Kept]
  BY <1>2, <1>c, <1>7, <1>8
<1>10. DOMAIN g = C /\ DOMAIN cols = C
  BY <1>9, <1>a
<1>11. ASSUME new <= n, AllAtMost(cols, loaded), NEW k \in C
       PROVE  AtMost(g[k], loaded[k])
  <2>1. \A j \in C : /\ cols[j].numElements \in Nat /\ cols[j].numElements <= n
                     /\ cols[j].distinctVals \in Nat
                     /\ cols[j].distinctVals <= loaded[j].distinctVals
    BY <1>10, <1>11, <1>a, Zenon DEF AllAtMost, AtMost
  <2>2. loaded[k].numElements = n /\ loaded[k].distinctVals \in Nat
    BY <1>11, <1>a DEF StatsRecords
  <2>4. new <= n /\ m <= n
    BY <1>2, <1>3, <1>11, <1>a, <1>b
  <2>5. /\ g[k].numElements \in {0, new, m} /\ g[k].distinctVals <= cols[k].distinctVals
        /\ g[k].distinctVals \in Nat
    <3>1. CASE k = c1
      BY <3>1, <1>2, <1>7 DEF Kept, StatsRecords, m
    <3>2. CASE k = c2
      <4>1. g[k].numElements = new /\ g[k].distinctVals = cols[k].distinctVals
        BY <3>2, <1>7, <1>c, Zenon
      <4>. QED  BY <4>1, <2>1, <1>11
    <3>3. CASE k \notin {c1, c2}
      BY <3>3, <1>8 DEF Kept, StatsRecords
    <3>. QED  BY <3>1, <3>2, <3>3
  <2>6. g[k].numElements \in Nat /\ g[k].numElements <= n
    BY <2>4, <2>5, <1>3, <1>a, <1>b
  <2>7. g[k].distinctVals <= loaded[k].distinctVals
    BY <2>1, <2>2, <2>5, <1>11
  <2>. QED  BY <2>2, <2>5, <2>6, <2>7, Zenon DEF AtMost
<1>12. ASSUME ok, WithinAccuracy(cols, n, loaded), NEW row, row[c1] = row[c2], row[c1] \in min..max, RowExpected(cols, row)
       PROVE  RowExpected(g, row)
  <2>1. \A k \in C : Expects(cols[k], row[k])
    BY <1>10, <1>12, Zenon DEF RowExpected
  <2>2. old > 0
    BY <2>1, <1>b, Zenon DEF Expects, old
  <2>3. new > 0
    BY <2>2, <1>4, <1>12
  <2>8. \A k \in C : Countable(cols[k])
    BY <1>0, <1>12, ColumnsCountable
  <2>9. \A k \in C : cols[k].numElements = old
    <3>1. OneCount(cols)
      BY <1>12, Zenon DEF WithinAccuracy
    <3>. QED  BY <3>1, <1>12, <1>a, <1>b, CountsAgree DEF old
  <2>4. Expects(s1, row[c1])
    BY <2>1, <2>3, <2>8, <1>2, <1>12, <1>b, Zenon
  <2>5. Expects(s2, row[c2])
    BY <2>1, <2>3, <1>12, <1>b, <1>c, Zenon
  <2>6. m > 0
    BY <2>4, Zenon DEF Expects, m
  <2>7. \A k \in C : Expects(g[k], row[k])
    BY <2>1, <2>4, <2>5, <2>6, <2>8, <2>9, <1>b, <1>7, <1>8
  <2>. QED  BY <2>7, <1>10, Zenon DEF RowExpected
<1>13. new <= n /\ AllAtMost(cols, loaded) => AllAtMost(g, loaded)
  BY <1>10, <1>11, Zenon DEF AllAtMost
<1>14. ok /\ AllAtMost(cols, loaded) => new <= n
  <2>1. AllAtMost(cols, loaded) => old <= loaded[c1].numElements
    BY <1>10, <1>b, Zenon DEF AllAtMost, AtMost, old
  <2>. QED  BY <2>1, <1>1, <1>4, <1>a, <1>b
<1>15. OneCount(g)
  <2>1. \A k \in C : g[k].numElements \in {0, new}
    BY <1>2, <1>c, <1>7, <1>8 DEF m
  <2>. QED  BY <2>1, <1>b, <1>10 DEF OneCount
<1>. QED  BY <1>9, <1>12, <1>13, <1>14, <1>15 DEF ok, old

(* The counts of the columns are words, whatever loses its meaning.        *)
WordCounts(cols) == \A k \in DOMAIN cols : /\ cols[k].numElements < WordRange
                                           /\ cols[k].distinctVals < WordRange
Fullest(C) == [k \in C |-> [minI |-> 0, maxU |-> 0, numElements |-> WordRange - 1,
                            distinctVals |-> WordRange - 1, bits |-> {}, words |-> 0]]

LEMMA FullestIsAll ==
  ASSUME NEW C, NEW cols \in [C -> Kept]
  PROVE  /\ AreStatistics(C, cols, WordRange - 1, Fullest(C))
         /\ AllAtMost(cols, Fullest(C)) <=> WordCounts(cols)
<1>1. WordRange \in Nat \ {0} /\ WordRange - 1 \in Nat /\ 0 \in Words
  BY Sizes DEF Words
<1>2. \A k \in C : /\ Fullest(C)[k] \in StatsRecords
                   /\ Fullest(C)[k].numElements = WordRange - 1
                   /\ Fullest(C)[k].distinctVals = WordRange - 1
  BY <1>1 DEF Fullest, StatsRecords
<1>3. DOMAIN cols = C /\ \A k \in C : cols[k].numElements \in Nat /\ cols[k].distinctVals \in Nat
  BY DEF Kept, StatsRecords
<1>4. \A k \in C : AtMost(cols[k], Fullest(C)[k])
                   <=> cols[k].numElements < WordRange /\ cols[k].distinctVals < WordRange
  BY <1>1, <1>2, <1>3 DEF AtMost
<1>5. AllAtMost(cols, Fullest(C)) <=> WordCounts(cols)
  BY <1>3, <1>4, Zenon DEF AllAtMost, WordCounts
<1>6. AreStatistics(C, cols, WordRange - 1, Fullest(C))
  BY <1>1, <1>2 DEF AreStatistics
<1>. QED  BY <1>5, <1>6

LEMMA FilterKeepsWords ==
  ASSUME NEW C, NEW cols, NEW n, NEW loaded, AreStatistics(C, cols, n, loaded), WordCounts(cols),
         NEW c, NEW f, NEW s, NEW changed, NEW g, MadeByFilter(C, cols, c, f, s, changed, g)
  PROVE  WordCounts(g)
<1>1. cols \in [C -> Kept]
  BY Zenon DEF AreStatistics
<1>2. AreStatistics(C, cols, WordRange - 1, Fullest(C)) /\ AllAtMost(cols, Fullest(C))
  BY <1>1, FullestIsAll
<1>3. g \in [C -> Kept] /\ AllAtMost(g, Fullest(C))
  BY <1>2, FilterOfRelation, Zenon
<1>. QED  BY <1>3, FullestIsAll

LEMMA SelfJoinKeepsWords ==
  ASSUME NEW C, NEW cols, NEW n, NEW loaded, NEW c1, NEW c2, NEW min, NEW max, NEW new,
         NEW s1, NEW changed, NEW g, WordCounts(cols), new < WordRange,
         MadeBySelfJoin(C, cols, n, loaded, c1, c2, min, max, new, s1, changed, g)
  PROVE  WordCounts(g)
<1>1. cols \in [C -> Kept] /\ new \in Nat
  BY Zenon DEF MadeBySelfJoin, AreStatistics
<1>2. AreStatistics(C, cols, WordRange - 1, Fullest(C)) /\ AllAtMost(cols, Fullest(C))
  BY <1>1, FullestIsAll
<1>3. MadeBySelfJoin(C, cols, WordRange - 1, Fullest(C), c1, c2, min, max, new, s1, changed, g)
  BY <1>2, Zenon DEF MadeBySelfJoin
<1>4. new <= WordRange - 1
  BY <1>1, Sizes
<1>5. g \in [C -> Kept] /\ AllAtMost(g, Fullest(C))
  BY <1>2, <1>3, <1>4, SelfJoinOfRelation
<1>. QED  BY <1>5, FullestIsAll

-----------------------------------------------------------------------------
(* What a query starts with                                                *)

RowOf(file, row) == [c \in DOMAIN file |-> file[c][row]]

LEMMA LoadedExpectsItsRows ==
  ASSUME NEW d \in Databases, NEW r \in DOMAIN d
  PROVE  LET file == d[r]
             n == Len(file[1])
         IN  /\ StatsOf(file) \in [DOMAIN file -> Kept]
             /\ n \in Nat
             /\ \A c \in DOMAIN file : /\ StatsOf(file)[c].numElements = n
                                       /\ StatsOf(file)[c].distinctVals <= n
             /\ AllAtMost(StatsOf(file), StatsOf(file))
             /\ \A row \in DOMAIN file[1] :
                  /\ RowExpected(StatsOf(file), RowOf(file, row))
                  /\ \A c \in DOMAIN file : RowOf(file, row)[c] \in Words
<1>. DEFINE file == d[r]
            n == Len(file[1])
<1>1. d \in Seq(Files)
  BY DatabasesAssumption DEF Files, ColumnsOfWords, Words
<1>2. file \in Seq(ColumnsOfWords) /\ 1 \in DOMAIN file
  <2>1. file \in Files
    BY <1>1, ElementOfSeq, LenProperties
  <2>2. Len(file) \in Nat \ {0} /\ DOMAIN file = 1..Len(file)
    BY <2>1, LenProperties, EmptySeq DEF Files
  <2>. QED  BY <2>1, <2>2 DEF Files
<1>3. \A c \in DOMAIN file : Len(file[c]) = n
  BY DatabasesAssumption
<1>4. DOMAIN StatsOf(file) = DOMAIN file
      /\ \A c \in DOMAIN file : StatsOf(file)[c] = FillStatsArray(file[c])
  BY DEF StatsOf
<1>. HIDE DEF file, n
<1>5. ASSUME NEW c \in DOMAIN file
      PROVE  /\ file[c] \in ColumnsOfWords
             /\ Len(file[c]) \in Nat \ {0} /\ DOMAIN file[c] = 1..n
             /\ StatsOf(file)[c] \in Kept
             /\ StatsOf(file)[c].numElements = n
             /\ StatsOf(file)[c].distinctVals <= n
             /\ \A v \in Range(file[c]) : v \in Words /\ Expects(StatsOf(file)[c], v)
  <2>. DEFINE col == file[c]
              s == StatsOf(file)[c]
  <2>1. col \in ColumnsOfWords /\ Len(col) = n
    BY <1>2, <1>3, ElementOfSeq, LenProperties
  <2>2. s = FillStatsArray(col)
    BY <1>4
  <2>. HIDE DEF col, s
  <2>3. Len(col) \in Nat \ {0} /\ DOMAIN col = 1..Len(col)
    BY <2>1, LenProperties, EmptySeq DEF ColumnsOfWords
  <2>4. s.minI = MinOf(col) /\ s.maxU = MaxOf(col) /\ s.numElements = Len(col)
    BY <2>2 DEF FillStatsArray
  <2>5. s \in StatsRecords /\ 0 \in s.bits /\ s.distinctVals <= s.numElements
        /\ s.distinctVals > 0
    BY <2>1, <2>2, StatsAreRecords
  <2>6. ASSUME NEW v \in Range(col)
        PROVE  v \in Words /\ Expects(s, v)
    <3>1. /\ v \in Words /\ MinOf(col) \in Words /\ MaxOf(col) \in Words
          /\ MinOf(col) <= v /\ v <= MaxOf(col)
      BY <2>1, Extremes, ValuesOf
    <3>2. v \in s.minI..s.maxU
      BY <3>1, <2>4, Sizes DEF Words
    <3>. QED  BY <3>1, <3>2, <2>3, <2>4, <2>5 DEF Expects
  <2>. QED  BY <2>1, <2>3, <2>4, <2>5, <2>6 DEF Kept, col, s
<1>6. StatsOf(file) \in [DOMAIN file -> Kept]
  BY <1>4, <1>5 DEF StatsOf
<1>7. n \in Nat /\ DOMAIN file[1] = 1..n
  BY <1>2, <1>5 DEF n
<1>8. AllAtMost(StatsOf(file), StatsOf(file))
  BY <1>4, <1>5 DEF AllAtMost, AtMost, Kept, StatsRecords
<1>9. ASSUME NEW row \in DOMAIN file[1]
      PROVE  /\ RowExpected(StatsOf(file), RowOf(file, row))
             /\ \A c \in DOMAIN file : RowOf(file, row)[c] \in Words
  <2>1. ASSUME NEW c \in DOMAIN file
        PROVE  /\ RowOf(file, row)[c] \in Words
               /\ Expects(StatsOf(file)[c], RowOf(file, row)[c])
    <3>1. RowOf(file, row)[c] = file[c][row]
      BY DEF RowOf
    <3>2. row \in DOMAIN file[c]
      BY <1>5, <1>7
    <3>3. file[c][row] \in Range(file[c])
      BY <3>2, Zenon DEF Range
    <3>. QED  BY <3>1, <3>3, <1>5
  <2>. QED  BY <2>1, <1>4, Zenon DEF RowExpected
<1>. QED  BY <1>5, <1>6, <1>7, <1>8, <1>9 DEF file, n

-----------------------------------------------------------------------------
(* The invariant                                                           *)

Executing == pc \in {"filters", "joins", "free"}

(* The query that main is at is one of the batch, and it is read after all *)
(* relations are loaded.                                                   *)
Progress ==
  /\ LoadedInOrder
  /\ queries \in Batches
  /\ at \in Nat \ {0}
  /\ pc \in {"scan", "construct"} \/ Executing => Len(relArray) = Len(db)
  /\ pc = "construct" => at <= Len(queries)

(* What is executed is about columns that have statistics.                 *)
QueryIsSound ==
  /\ RefersTo(query, db)
  /\ \A n \in DOMAIN query.filters : query.filters[n].op \in {"<", ">", "="}
  /\ next \in Nat \ {0}
StatsShape ==
  /\ stats = [i \in DOMAIN query.rels |-> stats[i]]
  /\ \A i \in DOMAIN query.rels : stats[i] \in [DOMAIN File(query.rels[i]) -> Kept]

(* The statistics of relation i of the query.                              *)
Estimated(i) ==
  /\ WordCounts(stats[i]) /\ OneCount(stats[i])
  /\ "cast" \notin flaws => AllAtMost(stats[i], relArray[query.rels[i] + 1])
  /\ flaws = {} =>
       /\ \A row \in RowsLeft(i) : RowExpected(stats[i], RowOf(File(query.rels[i]), row))
       /\ pc = "filters" => \A c \in DOMAIN stats[i] :
                              stats[i][c].distinctVals <= stats[i][c].numElements

EstimatesInv ==
  /\ Progress
  /\ Executing => QueryIsSound /\ StatsShape /\ \A i \in DOMAIN query.rels : Estimated(i)

(* A row that is left by some steps of a query is left by fewer.           *)
FilterSteps == Executed("filters", query.filters)
JoinSteps == IF pc = "filters" THEN {} ELSE Executed("joins", query.joins)
LeftBy(file, filters, joins, i) ==
  {row \in DOMAIN file[1] :
     /\ \A f \in filters : f.participant.rel + 1 = i => Holds(f, file[f.participant.numCol + 1][row])
     /\ \A j \in joins : IsSelfJoin(j) /\ j.participant1.rel + 1 = i =>
          file[j.participant1.numCol + 1][row] = file[j.participant2.numCol + 1][row]}

LEMMA RowsLeftBy ==
  ASSUME NEW i
  PROVE  RowsLeft(i) = LeftBy(File(query.rels[i]), FilterSteps, JoinSteps, i)
<1>. DEFINE F1 == {f \in FilterSteps : f.participant.rel + 1 = i}
            J1 == {j \in JoinSteps : IsSelfJoin(j) /\ j.participant1.rel + 1 = i}
            file == File(query.rels[i])
<1>1. RowsLeft(i) = {row \in DOMAIN file[1] :
         /\ \A f \in F1 : Holds(f, file[f.participant.numCol + 1][row])
         /\ \A j \in J1 : file[j.participant1.numCol + 1][row]
                          = file[j.participant2.numCol + 1][row]}
  BY Zenon DEF RowsLeft, FilterSteps, JoinSteps
<1>. HIDE DEF file
<1>2. ASSUME NEW row
      PROVE  row \in RowsLeft(i) <=> row \in LeftBy(file, FilterSteps, JoinSteps, i)
  <2>1. row \in RowsLeft(i) <=>
          /\ row \in DOMAIN file[1]
          /\ \A f \in F1 : Holds(f, file[f.participant.numCol + 1][row])
          /\ \A j \in J1 : file[j.participant1.numCol + 1][row]
                           = file[j.participant2.numCol + 1][row]
    BY <1>1, Zenon
  <2>. QED  BY <2>1, Zenon DEF LeftBy
<1>. QED  BY <1>2 DEF file

LEMMA RowsLeftByNext ==
  ASSUME NEW i
  PROVE  RowsLeft(i)' = LeftBy(File(query.rels[i])', FilterSteps', JoinSteps', i)
<1>. DEFINE F1 == {f \in FilterSteps' : f.participant.rel + 1 = i}
            J1 == {j \in JoinSteps' : IsSelfJoin(j) /\ j.participant1.rel + 1 = i}
            file == File(query.rels[i])'
<1>1. RowsLeft(i)' = {row \in DOMAIN file[1] :
         /\ \A f \in F1 : Holds(f, file[f.participant.numCol + 1][row])
         /\ \A j \in J1 : file[j.participant1.numCol + 1][row]
                          = file[j.participant2.numCol + 1][row]}
  BY Zenon DEF RowsLeft, FilterSteps, JoinSteps
<1>. HIDE DEF file
<1>2. ASSUME NEW row
      PROVE  row \in RowsLeft(i)' <=> row \in LeftBy(file, FilterSteps', JoinSteps', i)
  <2>1. row \in RowsLeft(i)' <=>
          /\ row \in DOMAIN file[1]
          /\ \A f \in F1 : Holds(f, file[f.participant.numCol + 1][row])
          /\ \A j \in J1 : file[j.participant1.numCol + 1][row]
                           = file[j.participant2.numCol + 1][row]
    BY <1>1, Zenon
  <2>. QED  BY <2>1, Zenon DEF LeftBy
<1>. QED  BY <1>2 DEF file

LEMMA LeftByMore ==
  ASSUME NEW file, NEW i, NEW filters, NEW joins, NEW more, NEW others,
         filters \subseteq more, joins \subseteq others
  PROVE  LeftBy(file, more, others, i) \subseteq LeftBy(file, filters, joins, i)
<1>1. ASSUME NEW row \in LeftBy(file, more, others, i)
      PROVE  row \in LeftBy(file, filters, joins, i)
  BY <1>1, Zenon DEF LeftBy
<1>. QED  BY <1>1

(* The steps of a query that are executed become more.                     *)
GoesOn == /\ query' = query
          /\ \/ pc' = pc /\ next' = next + 1
             \/ pc = "filters" /\ pc' = "joins"
             \/ pc = "joins" /\ pc' = "free"

LEMMA StepsGrow ==
  ASSUME QueryIsSound, pc \in {"filters", "joins"}, GoesOn
  PROVE  /\ FilterSteps \subseteq FilterSteps' /\ JoinSteps \subseteq JoinSteps'
         /\ pc = "filters" /\ pc' = pc /\ next <= Len(query.filters) =>
              query.filters[next] \in FilterSteps'
         /\ pc = "joins" /\ pc' = pc /\ next <= Len(query.joins) =>
              query.joins[next] \in JoinSteps'
<1>. DEFINE F == query.filters
            J == query.joins
<1>1. /\ Len(F) \in Nat /\ DOMAIN F = 1..Len(F)
      /\ Len(J) \in Nat /\ DOMAIN J = 1..Len(J)
  <2>1. F \in Seq(Range(F)) /\ J \in Seq(Range(J))
    <3>1. \A S, T : S \subseteq T => Seq(S) \subseteq Seq(T)
      OBVIOUS
    <3>2. \E S \in SUBSET Range(F) : F \in Seq(S)
      BY DEF QueryIsSound, RefersTo
    <3>3. \E S \in SUBSET Range(J) : J \in Seq(S)
      BY DEF QueryIsSound, RefersTo
    <3>. QED  BY <3>1, <3>2, <3>3
  <2>. QED  BY <2>1, LenProperties
<1>2. next \in Nat \ {0}
  BY DEF QueryIsSound
<1>3. query' = query /\ \/ pc' = pc /\ next' = next + 1
                        \/ pc = "filters" /\ pc' = "joins"
                        \/ pc = "joins" /\ pc' = "free"
  BY Zenon DEF GoesOn
<1>. DEFINE I == IF pc = "filters" THEN 1..Min({next - 1, Len(F)}) ELSE DOMAIN F
            K == IF pc = "joins" THEN 1..Min({next - 1, Len(J)}) ELSE DOMAIN J
<1>4. /\ FilterSteps = {F[n] : n \in I}
      /\ FilterSteps' = {F[n] : n \in I'}
      /\ JoinSteps = IF pc = "filters" THEN {} ELSE {J[n] : n \in K}
      /\ JoinSteps' = IF pc' = "filters" THEN {} ELSE {J[n] : n \in K'}
  BY <1>3, Zenon DEF FilterSteps, JoinSteps, Executed
<1>5. /\ I' = IF pc' = "filters" THEN 1..Min({next' - 1, Len(F)}) ELSE DOMAIN F
      /\ K' = IF pc' = "joins" THEN 1..Min({next' - 1, Len(J)}) ELSE DOMAIN J
  BY <1>3, Zenon
<1>. HIDE DEF F, J
<1>6. \A len \in Nat : Min({next - 1, len}) = IF next - 1 <= len THEN next - 1 ELSE len
  BY <1>2, MinOfTwo
<1>7. \A len \in Nat : next' = next + 1 =>
        Min({next' - 1, len}) = IF next <= len THEN next ELSE len
  <2>1. next' = next + 1 => next' - 1 = next
    BY <1>2
  <2>. QED  BY <2>1, <1>2, MinOfTwo
<1>8. \A len \in Nat : /\ 1..Min({next - 1, len}) \subseteq 1..len
                       /\ next' = next + 1 =>
                            /\ 1..Min({next - 1, len}) \subseteq 1..Min({next' - 1, len})
                            /\ next <= len => next \in 1..Min({next' - 1, len})
  BY <1>2, <1>6, <1>7
<1>9. /\ I \subseteq I'
      /\ pc = "filters" /\ pc' = pc /\ next <= Len(F) => next \in I'
  BY <1>1, <1>3, <1>5, <1>8
<1>10. /\ pc # "filters" => K \subseteq K'
       /\ pc = "joins" /\ pc' = pc /\ next <= Len(J) => next \in K'
  BY <1>1, <1>3, <1>5, <1>8
<1>11. pc # "filters" => pc' # "filters"
  BY <1>3
<1>. HIDE DEF I, K
<1>. QED  BY <1>4, <1>9, <1>10, <1>11 DEF F, J

(* A relation of the query that a step leaves alone.                       *)
LEMMA EstimatedStays ==
  ASSUME NEW i, Estimated(i), query' = query, db' = db, relArray' = relArray,
         stats'[i] = stats[i], flaws \subseteq flaws', pc' = "filters" => pc = "filters",
         FilterSteps \subseteq FilterSteps', JoinSteps \subseteq JoinSteps'
  PROVE  Estimated(i)'
<1>1. File(query.rels[i])' = File(query.rels[i])
  BY Zenon DEF File
<1>2. RowsLeft(i)' \subseteq RowsLeft(i)
  BY <1>1, RowsLeftBy, RowsLeftByNext, LeftByMore, Zenon
<1>3. flaws' = {} => flaws = {}
  OBVIOUS
<1>4. "cast" \notin flaws' => "cast" \notin flaws
  OBVIOUS
<1>5. Estimated(i)' <=>
        /\ WordCounts(stats[i]) /\ OneCount(stats[i])
        /\ "cast" \notin flaws' => AllAtMost(stats[i], relArray[query.rels[i] + 1])
        /\ flaws' = {} =>
             /\ \A row \in RowsLeft(i)' : RowExpected(stats[i], RowOf(File(query.rels[i]), row))
             /\ pc' = "filters" => \A c \in DOMAIN stats[i] :
                                     stats[i][c].distinctVals <= stats[i][c].numElements
  BY <1>1, Zenon DEF Estimated
<1>. QED  BY <1>2, <1>3, <1>4, <1>5, Zenon DEF Estimated

(* The relation that relation i of a query stands for.                     *)
LEMMA RelationOf ==
  ASSUME LoadedInOrder, Len(relArray) = Len(db),
         NEW q, RefersTo(q, db), NEW i \in DOMAIN q.rels
  PROVE  /\ db \in Databases /\ q.rels[i] + 1 \in DOMAIN db
         /\ File(q.rels[i]) = db[q.rels[i] + 1]
         /\ relArray[q.rels[i] + 1] = StatsOf(db[q.rels[i] + 1])
<1>1. db \in Databases
  BY DEF LoadedInOrder
<1>2. db \in Seq(Files)
  BY <1>1, DatabasesAssumption DEF Files, ColumnsOfWords, Words
<1>3. Len(db) \in Nat /\ DOMAIN db = 1..Len(db)
  BY <1>2, LenProperties
<1>4. q.rels \in Seq(0..Len(db)-1)
  BY DEF RefersTo
<1>5. q.rels[i] \in 0..Len(db)-1
  BY <1>4, ElementOfSeq, LenProperties
<1>6. q.rels[i] + 1 \in 1..Len(db)
  BY <1>3, <1>5
<1>7. relArray[q.rels[i] + 1] = StatsOf(db[q.rels[i] + 1])
  BY <1>6, Zenon DEF LoadedInOrder
<1>. QED  BY <1>1, <1>3, <1>6, <1>7, Zenon DEF File

(* Steps on the statistics leave the relations and the query as they are.  *)
LEMMA SoundStays ==
  ASSUME EstimatesInv, Executing, GoesOn, next' \in Nat \ {0},
         db' = db /\ queries' = queries /\ relArray' = relArray /\ at' = at
  PROVE  Progress' /\ Executing' /\ QueryIsSound' /\ GoesOn
<1>1. Progress /\ QueryIsSound
  BY Zenon DEF EstimatesInv
<1>2. LoadedInOrder'
  BY <1>1, Zenon DEF Progress, LoadedInOrder
<1>3. Executing'
  BY DEF GoesOn, Executing
<1>4. Len(relArray) = Len(db) /\ queries \in Batches /\ at \in Nat \ {0}
  BY <1>1, Zenon DEF Progress
<1>5. pc' # "construct"
  BY <1>3 DEF Executing
<1>6. Progress'
  BY <1>2, <1>4, <1>5, Zenon DEF Progress
<1>7. query' = query
  BY DEF GoesOn
<1>8. QueryIsSound'
  BY <1>1, <1>7, Zenon DEF QueryIsSound
<1>. QED  BY <1>3, <1>6, <1>8

(* The rows of a relation are counted in a word and in a double.           *)
LEMMA RowsAreCounted ==
  ASSUME NEW d \in Databases, NEW r \in DOMAIN d
  PROVE  Len(d[r][1]) \in Nat /\ Len(d[r][1]) < WordRange /\ Len(d[r][1]) <= Accuracy
<1>1. d \in Seq(Files)
  BY DatabasesAssumption DEF Files, ColumnsOfWords, Words
<1>2. d[r] \in Seq(ColumnsOfWords) /\ d[r] # <<>>
  BY <1>1, ElementOfSeq, LenProperties DEF Files
<1>3. 1 \in DOMAIN d[r]
  BY <1>2
<1>4. d[r][1] \in Seq(Words)
  BY <1>2, <1>3, ElementOfSeq, LenProperties DEF ColumnsOfWords
<1>5. Len(d[r][1]) < WordRange /\ Len(d[r][1]) <= Accuracy
  BY <1>3, DatabasesAssumption
<1>. QED  BY <1>4, <1>5

LEMMA FilterStep ==
  ASSUME EstimatesInv, ExecuteFilter
  PROVE  EstimatesInv'
<1>a. PICK f : f = query.filters[next]
  OBVIOUS
<1>b. PICK i : i = f.participant.rel + 1
  OBVIOUS
<1>c. PICK c : c = f.participant.numCol + 1
  OBVIOUS
<1>d. PICK cols : cols = stats[i]
  OBVIOUS
<1>e. PICK file : file = db[query.rels[i] + 1]
  OBVIOUS
<1>f. PICK loaded : loaded = StatsOf(file)
  OBVIOUS
<1>1. /\ pc = "filters" /\ pc' = pc /\ next <= Len(query.filters) /\ next' = next + 1
      /\ query' = query /\ db' = db /\ queries' = queries /\ relArray' = relArray /\ at' = at
  BY Zenon DEF ExecuteFilter
<1>2. Executing /\ GoesOn
  BY <1>1 DEF Executing, GoesOn
<1>3. Progress /\ QueryIsSound /\ StatsShape /\ \A j \in DOMAIN query.rels : Estimated(j)
  BY <1>2, Zenon DEF EstimatesInv
<1>4. next \in Nat \ {0}
  BY <1>3 DEF QueryIsSound
<1>5. next' \in Nat \ {0}
  BY <1>1, <1>4
<1>6. Progress' /\ Executing' /\ QueryIsSound'
  BY <1>1, <1>2, <1>5, SoundStays, Zenon
<1>7. /\ i \in DOMAIN query.rels /\ c \in DOMAIN file
      /\ f.value \in Words /\ f.op \in {"<", ">", "="}
  <2>. DEFINE G == {e \in Range(query.filters) :
                      /\ e.participant.rel + 1 \in DOMAIN query.rels /\ e.participant.numCol \in Nat
                      /\ e.participant.numCol + 1 \in DOMAIN db[query.rels[e.participant.rel + 1] + 1]
                      /\ e.value \in AtoiResults}
  <2>1. query.filters \in Seq(G)
    BY <1>3, Zenon DEF QueryIsSound, RefersTo
  <2>. HIDE DEF G
  <2>2. next \in 1..Len(query.filters) /\ next \in DOMAIN query.filters
    BY <2>1, <1>1, <1>4, LenProperties
  <2>3. f \in G
    BY <2>1, <2>2, <1>a, ElementOfSeq
  <2>4. f.value \in AtoiResults
    BY <2>3, Zenon DEF G
  <2>5. query.filters[next].op \in {"<", ">", "="}
    BY <2>2, <1>3, Zenon DEF QueryIsSound
  <2>. QED  BY <2>3, <2>4, <2>5, <1>a, <1>b, <1>c, <1>e, AtoiGivesWords, Zenon DEF G
<1>8. PICK s \in Filtered(cols[c], f.op, f.value) :
        \E columns \in Spread([cols EXCEPT ![c] = s], {c}, s.numElements, cols[c].numElements) :
          /\ stats' = [stats EXCEPT ![i] = columns]
          /\ flaws' = flaws \cup (IF Overestimates(columns) THEN {"distinct"} ELSE {})
  BY <1>a, <1>b, <1>c, <1>d, Zenon DEF ExecuteFilter
<1>9. PICK g \in Spread([cols EXCEPT ![c] = s], {c}, s.numElements, cols[c].numElements) :
          /\ stats' = [stats EXCEPT ![i] = g]
          /\ flaws' = flaws \cup (IF Overestimates(g) THEN {"distinct"} ELSE {})
  BY <1>8, Zenon
<1>10. f \in FilterSteps' /\ FilterSteps \subseteq FilterSteps' /\ JoinSteps \subseteq JoinSteps'
  BY <1>a, <1>1, <1>2, <1>3, StepsGrow
<1>11. /\ db \in Databases /\ query.rels[i] + 1 \in DOMAIN db
       /\ File(query.rels[i]) = file
       /\ relArray[query.rels[i] + 1] = loaded
  <2>1. LoadedInOrder /\ Len(relArray) = Len(db) /\ RefersTo(query, db)
    BY <1>2, <1>3, Zenon DEF Progress, QueryIsSound
  <2>. QED  BY <2>1, <1>7, <1>e, <1>f, RelationOf
<1>12. /\ loaded \in [DOMAIN file -> Kept]
       /\ Len(file[1]) \in Nat /\ Len(file[1]) <= Accuracy
       /\ \A k \in DOMAIN file :
            /\ loaded[k] \in StatsRecords
            /\ loaded[k].numElements = Len(file[1]) /\ loaded[k].distinctVals <= Len(file[1])
       /\ \A row \in DOMAIN file[1] : \A k \in DOMAIN file : RowOf(file, row)[k] \in Words
  <2>1. /\ loaded \in [DOMAIN file -> Kept]
        /\ Len(file[1]) \in Nat
        /\ \A k \in DOMAIN file : /\ loaded[k].numElements = Len(file[1])
                                  /\ loaded[k].distinctVals <= Len(file[1])
        /\ \A row \in DOMAIN file[1] : \A k \in DOMAIN file : RowOf(file, row)[k] \in Words
    BY <1>11, <1>e, <1>f, LoadedExpectsItsRows
  <2>2. Len(file[1]) <= Accuracy
    BY <1>11, <1>e, <1>f, RowsAreCounted
  <2>. QED  BY <2>1, <2>2 DEF Kept
<1>13. cols \in [DOMAIN file -> Kept]
  BY <1>3, <1>7, <1>11, <1>d DEF StatsShape
<1>14. /\ g \in [DOMAIN file -> Kept]
       /\ WordCounts(g)
       /\ AllAtMost(cols, loaded) => AllAtMost(g, loaded)
       /\ OneCount(g)
       /\ (AllAtMost(cols, loaded)
           /\ \A k \in DOMAIN file : cols[k].distinctVals <= cols[k].numElements) =>
            \A row : row[c] \in Words /\ Holds(f, row[c]) /\ RowExpected(cols, row)
                     => RowExpected(g, row)
  <2>. DEFINE C == DOMAIN file
              changed == [cols EXCEPT ![c] = s]
  <2>1. AreStatistics(C, cols, Len(file[1]), loaded)
    BY <1>12, <1>13, Zenon DEF AreStatistics
  <2>2. /\ DOMAIN changed = C /\ changed[c] = s
        /\ \A k \in C \ {c} : changed[k] = cols[k]
    BY <1>7, <1>13
  <2>3. g \in Spread(changed, {c}, s.numElements, cols[c].numElements)
    OBVIOUS
  <2>. HIDE DEF C, changed
  <2>4. MadeByFilter(C, cols, c, f, s, changed, g)
    BY <2>2, <2>3, <1>7, Zenon DEF MadeByFilter, C
  <2>5. /\ g \in [C -> Kept]
        /\ AllAtMost(cols, loaded) => AllAtMost(g, loaded)
        /\ OneCount(g)
        /\ WithinAccuracy(cols, Len(file[1]), loaded)
           /\ (\A k \in C : cols[k].distinctVals <= cols[k].numElements) =>
             \A row : row[c] \in Words /\ Holds(f, row[c]) /\ RowExpected(cols, row)
                      => RowExpected(g, row)
    BY <2>1, <2>4, FilterOfRelation, Zenon
  <2>6. WordCounts(cols) /\ OneCount(cols)
    BY <1>3, <1>7, <1>d, Zenon DEF Estimated
  <2>8. AllAtMost(cols, loaded) => WithinAccuracy(cols, Len(file[1]), loaded)
    BY <2>6, <1>12, Zenon DEF WithinAccuracy
  <2>7. WordCounts(g)
    BY <2>1, <2>4, <2>6, FilterKeepsWords, Zenon
  <2>. QED  BY <2>5, <2>7, <2>8 DEF C
<1>15. stats' = [j \in DOMAIN query.rels |-> IF j = i THEN g ELSE stats[j]]
  BY <1>3, <1>9 DEF StatsShape
<1>16. StatsShape'
  <2>1. \A j \in DOMAIN query.rels : File(query.rels[j])' = File(query.rels[j])
    BY <1>1, Zenon DEF File
  <2>2. \A j \in DOMAIN query.rels : stats'[j] \in [DOMAIN File(query.rels[j]) -> Kept]
    BY <1>3, <1>11, <1>14, <1>15 DEF StatsShape
  <2>. QED  BY <2>1, <2>2, <1>1, <1>15 DEF StatsShape
<1>17. Estimated(i)'
  <2>1. /\ "cast" \notin flaws => AllAtMost(cols, loaded)
        /\ flaws = {} =>
             /\ \A row \in RowsLeft(i) : RowExpected(cols, RowOf(file, row))
             /\ \A k \in DOMAIN cols : cols[k].distinctVals <= cols[k].numElements
    BY <1>1, <1>3, <1>7, <1>11, <1>d, Zenon DEF Estimated
  <2>2. "cast" \notin flaws' => AllAtMost(g, loaded)
    BY <2>1, <1>9, <1>14
  <2>3. File(query.rels[i])' = file /\ stats'[i] = g
    BY <1>1, <1>7, <1>11, <1>15 DEF File
  <2>4. ASSUME flaws' = {}
        PROVE  /\ \A row \in RowsLeft(i)' : RowExpected(g, RowOf(file, row))
               /\ \A k \in DOMAIN g : g[k].distinctVals <= g[k].numElements
    <3>1. flaws = {} /\ ~Overestimates(g)
      BY <2>4, <1>9
    <3>2. \A k \in DOMAIN g : g[k].distinctVals <= g[k].numElements
      BY <3>1, <1>14 DEF Overestimates, Kept, StatsRecords
    <3>3. ASSUME NEW row \in RowsLeft(i)'
          PROVE  RowExpected(g, RowOf(file, row))
      <4>1. row \in LeftBy(file, FilterSteps', JoinSteps', i)
        BY <3>3, <2>3, RowsLeftByNext, Zenon
      <4>2. row \in RowsLeft(i)
        BY <4>1, <1>10, <1>11, RowsLeftBy, LeftByMore, Zenon
      <4>3. row \in DOMAIN file[1] /\ Holds(f, file[c][row])
        BY <4>1, <1>10, <1>b, <1>c, Zenon DEF LeftBy
      <4>4. RowOf(file, row)[c] = file[c][row] /\ RowOf(file, row)[c] \in Words
        BY <4>3, <1>7, <1>12 DEF RowOf
      <4>5. RowExpected(cols, RowOf(file, row))
        BY <4>2, <3>1, <2>1
      <4>6. \A k \in DOMAIN file : cols[k].distinctVals <= cols[k].numElements
        BY <3>1, <2>1, <1>13
      <4>7. AllAtMost(cols, loaded)
        BY <3>1, <2>1
      <4>. QED  BY <4>3, <4>4, <4>5, <4>6, <4>7, <1>14
    <3>. QED  BY <3>2, <3>3
  <2>5. WordCounts(g) /\ OneCount(g)
    BY <1>14
  <2>. QED  BY <2>2, <2>3, <2>4, <2>5, <1>1, <1>11, Zenon DEF Estimated
<1>18. \A j \in DOMAIN query.rels : Estimated(j)'
  <2>. TAKE j \in DOMAIN query.rels
  <2>1. CASE j = i
    BY <2>1, <1>17
  <2>2. CASE j # i
    <3>1. stats'[j] = stats[j] /\ flaws \subseteq flaws'
      BY <2>2, <1>9, <1>15
    <3>. QED  BY <3>1, <1>1, <1>3, <1>10, EstimatedStays, Zenon
  <2>. QED  BY <2>1, <2>2
<1>. QED  BY <1>1, <1>6, <1>16, <1>18, Zenon DEF EstimatesInv

LEMMA SelfJoinStep ==
  ASSUME EstimatesInv, ExecuteSelfJoin
  PROVE  EstimatesInv'
<1>a. PICK j : j = query.joins[next]
  OBVIOUS
<1>. DEFINE Effect(join) ==
              LET i == join.participant1.rel + 1
                  c1 == join.participant1.numCol + 1
                  c2 == join.participant2.numCol + 1
                  min == Max({stats[i][c1].minI, stats[i][c2].minI})
                  max == Min({stats[i][c1].maxU, stats[i][c2].maxU})
                  range == Plus(Minus(max, min), 1)
                  n == stats[i][c1].numElements
                  Ranged(s) == [s EXCEPT !.minI = min, !.maxU = max]
              IN  \E new \in Quotients(n, range) :
                  \E s1 \in SelfJoined(Ranged(stats[i][c1]), n, new) :
                  \E columns \in Spread([stats[i] EXCEPT ![c1] = s1,
                                           ![c2] = [Ranged(@) EXCEPT !.numElements = new]],
                                        {c1, c2}, s1.numElements, n) :
                    /\ stats' = [stats EXCEPT ![i] = columns]
                    /\ flaws' = flaws \cup (IF range = 0 THEN {"cast"} ELSE {})
<1>b. Effect(j)
  <2>1. Effect(query.joins[next])
    BY Zenon DEF ExecuteSelfJoin
  <2>. HIDE DEF Effect
  <2>. QED  BY <2>1, <1>a
<1>. DEFINE i == j.participant1.rel + 1
            c1 == j.participant1.numCol + 1
            c2 == j.participant2.numCol + 1
            cols == stats[i]
            min == Max({cols[c1].minI, cols[c2].minI})
            max == Min({cols[c1].maxU, cols[c2].maxU})
            range == Plus(Minus(max, min), 1)
            n == cols[c1].numElements
            Ranged(s) == [s EXCEPT !.minI = min, !.maxU = max]
            Changed(s1, new) == [cols EXCEPT ![c1] = s1,
                                             ![c2] = [Ranged(@) EXCEPT !.numElements = new]]
<1>j. PICK new \in Quotients(n, range) :
        \E s1 \in SelfJoined(Ranged(cols[c1]), n, new) :
        \E g \in Spread(Changed(s1, new), {c1, c2}, s1.numElements, n) :
          /\ stats' = [stats EXCEPT ![i] = g]
          /\ flaws' = flaws \cup (IF range = 0 THEN {"cast"} ELSE {})
  BY <1>b, Zenon
<1>. DEFINE changed(s1) == Changed(s1, new)
<1>c. PICK s1 \in SelfJoined(Ranged(cols[c1]), n, new) :
        \E g \in Spread(changed(s1), {c1, c2}, s1.numElements, n) :
          /\ stats' = [stats EXCEPT ![i] = g]
          /\ flaws' = flaws \cup (IF range = 0 THEN {"cast"} ELSE {})
  BY <1>j, Zenon
<1>d. PICK g \in Spread(changed(s1), {c1, c2}, s1.numElements, n) :
          /\ stats' = [stats EXCEPT ![i] = g]
          /\ flaws' = flaws \cup (IF range = 0 THEN {"cast"} ELSE {})
  BY <1>c, Zenon
<1>. HIDE DEF Effect, changed, Changed
<1>e. /\ s1 \in SelfJoined([cols[c1] EXCEPT !.minI = min, !.maxU = max], cols[c1].numElements, new)
      /\ g \in Spread(changed(s1), {c1, c2}, s1.numElements, cols[c1].numElements)
  BY <1>c, <1>d, Zenon
<1>f. /\ range = Plus(Minus(max, min), 1) /\ n = cols[c1].numElements /\ new \in Quotients(n, range)
      /\ min = Max({cols[c1].minI, cols[c2].minI}) /\ max = Min({cols[c1].maxU, cols[c2].maxU})
      /\ c1 = j.participant1.numCol + 1 /\ c2 = j.participant2.numCol + 1
      /\ i = j.participant1.rel + 1
  BY <1>j
<1>g. cols = stats[i]
  OBVIOUS
<1>. HIDE DEF Ranged, range, n, min, max, cols, c1, c2, i
<1>h. PICK file : file = db[query.rels[i] + 1]
  OBVIOUS
<1>i. PICK loaded : loaded = StatsOf(file)
  OBVIOUS
<1>1. /\ pc = "joins" /\ pc' = pc /\ next <= Len(query.joins) /\ next' = next + 1
      /\ IsSelfJoin(j)
      /\ query' = query /\ db' = db /\ queries' = queries /\ relArray' = relArray /\ at' = at
  BY <1>a, Zenon DEF ExecuteSelfJoin
<1>2. Executing /\ GoesOn
  BY <1>1 DEF Executing, GoesOn
<1>3. Progress /\ QueryIsSound /\ StatsShape /\ \A k \in DOMAIN query.rels : Estimated(k)
  BY <1>2, Zenon DEF EstimatesInv
<1>4. next \in Nat \ {0}
  BY <1>3 DEF QueryIsSound
<1>5. next' \in Nat \ {0}
  BY <1>1, <1>4
<1>6. Progress' /\ Executing' /\ QueryIsSound'
  BY <1>1, <1>2, <1>5, SoundStays, Zenon
<1>7. i \in DOMAIN query.rels /\ c1 \in DOMAIN file /\ c2 \in DOMAIN file /\ c1 # c2
  <2>. DEFINE IsColumn(p) == /\ p.rel + 1 \in DOMAIN query.rels /\ p.numCol \in Nat
                             /\ p.numCol + 1 \in DOMAIN db[query.rels[p.rel + 1] + 1]
              G == {e \in Range(query.joins) : /\ IsColumn(e.participant1)
                                               /\ IsColumn(e.participant2)}
  <2>1. query.joins \in Seq(G)
    BY <1>3, Zenon DEF QueryIsSound, RefersTo
  <2>. HIDE DEF G
  <2>2. next \in DOMAIN query.joins
    BY <2>1, <1>1, <1>4, LenProperties
  <2>3. j \in G
    BY <2>1, <2>2, <1>a, ElementOfSeq
  <2>. DEFINE G1 == j.participant1
              G2 == j.participant2
  <2>4. IsColumn(G1) /\ IsColumn(G2)
    BY <2>3, Zenon DEF G
  <2>5. i = G1.rel + 1 /\ i = G2.rel + 1 /\ G1.numCol # G2.numCol
    BY <1>1, <1>f, Zenon DEF IsSelfJoin
  <2>6. /\ i \in DOMAIN query.rels /\ c1 \in DOMAIN file /\ c2 \in DOMAIN file
        /\ G1.numCol \in Nat /\ G2.numCol \in Nat
    BY <2>4, <2>5, <1>f, <1>h, Zenon
  <2>7. c1 # c2
    <3>. HIDE DEF G1, G2
    <3>1. c1 = G1.numCol + 1 /\ c2 = G2.numCol + 1
      BY <1>f DEF G1, G2
    <3>. QED  BY <3>1, <2>5, <2>6
  <2>. QED  BY <2>6, <2>7
<1>. DEFINE C == DOMAIN file
<1>8. j \in JoinSteps' /\ FilterSteps \subseteq FilterSteps' /\ JoinSteps \subseteq JoinSteps'
  BY <1>a, <1>1, <1>2, <1>3, StepsGrow
<1>9. /\ db \in Databases /\ query.rels[i] + 1 \in DOMAIN db
       /\ File(query.rels[i]) = file
       /\ relArray[query.rels[i] + 1] = loaded
  <2>1. LoadedInOrder /\ Len(relArray) = Len(db) /\ RefersTo(query, db)
    BY <1>2, <1>3, Zenon DEF Progress, QueryIsSound
  <2>. QED  BY <2>1, <1>7, <1>h, <1>i, RelationOf
<1>10. /\ loaded \in [DOMAIN file -> Kept]
       /\ Len(file[1]) \in Nat /\ Len(file[1]) <= Accuracy
       /\ \A k \in DOMAIN file :
            /\ loaded[k] \in StatsRecords
            /\ loaded[k].numElements = Len(file[1]) /\ loaded[k].distinctVals <= Len(file[1])
       /\ \A row \in DOMAIN file[1] : \A k \in DOMAIN file : RowOf(file, row)[k] \in Words
  <2>1. /\ loaded \in [DOMAIN file -> Kept]
        /\ Len(file[1]) \in Nat
        /\ \A k \in DOMAIN file : /\ loaded[k].numElements = Len(file[1])
                                  /\ loaded[k].distinctVals <= Len(file[1])
        /\ \A row \in DOMAIN file[1] : \A k \in DOMAIN file : RowOf(file, row)[k] \in Words
    BY <1>9, <1>h, <1>i, LoadedExpectsItsRows
  <2>2. Len(file[1]) <= Accuracy
    BY <1>9, <1>h, <1>i, RowsAreCounted
  <2>. QED  BY <2>1, <2>2 DEF Kept
<1>11. cols \in [DOMAIN file -> Kept]
  BY <1>3, <1>7, <1>9, <1>g DEF StatsShape
<1>12. /\ min \in Words /\ max \in Words /\ range \in Nat /\ n \in Nat /\ new \in Nat
       /\ range # 0 => Shrinks(n, new)
       /\ n < WordRange => new < WordRange
       /\ \A v : v \in cols[c1].minI..cols[c1].maxU /\ v \in cols[c2].minI..cols[c2].maxU
                => v \in min..max
  <2>1. cols[c1] \in StatsRecords /\ cols[c2] \in StatsRecords /\ n \in Nat
    BY <1>7, <1>11, <1>f DEF Kept, StatsRecords
  <2>2. /\ min \in Words /\ max \in Words /\ range \in Nat
        /\ \A v : v \in cols[c1].minI..cols[c1].maxU /\ v \in cols[c2].minI..cols[c2].maxU
                 => v \in min..max
    BY <2>1, <1>f, CommonRange
  <2>3. new \in Nat /\ (range # 0 => new <= n /\ (n > 0 => new > 0))
        /\ (n < WordRange => new < WordRange)
    <3>1. n \in Nat /\ range \in Nat /\ new \in Quotients(n, range)
      BY <2>1, <2>2, <1>f
    <3>. QED  BY <3>1, QuotientBounds, Zenon
  <2>. QED  BY <2>1, <2>2, <2>3 DEF Shrinks
<1>13. /\ g \in [C -> Kept]
       /\ WordCounts(g)
       /\ Shrinks(n, new) /\ AllAtMost(cols, loaded) => AllAtMost(g, loaded)
       /\ OneCount(g)
       /\ Shrinks(n, new) /\ AllAtMost(cols, loaded) =>
            \A row : row[c1] = row[c2] /\ row[c1] \in min..max /\ RowExpected(cols, row)
                     => RowExpected(g, row)
  <2>1. AreStatistics(C, cols, Len(file[1]), loaded)
    BY <1>10, <1>11, Zenon DEF AreStatistics
  <2>2. /\ DOMAIN changed(s1) = C /\ changed(s1)[c1] = s1
        /\ changed(s1)[c2] = [[cols[c2] EXCEPT !.minI = min, !.maxU = max] EXCEPT !.numElements = new]
        /\ \A k \in C \ {c1, c2} : changed(s1)[k] = cols[k]
    BY <1>7, <1>11 DEF changed, Changed, Ranged
  <2>. HIDE DEF C
  <2>3. MadeBySelfJoin(C, cols, Len(file[1]), loaded, c1, c2, min, max, new, s1, changed(s1), g)
    BY <2>1, <2>2, <1>7, <1>d, <1>e, <1>12, <1>f, Zenon DEF MadeBySelfJoin, C
  <2>4. /\ g \in [C -> Kept]
        /\ Shrinks(cols[c1].numElements, new) /\ AllAtMost(cols, loaded) => AllAtMost(g, loaded)
        /\ OneCount(g)
        /\ Shrinks(cols[c1].numElements, new) /\ WithinAccuracy(cols, Len(file[1]), loaded) =>
             \A row : row[c1] = row[c2] /\ row[c1] \in min..max /\ RowExpected(cols, row)
                      => RowExpected(g, row)
    BY <2>3, SelfJoinOfRelation
  <2>5. n = cols[c1].numElements
    BY <1>f
  <2>6. WordCounts(cols) /\ OneCount(cols)
    BY <1>3, <1>7, <1>g, Zenon DEF Estimated
  <2>10. AllAtMost(cols, loaded) => WithinAccuracy(cols, Len(file[1]), loaded)
    BY <2>6, <1>10, Zenon DEF WithinAccuracy
  <2>7. n < WordRange
    BY <2>5, <2>6, <1>7, <1>11 DEF WordCounts
  <2>8. new < WordRange
    BY <2>7, <1>12
  <2>9. WordCounts(g)
    BY <2>3, <2>6, <2>8, SelfJoinKeepsWords, Zenon
  <2>. QED  BY <2>4, <2>5, <2>9, <2>10
<1>14. stats' = [k \in DOMAIN query.rels |-> IF k = i THEN g ELSE stats[k]]
  BY <1>3, <1>d, <1>7, <1>g DEF StatsShape
<1>15. StatsShape'
  <2>1. \A k \in DOMAIN query.rels : File(query.rels[k])' = File(query.rels[k])
    BY <1>1, Zenon DEF File
  <2>2. \A k \in DOMAIN query.rels : stats'[k] \in [DOMAIN File(query.rels[k]) -> Kept]
    BY <1>3, <1>9, <1>13, <1>14 DEF StatsShape
  <2>. QED  BY <2>1, <2>2, <1>1, <1>14 DEF StatsShape
<1>16. /\ "cast" \notin flaws' => Shrinks(n, new) /\ "cast" \notin flaws
       /\ flaws' = {} => Shrinks(n, new) /\ flaws = {}
  BY <1>d, <1>12
<1>17. Estimated(i)'
  <2>1. /\ "cast" \notin flaws => AllAtMost(cols, loaded)
        /\ flaws = {} => \A row \in RowsLeft(i) : RowExpected(cols, RowOf(file, row))
    BY <1>3, <1>7, <1>9, <1>g, Zenon DEF Estimated
  <2>2. "cast" \notin flaws' => AllAtMost(g, loaded)
    BY <2>1, <1>13, <1>16
  <2>3. File(query.rels[i])' = file /\ stats'[i] = g
    BY <1>1, <1>7, <1>9, <1>14 DEF File
  <2>4. ASSUME flaws' = {}, NEW row \in RowsLeft(i)'
        PROVE  RowExpected(g, RowOf(file, row))
    <3>1. row \in LeftBy(file, FilterSteps', JoinSteps', i)
      BY <2>4, <2>3, RowsLeftByNext, Zenon
    <3>2. row \in RowsLeft(i)
      BY <3>1, <1>8, <1>9, RowsLeftBy, LeftByMore, Zenon
    <3>3. file[c1][row] = file[c2][row]
      BY <3>1, <1>1, <1>8, <1>f, Zenon DEF LeftBy
    <3>. DEFINE r == RowOf(file, row)
    <3>4. r[c1] = r[c2]
      BY <3>3, <1>7 DEF RowOf
    <3>5. RowExpected(cols, r)
      BY <3>2, <2>1, <2>4, <1>16
    <3>. HIDE DEF r
    <3>6. r[c1] \in min..max
      <4>1. Expects(cols[c1], r[c1]) /\ Expects(cols[c2], r[c2])
        BY <3>5, <1>7, <1>11 DEF RowExpected
      <4>. QED  BY <4>1, <3>4, <1>12, Zenon DEF Expects
    <3>8. AllAtMost(cols, loaded)
      BY <2>1, <2>4, <1>16
    <3>7. RowExpected(g, r)
      BY <3>4, <3>5, <3>6, <3>8, <2>4, <1>13, <1>16, Zenon
    <3>. QED  BY <3>7 DEF r
  <2>5. WordCounts(g) /\ OneCount(g)
    BY <1>13
  <2>. QED  BY <2>2, <2>3, <2>4, <2>5, <1>1, <1>9, Zenon DEF Estimated
<1>18. \A k \in DOMAIN query.rels : Estimated(k)'
  <2>. TAKE k \in DOMAIN query.rels
  <2>1. CASE k = i
    BY <2>1, <1>17
  <2>2. CASE k # i
    <3>1. stats'[k] = stats[k] /\ flaws \subseteq flaws'
      BY <2>2, <1>d, <1>14
    <3>. QED  BY <3>1, <1>1, <1>3, <1>8, EstimatedStays, Zenon
  <2>. QED  BY <2>1, <2>2
<1>. QED  BY <1>1, <1>6, <1>15, <1>18, Zenon DEF EstimatesInv

(* The steps that leave the statistics alone.                              *)
LEMMA StatsStay ==
  ASSUME EstimatesInv, pc \in {"filters", "joins"}, GoesOn, next' \in Nat \ {0},
         db' = db /\ queries' = queries /\ relArray' = relArray /\ at' = at,
         stats' = stats /\ flaws' = flaws
  PROVE  EstimatesInv'
<1>1. Executing
  BY DEF Executing
<1>2. QueryIsSound /\ StatsShape /\ \A i \in DOMAIN query.rels : Estimated(i)
  BY <1>1, Zenon DEF EstimatesInv
<1>3. Progress' /\ Executing' /\ QueryIsSound'
  BY <1>1, SoundStays, Zenon
<1>4. FilterSteps \subseteq FilterSteps' /\ JoinSteps \subseteq JoinSteps'
  BY <1>2, StepsGrow
<1>5. query' = query /\ (pc' = "filters" => pc = "filters")
  BY DEF GoesOn
<1>6. StatsShape'
  <2>1. \A i \in DOMAIN query.rels : File(query.rels[i])' = File(query.rels[i])
    BY <1>5, Zenon DEF File
  <2>. QED  BY <2>1, <1>2, <1>5, Zenon DEF StatsShape
<1>7. ASSUME NEW i \in DOMAIN query.rels
      PROVE  Estimated(i)'
  <2>1. Estimated(i)
    BY <1>2
  <2>2. stats'[i] = stats[i] /\ flaws \subseteq flaws'
    OBVIOUS
  <2>. QED  BY <2>1, <2>2, <1>4, <1>5, EstimatedStays, Zenon
<1>. QED  BY <1>3, <1>5, <1>6, <1>7, Zenon DEF EstimatesInv

(* What is constructed refers to the database, whatever is counted.        *)
LEMMA Constructed ==
  ASSUME NEW d \in Databases, NEW b \in Batches, NEW k \in DOMAIN b, NEW counts, NEW q,
         q = ConstructQuery(Text(b[k]), counts, Rows(d)), ~q.null
  PROVE  /\ RefersTo(q, d)
         /\ \A n \in DOMAIN q.filters : q.filters[n].op \in {"<", ">", "="}
<1>. DEFINE q0 == ConstructQuery(Text(b[k]), NoCounts, Rows(d))
<1>a. PICK names, predicates, sums :
        \A c : ConstructQuery(Text(b[k]), c, Rows(d)) = QueryOf(names, predicates, sums, c, Rows(d))
  BY Zenon DEF ConstructQuery
<1>0. q = QueryOf(names, predicates, sums, counts, Rows(d))
      /\ q0 = QueryOf(names, predicates, sums, NoCounts, Rows(d))
  BY <1>a
<1>2. q0.null \/ RefersTo(q0, d)
  BY Zenon, BatchesAssumption
<1>. HIDE DEF q0
<1>1. q.null = q0.null /\ q.rels = q0.rels /\ q.filters = q0.filters /\ q.joins = q0.joins
  <2>1. \E null, rels, filters, joins, summed : \A c :
           QueryOf(names, predicates, sums, c, Rows(d))
           = [null |-> null, counts |-> c, rels |-> rels, filters |-> filters, joins |-> joins,
              sums |-> summed]
    BY Zenon DEF QueryOf
  <2>2. PICK null, rels, filters, joins, summed : \A c :
           QueryOf(names, predicates, sums, c, Rows(d))
           = [null |-> null, counts |-> c, rels |-> rels, filters |-> filters, joins |-> joins,
              sums |-> summed]
    BY <2>1
  <2>. QED  BY <1>0, <2>2
<1>3. \A n \in DOMAIN q.filters : q.filters[n].op \in {"<", ">", "="}
  BY <1>0 DEF QueryOf, fillFilterInfo, Operation
<1>. QED  BY <1>1, <1>2, <1>3, Zenon DEF RefersTo

LEMMA ConstructStep ==
  ASSUME EstimatesInv, Construct
  PROVE  EstimatesInv'
<1>a. PICK new : new = ConstructQuery(Text(queries[at]), counters, Rows(db))
  OBVIOUS
<1>1. /\ pc = "construct" /\ query' = new
      /\ stats' = [i \in DOMAIN new.rels |-> relArray[new.rels[i] + 1]]
      /\ pc' = (IF new.null THEN "undefined" ELSE "filters")
      /\ next' = 1
      /\ db' = db /\ queries' = queries /\ relArray' = relArray /\ at' = at
  BY <1>a, Zenon DEF Construct
<1>2. Progress
  BY Zenon DEF EstimatesInv
<1>3. /\ LoadedInOrder /\ queries \in Batches /\ at \in Nat \ {0} /\ at <= Len(queries)
      /\ Len(relArray) = Len(db)
  BY <1>1, <1>2, Zenon DEF Progress
<1>4. Progress'
  <2>1. LoadedInOrder'
    BY <1>1, <1>3, Zenon DEF LoadedInOrder
  <2>2. pc' # "construct"
    BY <1>1
  <2>. QED  BY <2>1, <2>2, <1>1, <1>3, Zenon DEF Progress
<1>5. CASE new.null
  <2>1. ~Executing'
    BY <1>1, <1>5 DEF Executing
  <2>. QED  BY <2>1, <1>4, Zenon DEF EstimatesInv
<1>6. CASE ~new.null
  <2>1. RefersTo(new, db) /\ \A n \in DOMAIN new.filters : new.filters[n].op \in {"<", ">", "="}
    <3>1. db \in Databases
      BY <1>3, Zenon DEF LoadedInOrder
    <3>2. queries \in Seq(WrittenQueries)
      BY <1>3, BatchesAssumption
    <3>3. at \in DOMAIN queries
      BY <1>3, <3>2, LenProperties
    <3>. QED  BY <3>1, <3>3, <1>3, <1>6, <1>a, Constructed, Zenon
  <2>2. next' \in Nat \ {0}
    BY <1>1
  <2>3. QueryIsSound'
    BY <2>1, <2>2, <1>1, Zenon DEF QueryIsSound
  <2>4. ASSUME NEW i \in DOMAIN new.rels
        PROVE  /\ stats'[i] \in [DOMAIN File(query.rels[i])' -> Kept]
               /\ Estimated(i)'
    <3>. DEFINE r == new.rels[i] + 1
    <3>1. /\ db \in Databases /\ r \in DOMAIN db
          /\ File(new.rels[i]) = db[r] /\ relArray[r] = StatsOf(db[r])
      BY <1>3, <2>1, <2>4, RelationOf, Zenon
    <3>2. File(query.rels[i])' = db[r] /\ stats'[i] = StatsOf(db[r])
          /\ relArray[query.rels[i] + 1]' = StatsOf(db[r])
      BY <3>1, <1>1, <2>4 DEF File
    <3>. DEFINE file == db[r]
                loaded == StatsOf(file)
    <3>3. /\ loaded \in [DOMAIN file -> Kept]
          /\ \A c \in DOMAIN file : loaded[c].distinctVals <= loaded[c].numElements
          /\ AllAtMost(loaded, loaded)
          /\ WordCounts(loaded) /\ OneCount(loaded)
          /\ \A row \in DOMAIN file[1] : RowExpected(loaded, RowOf(file, row))
      <4>. HIDE DEF r
      <4>1. /\ loaded \in [DOMAIN file -> Kept]
            /\ AllAtMost(loaded, loaded)
            /\ \A c \in DOMAIN file : /\ loaded[c].numElements = Len(file[1])
                                       /\ loaded[c].distinctVals <= Len(file[1])
            /\ \A row \in DOMAIN file[1] : RowExpected(loaded, RowOf(file, row))
        BY <3>1, LoadedExpectsItsRows
      <4>2. Len(file[1]) \in Nat /\ Len(file[1]) < WordRange
        BY <3>1, RowsAreCounted
      <4>. HIDE DEF loaded, file
      <4>3. \A c \in DOMAIN file : loaded[c].distinctVals \in Nat
        BY <4>1 DEF Kept, StatsRecords
      <4>4. DOMAIN loaded = DOMAIN file
        BY <4>1
      <4>5. WordCounts(loaded)
        BY <4>1, <4>2, <4>3, <4>4, Sizes DEF WordCounts
      <4>6. OneCount(loaded)
        BY <4>1, <4>2, <4>4 DEF OneCount
      <4>. QED  BY <4>1, <4>5, <4>6
    <3>4. \A row \in RowsLeft(i)' : row \in DOMAIN file[1]
      BY <3>2, RowsLeftByNext, Zenon DEF LeftBy
    <3>. HIDE DEF r, file, loaded
    <3>5. File(query.rels[i])' = file /\ stats'[i] = loaded
          /\ relArray[query.rels[i] + 1]' = loaded
      BY <3>2 DEF file, loaded
    <3>6. DOMAIN loaded = DOMAIN file
      BY <3>3
    <3>7. Estimated(i)'
      BY <3>3, <3>4, <3>5, <3>6, Zenon DEF Estimated
    <3>. QED  BY <3>3, <3>5, <3>7
  <2>5. StatsShape'
    <3>1. stats' = [i \in DOMAIN query'.rels |-> stats'[i]]
      BY <1>1
    <3>. QED  BY <3>1, <1>1, <2>4, Zenon DEF StatsShape
  <2>. QED  BY <1>1, <1>4, <2>3, <2>4, <2>5, Zenon DEF EstimatesInv
<1>. QED  BY <1>5, <1>6

(* The steps before, between and after the queries.                        *)
LEMMA OtherSteps ==
  ASSUME EstimatesInv,
         FillRel \/ FillRelFails \/ Loaded \/ Scan \/ EndOfBatch \/ FreeQuery
  PROVE  EstimatesInv'
<1>1. Progress
  BY Zenon DEF EstimatesInv
<1>2. /\ LoadedInOrder /\ queries \in Batches /\ at \in Nat \ {0}
      /\ pc \in {"scan", "construct"} \/ Executing => Len(relArray) = Len(db)
  BY <1>1, Zenon DEF Progress
<1>3. queries' = queries /\ db' = db
  BY Zenon DEF FillRel, FillRelFails, Loaded, Scan, EndOfBatch, FreeQuery
<1>4. LoadedInOrder'
  <2>1. CASE FillRel
    BY <2>1, <1>2, LoadedStep
  <2>2. CASE ~FillRel
    <3>1. relArray' = relArray
      BY <2>2, Zenon DEF FillRelFails, Loaded, Scan, EndOfBatch, FreeQuery
    <3>. QED  BY <3>1, <1>2, <1>3, Zenon DEF LoadedInOrder
  <2>. QED  BY <2>1, <2>2
<1>5. at' \in Nat \ {0}
  <2>1. at' = at \/ at' = at + 1
    BY Zenon DEF FillRel, FillRelFails, Loaded, Scan, EndOfBatch, FreeQuery
  <2>. QED  BY <2>1, <1>2
<1>6. pc' \in {"scan", "construct"} => Len(relArray)' = Len(db)'
  BY <1>2 DEF FillRel, FillRelFails, Loaded, Scan, EndOfBatch, FreeQuery, Executing
<1>7. pc' = "construct" => at' <= Len(queries)'
  BY DEF FillRel, FillRelFails, Loaded, Scan, EndOfBatch, FreeQuery
<1>8. ~Executing'
  BY DEF FillRel, FillRelFails, Loaded, Scan, EndOfBatch, FreeQuery, Executing
<1>9. Progress'
  BY <1>2, <1>3, <1>4, <1>5, <1>6, <1>7, <1>8, Zenon DEF Progress
<1>. QED  BY <1>8, <1>9, Zenon DEF EstimatesInv

LEMMA NothingHappens ==
  ASSUME EstimatesInv, UNCHANGED vars
  PROVE  EstimatesInv'
<1>1. /\ db' = db /\ queries' = queries /\ pc' = pc /\ relArray' = relArray /\ at' = at
      /\ query' = query /\ stats' = stats /\ next' = next /\ flaws' = flaws
  BY DEF vars
<1>2. Progress /\ (Executing => QueryIsSound /\ StatsShape
                               /\ \A i \in DOMAIN query.rels : Estimated(i))
  BY Zenon DEF EstimatesInv
<1>3. LoadedInOrder'
  BY <1>1, <1>2, Zenon DEF Progress, LoadedInOrder
<1>4. Executing' = Executing
  BY <1>1, Zenon DEF Executing
<1>5. Progress'
  BY <1>1, <1>2, <1>3, <1>4, Zenon DEF Progress
<1>6. QueryIsSound' = QueryIsSound
  BY <1>1, Zenon DEF QueryIsSound
<1>7. \A i : File(query.rels[i])' = File(query.rels[i])
  BY <1>1, Zenon DEF File
<1>8. StatsShape => StatsShape'
  BY <1>1, <1>7, Zenon DEF StatsShape
<1>9. FilterSteps' = FilterSteps /\ JoinSteps' = JoinSteps
  BY <1>1, Zenon DEF FilterSteps, JoinSteps, Executed
<1>10. ASSUME NEW i \in DOMAIN query.rels, Estimated(i)
       PROVE  Estimated(i)'
  BY <1>1, <1>9, <1>10, EstimatedStays, Zenon
<1>. QED  BY <1>1, <1>2, <1>4, <1>5, <1>6, <1>8, <1>10, Zenon DEF EstimatesInv

(* The statistics of a query, after every filter and self join, still      *)
(* describe the rows that these leave: the invariant that EstimatesSound   *)
(* needs.                                                                  *)
THEOREM EstimatesInvariant == Spec => []EstimatesInv
<1>1. Init => EstimatesInv
  <2>. SUFFICES ASSUME Init PROVE EstimatesInv
    OBVIOUS
  <2>1. /\ db \in Databases /\ queries \in Batches
        /\ pc = "load" /\ relArray = <<>> /\ at = 1
    BY Zenon DEF Init
  <2>2. Len(db) \in Nat
    BY <2>1, DatabasesAssumption, LenProperties
  <2>3. LoadedInOrder
    BY <2>1, <2>2 DEF LoadedInOrder
  <2>. QED  BY <2>1, <2>3 DEF EstimatesInv, Progress, Executing
<1>2. EstimatesInv /\ [Next]_vars => EstimatesInv'
  <2>. SUFFICES ASSUME EstimatesInv, [Next]_vars PROVE EstimatesInv'
    OBVIOUS
  <2>1. CASE FillRel \/ FillRelFails \/ Loaded \/ Scan \/ EndOfBatch \/ FreeQuery
    BY <2>1, OtherSteps
  <2>2. CASE Construct
    BY <2>2, ConstructStep
  <2>3. CASE ExecuteFilter
    BY <2>3, FilterStep
  <2>4. CASE ExecuteSelfJoin
    BY <2>4, SelfJoinStep
  <2>5. CASE EndFilters \/ SkipJoin \/ EndJoins
    <3>1. /\ pc \in {"filters", "joins"} /\ stats' = stats /\ flaws' = flaws
          /\ db' = db /\ queries' = queries /\ relArray' = relArray /\ at' = at
      BY <2>5 DEF EndFilters, SkipJoin, EndJoins
    <3>2. GoesOn
      BY <2>5 DEF EndFilters, SkipJoin, EndJoins, GoesOn
    <3>3. next \in Nat
      BY <3>1 DEF EstimatesInv, Executing, QueryIsSound
    <3>4. next' \in Nat \ {0}
      BY <2>5, <3>3 DEF EndFilters, SkipJoin, EndJoins
    <3>. QED  BY <3>1, <3>2, <3>4, StatsStay
  <2>6. CASE UNCHANGED vars
    BY <2>6, NothingHappens
  <2>. QED  BY <2>1, <2>2, <2>3, <2>4, <2>5, <2>6, Zenon DEF Next, Stopped
<1>. QED  BY <1>1, <1>2, PTL DEF Spec

(* The statistics of a query promise no less than there is - every value   *)
(* of a row that is left lies in the range of its column, and no column    *)
(* with such a row is believed empty - and no more than was loaded, until  *)
(* a rounded ceiling makes distinct values outnumber the rows, or a self   *)
(* join divides by an empty range; for all databases and queries.          *)
THEOREM EstimatesCorrect == Spec => []EstimatesSound
<1>1. EstimatesInv => EstimatesSound
  <2>. SUFFICES ASSUME EstimatesInv, pc \in {"filters", "joins", "free"},
                       NEW i \in DOMAIN stats, NEW c \in DOMAIN stats[i]
                PROVE  LET s == stats[i][c]
                           loaded == relArray[query.rels[i] + 1][c]
                       IN  /\ flaws = {} => \A row \in RowsLeft(i) :
                                /\ File(query.rels[i])[c][row] \in s.minI..s.maxU
                                /\ s.numElements > 0 /\ s.distinctVals > 0
                           /\ "cast" \notin flaws => /\ s.numElements <= loaded.numElements
                                                    /\ s.distinctVals <= loaded.distinctVals
    BY Zenon DEF EstimatesSound
  <2>1. StatsShape /\ \A k \in DOMAIN query.rels : Estimated(k)
    BY Zenon DEF EstimatesInv, Executing
  <2>2. i \in DOMAIN query.rels /\ c \in DOMAIN File(query.rels[i])
    BY <2>1 DEF StatsShape
  <2>3. Estimated(i)
    BY <2>1, <2>2
  <2>4. "cast" \notin flaws => AtMost(stats[i][c], relArray[query.rels[i] + 1][c])
    BY <2>3, Zenon DEF Estimated, AllAtMost
  <2>5. ASSUME flaws = {}, NEW row \in RowsLeft(i)
        PROVE  Expects(stats[i][c], File(query.rels[i])[c][row])
    <3>1. RowExpected(stats[i], RowOf(File(query.rels[i]), row))
      BY <2>3, <2>5, Zenon DEF Estimated
    <3>2. RowOf(File(query.rels[i]), row)[c] = File(query.rels[i])[c][row]
      BY <2>2, Zenon DEF RowOf
    <3>. QED  BY <3>1, <3>2, Zenon DEF RowExpected
  <2>. QED  BY <2>4, <2>5, Zenon DEF Expects, AtMost
<1>. QED  BY <1>1, EstimatesInvariant, PTL

-----------------------------------------------------------------------------
(* What is read is what is written                                         *)

(* What the first scan counts in a query of the batch, and what the second *)
(* makes of it.                                                            *)
Counts(q) == Counted(Text(q), NoCounts)
Made == ConstructQuery(Text(queries[at]), counters, Rows(db))
BetweenQueries == pc \in {"load", "scan", "end", "unloaded"}

(* Between queries the counters are fresh; after the scan they are those   *)
(* of the query that main is at, and newQuery is made with them.           *)
ParsedInv ==
  /\ queries \in Batches
  /\ at \in Nat \ {0} /\ at <= Len(queries) + 1
  /\ pc \in {"load", "scan", "construct", "filters", "joins", "free", "end", "undefined",
             "unloaded"}
  /\ BetweenQueries => counters = NoCounts
  /\ ~BetweenQueries => at <= Len(queries) /\ counters = Counts(queries[at])
  /\ pc \in {"filters", "undefined"} => query = Made
  /\ pc = "undefined" => query.null

LEMMA BatchOfQueries ==
  ASSUME NEW b \in Batches
  PROVE  b \in Seq(WrittenQueries) /\ Len(b) \in Nat /\ DOMAIN b = 1..Len(b)
<1>1. b \in Seq(WrittenQueries)
  BY BatchesAssumption
<1>. QED  BY <1>1, LenProperties

(* A line of the batch is never of the wrong format, so the counters that  *)
(* the scan leaves are used.                                               *)
LEMMA ScanStep ==
  ASSUME ParsedInv, Scan
  PROVE  ParsedInv'
<1>1. /\ pc = "scan" /\ at <= Len(queries)
      /\ counters' = Counted(Text(queries[at]), counters)
      /\ pc' = IF WrongFormat(Text(queries[at])) THEN "wrong" ELSE "construct"
      /\ db' = db /\ queries' = queries /\ at' = at /\ query' = query
  BY Zenon DEF Scan
<1>2. /\ queries \in Batches /\ at \in Nat \ {0} /\ at <= Len(queries) + 1
      /\ BetweenQueries => counters = NoCounts
  BY Zenon DEF ParsedInv
<1>3. BetweenQueries
  BY <1>1, Zenon DEF BetweenQueries
<1>4. queries[at] \in WrittenQueries
  <2>1. at \in DOMAIN queries
    BY <1>1, <1>2, BatchOfQueries
  <2>. QED  BY <1>2, <2>1, BatchOfQueries, ElementOfSeq
<1>5. pc' = "construct"
  <2>1. ~WrongFormat(Text(queries[at]))
    BY <1>4, FormatAndEnds
  <2>. QED  BY <1>1, <2>1, Zenon
<1>6. counters' = Counts(queries[at])
  BY <1>1, <1>2, <1>3, Zenon DEF Counts
<1>7. ~BetweenQueries'
  BY <1>5 DEF BetweenQueries
<1>. QED  BY <1>1, <1>2, <1>5, <1>6, <1>7 DEF ParsedInv

LEMMA ReadStep ==
  ASSUME ParsedInv, Construct
  PROVE  ParsedInv'
<1>1. /\ pc = "construct" /\ query' = Made
      /\ pc' = IF Made.null THEN "undefined" ELSE "filters"
      /\ db' = db /\ queries' = queries /\ at' = at /\ counters' = counters
  BY Zenon DEF Construct, Made
<1>2. Made' = Made
  BY <1>1, Zenon DEF Made
<1>3. ~BetweenQueries /\ ~BetweenQueries'
  BY <1>1 DEF BetweenQueries
<1>. QED  BY <1>1, <1>2, <1>3 DEF ParsedInv

LEMMA FreeStep ==
  ASSUME ParsedInv, FreeQuery
  PROVE  ParsedInv'
<1>1. /\ pc = "free" /\ pc' = "scan" /\ at' = at + 1 /\ counters' = NoCounts
      /\ queries' = queries
  BY Zenon DEF FreeQuery
<1>2. ~BetweenQueries /\ BetweenQueries'
  BY <1>1 DEF BetweenQueries
<1>3. Len(queries) \in Nat
  BY BatchOfQueries DEF ParsedInv
<1>. QED  BY <1>1, <1>2, <1>3 DEF ParsedInv

(* The steps that neither scan nor construct a query.                      *)
LEMMA ParsedStays ==
  ASSUME ParsedInv,
         \/ FillRel \/ FillRelFails \/ Loaded \/ EndOfBatch
         \/ ExecuteFilter \/ EndFilters \/ ExecuteSelfJoin \/ SkipJoin \/ EndJoins
         \/ UNCHANGED vars
  PROVE  ParsedInv'
<1>1. /\ db' = db /\ queries' = queries /\ at' = at /\ counters' = counters /\ query' = query
  BY Zenon DEF FillRel, FillRelFails, Loaded, EndOfBatch, ExecuteFilter, EndFilters,
               ExecuteSelfJoin, SkipJoin, EndJoins, vars
<1>2. \/ pc' = pc
      \/ pc = "load" /\ pc' \in {"unloaded", "scan"}
      \/ pc = "scan" /\ pc' = "end"
      \/ pc = "filters" /\ pc' = "joins"
      \/ pc = "joins" /\ pc' = "free"
  BY Zenon DEF FillRel, FillRelFails, Loaded, EndOfBatch, ExecuteFilter, EndFilters,
               ExecuteSelfJoin, SkipJoin, EndJoins, vars
<1>3. Made' = Made
  BY <1>1, Zenon DEF Made
<1>4. BetweenQueries' <=> BetweenQueries
  BY <1>2 DEF BetweenQueries
<1>5. pc' \in {"filters", "undefined"} => pc' = pc
  BY <1>2
<1>. QED  BY <1>1, <1>2, <1>3, <1>4, <1>5 DEF ParsedInv

(* The counters that a query is constructed with are those of its own      *)
(* line: what an earlier line has left in them is gone.                    *)
THEOREM ParsedInvariant == Spec => []ParsedInv
<1>1. Init => ParsedInv
  <2>. SUFFICES ASSUME Init PROVE ParsedInv
    OBVIOUS
  <2>1. queries \in Batches /\ pc = "load" /\ at = 1 /\ counters = NoCounts
    BY Zenon DEF Init
  <2>2. Len(queries) \in Nat
    BY <2>1, BatchOfQueries
  <2>. QED  BY <2>1, <2>2 DEF ParsedInv, BetweenQueries
<1>2. ParsedInv /\ [Next]_vars => ParsedInv'
  BY ScanStep, ReadStep, FreeStep, ParsedStays, Zenon DEF Next, Stopped
<1>. QED  BY <1>1, <1>2, PTL DEF Spec

(* Every ordinary query of every batch is read as it is written, and its   *)
(* arrays have the sizes that are filled: what main counts in the first    *)
(* scan is what ConstructQuery puts there in the second.                   *)
THEOREM ParsedCorrect == Spec => []ParsedAsWritten
<1>1. ParsedInv => ParsedAsWritten
  <2>. SUFFICES ASSUME ParsedInv, pc \in {"filters", "undefined", "wrong"},
                       Ordinary(queries[at])
                PROVE  pc = "filters" /\ Filled(query) /\ ReadAs(queries[at], Rows(db), query)
    BY Zenon DEF ParsedAsWritten
  <2>1. /\ queries \in Batches /\ at \in Nat \ {0} /\ pc \in {"filters", "undefined"}
    BY DEF ParsedInv
  <2>2. ~BetweenQueries
    BY <2>1 DEF BetweenQueries
  <2>3. at <= Len(queries) /\ counters = Counts(queries[at]) /\ query = Made
        /\ (pc = "undefined" => query.null)
    BY <2>1, <2>2, Zenon DEF ParsedInv
  <2>4. queries[at] \in WrittenQueries
    <3>1. at \in DOMAIN queries
      BY <2>1, <2>3, BatchOfQueries
    <3>. QED  BY <2>1, <3>1, BatchOfQueries, ElementOfSeq
  <2>5. query = ConstructQuery(Text(queries[at]), Counted(Text(queries[at]), NoCounts), Rows(db))
    BY <2>3, Zenon DEF Made, Counts
  <2>6. ~query.null /\ Filled(query) /\ ReadAs(queries[at], Rows(db), query)
    BY <2>4, <2>5, ReadBack, Zenon
  <2>7. pc = "filters"
    BY <2>1, <2>3, <2>6
  <2>. QED  BY <2>6, <2>7
<1>. QED  BY <1>1, ParsedInvariant, PTL

-----------------------------------------------------------------------------
(* The types of the state                                                  *)

(* The joins set in priorities, the position in what is executed, and the  *)
(* flaws.                                                                  *)
QueueInv ==
  /\ Executing =>
       /\ priorities \in Seq(0..Len(query.joins)-1)
       /\ pc = "filters" => next <= Len(query.filters) + 1
       /\ pc = "joins" => next <= Len(query.joins) + 1
       /\ pc = "free" => next = 1
  /\ flaws \subseteq {"distinct", "cast"}

(* Any line has finitely many of each sign.                                *)
LEMMA SignsFinite ==
  ASSUME NEW line \in Seq(Units), NEW c, NEW n
  PROVE  InSlice(line, c, n) \subseteq DOMAIN line /\ IsFiniteSet(DOMAIN line)
<1>1. DOMAIN line = 1..Len(line) /\ Len(line) \in Nat
  BY LenProperties
<1>2. IsFiniteSet(1..Len(line))
  <2>1. PICK l \in Nat : l = Len(line)
    BY <1>1
  <2>. QED  BY <2>1, FS_Interval
<1>3. InSlice(line, c, n) \subseteq DOMAIN line
  BY Zenon DEF InSlice, Places
<1>. QED  BY <1>1, <1>2, <1>3

LEMMA CountsAreNumbers ==
  ASSUME NEW q \in WrittenQueries
  PROVE  \A c \in DOMAIN NoCounts : Counts(q)[c] \in Nat
<1>. DEFINE line == Text(q)
            joins == {i \in InSlice(line, "=", 1) : DotAhead(line, i)}
            filters == InSlice(line, "<", 1) \cup InSlice(line, ">", 1)
                       \cup (InSlice(line, "=", 1) \ joins)
            blanks(n) == InSlice(line, Blank, n)
<1>1. line \in Seq(Units)
  <2>1. PICK n \in Nat : \E start : Bars(line, Slices(q), n, start)
    BY TextLaid
  <2>2. PICK start : Bars(line, Slices(q), n, start)
    BY <2>1
  <2>. HIDE DEF line
  <2>. QED  BY <2>2 DEF Bars, Laid
<1>2. Counts(q) = [rels |-> 1 + Cardinality(blanks(0)), joins |-> 0 + Cardinality(joins),
                   sums |-> 1 + Cardinality(blanks(2)), filters |-> 0 + Cardinality(filters)]
  <2>1. /\ NoCounts.rels = 1 /\ NoCounts.joins = 0
        /\ NoCounts.sums = 1 /\ NoCounts.filters = 0
    BY DEF NoCounts
  <2>2. Counts(q) = [rels |-> NoCounts.rels + Cardinality(blanks(0)),
                     joins |-> NoCounts.joins + Cardinality(joins),
                     sums |-> NoCounts.sums + Cardinality(blanks(2)),
                     filters |-> NoCounts.filters + Cardinality(filters)]
    BY Zenon DEF Counts, Counted, Blank
  <2>. HIDE DEF line, joins, filters, blanks
  <2>. QED  BY <2>1, <2>2
<1>. HIDE DEF line
<1>3. ASSUME NEW S, S \subseteq DOMAIN line
      PROVE  Cardinality(S) \in Nat
  <2>1. IsFiniteSet(S)
    BY <1>1, <1>3, SignsFinite, FS_Subset
  <2>. QED  BY <2>1, FS_CardinalityType
<1>4. blanks(0) \subseteq DOMAIN line /\ blanks(2) \subseteq DOMAIN line
      /\ joins \subseteq DOMAIN line /\ filters \subseteq DOMAIN line
  BY <1>1, SignsFinite
<1>. HIDE DEF joins, filters, blanks
<1>5. /\ Cardinality(blanks(0)) \in Nat /\ Cardinality(blanks(2)) \in Nat
      /\ Cardinality(joins) \in Nat /\ Cardinality(filters) \in Nat
  BY <1>3, <1>4
<1>6. DOMAIN NoCounts = {"rels", "joins", "sums", "filters"}
  BY DEF NoCounts
<1>. QED  BY <1>2, <1>5, <1>6

(* What is executed has a length.                                          *)
LEMMA LengthsOf ==
  ASSUME NEW q, NEW d, RefersTo(q, d)
  PROVE  Len(q.filters) \in Nat /\ Len(q.joins) \in Nat
<1>1. \E S : q.filters \in Seq(S)
  BY Zenon DEF RefersTo
<1>2. \E S : q.joins \in Seq(S)
  BY Zenon DEF RefersTo
<1>. QED  BY <1>1, <1>2, LenProperties

LEMMA ExecutedLengths ==
  ASSUME EstimatesInv, Executing
  PROVE  /\ next \in Nat \ {0}
         /\ Len(query.filters) \in Nat /\ Len(query.joins) \in Nat
<1>1. QueryIsSound
  BY Zenon DEF EstimatesInv
<1>2. next \in Nat \ {0} /\ RefersTo(query, db)
  BY <1>1, Zenon DEF QueryIsSound
<1>. QED  BY <1>2, LengthsOf

(* A self join is put into priorities once it is executed, as a position   *)
(* of the joins.                                                           *)
LEMMA QueueStep ==
  ASSUME EstimatesInv, EstimatesInv', QueueInv, [Next]_vars
  PROVE  QueueInv'
<1>1. CASE ExecuteFilter
  <2>1. /\ pc = "filters" /\ pc' = pc /\ query' = query /\ priorities' = priorities
        /\ next <= Len(query.filters) /\ next' = next + 1
    BY <1>1, Zenon DEF ExecuteFilter
  <2>2. flaws' \subseteq flaws \cup {"distinct"}
    BY <1>1 DEF ExecuteFilter
  <2>3. Executing
    BY <2>1 DEF Executing
  <2>. QED  BY <2>1, <2>2, <2>3, ExecutedLengths DEF QueueInv
<1>2. CASE ExecuteSelfJoin
  <2>1. /\ pc = "joins" /\ pc' = pc /\ query' = query
        /\ priorities' = Append(priorities, next - 1)
        /\ next <= Len(query.joins) /\ next' = next + 1
    BY <1>2, Zenon DEF ExecuteSelfJoin
  <2>2. flaws' \subseteq flaws \cup {"cast"}
    BY <1>2 DEF ExecuteSelfJoin
  <2>3. Executing
    BY <2>1 DEF Executing
  <2>4. next \in Nat \ {0} /\ Len(query.joins) \in Nat
    BY <2>3, ExecutedLengths
  <2>5. priorities \in Seq(0..Len(query.joins)-1)
    BY <2>3, Zenon DEF QueueInv
  <2>6. next - 1 \in 0..Len(query.joins)-1
    BY <2>1, <2>4
  <2>7. priorities' \in Seq(0..Len(query.joins)-1)
    BY <2>1, <2>5, <2>6, AppendProperties, Zenon
  <2>. QED  BY <2>1, <2>2, <2>4, <2>7 DEF QueueInv
<1>3. CASE EndFilters \/ SkipJoin \/ EndJoins
  <2>1. /\ query' = query /\ priorities' = priorities /\ flaws' = flaws
        /\ pc \in {"filters", "joins"}
        /\ \/ pc' \in {"joins", "free"} /\ next' = 1
           \/ pc' = "joins" /\ next <= Len(query.joins) /\ next' = next + 1
    BY <1>3 DEF EndFilters, SkipJoin, EndJoins
  <2>2. Executing
    BY <2>1 DEF Executing
  <2>. QED  BY <2>1, <2>2, ExecutedLengths DEF QueueInv
<1>4. CASE Construct
  <2>1. /\ priorities' = <<>> /\ next' = 1 /\ flaws' = flaws
        /\ pc' \in {"undefined", "filters"}
    BY <1>4, Zenon DEF Construct
  <2>2. Executing' => Len(query.filters)' \in Nat
    <3>1. Executing' => RefersTo(query', db')
      BY Zenon DEF EstimatesInv, QueryIsSound
    <3>. QED  BY <3>1, LengthsOf, Zenon
  <2>. QED  BY <2>1, <2>2 DEF QueueInv
<1>5. CASE FillRel \/ FillRelFails \/ Loaded \/ Scan \/ EndOfBatch \/ FreeQuery
  <2>1. ~Executing' /\ flaws' \subseteq flaws
    BY <1>5 DEF FillRel, FillRelFails, Loaded, Scan, EndOfBatch, FreeQuery, Executing
  <2>. QED  BY <2>1 DEF QueueInv
<1>6. CASE UNCHANGED vars
  BY <1>6 DEF vars, QueueInv, Executing
<1>. QED  BY <1>1, <1>2, <1>3, <1>4, <1>5, <1>6, Zenon DEF Next, Stopped

THEOREM QueueInvariant == Spec => []QueueInv
<1>1. Init => QueueInv
  <2>. SUFFICES ASSUME Init PROVE QueueInv
    OBVIOUS
  <2>1. pc = "load" /\ flaws = {}
    BY Zenon DEF Init
  <2>. QED  BY <2>1 DEF QueueInv, Executing
<1>2. QueueInv /\ EstimatesInv /\ EstimatesInv' /\ [Next]_vars => QueueInv'
  BY QueueStep
<1>. QED  BY <1>1, <1>2, EstimatesInvariant, PTL DEF Spec

(* The statistics of a relation are a record for each of its columns.      *)
LEMMA StatisticsShaped ==
  ASSUME LoadedInOrder, EstimatesInv, Executing, NEW i \in DOMAIN query.rels
  PROVE  /\ Len(stats[i]) = Len(File(query.rels[i]))
         /\ \A c \in DOMAIN stats[i] :
              /\ stats[i][c].minI \in Words /\ stats[i][c].maxU \in Words
              /\ stats[i][c].numElements \in Words /\ stats[i][c].distinctVals \in Words
<1>1. QueryIsSound /\ StatsShape /\ Estimated(i) /\ db \in Databases
  BY Zenon DEF EstimatesInv, LoadedInOrder
<1>. DEFINE file == File(query.rels[i])
            cols == stats[i]
<1>2. cols \in [DOMAIN file -> Kept] /\ WordCounts(cols)
  BY <1>1, Zenon DEF StatsShape, Estimated
<1>3. file \in Seq(ColumnsOfWords)
  <2>1. RefersTo(query, db)
    BY <1>1, Zenon DEF QueryIsSound
  <2>2. query.rels \in Seq(0..Len(db)-1)
    BY <2>1, Zenon DEF RefersTo
  <2>3. query.rels[i] \in 0..Len(db)-1
    BY <2>2, ElementOfSeq, LenProperties, Zenon
  <2>4. db \in Seq(Files)
    BY <1>1, DatabasesAssumption DEF Files, ColumnsOfWords, Words
  <2>5. query.rels[i] + 1 \in DOMAIN db
    <3>1. Len(db) \in Nat /\ DOMAIN db = 1..Len(db)
      BY <2>4, LenProperties
    <3>2. PICK l \in Nat : l = Len(db)
      BY <3>1
    <3>3. PICK r \in 0..l-1 : r = query.rels[i]
      BY <2>3, <3>2
    <3>4. r + 1 \in 1..l
      BY <3>3
    <3>. QED  BY <3>1, <3>2, <3>3, <3>4
  <2>6. db[query.rels[i] + 1] \in Files
    BY <2>4, <2>5, ElementOfSeq, LenProperties
  <2>. QED  BY <2>6 DEF File, Files
<1>. HIDE DEF file, cols
<1>4. DOMAIN cols = 1..Len(file) /\ Len(file) \in Nat
  BY <1>2, <1>3, LenProperties
<1>5. Len(cols) = Len(file)
  <2>1. cols \in Seq(Kept)
    <3>1. cols \in [1..Len(file) -> Kept]
      BY <1>2, <1>4
    <3>. QED  BY <1>4, <3>1, SeqDef
  <2>2. DOMAIN cols = 1..Len(cols) /\ Len(cols) \in Nat
    BY <2>1, LenProperties
  <2>3. PICK a \in Nat, b \in Nat : a = Len(cols) /\ b = Len(file)
    BY <1>4, <2>2
  <2>4. 1..a = 1..b
    BY <1>4, <2>2, <2>3
  <2>5. a = b
    BY <2>4
  <2>. QED  BY <2>3, <2>5
<1>6. ASSUME NEW c \in DOMAIN cols
      PROVE  /\ cols[c].minI \in Words /\ cols[c].maxU \in Words
             /\ cols[c].numElements \in Words /\ cols[c].distinctVals \in Words
  <2>1. cols[c] \in StatsRecords
    BY <1>2 DEF Kept
  <2>2. cols[c].numElements < WordRange /\ cols[c].distinctVals < WordRange
    BY <1>2, Zenon DEF WordCounts
  <2>3. /\ cols[c].minI \in Words /\ cols[c].maxU \in Words
        /\ cols[c].numElements \in Nat /\ cols[c].distinctVals \in Nat
    BY <2>1 DEF StatsRecords
  <2>. QED  BY <2>2, <2>3, Sizes DEF Words
<1>. QED  BY <1>5, <1>6 DEF file, cols

(* The statistics of a query are words whatever its filters and self joins *)
(* do to them - no estimate outgrows the word it is kept in - and the      *)
(* positions and priorities stay within the arrays they point into.        *)
THEOREM TypeCorrect == Spec => []TypeOK
<1>1. LoadedInOrder /\ EstimatesInv /\ ParsedInv /\ QueueInv => TypeOK
  <2>. SUFFICES ASSUME LoadedInOrder, EstimatesInv, ParsedInv, QueueInv
                PROVE  TypeOK
    OBVIOUS
  <2>1. db \in Databases /\ queries \in Batches
    BY Zenon DEF LoadedInOrder, ParsedInv
  <2>2. pc \in {"load", "scan", "construct", "filters", "joins", "free", "end", "wrong",
                "undefined", "unloaded"}
    BY DEF ParsedInv
  <2>3. Len(relArray) \in 0..Len(db)
    <3>1. Len(relArray) \in Nat /\ Len(relArray) <= Len(db)
      BY LenProperties, Zenon DEF LoadedInOrder
    <3>2. db \in Seq(Files)
      BY <2>1, DatabasesAssumption DEF Files, ColumnsOfWords, Words
    <3>3. Len(db) \in Nat
      BY <3>2, LenProperties
    <3>. QED  BY <3>1, <3>3
  <2>4. at \in 1..Len(queries) + 1
    <3>1. at \in Nat \ {0} /\ at <= Len(queries) + 1
      BY Zenon DEF ParsedInv
    <3>2. Len(queries) \in Nat
      BY <2>1, BatchOfQueries
    <3>. QED  BY <3>1, <3>2
  <2>5. \A c \in DOMAIN NoCounts : counters[c] \in Nat
    <3>1. CASE BetweenQueries
      <4>1. counters = NoCounts
        BY <3>1, Zenon DEF ParsedInv
      <4>. QED  BY <4>1 DEF NoCounts
    <3>2. CASE ~BetweenQueries
      <4>1. at \in Nat \ {0} /\ at <= Len(queries) /\ counters = Counts(queries[at])
        BY <3>2, Zenon DEF ParsedInv
      <4>2. at \in DOMAIN queries
        BY <2>1, <4>1, BatchOfQueries
      <4>3. queries[at] \in WrittenQueries
        BY <2>1, <4>2, BatchOfQueries, ElementOfSeq
      <4>. QED  BY <4>1, <4>3, CountsAreNumbers, Zenon
    <3>. QED  BY <3>1, <3>2
  <2>6. flaws \subseteq {"distinct", "cast"}
    BY Zenon DEF QueueInv
  <2>7. ASSUME Executing
        PROVE  /\ DOMAIN stats = DOMAIN query.rels
               /\ \A i \in DOMAIN stats : Len(stats[i]) = Len(File(query.rels[i]))
               /\ \A i \in DOMAIN stats : \A c \in DOMAIN stats[i] :
                    \A f \in {"minI", "maxU", "numElements", "distinctVals"} :
                      stats[i][c][f] \in 0..WordRange-1
               /\ priorities \in Seq(0..Len(query.joins)-1)
               /\ next \in 1..Max({Len(query.filters), Len(query.joins)}) + 1
    <3>1. StatsShape
      BY <2>7, Zenon DEF EstimatesInv
    <3>2. DOMAIN stats = DOMAIN query.rels
      BY <3>1 DEF StatsShape
    <3>3. \A i \in DOMAIN stats : Len(stats[i]) = Len(File(query.rels[i]))
      BY <2>7, <3>2, StatisticsShaped
    <3>4. ASSUME NEW i \in DOMAIN stats, NEW c \in DOMAIN stats[i],
                 NEW f \in {"minI", "maxU", "numElements", "distinctVals"}
          PROVE  stats[i][c][f] \in 0..WordRange-1
      <4>1. /\ stats[i][c].minI \in Words /\ stats[i][c].maxU \in Words
            /\ stats[i][c].numElements \in Words /\ stats[i][c].distinctVals \in Words
        BY <2>7, <3>2, StatisticsShaped
      <4>2. stats[i][c][f] \in Words
        BY <4>1
      <4>. QED  BY <4>2 DEF Words
    <3>5. priorities \in Seq(0..Len(query.joins)-1)
      BY <2>7, Zenon DEF QueueInv
    <3>6. next \in 1..Max({Len(query.filters), Len(query.joins)}) + 1
      <4>1. /\ next \in Nat \ {0}
            /\ Len(query.filters) \in Nat /\ Len(query.joins) \in Nat
        BY <2>7, ExecutedLengths
      <4>2. PICK a \in Nat, b \in Nat : a = Len(query.filters) /\ b = Len(query.joins)
        BY <4>1
      <4>3. Max({a, b}) = IF a >= b THEN a ELSE b
        BY MaxOfTwo
      <4>4. next <= a + 1 \/ next <= b + 1 \/ next = 1
        BY <2>7, <4>2 DEF QueueInv, Executing
      <4>5. next \in 1..(IF a >= b THEN a ELSE b) + 1
        BY <4>1, <4>4
      <4>. QED  BY <4>2, <4>3, <4>5
    <3>. QED  BY <3>2, <3>3, <3>4, <3>5, <3>6
  <2>. QED  BY <2>1, <2>2, <2>3, <2>4, <2>5, <2>6, <2>7, Zenon DEF TypeOK, Executing
<1>. QED  BY <1>1, LoadedInvariant, EstimatesInvariant, ParsedInvariant, QueueInvariant, PTL

=============================================================================
