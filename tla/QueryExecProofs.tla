-------------------------- MODULE QueryExecProofs --------------------------
(***************************************************************************)
(* Proofs about QueryExec for all tables and for all queries whose         *)
(* predicates connect their relations.                                     *)
(*                                                                         *)
(* The argument: radixHashJoin returns each pair of positions once, so a   *)
(* node that is made of its result, or of survivors of a node, has no      *)
(* combination of rows twice (NodeSound); a relation enters a node only    *)
(* when it is in none, so nodes stay apart (ListSound); and a predicate    *)
(* that was executed has its relations in one node (Gathered), so that in  *)
(* the end a connected query has one node with all its relations.          *)
(***************************************************************************)
EXTENDS QueryExec, FiniteSetTheorems, SequenceTheorems, WellFoundedInduction,
        TLAPS

-----------------------------------------------------------------------------
(* Facts about numbers and sequences                                       *)

(* No element is at two positions.                                         *)
Once(s) == \A i, k \in DOMAIN s : s[i] = s[k] => i = k

(* A set of natural numbers has a least element.                           *)
LEMMA LeastOf ==
  ASSUME NEW T, T \subseteq Nat, T # {}
  PROVE  \E x \in T : \A y \in T : x <= y
<1>1. PICK x \in T : \A y \in T : <<y, x>> \notin OpToRel(<, Nat)
  BY WFMin, NatLessThanWellFounded, Zenon
<1>2. \A y \in T : ~(y < x)
  BY <1>1, Zenon DEF OpToRel
<1>3. \A y \in T : x <= y
  BY <1>2
<1>. QED  BY <1>3

(* Induction, for a set that is given by what is to be shown.              *)
LEMMA InductionInSet ==
  ASSUME NEW T, 0 \in T, \A n \in Nat : n \in T => n + 1 \in T
  PROVE  Nat \subseteq T
<1>. DEFINE missing == Nat \ T
<1>1. SUFFICES ASSUME missing # {} PROVE FALSE
  OBVIOUS
<1>2. PICK x \in missing : \A y \in missing : x <= y
  BY <1>1, LeastOf
<1>3. x # 0 /\ x - 1 \in Nat
  BY <1>2
<1>4. x - 1 \in T
  BY <1>2, <1>3
<1>5. (x - 1) + 1 \in T
  BY <1>3, <1>4
<1>. QED  BY <1>5, <1>2

(* The same up to a bound, for what a sequence or a prefix satisfies.      *)
LEMMA InductionUpTo ==
  ASSUME NEW m \in Nat, NEW T, 0 \in T,
         \A n \in 0..m-1 : n \in T => n + 1 \in T
  PROVE  0..m \subseteq T
<1>. DEFINE U == T \cup {n \in Nat : n > m}
<1>1. 0 \in U
  OBVIOUS
<1>2. \A n \in Nat : n \in U => n + 1 \in U
  OBVIOUS
<1>. HIDE DEF U
<1>3. Nat \subseteq U
  BY <1>1, <1>2, InductionInSet
<1>. QED  BY <1>3 DEF U

(* FlattenSeq                                                              *)

Flattens(ss, n, f) ==
  f = [i \in 1..n |-> IF i = 1 THEN ss[i] ELSE f[i-1] \o ss[i]]

(* The function by which FlattenSeq is defined exists.                     *)
LEMMA FlattensExists ==
  ASSUME NEW ss, NEW m \in Nat
  PROVE  \E f : Flattens(ss, m, f)
<1>. DEFINE T == {n \in Nat : \E f : Flattens(ss, n, f)}
<1>1. 0 \in T
  <2>. DEFINE f == [i \in 1..0 |-> ss[i]]
  <2>1. f = [i \in 1..0 |-> IF i = 1 THEN ss[i] ELSE f[i-1] \o ss[i]]
    OBVIOUS
  <2>. QED  BY <2>1 DEF Flattens
<1>2. ASSUME NEW n \in Nat, n \in T
      PROVE  n + 1 \in T
  <2>1. PICK f : Flattens(ss, n, f)
    BY <1>2
  <2>. DEFINE g == [i \in 1..n+1 |-> IF i \in 1..n THEN f[i]
                                     ELSE IF i = 1 THEN ss[i] ELSE f[i-1] \o ss[i]]
  <2>2. ASSUME NEW i \in 1..n+1
        PROVE  g[i] = IF i = 1 THEN ss[i] ELSE g[i-1] \o ss[i]
    <3>1. CASE i \in 1..n
      <4>1. f[i] = IF i = 1 THEN ss[i] ELSE f[i-1] \o ss[i]
        BY <2>1, <3>1 DEF Flattens
      <4>2. i # 1 => i - 1 \in 1..n /\ i - 1 \in 1..n+1
        BY <3>1
      <4>. QED  BY <3>1, <4>1, <4>2
    <3>2. CASE i = n + 1
      <4>1. i # 1 => i - 1 \in 1..n /\ i - 1 \in 1..n+1
        BY <3>2
      <4>2. i \notin 1..n
        BY <3>2
      <4>. QED  BY <4>1, <4>2
    <3>. QED  BY <3>1, <3>2
  <2>3. g = [i \in 1..n+1 |-> IF i = 1 THEN ss[i] ELSE g[i-1] \o ss[i]]
    BY <2>2
  <2>4. \E h : Flattens(ss, n + 1, h)
    BY <2>3, Zenon DEF Flattens
  <2>. QED  BY <2>4
<1>. HIDE DEF T
<1>3. m \in T
  BY <1>1, <1>2, InductionInSet
<1>. QED  BY <1>3 DEF T

(* FlattenSeq is the last value of such a function.                        *)
LEMMA FlattenSeqDef ==
  ASSUME NEW ss, Len(ss) \in Nat, Len(ss) # 0
  PROVE  \E f : Flattens(ss, Len(ss), f) /\ FlattenSeq(ss) = f[Len(ss)]
<1>. DEFINE m == Len(ss)
            flatten == CHOOSE f : f = [i \in 1..m |-> IF i = 1 THEN ss[i] ELSE f[i-1] \o ss[i]]
<1>1. \E f : f = [i \in 1..m |-> IF i = 1 THEN ss[i] ELSE f[i-1] \o ss[i]]
  BY FlattensExists, Zenon DEF Flattens
<1>2. flatten = [i \in 1..m |-> IF i = 1 THEN ss[i] ELSE flatten[i-1] \o ss[i]]
  BY <1>1, Zenon
<1>3. FlattenSeq(ss) = flatten[m]
  BY Zenon DEF FlattenSeq
<1>. QED  BY <1>2, <1>3, Zenon DEF Flattens

LEMMA FlattensStep ==
  ASSUME NEW ss, NEW m \in Nat, NEW f, Flattens(ss, m, f), NEW n \in Nat, n + 1 \in 1..m
  PROVE  f[n + 1] = IF n = 0 THEN ss[n + 1] ELSE f[n] \o ss[n + 1]
<1>1. f[n + 1] = IF n + 1 = 1 THEN ss[n + 1] ELSE f[(n + 1) - 1] \o ss[n + 1]
  BY Zenon DEF Flattens
<1>2. (n + 1) - 1 = n /\ (n + 1 = 1 <=> n = 0)
  OBVIOUS
<1>. QED  BY <1>1, <1>2, Zenon

LEMMA FlattenSeqEmpty == FlattenSeq(<<>>) = <<>>
BY DEF FlattenSeq

(* A flattened sequence of sequences over S is a sequence over S.          *)
LEMMA FlattensType ==
  ASSUME NEW S, NEW ss \in Seq(Seq(S)), NEW f, NEW m \in 0..Len(ss), Flattens(ss, m, f)
  PROVE  \A i \in 1..m : f[i] \in Seq(S)
<1>. DEFINE T == {n \in Nat : n \in 1..m => f[n] \in Seq(S)}
<1>1. 0 \in T
  OBVIOUS
<1>2. ASSUME NEW n \in 0..m-1, n \in T
      PROVE  n + 1 \in T
  <2>1. ss[n+1] \in Seq(S)
    OBVIOUS
  <2>2. f[n+1] = IF n = 0 THEN ss[n+1] ELSE f[n] \o ss[n+1]
    BY FlattensStep
  <2>3. CASE n = 0
    BY <2>1, <2>2, <2>3
  <2>4. CASE n # 0
    <3>1. f[n] \in Seq(S)
      BY <2>4, <1>2
    <3>2. f[n] \o ss[n+1] \in Seq(S)
      BY <3>1, <2>1, ConcatProperties
    <3>3. f[n+1] \in Seq(S)
      BY <2>2, <2>4, <3>2, Zenon
    <3>. QED  BY <3>3
  <2>. QED  BY <2>3, <2>4
<1>. HIDE DEF T
<1>3. 0..m \subseteq T
  <2>. m \in Nat
    OBVIOUS
  <2>. QED  BY <1>1, <1>2, InductionUpTo
<1>. QED  BY <1>3 DEF T

LEMMA FlattenSeqType ==
  ASSUME NEW S, NEW ss \in Seq(Seq(S))
  PROVE  FlattenSeq(ss) \in Seq(S)
<1>1. CASE Len(ss) = 0
  <2>1. ss = <<>>
    BY <1>1
  <2>2. FlattenSeq(ss) = <<>>
    BY <2>1, FlattenSeqEmpty, Zenon
  <2>. QED  BY <2>2
<1>2. CASE Len(ss) # 0
  <2>1. PICK f : Flattens(ss, Len(ss), f) /\ FlattenSeq(ss) = f[Len(ss)]
    BY <1>2, FlattenSeqDef
  <2>. QED  BY <1>2, <2>1, FlattensType
<1>. QED  BY <1>1, <1>2

(* A function on 1..n is a sequence.                                       *)
LEMMA FunctionIsSequence ==
  ASSUME NEW S, NEW n \in Nat, NEW f \in [1..n -> S]
  PROVE  f \in Seq(S) /\ Len(f) = n
OBVIOUS

(* The size elements of a sequence after the first ones.                   *)
LEMMA SubSeqFacts ==
  ASSUME NEW S, NEW s \in Seq(S), NEW first \in Nat, NEW size \in Nat,
         first + size <= Len(s)
  PROVE  /\ SubSeq(s, first + 1, first + size) \in Seq(S)
         /\ Len(SubSeq(s, first + 1, first + size)) = size
         /\ \A i \in 1..size : /\ first + i \in 1..Len(s)
                              /\ SubSeq(s, first + 1, first + size)[i] = s[first + i]
<1>. DEFINE m == first + 1
            n == first + size
            sub == SubSeq(s, m, n)
<1>1. m \in Int /\ n \in Int /\ m = first + 1 /\ n = first + size /\ Len(s) \in Nat
  OBVIOUS
<1>2. sub = SubSeq(s, first + 1, first + size)
  OBVIOUS
<1>. HIDE DEF m, n
<1>3. \A i \in m..n : s[i] \in S
  BY <1>1
<1>4. /\ sub \in Seq(S)
      /\ Len(sub) = IF m <= n THEN n-m+1 ELSE 0
      /\ \A i \in 1..n-m+1 : sub[i] = s[m+i-1]
  BY <1>1, <1>3, SubSeqProperties
<1>. HIDE DEF sub
<1>5. Len(sub) = size
  BY <1>1, <1>4
<1>6. \A i \in 1..size : first + i \in 1..Len(s) /\ i \in 1..n-m+1 /\ m+i-1 = first + i
  BY <1>1
<1>. QED  BY <1>2, <1>4, <1>5, <1>6

(* Sequences without repetition                                            *)

LEMMA OnceAppend ==
  ASSUME NEW S, NEW s \in Seq(S), NEW e \in S
  PROVE  /\ Range(Append(s, e)) = Range(s) \cup {e}
         /\ Once(s) /\ e \notin Range(s) => Once(Append(s, e))
<1>. DEFINE t == Append(s, e)
<1>1. /\ Len(s) \in Nat /\ DOMAIN s = 1..Len(s) /\ DOMAIN t = 1..Len(s)+1
      /\ (\A i \in 1..Len(s) : t[i] = s[i]) /\ t[Len(s) + 1] = e
  OBVIOUS
<1>. HIDE DEF t
<1>2. \A i \in DOMAIN t : i \in DOMAIN s \/ i = Len(s) + 1
  BY <1>1
<1>3. \A i \in DOMAIN s : i \in DOMAIN t /\ i # Len(s) + 1
  BY <1>1
<1>4. Len(s) + 1 \in DOMAIN t
  BY <1>1
<1>5. Range(t) = Range(s) \cup {e}
  BY <1>1, <1>2, <1>3, <1>4, Zenon DEF Range
<1>6. ASSUME Once(s), e \notin Range(s), NEW i \in DOMAIN t, NEW k \in DOMAIN t, t[i] = t[k]
      PROVE  i = k
  BY <1>1, <1>2, <1>6, Zenon DEF Once, Range
<1>. QED  BY <1>5, <1>6 DEF t, Once

LEMMA OnceConcat ==
  ASSUME NEW S, NEW s \in Seq(S), NEW t \in Seq(S),
         Once(s), Once(t), Range(s) \cap Range(t) = {}
  PROVE  Once(s \o t)
<1>. DEFINE u == s \o t
<1>1. /\ Len(s) \in Nat /\ DOMAIN s = 1..Len(s)
      /\ Len(t) \in Nat /\ DOMAIN t = 1..Len(t)
      /\ DOMAIN u = 1..Len(s)+Len(t)
      /\ \A i \in 1..Len(s)+Len(t) : u[i] = IF i <= Len(s) THEN s[i] ELSE t[i - Len(s)]
  BY ConcatProperties, LenProperties
<1>. HIDE DEF u
<1>2. \A i \in DOMAIN u : \/ i \in DOMAIN s /\ u[i] = s[i]
                          \/ i - Len(s) \in DOMAIN t /\ u[i] = t[i - Len(s)]
  BY <1>1
<1>3. ASSUME NEW i \in DOMAIN u, NEW k \in DOMAIN u, u[i] = u[k]
      PROVE  i = k
  <2>1. \A a \in DOMAIN s, b \in DOMAIN t : s[a] # t[b]
    BY Zenon DEF Range
  <2>2. CASE i \in DOMAIN s /\ u[i] = s[i] /\ k \in DOMAIN s /\ u[k] = s[k]
    BY <2>2, <1>3 DEF Once
  <2>3. CASE /\ i - Len(s) \in DOMAIN t /\ u[i] = t[i - Len(s)]
             /\ k - Len(s) \in DOMAIN t /\ u[k] = t[k - Len(s)]
    <3>1. i - Len(s) = k - Len(s)
      BY <2>3, <1>3, Zenon DEF Once
    <3>. QED  BY <3>1, <1>1
  <2>. QED  BY <1>2, <1>3, <2>1, <2>2, <2>3
<1>. QED  BY <1>3 DEF u, Once

(* Flattening sequences without repetition that have no element in common  *)
(* gives one with the elements of all of them.                             *)
LEMMA FlattenSeqOnce ==
  ASSUME NEW S, NEW ss \in Seq(Seq(S)),
         \A k \in DOMAIN ss : Once(ss[k]),
         \A k, l \in DOMAIN ss : Range(ss[k]) \cap Range(ss[l]) # {} => k = l
  PROVE  /\ Once(FlattenSeq(ss))
         /\ Range(FlattenSeq(ss)) = UNION {Range(ss[k]) : k \in DOMAIN ss}
<1>. DEFINE m == Len(ss)
            Upto(n) == UNION {Range(ss[k]) : k \in 1..n}
<1>1. m \in Nat /\ DOMAIN ss = 1..m
  OBVIOUS
<1>2. CASE m = 0
  <2>1. ss = <<>> /\ FlattenSeq(ss) = <<>>
    BY <1>2, FlattenSeqEmpty
  <2>2. Once(<<>>) /\ Range(<<>>) = {} /\ {Range(ss[k]) : k \in 1..m} = {}
    BY <1>2 DEF Once, Range
  <2>. HIDE DEF m
  <2>. QED  BY <1>1, <2>1, <2>2
<1>3. CASE m # 0
  <2>1. PICK f : Flattens(ss, m, f) /\ FlattenSeq(ss) = f[m]
    BY <1>1, <1>3, FlattenSeqDef
  <2>2. \A i \in 1..m : f[i] \in Seq(S)
    <3>1. m \in 0..Len(ss)
      BY <1>1
    <3>. QED  BY <2>1, <3>1, FlattensType
  <2>. DEFINE T == {n \in Nat : n \in 1..m => Once(f[n]) /\ Range(f[n]) = Upto(n)}
  <2>3. 0 \in T
    OBVIOUS
  <2>4. ASSUME NEW n \in 0..m-1, n \in T
        PROVE  n + 1 \in T
    <3>1. n \in Nat /\ n + 1 \in 1..m /\ (n # 0 => n \in 1..m) /\ ss[n+1] \in Seq(S)
      BY <1>1
    <3>2. f[n+1] = IF n = 0 THEN ss[n+1] ELSE f[n] \o ss[n+1]
      <4>1. m \in Nat /\ n \in Nat /\ n + 1 \in 1..m /\ Flattens(ss, m, f)
        BY <1>1, <2>1, <3>1
      <4>. HIDE DEF m
      <4>. QED  BY <4>1, FlattensStep
    <3>3. Upto(n+1) = Upto(n) \cup Range(ss[n+1])
      <4>1. 1..n+1 = (1..n) \cup {n+1}
        BY <3>1
      <4>. QED  BY <4>1
    <3>4. CASE n = 0
      <4>1. Upto(n) = {}
        BY <3>4
      <4>2. Once(ss[n+1]) /\ f[n+1] = ss[n+1]
        BY <1>1, <3>1, <3>2, <3>4
      <4>. HIDE DEF Upto
      <4>3. Range(f[n+1]) = Upto(n+1)
        BY <3>3, <4>1, <4>2
      <4>. QED  BY <3>1, <4>2, <4>3
    <3>5. CASE n # 0
      <4>1. Once(f[n]) /\ Range(f[n]) = Upto(n) /\ f[n] \in Seq(S)
        BY <2>2, <2>4, <3>1, <3>5
      <4>2. Upto(n) \cap Range(ss[n+1]) = {}
        <5>1. ASSUME NEW k \in 1..n
              PROVE  Range(ss[k]) \cap Range(ss[n+1]) = {}
          <6>1. k \in DOMAIN ss /\ n + 1 \in DOMAIN ss /\ k # n + 1
            BY <1>1, <3>1
          <6>. QED  BY <6>1, Zenon
        <5>. QED  BY <5>1
      <4>. HIDE DEF Upto
      <4>3. Once(f[n] \o ss[n+1])
        BY <1>1, <3>1, <4>1, <4>2, OnceConcat
      <4>4. Range(f[n] \o ss[n+1]) = Range(f[n]) \cup Range(ss[n+1])
        BY <3>1, <4>1, RangeConcatenation
      <4>5. f[n+1] = f[n] \o ss[n+1]
        BY <3>2, <3>5
      <4>6. Once(f[n+1]) /\ Range(f[n+1]) = Upto(n+1)
        BY <3>3, <4>1, <4>3, <4>4, <4>5, Zenon
      <4>. QED  BY <4>6
    <3>. QED  BY <3>4, <3>5
  <2>. HIDE DEF T
  <2>5. 0..m \subseteq T
    BY <1>1, <2>3, <2>4, InductionUpTo
  <2>6. m \in 0..m /\ m \in 1..m
    BY <1>1, <1>3
  <2>7. m \in T
    BY <2>5, <2>6
  <2>8. Once(f[m]) /\ Range(f[m]) = Upto(m)
    BY <2>6, <2>7 DEF T
  <2>. QED  BY <1>1, <2>1, <2>8
<1>. QED  BY <1>2, <1>3

(* A sequence with one element taken out.                                  *)
LEMMA RemoveAtFacts ==
  ASSUME NEW S, NEW s \in Seq(S), NEW n \in 1..Len(s)
  PROVE  /\ RemoveAt(s, n) \in Seq(S)
         /\ Len(RemoveAt(s, n)) = Len(s) - 1
         /\ \A i \in 1..Len(s)-1 : RemoveAt(s, n)[i] = IF i < n THEN s[i] ELSE s[i+1]
<1>. DEFINE a == SubSeq(s, 1, n-1)
            b == SubSeq(s, n+1, Len(s))
<1>1. /\ a \in Seq(S) /\ Len(a) = n - 1
      /\ \A i \in 1..n-1 : a[i] = s[i]
  BY SubSeqFacts
<1>2. /\ b \in Seq(S) /\ Len(b) = Len(s) - n
      /\ \A i \in 1..Len(s)-n : b[i] = s[n + i]
  BY SubSeqFacts
<1>3. RemoveAt(s, n) = a \o b
  BY DEF RemoveAt
<1>. HIDE DEF a, b
<1>4. /\ a \o b \in Seq(S) /\ Len(a \o b) = Len(s) - 1
      /\ \A i \in 1..Len(s)-1 : (a \o b)[i] = IF i <= n-1 THEN a[i] ELSE b[i-(n-1)]
  <2>1. Len(a) + Len(b) = Len(s) - 1
    BY <1>1, <1>2
  <2>2. /\ a \o b \in Seq(S) /\ Len(a \o b) = Len(a) + Len(b)
        /\ \A i \in 1..Len(a)+Len(b) : (a \o b)[i] = IF i <= Len(a) THEN a[i] ELSE b[i-Len(a)]
    BY <1>1, <1>2, ConcatProperties
  <2>. QED  BY <1>1, <2>1, <2>2
<1>5. ASSUME NEW i \in 1..Len(s)-1
      PROVE  RemoveAt(s, n)[i] = IF i < n THEN s[i] ELSE s[i+1]
  <2>1. CASE i < n
    <3>1. i <= n-1 /\ i \in 1..n-1
      BY <2>1
    <3>. QED  BY <1>1, <1>3, <1>4, <2>1, <3>1
  <2>2. CASE ~(i < n)
    <3>1. ~(i <= n-1) /\ i-(n-1) \in 1..Len(s)-n /\ n + (i-(n-1)) = i + 1
      BY <2>2
    <3>. QED  BY <1>2, <1>3, <1>4, <2>2, <3>1
  <2>. QED  BY <2>1, <2>2
<1>. QED  BY <1>3, <1>4, <1>5

LEMMA ConcatOfSingles ==
  ASSUME NEW a, NEW b
  PROVE  <<a>> \o <<b>> = <<a, b>>
<1>. DEFINE S == {a, b}
            s == <<a>>
            t == <<b>>
            u == <<a, b>>
<1>1. s \in Seq(S) /\ t \in Seq(S) /\ u \in Seq(S)
  OBVIOUS
<1>2. Len(s) = 1 /\ s[1] = a /\ Len(t) = 1 /\ t[1] = b
  OBVIOUS
<1>3. Len(u) = 2 /\ u[1] = a /\ u[2] = b
  OBVIOUS
<1>. HIDE DEF S, s, t, u
<1>4. /\ s \o t \in Seq(S) /\ Len(s \o t) = Len(s) + Len(t)
      /\ \A i \in 1..Len(s)+Len(t) : (s \o t)[i] = IF i <= Len(s) THEN s[i] ELSE t[i - Len(s)]
  BY <1>1, ConcatProperties
<1>. DEFINE v == s \o t
<1>. HIDE DEF v
<1>5. v \in Seq(S) /\ Len(v) = 2 /\ v[1] = a /\ v[2] = b
  BY <1>2, <1>4 DEF v
<1>6. \A i \in 1..2 : v[i] = u[i]
  BY <1>3, <1>5
<1>7. v = u
  BY <1>1, <1>3, <1>5, <1>6, SeqEqual
<1>. QED  BY <1>7 DEF v, s, t, u

LEMMA FirstOfSome ==
  ASSUME NEW S, NEW s \in Seq(S), s # <<>>
  PROVE  1 \in DOMAIN s
<1>1. Len(s) \in Nat /\ DOMAIN s = 1..Len(s)
  OBVIOUS
<1>2. Len(s) # 0
  <2>1. SUFFICES ASSUME Len(s) = 0 PROVE FALSE
    OBVIOUS
  <2>. DEFINE t == <<>>
  <2>2. t \in Seq(S) /\ Len(t) = 0
    OBVIOUS
  <2>. HIDE DEF t
  <2>3. s = t
    BY <2>1, <2>2, SeqEqual
  <2>. QED  BY <2>3 DEF t
<1>. QED  BY <1>1, <1>2

-----------------------------------------------------------------------------
(* The rows of every relation of the query.                                *)
AllRows == [r \in QueryRels |-> Rows(r)]

(* A node over relations with the given rows.                              *)
NodeSound(node, rows) ==
  /\ node \in Nodes
  /\ node.joinedRels # <<>>
  /\ Once(node.joinedRels)
  /\ Len(node.rowIds) = Len(node.joinedRels)
  /\ \A c \in 1..Len(node.joinedRels) :
       /\ node.joinedRels[c] \in DOMAIN rows
       /\ Len(node.rowIds[c]) = NumbOfRows(node)
       /\ \A i \in 1..NumbOfRows(node) : node.rowIds[c][i] \in rows[node.joinedRels[c]]
  /\ \A i, k \in 1..NumbOfRows(node) :
       (\A c \in 1..Len(node.joinedRels) : node.rowIds[c][i] = node.rowIds[c][k]) => i = k

ListSound(list, rows) ==
  /\ list \in Seq(Nodes)
  /\ \A n \in 1..Len(list) : NodeSound(list[n], rows)
  /\ \A n, m \in 1..Len(list) :
       Range(list[n].joinedRels) \cap Range(list[m].joinedRels) # {} => n = m

(* All of rels are in one node.                                            *)
Together(list, rels) ==
  \E n \in 1..Len(list) : rels \subseteq Range(list[n].joinedRels)

Gathered ==
  /\ \A f \in 1..nextFilter-1 : Together(headInt, {query.filters[f].part.rel})
  /\ \A j \in DOMAIN query.joins \ todo : Together(headInt, RelsOfJoin(query.joins[j]))

BaseInv == /\ table \in Tables
           /\ query \in Queries
           /\ nextFilter \in 1..Len(query.filters) + 1
           /\ todo \subseteq DOMAIN query.joins
           /\ checksums \in Seq(0..WordRange-1)

Inv == BaseInv /\ ListSound(headInt, AllRows) /\ Gathered

-----------------------------------------------------------------------------
(* The rows that survive                                                   *)

Survives(n, kept, f) ==
  f = [i \in 0..n |-> IF i = 0 THEN <<>>
                      ELSE IF i \in kept THEN Append(f[i-1], i) ELSE f[i-1]]

LEMMA SurvivesExists ==
  ASSUME NEW kept, NEW m \in Nat
  PROVE  \E f : Survives(m, kept, f)
<1>. DEFINE T == {n \in Nat : \E f : Survives(n, kept, f)}
<1>1. 0 \in T
  <2>. DEFINE f == [i \in 0..0 |-> <<>>]
  <2>1. f = [i \in 0..0 |-> IF i = 0 THEN <<>>
                            ELSE IF i \in kept THEN Append(f[i-1], i) ELSE f[i-1]]
    OBVIOUS
  <2>2. \E g : Survives(0, kept, g)
    BY <2>1, Zenon DEF Survives
  <2>. QED  BY <2>2
<1>2. ASSUME NEW n \in Nat, n \in T
      PROVE  n + 1 \in T
  <2>1. PICK f : Survives(n, kept, f)
    BY <1>2
  <2>. DEFINE Body(h, i) == IF i = 0 THEN <<>>
                            ELSE IF i \in kept THEN Append(h[i-1], i) ELSE h[i-1]
              g == [i \in 0..n+1 |-> IF i \in 0..n THEN f[i] ELSE Body(f, i)]
  <2>2. ASSUME NEW i \in 0..n+1
        PROVE  g[i] = Body(g, i)
    <3>1. i = 0 \/ (i - 1 \in 0..n /\ i - 1 \in 0..n+1)
      OBVIOUS
    <3>2. i # 0 => g[i-1] = f[i-1]
      BY <3>1
    <3>3. Body(g, i) = Body(f, i)
      BY <3>2
    <3>4. CASE i \in 0..n
      <4>1. f[i] = Body(f, i)
        BY <2>1, <3>4, Zenon DEF Survives
      <4>. QED  BY <3>3, <3>4, <4>1
    <3>5. CASE i \notin 0..n
      BY <3>3, <3>5
    <3>. QED  BY <3>4, <3>5
  <2>3. g = [i \in 0..n+1 |-> Body(g, i)]
    BY <2>2
  <2>4. \E h : Survives(n + 1, kept, h)
    BY <2>3, Zenon DEF Survives
  <2>. QED  BY <2>4
<1>. HIDE DEF T
<1>3. m \in T
  BY <1>1, <1>2, InductionInSet
<1>. QED  BY <1>3 DEF T

LEMMA SurvivorsDef ==
  ASSUME NEW n \in Nat, NEW kept
  PROVE  \E f : Survives(n, kept, f) /\ Survivors(n, kept) = f[n]
<1>. DEFINE rows == CHOOSE f : f = [i \in 0..n |-> IF i = 0 THEN <<>>
                                    ELSE IF i \in kept THEN Append(f[i-1], i) ELSE f[i-1]]
<1>1. \E f : f = [i \in 0..n |-> IF i = 0 THEN <<>>
                                 ELSE IF i \in kept THEN Append(f[i-1], i) ELSE f[i-1]]
  <2>1. \E f : Survives(n, kept, f)
    BY SurvivesExists
  <2>. QED  BY <2>1, Zenon DEF Survives
<1>2. Survives(n, kept, rows)
  BY <1>1, Zenon DEF Survives
<1>3. Survivors(n, kept) = rows[n]
  BY Zenon DEF Survivors
<1>. QED  BY <1>2, <1>3, Zenon

LEMMA SurvivesStep ==
  ASSUME NEW kept, NEW m \in Nat, NEW f, Survives(m, kept, f)
  PROVE  \A n \in 0..m-1 : f[n+1] = IF n + 1 \in kept THEN Append(f[n], n + 1) ELSE f[n]
<1>1. ASSUME NEW n \in 0..m-1
      PROVE  f[n+1] = IF n + 1 \in kept THEN Append(f[n], n + 1) ELSE f[n]
  <2>1. n + 1 \in 0..m /\ n + 1 # 0 /\ (n + 1) - 1 = n
    OBVIOUS
  <2>2. f[n+1] = IF n + 1 = 0 THEN <<>>
                 ELSE IF n + 1 \in kept THEN Append(f[(n+1)-1], n + 1) ELSE f[(n+1)-1]
    BY <2>1, Zenon DEF Survives
  <2>. QED  BY <2>1, <2>2, Zenon
<1>. QED  BY <1>1

(* Survivors lists the positions that are kept, each once.                 *)
LEMMA SurvivorsFacts ==
  ASSUME NEW m \in Nat, NEW kept \in SUBSET (1..m)
  PROVE  /\ Survivors(m, kept) \in Seq(1..m)
         /\ Once(Survivors(m, kept))
         /\ Range(Survivors(m, kept)) = kept
<1>. DEFINE upto(n) == (1..n) \cap kept
<1>0. \A i \in kept : i \in 1..m
  OBVIOUS
<1>1. PICK g : Survives(m, kept, g) /\ Survivors(m, kept) = g[m]
  BY SurvivorsDef
<1>2. g[0] = <<>>
  <2>1. 0 \in 0..m
    OBVIOUS
  <2>. QED  BY <1>1, <2>1, Zenon DEF Survives
<1>3. \A n \in 0..m-1 : g[n+1] = IF n + 1 \in kept THEN Append(g[n], n + 1) ELSE g[n]
  BY <1>1, SurvivesStep
<1>. DEFINE T == {n \in Nat : g[n] \in Seq(1..m) /\ Once(g[n]) /\ Range(g[n]) = upto(n)}
<1>4. 0 \in T
  <2>1. upto(0) = {}
    BY <1>0
  <2>2. <<>> \in Seq(1..m) /\ Once(<<>>) /\ Range(<<>>) = {}
    BY DEF Once, Range
  <2>. QED  BY <1>2, <2>1, <2>2
<1>5. ASSUME NEW n \in 0..m-1, n \in T
      PROVE  n + 1 \in T
  <2>. n \in Nat /\ n + 1 \in 1..m
    OBVIOUS
  <2>1. g[n] \in Seq(1..m) /\ Once(g[n]) /\ Range(g[n]) = upto(n)
    BY <1>5
  <2>2. CASE n + 1 \in kept
    <3>1. g[n+1] = Append(g[n], n + 1)
      BY <1>3, <2>2
    <3>2. upto(n+1) = upto(n) \cup {n + 1} /\ n + 1 \notin upto(n)
      BY <1>0, <2>2
    <3>. HIDE DEF upto
    <3>3. /\ Range(Append(g[n], n + 1)) = Range(g[n]) \cup {n + 1}
          /\ Once(Append(g[n], n + 1))
      BY <2>1, <3>2, OnceAppend
    <3>4. Append(g[n], n + 1) \in Seq(1..m)
      BY <2>1, AppendProperties
    <3>5. g[n+1] \in Seq(1..m) /\ Once(g[n+1]) /\ Range(g[n+1]) = upto(n+1)
      BY <2>1, <3>1, <3>2, <3>3, <3>4, Zenon
    <3>. QED  BY <3>5
  <2>3. CASE n + 1 \notin kept
    <3>1. g[n+1] = g[n]
      BY <1>3, <2>3
    <3>2. upto(n+1) = upto(n)
      BY <1>0, <2>3
    <3>. HIDE DEF upto
    <3>. QED  BY <2>1, <3>1, <3>2
  <2>. QED  BY <2>2, <2>3
<1>. HIDE DEF T
<1>6. 0..m \subseteq T
  BY <1>4, <1>5, InductionUpTo
<1>7. m \in T
  BY <1>6
<1>8. upto(m) = kept
  BY <1>0
<1>. QED  BY <1>1, <1>7, <1>8 DEF T

-----------------------------------------------------------------------------
(* What radixHashJoin returns                                              *)

LEMMA HitsOfOne ==
  ASSUME NEW hits \in Seq(Nat), Once(hits), NEW k \in Nat
  PROVE  LET pairs == [h \in DOMAIN hits |-> <<hits[h], k>>]
         IN  /\ pairs \in Seq(Nat \X Nat)
             /\ Once(pairs)
             /\ Range(pairs) = Range(hits) \X {k}
<1>. DEFINE pairs == [h \in DOMAIN hits |-> <<hits[h], k>>]
<1>1. pairs \in Seq(Nat \X Nat)
  OBVIOUS
<1>2. DOMAIN pairs = DOMAIN hits /\ \A h \in DOMAIN hits : pairs[h] = <<hits[h], k>>
  OBVIOUS
<1>3. \A h \in DOMAIN hits : pairs[h][1] = hits[h]
  OBVIOUS
<1>. HIDE DEF pairs
<1>4. Once(pairs)
  BY <1>2, <1>3, Zenon DEF Once
<1>5. Range(pairs) = {<<hits[h], k>> : h \in DOMAIN hits}
  BY <1>2, Zenon DEF Range
<1>6. Range(hits) = {hits[h] : h \in DOMAIN hits}
  BY Zenon DEF Range
<1>7. Range(pairs) = Range(hits) \X {k}
  BY <1>5, <1>6
<1>8. pairs = [h \in DOMAIN hits |-> <<hits[h], k>>]
  BY Zenon DEF pairs
<1>. QED  BY <1>1, <1>4, <1>7, <1>8

Hits(a, b, k) == Survivors(Len(a), {i \in DOMAIN a : a[i] = b[k]})
PairsAt(a, b, k) == [h \in DOMAIN Hits(a, b, k) |-> <<Hits(a, b, k)[h], k>>]
PairsOf(a, b) == FlattenSeq([k \in DOMAIN b |-> PairsAt(a, b, k)])

(* res is the pairs of positions with equal keys, each once.               *)
PairsExact(res, a, b) ==
  /\ Len(res) \in Nat /\ DOMAIN res = 1..Len(res)
  /\ \A x \in 1..Len(res) : /\ res[x][1] \in DOMAIN a
                            /\ res[x][2] \in DOMAIN b
                            /\ a[res[x][1]] = b[res[x][2]]
  /\ \A x, y \in 1..Len(res) : res[x][1] = res[y][1] /\ res[x][2] = res[y][2] => x = y
  /\ \A i \in DOMAIN a, k \in DOMAIN b : a[i] = b[k] =>
       \E x \in 1..Len(res) : res[x][1] = i /\ res[x][2] = k

LEMMA PairsFound ==
  ASSUME NEW a \in Seq(Nat), NEW b \in Seq(Nat)
  PROVE  PairsExact(PairsOf(a, b), a, b)
<1>. DEFINE hits(k) == Hits(a, b, k)
            pairs(k) == PairsAt(a, b, k)
            ss == [k \in DOMAIN b |-> pairs(k)]
            Matching(k) == {i \in DOMAIN a : a[i] = b[k]} \X {k}
            res == FlattenSeq(ss)
<1>1. \A k \in DOMAIN b : /\ pairs(k) \in Seq(Nat \X Nat)
                                /\ Once(pairs(k))
                                /\ Range(pairs(k)) = Matching(k)
  <2>. SUFFICES ASSUME NEW k \in DOMAIN b
                PROVE  /\ pairs(k) \in Seq(Nat \X Nat)
                       /\ Once(pairs(k))
                       /\ Range(pairs(k)) = Matching(k)
    OBVIOUS
  <2>. DEFINE kept == {i \in DOMAIN a : a[i] = b[k]}
  <2>1. Len(a) \in Nat /\ kept \in SUBSET (1..Len(a)) /\ k \in Nat
    OBVIOUS
  <2>2. hits(k) = Survivors(Len(a), kept)
    BY Zenon DEF Hits
  <2>. HIDE DEF hits, kept
  <2>3. hits(k) \in Seq(1..Len(a)) /\ Once(hits(k)) /\ Range(hits(k)) = kept
    BY <2>1, <2>2, SurvivorsFacts
  <2>4. hits(k) \in Seq(Nat)
    BY <2>1, <2>3
  <2>. DEFINE found == hits(k)
  <2>5. [h \in DOMAIN found |-> <<found[h], k>>] = pairs(k)
    BY Zenon DEF PairsAt, hits
  <2>. HIDE DEF found
  <2>6. found \in Seq(Nat) /\ Once(found)
    BY <2>3, <2>4 DEF found
  <2>7. pairs(k) \in Seq(Nat \X Nat) /\ Once(pairs(k)) /\ Range(pairs(k)) = Range(found) \X {k}
    BY <2>1, <2>5, <2>6, HitsOfOne, Zenon
  <2>. QED  BY <2>3, <2>7 DEF found, kept
<1>. HIDE DEF pairs
<1>2. /\ ss \in Seq(Seq(Nat \X Nat)) /\ DOMAIN ss = DOMAIN b
      /\ \A k \in DOMAIN ss : ss[k] = pairs(k)
  <2>1. DOMAIN b = 1..Len(b) /\ Len(b) \in Nat
    OBVIOUS
  <2>. HIDE DEF Matching
  <2>2. ss \in [1..Len(b) -> Seq(Nat \X Nat)]
    BY <1>1, <2>1
  <2>. QED  BY <2>1, <2>2, FunctionIsSequence
<1>. HIDE DEF ss
<1>3. \A k \in DOMAIN ss : Once(ss[k]) /\ Range(ss[k]) = Matching(k)
  BY <1>1, <1>2
<1>4. \A k, l \in DOMAIN ss : Range(ss[k]) \cap Range(ss[l]) # {} => k = l
  BY <1>3
<1>5. /\ res \in Seq(Nat \X Nat)
      /\ Once(res)
      /\ Range(res) = UNION {Range(ss[k]) : k \in DOMAIN ss}
  BY <1>2, <1>3, <1>4, FlattenSeqType, FlattenSeqOnce
<1>. HIDE DEF res, Matching
<1>6. Range(res) = UNION {Matching(k) : k \in DOMAIN b}
  BY <1>2, <1>3, <1>5
<1>7. Len(res) \in Nat /\ DOMAIN res = 1..Len(res)
  BY <1>5
<1>8. ASSUME NEW x \in 1..Len(res)
      PROVE  /\ res[x][1] \in DOMAIN a
             /\ res[x][2] \in DOMAIN b
             /\ a[res[x][1]] = b[res[x][2]]
             /\ res[x] = <<res[x][1], res[x][2]>>
  <2>1. res[x] \in Range(res)
    BY <1>7, Zenon DEF Range
  <2>2. PICK k \in DOMAIN b : res[x] \in Matching(k)
    BY <1>6, <2>1
  <2>. QED  BY <2>2 DEF Matching
<1>9. ASSUME NEW x \in 1..Len(res), NEW y \in 1..Len(res),
             res[x][1] = res[y][1], res[x][2] = res[y][2]
      PROVE  x = y
  <2>1. res[x] = res[y]
    BY <1>8, <1>9
  <2>. QED  BY <1>5, <1>7, <2>1, Zenon DEF Once
<1>10. ASSUME NEW i \in DOMAIN a, NEW k \in DOMAIN b, a[i] = b[k]
       PROVE  \E x \in 1..Len(res) : res[x][1] = i /\ res[x][2] = k
  <2>1. <<i, k>> \in Range(res)
    BY <1>6, <1>10 DEF Matching
  <2>2. PICK x \in 1..Len(res) : res[x] = <<i, k>>
    BY <1>7, <2>1, Zenon DEF Range
  <2>3. res[x][1] = i /\ res[x][2] = k
    BY <2>2
  <2>. QED  BY <2>3
<1>11. PairsExact(res, a, b)
  BY <1>7, <1>8, <1>9, <1>10 DEF PairsExact
<1>12. res = PairsOf(a, b)
  BY Zenon DEF res, ss, pairs, PairsOf
<1>. QED  BY <1>11, <1>12

(* Every pair of positions with equal keys is returned, once; switched     *)
(* says to which operand its two rows belong.                              *)
JoinOf(res, switched, r, s) ==
  /\ Len(res) \in Nat
  /\ \A x \in 1..Len(res) :
       /\ RowOfFirst(res[x], switched) \in DOMAIN r
       /\ RowOfSecond(res[x], switched) \in DOMAIN s
       /\ r[RowOfFirst(res[x], switched)] = s[RowOfSecond(res[x], switched)]
  /\ \A x, y \in 1..Len(res) :
       /\ RowOfFirst(res[x], switched) = RowOfFirst(res[y], switched)
       /\ RowOfSecond(res[x], switched) = RowOfSecond(res[y], switched)
       => x = y
  /\ \A a \in DOMAIN r, b \in DOMAIN s : r[a] = s[b] =>
       \E x \in 1..Len(res) : /\ RowOfFirst(res[x], switched) = a
                              /\ RowOfSecond(res[x], switched) = b

LEMMA JoinResult ==
  ASSUME NEW r \in Seq(Nat), NEW s \in Seq(Nat), NEW switched \in {0, 1}
  PROVE  /\ JoinOf(radixHashJoin(r, s, switched), switched, r, s)
         /\ DOMAIN radixHashJoin(r, s, switched) = 1..Len(radixHashJoin(r, s, switched))
<1>. DEFINE res == radixHashJoin(r, s, switched)
<1>1. CASE switched = 0
  <2>1. res = PairsOf(r, s)
    BY <1>1, Zenon DEF radixHashJoin, PairsOf, PairsAt, Hits
  <2>2. PairsExact(res, r, s)
    BY <2>1, PairsFound
  <2>. HIDE DEF res
  <2>3. JoinOf(res, switched, r, s) /\ DOMAIN res = 1..Len(res)
    <3>1. Len(res) \in Nat /\ DOMAIN res = 1..Len(res)
      BY <2>2, Zenon DEF PairsExact
    <3>2. \A x \in 1..Len(res) :
            /\ RowOfFirst(res[x], switched) \in DOMAIN r
            /\ RowOfSecond(res[x], switched) \in DOMAIN s
            /\ r[RowOfFirst(res[x], switched)] = s[RowOfSecond(res[x], switched)]
      BY <1>1, <2>2 DEF PairsExact, RowOfFirst, RowOfSecond
    <3>3. \A x, y \in 1..Len(res) :
            /\ RowOfFirst(res[x], switched) = RowOfFirst(res[y], switched)
            /\ RowOfSecond(res[x], switched) = RowOfSecond(res[y], switched)
            => x = y
      BY <1>1, <2>2 DEF PairsExact, RowOfFirst, RowOfSecond
    <3>4. \A a \in DOMAIN r, b \in DOMAIN s : r[a] = s[b] =>
            \E x \in 1..Len(res) : /\ RowOfFirst(res[x], switched) = a
                                   /\ RowOfSecond(res[x], switched) = b
      BY <1>1, <2>2 DEF PairsExact, RowOfFirst, RowOfSecond
    <3>. QED  BY <3>1, <3>2, <3>3, <3>4, Zenon DEF JoinOf
  <2>. QED  BY <2>3 DEF res
<1>2. CASE switched # 0
  <2>1. res = PairsOf(s, r)
    BY <1>2, Zenon DEF radixHashJoin, PairsOf, PairsAt, Hits
  <2>2. PairsExact(res, s, r)
    BY <2>1, PairsFound
  <2>. HIDE DEF res
  <2>3. JoinOf(res, switched, r, s) /\ DOMAIN res = 1..Len(res)
    <3>1. Len(res) \in Nat /\ DOMAIN res = 1..Len(res)
      BY <2>2, Zenon DEF PairsExact
    <3>2. \A x \in 1..Len(res) :
            /\ RowOfFirst(res[x], switched) \in DOMAIN r
            /\ RowOfSecond(res[x], switched) \in DOMAIN s
            /\ r[RowOfFirst(res[x], switched)] = s[RowOfSecond(res[x], switched)]
      BY <1>2, <2>2 DEF PairsExact, RowOfFirst, RowOfSecond
    <3>3. \A x, y \in 1..Len(res) :
            /\ RowOfFirst(res[x], switched) = RowOfFirst(res[y], switched)
            /\ RowOfSecond(res[x], switched) = RowOfSecond(res[y], switched)
            => x = y
      BY <1>2, <2>2 DEF PairsExact, RowOfFirst, RowOfSecond
    <3>4. \A a \in DOMAIN r, b \in DOMAIN s : r[a] = s[b] =>
            \E x \in 1..Len(res) : /\ RowOfFirst(res[x], switched) = a
                                   /\ RowOfSecond(res[x], switched) = b
      BY <1>2, <2>2 DEF PairsExact, RowOfFirst, RowOfSecond
    <3>. QED  BY <3>1, <3>2, <3>3, <3>4, Zenon DEF JoinOf
  <2>. QED  BY <2>3 DEF res
<1>. QED  BY <1>1, <1>2

-----------------------------------------------------------------------------
(* Nodes.  All that workerF and workerJ do to nodes is to select rows of   *)
(* one and to merge two.  A relation that is in no node is as one that is  *)
(* alone in a node with all its rows.                                      *)

BaseNode(rel, rows) == [joinedRels |-> <<rel>>, rowIds |-> <<[i \in rows[rel] |-> i]>>]

SelectedNode(node, pos) ==
  [joinedRels |-> node.joinedRels,
   rowIds |-> [c \in DOMAIN node.rowIds |-> [i \in DOMAIN pos |-> node.rowIds[c][pos[i]]]]]

MergedNode(node1, node2, res, switched) ==
  [joinedRels |-> node1.joinedRels \o node2.joinedRels,
   rowIds |-> [c \in DOMAIN node1.rowIds |->
                 [i \in DOMAIN res |-> node1.rowIds[c][RowOfFirst(res[i], switched)]]]
              \o [c \in DOMAIN node2.rowIds |->
                    [i \in DOMAIN res |-> node2.rowIds[c][RowOfSecond(res[i], switched)]]]]

(* Relations are numbers and have rows from 1.                             *)
RowsGiven(rows) == \A r \in DOMAIN rows : r \in Nat /\ \E k \in Nat : rows[r] = 1..k

LEMMA NodeMade ==
  ASSUME NEW rows,
         NEW rels \in Seq(Nat), rels # <<>>, Once(rels),
         NEW n \in Nat, NEW cols, DOMAIN cols = 1..Len(rels), cols \in Seq(Seq(Nat)),
         \A c \in 1..Len(rels) : /\ rels[c] \in DOMAIN rows
                                 /\ Len(cols[c]) = n
                                 /\ \A i \in 1..n : cols[c][i] \in rows[rels[c]],
         \A i, k \in 1..n : (\A c \in 1..Len(rels) : cols[c][i] = cols[c][k]) => i = k
  PROVE  LET node == [joinedRels |-> rels, rowIds |-> cols]
         IN  NodeSound(node, rows) /\ NumbOfRows(node) = n
<1>. DEFINE node == [joinedRels |-> rels, rowIds |-> cols]
<1>1. node \in Nodes /\ node.joinedRels = rels /\ node.rowIds = cols
  BY DEF Nodes
<1>2. Len(rels) \in Nat /\ 1 \in 1..Len(rels)
  OBVIOUS
<1>3. Len(cols) = Len(rels)
  BY <1>2
<1>4. NumbOfRows(node) = n
  BY <1>1, <1>2 DEF NumbOfRows
<1>. HIDE DEF node
<1>5. NodeSound(node, rows)
  BY <1>1, <1>3, <1>4 DEF NodeSound
<1>. QED  BY <1>4, <1>5 DEF node

LEMMA BaseSound ==
  ASSUME NEW rows, RowsGiven(rows), NEW rel \in DOMAIN rows
  PROVE  /\ NodeSound(BaseNode(rel, rows), rows)
         /\ rows[rel] = 1..NumbOfRows(BaseNode(rel, rows))
         /\ Range(BaseNode(rel, rows).joinedRels) = {rel}
<1>1. PICK k \in Nat : rows[rel] = 1..k
  BY DEF RowsGiven
<1>. DEFINE rels == <<rel>>
            all == [i \in 1..k |-> i]
            cols == <<all>>
<1>2. rel \in Nat
  BY DEF RowsGiven
<1>3. rels \in Seq(Nat) /\ rels # <<>> /\ Len(rels) = 1 /\ rels[1] = rel /\ Once(rels)
  BY <1>2 DEF Once
<1>4. all \in Seq(Nat) /\ Len(all) = k /\ \A i \in 1..k : all[i] = i
  OBVIOUS
<1>. HIDE DEF all
<1>5. cols \in Seq(Seq(Nat)) /\ DOMAIN cols = 1..1 /\ cols[1] = all
  BY <1>4
<1>6. BaseNode(rel, rows) = [joinedRels |-> rels, rowIds |-> cols]
  BY <1>1, Zenon DEF BaseNode, all
<1>7. Range(rels) = {rel}
  BY <1>3 DEF Range
<1>8. BaseNode(rel, rows).joinedRels = rels
  BY <1>6
<1>. HIDE DEF rels, cols
<1>9. \A c \in 1..Len(rels) : c = 1
  BY <1>3
<1>10. NodeSound(BaseNode(rel, rows), rows) /\ NumbOfRows(BaseNode(rel, rows)) = k
  <2>1. \A c \in 1..Len(rels) : /\ rels[c] \in DOMAIN rows
                                /\ Len(cols[c]) = k
                                /\ \A i \in 1..k : cols[c][i] \in rows[rels[c]]
    BY <1>1, <1>3, <1>4, <1>5, <1>9
  <2>2. \A i, l \in 1..k : (\A c \in 1..Len(rels) : cols[c][i] = cols[c][l]) => i = l
    BY <1>3, <1>4, <1>5
  <2>3. DOMAIN cols = 1..Len(rels)
    BY <1>3, <1>5
  <2>. DEFINE node == [joinedRels |-> rels, rowIds |-> cols]
  <2>4. rels \in Seq(Nat) /\ rels # <<>> /\ Once(rels) /\ cols \in Seq(Seq(Nat))
    BY <1>3, <1>5
  <2>5. NodeSound(node, rows) /\ NumbOfRows(node) = k
    BY <2>1, <2>2, <2>3, <2>4, NodeMade
  <2>. QED  BY <1>6, <2>5
<1>. QED  BY <1>1, <1>7, <1>8, <1>10

(* What is known of the columns of a node.                                 *)
LEMMA NodeFacts ==
  ASSUME NEW rows, NEW node, NodeSound(node, rows)
  PROVE  /\ node.joinedRels \in Seq(Nat) /\ node.rowIds \in Seq(Seq(Nat))
         /\ Len(node.joinedRels) \in Nat \ {0}
         /\ DOMAIN node.joinedRels = 1..Len(node.joinedRels)
         /\ DOMAIN node.rowIds = 1..Len(node.joinedRels)
         /\ NumbOfRows(node) \in Nat
         /\ \A c \in 1..Len(node.joinedRels) :
              /\ node.rowIds[c] \in [1..NumbOfRows(node) -> Nat]
              /\ DOMAIN node.rowIds[c] = 1..NumbOfRows(node)
<1>1. node.joinedRels \in Seq(Nat) /\ node.rowIds \in Seq(Seq(Nat))
  BY DEF NodeSound, Nodes
<1>2. /\ Len(node.joinedRels) \in Nat \ {0}
      /\ DOMAIN node.joinedRels = 1..Len(node.joinedRels)
      /\ DOMAIN node.rowIds = 1..Len(node.joinedRels)
  BY <1>1 DEF NodeSound
<1>3. 1 \in 1..Len(node.joinedRels) /\ node.rowIds[1] \in Seq(Nat)
  BY <1>1, <1>2
<1>4. NumbOfRows(node) \in Nat
  BY <1>3 DEF NumbOfRows
<1>5. ASSUME NEW c \in 1..Len(node.joinedRels)
      PROVE  /\ node.rowIds[c] \in [1..NumbOfRows(node) -> Nat]
             /\ DOMAIN node.rowIds[c] = 1..NumbOfRows(node)
  <2>1. node.rowIds[c] \in Seq(Nat) /\ Len(node.rowIds[c]) = NumbOfRows(node)
    BY <1>1, <1>2 DEF NodeSound
  <2>. QED  BY <2>1
<1>. QED  BY <1>1, <1>2, <1>4, <1>5

(* A selection of rows, each taken once.                                   *)
LEMMA SelectedSound ==
  ASSUME NEW rows, NEW node, NodeSound(node, rows),
         NEW pos \in Seq(1..NumbOfRows(node)), Once(pos)
  PROVE  LET new == SelectedNode(node, pos)
         IN  /\ NodeSound(new, rows)
             /\ NumbOfRows(new) = Len(pos)
             /\ new.joinedRels = node.joinedRels
             /\ \A c \in 1..Len(node.joinedRels) : \A i \in 1..Len(pos) :
                  new.rowIds[c][i] = node.rowIds[c][pos[i]]
<1>. DEFINE rels == node.joinedRels
            n == Len(pos)
            col(c) == [i \in DOMAIN pos |-> node.rowIds[c][pos[i]]]
            cols == [c \in DOMAIN node.rowIds |-> col(c)]
            m == NumbOfRows(node)
<1>1. /\ rels \in Seq(Nat) /\ Len(rels) \in Nat \ {0} /\ DOMAIN node.rowIds = 1..Len(rels)
      /\ m \in Nat
      /\ \A c \in 1..Len(rels) : node.rowIds[c] \in [1..m -> Nat]
  BY NodeFacts
<1>2. rels # <<>> /\ Once(rels)
  BY DEF NodeSound
<1>3. n \in Nat /\ DOMAIN pos = 1..n /\ \A i \in 1..n : pos[i] \in 1..m
  <2>1. n \in Nat /\ DOMAIN pos = 1..n
    OBVIOUS
  <2>2. \A i \in 1..n : pos[i] \in 1..m
    <3>. DEFINE S == 1..m
    <3>1. pos \in Seq(S)
      OBVIOUS
    <3>. HIDE DEF S
    <3>2. \A i \in 1..n : pos[i] \in S
      BY <3>1
    <3>. QED  BY <3>2 DEF S
  <2>. QED  BY <2>1, <2>2
<1>4. \A c \in 1..Len(rels) : /\ \A i \in 1..m : node.rowIds[c][i] \in rows[rels[c]]
                              /\ rels[c] \in DOMAIN rows
  BY DEF NodeSound
<1>5. \A i, k \in 1..m : (\A c \in 1..Len(rels) : node.rowIds[c][i] = node.rowIds[c][k]) => i = k
  BY Zenon DEF NodeSound
<1>. HIDE DEF rels, n, m
<1>6. \A c \in 1..Len(rels) : \A i \in 1..n : col(c)[i] = node.rowIds[c][pos[i]]
  BY <1>3
<1>7. \A c \in 1..Len(rels) : col(c) \in Seq(Nat) /\ Len(col(c)) = n
  <2>. SUFFICES ASSUME NEW c \in 1..Len(rels)
                PROVE  col(c) \in Seq(Nat) /\ Len(col(c)) = n
    OBVIOUS
  <2>1. col(c) \in [1..n -> Nat]
    BY <1>1, <1>3
  <2>. HIDE DEF col
  <2>. QED  BY <1>3, <2>1, FunctionIsSequence
<1>. HIDE DEF col
<1>8. /\ cols \in Seq(Seq(Nat)) /\ DOMAIN cols = 1..Len(rels)
      /\ \A c \in 1..Len(rels) : cols[c] = col(c)
  <2>1. cols \in [1..Len(rels) -> Seq(Nat)]
    BY <1>1, <1>7
  <2>. QED  BY <1>1, <2>1, FunctionIsSequence
<1>. HIDE DEF cols
<1>9. \A c \in 1..Len(rels) : /\ rels[c] \in DOMAIN rows
                              /\ Len(cols[c]) = n
                              /\ \A i \in 1..n : cols[c][i] \in rows[rels[c]]
  <2>. TAKE c \in 1..Len(rels)
  <2>1. rels[c] \in DOMAIN rows /\ Len(cols[c]) = n
    BY <1>4, <1>7, <1>8
  <2>2. \A i \in 1..n : cols[c][i] = node.rowIds[c][pos[i]]
    BY <1>6, <1>8
  <2>3. \A i \in 1..n : cols[c][i] \in rows[rels[c]]
    BY <1>3, <1>4, <2>2
  <2>. QED  BY <2>1, <2>3
<1>10. ASSUME NEW i \in 1..n, NEW k \in 1..n, \A c \in 1..Len(rels) : cols[c][i] = cols[c][k]
       PROVE  i = k
  <2>1. \A c \in 1..Len(rels) : node.rowIds[c][pos[i]] = node.rowIds[c][pos[k]]
    BY <1>6, <1>8, <1>10
  <2>2. pos[i] = pos[k]
    BY <1>3, <1>5, <2>1
  <2>. QED  BY <1>3, <2>2, Zenon DEF Once
<1>11. \A i, k \in 1..n : (\A c \in 1..Len(rels) : cols[c][i] = cols[c][k]) => i = k
  BY <1>10
<1>. DEFINE new == [joinedRels |-> rels, rowIds |-> cols]
<1>12. NodeSound(new, rows) /\ NumbOfRows(new) = n
  <2>1. /\ rels \in Seq(Nat) /\ rels # <<>> /\ Once(rels) /\ n \in Nat
        /\ DOMAIN cols = 1..Len(rels) /\ cols \in Seq(Seq(Nat))
    BY <1>1, <1>2, <1>3, <1>8
  <2>. QED  BY <1>9, <1>11, <2>1, NodeMade
<1>13. new = SelectedNode(node, pos)
  BY Zenon DEF rels, cols, col, SelectedNode
<1>14. new.joinedRels = rels /\ new.rowIds = cols
  OBVIOUS
<1>15. \A c \in 1..Len(rels) : \A i \in 1..n : new.rowIds[c][i] = node.rowIds[c][pos[i]]
  BY <1>6, <1>8, <1>14
<1>. HIDE DEF new
<1>. QED  BY <1>12, <1>13, <1>14, <1>15 DEF rels, n

(* Pairs of rows of two nodes, each once.                                  *)
PairsGiven(res, switched, k1, k2) ==
  /\ Len(res) \in Nat /\ DOMAIN res = 1..Len(res)
  /\ \A i \in 1..Len(res) : /\ RowOfFirst(res[i], switched) \in 1..k1
                            /\ RowOfSecond(res[i], switched) \in 1..k2
  /\ \A i, k \in 1..Len(res) :
       /\ RowOfFirst(res[i], switched) = RowOfFirst(res[k], switched)
       /\ RowOfSecond(res[i], switched) = RowOfSecond(res[k], switched)
       => i = k

MergeMade(new, node1, node2, res, switched) ==
  /\ NumbOfRows(new) = Len(res)
  /\ new.joinedRels = node1.joinedRels \o node2.joinedRels
  /\ Range(new.joinedRels) = Range(node1.joinedRels) \cup Range(node2.joinedRels)
  /\ \A c \in 1..Len(node1.joinedRels) : \A i \in 1..Len(res) :
       new.rowIds[c][i] = node1.rowIds[c][RowOfFirst(res[i], switched)]
  /\ \A c \in 1..Len(node2.joinedRels) : \A i \in 1..Len(res) :
       new.rowIds[Len(node1.joinedRels) + c][i]
         = node2.rowIds[c][RowOfSecond(res[i], switched)]

(* Pairs of rows of two nodes that have no relation in common.             *)
LEMMA MergedSound ==
  ASSUME NEW rows, NEW node1, NodeSound(node1, rows), NEW node2, NodeSound(node2, rows),
         Range(node1.joinedRels) \cap Range(node2.joinedRels) = {},
         NEW res, NEW switched,
         PairsGiven(res, switched, NumbOfRows(node1), NumbOfRows(node2))
  PROVE  /\ NodeSound(MergedNode(node1, node2, res, switched), rows)
         /\ MergeMade(MergedNode(node1, node2, res, switched), node1, node2, res, switched)
<1>. DEFINE r1 == node1.joinedRels
            r2 == node2.joinedRels
            n1 == NumbOfRows(node1)
            n2 == NumbOfRows(node2)
            first == [i \in 1..Len(res) |-> RowOfFirst(res[i], switched)]
            second == [i \in 1..Len(res) |-> RowOfSecond(res[i], switched)]
            col1(c) == [i \in 1..Len(res) |-> node1.rowIds[c][first[i]]]
            col2(c) == [i \in 1..Len(res) |-> node2.rowIds[c][second[i]]]
            cols1 == [c \in 1..Len(r1) |-> col1(c)]
            cols2 == [c \in 1..Len(r2) |-> col2(c)]
            rels == r1 \o r2
            cols == cols1 \o cols2
            n == Len(res)
<1>1. /\ r1 \in Seq(Nat) /\ Len(r1) \in Nat \ {0} /\ DOMAIN node1.rowIds = 1..Len(r1)
      /\ n1 \in Nat /\ DOMAIN r1 = 1..Len(r1)
      /\ \A c \in 1..Len(r1) : node1.rowIds[c] \in [1..n1 -> Nat]
  BY NodeFacts
<1>2. /\ r2 \in Seq(Nat) /\ Len(r2) \in Nat \ {0} /\ DOMAIN node2.rowIds = 1..Len(r2)
      /\ n2 \in Nat /\ DOMAIN r2 = 1..Len(r2)
      /\ \A c \in 1..Len(r2) : node2.rowIds[c] \in [1..n2 -> Nat]
  BY NodeFacts
<1>3. Once(r1) /\ Once(r2)
  BY DEF NodeSound
<1>4. \A c \in 1..Len(r1) : /\ \A i \in 1..n1 : node1.rowIds[c][i] \in rows[r1[c]]
                            /\ r1[c] \in DOMAIN rows
  BY DEF NodeSound
<1>5. \A c \in 1..Len(r2) : /\ \A i \in 1..n2 : node2.rowIds[c][i] \in rows[r2[c]]
                            /\ r2[c] \in DOMAIN rows
  BY DEF NodeSound
<1>6. \A i, k \in 1..n1 : (\A c \in 1..Len(r1) : node1.rowIds[c][i] = node1.rowIds[c][k]) => i = k
  BY Zenon DEF NodeSound
<1>7. \A i, k \in 1..n2 : (\A c \in 1..Len(r2) : node2.rowIds[c][i] = node2.rowIds[c][k]) => i = k
  BY Zenon DEF NodeSound
<1>8. n \in Nat /\ DOMAIN res = 1..n
  BY Zenon DEF PairsGiven
<1>9. \A i \in 1..n : first[i] \in 1..n1 /\ second[i] \in 1..n2
  BY DEF PairsGiven
<1>10. \A i, k \in 1..n : first[i] = first[k] /\ second[i] = second[k] => i = k
  BY DEF PairsGiven
<1>11. MergedNode(node1, node2, res, switched) = [joinedRels |-> rels, rowIds |-> cols]
  <2>1. \A c : [i \in DOMAIN res |-> node1.rowIds[c][RowOfFirst(res[i], switched)]] = col1(c)
    BY <1>8
  <2>2. \A c : [i \in DOMAIN res |-> node2.rowIds[c][RowOfSecond(res[i], switched)]] = col2(c)
    BY <1>8
  <2>. HIDE DEF col1, col2
  <2>3. cols1 = [c \in DOMAIN node1.rowIds |->
                   [i \in DOMAIN res |-> node1.rowIds[c][RowOfFirst(res[i], switched)]]]
    BY <1>1, <2>1
  <2>4. cols2 = [c \in DOMAIN node2.rowIds |->
                   [i \in DOMAIN res |-> node2.rowIds[c][RowOfSecond(res[i], switched)]]]
    BY <1>2, <2>2
  <2>. HIDE DEF cols1, cols2
  <2>. QED  BY <2>3, <2>4, Zenon DEF MergedNode
<1>12. \A i \in 1..n : /\ first[i] = RowOfFirst(res[i], switched)
                       /\ second[i] = RowOfSecond(res[i], switched)
  OBVIOUS
<1>. HIDE DEF r1, r2, n1, n2, first, second, n
<1>13. \A c \in 1..Len(r1) : \A i \in 1..n : col1(c)[i] = node1.rowIds[c][first[i]]
  BY DEF n
<1>14. \A c \in 1..Len(r2) : \A i \in 1..n : col2(c)[i] = node2.rowIds[c][second[i]]
  BY DEF n
<1>15. \A c \in 1..Len(r1) : col1(c) \in Seq(Nat) /\ Len(col1(c)) = n
  <2>. SUFFICES ASSUME NEW c \in 1..Len(r1)
                PROVE  col1(c) \in Seq(Nat) /\ Len(col1(c)) = n
    OBVIOUS
  <2>1. col1(c) \in [1..n -> Nat]
    BY <1>1, <1>9 DEF n
  <2>. HIDE DEF col1
  <2>. QED  BY <1>8, <2>1, FunctionIsSequence
<1>16. \A c \in 1..Len(r2) : col2(c) \in Seq(Nat) /\ Len(col2(c)) = n
  <2>. SUFFICES ASSUME NEW c \in 1..Len(r2)
                PROVE  col2(c) \in Seq(Nat) /\ Len(col2(c)) = n
    OBVIOUS
  <2>1. col2(c) \in [1..n -> Nat]
    BY <1>2, <1>9 DEF n
  <2>. HIDE DEF col2
  <2>. QED  BY <1>8, <2>1, FunctionIsSequence
<1>. HIDE DEF col1, col2
<1>17. cols1 \in Seq(Seq(Nat)) /\ Len(cols1) = Len(r1) /\ \A c \in 1..Len(r1) : cols1[c] = col1(c)
  <2>. DEFINE S == Seq(Nat)
  <2>1. cols1 \in [1..Len(r1) -> S] /\ \A c \in 1..Len(r1) : cols1[c] = col1(c)
    BY <1>15
  <2>. HIDE DEF cols1, S
  <2>2. cols1 \in Seq(S) /\ Len(cols1) = Len(r1)
    BY <1>1, <2>1, FunctionIsSequence
  <2>. QED  BY <2>1, <2>2, Zenon DEF S
<1>18. cols2 \in Seq(Seq(Nat)) /\ Len(cols2) = Len(r2) /\ \A c \in 1..Len(r2) : cols2[c] = col2(c)
  <2>. DEFINE S == Seq(Nat)
  <2>1. cols2 \in [1..Len(r2) -> S] /\ \A c \in 1..Len(r2) : cols2[c] = col2(c)
    BY <1>16
  <2>. HIDE DEF cols2, S
  <2>2. cols2 \in Seq(S) /\ Len(cols2) = Len(r2)
    BY <1>2, <2>1, FunctionIsSequence
  <2>. QED  BY <2>1, <2>2, Zenon DEF S
<1>. HIDE DEF cols1, cols2
<1>19. /\ cols \in Seq(Seq(Nat)) /\ Len(cols) = Len(r1) + Len(r2)
       /\ \A c \in 1..Len(r1) : cols[c] = cols1[c]
       /\ \A c \in 1..Len(r2) : cols[Len(r1) + c] = cols2[c]
  <2>. DEFINE S == Seq(Nat)
  <2>0. cols1 \in Seq(S) /\ cols2 \in Seq(S)
    BY <1>17, <1>18
  <2>. HIDE DEF S
  <2>1. /\ cols \in Seq(S) /\ Len(cols) = Len(cols1) + Len(cols2)
        /\ \A c \in 1..Len(cols1)+Len(cols2) :
             cols[c] = IF c <= Len(cols1) THEN cols1[c] ELSE cols2[c - Len(cols1)]
    BY <2>0, ConcatProperties, LenProperties
  <2>. HIDE DEF cols
  <2>2. Len(cols1) = Len(r1) /\ Len(cols2) = Len(r2) /\ Len(r1) \in Nat /\ Len(r2) \in Nat
    BY <1>1, <1>2, <1>17, <1>18
  <2>3. \A c \in 1..Len(r1) : cols[c] = cols1[c]
    BY <2>1, <2>2
  <2>4. \A c \in 1..Len(r2) : cols[Len(r1) + c] = cols2[c]
    BY <2>1, <2>2
  <2>5. cols \in Seq(Seq(Nat))
    BY <2>1 DEF S
  <2>6. Len(cols) = Len(r1) + Len(r2)
    BY <2>1, <2>2
  <2>. QED  BY <2>3, <2>4, <2>5, <2>6
<1>20. /\ rels \in Seq(Nat) /\ Len(rels) = Len(r1) + Len(r2)
       /\ \A c \in 1..Len(r1) : rels[c] = r1[c]
       /\ \A c \in 1..Len(r2) : rels[Len(r1) + c] = r2[c]
  BY <1>1, <1>2
<1>21. Once(rels) /\ Range(rels) = Range(r1) \cup Range(r2)
  <2>1. Range(r1) \cap Range(r2) = {}
    BY DEF r1, r2
  <2>. QED  BY <1>1, <1>2, <1>3, <2>1, OnceConcat, RangeConcatenation
<1>22. rels # <<>>
  BY <1>1, <1>2, <1>20
<1>23. rels = node1.joinedRels \o node2.joinedRels
  BY DEF r1, r2
<1>. HIDE DEF rels, cols
<1>24. \A c \in 1..Len(rels) : c \in 1..Len(r1) \/ \E d \in 1..Len(r2) : c = Len(r1) + d
  <2>. SUFFICES ASSUME NEW c \in 1..Len(rels), c \notin 1..Len(r1)
                PROVE  \E d \in 1..Len(r2) : c = Len(r1) + d
    OBVIOUS
  <2>1. c - Len(r1) \in 1..Len(r2) /\ c = Len(r1) + (c - Len(r1))
    BY <1>1, <1>2, <1>20
  <2>. QED  BY <2>1
<1>25. \A c \in 1..Len(r1) : c \in 1..Len(rels)
  BY <1>1, <1>2, <1>20
<1>26. \A c \in 1..Len(r2) : Len(r1) + c \in 1..Len(rels)
  BY <1>1, <1>2, <1>20
<1>27. \A c \in 1..Len(r1) : \A i \in 1..n : cols[c][i] = node1.rowIds[c][first[i]]
  <2>. TAKE c \in 1..Len(r1)
  <2>1. cols[c] = col1(c)
    BY <1>17, <1>19
  <2>. TAKE i \in 1..n
  <2>2. col1(c)[i] = node1.rowIds[c][first[i]]
    BY <1>13
  <2>. QED  BY <2>1, <2>2, Zenon
<1>28. \A c \in 1..Len(r2) : \A i \in 1..n : cols[Len(r1) + c][i] = node2.rowIds[c][second[i]]
  <2>. TAKE c \in 1..Len(r2)
  <2>1. cols[Len(r1) + c] = col2(c)
    BY <1>18, <1>19
  <2>. TAKE i \in 1..n
  <2>2. col2(c)[i] = node2.rowIds[c][second[i]]
    BY <1>14
  <2>. QED  BY <2>1, <2>2, Zenon
<1>29. ASSUME NEW c \in 1..Len(rels)
       PROVE  /\ rels[c] \in DOMAIN rows
              /\ Len(cols[c]) = n
              /\ \A i \in 1..n : cols[c][i] \in rows[rels[c]]
  <2>1. CASE c \in 1..Len(r1)
    <3>1. Len(cols[c]) = n
      BY <1>15, <1>17, <1>19, <2>1
    <3>2. rels[c] \in DOMAIN rows
      BY <1>4, <1>20, <2>1
    <3>3. \A i \in 1..n : cols[c][i] \in rows[rels[c]]
      BY <1>4, <1>9, <1>20, <1>27, <2>1, Zenon
    <3>. QED  BY <3>1, <3>2, <3>3
  <2>2. CASE c \notin 1..Len(r1)
    <3>1. PICK d \in 1..Len(r2) : c = Len(r1) + d
      BY <1>24, <2>2
    <3>2. cols[c] = col2(d) /\ rels[c] = r2[d]
      BY <1>18, <1>19, <1>20, <3>1
    <3>3. Len(cols[c]) = n
      BY <1>16, <3>2
    <3>4. rels[c] \in DOMAIN rows
      BY <1>5, <3>2
    <3>5. \A i \in 1..n : cols[c][i] = node2.rowIds[d][second[i]]
      BY <1>28, <3>1, Zenon
    <3>6. \A i \in 1..n : cols[c][i] \in rows[rels[c]]
      <4>. TAKE i \in 1..n
      <4>1. node2.rowIds[d][second[i]] \in rows[r2[d]]
        BY <1>5, <1>9
      <4>2. cols[c][i] = node2.rowIds[d][second[i]] /\ rels[c] = r2[d]
        BY <3>2, <3>5, Zenon
      <4>. QED  BY <4>1, <4>2, Zenon
    <3>. QED  BY <3>3, <3>4, <3>6
  <2>. QED  BY <2>1, <2>2
<1>30. ASSUME NEW i \in 1..n, NEW k \in 1..n, \A c \in 1..Len(rels) : cols[c][i] = cols[c][k]
       PROVE  i = k
  <2>1. \A c \in 1..Len(r1) : node1.rowIds[c][first[i]] = node1.rowIds[c][first[k]]
    BY <1>25, <1>27, <1>30
  <2>2. \A c \in 1..Len(r2) : node2.rowIds[c][second[i]] = node2.rowIds[c][second[k]]
    BY <1>26, <1>28, <1>30
  <2>3. first[i] = first[k] /\ second[i] = second[k]
    BY <1>6, <1>7, <1>9, <2>1, <2>2, Zenon
  <2>. QED  BY <1>10, <2>3
<1>31. \A c \in 1..Len(rels) : /\ rels[c] \in DOMAIN rows
                               /\ Len(cols[c]) = n
                               /\ \A i \in 1..n : cols[c][i] \in rows[rels[c]]
  BY <1>29
<1>32. \A i, k \in 1..n : (\A c \in 1..Len(rels) : cols[c][i] = cols[c][k]) => i = k
  BY <1>30
<1>33. /\ rels \in Seq(Nat) /\ rels # <<>> /\ Once(rels) /\ n \in Nat
       /\ DOMAIN cols = 1..Len(rels) /\ cols \in Seq(Seq(Nat))
  BY <1>8, <1>19, <1>20, <1>21, <1>22
<1>. DEFINE new == [joinedRels |-> rels, rowIds |-> cols]
<1>34. NodeSound(new, rows) /\ NumbOfRows(new) = n
  BY <1>31, <1>32, <1>33, NodeMade
<1>35. new.joinedRels = rels /\ new.rowIds = cols
  OBVIOUS
<1>36. new = MergedNode(node1, node2, res, switched)
  BY <1>11
<1>. HIDE DEF new
<1>37. \A c \in 1..Len(r1) : \A i \in 1..n :
         new.rowIds[c][i] = node1.rowIds[c][RowOfFirst(res[i], switched)]
  BY <1>12, <1>27, <1>35
<1>38. \A c \in 1..Len(r2) : \A i \in 1..n :
         new.rowIds[Len(r1) + c][i] = node2.rowIds[c][RowOfSecond(res[i], switched)]
  BY <1>12, <1>28, <1>35
<1>39. MergeMade(new, node1, node2, res, switched)
  BY <1>21, <1>23, <1>34, <1>35, <1>37, <1>38, Zenon DEF r1, r2, n, MergeMade
<1>. QED  BY <1>34, <1>36, <1>39, Zenon

-----------------------------------------------------------------------------
(* Lists.  A predicate replaces the nodes it needs by one.                 *)

(* new has node, and those of list that are not at the places old.         *)
Replaces(list, old, node, new) ==
  LET rest == {0} \cup (1..Len(list) \ old)
  IN  \E src \in [1..Len(new) -> rest] :
        /\ \A i, k \in 1..Len(new) : src[i] = src[k] => i = k
        /\ \A m \in rest : \E i \in 1..Len(new) : src[i] = m
        /\ \A i \in 1..Len(new) : new[i] = IF src[i] = 0 THEN node ELSE list[src[i]]

LEMMA PushReplaces ==
  ASSUME NEW list \in Seq(Nodes), NEW node \in Nodes
  PROVE  Append(list, node) \in Seq(Nodes) /\ Replaces(list, {}, node, Append(list, node))
<1>. DEFINE new == Append(list, node)
            n == Len(list)
            rest == {0} \cup (1..n \ {})
            src == [i \in 1..n+1 |-> IF i = n + 1 THEN 0 ELSE i]
<1>1. n \in Nat /\ new \in Seq(Nodes) /\ Len(new) = n + 1
      /\ \A i \in 1..n+1 : new[i] = IF i = n + 1 THEN node ELSE list[i]
  OBVIOUS
<1>2. src \in [1..n+1 -> rest] /\ \A i \in 1..n+1 : src[i] = IF i = n + 1 THEN 0 ELSE i
  BY <1>1
<1>. HIDE DEF new, src
<1>3. \A i, k \in 1..n+1 : src[i] = src[k] => i = k
  BY <1>1, <1>2
<1>4. \A m \in rest : \E i \in 1..n+1 : src[i] = m
  <2>1. src[n + 1] = 0 /\ n + 1 \in 1..n+1
    BY <1>1, <1>2
  <2>2. \A m \in 1..n : m \in 1..n+1 /\ src[m] = m
    BY <1>1, <1>2
  <2>. QED  BY <2>1, <2>2
<1>5. \A i \in 1..n+1 : new[i] = IF src[i] = 0 THEN node ELSE list[src[i]]
  BY <1>1, <1>2
<1>6. Replaces(list, {}, node, new)
  BY <1>1, <1>2, <1>3, <1>4, <1>5 DEF Replaces
<1>. QED  BY <1>1, <1>6 DEF new

LEMMA UpdateReplaces ==
  ASSUME NEW list \in Seq(Nodes), NEW node \in Nodes, NEW n \in 1..Len(list)
  PROVE  LET new == [list EXCEPT ![n] = node]
         IN  new \in Seq(Nodes) /\ Replaces(list, {n}, node, new)
<1>. DEFINE new == [list EXCEPT ![n] = node]
            rest == {0} \cup (1..Len(list) \ {n})
            src == [i \in 1..Len(list) |-> IF i = n THEN 0 ELSE i]
<1>1. new \in Seq(Nodes) /\ Len(new) = Len(list) /\ Len(list) \in Nat
      /\ \A i \in 1..Len(list) : new[i] = IF i = n THEN node ELSE list[i]
  OBVIOUS
<1>2. src \in [1..Len(list) -> rest] /\ \A i \in 1..Len(list) : src[i] = IF i = n THEN 0 ELSE i
  BY <1>1
<1>. HIDE DEF new, src
<1>3. \A i, k \in 1..Len(list) : src[i] = src[k] => i = k
  BY <1>1, <1>2
<1>4. \A m \in rest : \E i \in 1..Len(list) : src[i] = m
  BY <1>1, <1>2
<1>5. \A i \in 1..Len(list) : new[i] = IF src[i] = 0 THEN node ELSE list[src[i]]
  BY <1>1, <1>2
<1>6. Replaces(list, {n}, node, new)
  BY <1>1, <1>2, <1>3, <1>4, <1>5 DEF Replaces
<1>. QED  BY <1>1, <1>6 DEF new

LEMMA MergeReplaces ==
  ASSUME NEW list \in Seq(Nodes), NEW node \in Nodes,
         NEW n1 \in 1..Len(list), NEW n2 \in 1..Len(list), n1 # n2
  PROVE  LET new == RemoveAt([list EXCEPT ![n1] = node], n2)
         IN  new \in Seq(Nodes) /\ Replaces(list, {n1, n2}, node, new)
<1>. DEFINE mid == [list EXCEPT ![n1] = node]
            new == RemoveAt(mid, n2)
            last == Len(list) - 1
            rest == {0} \cup (1..Len(list) \ {n1, n2})
            At(i) == IF i < n2 THEN i ELSE i + 1
            src == [i \in 1..last |-> IF At(i) = n1 THEN 0 ELSE At(i)]
<1>1. mid \in Seq(Nodes) /\ Len(mid) = Len(list) /\ Len(list) \in Nat /\ last \in Nat
      /\ \A i \in 1..Len(list) : mid[i] = IF i = n1 THEN node ELSE list[i]
  OBVIOUS
<1>. HIDE DEF mid
<1>2. new \in Seq(Nodes) /\ Len(new) = last
      /\ \A i \in 1..last : new[i] = IF i < n2 THEN mid[i] ELSE mid[i+1]
  BY <1>1, RemoveAtFacts
<1>. HIDE DEF new
<1>3. \A i \in 1..last : /\ At(i) \in 1..Len(list) \ {n2}
                         /\ new[i] = mid[At(i)]
  BY <1>1, <1>2
<1>4. \A i, k \in 1..last : At(i) = At(k) => i = k
  BY <1>1
<1>5. \A m \in 1..Len(list) \ {n2} : \E i \in 1..last : At(i) = m
  <2>. TAKE m \in 1..Len(list) \ {n2}
  <2>1. CASE m < n2
    <3>1. m \in 1..last /\ At(m) = m
      BY <1>1, <2>1
    <3>. QED  BY <3>1
  <2>2. CASE m > n2
    <3>1. m - 1 \in 1..last /\ At(m - 1) = m
      BY <1>1, <2>2
    <3>. QED  BY <3>1
  <2>. QED  BY <1>1, <2>1, <2>2
<1>. HIDE DEF At
<1>6. src \in [1..last -> rest]
      /\ \A i \in 1..last : src[i] = IF At(i) = n1 THEN 0 ELSE At(i)
  BY <1>1, <1>3
<1>. HIDE DEF src
<1>7. \A i, k \in 1..last : src[i] = src[k] => i = k
  BY <1>1, <1>3, <1>4, <1>6
<1>8. \A m \in rest : \E i \in 1..last : src[i] = m
  <2>. TAKE m \in rest
  <2>1. CASE m = 0
    <3>1. PICK i \in 1..last : At(i) = n1
      BY <1>5
    <3>. QED  BY <1>6, <2>1, <3>1
  <2>2. CASE m # 0
    <3>1. m \in 1..Len(list) \ {n2} /\ m # n1
      BY <2>2
    <3>2. PICK i \in 1..last : At(i) = m
      BY <1>5, <3>1
    <3>. QED  BY <1>6, <3>1, <3>2
  <2>. QED  BY <2>1, <2>2
<1>9. \A i \in 1..last : new[i] = IF src[i] = 0 THEN node ELSE list[src[i]]
  <2>. TAKE i \in 1..last
  <2>1. new[i] = IF At(i) = n1 THEN node ELSE list[At(i)]
    BY <1>1, <1>3
  <2>2. At(i) # 0
    BY <1>1, <1>3
  <2>. QED  BY <1>6, <2>1, <2>2
<1>10. Replaces(list, {n1, n2}, node, new)
  <2>1. Len(new) = last
    BY <1>2
  <2>2. src \in [1..Len(new) -> rest]
    BY <1>6, <2>1
  <2>3. \A i, k \in 1..Len(new) : src[i] = src[k] => i = k
    BY <1>7, <2>1
  <2>4. \A m \in rest : \E i \in 1..Len(new) : src[i] = m
    BY <1>8, <2>1
  <2>5. \A i \in 1..Len(new) : new[i] = IF src[i] = 0 THEN node ELSE list[src[i]]
    BY <1>9, <2>1
  <2>. QED  BY <2>2, <2>3, <2>4, <2>5 DEF Replaces
<1>. QED  BY <1>2, <1>10 DEF new, mid

(* A node that has the relations of those it replaces, and none of the     *)
(* other nodes'.                                                           *)
LEMMA ReplacedSound ==
  ASSUME NEW rows, NEW list, ListSound(list, rows), NEW node, NodeSound(node, rows),
         NEW old \in SUBSET (1..Len(list)), NEW new \in Seq(Nodes),
         Replaces(list, old, node, new),
         \A m \in old : Range(list[m].joinedRels) \subseteq Range(node.joinedRels),
         \A m \in 1..Len(list) \ old :
           Range(list[m].joinedRels) \cap Range(node.joinedRels) = {}
  PROVE  /\ ListSound(new, rows)
         /\ \A rels : Together(list, rels) => Together(new, rels)
         /\ \A rels : rels \subseteq Range(node.joinedRels) => Together(new, rels)
<1>. DEFINE rest == {0} \cup (1..Len(list) \ old)
<1>1. PICK src \in [1..Len(new) -> rest] :
        /\ \A i, k \in 1..Len(new) : src[i] = src[k] => i = k
        /\ \A m \in rest : \E i \in 1..Len(new) : src[i] = m
        /\ \A i \in 1..Len(new) : new[i] = IF src[i] = 0 THEN node ELSE list[src[i]]
  BY DEF Replaces
<1>2. \A m \in 1..Len(list) : m # 0 /\ NodeSound(list[m], rows)
  BY DEF ListSound
<1>3. \A n, m \in 1..Len(list) :
        Range(list[n].joinedRels) \cap Range(list[m].joinedRels) # {} => n = m
  BY DEF ListSound
<1>4. \A i \in 1..Len(new) : \/ src[i] = 0 /\ new[i] = node
                             \/ src[i] \in 1..Len(list) \ old /\ new[i] = list[src[i]]
  BY <1>1
<1>5. \A i \in 1..Len(new) : NodeSound(new[i], rows)
  BY <1>2, <1>4
<1>6. ASSUME NEW i \in 1..Len(new), NEW k \in 1..Len(new),
             Range(new[i].joinedRels) \cap Range(new[k].joinedRels) # {}
      PROVE  i = k
  <2>1. CASE src[i] = 0 /\ src[k] = 0
    BY <1>1, <2>1
  <2>2. CASE src[i] = 0 /\ src[k] # 0
    <3>1. new[i] = node /\ src[k] \in 1..Len(list) \ old /\ new[k] = list[src[k]]
      BY <1>4, <2>2
    <3>2. Range(new[k].joinedRels) \cap Range(new[i].joinedRels) = {}
      BY <3>1
    <3>. QED  BY <1>6, <3>2
  <2>3. CASE src[i] # 0 /\ src[k] = 0
    <3>1. new[k] = node /\ src[i] \in 1..Len(list) \ old /\ new[i] = list[src[i]]
      BY <1>4, <2>3
    <3>. QED  BY <1>6, <3>1
  <2>4. CASE src[i] # 0 /\ src[k] # 0
    <3>1. src[i] = src[k]
      BY <1>3, <1>4, <1>6, <2>4
    <3>. QED  BY <1>1, <3>1
  <2>. QED  BY <2>1, <2>2, <2>3, <2>4
<1>7. ListSound(new, rows)
  BY <1>5, <1>6 DEF ListSound
<1>8. ASSUME NEW rels, rels \subseteq Range(node.joinedRels)
      PROVE  Together(new, rels)
  <2>1. PICK i \in 1..Len(new) : src[i] = 0
    BY <1>1
  <2>2. new[i] = node
    BY <1>2, <1>4, <2>1
  <2>. QED  BY <1>8, <2>2 DEF Together
<1>9. ASSUME NEW rels, Together(list, rels)
      PROVE  Together(new, rels)
  <2>1. PICK m \in 1..Len(list) : rels \subseteq Range(list[m].joinedRels)
    BY <1>9 DEF Together
  <2>2. CASE m \in old
    <3>1. rels \subseteq Range(node.joinedRels)
      BY <2>1, <2>2
    <3>. QED  BY <1>8, <3>1
  <2>3. CASE m \notin old
    <3>1. PICK i \in 1..Len(new) : src[i] = m
      BY <1>1, <2>3
    <3>2. new[i] = list[m]
      BY <1>2, <1>4, <3>1
    <3>. QED  BY <2>1, <3>2 DEF Together
  <2>. QED  BY <2>2, <2>3
<1>. QED  BY <1>7, <1>8, <1>9

-----------------------------------------------------------------------------
(* Tables and queries                                                      *)

LEMMA TableFacts ==
  ASSUME table \in Tables, query \in Queries
  PROVE  /\ QueryRels \subseteq Nat /\ DOMAIN AllRows = QueryRels
         /\ \A r \in QueryRels : AllRows[r] = Rows(r)
         /\ RowsGiven(AllRows)
         /\ \A c : IsColumn(c, query, table) =>
              /\ c.rel \in QueryRels
              /\ \A i \in Rows(c.rel) : Value(c, i) \in 0..WordRange-1
<1>1. WellFormed(query)
  BY QueriesAssumption
<1>2. QueryRels \subseteq Nat /\ \A r \in QueryRels : query.rels[r] \in DOMAIN table
  BY <1>1 DEF WellFormed, QueryRels
<1>3. ASSUME NEW t \in DOMAIN table
      PROVE  /\ table[t][1] \in Seq(0..WordRange-1)
             /\ \A c \in DOMAIN table[t] : /\ table[t][c] \in Seq(0..WordRange-1)
                                           /\ Len(table[t][c]) = Len(table[t][1])
  <2>. DEFINE S == 0..WordRange-1
  <2>1. /\ table[t] \in Seq(Seq(0..WordRange-1)) /\ table[t] # <<>>
        /\ \A c \in DOMAIN table[t] : Len(table[t][c]) = Len(table[t][1])
    BY TablesAssumption
  <2>2. table[t] \in Seq(Seq(S))
    BY <2>1
  <2>. HIDE DEF S
  <2>3. /\ table[t][1] \in Seq(S)
        /\ \A c \in DOMAIN table[t] : table[t][c] \in Seq(S)
    BY <2>1, <2>2
  <2>. QED  BY <2>1, <2>3 DEF S
<1>4. DOMAIN AllRows = QueryRels /\ \A r \in QueryRels : AllRows[r] = Rows(r)
  BY DEF AllRows
<1>5. ASSUME NEW r \in QueryRels
      PROVE  \E k \in Nat : Rows(r) = 1..k
  <2>. DEFINE S == 0..WordRange-1
              col == table[query.rels[r]][1]
  <2>1. col \in Seq(S)
    BY <1>2, <1>3
  <2>. HIDE DEF S, col
  <2>2. Len(col) \in Nat /\ DOMAIN col = 1..Len(col)
    BY <2>1
  <2>3. Rows(r) = DOMAIN col
    BY DEF Rows, col
  <2>. QED  BY <2>2, <2>3
<1>6. RowsGiven(AllRows)
  BY <1>2, <1>4, <1>5, Zenon DEF RowsGiven
<1>7. ASSUME NEW c, IsColumn(c, query, table)
      PROVE  /\ c.rel \in QueryRels
             /\ \A i \in Rows(c.rel) : Value(c, i) \in 0..WordRange-1
  <2>. DEFINE S == 0..WordRange-1
              first == table[query.rels[c.rel]][1]
              col == table[query.rels[c.rel]][c.col]
  <2>1. c.rel \in QueryRels /\ c.col \in DOMAIN table[query.rels[c.rel]]
    BY <1>7 DEF IsColumn, QueryRels
  <2>2. first \in Seq(S) /\ col \in Seq(S) /\ Len(col) = Len(first)
    BY <1>2, <1>3, <2>1
  <2>3. Rows(c.rel) = DOMAIN first /\ \A i : Value(c, i) = col[i]
    BY DEF Rows, Value
  <2>. HIDE DEF S, first, col
  <2>4. \A i \in DOMAIN first : col[i] \in S
    BY <2>2
  <2>5. \A i \in Rows(c.rel) : Value(c, i) \in S
    BY <2>3, <2>4
  <2>. QED  BY <2>1, <2>5 DEF S
<1>. QED  BY <1>2, <1>4, <1>6, <1>7

LEMMA QueryFacts ==
  ASSUME table \in Tables, query \in Queries
  PROVE  /\ Len(query.filters) \in Nat /\ DOMAIN query.filters = 1..Len(query.filters)
         /\ \A f \in DOMAIN query.filters : IsColumn(query.filters[f].part, query, table)
         /\ \A j \in DOMAIN query.joins : /\ IsColumn(query.joins[j].part1, query, table)
                                          /\ IsColumn(query.joins[j].part2, query, table)
         /\ \A k \in DOMAIN query.sums : IsColumn(query.sums[k], query, table)
         /\ Connected(query)
<1>1. WellFormed(query) /\ Connected(query)
  BY QueriesAssumption
<1>2. /\ \A f \in DOMAIN query.filters : IsColumn(query.filters[f].part, query, table)
      /\ \A j \in DOMAIN query.joins : /\ IsColumn(query.joins[j].part1, query, table)
                                       /\ IsColumn(query.joins[j].part2, query, table)
      /\ \A k \in DOMAIN query.sums : IsColumn(query.sums[k], query, table)
  BY <1>1, Zenon DEF WellFormed
<1>3. Len(query.filters) \in Nat /\ DOMAIN query.filters = 1..Len(query.filters)
  <2>. DEFINE S == [part : Columns, op : {LESS, GREATER, EQUAL}, value : Nat]
  <2>1. query.filters \in Seq(S)
    BY <1>1 DEF WellFormed
  <2>. HIDE DEF S
  <2>. QED  BY <2>1
<1>. QED  BY <1>1, <1>2, <1>3

-----------------------------------------------------------------------------
(* What findNode finds, and the node a predicate works on.                 *)

LEMMA FindNodeFacts ==
  ASSUME NEW rows, ListSound(headInt, rows), NEW rel
  PROVE  /\ findNode(rel) = 0 =>
              \A n \in 1..Len(headInt) : rel \notin Range(headInt[n].joinedRels)
         /\ findNode(rel) # 0 => /\ findNode(rel) \in 1..Len(headInt)
                                 /\ rel \in Range(headInt[findNode(rel)].joinedRels)
<1>1. Len(headInt) \in Nat /\ DOMAIN headInt = 1..Len(headInt)
  BY DEF ListSound
<1>2. NodesWith(rel) = {n \in 1..Len(headInt) : rel \in Range(headInt[n].joinedRels)}
  BY <1>1 DEF NodesWith
<1>3. CASE NodesWith(rel) = {}
  <2>1. findNode(rel) = 0
    BY <1>3, Zenon DEF findNode
  <2>. QED  BY <1>2, <1>3, <2>1
<1>4. CASE NodesWith(rel) # {}
  <2>. DEFINE T == NodesWith(rel)
  <2>1. T \subseteq Nat /\ T # {}
    BY <1>2, <1>4
  <2>2. \E x \in T : \A y \in T : x <= y
    BY <2>1, LeastOf
  <2>3. Min(T) \in T
    BY <2>2, Zenon DEF Min
  <2>4. findNode(rel) = Min(T)
    BY <1>4, Zenon DEF findNode
  <2>. HIDE DEF T
  <2>5. findNode(rel) \in NodesWith(rel)
    BY <2>3, <2>4 DEF T
  <2>6. 0 \notin 1..Len(headInt)
    BY <1>1
  <2>. QED  BY <1>2, <2>5, <2>6
<1>. QED  BY <1>3, <1>4

LEMMA ColumnFacts ==
  ASSUME NEW rows, NEW node, NodeSound(node, rows), NEW rel \in Range(node.joinedRels)
  PROVE  /\ \E c \in 1..Len(node.joinedRels) : /\ node.joinedRels[c] = rel
                                               /\ ColumnOf(node, rel) = node.rowIds[c]
         /\ ColumnOf(node, rel) \in [1..NumbOfRows(node) -> Nat]
         /\ DOMAIN ColumnOf(node, rel) = 1..NumbOfRows(node)
         /\ Len(ColumnOf(node, rel)) = NumbOfRows(node)
         /\ \A i \in 1..NumbOfRows(node) : ColumnOf(node, rel)[i] \in rows[rel]
<1>. DEFINE rels == node.joinedRels
            T == {i \in DOMAIN rels : rels[i] = rel}
<1>1. /\ Len(rels) \in Nat /\ DOMAIN rels = 1..Len(rels) /\ NumbOfRows(node) \in Nat
      /\ \A c \in 1..Len(rels) : /\ node.rowIds[c] \in [1..NumbOfRows(node) -> Nat]
                                 /\ DOMAIN node.rowIds[c] = 1..NumbOfRows(node)
  BY NodeFacts
<1>2. T \subseteq Nat /\ T # {}
  BY <1>1 DEF Range
<1>3. \E x \in T : \A y \in T : x <= y
  BY <1>2, LeastOf
<1>4. Min(T) \in T
  BY <1>3, Zenon DEF Min
<1>5. ColumnOf(node, rel) = node.rowIds[Min(T)]
  BY Zenon DEF ColumnOf, T, rels
<1>6. Min(T) \in 1..Len(rels) /\ rels[Min(T)] = rel
  BY <1>1, <1>4
<1>7. PICK c \in 1..Len(rels) : rels[c] = rel /\ ColumnOf(node, rel) = node.rowIds[c]
  BY <1>5, <1>6
<1>8. /\ Len(node.rowIds[c]) = NumbOfRows(node)
      /\ \A i \in 1..NumbOfRows(node) : node.rowIds[c][i] \in rows[rels[c]]
  BY <1>7, Zenon DEF NodeSound
<1>. QED  BY <1>1, <1>7, <1>8

NodeFor(rel) == IF findNode(rel) = 0 THEN BaseNode(rel, AllRows) ELSE headInt[findNode(rel)]

LEMMA NodeForFacts ==
  ASSUME table \in Tables, query \in Queries, ListSound(headInt, AllRows),
         NEW rel \in QueryRels
  PROVE  /\ NodeSound(NodeFor(rel), AllRows)
         /\ rel \in Range(NodeFor(rel).joinedRels)
         /\ findNode(rel) = 0 => /\ NodeFor(rel) = BaseNode(rel, AllRows)
                                 /\ Range(NodeFor(rel).joinedRels) = {rel}
                                 /\ Rows(rel) = 1..NumbOfRows(NodeFor(rel))
         /\ findNode(rel) # 0 => NodeFor(rel) = headInt[findNode(rel)]
<1>1. /\ DOMAIN AllRows = QueryRels /\ AllRows[rel] = Rows(rel) /\ RowsGiven(AllRows)
  BY TableFacts
<1>2. CASE findNode(rel) = 0
  <2>1. NodeFor(rel) = BaseNode(rel, AllRows)
    BY <1>2, Zenon DEF NodeFor
  <2>. QED  BY <1>1, <1>2, <2>1, BaseSound
<1>3. CASE findNode(rel) # 0
  <2>1. NodeFor(rel) = headInt[findNode(rel)]
    BY <1>3, Zenon DEF NodeFor
  <2>2. findNode(rel) \in 1..Len(headInt) /\ rel \in Range(headInt[findNode(rel)].joinedRels)
    BY <1>3, FindNodeFacts
  <2>3. NodeSound(headInt[findNode(rel)], AllRows)
    BY <2>2 DEF ListSound
  <2>. QED  BY <1>3, <2>1, <2>2, <2>3
<1>. QED  BY <1>2, <1>3

-----------------------------------------------------------------------------
(* A predicate over one or two relations puts one sound node in the place  *)
(* of those that the relations are in.                                     *)

Places(rel1, rel2) == {findNode(rel1), findNode(rel2)} \ {0}

Step(rel1, rel2, node, list) ==
  /\ list \in Seq(Nodes)
  /\ NodeSound(node, AllRows)
  /\ Range(node.joinedRels) = Range(NodeFor(rel1).joinedRels) \cup Range(NodeFor(rel2).joinedRels)
  /\ Replaces(headInt, Places(rel1, rel2), node, list)

LEMMA StepSound ==
  ASSUME table \in Tables, query \in Queries, ListSound(headInt, AllRows),
         NEW rel1 \in QueryRels, NEW rel2 \in QueryRels, NEW node, NEW list,
         Step(rel1, rel2, node, list)
  PROVE  /\ ListSound(list, AllRows)
         /\ \A rels : Together(headInt, rels) => Together(list, rels)
         /\ Together(list, {rel1, rel2})
<1>. DEFINE old == Places(rel1, rel2)
            Found(rel) == findNode(rel) # 0
<1>1. \A rel \in {rel1, rel2} :
        /\ rel \in Range(NodeFor(rel).joinedRels)
        /\ Found(rel) => findNode(rel) \in 1..Len(headInt) /\ NodeFor(rel) = headInt[findNode(rel)]
        /\ ~Found(rel) =>
             /\ Range(NodeFor(rel).joinedRels) = {rel}
             /\ \A n \in 1..Len(headInt) : rel \notin Range(headInt[n].joinedRels)
  BY NodeForFacts, FindNodeFacts
<1>2. old \in SUBSET (1..Len(headInt))
  BY <1>1 DEF Places
<1>3. \A m \in old : Range(headInt[m].joinedRels) \subseteq Range(node.joinedRels)
  BY <1>1 DEF Places, Step
<1>4. ASSUME NEW m \in 1..Len(headInt) \ old, NEW rel \in {rel1, rel2}
      PROVE  Range(headInt[m].joinedRels) \cap Range(NodeFor(rel).joinedRels) = {}
  <2>1. CASE Found(rel)
    <3>1. findNode(rel) \in 1..Len(headInt) /\ findNode(rel) # m
      BY <1>1, <2>1 DEF Places
    <3>2. Range(headInt[m].joinedRels) \cap Range(headInt[findNode(rel)].joinedRels) = {}
      BY <3>1 DEF ListSound
    <3>. QED  BY <1>1, <2>1, <3>2
  <2>2. CASE ~Found(rel)
    BY <1>1, <2>2
  <2>. QED  BY <2>1, <2>2
<1>5. \A m \in 1..Len(headInt) \ old :
        Range(headInt[m].joinedRels) \cap Range(node.joinedRels) = {}
  BY <1>4 DEF Step
<1>6. list \in Seq(Nodes) /\ NodeSound(node, AllRows) /\ Replaces(headInt, old, node, list)
  BY DEF Step
<1>7. {rel1, rel2} \subseteq Range(node.joinedRels)
  BY <1>1 DEF Step
<1>. HIDE DEF old
<1>. QED  BY <1>2, <1>3, <1>5, <1>6, <1>7, ReplacedSound

(* The rows of the relation's node that are kept.                          *)
SelectionOf(rel, kept) ==
  SelectedNode(NodeFor(rel), Survivors(NumbOfRows(NodeFor(rel)), kept))

LEMMA SelectionSound ==
  ASSUME table \in Tables, query \in Queries, ListSound(headInt, AllRows),
         NEW rel \in QueryRels, NEW kept \in SUBSET (1..NumbOfRows(NodeFor(rel)))
  PROVE  LET pos == Survivors(NumbOfRows(NodeFor(rel)), kept)
         IN  /\ NumbOfRows(NodeFor(rel)) \in Nat
             /\ pos \in Seq(1..NumbOfRows(NodeFor(rel))) /\ Once(pos) /\ Range(pos) = kept
             /\ NodeSound(SelectionOf(rel, kept), AllRows)
             /\ SelectionOf(rel, kept).joinedRels = NodeFor(rel).joinedRels
<1>. DEFINE pos == Survivors(NumbOfRows(NodeFor(rel)), kept)
<1>1. NodeSound(NodeFor(rel), AllRows)
  BY NodeForFacts
<1>2. NumbOfRows(NodeFor(rel)) \in Nat
  BY <1>1, NodeFacts
<1>3. pos \in Seq(1..NumbOfRows(NodeFor(rel))) /\ Once(pos) /\ Range(pos) = kept
  BY <1>2, SurvivorsFacts
<1>. HIDE DEF pos
<1>4. /\ NodeSound(SelectedNode(NodeFor(rel), pos), AllRows)
      /\ SelectedNode(NodeFor(rel), pos).joinedRels = NodeFor(rel).joinedRels
  BY <1>1, <1>3, SelectedSound
<1>5. SelectionOf(rel, kept) = SelectedNode(NodeFor(rel), pos)
  BY Zenon DEF SelectionOf, pos
<1>. QED  BY <1>2, <1>3, <1>4, <1>5 DEF pos

LEMMA SelfJoinCreates ==
  ASSUME table \in Tables, query \in Queries, ListSound(headInt, AllRows),
         NEW rel \in QueryRels, findNode(rel) = 0, NEW kept \in SUBSET Rows(rel)
  PROVE  /\ kept \in SUBSET (1..NumbOfRows(NodeFor(rel)))
         /\ Step(rel, rel, SelectionOf(rel, kept),
                 createInterSelfJoin(rel, Survivors(Cardinality(Rows(rel)), kept)))
<1>. DEFINE n == NumbOfRows(NodeFor(rel))
            pos == Survivors(n, kept)
            all == [i \in AllRows[rel] |-> i]
<1>1. NodeFor(rel) = BaseNode(rel, AllRows) /\ Rows(rel) = 1..n /\ AllRows[rel] = Rows(rel)
  BY NodeForFacts, TableFacts
<1>2. kept \in SUBSET (1..n)
  BY <1>1
<1>3. /\ n \in Nat /\ pos \in Seq(1..n)
      /\ NodeSound(SelectionOf(rel, kept), AllRows)
      /\ SelectionOf(rel, kept).joinedRels = NodeFor(rel).joinedRels
  BY <1>2, SelectionSound
<1>4. Cardinality(Rows(rel)) = n
  BY <1>1, <1>3, FS_Interval
<1>5. SelectionOf(rel, kept) = [joinedRels |-> <<rel>>, rowIds |-> <<pos>>]
  <2>. DEFINE S == 1..n
  <2>. HIDE DEF n, pos
  <2>1. pos \in Seq(S)
    BY <1>3
  <2>. HIDE DEF S
  <2>2. \A i \in DOMAIN pos : pos[i] \in S
    BY <2>1
  <2>3. \A i \in DOMAIN pos : all[pos[i]] = pos[i]
    BY <1>1, <2>2 DEF S
  <2>4. pos = [i \in DOMAIN pos |-> pos[i]]
    BY <2>1
  <2>5. [i \in DOMAIN pos |-> all[pos[i]]] = pos
    BY <2>3, <2>4
  <2>6. SelectionOf(rel, kept) = SelectedNode([joinedRels |-> <<rel>>, rowIds |-> <<all>>], pos)
    BY <1>1, Zenon DEF SelectionOf, n, pos, BaseNode
  <2>. HIDE DEF all
  <2>7. SelectedNode([joinedRels |-> <<rel>>, rowIds |-> <<all>>], pos)
          = [joinedRels |-> <<rel>>, rowIds |-> << [i \in DOMAIN pos |-> all[pos[i]]] >>]
    BY DEF SelectedNode
  <2>. QED  BY <2>5, <2>6, <2>7
<1>6. createInterSelfJoin(rel, Survivors(Cardinality(Rows(rel)), kept))
        = Append(headInt, SelectionOf(rel, kept))
  BY <1>4, <1>5, Zenon DEF createInterSelfJoin, pushInter
<1>7. headInt \in Seq(Nodes) /\ SelectionOf(rel, kept) \in Nodes
  BY <1>3 DEF ListSound, NodeSound
<1>8. /\ Append(headInt, SelectionOf(rel, kept)) \in Seq(Nodes)
      /\ Replaces(headInt, {}, SelectionOf(rel, kept), Append(headInt, SelectionOf(rel, kept)))
  BY <1>7, PushReplaces
<1>9. Places(rel, rel) = {}
  BY DEF Places
<1>. QED  BY <1>2, <1>3, <1>6, <1>8, <1>9 DEF Step

LEMMA SelfJoinUpdates ==
  ASSUME table \in Tables, query \in Queries, ListSound(headInt, AllRows),
         NEW rel \in QueryRels, findNode(rel) # 0,
         NEW kept \in SUBSET (1..NumbOfRows(headInt[findNode(rel)]))
  PROVE  /\ NodeFor(rel) = headInt[findNode(rel)]
         /\ Step(rel, rel, SelectionOf(rel, kept),
                 updateInterSelfJoin(findNode(rel),
                                     Survivors(NumbOfRows(headInt[findNode(rel)]), kept)))
<1>. DEFINE n == findNode(rel)
            node == headInt[n]
            pos == Survivors(NumbOfRows(node), kept)
            cols == [c \in DOMAIN node.rowIds |-> [i \in DOMAIN pos |-> node.rowIds[c][pos[i]]]]
<1>1. NodeFor(rel) = node
  BY NodeForFacts
<1>2. /\ NodeSound(SelectionOf(rel, kept), AllRows)
      /\ SelectionOf(rel, kept).joinedRels = NodeFor(rel).joinedRels
  BY <1>1, SelectionSound
<1>3. SelectionOf(rel, kept) = [joinedRels |-> node.joinedRels, rowIds |-> cols]
  BY <1>1, Zenon DEF SelectionOf, SelectedNode
<1>4. n \in 1..Len(headInt)
  BY FindNodeFacts
<1>5. headInt \in Seq(Nodes) /\ SelectionOf(rel, kept) \in Nodes
  BY <1>2 DEF ListSound, NodeSound
<1>6. node \in [joinedRels : Seq(Nat), rowIds : Seq(Seq(Nat))]
  <2>1. node \in Nodes
    BY <1>4, <1>5
  <2>. HIDE DEF node
  <2>. QED  BY <2>1 DEF Nodes
<1>7. updateInterSelfJoin(n, pos) = [headInt EXCEPT ![n] = [node EXCEPT !.rowIds = cols]]
  BY Zenon DEF updateInterSelfJoin, updateInter
<1>. HIDE DEF cols
<1>8. [node EXCEPT !.rowIds = cols] = [joinedRels |-> node.joinedRels, rowIds |-> cols]
  <2>. HIDE DEF node
  <2>. QED  BY <1>6
<1>9. updateInterSelfJoin(n, pos) = [headInt EXCEPT ![n] = SelectionOf(rel, kept)]
  BY <1>3, <1>7, <1>8, Zenon
<1>10. /\ [headInt EXCEPT ![n] = SelectionOf(rel, kept)] \in Seq(Nodes)
       /\ Replaces(headInt, {n}, SelectionOf(rel, kept),
                   [headInt EXCEPT ![n] = SelectionOf(rel, kept)])
  BY <1>4, <1>5, UpdateReplaces
<1>11. Places(rel, rel) = {n}
  BY DEF Places
<1>12. Step(rel, rel, SelectionOf(rel, kept), updateInterSelfJoin(n, pos))
  BY <1>2, <1>9, <1>10, <1>11 DEF Step
<1>. QED  BY <1>1, <1>12

-----------------------------------------------------------------------------
(* Joins                                                                   *)

(* The rows of a relation that is in no node are numbered as they are.     *)
LEMMA BaseColumnOf ==
  ASSUME table \in Tables, query \in Queries, ListSound(headInt, AllRows),
         NEW rel \in QueryRels, findNode(rel) = 0
  PROVE  /\ Rows(rel) = 1..NumbOfRows(NodeFor(rel))
         /\ \A i \in Rows(rel) : ColumnOf(NodeFor(rel), rel)[i] = i
<1>. DEFINE node == NodeFor(rel)
            rowIds == ColumnOf(node, rel)
            all == [i \in AllRows[rel] |-> i]
<1>1. /\ NodeSound(node, AllRows) /\ rel \in Range(node.joinedRels)
      /\ node = BaseNode(rel, AllRows) /\ Rows(rel) = 1..NumbOfRows(node)
  BY NodeForFacts
<1>2. \E k \in 1..Len(node.joinedRels) : node.joinedRels[k] = rel /\ rowIds = node.rowIds[k]
  BY <1>1, ColumnFacts
<1>3. node.joinedRels = <<rel>> /\ node.rowIds = <<all>>
  BY <1>1 DEF BaseNode
<1>4. Len(<<rel>>) = 1 /\ \A k \in 1..1 : k = 1
  OBVIOUS
<1>5. rowIds = node.rowIds[1]
  BY <1>2, <1>3, <1>4
<1>6. rowIds = all
  <2>. HIDE DEF all
  <2>1. <<all>>[1] = all
    OBVIOUS
  <2>. QED  BY <1>3, <1>5, <2>1, Zenon
<1>7. AllRows[rel] = Rows(rel)
  BY TableFacts
<1>8. \A i \in Rows(rel) : all[i] = i
  BY <1>7
<1>. QED  BY <1>1, <1>6, <1>8, Zenon

(* The keys of a column are those of the rows of its relation's node.      *)
LEMMA KeysFacts ==
  ASSUME table \in Tables, query \in Queries, ListSound(headInt, AllRows),
         NEW c, IsColumn(c, query, table)
  PROVE  /\ forgeRelationsheep(c) \in Seq(Nat)
         /\ DOMAIN forgeRelationsheep(c) = 1..NumbOfRows(NodeFor(c.rel))
         /\ \A i \in 1..NumbOfRows(NodeFor(c.rel)) :
              forgeRelationsheep(c)[i] = Value(c, ColumnOf(NodeFor(c.rel), c.rel)[i])
<1>. DEFINE node == NodeFor(c.rel)
            n == NumbOfRows(node)
            rowIds == ColumnOf(node, c.rel)
            keys == forgeRelationsheep(c)
<1>1. c.rel \in QueryRels /\ \A i \in Rows(c.rel) : Value(c, i) \in 0..WordRange-1
  BY TableFacts
<1>2. NodeSound(node, AllRows) /\ c.rel \in Range(node.joinedRels)
  BY <1>1, NodeForFacts
<1>3. AllRows[c.rel] = Rows(c.rel)
  BY <1>1, TableFacts
<1>4. n \in Nat
  BY <1>2, NodeFacts
<1>5. DOMAIN rowIds = 1..n /\ \A i \in 1..n : rowIds[i] \in Rows(c.rel)
  BY <1>2, <1>3, ColumnFacts
<1>6. \A i \in 1..n : Value(c, rowIds[i]) \in Nat
  BY <1>1, <1>5, WordAssumption
<1>7. keys = [i \in 1..n |-> Value(c, rowIds[i])]
  <2>1. CASE findNode(c.rel) = 0
    <3>1. Rows(c.rel) = 1..n /\ \A i \in Rows(c.rel) : rowIds[i] = i
      BY <1>1, <2>1, BaseColumnOf
    <3>2. keys = [i \in Rows(c.rel) |-> Value(c, i)]
      BY <2>1, Zenon DEF forgeRelationsheep
    <3>. HIDE DEF rowIds, n, keys
    <3>. QED  BY <3>1, <3>2
  <2>2. CASE findNode(c.rel) # 0
    <3>1. node = headInt[findNode(c.rel)]
      BY <1>1, <2>2, NodeForFacts
    <3>2. keys = [i \in DOMAIN rowIds |-> Value(c, rowIds[i])]
      BY <2>2, <3>1, Zenon DEF forgeRelationsheep
    <3>. QED  BY <1>5, <3>2, Zenon
  <2>. QED  BY <2>1, <2>2
<1>8. keys \in [1..n -> Nat]
  BY <1>6, <1>7
<1>. HIDE DEF n, keys, rowIds
<1>9. keys \in Seq(Nat) /\ DOMAIN keys = 1..n
  BY <1>4, <1>8
<1>10. \A i \in 1..n : keys[i] = Value(c, rowIds[i])
  BY <1>7
<1>. QED  BY <1>9, <1>10 DEF n, keys, rowIds, node

(* The node of all pairs of rows of two nodes that agree on two columns.   *)
JoinedRows(c1, c2, switched) ==
  radixHashJoin(forgeRelationsheep(c1), forgeRelationsheep(c2), switched)
MergeOf(c1, c2, switched) ==
  MergedNode(NodeFor(c1.rel), NodeFor(c2.rel), JoinedRows(c1, c2, switched), switched)

LEMMA MergeSound ==
  ASSUME table \in Tables, query \in Queries, ListSound(headInt, AllRows),
         NEW c1, IsColumn(c1, query, table), NEW c2, IsColumn(c2, query, table),
         Range(NodeFor(c1.rel).joinedRels) \cap Range(NodeFor(c2.rel).joinedRels) = {},
         NEW switched \in {0, 1}
  PROVE  /\ JoinOf(JoinedRows(c1, c2, switched), switched,
                   forgeRelationsheep(c1), forgeRelationsheep(c2))
         /\ PairsGiven(JoinedRows(c1, c2, switched), switched,
                       NumbOfRows(NodeFor(c1.rel)), NumbOfRows(NodeFor(c2.rel)))
         /\ NodeSound(MergeOf(c1, c2, switched), AllRows)
         /\ MergeMade(MergeOf(c1, c2, switched), NodeFor(c1.rel), NodeFor(c2.rel),
                      JoinedRows(c1, c2, switched), switched)
<1>. DEFINE node1 == NodeFor(c1.rel)
            node2 == NodeFor(c2.rel)
            res == JoinedRows(c1, c2, switched)
            r == forgeRelationsheep(c1)
            s == forgeRelationsheep(c2)
<1>1. c1.rel \in QueryRels /\ c2.rel \in QueryRels
  BY TableFacts
<1>2. NodeSound(node1, AllRows) /\ NodeSound(node2, AllRows)
  BY <1>1, NodeForFacts
<1>3. /\ r \in Seq(Nat) /\ DOMAIN r = 1..NumbOfRows(node1)
      /\ s \in Seq(Nat) /\ DOMAIN s = 1..NumbOfRows(node2)
  BY KeysFacts
<1>. HIDE DEF r, s
<1>4. JoinOf(res, switched, r, s) /\ DOMAIN res = 1..Len(res)
  <2>1. res = radixHashJoin(r, s, switched)
    BY Zenon DEF JoinedRows, r, s
  <2>2. JoinOf(radixHashJoin(r, s, switched), switched, r, s)
    BY <1>3, JoinResult
  <2>3. DOMAIN radixHashJoin(r, s, switched) = 1..Len(radixHashJoin(r, s, switched))
    BY <1>3, JoinResult
  <2>. QED  BY <2>1, <2>2, <2>3, Zenon
<1>. HIDE DEF res
<1>5. Len(res) \in Nat /\ DOMAIN res = 1..Len(res)
  BY <1>4, Zenon DEF JoinOf
<1>6. \A i \in 1..Len(res) : /\ RowOfFirst(res[i], switched) \in 1..NumbOfRows(node1)
                             /\ RowOfSecond(res[i], switched) \in 1..NumbOfRows(node2)
  BY <1>3, <1>4 DEF JoinOf
<1>7. \A i, k \in 1..Len(res) :
        /\ RowOfFirst(res[i], switched) = RowOfFirst(res[k], switched)
        /\ RowOfSecond(res[i], switched) = RowOfSecond(res[k], switched)
        => i = k
  BY <1>4 DEF JoinOf
<1>8. MergeOf(c1, c2, switched) = MergedNode(node1, node2, res, switched)
  BY Zenon DEF MergeOf, res
<1>9. Range(node1.joinedRels) \cap Range(node2.joinedRels) = {}
  OBVIOUS
<1>. HIDE DEF node1, node2
<1>10. PairsGiven(res, switched, NumbOfRows(node1), NumbOfRows(node2))
  BY <1>5, <1>6, <1>7, Zenon DEF PairsGiven
<1>11. /\ NodeSound(MergedNode(node1, node2, res, switched), AllRows)
       /\ MergeMade(MergedNode(node1, node2, res, switched), node1, node2, res, switched)
  BY <1>2, <1>9, <1>10, MergedSound
<1>. QED  BY <1>4, <1>8, <1>10, <1>11, Zenon DEF node1, node2, res, r, s

(* The nodes of relations that no node has together are apart.             *)
LEMMA ApartForFacts ==
  ASSUME table \in Tables, query \in Queries, ListSound(headInt, AllRows),
         NEW rel1 \in QueryRels, NEW rel2 \in QueryRels, rel1 # rel2,
         findNode(rel1) = findNode(rel2) => findNode(rel1) = 0
  PROVE  Range(NodeFor(rel1).joinedRels) \cap Range(NodeFor(rel2).joinedRels) = {}
<1>1. \A rel \in {rel1, rel2} :
        /\ rel \in Range(NodeFor(rel).joinedRels)
        /\ findNode(rel) # 0 => /\ findNode(rel) \in 1..Len(headInt)
                                /\ NodeFor(rel) = headInt[findNode(rel)]
        /\ findNode(rel) = 0 =>
             /\ Range(NodeFor(rel).joinedRels) = {rel}
             /\ \A n \in 1..Len(headInt) : rel \notin Range(headInt[n].joinedRels)
  BY NodeForFacts, FindNodeFacts
<1>2. CASE findNode(rel1) # 0 /\ findNode(rel2) # 0
  BY <1>1, <1>2 DEF ListSound
<1>3. CASE ~(findNode(rel1) # 0 /\ findNode(rel2) # 0)
  BY <1>1, <1>3
<1>. QED  BY <1>2, <1>3

(* The rows of a pair are the row numbers, for a relation in no node.      *)
LEMMA BaseColumn ==
  ASSUME table \in Tables, query \in Queries, ListSound(headInt, AllRows),
         NEW rel \in QueryRels, findNode(rel) = 0
  PROVE  LET all == [i \in Rows(rel) |-> i]
         IN  NodeFor(rel) = [joinedRels |-> <<rel>>, rowIds |-> <<all>>]
             /\ \A i \in 1..NumbOfRows(NodeFor(rel)) : all[i] = i
<1>. DEFINE all == [i \in Rows(rel) |-> i]
<1>1. NodeFor(rel) = BaseNode(rel, AllRows) /\ Rows(rel) = 1..NumbOfRows(NodeFor(rel))
  BY NodeForFacts
<1>2. AllRows[rel] = Rows(rel)
  BY TableFacts
<1>3. NodeFor(rel) = [joinedRels |-> <<rel>>, rowIds |-> <<all>>]
  BY <1>1, <1>2, Zenon DEF BaseNode
<1>4. \A i \in Rows(rel) : all[i] = i
  OBVIOUS
<1>5. \A i \in 1..NumbOfRows(NodeFor(rel)) : all[i] = i
  BY <1>1, <1>4, Zenon
<1>. QED  BY <1>3, <1>5

LEMMA JoinCreates ==
  ASSUME table \in Tables, query \in Queries, ListSound(headInt, AllRows),
         NEW c1, IsColumn(c1, query, table), NEW c2, IsColumn(c2, query, table),
         c1.rel # c2.rel, findNode(c1.rel) = 0, findNode(c2.rel) = 0,
         NEW switched \in {0, 1}
  PROVE  Step(c1.rel, c2.rel, MergeOf(c1, c2, switched),
              createInterFromRes(JoinedRows(c1, c2, switched), c1.rel, c2.rel, switched))
<1>. DEFINE rel1 == c1.rel
            rel2 == c2.rel
            res == JoinedRows(c1, c2, switched)
            node == MergeOf(c1, c2, switched)
            all1 == [i \in Rows(rel1) |-> i]
            all2 == [i \in Rows(rel2) |-> i]
            rows1 == [i \in DOMAIN res |-> RowOfFirst(res[i], switched)]
            rows2 == [i \in DOMAIN res |-> RowOfSecond(res[i], switched)]
            new == [joinedRels |-> <<rel1, rel2>>, rowIds |-> <<rows1, rows2>>]
<1>1. rel1 \in QueryRels /\ rel2 \in QueryRels
  BY TableFacts
<1>2. Range(NodeFor(rel1).joinedRels) \cap Range(NodeFor(rel2).joinedRels) = {}
  BY <1>1, ApartForFacts
<1>3. /\ NodeSound(node, AllRows)
      /\ MergeMade(node, NodeFor(rel1), NodeFor(rel2), res, switched)
      /\ PairsGiven(res, switched, NumbOfRows(NodeFor(rel1)), NumbOfRows(NodeFor(rel2)))
  BY <1>2, MergeSound
<1>4. /\ NodeFor(rel1) = [joinedRels |-> <<rel1>>, rowIds |-> <<all1>>]
      /\ \A i \in 1..NumbOfRows(NodeFor(rel1)) : all1[i] = i
  BY <1>1, BaseColumn
<1>5. /\ NodeFor(rel2) = [joinedRels |-> <<rel2>>, rowIds |-> <<all2>>]
      /\ \A i \in 1..NumbOfRows(NodeFor(rel2)) : all2[i] = i
  BY <1>1, BaseColumn
<1>6. \A i \in DOMAIN res : /\ all1[RowOfFirst(res[i], switched)] = RowOfFirst(res[i], switched)
                            /\ all2[RowOfSecond(res[i], switched)] = RowOfSecond(res[i], switched)
  BY <1>3, <1>4, <1>5, Zenon DEF PairsGiven
<1>7. node = new
  <2>1. node = MergedNode([joinedRels |-> <<rel1>>, rowIds |-> <<all1>>],
                          [joinedRels |-> <<rel2>>, rowIds |-> <<all2>>], res, switched)
    BY <1>4, <1>5, Zenon DEF MergeOf
  <2>2. /\ rows1 = [i \in DOMAIN res |-> all1[RowOfFirst(res[i], switched)]]
        /\ rows2 = [i \in DOMAIN res |-> all2[RowOfSecond(res[i], switched)]]
    BY <1>6
  <2>. HIDE DEF all1, all2, res, node
  <2>. DEFINE cols1 == [c \in DOMAIN <<all1>> |->
                          [i \in DOMAIN res |-> <<all1>>[c][RowOfFirst(res[i], switched)]]]
              cols2 == [c \in DOMAIN <<all2>> |->
                          [i \in DOMAIN res |-> <<all2>>[c][RowOfSecond(res[i], switched)]]]
  <2>3. node = [joinedRels |-> <<rel1>> \o <<rel2>>, rowIds |-> cols1 \o cols2]
    BY <2>1 DEF MergedNode
  <2>4. cols1 = <<rows1>>
    <3>1. cols1 = << [i \in DOMAIN res |-> all1[RowOfFirst(res[i], switched)]] >>
      OBVIOUS
    <3>. HIDE DEF cols1, rows1
    <3>. QED  BY <2>2, <3>1, Zenon
  <2>5. cols2 = <<rows2>>
    <3>1. cols2 = << [i \in DOMAIN res |-> all2[RowOfSecond(res[i], switched)]] >>
      OBVIOUS
    <3>. HIDE DEF cols2, rows2
    <3>. QED  BY <2>2, <3>1, Zenon
  <2>. HIDE DEF cols1, cols2, rows1, rows2
  <2>6. <<rel1>> \o <<rel2>> = <<rel1, rel2>> /\ <<rows1>> \o <<rows2>> = <<rows1, rows2>>
    BY ConcatOfSingles
  <2>. QED  BY <2>3, <2>4, <2>5, <2>6, Zenon DEF new
<1>8. createInterFromRes(res, rel1, rel2, switched) = Append(headInt, node)
  BY <1>7, Zenon DEF createInterFromRes, pushInter
<1>. HIDE DEF node, res
<1>9. /\ Append(headInt, node) \in Seq(Nodes)
      /\ Replaces(headInt, {}, node, Append(headInt, node))
  <2>1. headInt \in Seq(Nodes) /\ node \in Nodes
    BY <1>3 DEF ListSound, NodeSound
  <2>. QED  BY <2>1, PushReplaces
<1>10. Places(rel1, rel2) = {}
  BY DEF Places
<1>11. Step(rel1, rel2, node, Append(headInt, node))
  BY <1>3, <1>9, <1>10, Zenon DEF Step, MergeMade
<1>. QED  BY <1>8, <1>11, Zenon DEF node, res

LEMMA JoinUpdates ==
  ASSUME table \in Tables, query \in Queries, ListSound(headInt, AllRows),
         NEW c1, IsColumn(c1, query, table), NEW c2, IsColumn(c2, query, table),
         c1.rel # c2.rel, findNode(c1.rel) # 0, findNode(c2.rel) = 0,
         NEW switched \in {0, 1}
  PROVE  Step(c1.rel, c2.rel, MergeOf(c1, c2, switched),
              updateInterFromRes(findNode(c1.rel), JoinedRows(c1, c2, switched),
                                 c2.rel, switched))
<1>. DEFINE n == findNode(c1.rel)
            rel2 == c2.rel
            res == JoinedRows(c1, c2, switched)
            node == MergeOf(c1, c2, switched)
            node1 == headInt[n]
            all2 == [i \in Rows(rel2) |-> i]
            kept == [c \in DOMAIN node1.rowIds |->
                       [i \in DOMAIN res |-> node1.rowIds[c][RowOfFirst(res[i], switched)]]]
            rows2 == [i \in DOMAIN res |-> RowOfSecond(res[i], switched)]
            new == [joinedRels |-> Append(node1.joinedRels, rel2),
                    rowIds |-> Append(kept, rows2)]
<1>1. c1.rel \in QueryRels /\ rel2 \in QueryRels
  BY TableFacts
<1>2. Range(NodeFor(c1.rel).joinedRels) \cap Range(NodeFor(rel2).joinedRels) = {}
  BY <1>1, ApartForFacts
<1>3. /\ NodeSound(node, AllRows)
      /\ MergeMade(node, NodeFor(c1.rel), NodeFor(rel2), res, switched)
      /\ PairsGiven(res, switched, NumbOfRows(NodeFor(c1.rel)), NumbOfRows(NodeFor(rel2)))
  BY <1>2, MergeSound
<1>4. /\ NodeFor(rel2) = [joinedRels |-> <<rel2>>, rowIds |-> <<all2>>]
      /\ \A i \in 1..NumbOfRows(NodeFor(rel2)) : all2[i] = i
  BY <1>1, BaseColumn
<1>5. NodeFor(c1.rel) = node1
  BY <1>1, NodeForFacts
<1>6. n \in 1..Len(headInt)
  BY FindNodeFacts
<1>7. node1.joinedRels \in Seq(Nat) /\ kept \in Seq([DOMAIN res -> Nat])
  <2>1. NodeSound(node1, AllRows)
    BY <1>6 DEF ListSound
  <2>2. /\ node1.joinedRels \in Seq(Nat) /\ Len(node1.joinedRels) \in Nat
        /\ DOMAIN node1.rowIds = 1..Len(node1.joinedRels)
        /\ \A c \in 1..Len(node1.joinedRels) : node1.rowIds[c] \in [1..NumbOfRows(node1) -> Nat]
    BY <2>1, NodeFacts
  <2>3. \A i \in DOMAIN res : RowOfFirst(res[i], switched) \in 1..NumbOfRows(node1)
    BY <1>3, <1>5, Zenon DEF PairsGiven
  <2>. DEFINE m == NumbOfRows(node1)
              l == Len(node1.joinedRels)
              S == [DOMAIN res -> Nat]
  <2>. HIDE DEF res, m, l, node1
  <2>4. kept \in [1..l -> [DOMAIN res -> Nat]]
    BY <2>2, <2>3 DEF m, l
  <2>. HIDE DEF kept, S
  <2>5. kept \in Seq(S)
    BY <2>2, <2>4, FunctionIsSequence DEF l, S
  <2>. QED  BY <2>2, <2>5 DEF S
<1>8. node = new
  <2>1. node = MergedNode(node1, [joinedRels |-> <<rel2>>, rowIds |-> <<all2>>], res, switched)
    BY <1>4, <1>5, Zenon DEF MergeOf
  <2>2. \A i \in DOMAIN res : all2[RowOfSecond(res[i], switched)] = RowOfSecond(res[i], switched)
    BY <1>3, <1>4, Zenon DEF PairsGiven
  <2>3. rows2 = [i \in DOMAIN res |-> all2[RowOfSecond(res[i], switched)]]
    BY <2>2
  <2>. HIDE DEF all2, res, node, node1
  <2>. DEFINE cols2 == [c \in DOMAIN <<all2>> |->
                          [i \in DOMAIN res |-> <<all2>>[c][RowOfSecond(res[i], switched)]]]
  <2>4. node = [joinedRels |-> node1.joinedRels \o <<rel2>>, rowIds |-> kept \o cols2]
    BY <2>1 DEF MergedNode
  <2>5. cols2 = <<rows2>>
    <3>1. cols2 = << [i \in DOMAIN res |-> all2[RowOfSecond(res[i], switched)]] >>
      OBVIOUS
    <3>. HIDE DEF cols2, rows2
    <3>. QED  BY <2>3, <3>1, Zenon
  <2>6. rows2 \in [DOMAIN res -> {RowOfSecond(res[i], switched) : i \in DOMAIN res}]
    OBVIOUS
  <2>. HIDE DEF cols2, rows2, kept
  <2>7. node1.joinedRels \o <<rel2>> = Append(node1.joinedRels, rel2)
    BY <1>1, <1>7, TableFacts
  <2>8. kept \o <<rows2>> = Append(kept, rows2)
    <3>. DEFINE A == [DOMAIN res -> Nat]
                S == A \cup {rows2}
    <3>. HIDE DEF A
    <3>1. kept \in Seq(S) /\ rows2 \in S
      BY <1>7 DEF A
    <3>. HIDE DEF S
    <3>. QED  BY <3>1
  <2>. QED  BY <2>4, <2>5, <2>7, <2>8, Zenon DEF new
<1>9. updateInterFromRes(n, res, rel2, switched) = [headInt EXCEPT ![n] = node]
  BY <1>8, Zenon DEF updateInterFromRes, updateInter
<1>. HIDE DEF node, res
<1>10. /\ [headInt EXCEPT ![n] = node] \in Seq(Nodes)
       /\ Replaces(headInt, {n}, node, [headInt EXCEPT ![n] = node])
  <2>1. headInt \in Seq(Nodes) /\ node \in Nodes
    BY <1>3 DEF ListSound, NodeSound
  <2>. QED  BY <1>6, <2>1, UpdateReplaces
<1>11. Places(c1.rel, rel2) = {n}
  BY DEF Places
<1>12. Step(c1.rel, rel2, node, [headInt EXCEPT ![n] = node])
  BY <1>3, <1>10, <1>11, Zenon DEF Step, MergeMade
<1>. QED  BY <1>9, <1>12, Zenon DEF node, res, n, rel2

LEMMA JoinMerges ==
  ASSUME table \in Tables, query \in Queries, ListSound(headInt, AllRows),
         NEW c1, IsColumn(c1, query, table), NEW c2, IsColumn(c2, query, table),
         findNode(c1.rel) # 0, findNode(c2.rel) # 0, findNode(c1.rel) # findNode(c2.rel),
         NEW switched \in {0, 1}
  PROVE  Step(c1.rel, c2.rel, MergeOf(c1, c2, switched),
              updateInterAndDelete(findNode(c1.rel), findNode(c2.rel),
                                   JoinedRows(c1, c2, switched), switched))
<1>. DEFINE n1 == findNode(c1.rel)
            n2 == findNode(c2.rel)
            res == JoinedRows(c1, c2, switched)
            node == MergeOf(c1, c2, switched)
<1>1. c1.rel \in QueryRels /\ c2.rel \in QueryRels /\ c1.rel # c2.rel
  BY TableFacts
<1>2. Range(NodeFor(c1.rel).joinedRels) \cap Range(NodeFor(c2.rel).joinedRels) = {}
  BY <1>1, ApartForFacts
<1>3. /\ NodeSound(node, AllRows)
      /\ MergeMade(node, NodeFor(c1.rel), NodeFor(c2.rel), res, switched)
  BY <1>2, MergeSound
<1>4. NodeFor(c1.rel) = headInt[n1] /\ NodeFor(c2.rel) = headInt[n2]
  BY <1>1, NodeForFacts
<1>5. n1 \in 1..Len(headInt) /\ n2 \in 1..Len(headInt) /\ n1 # n2
  BY FindNodeFacts
<1>6. node = MergedNode(headInt[n1], headInt[n2], res, switched)
  BY <1>4, Zenon DEF MergeOf
<1>7. updateInterAndDelete(n1, n2, res, switched) = RemoveAt([headInt EXCEPT ![n1] = node], n2)
  BY <1>6, Zenon DEF updateInterAndDelete, deleteInterNode, UpdateWithoutDelete, updateInter,
                     MergedNode
<1>. HIDE DEF node, res
<1>8. /\ RemoveAt([headInt EXCEPT ![n1] = node], n2) \in Seq(Nodes)
      /\ Replaces(headInt, {n1, n2}, node, RemoveAt([headInt EXCEPT ![n1] = node], n2))
  <2>1. headInt \in Seq(Nodes) /\ node \in Nodes
    BY <1>3 DEF ListSound, NodeSound
  <2>. QED  BY <1>5, <2>1, MergeReplaces
<1>9. Places(c1.rel, c2.rel) = {n1, n2}
  BY DEF Places
<1>10. Step(c1.rel, c2.rel, node, RemoveAt([headInt EXCEPT ![n1] = node], n2))
  BY <1>3, <1>8, <1>9, Zenon DEF Step, MergeMade
<1>. QED  BY <1>7, <1>10, Zenon DEF node, res, n1, n2

-----------------------------------------------------------------------------
(* The actions                                                             *)

(* The rows of a relation's node that pass a filter, and those that agree  *)
(* on two columns of the node.                                             *)
PassingRows(f) ==
  LET node == NodeFor(f.part.rel)
  IN  {i \in 1..NumbOfRows(node) :
         ApplyFilter(Value(f.part, ColumnOf(node, f.part.rel)[i]), f.op, f.value)}
EqualRows(c1, c2) ==
  LET node == NodeFor(c1.rel)
  IN  {i \in 1..NumbOfRows(node) :
         Value(c1, ColumnOf(node, c1.rel)[i]) = Value(c2, ColumnOf(node, c2.rel)[i])}

LEMMA FilterEffect ==
  ASSUME table \in Tables, query \in Queries, ListSound(headInt, AllRows),
         NEW f, IsColumn(f.part, query, table), workerFOnAllRows(f) \/ workerFOnNode(f)
  PROVE  /\ FilterStep(f)
         /\ Step(f.part.rel, f.part.rel, SelectionOf(f.part.rel, PassingRows(f)), headInt')
<1>. DEFINE rel == f.part.rel
            node == NodeFor(rel)
            rowIds == ColumnOf(node, rel)
            pass(v) == ApplyFilter(v, f.op, f.value)
            kept == PassingRows(f)
<1>1. rel \in QueryRels
  BY TableFacts
<1>2. NodeSound(node, AllRows) /\ rel \in Range(node.joinedRels)
  BY <1>1, NodeForFacts
<1>3. kept = {i \in 1..NumbOfRows(node) : pass(Value(f.part, rowIds[i]))}
  BY Zenon DEF PassingRows
<1>4. kept \in SUBSET (1..NumbOfRows(node))
  BY <1>3
<1>. HIDE DEF pass
<1>5. CASE workerFOnAllRows(f)
  <2>. DEFINE passing == {i \in Rows(rel) : pass(Value(f.part, i))}
  <2>1. /\ FilterStep(f) /\ findNode(rel) = 0
        /\ headInt' = createInterSelfJoin(rel, Survivors(Cardinality(Rows(rel)), passing))
    BY <1>5, Zenon DEF workerFOnAllRows, pass
  <2>2. Rows(rel) = 1..NumbOfRows(node) /\ \A i \in Rows(rel) : rowIds[i] = i
    BY <1>1, <2>1, BaseColumnOf
  <2>3. passing = kept /\ kept \in SUBSET Rows(rel)
    <3>. HIDE DEF rowIds, node, kept
    <3>. QED  BY <1>3, <2>2
  <2>4. Step(rel, rel, SelectionOf(rel, kept),
             createInterSelfJoin(rel, Survivors(Cardinality(Rows(rel)), kept)))
    BY <1>1, <2>1, <2>3, SelfJoinCreates
  <2>. QED  BY <2>1, <2>3, <2>4, Zenon
<1>6. CASE workerFOnNode(f)
  <2>. DEFINE n == findNode(rel)
              passing == {i \in DOMAIN ColumnOf(headInt[n], rel) :
                            pass(Value(f.part, ColumnOf(headInt[n], rel)[i]))}
  <2>1. /\ FilterStep(f) /\ n # 0
        /\ headInt' = updateInterSelfJoin(n, Survivors(Len(ColumnOf(headInt[n], rel)), passing))
    BY <1>6, Zenon DEF workerFOnNode, pass
  <2>2. node = headInt[n]
    BY <1>1, <2>1, NodeForFacts
  <2>3. DOMAIN rowIds = 1..NumbOfRows(node) /\ Len(rowIds) = NumbOfRows(node)
    BY <1>2, ColumnFacts
  <2>4. passing = {i \in DOMAIN rowIds : pass(Value(f.part, rowIds[i]))}
    BY <2>2, Zenon
  <2>5. passing = kept
    BY <1>3, <2>3, <2>4, Zenon
  <2>6. headInt' = updateInterSelfJoin(n, Survivors(NumbOfRows(headInt[n]), kept))
    BY <2>1, <2>2, <2>3, <2>5, Zenon
  <2>7. kept \in SUBSET (1..NumbOfRows(headInt[findNode(rel)]))
    BY <1>4, <2>2, Zenon
  <2>8. Step(rel, rel, SelectionOf(rel, kept),
             updateInterSelfJoin(n, Survivors(NumbOfRows(headInt[n]), kept)))
    BY <1>1, <2>1, <2>7, SelfJoinUpdates
  <2>. QED  BY <2>1, <2>6, <2>8, Zenon
<1>. QED  BY <1>5, <1>6

(* A join within a node selects, any other merges two nodes; updating the  *)
(* node of the second relation swaps the operands.                         *)
SelectsEqual(c1, c2, list) ==
  /\ findNode(c1.rel) = findNode(c2.rel)
  /\ NodeFor(c1.rel) = NodeFor(c2.rel)
  /\ Step(c1.rel, c2.rel, SelectionOf(c1.rel, EqualRows(c1, c2)), list)
Merges(c1, c2, list) ==
  \E switched \in {0, 1} :
    /\ Range(NodeFor(c1.rel).joinedRels) \cap Range(NodeFor(c2.rel).joinedRels) = {}
    /\ Step(c1.rel, c2.rel, MergeOf(c1, c2, switched), list)

LEMMA SelfJoinEffect ==
  ASSUME table \in Tables, query \in Queries, ListSound(headInt, AllRows),
         NEW j \in DOMAIN query.joins,
         SelfJoinOfAllRows(j) \/ SelfJoinOfNode(j) \/ SameNodeJoin(j)
  PROVE  /\ JoinStep(j)
         /\ SelectsEqual(query.joins[j].part1, query.joins[j].part2, headInt')
<1>. DEFINE c1 == query.joins[j].part1
            c2 == query.joins[j].part2
            rel == c1.rel
            node == NodeFor(rel)
            rowIds1 == ColumnOf(node, c1.rel)
            rowIds2 == ColumnOf(node, c2.rel)
            kept == EqualRows(c1, c2)
<1>1. IsColumn(c1, query, table) /\ IsColumn(c2, query, table)
  BY QueryFacts
<1>2. c1.rel \in QueryRels /\ c2.rel \in QueryRels
  BY <1>1, TableFacts
<1>3. NodeSound(node, AllRows) /\ rel \in Range(node.joinedRels)
  BY <1>2, NodeForFacts
<1>4. kept = {i \in 1..NumbOfRows(node) : Value(c1, rowIds1[i]) = Value(c2, rowIds2[i])}
  BY Zenon DEF EqualRows
<1>5. kept \in SUBSET (1..NumbOfRows(node))
  BY <1>4
<1>6. DOMAIN rowIds1 = 1..NumbOfRows(node) /\ Len(rowIds1) = NumbOfRows(node)
  BY <1>3, ColumnFacts
<1>7. CASE SelfJoinOfAllRows(j)
  <2>. DEFINE equal == {i \in Rows(rel) : Value(c1, i) = Value(c2, i)}
  <2>1. /\ JoinStep(j) /\ c1.rel = c2.rel /\ findNode(rel) = 0
        /\ headInt' = createInterSelfJoin(rel, Survivors(Cardinality(Rows(rel)), equal))
    BY <1>7, Zenon DEF SelfJoinOfAllRows
  <2>2. Rows(rel) = 1..NumbOfRows(node) /\ \A i \in Rows(rel) : rowIds1[i] = i
    BY <1>2, <2>1, BaseColumnOf
  <2>3. rowIds1 = rowIds2
    BY <2>1, Zenon
  <2>4. equal = kept /\ kept \in SUBSET Rows(rel)
    <3>. HIDE DEF rowIds1, rowIds2, node, kept
    <3>. QED  BY <1>4, <2>2, <2>3
  <2>5. Step(rel, rel, SelectionOf(rel, kept),
             createInterSelfJoin(rel, Survivors(Cardinality(Rows(rel)), kept)))
    BY <1>2, <2>1, <2>4, SelfJoinCreates
  <2>. QED  BY <2>1, <2>4, <2>5, Zenon DEF SelectsEqual
<1>8. CASE SelfJoinOfNode(j)
  <2>. DEFINE n == findNode(rel)
              col == ColumnOf(headInt[n], rel)
              equal == {i \in DOMAIN col : Value(c1, col[i]) = Value(c2, col[i])}
  <2>1. /\ JoinStep(j) /\ c1.rel = c2.rel /\ n # 0
        /\ headInt' = updateInterSelfJoin(n, Survivors(Len(col), equal))
    BY <1>8, Zenon DEF SelfJoinOfNode
  <2>2. node = headInt[n]
    BY <1>2, <2>1, NodeForFacts
  <2>3. col = rowIds1 /\ rowIds2 = rowIds1
    BY <2>1, <2>2, Zenon
  <2>4. equal = kept
    <3>. HIDE DEF rowIds1, rowIds2, node, kept, col
    <3>. QED  BY <1>4, <1>6, <2>3
  <2>5. headInt' = updateInterSelfJoin(n, Survivors(NumbOfRows(headInt[n]), kept))
    BY <1>6, <2>1, <2>2, <2>3, <2>4, Zenon
  <2>6. kept \in SUBSET (1..NumbOfRows(headInt[findNode(rel)]))
    BY <1>5, <2>2, Zenon
  <2>7. Step(rel, rel, SelectionOf(rel, kept),
             updateInterSelfJoin(n, Survivors(NumbOfRows(headInt[n]), kept)))
    BY <1>2, <2>1, <2>6, SelfJoinUpdates
  <2>. QED  BY <2>1, <2>5, <2>7, Zenon DEF SelectsEqual
<1>9. CASE SameNodeJoin(j)
  <2>. DEFINE n == findNode(rel)
              col1 == ColumnOf(headInt[n], c1.rel)
              col2 == ColumnOf(headInt[n], c2.rel)
              equal == {i \in DOMAIN col1 : Value(c1, col1[i]) = Value(c2, col2[i])}
  <2>1. /\ JoinStep(j) /\ n # 0 /\ findNode(c2.rel) = n
        /\ headInt' = updateInterSelfJoin(n, Survivors(NumbOfRows(headInt[n]), equal))
    BY <1>9, Zenon DEF SameNodeJoin
  <2>2. node = headInt[n] /\ NodeFor(c2.rel) = headInt[n]
    BY <1>2, <2>1, NodeForFacts
  <2>3. col1 = rowIds1 /\ col2 = rowIds2
    BY <2>2, Zenon
  <2>4. equal = kept
    <3>. HIDE DEF rowIds1, rowIds2, node, kept, col1, col2
    <3>. QED  BY <1>4, <1>6, <2>3
  <2>5. headInt' = updateInterSelfJoin(n, Survivors(NumbOfRows(headInt[n]), kept))
    BY <2>1, <2>4, Zenon
  <2>6. kept \in SUBSET (1..NumbOfRows(headInt[findNode(rel)]))
    BY <1>5, <2>2, Zenon
  <2>7. Step(rel, rel, SelectionOf(rel, kept),
             updateInterSelfJoin(n, Survivors(NumbOfRows(headInt[n]), kept)))
    BY <1>2, <2>1, <2>6, SelfJoinUpdates
  <2>8. Places(rel, rel) = Places(c1.rel, c2.rel)
    BY <2>1 DEF Places
  <2>9. Step(c1.rel, c2.rel, SelectionOf(rel, kept), headInt')
    BY <2>2, <2>5, <2>7, <2>8, Zenon DEF Step
  <2>. QED  BY <2>1, <2>2, <2>9, Zenon DEF SelectsEqual
<1>. QED  BY <1>7, <1>8, <1>9

LEMMA JoinEffect ==
  ASSUME table \in Tables, query \in Queries, ListSound(headInt, AllRows),
         NEW j \in DOMAIN query.joins,
         JoinOfRelations(j) \/ JoinWithNode(j) \/ JoinOfNodes(j)
  PROVE  /\ JoinStep(j)
         /\ \/ Merges(query.joins[j].part1, query.joins[j].part2, headInt')
            \/ Merges(query.joins[j].part2, query.joins[j].part1, headInt')
<1>. DEFINE c1 == query.joins[j].part1
            c2 == query.joins[j].part2
<1>1. IsColumn(c1, query, table) /\ IsColumn(c2, query, table)
  BY QueryFacts
<1>2. c1.rel \in QueryRels /\ c2.rel \in QueryRels
  BY <1>1, TableFacts
<1>3. CASE JoinOfRelations(j)
  <2>1. /\ JoinStep(j) /\ c1.rel # c2.rel /\ findNode(c1.rel) = 0 /\ findNode(c2.rel) = 0
        /\ \E switched \in {0, 1} :
             headInt' = createInterFromRes(JoinedRows(c1, c2, switched),
                                           c1.rel, c2.rel, switched)
    BY <1>3, Zenon DEF JoinOfRelations, JoinedRows
  <2>2. PICK switched \in {0, 1} :
          headInt' = createInterFromRes(JoinedRows(c1, c2, switched), c1.rel, c2.rel, switched)
    BY <2>1
  <2>3. Range(NodeFor(c1.rel).joinedRels) \cap Range(NodeFor(c2.rel).joinedRels) = {}
    BY <1>2, <2>1, ApartForFacts
  <2>4. Step(c1.rel, c2.rel, MergeOf(c1, c2, switched),
             createInterFromRes(JoinedRows(c1, c2, switched), c1.rel, c2.rel, switched))
    BY <1>1, <2>1, JoinCreates
  <2>. QED  BY <2>1, <2>2, <2>3, <2>4, Zenon DEF Merges
<1>4. CASE JoinWithNode(j)
  <2>1. PICK one \in {0, 1} :
          LET old == IF one = 0 THEN c1 ELSE c2
              new == IF one = 0 THEN c2 ELSE c1
          IN  /\ JoinStep(j) /\ old.rel # new.rel
              /\ findNode(old.rel) # 0 /\ findNode(new.rel) = 0
              /\ headInt' = updateInterFromRes(findNode(old.rel), JoinedRows(old, new, 1),
                                               new.rel, 1)
    BY <1>4, Zenon DEF JoinWithNode, JoinedRows
  <2>2. ASSUME NEW old \in {c1, c2}, NEW new \in {c1, c2}, old.rel # new.rel,
               findNode(old.rel) # 0, findNode(new.rel) = 0,
               headInt' = updateInterFromRes(findNode(old.rel), JoinedRows(old, new, 1),
                                             new.rel, 1)
        PROVE  Merges(old, new, headInt')
    <3>1. /\ IsColumn(old, query, table) /\ IsColumn(new, query, table)
          /\ old.rel \in QueryRels /\ new.rel \in QueryRels
      BY <1>1, <1>2
    <3>2. Range(NodeFor(old.rel).joinedRels) \cap Range(NodeFor(new.rel).joinedRels) = {}
      BY <2>2, <3>1, ApartForFacts
    <3>3. 1 \in {0, 1}
      OBVIOUS
    <3>4. Step(old.rel, new.rel, MergeOf(old, new, 1),
               updateInterFromRes(findNode(old.rel), JoinedRows(old, new, 1), new.rel, 1))
      BY <2>2, <3>1, <3>3, JoinUpdates
    <3>. QED  BY <2>2, <3>2, <3>3, <3>4, Zenon DEF Merges
  <2>3. CASE one = 0
    BY <2>1, <2>2, <2>3
  <2>4. CASE one # 0
    BY <2>1, <2>2, <2>4
  <2>. QED  BY <2>3, <2>4
<1>5. CASE JoinOfNodes(j)
  <2>. DEFINE n1 == findNode(c1.rel)
              n2 == findNode(c2.rel)
              switched == IF NumbOfRows(headInt[n1]) <= NumbOfRows(headInt[n2]) THEN 0 ELSE 1
  <2>1. /\ JoinStep(j) /\ n1 # 0 /\ n2 # 0 /\ n1 # n2
        /\ headInt' = updateInterAndDelete(n1, n2, JoinedRows(c1, c2, switched), switched)
    BY <1>5, Zenon DEF JoinOfNodes, JoinedRows
  <2>2. switched \in {0, 1}
    OBVIOUS
  <2>. HIDE DEF switched
  <2>3. c1.rel # c2.rel
    BY <2>1
  <2>4. Range(NodeFor(c1.rel).joinedRels) \cap Range(NodeFor(c2.rel).joinedRels) = {}
    BY <1>2, <2>1, <2>3, ApartForFacts
  <2>5. Step(c1.rel, c2.rel, MergeOf(c1, c2, switched),
             updateInterAndDelete(n1, n2, JoinedRows(c1, c2, switched), switched))
    BY <1>1, <2>1, <2>2, JoinMerges
  <2>. QED  BY <2>1, <2>2, <2>4, <2>5, Zenon DEF Merges
<1>. QED  BY <1>3, <1>4, <1>5

-----------------------------------------------------------------------------
(* The sums                                                                *)

SumsUp(rowIds, c, f) ==
  f = [i \in 0..Len(rowIds) |-> IF i = 0 THEN 0 ELSE PlusValue(f[i-1], Value(c, rowIds[i]))]

LEMMA SumsUpExists ==
  ASSUME NEW rowIds, NEW c, Len(rowIds) \in Nat
  PROVE  \E f : SumsUp(rowIds, c, f)
<1>. DEFINE Body(h, i) == IF i = 0 THEN 0 ELSE PlusValue(h[i-1], Value(c, rowIds[i]))
            T == {n \in Nat : \E f : f = [i \in 0..n |-> Body(f, i)]}
<1>1. 0 \in T
  <2>. DEFINE f == [i \in 0..0 |-> 0]
  <2>1. f = [i \in 0..0 |-> Body(f, i)]
    OBVIOUS
  <2>. QED  BY <2>1
<1>2. ASSUME NEW n \in Nat, n \in T
      PROVE  n + 1 \in T
  <2>1. PICK f : f = [i \in 0..n |-> Body(f, i)]
    BY <1>2
  <2>. DEFINE g == [i \in 0..n+1 |-> IF i \in 0..n THEN f[i] ELSE Body(f, i)]
  <2>2. ASSUME NEW i \in 0..n+1
        PROVE  g[i] = Body(g, i)
    <3>1. i = 0 \/ (i - 1 \in 0..n /\ i - 1 \in 0..n+1)
      OBVIOUS
    <3>2. i # 0 => g[i-1] = f[i-1]
      BY <3>1
    <3>3. Body(g, i) = Body(f, i)
      BY <3>2
    <3>4. CASE i \in 0..n
      <4>1. f[i] = Body(f, i)
        BY <2>1, <3>4, Zenon
      <4>. QED  BY <3>3, <3>4, <4>1
    <3>5. CASE i \notin 0..n
      BY <3>3, <3>5
    <3>. QED  BY <3>4, <3>5
  <2>3. g = [i \in 0..n+1 |-> Body(g, i)]
    BY <2>2
  <2>. HIDE DEF Body, g
  <2>4. \E h : h = [i \in 0..n+1 |-> Body(h, i)]
    BY <2>3, Zenon
  <2>. QED  BY <2>4
<1>. HIDE DEF T
<1>3. Len(rowIds) \in T
  BY <1>1, <1>2, InductionInSet
<1>4. \E f : f = [i \in 0..Len(rowIds) |-> Body(f, i)]
  BY <1>3 DEF T
<1>. QED  BY <1>4, Zenon DEF SumsUp

LEMMA ChecksumDef ==
  ASSUME NEW rowIds, NEW c, Len(rowIds) \in Nat
  PROVE  \E f : SumsUp(rowIds, c, f) /\ calcChecksum(rowIds, c) = f[Len(rowIds)]
<1>. DEFINE sum == CHOOSE f : f = [i \in 0..Len(rowIds) |->
                     IF i = 0 THEN 0 ELSE PlusValue(f[i-1], Value(c, rowIds[i]))]
<1>1. \E f : f = [i \in 0..Len(rowIds) |->
                    IF i = 0 THEN 0 ELSE PlusValue(f[i-1], Value(c, rowIds[i]))]
  <2>1. \E f : SumsUp(rowIds, c, f)
    BY SumsUpExists
  <2>. QED  BY <2>1, Zenon DEF SumsUp
<1>2. SumsUp(rowIds, c, sum)
  BY <1>1, Zenon DEF SumsUp
<1>3. calcChecksum(rowIds, c) = sum[Len(rowIds)]
  BY Zenon DEF calcChecksum
<1>. QED  BY <1>2, <1>3, Zenon

LEMMA SumsUpStep ==
  ASSUME NEW rowIds, NEW c, Len(rowIds) \in Nat, NEW f, SumsUp(rowIds, c, f)
  PROVE  /\ f[0] = 0
         /\ \A n \in 0..Len(rowIds)-1 : f[n+1] = PlusValue(f[n], Value(c, rowIds[n+1]))
<1>1. f[0] = 0
  <2>1. 0 \in 0..Len(rowIds)
    OBVIOUS
  <2>. QED  BY <2>1, Zenon DEF SumsUp
<1>2. ASSUME NEW n \in 0..Len(rowIds)-1
      PROVE  f[n+1] = PlusValue(f[n], Value(c, rowIds[n+1]))
  <2>1. n + 1 \in 0..Len(rowIds) /\ n + 1 # 0 /\ (n + 1) - 1 = n
    OBVIOUS
  <2>2. f[n+1] = IF n + 1 = 0 THEN 0 ELSE PlusValue(f[(n+1)-1], Value(c, rowIds[n+1]))
    BY <2>1, Zenon DEF SumsUp
  <2>. QED  BY <2>1, <2>2, Zenon
<1>. QED  BY <1>1, <1>2

(* A sum of words is a word.                                               *)
LEMMA ChecksumIsWord ==
  ASSUME NEW rowIds, NEW c, Len(rowIds) \in Nat,
         \A i \in 1..Len(rowIds) : Value(c, rowIds[i]) \in 0..WordRange-1
  PROVE  calcChecksum(rowIds, c) \in 0..WordRange-1
<1>. DEFINE m == Len(rowIds)
<1>1. PICK f : SumsUp(rowIds, c, f) /\ calcChecksum(rowIds, c) = f[m]
  BY ChecksumDef
<1>2. f[0] = 0 /\ \A n \in 0..m-1 : f[n+1] = PlusValue(f[n], Value(c, rowIds[n+1]))
  BY <1>1, SumsUpStep
<1>. DEFINE T == {n \in Nat : f[n] \in 0..WordRange-1}
<1>3. 0 \in T
  BY <1>2, WordAssumption
<1>4. ASSUME NEW n \in 0..m-1, n \in T
      PROVE  n + 1 \in T
  <2>1. f[n] \in 0..WordRange-1
    BY <1>4
  <2>2. n + 1 \in 1..m
    OBVIOUS
  <2>3. Value(c, rowIds[n+1]) \in 0..WordRange-1
    BY <2>2
  <2>4. PlusValue(f[n], Value(c, rowIds[n+1])) \in 0..WordRange-1
    BY <2>1, <2>3, WordAssumption DEF PlusValue
  <2>5. f[n+1] \in 0..WordRange-1
    BY <1>2, <2>4
  <2>. QED  BY <2>5
<1>. HIDE DEF T
<1>5. 0..m \subseteq T
  BY <1>3, <1>4, InductionUpTo
<1>6. m \in 0..m
  OBVIOUS
<1>7. f[m] \in 0..WordRange-1
  BY <1>5, <1>6 DEF T
<1>. QED  BY <1>1, <1>7

-----------------------------------------------------------------------------
(* One node with all relations is left: a predicate would be missing that  *)
(* connects a node to the rest.                                            *)
LEMMA OneLeft ==
  ASSUME Inv, nextFilter > Len(query.filters), todo = {}
  PROVE  Len(headInt) = 1 /\ Range(headInt[1].joinedRels) = QueryRels
<1>1. /\ table \in Tables /\ query \in Queries /\ ListSound(headInt, AllRows) /\ Gathered
      /\ nextFilter \in 1..Len(query.filters) + 1
  BY DEF Inv, BaseInv
<1>2. DOMAIN AllRows = QueryRels
  BY <1>1, TableFacts
<1>3. /\ Len(query.filters) \in Nat /\ DOMAIN query.filters = 1..Len(query.filters)
      /\ Connected(query)
  BY <1>1, QueryFacts
<1>4. /\ \A f \in DOMAIN query.filters : Together(headInt, {query.filters[f].part.rel})
      /\ \A j \in DOMAIN query.joins : Together(headInt, RelsOfJoin(query.joins[j]))
  <2>1. 1..nextFilter-1 = DOMAIN query.filters
    BY <1>1, <1>3
  <2>2. DOMAIN query.joins \ todo = DOMAIN query.joins
    OBVIOUS
  <2>. QED  BY <1>1, <2>1, <2>2 DEF Gathered
<1>5. ASSUME NEW n \in 1..Len(headInt)
      PROVE  /\ Range(headInt[n].joinedRels) \subseteq QueryRels
             /\ Range(headInt[n].joinedRels) # {}
  <2>1. NodeSound(headInt[n], AllRows)
    BY <1>1 DEF ListSound
  <2>. DEFINE rels == headInt[n].joinedRels
  <2>2. Len(rels) \in Nat \ {0} /\ DOMAIN rels = 1..Len(rels)
    BY <2>1, NodeFacts
  <2>3. \A c \in 1..Len(rels) : rels[c] \in QueryRels
    BY <1>2, <2>1 DEF NodeSound
  <2>4. 1 \in DOMAIN rels
    BY <2>2
  <2>. HIDE DEF rels
  <2>5. Range(rels) \subseteq QueryRels /\ Range(rels) # {}
    BY <2>2, <2>3, <2>4 DEF Range
  <2>. QED  BY <2>5 DEF rels
<1>6. \E rels : Together(headInt, rels)
  <2>1. CASE query.filters # <<>>
    <3>1. DOMAIN query.filters # {}
      <4>. DEFINE S == [part : Columns, op : {LESS, GREATER, EQUAL}, value : Nat]
      <4>1. query.filters \in Seq(S)
        BY <1>1, QueriesAssumption DEF WellFormed
      <4>. HIDE DEF S
      <4>. QED  BY <2>1, <4>1, FirstOfSome
    <3>. QED  BY <1>4, <3>1
  <2>2. CASE query.joins # <<>>
    <3>1. DOMAIN query.joins # {}
      <4>. DEFINE S == [part1 : Columns, part2 : Columns]
      <4>1. query.joins \in Seq(S)
        BY <1>1, QueriesAssumption DEF WellFormed
      <4>. HIDE DEF S
      <4>. QED  BY <2>2, <4>1, FirstOfSome
    <3>. QED  BY <1>4, <3>1
  <2>. QED  BY <1>3, <2>1, <2>2 DEF Connected
<1>7. PICK n \in 1..Len(headInt) : TRUE
  BY <1>6 DEF Together
<1>8. Range(headInt[n].joinedRels) = QueryRels
  <2>. DEFINE S == Range(headInt[n].joinedRels)
  <2>1. SUFFICES ASSUME S # QueryRels PROVE FALSE
    OBVIOUS
  <2>2. S \in SUBSET DOMAIN query.rels /\ S # {} /\ S # DOMAIN query.rels
    BY <1>5, <2>1 DEF QueryRels
  <2>. HIDE DEF S
  <2>3. PICK j \in DOMAIN query.joins : /\ RelsOfJoin(query.joins[j]) \cap S # {}
                                        /\ ~(RelsOfJoin(query.joins[j]) \subseteq S)
    BY <1>3, <2>2, Zenon DEF Connected
  <2>4. PICK m \in 1..Len(headInt) :
          RelsOfJoin(query.joins[j]) \subseteq Range(headInt[m].joinedRels)
    BY <1>4 DEF Together
  <2>5. Range(headInt[m].joinedRels) \cap Range(headInt[n].joinedRels) # {}
    BY <2>3, <2>4 DEF S
  <2>6. m = n
    BY <1>1, <2>5 DEF ListSound
  <2>. QED  BY <2>3, <2>4, <2>6 DEF S
<1>9. \A m \in 1..Len(headInt) : m = n
  <2>. TAKE m \in 1..Len(headInt)
  <2>1. Range(headInt[m].joinedRels) \cap Range(headInt[n].joinedRels) # {}
    BY <1>5, <1>8
  <2>. QED  BY <1>1, <2>1 DEF ListSound
<1>10. Len(headInt) \in Nat
  BY <1>1 DEF ListSound
<1>11. n = 1 /\ Len(headInt) = 1
  BY <1>9, <1>10
<1>. QED  BY <1>8, <1>11

-----------------------------------------------------------------------------
(* The invariant                                                           *)

LEMMA InitInv == Init => Inv
<1>. SUFFICES ASSUME Init PROVE Inv
  OBVIOUS
<1>1. table \in Tables /\ query \in Queries
  BY DEF Init
<1>2. Len(query.filters) \in Nat
  BY <1>1, QueryFacts
<1>3. BaseInv
  <2>1. nextFilter \in 1..Len(query.filters) + 1
    BY <1>2 DEF Init
  <2>2. todo \subseteq DOMAIN query.joins /\ checksums \in Seq(0..WordRange-1)
    BY DEF Init
  <2>. QED  BY <1>1, <2>1, <2>2 DEF BaseInv
<1>4. ListSound(headInt, AllRows)
  <2>1. headInt \in Seq(Nodes) /\ Len(headInt) = 0
    BY DEF Init
  <2>2. 1..Len(headInt) = {}
    BY <2>1
  <2>. QED  BY <2>1, <2>2 DEF ListSound
<1>5. Gathered
  <2>1. 1..nextFilter-1 = {} /\ DOMAIN query.joins \ todo = {}
    BY DEF Init
  <2>. QED  BY <2>1 DEF Gathered
<1>. QED  BY <1>3, <1>4, <1>5 DEF Inv

LEMMA SameRows ==
  ASSUME table' = table, query' = query
  PROVE  AllRows' = AllRows
BY DEF AllRows, QueryRels, Rows

(* What a step does to the list and to what is together in it.             *)
LEMMA StepKeeps ==
  ASSUME Inv, table' = table, query' = query,
         NEW rel1 \in QueryRels, NEW rel2 \in QueryRels, NEW node,
         Step(rel1, rel2, node, headInt')
  PROVE  /\ ListSound(headInt', AllRows')
         /\ \A rels : Together(headInt, rels) => Together(headInt', rels)
         /\ Together(headInt', {rel1, rel2})
<1>1. table \in Tables /\ query \in Queries /\ ListSound(headInt, AllRows)
  BY DEF Inv, BaseInv
<1>2. /\ ListSound(headInt', AllRows)
      /\ \A rels : Together(headInt, rels) => Together(headInt', rels)
      /\ Together(headInt', {rel1, rel2})
  BY <1>1, StepSound
<1>3. AllRows' = AllRows
  BY SameRows
<1>. QED  BY <1>2, <1>3, Zenon

LEMMA FilterKeepsInv ==
  ASSUME Inv, workerF
  PROVE  Inv'
<1>1. /\ table \in Tables /\ query \in Queries /\ ListSound(headInt, AllRows) /\ Gathered
      /\ nextFilter \in 1..Len(query.filters) + 1 /\ todo \subseteq DOMAIN query.joins
      /\ checksums \in Seq(0..WordRange-1)
  BY DEF Inv, BaseInv
<1>2. Len(query.filters) \in Nat /\ DOMAIN query.filters = 1..Len(query.filters)
  BY <1>1, QueryFacts
<1>3. PICK f \in Range(query.filters) : workerFOnAllRows(f) \/ workerFOnNode(f)
  BY Zenon DEF workerF
<1>4. FilterStep(f)
  BY <1>3, Zenon DEF workerFOnAllRows, workerFOnNode
<1>5. /\ nextFilter <= Len(query.filters) /\ f = query.filters[nextFilter]
      /\ nextFilter' = nextFilter + 1
      /\ table' = table /\ query' = query /\ todo' = todo /\ checksums' = checksums
  BY <1>4 DEF FilterStep
<1>6. nextFilter \in DOMAIN query.filters
  BY <1>1, <1>2, <1>5
<1>7. IsColumn(f.part, query, table)
  BY <1>1, <1>5, <1>6, QueryFacts
<1>8. f.part.rel \in QueryRels
  BY <1>1, <1>7, TableFacts
<1>9. Step(f.part.rel, f.part.rel, SelectionOf(f.part.rel, PassingRows(f)), headInt')
  BY <1>1, <1>3, <1>7, FilterEffect
<1>10. /\ ListSound(headInt', AllRows')
       /\ \A rels : Together(headInt, rels) => Together(headInt', rels)
       /\ Together(headInt', {f.part.rel})
  <2>1. /\ ListSound(headInt', AllRows')
        /\ \A rels : Together(headInt, rels) => Together(headInt', rels)
        /\ Together(headInt', {f.part.rel, f.part.rel})
    BY <1>5, <1>8, <1>9, StepKeeps
  <2>2. {f.part.rel, f.part.rel} = {f.part.rel}
    OBVIOUS
  <2>. QED  BY <2>1, <2>2, Zenon
<1>11. Gathered'
  <2>1. ASSUME NEW g \in 1..nextFilter'-1
        PROVE  Together(headInt', {query'.filters[g].part.rel})
    <3>1. CASE g = nextFilter
      BY <1>5, <1>10, <3>1, Zenon
    <3>2. CASE g # nextFilter
      <4>1. g \in 1..nextFilter-1
        BY <1>1, <1>2, <1>5, <2>1, <3>2
      <4>2. Together(headInt, {query.filters[g].part.rel})
        BY <1>1, <4>1, Zenon DEF Gathered
      <4>. QED  BY <1>5, <1>10, <4>2, Zenon
    <3>. QED  BY <3>1, <3>2
  <2>2. ASSUME NEW j \in DOMAIN query'.joins \ todo'
        PROVE  Together(headInt', RelsOfJoin(query'.joins[j]))
    <3>1. Together(headInt, RelsOfJoin(query.joins[j]))
      BY <1>1, <1>5, <2>2 DEF Gathered
    <3>. QED  BY <1>5, <1>10, <3>1, Zenon
  <2>. QED  BY <2>1, <2>2, Zenon DEF Gathered
<1>12. BaseInv'
  <2>1. nextFilter' \in 1..Len(query'.filters) + 1
    BY <1>1, <1>2, <1>5
  <2>. QED  BY <1>1, <1>5, <2>1, Zenon DEF BaseInv
<1>. QED  BY <1>10, <1>11, <1>12, Zenon DEF Inv

LEMMA JoinKeepsInv ==
  ASSUME Inv, NEW j \in todo, workerJ(j)
  PROVE  Inv'
<1>1. /\ table \in Tables /\ query \in Queries /\ ListSound(headInt, AllRows) /\ Gathered
      /\ nextFilter \in 1..Len(query.filters) + 1 /\ todo \subseteq DOMAIN query.joins
      /\ checksums \in Seq(0..WordRange-1)
  BY DEF Inv, BaseInv
<1>. DEFINE c1 == query.joins[j].part1
            c2 == query.joins[j].part2
<1>2. j \in DOMAIN query.joins
  BY <1>1
<1>3. c1.rel \in QueryRels /\ c2.rel \in QueryRels
  BY <1>1, <1>2, QueryFacts, TableFacts
<1>4. /\ JoinStep(j)
      /\ \E rel1, rel2 \in QueryRels :
           /\ {rel1, rel2} = {c1.rel, c2.rel}
           /\ \E node : Step(rel1, rel2, node, headInt')
  <2>1. CASE SelfJoinOfAllRows(j) \/ SelfJoinOfNode(j) \/ SameNodeJoin(j)
    <3>1. JoinStep(j) /\ SelectsEqual(c1, c2, headInt')
      BY <1>1, <1>2, <2>1, SelfJoinEffect
    <3>. QED  BY <1>3, <3>1, Zenon DEF SelectsEqual
  <2>2. CASE JoinOfRelations(j) \/ JoinWithNode(j) \/ JoinOfNodes(j)
    <3>1. JoinStep(j) /\ (Merges(c1, c2, headInt') \/ Merges(c2, c1, headInt'))
      BY <1>1, <1>2, <2>2, JoinEffect
    <3>2. CASE Merges(c1, c2, headInt')
      BY <1>3, <3>1, <3>2, Zenon DEF Merges
    <3>3. CASE Merges(c2, c1, headInt')
      <4>1. {c2.rel, c1.rel} = {c1.rel, c2.rel}
        OBVIOUS
      <4>. QED  BY <1>3, <3>1, <3>3, <4>1, Zenon DEF Merges
    <3>. QED  BY <3>1, <3>2, <3>3
  <2>. QED  BY <2>1, <2>2 DEF workerJ
<1>5. /\ todo' = todo \ {j} /\ table' = table /\ query' = query /\ nextFilter' = nextFilter
      /\ checksums' = checksums
  BY <1>4 DEF JoinStep
<1>6. /\ ListSound(headInt', AllRows')
      /\ \A rels : Together(headInt, rels) => Together(headInt', rels)
      /\ Together(headInt', {c1.rel, c2.rel})
  <2>1. PICK rel1 \in QueryRels, rel2 \in QueryRels :
          /\ {rel1, rel2} = {c1.rel, c2.rel}
          /\ \E node : Step(rel1, rel2, node, headInt')
    BY <1>4
  <2>2. PICK node : Step(rel1, rel2, node, headInt')
    BY <2>1
  <2>3. /\ ListSound(headInt', AllRows')
        /\ \A rels : Together(headInt, rels) => Together(headInt', rels)
        /\ Together(headInt', {rel1, rel2})
    BY <1>5, <2>2, StepKeeps
  <2>. QED  BY <2>1, <2>3, Zenon
<1>7. Gathered'
  <2>1. ASSUME NEW g \in 1..nextFilter'-1
        PROVE  Together(headInt', {query'.filters[g].part.rel})
    <3>1. Together(headInt, {query.filters[g].part.rel})
      BY <1>1, <1>5, <2>1, Zenon DEF Gathered
    <3>. QED  BY <1>5, <1>6, <3>1, Zenon
  <2>2. ASSUME NEW k \in DOMAIN query'.joins \ todo'
        PROVE  Together(headInt', RelsOfJoin(query'.joins[k]))
    <3>1. CASE k = j
      BY <1>5, <1>6, <3>1, Zenon DEF RelsOfJoin
    <3>2. CASE k # j
      <4>1. k \in DOMAIN query.joins \ todo
        BY <1>5, <2>2, <3>2
      <4>2. Together(headInt, RelsOfJoin(query.joins[k]))
        BY <1>1, <4>1, Zenon DEF Gathered
      <4>. QED  BY <1>5, <1>6, <4>2, Zenon
    <3>. QED  BY <3>1, <3>2
  <2>. QED  BY <2>1, <2>2, Zenon DEF Gathered
<1>8. BaseInv'
  <2>1. todo' \subseteq DOMAIN query'.joins
    BY <1>1, <1>5
  <2>. QED  BY <1>1, <1>5, <2>1, Zenon DEF BaseInv
<1>. QED  BY <1>6, <1>7, <1>8, Zenon DEF Inv

LEMMA AnswerKeepsInv ==
  ASSUME Inv, performChecksums
  PROVE  Inv'
<1>1. /\ table \in Tables /\ query \in Queries /\ ListSound(headInt, AllRows) /\ Gathered
      /\ nextFilter \in 1..Len(query.filters) + 1 /\ todo \subseteq DOMAIN query.joins
  BY DEF Inv, BaseInv
<1>2. /\ nextFilter > Len(query.filters) /\ todo = {}
      /\ checksums' = [k \in DOMAIN query.sums |->
                         calcChecksum(ColumnOf(headInt[1], query.sums[k].rel), query.sums[k])]
      /\ table' = table /\ query' = query /\ nextFilter' = nextFilter
      /\ todo' = todo /\ headInt' = headInt
  BY Zenon DEF performChecksums
<1>3. Len(headInt) = 1 /\ Range(headInt[1].joinedRels) = QueryRels
  BY <1>2, OneLeft
<1>4. NodeSound(headInt[1], AllRows)
  <2>1. 1 \in 1..Len(headInt)
    BY <1>3
  <2>. QED  BY <1>1, <2>1 DEF ListSound
<1>5. ASSUME NEW k \in DOMAIN query.sums
      PROVE  calcChecksum(ColumnOf(headInt[1], query.sums[k].rel), query.sums[k])
               \in 0..WordRange-1
  <2>. DEFINE c == query.sums[k]
              rowIds == ColumnOf(headInt[1], c.rel)
  <2>1. IsColumn(c, query, table)
    BY <1>1, QueryFacts
  <2>2. c.rel \in QueryRels /\ \A i \in Rows(c.rel) : Value(c, i) \in 0..WordRange-1
    BY <1>1, <2>1, TableFacts
  <2>3. AllRows[c.rel] = Rows(c.rel)
    BY <1>1, <2>2, TableFacts
  <2>4. Len(rowIds) = NumbOfRows(headInt[1]) /\ \A i \in 1..NumbOfRows(headInt[1]) : rowIds[i] \in Rows(c.rel)
    BY <1>3, <1>4, <2>2, <2>3, ColumnFacts
  <2>5. NumbOfRows(headInt[1]) \in Nat
    BY <1>4, NodeFacts
  <2>. HIDE DEF rowIds
  <2>6. Len(rowIds) \in Nat /\ \A i \in 1..Len(rowIds) : Value(c, rowIds[i]) \in 0..WordRange-1
    BY <2>2, <2>4, <2>5
  <2>7. calcChecksum(rowIds, c) \in 0..WordRange-1
    BY <2>6, ChecksumIsWord
  <2>. QED  BY <2>7 DEF rowIds
<1>6. checksums' \in Seq(0..WordRange-1)
  <2>. DEFINE S == 0..WordRange-1
              sum(k) == calcChecksum(ColumnOf(headInt[1], query.sums[k].rel), query.sums[k])
  <2>1. \A k \in DOMAIN query.sums : sum(k) \in S
    BY <1>5
  <2>2. checksums' = [k \in DOMAIN query.sums |-> sum(k)]
    BY <1>2, Zenon
  <2>3. query.sums \in Seq(Columns)
    BY <1>1, QueriesAssumption DEF WellFormed
  <2>4. Len(query.sums) \in Nat /\ DOMAIN query.sums = 1..Len(query.sums)
    BY <2>3
  <2>. HIDE DEF S, sum
  <2>5. checksums' \in [1..Len(query.sums) -> S]
    BY <2>1, <2>2, <2>4
  <2>6. checksums' \in Seq(S)
    BY <2>4, <2>5, FunctionIsSequence
  <2>. QED  BY <2>6 DEF S
<1>7. BaseInv'
  BY <1>1, <1>2, <1>6, Zenon DEF BaseInv
<1>8. Gathered'
  BY <1>1, <1>2, Zenon DEF Gathered
<1>9. AllRows' = AllRows
  BY <1>2, SameRows
<1>. QED  BY <1>1, <1>2, <1>7, <1>8, <1>9, Zenon DEF Inv

LEMMA StutterKeepsInv ==
  ASSUME Inv, UNCHANGED vars
  PROVE  Inv'
<1>1. /\ table' = table /\ query' = query /\ nextFilter' = nextFilter
      /\ todo' = todo /\ headInt' = headInt /\ checksums' = checksums
  BY DEF vars
<1>2. AllRows' = AllRows
  BY <1>1, SameRows
<1>3. BaseInv' /\ Gathered'
  BY <1>1, Zenon DEF Inv, BaseInv, Gathered
<1>. QED  BY <1>1, <1>2, <1>3, Zenon DEF Inv

LEMMA NextKeepsInv == Inv /\ [Next]_vars => Inv'
<1>. SUFFICES ASSUME Inv, [Next]_vars PROVE Inv'
  OBVIOUS
<1>1. CASE workerF
  BY <1>1, FilterKeepsInv
<1>2. CASE \E j \in todo : workerJ(j)
  BY <1>2, JoinKeepsInv
<1>3. CASE performChecksums
  BY <1>3, AnswerKeepsInv
<1>4. CASE Answered
  BY <1>4, StutterKeepsInv DEF Answered
<1>5. CASE UNCHANGED vars
  BY <1>5, StutterKeepsInv
<1>. QED  BY <1>1, <1>2, <1>3, <1>4, <1>5 DEF Next

(* The intermediates are sound and apart, and every executed predicate has *)
(* its relations in one of them, whatever the order of the joins.          *)
THEOREM Invariance == Spec => []Inv
<1>. QED  BY InitInv, NextKeepsInv, PTL DEF Spec

-----------------------------------------------------------------------------
(* What the invariant says of the run's properties                         *)

LEMMA InvTypeOK == Inv => TypeOK
<1>. SUFFICES ASSUME Inv PROVE TypeOK
  OBVIOUS
<1>1. BaseInv /\ table \in Tables /\ query \in Queries /\ ListSound(headInt, AllRows)
  BY DEF Inv, BaseInv
<1>2. DOMAIN AllRows = QueryRels /\ \A r \in QueryRels : AllRows[r] = Rows(r)
  BY <1>1, TableFacts
<1>3. headInt \in Seq(Nodes) /\ DOMAIN headInt = 1..Len(headInt)
  BY <1>1 DEF ListSound
<1>4. ASSUME NEW n \in DOMAIN headInt
      PROVE  LET node == headInt[n]
             IN  /\ DOMAIN node.rowIds = DOMAIN node.joinedRels
                 /\ \A c \in DOMAIN node.joinedRels :
                      /\ node.joinedRels[c] \in QueryRels
                      /\ Len(node.rowIds[c]) = NumbOfRows(node)
                      /\ Range(node.rowIds[c]) \subseteq Rows(node.joinedRels[c])
  <2>. DEFINE node == headInt[n]
  <2>1. NodeSound(node, AllRows)
    BY <1>1, <1>3 DEF ListSound
  <2>. HIDE DEF node
  <2>2. /\ DOMAIN node.rowIds = DOMAIN node.joinedRels
        /\ DOMAIN node.joinedRels = 1..Len(node.joinedRels)
        /\ \A c \in 1..Len(node.joinedRels) : DOMAIN node.rowIds[c] = 1..NumbOfRows(node)
    BY <2>1, NodeFacts
  <2>3. ASSUME NEW c \in DOMAIN node.joinedRels
        PROVE  /\ node.joinedRels[c] \in QueryRels
               /\ Len(node.rowIds[c]) = NumbOfRows(node)
               /\ Range(node.rowIds[c]) \subseteq Rows(node.joinedRels[c])
    <3>1. /\ node.joinedRels[c] \in QueryRels
          /\ Len(node.rowIds[c]) = NumbOfRows(node)
          /\ \A i \in 1..NumbOfRows(node) :
               node.rowIds[c][i] \in AllRows[node.joinedRels[c]]
      BY <1>2, <2>1, <2>2, Zenon DEF NodeSound
    <3>2. \A i \in DOMAIN node.rowIds[c] : node.rowIds[c][i] \in Rows(node.joinedRels[c])
      BY <1>2, <2>2, <3>1
    <3>3. Range(node.rowIds[c]) \subseteq Rows(node.joinedRels[c])
      BY <3>2 DEF Range
    <3>. QED  BY <3>1, <3>3
  <2>4. \A c \in DOMAIN node.joinedRels :
          /\ node.joinedRels[c] \in QueryRels
          /\ Len(node.rowIds[c]) = NumbOfRows(node)
          /\ Range(node.rowIds[c]) \subseteq Rows(node.joinedRels[c])
    BY <2>3
  <2>. QED  BY <2>2, <2>4, Zenon DEF node
<1>. QED  BY <1>1, <1>3, <1>4, Zenon DEF TypeOK, BaseInv

LEMMA OneOf ==
  ASSUME NEW T, NEW x \in T, \A y \in T : y = x
  PROVE  Cardinality(T) = 1
<1>1. T = {x}
  OBVIOUS
<1>. QED  BY <1>1, FS_Singleton, Zenon

LEMMA InvApart == Inv => RelationsApart
<1>. SUFFICES ASSUME Inv, NEW rel \in QueryRels
              PROVE  /\ Cardinality(NodesWith(rel)) <= 1
                     /\ \A n \in NodesWith(rel) :
                          Cardinality({i \in DOMAIN headInt[n].joinedRels :
                                         headInt[n].joinedRels[i] = rel}) = 1
  BY Zenon DEF RelationsApart
<1>1. ListSound(headInt, AllRows)
  BY DEF Inv
<1>2. DOMAIN headInt = 1..Len(headInt)
  BY <1>1 DEF ListSound
<1>3. \A n \in NodesWith(rel) : n \in 1..Len(headInt) /\ rel \in Range(headInt[n].joinedRels)
  BY <1>2 DEF NodesWith
<1>4. \A n, m \in NodesWith(rel) : n = m
  BY <1>1, <1>3 DEF ListSound
<1>5. Cardinality(NodesWith(rel)) <= 1
  <2>1. CASE NodesWith(rel) = {}
    <3>1. Cardinality(NodesWith(rel)) = 0
      BY <2>1, FS_EmptySet, Zenon
    <3>. QED  BY <3>1
  <2>2. CASE NodesWith(rel) # {}
    <3>1. PICK n \in NodesWith(rel) : TRUE
      BY <2>2
    <3>2. Cardinality(NodesWith(rel)) = 1
      BY <1>4, <3>1, OneOf
    <3>. QED  BY <3>2
  <2>. QED  BY <2>1, <2>2
<1>6. ASSUME NEW n \in NodesWith(rel)
      PROVE  Cardinality({i \in DOMAIN headInt[n].joinedRels :
                            headInt[n].joinedRels[i] = rel}) = 1
  <2>. DEFINE rels == headInt[n].joinedRels
              T == {i \in DOMAIN rels : rels[i] = rel}
  <2>1. Once(rels) /\ rel \in Range(rels)
    BY <1>1, <1>3 DEF ListSound, NodeSound
  <2>. HIDE DEF rels
  <2>2. PICK i \in DOMAIN rels : rels[i] = rel
    BY <2>1 DEF Range
  <2>3. i \in T /\ \A k \in T : k = i
    BY <2>1, <2>2 DEF Once
  <2>. HIDE DEF T
  <2>4. Cardinality(T) = 1
    BY <2>3, OneOf
  <2>. QED  BY <2>4 DEF T, rels
<1>. QED  BY <1>5, <1>6

LEMMA InvNoRowTwice == Inv => NoRowTwice
<1>. SUFFICES ASSUME Inv, NEW n \in DOMAIN headInt,
                     NEW i \in 1..NumbOfRows(headInt[n]), NEW k \in 1..NumbOfRows(headInt[n]),
                     \A c \in DOMAIN headInt[n].rowIds :
                       headInt[n].rowIds[c][i] = headInt[n].rowIds[c][k]
              PROVE  i = k
  BY Zenon DEF NoRowTwice
<1>1. NodeSound(headInt[n], AllRows)
  <2>1. ListSound(headInt, AllRows)
    BY DEF Inv
  <2>2. n \in 1..Len(headInt)
    BY <2>1 DEF ListSound
  <2>. QED  BY <2>1, <2>2, Zenon DEF ListSound
<1>2. DOMAIN headInt[n].rowIds = 1..Len(headInt[n].joinedRels)
  BY <1>1, NodeFacts
<1>. QED  BY <1>1, <1>2, Zenon DEF NodeSound

LEMMA InvOneLeft == Inv => OneIntermediateLeft
<1>. SUFFICES ASSUME Inv, nextFilter > Len(query.filters), todo = {}
              PROVE  /\ Len(headInt) = 1
                     /\ \A k \in DOMAIN query.sums :
                          query.sums[k].rel \in Range(headInt[1].joinedRels)
  BY Zenon DEF OneIntermediateLeft
<1>1. Len(headInt) = 1 /\ Range(headInt[1].joinedRels) = QueryRels
  BY OneLeft
<1>2. table \in Tables /\ query \in Queries
  BY DEF Inv, BaseInv
<1>3. \A k \in DOMAIN query.sums : query.sums[k].rel \in QueryRels
  BY <1>2, QueryFacts, TableFacts
<1>. QED  BY <1>1, <1>3

(* The columns of an intermediate stay of one length and hold rows of      *)
(* their own relation only: no update writes another column's row numbers, *)
(* and a checksum stays a word.                                            *)
THEOREM TypeCorrect == Spec => []TypeOK
<1>. QED  BY Invariance, InvTypeOK, PTL

(* findNode finds the only node that has a relation, no intermediate keeps *)
(* a combination of rows twice, and when all predicates of a connected     *)
(* query are executed, whatever the order of its joins, performChecksums   *)
(* has one intermediate with every relation to sum over.                   *)
THEOREM Sound == Spec => []IntermediatesSound
<1>1. Inv => IntermediatesSound
  BY InvApart, InvNoRowTwice, InvOneLeft DEF IntermediatesSound
<1>. QED  BY Invariance, <1>1, PTL

-----------------------------------------------------------------------------
(***************************************************************************)
(* QueryExec implements ConjunctiveQuery.                                  *)
(*                                                                         *)
(* The argument: the groups of ConjunctiveQuery are the combinations of    *)
(* rows that the node of each relation lists (GroupsAre); a step on the    *)
(* list of intermediates changes the nodes of the relations it joins and   *)
(* no other (NodesAfter); selected rows are the combinations that satisfy  *)
(* the predicate, merged rows are those of two groups that agree on it     *)
(* (SelectedRows, MergedRows).  A sum over a set does not depend on the    *)
(* order (TakenInAnyOrder), and a node lists no combination twice.         *)
(***************************************************************************)

Words == 0..WordRange-1

-----------------------------------------------------------------------------
(* Sums of words                                                           *)

LEMMA ModOnce ==
  ASSUME NEW w \in Nat \ {0}, NEW a \in 0..w-1, NEW b \in 0..w-1
  PROVE  (a + b) % w = IF a + b < w THEN a + b ELSE a + b - w
OBVIOUS

LEMMA PlusOnce ==
  ASSUME NEW a \in Words, NEW b \in Words
  PROVE  /\ PlusValue(a, b) = IF a + b < WordRange THEN a + b ELSE a + b - WordRange
         /\ PlusValue(a, b) \in Words
<1>1. a + b \in Nat /\ a + b < 2 * WordRange /\ WordRange \in Nat \ {0}
  BY WordAssumption DEF Words
<1>2. (a + b) % WordRange = IF a + b < WordRange THEN a + b ELSE a + b - WordRange
  BY <1>1, ModOnce DEF Words
<1>3. PlusValue(a, b) = IF a + b < WordRange THEN a + b ELSE a + b - WordRange
  BY <1>2, Zenon DEF PlusValue
<1>. QED  BY <1>1, <1>3 DEF Words

LEMMA PlusInAnyOrder ==
  ASSUME NEW a \in Words, NEW b \in Words, NEW c \in Words
  PROVE  PlusValue(PlusValue(a, b), c) = PlusValue(PlusValue(a, c), b)
<1>1. PlusValue(a, b) \in Words /\ PlusValue(a, c) \in Words
  BY PlusOnce
<1>2. /\ PlusValue(a, b) = IF a + b < WordRange THEN a + b ELSE a + b - WordRange
      /\ PlusValue(a, c) = IF a + c < WordRange THEN a + c ELSE a + c - WordRange
  BY PlusOnce
<1>. DEFINE d == PlusValue(a, b)
            e == PlusValue(a, c)
<1>. HIDE DEF d, e
<1>3. PlusValue(d, c) = IF d + c < WordRange THEN d + c ELSE d + c - WordRange
  BY <1>1, PlusOnce DEF d
<1>4. PlusValue(e, b) = IF e + b < WordRange THEN e + b ELSE e + b - WordRange
  BY <1>1, PlusOnce DEF e
<1>5. PlusValue(d, c) = PlusValue(e, b)
  <2>1. d \in Words /\ e \in Words /\ WordRange \in Nat
    BY <1>1, WordAssumption DEF d, e
  <2>2. /\ d = IF a + b < WordRange THEN a + b ELSE a + b - WordRange
        /\ e = IF a + c < WordRange THEN a + c ELSE a + c - WordRange
    BY <1>2, Zenon DEF d, e
  <2>. QED  BY <1>3, <1>4, <2>1, <2>2 DEF Words
<1>. QED  BY <1>5 DEF d, e

(* FoldSet takes the elements of a set one by one, in an order that CHOOSE *)
(* gives: f has the sums over all subsets.                                 *)
Some(s) == CHOOSE x \in s : TRUE
Term(c, x) == Value(c, x[c.rel])
SumsSubsets(c, dom, f) ==
  f = [s \in dom |-> IF s = {} THEN 0 ELSE PlusValue(f[s \ {Some(s)}], Term(c, Some(s)))]

LEMMA SumsSubsetsExist ==
  ASSUME NEW c, NEW S, IsFiniteSet(S)
  PROVE  \E f : SumsSubsets(c, SUBSET S, f)
<1>. DEFINE Small(n) == {s \in SUBSET S : Cardinality(s) <= n}
            Body(h, s) == IF s = {} THEN 0 ELSE PlusValue(h[s \ {Some(s)}], Term(c, Some(s)))
            T == {n \in Nat : \E f : f = [s \in Small(n) |-> Body(f, s)]}
<1>1. \A s \in SUBSET S : IsFiniteSet(s) /\ Cardinality(s) \in Nat
  BY FS_Subset, FS_CardinalityType
<1>2. \A s \in SUBSET S : s # {} =>
        /\ Some(s) \in s /\ s \ {Some(s)} \in SUBSET S
        /\ Cardinality(s \ {Some(s)}) = Cardinality(s) - 1
  <2>. TAKE s \in SUBSET S
  <2>. HAVE s # {}
  <2>1. Some(s) \in s
    BY DEF Some
  <2>2. Cardinality(s \ {Some(s)}) = Cardinality(s) - 1
    BY <1>1, <2>1, FS_RemoveElement
  <2>. QED  BY <2>1, <2>2
<1>3. 0 \in T
  <2>. DEFINE f == [s \in Small(0) |-> 0]
  <2>1. \A s \in Small(0) : s = {}
    <3>. TAKE s \in Small(0)
    <3>1. Cardinality(s) = 0 /\ IsFiniteSet(s)
      BY <1>1
    <3>. QED  BY <3>1, FS_EmptySet, Zenon
  <2>2. f = [s \in Small(0) |-> Body(f, s)]
    <3>. HIDE DEF Small
    <3>. QED  BY <2>1
  <2>. HIDE DEF Small, Body, f
  <2>. QED  BY <2>2
<1>4. ASSUME NEW n \in Nat, n \in T
      PROVE  n + 1 \in T
  <2>1. PICK f : f = [s \in Small(n) |-> Body(f, s)]
    BY <1>4, Zenon
  <2>. DEFINE g == [s \in Small(n + 1) |-> IF s \in Small(n) THEN f[s] ELSE Body(f, s)]
  <2>2. \A s \in Small(n) : s \in Small(n + 1)
    BY <1>1
  <2>3. \A s \in Small(n + 1) : s # {} => s \ {Some(s)} \in Small(n)
    BY <1>1, <1>2
  <2>. HIDE DEF Small
  <2>4. ASSUME NEW s \in Small(n + 1)
        PROVE  g[s] = Body(g, s)
    <3>1. s # {} => g[s \ {Some(s)}] = f[s \ {Some(s)}]
      BY <2>2, <2>3
    <3>2. Body(g, s) = Body(f, s)
      BY <3>1
    <3>3. CASE s \in Small(n)
      <4>1. f[s] = Body(f, s)
        BY <2>1, <3>3, Zenon
      <4>. QED  BY <3>2, <3>3, <4>1
    <3>4. CASE s \notin Small(n)
      BY <3>2, <3>4
    <3>. QED  BY <3>3, <3>4
  <2>5. g = [s \in Small(n + 1) |-> Body(g, s)]
    BY <2>4
  <2>. HIDE DEF Body, g
  <2>6. \E h : h = [s \in Small(n + 1) |-> Body(h, s)]
    BY <2>5, Zenon
  <2>. QED  BY <2>6
<1>. HIDE DEF T
<1>5. Cardinality(S) \in T
  BY <1>1, <1>3, <1>4, InductionInSet
<1>6. Small(Cardinality(S)) = SUBSET S
  BY <1>1, FS_Subset
<1>7. \E f : f = [s \in Small(Cardinality(S)) |-> Body(f, s)]
  BY <1>5 DEF T
<1>. HIDE DEF Small
<1>. QED  BY <1>6, <1>7, Zenon DEF SumsSubsets

AnyOrder(c, S, f) ==
  /\ f[{}] = 0
  /\ \A s \in SUBSET S : \A x \in s : f[s] = PlusValue(f[s \ {x}], Term(c, x))
WordTerms(c, S) == \A x \in S : Term(c, x) \in Words

(* A sum over a set is that over the others and any one of its elements.   *)
LEMMA TakenInAnyOrder ==
  ASSUME NEW c, NEW S, IsFiniteSet(S), WordTerms(c, S),
         NEW f, SumsSubsets(c, SUBSET S, f)
  PROVE  AnyOrder(c, S, f)
<1>. DEFINE Good(s) == /\ f[s] \in Words
                       /\ \A x \in s : f[s] = PlusValue(f[s \ {x}], Term(c, x))
            T == {n \in Nat : \A s \in SUBSET S : Cardinality(s) <= n => Good(s)}
<1>0. \A x \in S : Term(c, x) \in Words
  BY DEF WordTerms
<1>1. \A s \in SUBSET S : IsFiniteSet(s) /\ Cardinality(s) \in Nat
  BY FS_Subset, FS_CardinalityType
<1>2. f[{}] = 0 /\ 0 \in Words
  <2>1. {} \in SUBSET S
    OBVIOUS
  <2>2. f[{}] = 0
    BY <2>1, Zenon DEF SumsSubsets
  <2>. QED  BY <2>2, WordAssumption DEF Words
<1>3. \A s \in SUBSET S : s # {} =>
        Some(s) \in s /\ f[s] = PlusValue(f[s \ {Some(s)}], Term(c, Some(s)))
  <2>. TAKE s \in SUBSET S
  <2>. HAVE s # {}
  <2>1. Some(s) \in s
    BY DEF Some
  <2>2. f[s] = PlusValue(f[s \ {Some(s)}], Term(c, Some(s)))
    BY Zenon DEF SumsSubsets
  <2>. QED  BY <2>1, <2>2
<1>4. 0 \in T
  <2>. SUFFICES ASSUME NEW s \in SUBSET S, Cardinality(s) <= 0
                PROVE  Good(s)
    OBVIOUS
  <2>0. Cardinality(s) = 0 /\ IsFiniteSet(s)
    BY <1>1
  <2>1. s = {}
    BY <2>0, FS_EmptySet, Zenon
  <2>. QED  BY <1>2, <2>1
<1>5. ASSUME NEW n \in Nat, n \in T
      PROVE  n + 1 \in T
  <2>. SUFFICES ASSUME NEW s \in SUBSET S, Cardinality(s) <= n + 1
                PROVE  Good(s)
    OBVIOUS
  <2>. SUFFICES ASSUME s # {}
                PROVE  Good(s)
    BY <1>2
  <2>1. \A x \in s : Cardinality(s \ {x}) <= n /\ s \ {x} \in SUBSET S
    <3>. TAKE x \in s
    <3>1. Cardinality(s \ {x}) = Cardinality(s) - 1
      BY <1>1, FS_RemoveElement
    <3>. QED  BY <1>1, <3>1
  <2>2. \A x \in s : Good(s \ {x})
    BY <1>5, <2>1
  <2>. DEFINE y == Some(s)
  <2>4. y \in s /\ f[s] = PlusValue(f[s \ {y}], Term(c, y))
    BY <1>3
  <2>. HIDE DEF y
  <2>5. f[s] \in Words
    BY <1>0, <2>2, <2>4, PlusOnce
  <2>6. ASSUME NEW x \in s, x # y
        PROVE  f[s] = PlusValue(f[s \ {x}], Term(c, x))
    <3>. DEFINE r == (s \ {x}) \ {y}
    <3>1. r = (s \ {y}) \ {x} /\ x \in s \ {y} /\ y \in s \ {x}
      BY <2>4, <2>6
    <3>2. f[s \ {y}] = PlusValue(f[r], Term(c, x))
      BY <2>2, <2>4, <3>1, Zenon
    <3>3. f[s \ {x}] = PlusValue(f[r], Term(c, y))
      BY <2>2, <3>1, Zenon
    <3>4. f[r] \in Words
      <4>1. Cardinality(s \ {x}) <= n /\ s \ {x} \in SUBSET S
        BY <2>1
      <4>2. r \in SUBSET S /\ Cardinality(r) = Cardinality(s \ {x}) - 1
        BY <1>1, <3>1, <4>1, FS_RemoveElement
      <4>3. Cardinality(r) <= n
        BY <1>1, <4>1, <4>2
      <4>. QED  BY <1>5, <4>2, <4>3
    <3>5. Term(c, x) \in Words /\ Term(c, y) \in Words
      BY <1>0, <2>4
    <3>6. PlusValue(PlusValue(f[r], Term(c, x)), Term(c, y))
            = PlusValue(PlusValue(f[r], Term(c, y)), Term(c, x))
      BY <3>4, <3>5, PlusInAnyOrder
    <3>. QED  BY <2>4, <3>2, <3>3, <3>6, Zenon
  <2>. QED  BY <2>4, <2>5, <2>6, Zenon
<1>. HIDE DEF T
<1>6. Nat \subseteq T
  BY <1>4, <1>5, InductionInSet
<1>7. \A s \in SUBSET S : Good(s)
  <2>. TAKE s \in SUBSET S
  <2>1. Cardinality(s) \in T /\ Cardinality(s) <= Cardinality(s)
    BY <1>1, <1>6
  <2>. QED  BY <2>1 DEF T
<1>. QED  BY <1>2, <1>7, Zenon DEF AnyOrder

LEMMA SumDef ==
  ASSUME NEW c, NEW S, IsFiniteSet(S)
  PROVE  \E f : SumsSubsets(c, SUBSET S, f) /\ CQ!Sum(c, S) = f[S]
<1>. DEFINE iter == CHOOSE f : f = [s \in SUBSET S |->
                      IF s = {} THEN 0
                      ELSE (f[s \ {Some(s)}] + Value(c, Some(s)[c.rel])) % WordRange]
<1>1. \E f : f = [s \in SUBSET S |->
                    IF s = {} THEN 0
                    ELSE (f[s \ {Some(s)}] + Value(c, Some(s)[c.rel])) % WordRange]
  <2>1. \E f : SumsSubsets(c, SUBSET S, f)
    BY SumsSubsetsExist
  <2>. QED  BY <2>1, Zenon DEF SumsSubsets, PlusValue, Term
<1>2. SumsSubsets(c, SUBSET S, iter)
  BY <1>1, Zenon DEF SumsSubsets, PlusValue, Term
<1>3. CQ!Sum(c, S) = iter[S]
  BY Zenon DEF CQ!Sum, CQ!FoldSet, CQ!MapThenFoldSet, CQ!Value, Value, Some
<1>. QED  BY <1>2, <1>3, Zenon

(* The sum over combinations that a sequence lists once is the sum along   *)
(* the sequence.                                                           *)
LEMMA SumIsChecksum ==
  ASSUME NEW c, NEW rowIds, Len(rowIds) \in Nat, NEW comb,
         \A i, k \in 1..Len(rowIds) : comb[i] = comb[k] => i = k,
         \A i \in 1..Len(rowIds) : /\ Term(c, comb[i]) = Value(c, rowIds[i])
                                   /\ Value(c, rowIds[i]) \in Words
  PROVE  CQ!Sum(c, {comb[i] : i \in 1..Len(rowIds)}) = calcChecksum(rowIds, c)
<1>. DEFINE m == Len(rowIds)
            First(n) == {comb[i] : i \in 1..n}
            S == First(m)
<1>1. IsFiniteSet(S)
  <2>1. IsFiniteSet(1..m)
    BY FS_Interval
  <2>2. S = {comb[i] : i \in 1..m}
    OBVIOUS
  <2>. HIDE DEF S
  <2>3. [i \in 1..m |-> comb[i]] \in Surjection(1..m, S)
    BY <2>2 DEF Surjection
  <2>. QED  BY <2>1, <2>3, FS_Surjection
<1>2. PICK f : SumsSubsets(c, SUBSET S, f) /\ CQ!Sum(c, S) = f[S]
  BY <1>1, SumDef
<1>3. PICK g : SumsUp(rowIds, c, g) /\ calcChecksum(rowIds, c) = g[m]
  BY ChecksumDef
<1>4. g[0] = 0 /\ \A n \in 0..m-1 : g[n+1] = PlusValue(g[n], Value(c, rowIds[n+1]))
  BY <1>3, SumsUpStep
<1>5. WordTerms(c, S)
  BY DEF WordTerms
<1>6. /\ f[{}] = 0
      /\ \A s \in SUBSET S : \A x \in s : f[s] = PlusValue(f[s \ {x}], Term(c, x))
  <2>. HIDE DEF S
  <2>1. SumsSubsets(c, SUBSET S, f)
    BY <1>2
  <2>2. AnyOrder(c, S, f)
    BY <1>1, <1>5, <2>1, TakenInAnyOrder
  <2>. QED  BY <2>2, Zenon DEF AnyOrder
<1>. DEFINE T == {n \in Nat : f[First(n)] = g[n]}
<1>7. 0 \in T
  <2>1. First(0) = {}
    OBVIOUS
  <2>. HIDE DEF First
  <2>. QED  BY <1>4, <1>6, <2>1
<1>8. ASSUME NEW n \in 0..m-1, n \in T
      PROVE  n + 1 \in T
  <2>1. n + 1 \in 1..m /\ n \in Nat
    OBVIOUS
  <2>2. First(n + 1) \in SUBSET S /\ comb[n + 1] \in First(n + 1)
    BY <2>1
  <2>3. First(n + 1) \ {comb[n + 1]} = First(n)
    <3>1. \A i \in 1..n : i \in 1..m /\ i \in 1..n+1 /\ i # n + 1
      BY <2>1
    <3>2. \A i \in 1..n+1 : i = n + 1 \/ i \in 1..n
      BY <2>1
    <3>3. \A i \in 1..n : comb[i] # comb[n + 1]
      BY <2>1, <3>1
    <3>. QED  BY <3>1, <3>2, <3>3
  <2>4. f[First(n)] = g[n]
    BY <1>8
  <2>. HIDE DEF First, S
  <2>5. f[First(n + 1)] = PlusValue(f[First(n)], Term(c, comb[n + 1]))
    <3>. DEFINE s == First(n + 1)
                x == comb[n + 1]
    <3>1. s \in SUBSET S /\ x \in s
      BY <2>2, Zenon
    <3>. HIDE DEF s, x
    <3>2. f[s] = PlusValue(f[s \ {x}], Term(c, x))
      BY <1>6, <3>1
    <3>. QED  BY <2>3, <3>2, Zenon DEF s, x
  <2>6. Term(c, comb[n + 1]) = Value(c, rowIds[n + 1])
    BY <2>1
  <2>7. g[n + 1] = PlusValue(g[n], Value(c, rowIds[n + 1]))
    BY <1>4
  <2>8. f[First(n + 1)] = g[n + 1]
    BY <2>4, <2>5, <2>6, <2>7, Zenon
  <2>. QED  BY <2>1, <2>8
<1>. HIDE DEF T
<1>9. 0..m \subseteq T
  BY <1>7, <1>8, InductionUpTo
<1>10. m \in 0..m
  OBVIOUS
<1>11. f[S] = g[m]
  BY <1>9, <1>10 DEF T
<1>. QED  BY <1>2, <1>3, <1>11, Zenon

-----------------------------------------------------------------------------
(* Groups                                                                  *)

Located ==
  \A rel \in QueryRels :
    /\ findNode(rel) = 0 =>
         \A n \in 1..Len(headInt) : rel \notin Range(headInt[n].joinedRels)
    /\ findNode(rel) # 0 => /\ findNode(rel) \in 1..Len(headInt)
                            /\ rel \in Range(headInt[findNode(rel)].joinedRels)

LEMMA InvLocated == Inv => Located
<1>. SUFFICES ASSUME Inv PROVE Located
  OBVIOUS
<1>1. ListSound(headInt, AllRows)
  BY DEF Inv
<1>. QED  BY <1>1, FindNodeFacts DEF Located

LEMMA InvFacts ==
  ASSUME Inv
  PROVE  /\ table \in Tables /\ query \in Queries /\ ListSound(headInt, AllRows)
         /\ DOMAIN AllRows = QueryRels /\ Located
         /\ Len(headInt) \in Nat /\ DOMAIN headInt = 1..Len(headInt)
         /\ \A n \in 1..Len(headInt) : /\ NodeSound(headInt[n], AllRows)
                                       /\ Range(headInt[n].joinedRels) \subseteq QueryRels
                                       /\ Range(headInt[n].joinedRels) # {}
         /\ \A n, m \in 1..Len(headInt) :
              Range(headInt[n].joinedRels) \cap Range(headInt[m].joinedRels) # {} => n = m
<1>1. table \in Tables /\ query \in Queries /\ ListSound(headInt, AllRows)
  BY DEF Inv, BaseInv
<1>2. DOMAIN AllRows = QueryRels
  BY <1>1, TableFacts
<1>3. /\ Len(headInt) \in Nat /\ DOMAIN headInt = 1..Len(headInt)
      /\ \A n \in 1..Len(headInt) : NodeSound(headInt[n], AllRows)
  BY <1>1 DEF ListSound
<1>4. \A n, m \in 1..Len(headInt) :
        Range(headInt[n].joinedRels) \cap Range(headInt[m].joinedRels) # {} => n = m
  BY <1>1 DEF ListSound
<1>5. ASSUME NEW node, NodeSound(node, AllRows)
      PROVE  Range(node.joinedRels) \subseteq QueryRels /\ Range(node.joinedRels) # {}
  <2>. DEFINE rels == node.joinedRels
  <2>1. Len(rels) \in Nat \ {0} /\ DOMAIN rels = 1..Len(rels)
    BY <1>5, NodeFacts
  <2>2. \A c \in 1..Len(rels) : rels[c] \in QueryRels
    BY <1>2, <1>5 DEF NodeSound
  <2>3. 1 \in DOMAIN rels
    BY <2>1
  <2>. HIDE DEF rels
  <2>4. Range(rels) \subseteq QueryRels /\ Range(rels) # {}
    BY <2>1, <2>2, <2>3 DEF Range
  <2>. QED  BY <2>4 DEF rels
<1>. QED  BY <1>1, <1>2, <1>3, <1>4, <1>5, InvLocated

LEMMA NodeForRels ==
  ASSUME Inv, NEW rel \in QueryRels
  PROVE  /\ NodeSound(NodeFor(rel), AllRows)
         /\ rel \in Range(NodeFor(rel).joinedRels)
         /\ Range(NodeFor(rel).joinedRels) \subseteq QueryRels
<1>1. NodeSound(NodeFor(rel), AllRows) /\ rel \in Range(NodeFor(rel).joinedRels)
  BY InvFacts, NodeForFacts
<1>2. Range(NodeFor(rel).joinedRels) \subseteq QueryRels
  <2>1. CASE findNode(rel) = 0
    <3>1. Range(NodeFor(rel).joinedRels) = {rel}
      BY <2>1, InvFacts, NodeForFacts
    <3>. QED  BY <3>1
  <2>2. CASE findNode(rel) # 0
    <3>1. NodeFor(rel) = headInt[findNode(rel)]
      BY <2>2, InvFacts, NodeForFacts
    <3>2. findNode(rel) \in 1..Len(headInt)
      BY <2>2, InvFacts DEF Located
    <3>. QED  BY <3>1, <3>2, InvFacts
  <2>. QED  BY <2>1, <2>2
<1>. QED  BY <1>1, <1>2

(* A relation's node is that of every relation in it.                      *)
LEMMA SameNode ==
  ASSUME Inv, NEW rel \in QueryRels, NEW s \in Range(NodeFor(rel).joinedRels)
  PROVE  s \in QueryRels /\ NodeFor(s) = NodeFor(rel)
<1>0. s \in QueryRels
  BY NodeForRels
<1>1. CASE findNode(rel) = 0
  <2>1. Range(NodeFor(rel).joinedRels) = {rel}
    BY <1>1, InvFacts, NodeForFacts
  <2>. QED  BY <1>0, <2>1
<1>2. CASE findNode(rel) # 0
  <2>1. NodeFor(rel) = headInt[findNode(rel)] /\ findNode(rel) \in 1..Len(headInt)
    BY <1>2, InvFacts, NodeForFacts DEF Located
  <2>2. s \in Range(headInt[findNode(rel)].joinedRels)
    BY <2>1
  <2>3. findNode(s) \in 1..Len(headInt) /\ s \in Range(headInt[findNode(s)].joinedRels)
        /\ findNode(s) # 0
    BY <1>0, <2>1, <2>2, InvFacts DEF Located
  <2>4. Range(headInt[findNode(s)].joinedRels) \cap Range(headInt[findNode(rel)].joinedRels) # {}
    BY <2>2, <2>3
  <2>5. findNode(s) = findNode(rel)
    BY <2>1, <2>3, <2>4, InvFacts
  <2>. QED  BY <1>0, <1>2, <2>5, Zenon DEF NodeFor
<1>. QED  BY <1>1, <1>2

LEMMA ColumnAt ==
  ASSUME NEW rows, NEW node, NodeSound(node, rows), NEW c \in 1..Len(node.joinedRels)
  PROVE  ColumnOf(node, node.joinedRels[c]) = node.rowIds[c]
<1>1. DOMAIN node.joinedRels = 1..Len(node.joinedRels)
  BY NodeFacts
<1>2. node.joinedRels[c] \in Range(node.joinedRels)
  BY <1>1 DEF Range
<1>3. PICK d \in 1..Len(node.joinedRels) :
        /\ node.joinedRels[d] = node.joinedRels[c]
        /\ ColumnOf(node, node.joinedRels[c]) = node.rowIds[d]
  BY <1>2, ColumnFacts
<1>4. Once(node.joinedRels)
  BY DEF NodeSound
<1>5. d = c
  BY <1>1, <1>3, <1>4 DEF Once
<1>. QED  BY <1>3, <1>5

(* A node lists combinations of rows of its relations, none twice.         *)
LEMMA CombinationFacts ==
  ASSUME Inv, NEW node, NodeSound(node, AllRows)
  PROVE  LET rels == Range(node.joinedRels)
         IN  /\ \A i \in 1..NumbOfRows(node) :
                  /\ Combination(node, i) \in CQ!Combinations(rels)
                  /\ \A r \in rels : Combination(node, i)[r] = ColumnOf(node, r)[i]
             /\ \A i, k \in 1..NumbOfRows(node) :
                  Combination(node, i) = Combination(node, k) => i = k
<1>. DEFINE rels == Range(node.joinedRels)
            n == NumbOfRows(node)
            comb(i) == Combination(node, i)
<1>1. DOMAIN AllRows = QueryRels /\ \A r \in QueryRels : AllRows[r] = Rows(r)
  BY InvFacts, TableFacts
<1>2. DOMAIN node.joinedRels = 1..Len(node.joinedRels)
  BY NodeFacts
<1>3. \A r \in rels : r \in QueryRels
  <2>1. \A c \in 1..Len(node.joinedRels) : node.joinedRels[c] \in QueryRels
    BY <1>1 DEF NodeSound
  <2>. QED  BY <1>2, <2>1 DEF Range
<1>4. \A r \in rels : \A i \in 1..n : ColumnOf(node, r)[i] \in Rows(r)
  <2>. TAKE r \in rels
  <2>1. \A i \in 1..n : ColumnOf(node, r)[i] \in AllRows[r]
    BY ColumnFacts
  <2>. QED  BY <1>1, <1>3, <2>1
<1>5. \A i : comb(i) = [r \in rels |-> ColumnOf(node, r)[i]]
  BY DEF Combination
<1>. HIDE DEF comb, rels, n
<1>6. \A i : \A r \in rels : comb(i)[r] = ColumnOf(node, r)[i]
  BY <1>5
<1>7. ASSUME NEW i \in 1..n
      PROVE  comb(i) \in CQ!Combinations(rels)
  <2>1. \A r \in rels : CQ!RowsOf(r) = Rows(r)
    BY Zenon DEF CQ!RowsOf, Rows
  <2>2. \A r \in rels : comb(i)[r] \in CQ!RowsOf(r)
    BY <1>4, <1>6, <2>1
  <2>3. comb(i) \in [rels -> UNION {CQ!RowsOf(r) : r \in rels}]
    BY <1>5, <1>6, <2>2
  <2>. QED  BY <2>2, <2>3, Zenon DEF CQ!Combinations
<1>8. ASSUME NEW i \in 1..n, NEW k \in 1..n, comb(i) = comb(k)
      PROVE  i = k
  <2>1. \A c \in 1..Len(node.joinedRels) : node.rowIds[c][i] = node.rowIds[c][k]
    <3>. TAKE c \in 1..Len(node.joinedRels)
    <3>. DEFINE r == node.joinedRels[c]
    <3>1. r \in rels
      BY <1>2 DEF Range, rels
    <3>2. ColumnOf(node, r) = node.rowIds[c]
      BY ColumnAt
    <3>. HIDE DEF r
    <3>3. ColumnOf(node, r)[i] = ColumnOf(node, r)[k]
      BY <1>6, <1>8, <3>1
    <3>. QED  BY <3>2, <3>3
  <2>. QED  BY <2>1, Zenon DEF NodeSound, n
<1>9. \A i \in 1..n : /\ comb(i) \in CQ!Combinations(rels)
                      /\ \A r \in rels : comb(i)[r] = ColumnOf(node, r)[i]
  BY <1>6, <1>7
<1>10. \A i, k \in 1..n : comb(i) = comb(k) => i = k
  BY <1>8
<1>. QED  BY <1>9, <1>10, Zenon DEF comb, rels, n

(* A relation that is in no node is a group with all its rows.             *)
LEMMA BaseGroup ==
  ASSUME Inv, NEW rel \in QueryRels, findNode(rel) = 0
  PROVE  GroupOf(NodeFor(rel)) = [rels |-> {rel}, rows |-> [{rel} -> Rows(rel)]]
<1>. DEFINE node == NodeFor(rel)
<1>1. Range(node.joinedRels) = {rel} /\ Rows(rel) = 1..NumbOfRows(node)
  BY InvFacts, NodeForFacts
<1>2. \A i \in Rows(rel) : ColumnOf(node, rel)[i] = i
  BY InvFacts, BaseColumnOf
<1>3. \A i \in Rows(rel) : Combination(node, i) = [r \in {rel} |-> i]
  <2>. TAKE i \in Rows(rel)
  <2>1. Combination(node, i) = [r \in {rel} |-> ColumnOf(node, r)[i]]
    BY <1>1, Zenon DEF Combination
  <2>. HIDE DEF node
  <2>2. \A r \in {rel} : ColumnOf(node, r)[i] = i
    BY <1>2
  <2>. QED  BY <2>1, <2>2
<1>. HIDE DEF node
<1>4. {Combination(node, i) : i \in Rows(rel)} = [{rel} -> Rows(rel)]
  <2>1. ASSUME NEW f \in [{rel} -> Rows(rel)]
        PROVE  \E i \in Rows(rel) : f = Combination(node, i)
    <3>1. f[rel] \in Rows(rel) /\ f = [r \in {rel} |-> f[rel]]
      OBVIOUS
    <3>2. Combination(node, f[rel]) = [r \in {rel} |-> f[rel]]
      BY <1>3, <3>1
    <3>. QED  BY <3>1, <3>2
  <2>2. ASSUME NEW i \in Rows(rel)
        PROVE  Combination(node, i) \in [{rel} -> Rows(rel)]
    BY <1>3
  <2>. QED  BY <2>1, <2>2
<1>5. GroupOf(node) = [rels |-> {rel}, rows |-> {Combination(node, i) : i \in Rows(rel)}]
  BY <1>1, Zenon DEF GroupOf
<1>. QED  BY <1>4, <1>5, Zenon DEF node

GroupsByNode == Groups = {GroupOf(NodeFor(rel)) : rel \in QueryRels}

LEMMA GroupsAre == Inv => GroupsByNode
<1>. SUFFICES ASSUME Inv PROVE Groups = {GroupOf(NodeFor(rel)) : rel \in QueryRels}
  BY DEF GroupsByNode
<1>. DEFINE H == {GroupOf(NodeFor(rel)) : rel \in QueryRels}
<1>1. Groups = {GroupOf(headInt[n]) : n \in 1..Len(headInt)}
               \cup {[rels |-> {rel}, rows |-> [{rel} -> Rows(rel)]] : rel \in Alone}
  BY InvFacts, Zenon DEF Groups
<1>2. ASSUME NEW n \in 1..Len(headInt)
      PROVE  GroupOf(headInt[n]) \in H
  <2>1. PICK rel : rel \in Range(headInt[n].joinedRels) /\ rel \in QueryRels
    BY InvFacts
  <2>2. findNode(rel) # 0 /\ findNode(rel) \in 1..Len(headInt)
        /\ rel \in Range(headInt[findNode(rel)].joinedRels)
    BY <2>1, InvFacts DEF Located
  <2>3. Range(headInt[findNode(rel)].joinedRels) \cap Range(headInt[n].joinedRels) # {}
    BY <2>1, <2>2
  <2>4. findNode(rel) = n
    BY <2>2, <2>3, InvFacts
  <2>5. NodeFor(rel) = headInt[n]
    BY <2>2, <2>4, Zenon DEF NodeFor
  <2>. QED  BY <2>1, <2>5
<1>3. ASSUME NEW rel \in Alone
      PROVE  [rels |-> {rel}, rows |-> [{rel} -> Rows(rel)]] \in H
  <2>1. rel \in QueryRels /\ findNode(rel) = 0
    BY DEF Alone
  <2>2. GroupOf(NodeFor(rel)) = [rels |-> {rel}, rows |-> [{rel} -> Rows(rel)]]
    BY <2>1, BaseGroup
  <2>. QED  BY <2>1, <2>2
<1>4. ASSUME NEW rel \in QueryRels
      PROVE  GroupOf(NodeFor(rel)) \in Groups
  <2>1. CASE findNode(rel) = 0
    <3>1. rel \in Alone
      BY <2>1 DEF Alone
    <3>2. GroupOf(NodeFor(rel)) = [rels |-> {rel}, rows |-> [{rel} -> Rows(rel)]]
      BY <2>1, BaseGroup
    <3>. QED  BY <1>1, <3>1, <3>2
  <2>2. CASE findNode(rel) # 0
    <3>1. NodeFor(rel) = headInt[findNode(rel)] /\ findNode(rel) \in 1..Len(headInt)
      BY <2>2, InvFacts, NodeForFacts DEF Located
    <3>. QED  BY <1>1, <3>1
  <2>. QED  BY <2>1, <2>2
<1>5. Groups \subseteq H
  BY <1>1, <1>2, <1>3
<1>6. H \subseteq Groups
  BY <1>4
<1>. QED  BY <1>5, <1>6

-----------------------------------------------------------------------------
(* What a step does to nodes and groups                                    *)

(* The step replaces the nodes of the relations of node and no other.      *)
NodesSpliced(node) ==
  \A rel \in QueryRels :
    NodeFor(rel)' = IF rel \in Range(node.joinedRels) THEN node ELSE NodeFor(rel)

LEMMA NodesAfter ==
  ASSUME Inv, Inv', Located', table' = table, query' = query,
         NEW r1 \in QueryRels, NEW r2 \in QueryRels, NEW node, Step(r1, r2, node, headInt')
  PROVE  NodesSpliced(node)
<1>. DEFINE new == headInt'
            rest == {0} \cup (1..Len(headInt) \ Places(r1, r2))
            rels == Range(node.joinedRels)
<1>1. AllRows' = AllRows
  BY SameRows
<1>2. ListSound(new, AllRows)
  <2>1. ListSound(headInt', AllRows')
    BY DEF Inv
  <2>. QED  BY <1>1, <2>1
<1>3. \A n, m \in 1..Len(new) :
        Range(new[n].joinedRels) \cap Range(new[m].joinedRels) # {} => n = m
  BY <1>2 DEF ListSound
<1>4. QueryRels' = QueryRels
  BY DEF QueryRels
<1>5. \A rel \in QueryRels :
        /\ findNode(rel)' = 0 => \A n \in 1..Len(new) : rel \notin Range(new[n].joinedRels)
        /\ findNode(rel)' # 0 => /\ findNode(rel)' \in 1..Len(new)
                                 /\ rel \in Range(new[findNode(rel)'].joinedRels)
  BY <1>4, Zenon DEF Located
<1>6. PICK src \in [1..Len(new) -> rest] :
        /\ \A m \in rest : \E i \in 1..Len(new) : src[i] = m
        /\ \A i \in 1..Len(new) : new[i] = IF src[i] = 0 THEN node ELSE headInt[src[i]]
  BY Zenon DEF Step, Replaces
<1>7. rels = Range(NodeFor(r1).joinedRels) \cup Range(NodeFor(r2).joinedRels)
  BY Zenon DEF Step
<1>8. ASSUME NEW rel \in QueryRels, NEW i \in 1..Len(new), rel \in Range(new[i].joinedRels)
      PROVE  NodeFor(rel)' = new[i]
  <2>1. findNode(rel)' # 0 /\ findNode(rel)' \in 1..Len(new)
        /\ rel \in Range(new[findNode(rel)'].joinedRels)
    BY <1>5, <1>8
  <2>2. findNode(rel)' = i
    BY <1>3, <1>8, <2>1
  <2>. QED  BY <2>1, <2>2, Zenon DEF NodeFor
<1>9. ASSUME NEW rel \in QueryRels, rel \in rels
      PROVE  NodeFor(rel)' = node
  <2>1. PICK i \in 1..Len(new) : src[i] = 0
    BY <1>6
  <2>2. new[i] = node
    BY <1>6, <2>1
  <2>. QED  BY <1>8, <1>9, <2>2
<1>10. ASSUME NEW rel \in QueryRels, rel \notin rels
       PROVE  NodeFor(rel)' = NodeFor(rel)
  <2>0. Located
    BY InvFacts
  <2>1. CASE findNode(rel) = 0
    <3>1. \A n \in 1..Len(headInt) : rel \notin Range(headInt[n].joinedRels)
      BY <2>0, <2>1 DEF Located
    <3>2. \A i \in 1..Len(new) : src[i] # 0 => src[i] \in 1..Len(headInt)
      BY <1>6
    <3>3. \A i \in 1..Len(new) : rel \notin Range(new[i].joinedRels)
      BY <1>6, <1>10, <3>1, <3>2
    <3>4. findNode(rel)' = 0
      BY <1>5, <3>3
    <3>. QED  BY <1>1, <2>1, <3>4, Zenon DEF NodeFor
  <2>2. CASE findNode(rel) # 0
    <3>. DEFINE m == findNode(rel)
    <3>1. NodeFor(rel) = headInt[m]
      BY <2>2, Zenon DEF NodeFor
    <3>2. m \in 1..Len(headInt) /\ rel \in Range(headInt[m].joinedRels)
      BY <2>0, <2>2 DEF Located
    <3>3. m # findNode(r1) /\ m # findNode(r2)
      BY <1>7, <1>10, <2>2, <3>2 DEF NodeFor
    <3>4. m \in rest
      BY <3>2, <3>3 DEF Places
    <3>. HIDE DEF m
    <3>5. PICK i \in 1..Len(new) : src[i] = m
      BY <1>6, <3>4
    <3>6. new[i] = headInt[m]
      BY <1>6, <2>2, <3>5 DEF m
    <3>. QED  BY <1>8, <3>1, <3>2, <3>6
  <2>. QED  BY <2>1, <2>2
<1>. QED  BY <1>9, <1>10, Zenon DEF NodesSpliced

GroupsSpliced(node) ==
  Groups' = {GroupOf(node)}
            \cup {GroupOf(NodeFor(rel)) : rel \in QueryRels \ Range(node.joinedRels)}

LEMMA GroupsAfter ==
  ASSUME GroupsByNode', query' = query, NEW node, NodesSpliced(node),
         Range(node.joinedRels) \cap QueryRels # {}
  PROVE  GroupsSpliced(node)
<1>. DEFINE rels == Range(node.joinedRels)
            before(rel) == NodeFor(rel)
            after(rel) == NodeFor(rel)'
            G(n) == GroupOf(n)
<1>1. QueryRels' = QueryRels
  BY DEF QueryRels
<1>2. \A rel : GroupOf(NodeFor(rel))' = GroupOf(after(rel))
  BY DEF GroupOf, Combination, ColumnOf, NumbOfRows
<1>3. Groups' = {G(after(rel)) : rel \in QueryRels}
  <2>1. Groups' = {GroupOf(NodeFor(rel))' : rel \in QueryRels'}
    BY DEF GroupsByNode
  <2>. QED  BY <1>1, <1>2, <2>1
<1>4. \A rel \in QueryRels : after(rel) = IF rel \in rels THEN node ELSE before(rel)
  BY Zenon DEF NodesSpliced
<1>5. rels \cap QueryRels # {}
  OBVIOUS
<1>. HIDE DEF G, after, before, rels
<1>6. Groups' = {G(node)} \cup {G(before(rel)) : rel \in QueryRels \ rels}
  BY <1>3, <1>4, <1>5
<1>. QED  BY <1>6, Zenon DEF GroupsSpliced, G, before, rels

RelsFor(rel) == Range(NodeFor(rel).joinedRels)
Touched(r1, r2) == {g \in Groups : g.rels \cap {r1, r2} # {}}

(* The groups that a predicate over r1 and r2 touches are those of their   *)
(* nodes.                                                                  *)
LEMMA TouchedFacts ==
  ASSUME Inv, NEW r1 \in QueryRels, NEW r2 \in QueryRels
  PROVE  /\ Touched(r1, r2) = {GroupOf(NodeFor(r1)), GroupOf(NodeFor(r2))}
         /\ UNION {g.rels : g \in Touched(r1, r2)} = RelsFor(r1) \cup RelsFor(r2)
         /\ Groups \ Touched(r1, r2)
              = {GroupOf(NodeFor(rel)) : rel \in QueryRels \ (RelsFor(r1) \cup RelsFor(r2))}
<1>. DEFINE G(rel) == GroupOf(NodeFor(rel))
<1>1. Groups = {G(rel) : rel \in QueryRels}
  BY GroupsAre DEF GroupsByNode
<1>2. \A rel : G(rel).rels = RelsFor(rel)
  BY DEF GroupOf, RelsFor
<1>3. \A rel, s \in QueryRels : s \in RelsFor(rel) => G(s) = G(rel) /\ rel \in RelsFor(s)
  <2>. TAKE rel, s \in QueryRels
  <2>. HAVE s \in RelsFor(rel)
  <2>1. NodeFor(s) = NodeFor(rel)
    BY SameNode DEF RelsFor
  <2>2. rel \in RelsFor(rel)
    BY NodeForRels DEF RelsFor
  <2>. QED  BY <2>1, <2>2, Zenon DEF RelsFor
<1>4. \A rel \in QueryRels : rel \in RelsFor(rel)
  BY NodeForRels DEF RelsFor
<1>. HIDE DEF G
<1>5. Touched(r1, r2) = {G(r1), G(r2)}
  <2>1. \A g \in Touched(r1, r2) : g \in {G(r1), G(r2)}
    BY <1>1, <1>2, <1>3 DEF Touched
  <2>2. G(r1) \in Touched(r1, r2) /\ G(r2) \in Touched(r1, r2)
    BY <1>1, <1>2, <1>4 DEF Touched
  <2>. QED  BY <2>1, <2>2
<1>6. UNION {g.rels : g \in Touched(r1, r2)} = RelsFor(r1) \cup RelsFor(r2)
  BY <1>2, <1>5
<1>7. Groups \ Touched(r1, r2)
        = {G(rel) : rel \in QueryRels \ (RelsFor(r1) \cup RelsFor(r2))}
  <2>1. \A rel \in QueryRels :
          G(rel) \in Touched(r1, r2) <=> rel \in RelsFor(r1) \cup RelsFor(r2)
    <3>. TAKE rel \in QueryRels
    <3>1. G(rel) \in Touched(r1, r2) <=> r1 \in RelsFor(rel) \/ r2 \in RelsFor(rel)
      BY <1>1, <1>2 DEF Touched
    <3>. QED  BY <1>3, <3>1
  <2>. QED  BY <1>1, <2>1
<1>. QED  BY <1>5, <1>6, <1>7, Zenon DEF G

LEMMA CombinationIs ==
  ASSUME NEW node, NEW i
  PROVE  /\ Combination(node, i) = [r \in Range(node.joinedRels) |-> ColumnOf(node, r)[i]]
         /\ \A r \in Range(node.joinedRels) : Combination(node, i)[r] = ColumnOf(node, r)[i]
BY DEF Combination

SelectionMade(new, node, pos) ==
  /\ NumbOfRows(new) = Len(pos)
  /\ new.joinedRels = node.joinedRels
  /\ \A c \in 1..Len(node.joinedRels) : \A i \in 1..Len(pos) :
       new.rowIds[c][i] = node.rowIds[c][pos[i]]

LEMMA SelectedMade ==
  ASSUME NEW rows, NEW node, NodeSound(node, rows),
         NEW pos \in Seq(1..NumbOfRows(node)), Once(pos)
  PROVE  /\ NodeSound(SelectedNode(node, pos), rows)
         /\ SelectionMade(SelectedNode(node, pos), node, pos)
<1>. DEFINE new == SelectedNode(node, pos)
<1>. HIDE DEF new
<1>1. /\ NodeSound(new, rows)
      /\ NumbOfRows(new) = Len(pos)
      /\ new.joinedRels = node.joinedRels
      /\ \A c \in 1..Len(node.joinedRels) : \A i \in 1..Len(pos) :
           new.rowIds[c][i] = node.rowIds[c][pos[i]]
  <2>. USE DEF new
  <2>1. SelectedNode(node, pos) = new
    OBVIOUS
  <2>. HIDE DEF new
  <2>. QED  BY <2>1, SelectedSound, SMTT(30)
<1>. QED  BY <1>1, Zenon DEF SelectionMade, new

(* Selected positions are selected combinations.                           *)
LEMMA SelectionCombines ==
  ASSUME Inv, NEW rel \in QueryRels, NEW kept \in SUBSET (1..NumbOfRows(NodeFor(rel)))
  PROVE  LET node == SelectionOf(rel, kept)
         IN  /\ NodeSound(node, AllRows)
             /\ Range(node.joinedRels) = RelsFor(rel)
             /\ {Combination(node, i) : i \in 1..NumbOfRows(node)}
                  = {Combination(NodeFor(rel), i) : i \in kept}
<1>. DEFINE old == NodeFor(rel)
            pos == Survivors(NumbOfRows(old), kept)
            new == SelectedNode(old, pos)
            rels == Range(old.joinedRels)
<1>1. /\ pos \in Seq(1..NumbOfRows(old)) /\ Once(pos) /\ Range(pos) = kept
  BY InvFacts, SelectionSound
<1>2. NodeSound(old, AllRows)
  BY NodeForRels
<1>3. DOMAIN old.joinedRels = 1..Len(old.joinedRels)
  BY <1>2, NodeFacts
<1>. HIDE DEF pos, old
<1>4. /\ NodeSound(new, AllRows)
      /\ NumbOfRows(new) = Len(pos)
      /\ new.joinedRels = old.joinedRels
      /\ \A c \in 1..Len(old.joinedRels) : \A i \in 1..Len(pos) :
           new.rowIds[c][i] = old.rowIds[c][pos[i]]
  <2>1. NodeSound(new, AllRows) /\ SelectionMade(new, old, pos)
    BY <1>1, <1>2, SelectedMade
  <2>. QED  BY <2>1, Zenon DEF SelectionMade
<1>. HIDE DEF new
<1>5. \A i \in 1..Len(pos) : Combination(new, i) = Combination(old, pos[i])
  <2>. TAKE i \in 1..Len(pos)
  <2>1. \A r \in rels : ColumnOf(new, r)[i] = ColumnOf(old, r)[pos[i]]
    <3>. TAKE r \in rels
    <3>1. PICK c \in 1..Len(old.joinedRels) : old.joinedRels[c] = r
      BY <1>3 DEF Range
    <3>2. ColumnOf(old, r) = old.rowIds[c]
      BY <1>2, <3>1, ColumnAt
    <3>3. ColumnOf(new, r) = new.rowIds[c]
      BY <1>4, <3>1, ColumnAt
    <3>. QED  BY <1>4, <3>2, <3>3
  <2>2. Combination(new, i) = [r \in rels |-> ColumnOf(new, r)[i]]
    BY <1>4, CombinationIs
  <2>3. Combination(old, pos[i]) = [r \in rels |-> ColumnOf(old, r)[pos[i]]]
    BY CombinationIs
  <2>. HIDE DEF rels
  <2>. QED  BY <2>1, <2>2, <2>3
<1>6. kept = {pos[i] : i \in 1..Len(pos)}
  BY <1>1 DEF Range
<1>7. {Combination(new, i) : i \in 1..NumbOfRows(new)} = {Combination(old, i) : i \in kept}
  <2>. DEFINE after(i) == Combination(new, i)
              before(i) == Combination(old, i)
  <2>1. \A i \in 1..Len(pos) : after(i) = before(pos[i])
    BY <1>5
  <2>. HIDE DEF after, before
  <2>2. {after(i) : i \in 1..Len(pos)} = {before(i) : i \in kept}
    BY <1>6, <2>1
  <2>. QED  BY <1>4, <2>2 DEF after, before
<1>8. new = SelectionOf(rel, kept)
  BY Zenon DEF new, pos, old, SelectionOf
<1>9. Range(new.joinedRels) = RelsFor(rel)
  BY <1>4, Zenon DEF old, RelsFor
<1>. QED  BY <1>4, <1>7, <1>8, <1>9, Zenon DEF old

(* What the predicate says of a combination.                               *)
Equates(p, c1, c2) == \A f : CQ!Holds(p, f) <=> Value(c1, f[c1.rel]) = Value(c2, f[c2.rel])
Filters(p, q) ==
  \A f : CQ!Holds(p, f) <=> ApplyFilter(Value(q.part, f[q.part.rel]), q.op, q.value)

(* The rows of the group that Apply(p) makes of those of r1 and r2.        *)
RowsAfter(p, r1, r2) ==
  {f \in CQ!Combinations(RelsFor(r1) \cup RelsFor(r2)) :
     /\ \A g \in Touched(r1, r2) : [r \in g.rels |-> f[r]] \in g.rows
     /\ CQ!Holds(p, f)}

KeepsHolding(p, rel, kept) ==
  kept = {i \in 1..NumbOfRows(NodeFor(rel)) : CQ!Holds(p, Combination(NodeFor(rel), i))}

LEMMA SelectedRows ==
  ASSUME Inv, NEW r1 \in QueryRels, NEW r2 \in QueryRels, NodeFor(r1) = NodeFor(r2),
         NEW p, NEW kept, KeepsHolding(p, r1, kept)
  PROVE  GroupOf(SelectionOf(r1, kept)).rows = RowsAfter(p, r1, r2)
<1>. DEFINE node == NodeFor(r1)
            n == NumbOfRows(node)
            rels == RelsFor(r1)
            new == SelectionOf(r1, kept)
            comb(i) == Combination(node, i)
<1>1. kept = {i \in 1..n : CQ!Holds(p, comb(i))}
  BY Zenon DEF KeepsHolding
<1>2. kept \in SUBSET (1..n)
  BY <1>1
<1>3. GroupOf(new).rows = {comb(i) : i \in kept}
  <2>1. {Combination(new, i) : i \in 1..NumbOfRows(new)} = {comb(i) : i \in kept}
    BY <1>2, SelectionCombines
  <2>. QED  BY <2>1 DEF GroupOf
<1>4. \A i \in 1..n : comb(i) \in CQ!Combinations(rels)
  BY NodeForRels, CombinationFacts DEF RelsFor
<1>5. \A f \in CQ!Combinations(rels) : [r \in rels |-> f[r]] = f
  BY DEF CQ!Combinations
<1>6. Touched(r1, r2) = {GroupOf(node)}
  <2>1. GroupOf(NodeFor(r2)) = GroupOf(NodeFor(r1))
    BY Zenon
  <2>. QED  BY <2>1, TouchedFacts
<1>7. GroupOf(node).rels = rels /\ GroupOf(node).rows = {comb(i) : i \in 1..n}
  BY DEF GroupOf, RelsFor
<1>8. rels \cup RelsFor(r2) = rels
  BY DEF RelsFor
<1>. HIDE DEF rels, comb, n, node
<1>9. RowsAfter(p, r1, r2) = {f \in CQ!Combinations(rels) :
                                /\ [r \in rels |-> f[r]] \in {comb(i) : i \in 1..n}
                                /\ CQ!Holds(p, f)}
  BY <1>6, <1>7, <1>8 DEF RowsAfter, rels
<1>10. RowsAfter(p, r1, r2) = {f \in CQ!Combinations(rels) :
                                 f \in {comb(i) : i \in 1..n} /\ CQ!Holds(p, f)}
  BY <1>5, <1>9
<1>11. RowsAfter(p, r1, r2) = {comb(i) : i \in kept}
  BY <1>1, <1>4, <1>10
<1>. QED  BY <1>3, <1>11

(* Row x of a merged node combines the two rows that res[x] pairs.         *)
PairsCombined(new, node1, node2, res, switched) ==
  \A x \in 1..Len(res) :
    /\ \A r \in Range(node1.joinedRels) :
         ColumnOf(new, r)[x] = ColumnOf(node1, r)[RowOfFirst(res[x], switched)]
    /\ \A r \in Range(node2.joinedRels) :
         ColumnOf(new, r)[x] = ColumnOf(node2, r)[RowOfSecond(res[x], switched)]

LEMMA MergeCombines ==
  ASSUME NEW rows, NEW node1, NodeSound(node1, rows), NEW node2, NodeSound(node2, rows),
         NEW res, NEW switched,
         NEW new, NodeSound(new, rows), MergeMade(new, node1, node2, res, switched)
  PROVE  PairsCombined(new, node1, node2, res, switched)
<1>. DEFINE first(x) == RowOfFirst(res[x], switched)
            second(x) == RowOfSecond(res[x], switched)
            rels1 == node1.joinedRels
            rels2 == node2.joinedRels
<1>1. /\ rels1 \in Seq(Nat) /\ Len(rels1) \in Nat /\ DOMAIN rels1 = 1..Len(rels1)
      /\ rels2 \in Seq(Nat) /\ Len(rels2) \in Nat /\ DOMAIN rels2 = 1..Len(rels2)
  BY NodeFacts
<1>2. new.joinedRels = rels1 \o rels2
  BY Zenon DEF MergeMade
<1>3. /\ Len(new.joinedRels) = Len(rels1) + Len(rels2)
      /\ \A c \in 1..Len(rels1) : new.joinedRels[c] = rels1[c]
      /\ \A c \in 1..Len(rels2) : new.joinedRels[Len(rels1) + c] = rels2[c]
  <2>. HIDE DEF rels1, rels2
  <2>. QED  BY <1>1, <1>2
<1>4. \A c \in 1..Len(rels1) : \A x \in 1..Len(res) :
        new.rowIds[c][x] = node1.rowIds[c][first(x)]
  BY Zenon DEF MergeMade
<1>5. \A c \in 1..Len(rels2) : \A x \in 1..Len(res) :
        new.rowIds[Len(rels1) + c][x] = node2.rowIds[c][second(x)]
  BY Zenon DEF MergeMade
<1>. HIDE DEF first, second
<1>6. ASSUME NEW x \in 1..Len(res), NEW r \in Range(rels1)
      PROVE  ColumnOf(new, r)[x] = ColumnOf(node1, r)[first(x)]
  <2>1. PICK c \in 1..Len(rels1) : rels1[c] = r
    BY <1>1 DEF Range
  <2>2. ColumnOf(node1, r) = node1.rowIds[c]
    BY <2>1, ColumnAt
  <2>3. c \in 1..Len(new.joinedRels) /\ new.joinedRels[c] = r
    <3>. HIDE DEF rels1, rels2
    <3>. QED  BY <1>1, <1>3, <2>1
  <2>4. ColumnOf(new, r) = new.rowIds[c]
    BY <2>3, ColumnAt
  <2>. QED  BY <1>4, <2>2, <2>4, Zenon
<1>7. ASSUME NEW x \in 1..Len(res), NEW r \in Range(rels2)
      PROVE  ColumnOf(new, r)[x] = ColumnOf(node2, r)[second(x)]
  <2>1. PICK c \in 1..Len(rels2) : rels2[c] = r
    BY <1>1 DEF Range
  <2>2. ColumnOf(node2, r) = node2.rowIds[c]
    BY <2>1, ColumnAt
  <2>3. Len(rels1) + c \in 1..Len(new.joinedRels) /\ new.joinedRels[Len(rels1) + c] = r
    <3>. HIDE DEF rels1, rels2
    <3>. QED  BY <1>1, <1>3, <2>1
  <2>. DEFINE d == Len(rels1) + c
  <2>4. d \in 1..Len(new.joinedRels) /\ new.joinedRels[d] = r
    BY <2>3
  <2>5. new.rowIds[d][x] = node2.rowIds[c][second(x)]
    BY <1>5, Zenon
  <2>. HIDE DEF d
  <2>6. ColumnOf(new, r) = new.rowIds[d]
    BY <2>4, ColumnAt
  <2>. QED  BY <2>2, <2>5, <2>6, Zenon
<1>. QED  BY <1>6, <1>7, Zenon DEF PairsCombined, first, second, rels1, rels2

(* Two functions on a union are equal if they are equal on its parts.      *)
LEMMA EqualOnParts ==
  ASSUME NEW A, NEW B, NEW f, NEW g, f = [r \in A \cup B |-> f[r]],
         g = [r \in A \cup B |-> g[r]],
         \A r \in A : f[r] = g[r], \A r \in B : f[r] = g[r]
  PROVE  f = g
<1>1. \A r \in A \cup B : f[r] = g[r]
  OBVIOUS
<1>. QED  BY <1>1

(* Merged rows are the combinations of two groups with equal values.       *)
LEMMA MergedRows ==
  ASSUME Inv, NEW c1, IsColumn(c1, query, table), NEW c2, IsColumn(c2, query, table),
         RelsFor(c1.rel) \cap RelsFor(c2.rel) = {},
         NEW switched \in {0, 1}, NEW p, Equates(p, c1, c2)
  PROVE  GroupOf(MergeOf(c1, c2, switched)).rows = RowsAfter(p, c1.rel, c2.rel)
<1>. DEFINE node1 == NodeFor(c1.rel)
            node2 == NodeFor(c2.rel)
            keys1 == forgeRelationsheep(c1)
            keys2 == forgeRelationsheep(c2)
            res == JoinedRows(c1, c2, switched)
            new == MergeOf(c1, c2, switched)
            rels1 == RelsFor(c1.rel)
            rels2 == RelsFor(c2.rel)
            first(x) == RowOfFirst(res[x], switched)
            second(x) == RowOfSecond(res[x], switched)
            comb(x) == Combination(new, x)
            comb1(a) == Combination(node1, a)
            comb2(b) == Combination(node2, b)
            n == Len(res)
            n1 == NumbOfRows(node1)
            n2 == NumbOfRows(node2)
            rels == rels1 \cup rels2
<1>1. c1.rel \in QueryRels /\ c2.rel \in QueryRels
  BY InvFacts, TableFacts
<1>2. NodeSound(node1, AllRows) /\ NodeSound(node2, AllRows)
  BY <1>1, NodeForRels
<1>3. /\ JoinOf(res, switched, keys1, keys2)
      /\ NodeSound(new, AllRows)
      /\ MergeMade(new, node1, node2, res, switched)
  BY InvFacts, MergeSound DEF RelsFor
<1>4. PairsCombined(new, node1, node2, res, switched)
  BY <1>2, <1>3, MergeCombines
<1>5. NumbOfRows(new) = n /\ Range(new.joinedRels) = rels
  BY <1>3, Zenon DEF MergeMade, RelsFor
<1>6. /\ c1.rel \in rels1 /\ c2.rel \in rels2
      /\ \A a \in 1..n1 : keys1[a] = Value(c1, ColumnOf(node1, c1.rel)[a])
      /\ \A b \in 1..n2 : keys2[b] = Value(c2, ColumnOf(node2, c2.rel)[b])
      /\ DOMAIN keys1 = 1..n1 /\ DOMAIN keys2 = 1..n2
  BY <1>1, InvFacts, KeysFacts, NodeForRels DEF RelsFor
<1>7. /\ \A a \in 1..n1 : \A r \in rels1 : comb1(a)[r] = ColumnOf(node1, r)[a]
      /\ \A a : comb1(a) = [r \in rels1 |-> ColumnOf(node1, r)[a]]
  BY CombinationIs DEF RelsFor
<1>8. /\ \A b \in 1..n2 : \A r \in rels2 : comb2(b)[r] = ColumnOf(node2, r)[b]
      /\ \A b : comb2(b) = [r \in rels2 |-> ColumnOf(node2, r)[b]]
  BY CombinationIs DEF RelsFor
<1>9. \A x \in 1..n : /\ \A r \in rels : comb(x)[r] = ColumnOf(new, r)[x]
                      /\ comb(x) \in CQ!Combinations(rels)
  <2>. HIDE DEF new, n, rels
  <2>1. \A x \in 1..NumbOfRows(new) :
          /\ comb(x) \in CQ!Combinations(Range(new.joinedRels))
          /\ \A r \in Range(new.joinedRels) : comb(x)[r] = ColumnOf(new, r)[x]
    BY <1>3, CombinationFacts
  <2>. HIDE DEF comb
  <2>. QED  BY <1>5, <2>1
<1>10. /\ \A x \in 1..n : /\ first(x) \in 1..n1 /\ second(x) \in 1..n2
                          /\ keys1[first(x)] = keys2[second(x)]
       /\ \A a \in 1..n1, b \in 1..n2 : keys1[a] = keys2[b] =>
            \E x \in 1..n : first(x) = a /\ second(x) = b
  <2>1. /\ \A x \in 1..n : /\ first(x) \in DOMAIN keys1 /\ second(x) \in DOMAIN keys2
                            /\ keys1[first(x)] = keys2[second(x)]
        /\ \A a \in DOMAIN keys1, b \in DOMAIN keys2 : keys1[a] = keys2[b] =>
             \E x \in 1..n : first(x) = a /\ second(x) = b
    BY <1>3, Zenon DEF JoinOf
  <2>. HIDE DEF keys1, keys2, first, second, n, n1, n2
  <2>. QED  BY <1>6, <2>1
<1>11. \A x \in 1..n : /\ \A r \in rels1 : ColumnOf(new, r)[x] = ColumnOf(node1, r)[first(x)]
                       /\ \A r \in rels2 : ColumnOf(new, r)[x] = ColumnOf(node2, r)[second(x)]
  BY <1>4, Zenon DEF PairsCombined, RelsFor
<1>12. GroupOf(new).rows = {comb(x) : x \in 1..n}
  BY <1>5 DEF GroupOf
<1>13. /\ GroupOf(node1).rels = rels1 /\ GroupOf(node1).rows = {comb1(a) : a \in 1..n1}
       /\ GroupOf(node2).rels = rels2 /\ GroupOf(node2).rows = {comb2(b) : b \in 1..n2}
  BY DEF GroupOf, RelsFor
<1>14. Touched(c1.rel, c2.rel) = {GroupOf(node1), GroupOf(node2)}
  BY <1>1, TouchedFacts
<1>15. \A f : CQ!Holds(p, f) <=> Value(c1, f[c1.rel]) = Value(c2, f[c2.rel])
  BY Zenon DEF Equates
<1>16. \A f \in CQ!Combinations(rels) : f = [r \in rels |-> f[r]]
  BY DEF CQ!Combinations
<1>. HIDE DEF node1, node2, keys1, keys2, res, new, rels1, rels2, first, second,
              comb, comb1, comb2, n, n1, n2
<1>17. RowsAfter(p, c1.rel, c2.rel)
         = {f \in CQ!Combinations(rels) :
              /\ [r \in rels1 |-> f[r]] \in {comb1(a) : a \in 1..n1}
              /\ [r \in rels2 |-> f[r]] \in {comb2(b) : b \in 1..n2}
              /\ CQ!Holds(p, f)}
  BY <1>13, <1>14 DEF RowsAfter, rels1, rels2
<1>18. ASSUME NEW x \in 1..n
       PROVE  comb(x) \in RowsAfter(p, c1.rel, c2.rel)
  <2>1. first(x) \in 1..n1 /\ second(x) \in 1..n2 /\ keys1[first(x)] = keys2[second(x)]
    BY <1>10
  <2>2. \A r \in rels1 : comb(x)[r] = ColumnOf(node1, r)[first(x)]
    BY <1>9, <1>11
  <2>3. \A r \in rels2 : comb(x)[r] = ColumnOf(node2, r)[second(x)]
    BY <1>9, <1>11
  <2>4. [r \in rels1 |-> comb(x)[r]] = comb1(first(x))
    BY <1>7, <2>2
  <2>5. [r \in rels2 |-> comb(x)[r]] = comb2(second(x))
    BY <1>8, <2>3
  <2>6. Value(c1, comb(x)[c1.rel]) = Value(c2, comb(x)[c2.rel])
    <3>1. comb(x)[c1.rel] = ColumnOf(node1, c1.rel)[first(x)]
      BY <1>6, <2>2
    <3>2. comb(x)[c2.rel] = ColumnOf(node2, c2.rel)[second(x)]
      BY <1>6, <2>3
    <3>3. /\ keys1[first(x)] = Value(c1, ColumnOf(node1, c1.rel)[first(x)])
          /\ keys2[second(x)] = Value(c2, ColumnOf(node2, c2.rel)[second(x)])
      BY <1>6, <2>1
    <3>. QED  BY <2>1, <3>1, <3>2, <3>3, Zenon
  <2>7. CQ!Holds(p, comb(x))
    BY <1>15, <2>6, Zenon
  <2>8. comb(x) \in CQ!Combinations(rels)
    BY <1>9
  <2>. QED  BY <1>17, <2>1, <2>4, <2>5, <2>7, <2>8
<1>19. ASSUME NEW f \in RowsAfter(p, c1.rel, c2.rel)
       PROVE  \E x \in 1..n : f = comb(x)
  <2>1. f \in CQ!Combinations(rels) /\ CQ!Holds(p, f)
    BY <1>17
  <2>2. PICK a \in 1..n1 : [r \in rels1 |-> f[r]] = comb1(a)
    BY <1>17
  <2>3. PICK b \in 1..n2 : [r \in rels2 |-> f[r]] = comb2(b)
    BY <1>17
  <2>4. \A r \in rels1 : f[r] = ColumnOf(node1, r)[a]
    <3>. TAKE r \in rels1
    <3>1. [s \in rels1 |-> f[s]][r] = f[r]
      OBVIOUS
    <3>. QED  BY <1>7, <2>2, <3>1, Zenon
  <2>5. \A r \in rels2 : f[r] = ColumnOf(node2, r)[b]
    <3>. TAKE r \in rels2
    <3>1. [s \in rels2 |-> f[s]][r] = f[r]
      OBVIOUS
    <3>. QED  BY <1>8, <2>3, <3>1, Zenon
  <2>6. keys1[a] = keys2[b]
    <3>1. Value(c1, f[c1.rel]) = Value(c2, f[c2.rel])
      BY <1>15, <2>1, Zenon
    <3>2. f[c1.rel] = ColumnOf(node1, c1.rel)[a] /\ f[c2.rel] = ColumnOf(node2, c2.rel)[b]
      BY <1>6, <2>4, <2>5
    <3>3. /\ keys1[a] = Value(c1, ColumnOf(node1, c1.rel)[a])
          /\ keys2[b] = Value(c2, ColumnOf(node2, c2.rel)[b])
      BY <1>6
    <3>. QED  BY <3>1, <3>2, <3>3, Zenon
  <2>7. PICK x \in 1..n : first(x) = a /\ second(x) = b
    BY <1>10, <2>6
  <2>8. /\ \A r \in rels1 : f[r] = comb(x)[r]
        /\ \A r \in rels2 : f[r] = comb(x)[r]
    BY <1>9, <1>11, <2>4, <2>5, <2>7
  <2>9. f = [r \in rels |-> f[r]] /\ comb(x) = [r \in rels |-> comb(x)[r]]
    BY <1>9, <1>16, <2>1
  <2>10. f = comb(x)
    BY <2>8, <2>9, EqualOnParts
  <2>. QED  BY <2>10
<1>20. RowsAfter(p, c1.rel, c2.rel) = {comb(x) : x \in 1..n}
  BY <1>18, <1>19
<1>. QED  BY <1>12, <1>20, Zenon DEF new

-----------------------------------------------------------------------------
(* Every step applies a predicate                                          *)

Applies(p, r1, r2, node) ==
  /\ Step(r1, r2, node, headInt')
  /\ CQ!RelsOf(p) = {r1, r2}
  /\ GroupOf(node).rows = RowsAfter(p, r1, r2)
  /\ p \in Pending
  /\ Pending' = Pending \ {p}
  /\ UNCHANGED <<table, query, checksums>>

LEMMA StepApplies ==
  ASSUME Inv, Inv', Located', GroupsByNode',
         NEW p, NEW r1 \in QueryRels, NEW r2 \in QueryRels, NEW node, Applies(p, r1, r2, node)
  PROVE  CQ!Apply(p)
<1>. DEFINE touched == {g \in Groups : g.rels \cap CQ!RelsOf(p) # {}}
            rels == UNION {g.rels : g \in touched}
            rows == {f \in CQ!Combinations(rels) :
                       /\ \A g \in touched : [r \in g.rels |-> f[r]] \in g.rows
                       /\ CQ!Holds(p, f)}
<1>1. /\ Step(r1, r2, node, headInt') /\ CQ!RelsOf(p) = {r1, r2}
      /\ GroupOf(node).rows = RowsAfter(p, r1, r2)
      /\ p \in Pending /\ Pending' = Pending \ {p}
      /\ table' = table /\ query' = query /\ checksums' = checksums
  BY DEF Applies
<1>2. Range(node.joinedRels) = RelsFor(r1) \cup RelsFor(r2)
  BY <1>1, Zenon DEF Step, RelsFor
<1>3. NodesSpliced(node)
  BY <1>1, NodesAfter
<1>4. r1 \in RelsFor(r1)
  BY NodeForRels DEF RelsFor
<1>5. GroupsSpliced(node)
  BY <1>1, <1>2, <1>3, <1>4, GroupsAfter
<1>6. touched = Touched(r1, r2)
  BY <1>1 DEF Touched
<1>7. /\ rels = RelsFor(r1) \cup RelsFor(r2)
      /\ Groups \ touched = {GroupOf(NodeFor(rel)) :
                               rel \in QueryRels \ (RelsFor(r1) \cup RelsFor(r2))}
  BY <1>6, TouchedFacts, Zenon
<1>8. rows = RowsAfter(p, r1, r2)
  BY <1>6, <1>7, Zenon DEF RowsAfter
<1>9. GroupOf(node) = [rels |-> rels, rows |-> rows]
  <2>1. GroupOf(node) = [rels |-> Range(node.joinedRels), rows |-> GroupOf(node).rows]
    BY DEF GroupOf
  <2>. QED  BY <1>1, <1>2, <1>7, <1>8, <2>1, Zenon
<1>10. Groups' = (Groups \ touched) \cup {[rels |-> rels, rows |-> rows]}
  <2>1. Groups' = {GroupOf(node)}
                  \cup {GroupOf(NodeFor(rel)) : rel \in QueryRels \ Range(node.joinedRels)}
    BY <1>5, Zenon DEF GroupsSpliced
  <2>2. Groups' = {GroupOf(node)} \cup (Groups \ touched)
    BY <1>2, <1>7, <2>1, Zenon
  <2>. HIDE DEF touched, rels, rows
  <2>. QED  BY <1>9, <2>2
<1>. QED  BY <1>1, <1>10, Zenon DEF CQ!Apply

LEMMA FilterHolds ==
  ASSUME Inv, NEW f \in DOMAIN query.filters
  PROVE  Filters(<<"filter", f>>, query.filters[f])
<1>. DEFINE q == query.filters[f]
            p == <<"filter", f>>
<1>1. q.op \in {LESS, GREATER, EQUAL}
  <2>1. query.filters \in Seq([part : Columns, op : {LESS, GREATER, EQUAL}, value : Nat])
    BY InvFacts, QueriesAssumption DEF WellFormed
  <2>. DEFINE Filter == [part : Columns, op : {LESS, GREATER, EQUAL}, value : Nat]
              filters == query.filters
  <2>2. filters \in Seq(Filter) /\ f \in DOMAIN filters
    BY <2>1
  <2>. HIDE DEF Filter, filters
  <2>3. filters[f] \in Filter
    BY <2>2
  <2>. USE DEF Filter
  <2>4. filters[f].op \in {LESS, GREATER, EQUAL}
    BY <2>3
  <2>. QED  BY <2>4 DEF filters
<1>2. \A v : CQ!ApplyFilter(v, q.op, q.value) = ApplyFilter(v, q.op, q.value)
  <2>. HIDE DEF q
  <2>. QED  BY <1>1 DEF CQ!ApplyFilter, ApplyFilter, LESS, GREATER, EQUAL,
               CQ!LESS, CQ!GREATER, CQ!EQUAL
<1>3. p[1] = "filter" /\ p[2] = f
  OBVIOUS
<1>. HIDE DEF p
<1>4. \A x : CQ!Holds(p, x) = CQ!ApplyFilter(CQ!Value(q.part, x[q.part.rel]), q.op, q.value)
  BY <1>3, Zenon DEF CQ!Holds
<1>5. \A c, row : CQ!Value(c, row) = Value(c, row)
  BY Zenon DEF CQ!Value, Value
<1>. HIDE DEF q
<1>6. \A x : CQ!Holds(p, x) <=> ApplyFilter(Value(q.part, x[q.part.rel]), q.op, q.value)
  BY <1>2, <1>4, <1>5
<1>7. Filters(p, q)
  BY <1>6, Zenon DEF Filters
<1>. QED  BY <1>7 DEF p, q

LEMMA JoinEquates ==
  ASSUME NEW j
  PROVE  /\ Equates(<<"join", j>>, query.joins[j].part1, query.joins[j].part2)
         /\ Equates(<<"join", j>>, query.joins[j].part2, query.joins[j].part1)
<1>. DEFINE q == query.joins[j]
            p == <<"join", j>>
<1>1. p[1] # "filter" /\ p[2] = j
  OBVIOUS
<1>. HIDE DEF p
<1>2. \A x : CQ!Holds(p, x) = (CQ!Value(q.part1, x[q.part1.rel])
                                 = CQ!Value(q.part2, x[q.part2.rel]))
  BY <1>1, Zenon DEF CQ!Holds
<1>3. \A c, row : CQ!Value(c, row) = Value(c, row)
  BY Zenon DEF CQ!Value, Value
<1>. HIDE DEF q
<1>4. \A x : CQ!Holds(p, x) <=> Value(q.part1, x[q.part1.rel]) = Value(q.part2, x[q.part2.rel])
  BY <1>2, <1>3
<1>5. \A x : CQ!Holds(p, x) <=> Value(q.part2, x[q.part2.rel]) = Value(q.part1, x[q.part1.rel])
  BY <1>4
<1>6. Equates(p, q.part1, q.part2) /\ Equates(p, q.part2, q.part1)
  BY <1>4, <1>5, Zenon DEF Equates
<1>. QED  BY <1>6 DEF p, q

LEMMA PassingHold ==
  ASSUME Inv, NEW q, q.part.rel \in QueryRels, NEW p, Filters(p, q)
  PROVE  KeepsHolding(p, q.part.rel, PassingRows(q))
<1>. DEFINE node == NodeFor(q.part.rel)
            rel == q.part.rel
<1>1. rel \in Range(node.joinedRels)
  BY NodeForRels
<1>2. \A i : Combination(node, i)[rel] = ColumnOf(node, rel)[i]
  BY <1>1, CombinationIs
<1>3. \A i : CQ!Holds(p, Combination(node, i))
               <=> ApplyFilter(Value(q.part, ColumnOf(node, rel)[i]), q.op, q.value)
  BY <1>2, Zenon DEF Filters
<1>. HIDE DEF node, rel
<1>4. {i \in 1..NumbOfRows(node) : CQ!Holds(p, Combination(node, i))}
        = {i \in 1..NumbOfRows(node) :
             ApplyFilter(Value(q.part, ColumnOf(node, rel)[i]), q.op, q.value)}
  BY <1>3
<1>. QED  BY <1>4, Zenon DEF KeepsHolding, PassingRows, node, rel

LEMMA EqualHold ==
  ASSUME Inv, NEW c1, c1.rel \in QueryRels, NEW c2, c2.rel \in QueryRels,
         NodeFor(c1.rel) = NodeFor(c2.rel), NEW p, Equates(p, c1, c2)
  PROVE  KeepsHolding(p, c1.rel, EqualRows(c1, c2))
<1>. DEFINE node == NodeFor(c1.rel)
<1>1. c1.rel \in Range(node.joinedRels) /\ c2.rel \in Range(node.joinedRels)
  BY NodeForRels
<1>2. \A i : /\ Combination(node, i)[c1.rel] = ColumnOf(node, c1.rel)[i]
             /\ Combination(node, i)[c2.rel] = ColumnOf(node, c2.rel)[i]
  BY <1>1, CombinationIs
<1>3. \A i : CQ!Holds(p, Combination(node, i))
               <=> Value(c1, ColumnOf(node, c1.rel)[i]) = Value(c2, ColumnOf(node, c2.rel)[i])
  BY <1>2, Zenon DEF Equates
<1>. HIDE DEF node
<1>4. {i \in 1..NumbOfRows(node) : CQ!Holds(p, Combination(node, i))}
        = {i \in 1..NumbOfRows(node) :
             Value(c1, ColumnOf(node, c1.rel)[i]) = Value(c2, ColumnOf(node, c2.rel)[i])}
  BY <1>3
<1>. QED  BY <1>4, Zenon DEF KeepsHolding, EqualRows, node

(* nextFilter and todo say what is left.                                   *)
LEMMA FilterApplies ==
  ASSUME Inv, Inv', Located', GroupsByNode', workerF
  PROVE  CQ!Next
<1>1. table \in Tables /\ query \in Queries /\ ListSound(headInt, AllRows)
  BY InvFacts
<1>2. /\ Len(query.filters) \in Nat /\ DOMAIN query.filters = 1..Len(query.filters)
      /\ nextFilter \in 1..Len(query.filters) + 1
  BY <1>1, QueryFacts DEF Inv, BaseInv
<1>3. PICK q \in Range(query.filters) : workerFOnAllRows(q) \/ workerFOnNode(q)
  BY Zenon DEF workerF
<1>4. FilterStep(q)
  BY <1>3, Zenon DEF workerFOnAllRows, workerFOnNode
<1>5. /\ nextFilter <= Len(query.filters) /\ q = query.filters[nextFilter]
      /\ nextFilter' = nextFilter + 1
      /\ table' = table /\ query' = query /\ todo' = todo /\ checksums' = checksums
  BY <1>4 DEF FilterStep
<1>6. nextFilter \in DOMAIN query.filters
  BY <1>2, <1>5
<1>7. IsColumn(q.part, query, table)
  BY <1>1, <1>5, <1>6, QueryFacts
<1>. DEFINE rel == q.part.rel
            p == <<"filter", nextFilter>>
            node == SelectionOf(rel, PassingRows(q))
<1>8. rel \in QueryRels
  BY <1>1, <1>7, TableFacts
<1>9. Step(rel, rel, node, headInt')
  BY <1>1, <1>3, <1>7, FilterEffect
<1>10. GroupOf(node).rows = RowsAfter(p, rel, rel)
  <2>1. Filters(p, q)
    BY <1>5, <1>6, FilterHolds
  <2>2. KeepsHolding(p, rel, PassingRows(q))
    BY <1>8, <2>1, PassingHold
  <2>. QED  BY <1>8, <2>2, SelectedRows
<1>11. CQ!RelsOf(p) = {rel, rel}
  <2>1. p[1] = "filter" /\ p[2] = nextFilter
    OBVIOUS
  <2>2. CQ!RelsOf(p) = {rel}
    BY <1>5, <2>1, Zenon DEF CQ!RelsOf
  <2>. QED  BY <2>2
<1>12. p \in Pending /\ p \in CQ!Predicates /\ Pending' = Pending \ {p}
  <2>1. p \in Pending
    BY <1>2, <1>5 DEF Pending
  <2>2. p \in CQ!Predicates
    BY <1>6 DEF CQ!Predicates
  <2>3. (nextFilter+1)..Len(query.filters) = (nextFilter..Len(query.filters)) \ {nextFilter}
    BY <1>2, <1>5
  <2>4. Pending' = ({"filter"} \X ((nextFilter..Len(query.filters)) \ {nextFilter}))
                   \cup ({"join"} \X todo)
    BY <1>5, <2>3 DEF Pending
  <2>5. "filter" # "join"
    OBVIOUS
  <2>. DEFINE left == nextFilter..Len(query.filters)
  <2>. HIDE DEF left
  <2>6. ({"filter"} \X (left \ {nextFilter})) \cup ({"join"} \X todo)
          = (({"filter"} \X left) \cup ({"join"} \X todo)) \ {<<"filter", nextFilter>>}
    BY <2>5
  <2>. QED  BY <2>1, <2>2, <2>4, <2>6, Zenon DEF Pending, left
<1>13. Applies(p, rel, rel, node)
  BY <1>5, <1>9, <1>10, <1>11, <1>12, Zenon DEF Applies
<1>. HIDE DEF p, rel, node
<1>14. CQ!Apply(p)
  BY <1>8, <1>13, StepApplies
<1>. QED  BY <1>12, <1>14, Zenon DEF CQ!Next

LEMMA JoinApplies ==
  ASSUME Inv, Inv', Located', GroupsByNode', NEW j \in todo, workerJ(j)
  PROVE  CQ!Next
<1>. DEFINE c1 == query.joins[j].part1
            c2 == query.joins[j].part2
            p == <<"join", j>>
<1>1. table \in Tables /\ query \in Queries /\ ListSound(headInt, AllRows)
  BY InvFacts
<1>2. j \in DOMAIN query.joins
  BY DEF Inv, BaseInv
<1>3. IsColumn(c1, query, table) /\ IsColumn(c2, query, table)
  BY <1>1, <1>2, QueryFacts
<1>4. c1.rel \in QueryRels /\ c2.rel \in QueryRels
  BY <1>1, <1>3, TableFacts
<1>5. Equates(p, c1, c2) /\ Equates(p, c2, c1)
  BY JoinEquates
<1>6. CQ!RelsOf(p) = {c1.rel, c2.rel} /\ CQ!RelsOf(p) = {c2.rel, c1.rel}
  <2>1. p[1] # "filter" /\ p[2] = j
    OBVIOUS
  <2>2. CQ!RelsOf(p) = {c1.rel, c2.rel}
    BY <2>1, Zenon DEF CQ!RelsOf
  <2>3. {c1.rel, c2.rel} = {c2.rel, c1.rel}
    OBVIOUS
  <2>. QED  BY <2>2, <2>3, Zenon
<1>. HIDE DEF c1, c2
<1>7. /\ JoinStep(j)
      /\ \E r1, r2 \in QueryRels : \E node :
           /\ Step(r1, r2, node, headInt') /\ CQ!RelsOf(p) = {r1, r2}
           /\ GroupOf(node).rows = RowsAfter(p, r1, r2)
  <2>1. CASE SelfJoinOfAllRows(j) \/ SelfJoinOfNode(j) \/ SameNodeJoin(j)
    <3>1. JoinStep(j) /\ SelectsEqual(c1, c2, headInt')
      BY <1>1, <1>2, <2>1, SelfJoinEffect DEF c1, c2
    <3>. DEFINE node == SelectionOf(c1.rel, EqualRows(c1, c2))
    <3>2. NodeFor(c1.rel) = NodeFor(c2.rel) /\ Step(c1.rel, c2.rel, node, headInt')
      BY <3>1, Zenon DEF SelectsEqual
    <3>3. KeepsHolding(p, c1.rel, EqualRows(c1, c2))
      BY <1>4, <1>5, <3>2, EqualHold
    <3>4. GroupOf(node).rows = RowsAfter(p, c1.rel, c2.rel)
      BY <1>4, <3>2, <3>3, SelectedRows
    <3>. QED  BY <1>4, <1>6, <3>1, <3>2, <3>4, Zenon
  <2>2. ASSUME NEW d1, NEW d2, Merges(d1, d2, headInt'), Equates(p, d1, d2),
               IsColumn(d1, query, table), IsColumn(d2, query, table),
               d1.rel \in QueryRels, d2.rel \in QueryRels, CQ!RelsOf(p) = {d1.rel, d2.rel}
        PROVE  \E r1, r2 \in QueryRels : \E node :
                 /\ Step(r1, r2, node, headInt') /\ CQ!RelsOf(p) = {r1, r2}
                 /\ GroupOf(node).rows = RowsAfter(p, r1, r2)
    <3>1. PICK switched \in {0, 1} :
            /\ RelsFor(d1.rel) \cap RelsFor(d2.rel) = {}
            /\ Step(d1.rel, d2.rel, MergeOf(d1, d2, switched), headInt')
      BY <2>2, Zenon DEF Merges, RelsFor
    <3>2. GroupOf(MergeOf(d1, d2, switched)).rows = RowsAfter(p, d1.rel, d2.rel)
      BY <2>2, <3>1, MergedRows
    <3>. QED  BY <2>2, <3>1, <3>2, Zenon
  <2>3. CASE JoinOfRelations(j) \/ JoinWithNode(j) \/ JoinOfNodes(j)
    <3>1. JoinStep(j) /\ (Merges(c1, c2, headInt') \/ Merges(c2, c1, headInt'))
      BY <1>1, <1>2, <2>3, JoinEffect DEF c1, c2
    <3>2. CASE Merges(c1, c2, headInt')
      BY <1>3, <1>4, <1>5, <1>6, <2>2, <3>1, <3>2, Zenon
    <3>3. CASE Merges(c2, c1, headInt')
      BY <1>3, <1>4, <1>5, <1>6, <2>2, <3>1, <3>3, Zenon
    <3>. QED  BY <3>1, <3>2, <3>3
  <2>. QED  BY <2>1, <2>3 DEF workerJ
<1>8. /\ todo' = todo \ {j} /\ table' = table /\ query' = query /\ nextFilter' = nextFilter
      /\ checksums' = checksums
  BY <1>7 DEF JoinStep
<1>9. p \in Pending /\ p \in CQ!Predicates /\ Pending' = Pending \ {p}
  <2>1. p \in Pending
    BY DEF Pending
  <2>2. p \in CQ!Predicates
    BY <1>2 DEF CQ!Predicates
  <2>3. Pending' = ({"filter"} \X (nextFilter..Len(query.filters)))
                   \cup ({"join"} \X (todo \ {j}))
    BY <1>8, Zenon DEF Pending
  <2>4. "filter" # "join"
    OBVIOUS
  <2>. DEFINE left == nextFilter..Len(query.filters)
  <2>. HIDE DEF left
  <2>5. ({"filter"} \X left) \cup ({"join"} \X (todo \ {j}))
          = (({"filter"} \X left) \cup ({"join"} \X todo)) \ {<<"join", j>>}
    BY <2>4
  <2>. QED  BY <2>1, <2>2, <2>3, <2>5, Zenon DEF Pending, left
<1>10. PICK r1 \in QueryRels, r2 \in QueryRels : \E node : Applies(p, r1, r2, node)
  BY <1>7, <1>8, <1>9, Zenon DEF Applies
<1>11. PICK node : Applies(p, r1, r2, node)
  BY <1>10, Zenon
<1>12. CQ!Apply(p)
  BY <1>10, <1>11, StepApplies
<1>. QED  BY <1>9, <1>12, Zenon DEF CQ!Next

LEMMA InitRefines == Init => CQ!Init
<1>. SUFFICES ASSUME Init PROVE CQ!Init
  OBVIOUS
<1>1. table \in Tables /\ query \in Queries
  BY DEF Init
<1>2. nextFilter = 1 /\ todo = DOMAIN query.joins /\ headInt = <<>> /\ checksums = <<>>
  BY DEF Init
<1>3. Pending = CQ!Predicates
  <2>1. DOMAIN query.filters = 1..Len(query.filters)
    BY <1>1, QueryFacts
  <2>. QED  BY <1>2, <2>1, Zenon DEF Pending, CQ!Predicates
<1>4. \A rel : findNode(rel) = 0
  <2>1. DOMAIN headInt = {}
    BY <1>2
  <2>2. \A rel : NodesWith(rel) = {}
    BY <2>1 DEF NodesWith
  <2>. QED  BY <2>2, Zenon DEF findNode
<1>5. Groups = {[rels |-> {rel}, rows |-> [{rel} -> Rows(rel)]] : rel \in QueryRels}
  <2>1. Alone = QueryRels
    BY <1>4 DEF Alone
  <2>2. {GroupOf(headInt[n]) : n \in DOMAIN headInt} = {}
    BY <1>2
  <2>. QED  BY <2>1, <2>2 DEF Groups
<1>6. \A rel : CQ!Single(rel) = [rels |-> {rel}, rows |-> [{rel} -> Rows(rel)]]
  <2>. TAKE rel
  <2>1. CQ!RowsOf(rel) = Rows(rel)
    BY Zenon DEF CQ!RowsOf, Rows
  <2>. DEFINE R(r) == CQ!RowsOf(r)
  <2>2. CQ!Combinations({rel})
          = {f \in [{rel} -> UNION {R(r) : r \in {rel}}] : \A r \in {rel} : f[r] \in R(r)}
    BY Zenon DEF CQ!Combinations
  <2>. HIDE DEF R
  <2>3. UNION {R(r) : r \in {rel}} = R(rel)
    OBVIOUS
  <2>4. CQ!Combinations({rel}) = [{rel} -> R(rel)]
    BY <2>2, <2>3
  <2>5. CQ!Combinations({rel}) = [{rel} -> Rows(rel)]
    BY <2>1, <2>4, Zenon DEF R
  <2>. QED  BY <2>5, Zenon DEF CQ!Single
<1>7. CQ!QueryRels = QueryRels
  BY Zenon DEF CQ!QueryRels, QueryRels
<1>8. Groups = {CQ!Single(r) : r \in CQ!QueryRels}
  BY <1>5, <1>6, <1>7
<1>. QED  BY <1>2, <1>3, <1>8, Zenon DEF CQ!Init

LEMMA SameGroups ==
  ASSUME table' = table, query' = query, nextFilter' = nextFilter, todo' = todo,
         headInt' = headInt
  PROVE  Pending' = Pending /\ Groups' = Groups
<1>1. Pending' = Pending
  BY DEF Pending
<1>2. Groups' = Groups
  BY DEF Groups, Alone, QueryRels, Rows, findNode, NodesWith, GroupOf, Combination,
         ColumnOf, NumbOfRows
<1>. QED  BY <1>1, <1>2

LEMMA AnswerRefines ==
  ASSUME Inv, performChecksums
  PROVE  CQ!Answer
<1>1. /\ nextFilter > Len(query.filters) /\ todo = {} /\ checksums = <<>>
      /\ checksums' = [k \in DOMAIN query.sums |->
                         calcChecksum(ColumnOf(headInt[1], query.sums[k].rel), query.sums[k])]
      /\ table' = table /\ query' = query /\ nextFilter' = nextFilter
      /\ todo' = todo /\ headInt' = headInt
  BY Zenon DEF performChecksums
<1>. DEFINE node == headInt[1]
            g == GroupOf(node)
<1>2. Len(headInt) = 1 /\ Range(node.joinedRels) = QueryRels
  BY <1>1, OneLeft
<1>3. /\ table \in Tables /\ query \in Queries
      /\ NodeSound(node, AllRows) /\ DOMAIN headInt = 1..Len(headInt)
  BY <1>2, InvFacts
<1>4. Pending = {}
  <2>1. Len(query.filters) \in Nat /\ nextFilter \in 1..Len(query.filters) + 1
    BY <1>3, QueryFacts DEF Inv, BaseInv
  <2>2. nextFilter..Len(query.filters) = {}
    BY <1>1, <2>1
  <2>. QED  BY <1>1, <2>2 DEF Pending
<1>5. g \in Groups /\ g.rels = QueryRels
  <2>1. 1 \in DOMAIN headInt
    BY <1>2, <1>3
  <2>2. g \in Groups
    BY <2>1 DEF Groups
  <2>. QED  BY <1>2, <2>2 DEF GroupOf
<1>6. ASSUME NEW k \in DOMAIN query.sums
      PROVE  calcChecksum(ColumnOf(node, query.sums[k].rel), query.sums[k])
               = CQ!Sum(query.sums[k], g.rows)
  <2>. DEFINE c == query.sums[k]
              rowIds == ColumnOf(node, c.rel)
              n == NumbOfRows(node)
              comb == [i \in 1..n |-> Combination(node, i)]
  <2>1. c.rel \in QueryRels /\ \A i \in Rows(c.rel) : Value(c, i) \in Words
    BY <1>3, QueryFacts, TableFacts DEF Words
  <2>2. AllRows[c.rel] = Rows(c.rel)
    BY <1>3, <2>1, TableFacts
  <2>3. Len(rowIds) = n /\ \A i \in 1..n : rowIds[i] \in Rows(c.rel)
    BY <1>2, <1>3, <2>1, <2>2, ColumnFacts
  <2>4. n \in Nat
    BY <1>3, NodeFacts
  <2>5. /\ \A i \in 1..n : Combination(node, i)[c.rel] = rowIds[i]
        /\ \A i, m \in 1..n : Combination(node, i) = Combination(node, m) => i = m
    <3>1. \A i : Combination(node, i)[c.rel] = rowIds[i]
      BY <1>2, <2>1, CombinationIs
    <3>. HIDE DEF node, c, rowIds
    <3>2. \A i, m \in 1..n : Combination(node, i) = Combination(node, m) => i = m
      BY <1>3, CombinationFacts
    <3>. QED  BY <3>1, <3>2
  <2>6. g.rows = {Combination(node, i) : i \in 1..n}
    BY DEF GroupOf
  <2>. HIDE DEF node, g, c, rowIds, n
  <2>7. \A i \in 1..n : comb[i] = Combination(node, i)
    OBVIOUS
  <2>8. g.rows = {comb[i] : i \in 1..n}
    BY <2>6, <2>7
  <2>. HIDE DEF comb
  <2>9. \A i \in 1..n : Term(c, comb[i]) = Value(c, rowIds[i]) /\ Value(c, rowIds[i]) \in Words
    BY <2>1, <2>3, <2>5, <2>7 DEF Term
  <2>10. \A i, m \in 1..n : comb[i] = comb[m] => i = m
    BY <2>5, <2>7
  <2>11. CQ!Sum(c, {comb[i] : i \in 1..Len(rowIds)}) = calcChecksum(rowIds, c)
    BY <2>3, <2>4, <2>9, <2>10, SumIsChecksum
  <2>12. CQ!Sum(c, g.rows) = calcChecksum(rowIds, c)
    BY <2>3, <2>8, <2>11, Zenon
  <2>. QED  BY <2>12 DEF c, rowIds
<1>7. checksums' = [k \in DOMAIN query.sums |-> CQ!Sum(query.sums[k], g.rows)]
  <2>. DEFINE calc(k) == calcChecksum(ColumnOf(node, query.sums[k].rel), query.sums[k])
              sum(k) == CQ!Sum(query.sums[k], g.rows)
  <2>1. \A k \in DOMAIN query.sums : calc(k) = sum(k)
    BY <1>6
  <2>2. checksums' = [k \in DOMAIN query.sums |-> calc(k)]
    BY <1>1, Zenon
  <2>. HIDE DEF calc, sum
  <2>3. checksums' = [k \in DOMAIN query.sums |-> sum(k)]
    BY <2>1, <2>2
  <2>. QED  BY <2>3 DEF sum
<1>8. Pending' = Pending /\ Groups' = Groups
  BY <1>1, SameGroups
<1>9. CQ!QueryRels = QueryRels
  BY Zenon DEF CQ!QueryRels, QueryRels
<1>. HIDE DEF g, node
<1>. QED  BY <1>1, <1>4, <1>5, <1>7, <1>8, <1>9, Zenon DEF CQ!Answer

LEMMA StutterRefines ==
  ASSUME UNCHANGED vars
  PROVE  UNCHANGED CQ!vars
<1>1. /\ table' = table /\ query' = query /\ nextFilter' = nextFilter
      /\ todo' = todo /\ headInt' = headInt /\ checksums' = checksums
  BY DEF vars
<1>2. Pending' = Pending /\ Groups' = Groups
  BY <1>1, SameGroups
<1>. QED  BY <1>1, <1>2 DEF CQ!vars

LEMMA NextRefines ==
  ASSUME Inv, Inv', Located', GroupsByNode', [Next]_vars
  PROVE  [CQ!Next]_(CQ!vars)
<1>1. CASE workerF
  BY <1>1, FilterApplies, Zenon
<1>2. CASE \E j \in todo : workerJ(j)
  BY <1>2, JoinApplies, Zenon
<1>3. CASE performChecksums
  BY <1>3, AnswerRefines, Zenon DEF CQ!Next
<1>4. CASE Answered
  <2>1. UNCHANGED vars
    BY <1>4 DEF Answered
  <2>. QED  BY <2>1, StutterRefines, Zenon
<1>5. CASE UNCHANGED vars
  BY <1>5, StutterRefines, Zenon
<1>. QED  BY <1>1, <1>2, <1>3, <1>4, <1>5, Zenon DEF Next

(* Whatever the order of the joins, whichever operand radixHashJoin        *)
(* indexes and however the rows are spread over intermediates, every       *)
(* predicate keeps exactly the combinations of rows that satisfy it, and   *)
(* performChecksums sums over those that satisfy all of them.              *)
THEOREM Refinement == Spec => ImplementsQuery
<1>. QED  BY Invariance, InitRefines, NextRefines, InvLocated, GroupsAre, PTL
          DEF Spec, ImplementsQuery, CQ!CQSpec
=============================================================================
