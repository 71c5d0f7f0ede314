------------------------- MODULE IndexSearchProofs -------------------------
(***************************************************************************)
(* Proofs about IndexSearch for all relations, hash ranges, second hashes  *)
(* and capacities.                                                         *)
(*                                                                         *)
(* The argument: the pieces of a bucket hold each of its rows once         *)
(* (LaidOut), and a chain visits the rows of its second hash from the last *)
(* that was added to the first (Chained); so what a job has found is       *)
(* exactly the matches of the rows its probe has passed (Found), each      *)
(* once.  The barrier opens when every job has ended (BarrierInv); the     *)
(* lists are then linked one behind the other, in a walk that ends at the  *)
(* tail (Linked), and as equal keys are in one bucket they are the join.   *)
(***************************************************************************)
EXTENDS IndexSearch, FiniteSetTheorems, SequenceTheorems, WellFoundedInduction,
        TLAPS

-----------------------------------------------------------------------------
(* Facts about numbers and sequences                                       *)

(* No element is at two positions.                                         *)
Once(s) == \A i, k \in DOMAIN s : s[i] = s[k] => i = k

(* A set of natural numbers has a least element.                           *)
LEMMA LeastOf ==
  ASSUME NEW T, T \subseteq Nat, T # {}
  PROVE  \E x \in T : \A y \in T : x <= y
<1>1. PICK x \in T : \A y \in T : <<y, x>> \notin OpToRel(<, Nat)
  BY WFMin, NatLessThanWellFounded, Zenon
<1>2. \A y \in T : ~(y < x)
  BY <1>1, Zenon DEF OpToRel
<1>3. \A y \in T : x <= y
  BY <1>2
<1>. QED  BY <1>3

(* Induction, for a set that is given by what is to be shown.              *)
LEMMA InductionInSet ==
  ASSUME NEW T, 0 \in T, \A n \in Nat : n \in T => n + 1 \in T
  PROVE  Nat \subseteq T
<1>. DEFINE missing == Nat \ T
<1>1. SUFFICES ASSUME missing # {} PROVE FALSE
  OBVIOUS
<1>2. PICK x \in missing : \A y \in missing : x <= y
  BY <1>1, LeastOf
<1>3. x # 0 /\ x - 1 \in Nat
  BY <1>2
<1>4. x - 1 \in T
  BY <1>2, <1>3
<1>5. (x - 1) + 1 \in T
  BY <1>3, <1>4
<1>. QED  BY <1>5, <1>2

(* The same up to a bound, for what a sequence or a prefix satisfies.      *)
LEMMA InductionUpTo ==
  ASSUME NEW m \in Nat, NEW T, 0 \in T,
         \A n \in 0..m-1 : n \in T => n + 1 \in T
  PROVE  0..m \subseteq T
<1>. DEFINE U == T \cup {n \in Nat : n > m}
<1>1. 0 \in U
  OBVIOUS
<1>2. \A n \in Nat : n \in U => n + 1 \in U
  OBVIOUS
<1>. HIDE DEF U
<1>3. Nat \subseteq U
  BY <1>1, <1>2, InductionInSet
<1>. QED  BY <1>3 DEF U

(* FlattenSeq                                                              *)

Flattens(ss, n, f) ==
  f = [i \in 1..n |-> IF i = 1 THEN ss[i] ELSE f[i-1] \o ss[i]]

(* The function by which FlattenSeq is defined exists.                     *)
LEMMA FlattensExists ==
  ASSUME NEW ss, NEW m \in Nat
  PROVE  \E f : Flattens(ss, m, f)
<1>. DEFINE T == {n \in Nat : \E f : Flattens(ss, n, f)}
<1>1. 0 \in T
  <2>. DEFINE f == [i \in 1..0 |-> ss[i]]
  <2>1. f = [i \in 1..0 |-> IF i = 1 THEN ss[i] ELSE f[i-1] \o ss[i]]
    OBVIOUS
  <2>. QED  BY <2>1 DEF Flattens
<1>2. ASSUME NEW n \in Nat, n \in T
      PROVE  n + 1 \in T
  <2>1. PICK f : Flattens(ss, n, f)
    BY <1>2
  <2>. DEFINE g == [i \in 1..n+1 |-> IF i \in 1..n THEN f[i]
                                     ELSE IF i = 1 THEN ss[i] ELSE f[i-1] \o ss[i]]
  <2>2. ASSUME NEW i \in 1..n+1
        PROVE  g[i] = IF i = 1 THEN ss[i] ELSE g[i-1] \o ss[i]
    <3>1. CASE i \in 1..n
      <4>1. f[i] = IF i = 1 THEN ss[i] ELSE f[i-1] \o ss[i]
        BY <2>1, <3>1 DEF Flattens
      <4>2. i # 1 => i - 1 \in 1..n /\ i - 1 \in 1..n+1
        BY <3>1
      <4>. QED  BY <3>1, <4>1, <4>2
    <3>2. CASE i = n + 1
      <4>1. i # 1 => i - 1 \in 1..n /\ i - 1 \in 1..n+1
        BY <3>2
      <4>2. i \notin 1..n
        BY <3>2
      <4>. QED  BY <4>1, <4>2
    <3>. QED  BY <3>1, <3>2
  <2>3. g = [i \in 1..n+1 |-> IF i = 1 THEN ss[i] ELSE g[i-1] \o ss[i]]
    BY <2>2
  <2>4. \E h : Flattens(ss, n + 1, h)
    BY <2>3, Zenon DEF Flattens
  <2>. QED  BY <2>4
<1>. HIDE DEF T
<1>3. m \in T
  BY <1>1, <1>2, InductionInSet
<1>. QED  BY <1>3 DEF T

(* FlattenSeq is the last value of such a function.                        *)
LEMMA FlattenSeqDef ==
  ASSUME NEW ss, Len(ss) \in Nat, Len(ss) # 0
  PROVE  \E f : Flattens(ss, Len(ss), f) /\ FlattenSeq(ss) = f[Len(ss)]
<1>. DEFINE m == Len(ss)
            flatten == CHOOSE f : f = [i \in 1..m |-> IF i = 1 THEN ss[i] ELSE f[i-1] \o ss[i]]
<1>1. \E f : f = [i \in 1..m |-> IF i = 1 THEN ss[i] ELSE f[i-1] \o ss[i]]
  BY FlattensExists, Zenon DEF Flattens
<1>2. flatten = [i \in 1..m |-> IF i = 1 THEN ss[i] ELSE flatten[i-1] \o ss[i]]
  BY <1>1, Zenon
<1>3. FlattenSeq(ss) = flatten[m]
  BY Zenon DEF FlattenSeq
<1>. QED  BY <1>2, <1>3, Zenon DEF Flattens

LEMMA FlattensStep ==
  ASSUME NEW ss, NEW m \in Nat, NEW f, Flattens(ss, m, f), NEW n \in Nat, n + 1 \in 1..m
  PROVE  f[n + 1] = IF n = 0 THEN ss[n + 1] ELSE f[n] \o ss[n + 1]
<1>1. f[n + 1] = IF n + 1 = 1 THEN ss[n + 1] ELSE f[(n + 1) - 1] \o ss[n + 1]
  BY Zenon DEF Flattens
<1>2. (n + 1) - 1 = n /\ (n + 1 = 1 <=> n = 0)
  OBVIOUS
<1>. QED  BY <1>1, <1>2, Zenon

LEMMA FlattenSeqEmpty == FlattenSeq(<<>>) = <<>>
BY DEF FlattenSeq

(* A flattened sequence of sequences over S is a sequence over S.          *)
LEMMA FlattensType ==
  ASSUME NEW S, NEW ss \in Seq(Seq(S)), NEW f, NEW m \in 0..Len(ss), Flattens(ss, m, f)
  PROVE  \A i \in 1..m : f[i] \in Seq(S)
<1>. DEFINE T == {n \in Nat : n \in 1..m => f[n] \in Seq(S)}
<1>1. 0 \in T
  OBVIOUS
<1>2. ASSUME NEW n \in 0..m-1, n \in T
      PROVE  n + 1 \in T
  <2>1. ss[n+1] \in Seq(S)
    OBVIOUS
  <2>2. f[n+1] = IF n = 0 THEN ss[n+1] ELSE f[n] \o ss[n+1]
    BY FlattensStep
  <2>3. CASE n = 0
    BY <2>1, <2>2, <2>3
  <2>4. CASE n # 0
    <3>1. f[n] \in Seq(S)
      BY <2>4, <1>2
    <3>2. f[n] \o ss[n+1] \in Seq(S)
      BY <3>1, <2>1, ConcatProperties
    <3>3. f[n+1] \in Seq(S)
      BY <2>2, <2>4, <3>2, Zenon
    <3>. QED  BY <3>3
  <2>. QED  BY <2>3, <2>4
<1>. HIDE DEF T
<1>3. 0..m \subseteq T
  <2>. m \in Nat
    OBVIOUS
  <2>. QED  BY <1>1, <1>2, InductionUpTo
<1>. QED  BY <1>3 DEF T

LEMMA FlattenSeqType ==
  ASSUME NEW S, NEW ss \in Seq(Seq(S))
  PROVE  FlattenSeq(ss) \in Seq(S)
<1>1. CASE Len(ss) = 0
  <2>1. ss = <<>>
    BY <1>1
  <2>2. FlattenSeq(ss) = <<>>
    BY <2>1, FlattenSeqEmpty, Zenon
  <2>. QED  BY <2>2
<1>2. CASE Len(ss) # 0
  <2>1. PICK f : Flattens(ss, Len(ss), f) /\ FlattenSeq(ss) = f[Len(ss)]
    BY <1>2, FlattenSeqDef
  <2>. QED  BY <1>2, <2>1, FlattensType
<1>. QED  BY <1>1, <1>2

(* What FlattenSeq makes of one sequence more.                             *)
LEMMA FlattenSeqAppend ==
  ASSUME NEW S, NEW ss \in Seq(Seq(S)), NEW s \in Seq(S)
  PROVE  FlattenSeq(Append(ss, s)) = FlattenSeq(ss) \o s
<1>. DEFINE tt == Append(ss, s)
            m == Len(ss)
<1>1. /\ m \in Nat /\ tt \in Seq(Seq(S)) /\ Len(tt) = m + 1
      /\ (\A i \in 1..m : tt[i] = ss[i]) /\ tt[m + 1] = s
  OBVIOUS
<1>. HIDE DEF tt
<1>2. PICK g : Flattens(tt, m + 1, g) /\ FlattenSeq(tt) = g[m + 1]
  BY <1>1, FlattenSeqDef
<1>3. \A n \in Nat : n + 1 \in 1..m+1 =>
        g[n + 1] = IF n = 0 THEN tt[n + 1] ELSE g[n] \o tt[n + 1]
  <2>1. m + 1 \in Nat /\ Flattens(tt, m + 1, g)
    BY <1>1, <1>2
  <2>. HIDE DEF m
  <2>. QED  BY <2>1, FlattensStep
<1>4. g[m + 1] = IF m = 0 THEN s ELSE g[m] \o s
  <2>1. m \in Nat /\ m + 1 \in 1..m+1 /\ tt[m + 1] = s
    BY <1>1
  <2>. HIDE DEF m
  <2>. QED  BY <1>3, <2>1
<1>5. CASE m = 0
  <2>1. ss = <<>> /\ FlattenSeq(ss) = <<>>
    BY <1>5, FlattenSeqEmpty
  <2>2. <<>> \o s = s
    BY ConcatEmptySeq
  <2>. QED  BY <1>2, <1>4, <1>5, <2>1, <2>2 DEF tt
<1>6. CASE m # 0
  <2>1. PICK f : Flattens(ss, m, f) /\ FlattenSeq(ss) = f[m]
    BY <1>1, <1>6, FlattenSeqDef
  <2>. DEFINE T == {n \in Nat : n \in 1..m => g[n] = f[n]}
  <2>2. 0 \in T
    OBVIOUS
  <2>3. ASSUME NEW n \in 0..m-1, n \in T
        PROVE  n + 1 \in T
    <3>1. n \in Nat /\ n + 1 \in 1..m /\ n + 1 \in 1..m+1 /\ (n # 0 => n \in 1..m)
      BY <1>1
    <3>2. f[n+1] = IF n = 0 THEN ss[n+1] ELSE f[n] \o ss[n+1]
      BY <1>1, <2>1, <3>1, FlattensStep, Zenon
    <3>3. g[n+1] = IF n = 0 THEN ss[n+1] ELSE g[n] \o ss[n+1]
      <4>1. tt[n+1] = ss[n+1]
        BY <1>1, <3>1
      <4>. QED  BY <1>3, <3>1, <4>1, Zenon
    <3>4. n # 0 => g[n] = f[n]
      BY <2>3, <3>1, Zenon
    <3>5. g[n+1] = f[n+1]
      BY <3>2, <3>3, <3>4, Zenon
    <3>. QED  BY <3>5
  <2>. HIDE DEF T
  <2>4. 0..m \subseteq T
    BY <1>1, <2>2, <2>3, InductionUpTo
  <2>5. m \in 0..m /\ m \in 1..m
    BY <1>1, <1>6
  <2>6. g[m] = f[m]
    BY <2>4, <2>5, Zenon DEF T
  <2>. QED  BY <1>2, <1>4, <1>6, <2>1, <2>6 DEF tt
<1>. QED  BY <1>5, <1>6, <1>1

(* FlattenSeq distributes over concatenation.                              *)
LEMMA FlattenSeqConcat ==
  ASSUME NEW S, NEW ss \in Seq(Seq(S)), NEW tt \in Seq(Seq(S))
  PROVE  FlattenSeq(ss \o tt) = FlattenSeq(ss) \o FlattenSeq(tt)
<1>. DEFINE m == Len(tt)
            Q == Seq(Seq(S))
            T == {n \in Nat : \A u \in Q : Len(u) = n =>
                    FlattenSeq(ss \o u) = FlattenSeq(ss) \o FlattenSeq(u)}
<1>1. 0 \in T
  <2>1. ASSUME NEW u \in Q, Len(u) = 0
        PROVE  FlattenSeq(ss \o u) = FlattenSeq(ss) \o FlattenSeq(u)
    <3>1. u = <<>> /\ ss \o <<>> = ss
      BY <2>1, ConcatEmptySeq
    <3>2. FlattenSeq(ss) \o <<>> = FlattenSeq(ss)
      BY FlattenSeqType, ConcatEmptySeq
    <3>. QED  BY <3>1, <3>2, FlattenSeqEmpty
  <2>. QED  BY <2>1
<1>2. ASSUME NEW n \in Nat, n \in T
      PROVE  n + 1 \in T
  <2>1. ASSUME NEW u \in Q, Len(u) = n + 1
        PROVE  FlattenSeq(ss \o u) = FlattenSeq(ss) \o FlattenSeq(u)
    <3>1. u # <<>>
      BY <2>1
    <3>2. PICK v \in Q, e \in Seq(S) : u = Append(v, e)
      BY <3>1, SequenceEmptyOrAppend
    <3>3. Len(v) = n
      BY <2>1, <3>2
    <3>4. FlattenSeq(ss \o v) = FlattenSeq(ss) \o FlattenSeq(v)
      BY <1>2, <3>3
    <3>5. ss \o Append(v, e) = Append(ss \o v, e) /\ ss \o v \in Q
      <4>1. ss \o v \in Q /\ v \in Q
        BY ConcatProperties
      <4>2. Append(v, e) = v \o <<e>> /\ Append(ss \o v, e) = (ss \o v) \o <<e>>
        BY <4>1, AppendIsConcat
      <4>3. <<e>> \in Q
        OBVIOUS
      <4>. QED  BY <4>1, <4>2, <4>3, ConcatAssociative
    <3>6. FlattenSeq(ss \o u) = FlattenSeq(ss \o v) \o e
      BY <3>2, <3>5, FlattenSeqAppend
    <3>7. FlattenSeq(u) = FlattenSeq(v) \o e
      BY <3>2, FlattenSeqAppend
    <3>8. FlattenSeq(ss) \in Seq(S) /\ FlattenSeq(v) \in Seq(S)
      BY FlattenSeqType
    <3>9. (FlattenSeq(ss) \o FlattenSeq(v)) \o e = FlattenSeq(ss) \o (FlattenSeq(v) \o e)
      BY <3>8, ConcatAssociative
    <3>. QED  BY <3>4, <3>6, <3>7, <3>9, Zenon
  <2>. HIDE DEF Q
  <2>. QED  BY <2>1
<1>. HIDE DEF T
<1>3. m \in Nat
  OBVIOUS
<1>. HIDE DEF m
<1>4. m \in T
  BY <1>1, <1>2, <1>3, InductionInSet
<1>. QED  BY <1>4 DEF T, m

(* Parts of sequences                                                      *)

(* A function on 1..n is a sequence.                                       *)
LEMMA FunctionIsSequence ==
  ASSUME NEW S, NEW n \in Nat, NEW f \in [1..n -> S]
  PROVE  f \in Seq(S) /\ Len(f) = n
OBVIOUS

(* The size elements of a sequence after the first ones.                   *)
LEMMA SubSeqFacts ==
  ASSUME NEW S, NEW s \in Seq(S), NEW first \in Nat, NEW size \in Nat,
         first + size <= Len(s)
  PROVE  /\ SubSeq(s, first + 1, first + size) \in Seq(S)
         /\ Len(SubSeq(s, first + 1, first + size)) = size
         /\ \A i \in 1..size : /\ first + i \in 1..Len(s)
                              /\ SubSeq(s, first + 1, first + size)[i] = s[first + i]
<1>. DEFINE m == first + 1
            n == first + size
            sub == SubSeq(s, m, n)
<1>1. m \in Int /\ n \in Int /\ m = first + 1 /\ n = first + size /\ Len(s) \in Nat
  OBVIOUS
<1>2. sub = SubSeq(s, first + 1, first + size)
  OBVIOUS
<1>. HIDE DEF m, n
<1>3. \A i \in m..n : s[i] \in S
  BY <1>1
<1>4. /\ sub \in Seq(S)
      /\ Len(sub) = IF m <= n THEN n-m+1 ELSE 0
      /\ \A i \in 1..n-m+1 : sub[i] = s[m+i-1]
  BY <1>1, <1>3, SubSeqProperties
<1>. HIDE DEF sub
<1>5. Len(sub) = size
  BY <1>1, <1>4
<1>6. \A i \in 1..size : first + i \in 1..Len(s) /\ i \in 1..n-m+1 /\ m+i-1 = first + i
  BY <1>1
<1>. QED  BY <1>2, <1>4, <1>5, <1>6

(* Sequences without repetition                                            *)

LEMMA OnceAppend ==
  ASSUME NEW S, NEW s \in Seq(S), NEW e \in S
  PROVE  /\ Range(Append(s, e)) = Range(s) \cup {e}
         /\ Once(s) /\ e \notin Range(s) => Once(Append(s, e))
<1>. DEFINE t == Append(s, e)
<1>1. /\ Len(s) \in Nat /\ DOMAIN s = 1..Len(s) /\ DOMAIN t = 1..Len(s)+1
      /\ (\A i \in 1..Len(s) : t[i] = s[i]) /\ t[Len(s) + 1] = e
  OBVIOUS
<1>. HIDE DEF t
<1>2. \A i \in DOMAIN t : i \in DOMAIN s \/ i = Len(s) + 1
  BY <1>1
<1>3. \A i \in DOMAIN s : i \in DOMAIN t /\ i # Len(s) + 1
  BY <1>1
<1>4. Len(s) + 1 \in DOMAIN t
  BY <1>1
<1>5. Range(t) = Range(s) \cup {e}
  BY <1>1, <1>2, <1>3, <1>4, Zenon DEF Range
<1>6. ASSUME Once(s), e \notin Range(s), NEW i \in DOMAIN t, NEW k \in DOMAIN t, t[i] = t[k]
      PROVE  i = k
  BY <1>1, <1>2, <1>6, Zenon DEF Once, Range
<1>. QED  BY <1>5, <1>6 DEF t, Once

LEMMA OnceConcat ==
  ASSUME NEW S, NEW s \in Seq(S), NEW t \in Seq(S),
         Once(s), Once(t), Range(s) \cap Range(t) = {}
  PROVE  Once(s \o t)
<1>. DEFINE u == s \o t
<1>1. /\ Len(s) \in Nat /\ DOMAIN s = 1..Len(s)
      /\ Len(t) \in Nat /\ DOMAIN t = 1..Len(t)
      /\ DOMAIN u = 1..Len(s)+Len(t)
      /\ \A i \in 1..Len(s)+Len(t) : u[i] = IF i <= Len(s) THEN s[i] ELSE t[i - Len(s)]
  BY ConcatProperties, LenProperties
<1>. HIDE DEF u
<1>2. \A i \in DOMAIN u : \/ i \in DOMAIN s /\ u[i] = s[i]
                          \/ i - Len(s) \in DOMAIN t /\ u[i] = t[i - Len(s)]
  BY <1>1
<1>3. ASSUME NEW i \in DOMAIN u, NEW k \in DOMAIN u, u[i] = u[k]
      PROVE  i = k
  <2>1. \A a \in DOMAIN s, b \in DOMAIN t : s[a] # t[b]
    BY Zenon DEF Range
  <2>2. CASE i \in DOMAIN s /\ u[i] = s[i] /\ k \in DOMAIN s /\ u[k] = s[k]
    BY <2>2, <1>3 DEF Once
  <2>3. CASE /\ i - Len(s) \in DOMAIN t /\ u[i] = t[i - Len(s)]
             /\ k - Len(s) \in DOMAIN t /\ u[k] = t[k - Len(s)]
    <3>1. i - Len(s) = k - Len(s)
      BY <2>3, <1>3, Zenon DEF Once
    <3>. QED  BY <3>1, <1>1
  <2>. QED  BY <1>2, <1>3, <2>1, <2>2, <2>3
<1>. QED  BY <1>3 DEF u, Once

(* A sequence without repetition is as long as its elements are many.      *)
LEMMA OnceCardinality ==
  ASSUME NEW S, NEW s \in Seq(S), Once(s)
  PROVE  IsFiniteSet(Range(s)) /\ Cardinality(Range(s)) = Len(s)
<1>1. Len(s) \in Nat /\ DOMAIN s = 1..Len(s)
  OBVIOUS
<1>2. s \in [1..Len(s) -> Range(s)]
  BY <1>1 DEF Range
<1>3. s \in Bijection(1..Len(s), Range(s))
  BY <1>1, <1>2 DEF Bijection, Injection, Surjection, Once, Range, IsInjective
<1>4. ExistsBijection(1..Len(s), Range(s))
  BY <1>3 DEF ExistsBijection
<1>5. IsFiniteSet(1..Len(s)) /\ Cardinality(1..Len(s)) = Len(s)
  BY <1>1, FS_Interval
<1>. QED  BY <1>4, <1>5, FS_Bijection

-----------------------------------------------------------------------------
(* The rows of a bucket, as a set.                                         *)
RSet(b) == {i \in DOMAIN rKey : H1(rKey[i]) = b}
SSet(b) == {i \in DOMAIN sKey : H1(sKey[i]) = b}

(* The second hash of a tuple of a piece.                                  *)
Hash2Of(piece, i) == hash2[rKey[piece.rows[i]]]

Pieces == {piece \in [rows    : Seq(Nat),
                      buckets : [0..Hash2Range-1 -> Nat],
                      chain   : Seq(Nat)] :
             /\ Len(piece.rows) \in 1..Cap
             /\ Len(piece.chain) = Len(piece.rows)}

(* x is the last of the first n tuples with the second hash h, 0 if there  *)
(* is none.                                                                *)
IsLast(piece, h, n, x) ==
  /\ x \in 0..n
  /\ x # 0 => Hash2Of(piece, x) = h
  /\ \A i \in x+1..n : Hash2Of(piece, i) # h

(* The first n tuples are in their chains.                                 *)
Chained(piece, n) ==
  /\ \A h \in 0..Hash2Range-1 : IsLast(piece, h, n, piece.buckets[h])
  /\ \A i \in 1..n : IsLast(piece, Hash2Of(piece, i), i - 1, piece.chain[i])
  /\ \A i \in n+1..Len(piece.rows) : piece.chain[i] = 0

(* The pieces hold every row of a set, each at one place.                  *)
LaidOut(pieces, rows) ==
  /\ \A p \in DOMAIN pieces : \A i \in DOMAIN pieces[p].rows : pieces[p].rows[i] \in rows
  /\ \A r \in rows : \E p \in DOMAIN pieces : \E i \in DOMAIN pieces[p].rows :
       pieces[p].rows[i] = r
  /\ \A p, q \in DOMAIN pieces : \A i \in DOMAIN pieces[p].rows, k \in DOMAIN pieces[q].rows :
       pieces[p].rows[i] = pieces[q].rows[k] => p = q /\ i = k

(* How many tuples of a piece are in their chains.                         *)
Built(b, p) ==
  IF pc # "index" \/ b < at.bucket \/ (b = at.bucket /\ p < at.piece)
  THEN Len(index[b][p].rows)
  ELSE IF b = at.bucket /\ p = at.piece THEN at.tuple - 1 ELSE 0

BaseInv == /\ rKey \in Seq(Nat) /\ sKey \in Seq(Nat)
           /\ hash2 \in [Keys -> 0..Hash2Range-1]
           /\ pc \in {"index", "write", "test", "wait", "connect", "done"}
           /\ job \in [Buckets -> {"none", "ready", "run", "end"}]

IndexInv ==
  /\ index \in [Buckets -> Seq(Pieces)]
  /\ \A b \in Buckets :
       /\ index[b] # <<>> => LaidOut(index[b], RSet(b))
       /\ index[b] = <<>> => RSet(b) = {} \/ (pc = "index" /\ b >= at.bucket)
       /\ pc = "index" /\ b > at.bucket => index[b] = <<>>
       /\ \A p \in DOMAIN index[b] : Chained(index[b][p], Built(b, p))

AtInv ==
  /\ at \in [bucket : 0..HashRange, piece : Nat \ {0}, tuple : Nat \ {0}]
  /\ pc = "index" /\ at.bucket \in Buckets =>
       \/ index[at.bucket] = <<>> /\ at.piece = 1 /\ at.tuple = 1
       \/ /\ at.piece \in DOMAIN index[at.bucket]
          /\ at.tuple \in DOMAIN index[at.bucket][at.piece].rows
       \/ at.piece = Len(index[at.bucket]) + 1 /\ at.tuple = 1
  /\ pc \in {"test", "wait"} => at.bucket = 0
  /\ pc = "done" => at.bucket = HashRange

(* A job exists for the buckets of S, once the main thread has written it. *)
JobInv ==
  \A b \in Buckets :
    /\ job[b] # "none" => b \in Probed /\ pc # "index"
    /\ b \in Probed /\ pc = "write" => (job[b] = "none" <=> at.bucket <= b)
    /\ b \in Probed /\ pc \notin {"index", "write"} => job[b] # "none"

Ended == {b \in Buckets : job[b] = "end"}
BarrierInv == /\ connected = Cardinality(Ended)
              /\ pc \in {"connect", "done"} => Ended = Probed

(* Where a job is: at a tuple of a piece, or past the last piece.          *)
InPiece(b) ==
  /\ probe[b].piece \in DOMAIN index[b]
  /\ probe[b].tuple \in DOMAIN SRows(b)
  /\ probe[b].ptr \in 0..Len(ProbePiece(b).rows)
  /\ probe[b].ptr # 0 => Hash2Of(ProbePiece(b), probe[b].ptr) = hash2[sKey[ProbeRow(b)]]
PastPieces(b) ==
  probe[b].piece = Len(index[b]) + 1 /\ probe[b].tuple = 1 /\ probe[b].ptr = 0

ProbeInv ==
  /\ probe \in [Buckets -> [piece : Nat \ {0}, tuple : Nat \ {0}, ptr : Nat]]
  /\ \A b \in Buckets :
       /\ job[b] \in {"none", "ready"} => /\ probe[b] = [piece |-> 1, tuple |-> 1, ptr |-> 0]
                                          /\ list[b] = EmptyList
       /\ job[b] = "run" => InPiece(b) \/ PastPieces(b)

(* Tuple i of piece p and tuple t of S have been compared, or are in no    *)
(* common chain.                                                           *)
Passed(at_, p, t, i) ==
  \/ p < at_.piece
  \/ p = at_.piece /\ t < at_.tuple
  \/ p = at_.piece /\ t = at_.tuple /\ at_.ptr # 0 /\ i > at_.ptr

Equal(m) == rKey[m[1]] = sKey[m[2]]
Matches(b) == {m \in RSet(b) \X SSet(b) : Equal(m)}
FoundAt(b, at_) ==
  {m \in Matches(b) :
     \E p \in DOMAIN index[b] : \E i \in DOMAIN index[b][p].rows : \E t \in DOMAIN SRows(b) :
       m = <<index[b][p].rows[i], SRows(b)[t]>> /\ Passed(at_, p, t, i)}
Found(b) == FoundAt(b, probe[b])

(* What a result list holds.                                               *)
AllOf(l) == FlattenSeq(l.nodes) \o l.buff
Sound(l) == /\ l \in Lists
            /\ Len(l.buff) <= MaxTuples
            /\ \A n \in DOMAIN l.nodes : Len(l.nodes[n]) \in 1..MaxTuples
            /\ Once(AllOf(l))
            /\ l.total = Len(AllOf(l))

ListInv ==
  /\ list \in [Buckets -> Lists]
  /\ \A b \in Buckets :
       /\ Sound(list[b])
       /\ job[b] = "run" => Range(AllOf(list[b])) = Found(b)
       /\ job[b] = "end" => list[b].buff = <<>> /\ Range(AllOf(list[b])) = Matches(b)

(* The lists below bucket n are linked in a walk that ends at the tail;    *)
(* together they are a list of the matches of these buckets.  No list at   *)
(* or behind n is linked to another.                                       *)
Below(n) == {m \in Pairs : Equal(m) /\ H1(sKey[m[2]]) < n}
Joined(walk) == [nodes |-> NodesOf(walk), buff |-> <<>>, total |-> result.total]

Linked(walk, n) ==
  /\ IsWalk(walk)
  /\ Len(walk) <= n
  /\ walk = <<>> <=> result.total = 0
  /\ walk # <<>> => result.tail = walk[Len(walk)] /\ result.tail < n
  /\ \A c \in Buckets : n <= c => result.nextNode[c] = None
  /\ Sound(Joined(walk)) /\ Range(AllOf(Joined(walk))) = Below(n)
  /\ result.numbOfNodes = Len(NodesOf(walk))

ResultInv ==
  /\ result \in Results
  /\ pc \notin {"connect", "done"} => result = NoResult
  /\ pc \in {"connect", "done"} => \E walk \in Seq(Buckets) : Linked(walk, at.bucket)

Inv == /\ BaseInv /\ IndexInv /\ AtInv /\ JobInv /\ BarrierInv
       /\ ProbeInv /\ ListInv /\ ResultInv

-----------------------------------------------------------------------------
(* The rows of a bucket                                                    *)

Selects(keys, b, m, f) ==
  f = [n \in 0..m |-> IF n = 0 THEN <<>>
                      ELSE IF H1(keys[n]) = b THEN Append(f[n-1], n) ELSE f[n-1]]

LEMMA SelectsExists ==
  ASSUME NEW keys, NEW b, NEW m \in Nat
  PROVE  \E f : Selects(keys, b, m, f)
<1>. DEFINE T == {n \in Nat : \E f : Selects(keys, b, n, f)}
<1>1. 0 \in T
  <2>. DEFINE f == [n \in 0..0 |-> <<>>]
  <2>1. f = [n \in 0..0 |-> IF n = 0 THEN <<>>
                            ELSE IF H1(keys[n]) = b THEN Append(f[n-1], n) ELSE f[n-1]]
    OBVIOUS
  <2>2. \E g : Selects(keys, b, 0, g)
    BY <2>1, Zenon DEF Selects
  <2>. QED  BY <2>2
<1>2. ASSUME NEW n \in Nat, n \in T
      PROVE  n + 1 \in T
  <2>1. PICK f : Selects(keys, b, n, f)
    BY <1>2
  <2>. DEFINE Body(h, i) == IF i = 0 THEN <<>>
                            ELSE IF H1(keys[i]) = b THEN Append(h[i-1], i) ELSE h[i-1]
              g == [i \in 0..n+1 |-> IF i \in 0..n THEN f[i] ELSE Body(f, i)]
  <2>2. ASSUME NEW i \in 0..n+1
        PROVE  g[i] = Body(g, i)
    <3>1. i = 0 \/ (i - 1 \in 0..n /\ i - 1 \in 0..n+1)
      OBVIOUS
    <3>2. i # 0 => g[i-1] = f[i-1]
      BY <3>1
    <3>3. Body(g, i) = Body(f, i)
      BY <3>2
    <3>4. CASE i \in 0..n
      <4>1. f[i] = Body(f, i)
        BY <2>1, <3>4, Zenon DEF Selects
      <4>. QED  BY <3>3, <3>4, <4>1
    <3>5. CASE i \notin 0..n
      BY <3>3, <3>5
    <3>. QED  BY <3>4, <3>5
  <2>3. g = [i \in 0..n+1 |-> Body(g, i)]
    BY <2>2
  <2>4. \E h : Selects(keys, b, n + 1, h)
    BY <2>3, Zenon DEF Selects
  <2>. QED  BY <2>4
<1>. HIDE DEF T
<1>3. m \in T
  BY <1>1, <1>2, InductionInSet
<1>. QED  BY <1>3 DEF T

LEMMA SelectsStep ==
  ASSUME NEW keys, NEW b, NEW m \in Nat, NEW f, Selects(keys, b, m, f)
  PROVE  \A n \in 0..m-1 : f[n+1] = IF H1(keys[n+1]) = b THEN Append(f[n], n + 1) ELSE f[n]
<1>1. ASSUME NEW n \in 0..m-1
      PROVE  f[n+1] = IF H1(keys[n+1]) = b THEN Append(f[n], n + 1) ELSE f[n]
  <2>1. n + 1 \in 0..m /\ n + 1 # 0 /\ (n + 1) - 1 = n
    OBVIOUS
  <2>2. f[n+1] = IF n + 1 = 0 THEN <<>>
                 ELSE IF H1(keys[n+1]) = b THEN Append(f[(n+1)-1], n + 1) ELSE f[(n+1)-1]
    BY <2>1, Zenon DEF Selects
  <2>. QED  BY <2>1, <2>2, Zenon
<1>. QED  BY <1>1

LEMMA RowsOfDef ==
  ASSUME NEW keys, NEW b, Len(keys) \in Nat
  PROVE  \E f : Selects(keys, b, Len(keys), f) /\ RowsOf(keys, b) = f[Len(keys)]
<1>. DEFINE rows == CHOOSE f : f = [n \in 0..Len(keys) |->
                   IF n = 0 THEN <<>>
                   ELSE IF H1(keys[n]) = b THEN Append(f[n-1], n) ELSE f[n-1]]
<1>1. \E f : f = [n \in 0..Len(keys) |->
                   IF n = 0 THEN <<>>
                   ELSE IF H1(keys[n]) = b THEN Append(f[n-1], n) ELSE f[n-1]]
  <2>1. \E f : Selects(keys, b, Len(keys), f)
    BY SelectsExists
  <2>. QED  BY <2>1, Zenon DEF Selects
<1>2. Selects(keys, b, Len(keys), rows)
  BY <1>1, Zenon DEF Selects
<1>3. RowsOf(keys, b) = rows[Len(keys)]
  BY Zenon DEF RowsOf
<1>. QED  BY <1>2, <1>3, Zenon

(* RowsOf lists the rows of a bucket, each once.                           *)
LEMMA RowsOfFacts ==
  ASSUME NEW keys \in Seq(Nat), NEW b
  PROVE  LET rows == {i \in DOMAIN keys : H1(keys[i]) = b}
         IN  /\ RowsOf(keys, b) \in Seq(rows)
             /\ Once(RowsOf(keys, b))
             /\ Range(RowsOf(keys, b)) = rows
<1>. DEFINE m == Len(keys)
            rows(n) == {i \in DOMAIN keys : i <= n /\ H1(keys[i]) = b}
<1>1. m \in Nat /\ DOMAIN keys = 1..m
  OBVIOUS
<1>2. PICK g : Selects(keys, b, m, g) /\ RowsOf(keys, b) = g[m]
  BY <1>1, RowsOfDef
<1>. HIDE DEF m
<1>3. g[0] = <<>>
  <2>1. 0 \in 0..m
    BY <1>1
  <2>. QED  BY <1>2, <2>1, Zenon DEF Selects
<1>4. \A n \in 0..m-1 : g[n+1] = IF H1(keys[n+1]) = b THEN Append(g[n], n + 1) ELSE g[n]
  BY <1>1, <1>2, SelectsStep
<1>. DEFINE T == {n \in Nat : g[n] \in Seq(rows(n)) /\ Once(g[n]) /\ Range(g[n]) = rows(n)}
<1>5. 0 \in T
  <2>1. rows(0) = {}
    BY <1>1
  <2>2. <<>> \in Seq(rows(0)) /\ Once(<<>>) /\ Range(<<>>) = {}
    BY DEF Once, Range
  <2>. QED  BY <1>3, <2>1, <2>2
<1>6. ASSUME NEW n \in 0..m-1, n \in T
      PROVE  n + 1 \in T
  <2>. n \in Nat /\ n + 1 \in DOMAIN keys
    BY <1>1
  <2>1. g[n] \in Seq(rows(n)) /\ Once(g[n]) /\ Range(g[n]) = rows(n)
    BY <1>6
  <2>2. CASE H1(keys[n+1]) = b
    <3>1. g[n+1] = Append(g[n], n + 1)
      BY <1>4, <2>2
    <3>2. rows(n+1) = rows(n) \cup {n + 1} /\ n + 1 \notin rows(n)
      BY <1>1, <2>2
    <3>. HIDE DEF rows
    <3>3. g[n] \in Seq(rows(n+1)) /\ n + 1 \in rows(n+1)
      BY <2>1, <3>2, SeqMonotonic
    <3>4. /\ Range(Append(g[n], n + 1)) = Range(g[n]) \cup {n + 1}
          /\ Once(Append(g[n], n + 1))
      BY <2>1, <3>2, <3>3, OnceAppend
    <3>5. Append(g[n], n + 1) \in Seq(rows(n+1))
      BY <3>3, AppendProperties
    <3>6. g[n+1] \in Seq(rows(n+1)) /\ Once(g[n+1]) /\ Range(g[n+1]) = rows(n+1)
      BY <2>1, <3>1, <3>2, <3>4, <3>5, Zenon
    <3>. QED  BY <3>6
  <2>3. CASE H1(keys[n+1]) # b
    <3>1. g[n+1] = g[n]
      BY <1>4, <2>3
    <3>2. rows(n+1) = rows(n)
      BY <1>1, <2>3
    <3>. HIDE DEF rows
    <3>. QED  BY <2>1, <3>1, <3>2
  <2>. QED  BY <2>2, <2>3
<1>. HIDE DEF T
<1>7. 0..m \subseteq T
  BY <1>1, <1>5, <1>6, InductionUpTo
<1>8. m \in T
  BY <1>1, <1>7
<1>9. rows(m) = {i \in DOMAIN keys : H1(keys[i]) = b}
  BY <1>1
<1>. QED  BY <1>2, <1>8, <1>9 DEF T

-----------------------------------------------------------------------------
(* The pieces of a bucket                                                  *)

Halves(n, f) == f = [m \in 0..n |-> IF m <= Cap THEN m ELSE f[m \div 2]]

LEMMA HalvesExists ==
  ASSUME NEW n \in Nat
  PROVE  \E f : Halves(n, f)
<1>. DEFINE T == {m \in Nat : \E f : Halves(m, f)}
<1>1. 0 \in T
  <2>. DEFINE f == [m \in 0..0 |-> m]
  <2>1. f = [m \in 0..0 |-> IF m <= Cap THEN m ELSE f[m \div 2]]
    BY SizesAssumption
  <2>2. \E g : Halves(0, g)
    BY <2>1, Zenon DEF Halves
  <2>. QED  BY <2>2
<1>2. ASSUME NEW m \in Nat, m \in T
      PROVE  m + 1 \in T
  <2>1. PICK f : Halves(m, f)
    BY <1>2
  <2>. DEFINE Body(h, i) == IF i <= Cap THEN i ELSE h[i \div 2]
              g == [i \in 0..m+1 |-> IF i \in 0..m THEN f[i] ELSE Body(f, i)]
  <2>2. ASSUME NEW i \in 0..m+1
        PROVE  g[i] = Body(g, i)
    <3>1. i <= Cap \/ (i \div 2 \in 0..m /\ i \div 2 \in 0..m+1)
      BY SizesAssumption
    <3>2. ~(i <= Cap) => g[i \div 2] = f[i \div 2]
      BY <3>1
    <3>3. Body(g, i) = Body(f, i)
      BY <3>2
    <3>4. CASE i \in 0..m
      <4>1. f[i] = Body(f, i)
        BY <2>1, <3>4, Zenon DEF Halves
      <4>. QED  BY <3>3, <3>4, <4>1
    <3>5. CASE i \notin 0..m
      BY <3>3, <3>5
    <3>. QED  BY <3>4, <3>5
  <2>3. g = [i \in 0..m+1 |-> Body(g, i)]
    BY <2>2
  <2>4. \E h : Halves(m + 1, h)
    BY <2>3, Zenon DEF Halves
  <2>. QED  BY <2>4
<1>. HIDE DEF T
<1>3. n \in T
  BY <1>1, <1>2, InductionInSet
<1>. QED  BY <1>3 DEF T

LEMMA EachSizeDef ==
  ASSUME NEW n \in Nat
  PROVE  \E f : Halves(n, f) /\ EachSize(n) = f[n]
<1>. DEFINE half == CHOOSE f : f = [m \in 0..n |-> IF m <= Cap THEN m ELSE f[m \div 2]]
<1>1. \E f : f = [m \in 0..n |-> IF m <= Cap THEN m ELSE f[m \div 2]]
  <2>1. \E f : Halves(n, f)
    BY HalvesExists
  <2>. QED  BY <2>1, Zenon DEF Halves
<1>2. Halves(n, half)
  BY <1>1, Zenon DEF Halves
<1>3. EachSize(n) = half[n]
  BY Zenon DEF EachSize
<1>. QED  BY <1>2, <1>3, Zenon

(* A piece has at least one tuple, and fits.                               *)
LEMMA EachSizeFacts ==
  ASSUME NEW n \in Nat \ {0}
  PROVE  EachSize(n) \in 1..n /\ EachSize(n) <= Cap
<1>1. PICK f : Halves(n, f) /\ EachSize(n) = f[n]
  BY EachSizeDef
<1>. DEFINE wrong == {m \in 1..n : ~(f[m] \in 1..m /\ f[m] <= Cap)}
<1>2. ASSUME wrong # {}
      PROVE  FALSE
  <2>. wrong \subseteq Nat
    OBVIOUS
  <2>1. PICK m \in wrong : \A k \in wrong : m <= k
    <3>. HIDE DEF wrong
    <3>. QED  BY <1>2, LeastOf
  <2>2. f[m] = IF m <= Cap THEN m ELSE f[m \div 2]
    <3>1. m \in 0..n
      OBVIOUS
    <3>. QED  BY <1>1, <3>1, Zenon DEF Halves
  <2>3. CASE m <= Cap
    BY <2>2, <2>3
  <2>4. CASE ~(m <= Cap)
    <3>1. m >= 2 /\ m \div 2 \in 1..n /\ m \div 2 < m
      BY <2>4, SizesAssumption
    <3>2. f[m \div 2] \in 1..(m \div 2) /\ f[m \div 2] <= Cap
      BY <2>1, <3>1
    <3>. QED  BY <2>2, <2>4, <3>1, <3>2
  <2>. QED  BY <2>3, <2>4
<1>3. n \notin wrong
  BY <1>2
<1>. QED  BY <1>1, <1>3

LEMMA ProductMonotonic ==
  ASSUME NEW a \in Nat, NEW b \in Nat, NEW e \in Nat, a < b
  PROVE  a * e \in Nat /\ b * e \in Nat /\ a * e + e <= b * e
<1>1. PICK d \in Nat : b = a + 1 + d
  <2>1. b - a - 1 \in Nat /\ b = a + 1 + (b - a - 1)
    OBVIOUS
  <2>. QED  BY <2>1
<1>2. b * e = a * e + e + d * e
  BY <1>1
<1>3. a * e \in Nat /\ d * e \in Nat
  OBVIOUS
<1>. QED  BY <1>2, <1>3

LEMMA Quotients ==
  ASSUME NEW n \in Nat, NEW e \in Nat \ {0}
  PROVE  /\ n \div e \in Nat /\ n % e \in 0..e-1
         /\ (n \div e) * e \in Nat
         /\ n = (n \div e) * e + (n % e)
OBVIOUS

(* The sizes of the pieces cut the positions of a bucket: every position   *)
(* is one of one piece.                                                    *)
LEMMA PieceSizesFacts ==
  ASSUME NEW n \in Nat \ {0}
  PROVE  LET e == EachSize(n)
             sizes == PieceSizes(n)
         IN  /\ e \in Nat \ {0}
             /\ sizes \in Seq(1..Cap) /\ sizes # <<>>
             /\ \A p \in DOMAIN sizes : /\ (p - 1) * e \in Nat
                                        /\ sizes[p] \in 1..e
                                        /\ (p - 1) * e + sizes[p] <= n
             /\ \A k \in 1..n : \E p \in DOMAIN sizes : \E i \in 1..sizes[p] :
                  (p - 1) * e + i = k
             /\ \A p, q \in DOMAIN sizes : \A i \in 1..sizes[p], k \in 1..sizes[q] :
                  (p - 1) * e + i = (q - 1) * e + k => p = q /\ i = k
<1>. DEFINE e == EachSize(n)
            sizes == PieceSizes(n)
            full == n \div e
            rest == n % e
            num == full + IF rest = 0 THEN 0 ELSE 1
<1>1. e \in 1..n /\ e <= Cap /\ e \in Nat \ {0} /\ Cap \in Nat
  BY EachSizeFacts, SizesAssumption
<1>. HIDE DEF e
<1>2. sizes = [p \in 1..num |-> IF p <= full THEN e ELSE rest]
  BY DEF PieceSizes, e
<1>3. full \in Nat /\ rest \in 0..e-1 /\ full * e \in Nat /\ n = full * e + rest
  BY <1>1, Quotients
<1>. HIDE DEF full, rest
<1>4. full # 0
  <2>1. ASSUME full = 0 PROVE FALSE
    <3>1. full * e = 0
      BY <2>1, <1>1
    <3>. QED  BY <3>1, <1>1, <1>3
  <2>. QED  BY <2>1
<1>5. num \in Nat \ {0} /\ ((num = full /\ rest = 0) \/ (num = full + 1 /\ rest # 0))
  BY <1>3, <1>4
<1>. HIDE DEF num, sizes
<1>6. \A p \in 1..num : sizes[p] \in 1..e /\ sizes[p] \in 1..Cap
  BY <1>1, <1>2, <1>3, <1>5
<1>7. sizes \in Seq(1..Cap) /\ DOMAIN sizes = 1..num /\ sizes # <<>>
  <2>1. DOMAIN sizes = 1..num
    BY <1>2
  <2>2. sizes \in [1..num -> 1..Cap]
    BY <1>2, <1>6
  <2>. num \in Nat
    BY <1>5
  <2>3. sizes \in Seq(1..Cap) /\ Len(sizes) = num
    BY <2>2, FunctionIsSequence
  <2>. QED  BY <2>1, <2>3, <1>5
<1>8. ASSUME NEW p \in 1..num
      PROVE  (p - 1) * e \in Nat /\ (p - 1) * e + sizes[p] <= n
  <2>1. p - 1 \in Nat
    OBVIOUS
  <2>2. CASE p <= full
    <3>1. (p - 1) * e \in Nat /\ (p - 1) * e + e <= full * e
      BY <1>1, <1>3, <2>1, <2>2, ProductMonotonic
    <3>2. sizes[p] = e
      BY <1>2, <2>2
    <3>. QED  BY <3>1, <3>2, <1>1, <1>3
  <2>3. CASE ~(p <= full)
    <3>1. p - 1 = full /\ sizes[p] = rest
      BY <1>2, <1>3, <1>5, <2>3
    <3>. QED  BY <3>1, <1>3
  <2>. QED  BY <2>2, <2>3
<1>9. ASSUME NEW k \in 1..n
      PROVE  \E p \in 1..num : \E i \in 1..sizes[p] : (p - 1) * e + i = k
  <2>. DEFINE q == (k - 1) \div e
              r == (k - 1) % e
  <2>. k - 1 \in Nat
    OBVIOUS
  <2>1. q \in Nat /\ r \in 0..e-1 /\ q * e \in Nat /\ k - 1 = q * e + r
    BY <1>1, Quotients, Zenon
  <2>. HIDE DEF q, r
  <2>2. q <= full
    <3>1. ASSUME full < q PROVE FALSE
      <4>1. full * e + e <= q * e
        BY <1>1, <1>3, <2>1, <3>1, ProductMonotonic
      <4>. QED  BY <4>1, <1>1, <1>3, <2>1
    <3>. QED  BY <3>1, <1>3, <2>1
  <2>3. CASE q < full
    <3>1. q + 1 \in 1..num /\ sizes[q + 1] = e
      BY <1>2, <1>3, <1>5, <2>1, <2>3
    <3>2. r + 1 \in 1..sizes[q + 1] /\ ((q + 1) - 1) * e + (r + 1) = k
      BY <3>1, <2>1, <1>1
    <3>. QED  BY <3>1, <3>2
  <2>4. CASE q = full
    <3>1. q * e = full * e
      BY <2>4
    <3>2. r + 1 <= rest
      BY <1>3, <2>1, <3>1
    <3>. rest # 0
      BY <3>2, <1>3, <2>1, <1>1
    <3>5. q + 1 \in 1..num /\ ~(q + 1 <= full)
      BY <1>3, <1>5, <2>1, <2>4
    <3>3. q + 1 \in 1..num /\ sizes[q + 1] = rest
      BY <1>2, <3>5, Zenon
    <3>4. r + 1 \in 1..sizes[q + 1] /\ ((q + 1) - 1) * e + (r + 1) = k
      BY <3>2, <3>3, <2>1, <1>1, <1>3
    <3>. QED  BY <3>3, <3>4
  <2>. QED  BY <2>2, <2>3, <2>4, <2>1, <1>3
<1>10. ASSUME NEW p \in 1..num, NEW q \in 1..num, NEW i \in 1..sizes[p], NEW k \in 1..sizes[q],
              (p - 1) * e + i = (q - 1) * e + k
       PROVE  p = q /\ i = k
  <2>1. i \in 1..e /\ k \in 1..e /\ p - 1 \in Nat /\ q - 1 \in Nat
    BY <1>1, <1>6
  <2>2. (p - 1) * e \in Nat /\ (q - 1) * e \in Nat
    BY <1>8
  <2>3. ~(p - 1 < q - 1)
    <3>1. ASSUME p - 1 < q - 1 PROVE FALSE
      <4>1. (p - 1) * e + e <= (q - 1) * e
        BY <1>1, <2>1, <3>1, ProductMonotonic
      <4>. QED  BY <4>1, <1>1, <1>10, <2>1, <2>2
    <3>. QED  BY <3>1
  <2>4. ~(q - 1 < p - 1)
    <3>1. ASSUME q - 1 < p - 1 PROVE FALSE
      <4>1. (q - 1) * e + e <= (p - 1) * e
        BY <1>1, <2>1, <3>1, ProductMonotonic
      <4>. QED  BY <4>1, <1>1, <1>10, <2>1, <2>2
    <3>. QED  BY <3>1
  <2>5. p = q
    BY <2>3, <2>4
  <2>6. (p - 1) * e = (q - 1) * e
    BY <2>5
  <2>. QED  BY <2>1, <2>2, <2>5, <2>6, <1>10
<1>. QED  BY <1>1, <1>7, <1>8, <1>9, <1>10, <1>6 DEF e, sizes

(* A laid out bucket: every row is in one piece, and no chain has begun.   *)
LEMMA NewPiecesFacts ==
  ASSUME NEW S, S \subseteq Nat, NEW rows \in Seq(S), rows # <<>>, Once(rows)
  PROVE  LET pieces == NewPieces(rows)
         IN  /\ pieces \in Seq(Pieces) /\ pieces # <<>>
             /\ LaidOut(pieces, Range(rows))
             /\ \A p \in DOMAIN pieces : Chained(pieces[p], 0)
<1>. DEFINE n == Len(rows)
            e == EachSize(n)
            sizes == PieceSizes(n)
            pieces == NewPieces(rows)
            First(p) == (p - 1) * e
<1>1. n \in Nat \ {0} /\ DOMAIN rows = 1..n /\ rows \in Seq(Nat)
  <2>1. rows \in Seq(Nat)
    BY SeqMonotonic
  <2>2. Len(rows) \in Nat \ {0} /\ DOMAIN rows = 1..Len(rows)
    OBVIOUS
  <2>. QED  BY <2>1, <2>2
<1>2. /\ e \in Nat \ {0}
      /\ sizes \in Seq(1..Cap) /\ sizes # <<>>
      /\ \A p \in DOMAIN sizes : First(p) \in Nat /\ sizes[p] \in 1..e /\ First(p) + sizes[p] <= n
      /\ \A k \in 1..n : \E p \in DOMAIN sizes : \E i \in 1..sizes[p] : First(p) + i = k
      /\ \A p, q \in DOMAIN sizes : \A i \in 1..sizes[p], k \in 1..sizes[q] :
           First(p) + i = First(q) + k => p = q /\ i = k
  <2>. HIDE DEF n
  <2>. QED  BY <1>1, PieceSizesFacts
<1>3. pieces = [p \in 1..Len(sizes) |->
                  NewPiece(SubSeq(rows, First(p) + 1, First(p) + sizes[p]))]
  BY DEF NewPieces
<1>4. DOMAIN sizes = 1..Len(sizes) /\ Len(sizes) \in Nat
  BY <1>2
<1>. HIDE DEF n, e, sizes, pieces, First
<1>5. ASSUME NEW p \in DOMAIN sizes
      PROVE  /\ pieces[p] \in Pieces
             /\ DOMAIN pieces[p].rows = 1..sizes[p]
             /\ \A i \in 1..sizes[p] : First(p) + i \in 1..n
                                       /\ pieces[p].rows[i] = rows[First(p) + i]
             /\ Chained(pieces[p], 0)
  <2>. DEFINE sub == SubSeq(rows, First(p) + 1, First(p) + sizes[p])
  <2>1. First(p) \in Nat /\ sizes[p] \in 1..Cap /\ First(p) + sizes[p] <= n /\ sizes[p] \in Nat
    <3>1. sizes[p] \in 1..Cap /\ Cap \in Nat
      BY <1>2, SizesAssumption
    <3>. QED  BY <1>2, <3>1
  <2>2. /\ sub \in Seq(Nat) /\ Len(sub) = sizes[p]
        /\ \A i \in 1..sizes[p] : First(p) + i \in 1..n /\ sub[i] = rows[First(p) + i]
    <3>. DEFINE first == First(p)
                size == sizes[p]
    <3>1. first \in Nat /\ size \in Nat /\ first + size <= Len(rows) /\ rows \in Seq(Nat)
      BY <1>1, <2>1 DEF n
    <3>2. sub = SubSeq(rows, first + 1, first + size)
      OBVIOUS
    <3>. HIDE DEF first, size, sub
    <3>3. /\ SubSeq(rows, first + 1, first + size) \in Seq(Nat)
          /\ Len(SubSeq(rows, first + 1, first + size)) = size
      <4>1. SubSeq(rows, first + 1, first + size) \in Seq(Nat)
        BY <3>1, SubSeqFacts, Zenon
      <4>2. Len(SubSeq(rows, first + 1, first + size)) = size
        BY <3>1, SubSeqFacts
      <4>. QED  BY <4>1, <4>2
    <3>4. sub \in Seq(Nat) /\ Len(sub) = size
      BY <3>2, <3>3
    <3>5. \A i \in 1..size : first + i \in 1..Len(rows) /\ sub[i] = rows[first + i]
      BY <3>1, <3>2, SubSeqFacts, Zenon
    <3>. QED  BY <3>4, <3>5 DEF first, size, n
  <2>. HIDE DEF sub
  <2>3. pieces[p] = NewPiece(sub)
    BY <1>3, <1>4 DEF sub
  <2>4. /\ pieces[p].rows = sub
        /\ pieces[p].buckets = [h \in 0..Hash2Range-1 |-> 0]
        /\ pieces[p].chain = [i \in 1..sizes[p] |-> 0]
        /\ pieces[p] = [rows |-> sub, buckets |-> [h \in 0..Hash2Range-1 |-> 0],
                        chain |-> [i \in 1..sizes[p] |-> 0]]
    BY <2>2, <2>3 DEF NewPiece
  <2>5. pieces[p] \in Pieces
    <3>1. [i \in 1..sizes[p] |-> 0] \in Seq(Nat) /\ Len([i \in 1..sizes[p] |-> 0]) = sizes[p]
      BY <2>1
    <3>. QED  BY <2>1, <2>2, <2>4, <3>1 DEF Pieces
  <2>6. Chained(pieces[p], 0)
    BY <2>1, <2>2, <2>4 DEF Chained, IsLast
  <2>. QED  BY <2>1, <2>2, <2>4, <2>5, <2>6
<1>6. pieces \in Seq(Pieces) /\ pieces # <<>> /\ DOMAIN pieces = DOMAIN sizes
  <2>1. pieces \in [1..Len(sizes) -> Pieces]
    BY <1>3, <1>4, <1>5
  <2>2. pieces \in Seq(Pieces) /\ Len(pieces) = Len(sizes)
    BY <1>4, <2>1, FunctionIsSequence
  <2>. QED  BY <1>2, <1>4, <2>1, <2>2
<1>7. LaidOut(pieces, Range(rows))
  <2>1. ASSUME NEW p \in DOMAIN pieces, NEW i \in DOMAIN pieces[p].rows
        PROVE  pieces[p].rows[i] \in Range(rows)
    BY <1>1, <1>5, <1>6 DEF Range
  <2>2. ASSUME NEW r \in Range(rows)
        PROVE  \E p \in DOMAIN pieces : \E i \in DOMAIN pieces[p].rows : pieces[p].rows[i] = r
    <3>1. PICK k \in 1..n : rows[k] = r
      BY <1>1 DEF Range
    <3>2. PICK p \in DOMAIN sizes : \E i \in 1..sizes[p] : First(p) + i = k
      BY <1>2
    <3>3. PICK i \in 1..sizes[p] : First(p) + i = k
      BY <3>2
    <3>4. p \in DOMAIN pieces /\ i \in DOMAIN pieces[p].rows /\ pieces[p].rows[i] = r
      BY <1>5, <1>6, <3>1, <3>3
    <3>. QED  BY <3>4
  <2>3. ASSUME NEW p \in DOMAIN pieces, NEW q \in DOMAIN pieces,
               NEW i \in DOMAIN pieces[p].rows, NEW k \in DOMAIN pieces[q].rows,
               pieces[p].rows[i] = pieces[q].rows[k]
        PROVE  p = q /\ i = k
    <3>1. /\ p \in DOMAIN sizes /\ q \in DOMAIN sizes /\ i \in 1..sizes[p] /\ k \in 1..sizes[q]
          /\ First(p) + i \in DOMAIN rows /\ First(q) + k \in DOMAIN rows
          /\ rows[First(p) + i] = rows[First(q) + k]
      BY <1>1, <1>5, <1>6, <2>3
    <3>2. First(p) + i = First(q) + k
      BY <3>1 DEF Once
    <3>. QED  BY <1>2, <3>1, <3>2
  <2>. QED  BY <2>1, <2>2, <2>3 DEF LaidOut
<1>. QED  BY <1>5, <1>6, <1>7 DEF pieces

(* One tuple more in its chain.                                            *)
LEMMA UpdateChainFacts ==
  ASSUME NEW piece \in Pieces, NEW i \in DOMAIN piece.rows, Chained(piece, i - 1),
         Hash2Of(piece, i) \in 0..Hash2Range-1
  PROVE  LET updated == UpdateChain(piece, i)
         IN  /\ updated \in Pieces /\ updated.rows = piece.rows
             /\ Chained(updated, i)
<1>. DEFINE updated == UpdateChain(piece, i)
            h == Hash2Of(piece, i)
            len == Len(piece.rows)
<1>1. /\ piece.rows \in Seq(Nat) /\ piece.chain \in Seq(Nat) /\ Len(piece.chain) = len
      /\ piece.buckets \in [0..Hash2Range-1 -> Nat]
      /\ len \in Nat /\ i \in 1..len /\ DOMAIN piece.chain = 1..len
      /\ piece = [rows |-> piece.rows, buckets |-> piece.buckets, chain |-> piece.chain]
  BY DEF Pieces
<1>2. updated = [rows    |-> piece.rows,
                 buckets |-> [piece.buckets EXCEPT ![h] = i],
                 chain   |-> [piece.chain EXCEPT ![i] = piece.buckets[h]]]
  <2>1. /\ updated = [piece EXCEPT !.chain[i] = piece.buckets[h], !.buckets[h] = i]
        /\ piece \in [rows : Seq(Nat), buckets : [0..Hash2Range-1 -> Nat], chain : Seq(Nat)]
    BY DEF UpdateChain, Hash2Of, Pieces
  <2>. HIDE DEF updated, h
  <2>. QED  BY <2>1
<1>. HIDE DEF updated, h, len
<1>3. /\ updated.rows = piece.rows
      /\ updated.buckets = [piece.buckets EXCEPT ![h] = i]
      /\ updated.chain = [piece.chain EXCEPT ![i] = piece.buckets[h]]
  BY <1>2
<1>4. h \in 0..Hash2Range-1 /\ piece.buckets[h] \in Nat
  BY <1>1 DEF h
<1>5. updated \in Pieces
  <2>1. updated.chain \in Seq(Nat) /\ Len(updated.chain) = len
    BY <1>1, <1>3, <1>4
  <2>2. updated.buckets \in [0..Hash2Range-1 -> Nat]
    BY <1>1, <1>3, <1>4
  <2>3. updated \in [rows : Seq(Nat), buckets : [0..Hash2Range-1 -> Nat], chain : Seq(Nat)]
    BY <1>1, <1>2, <1>3, <2>1, <2>2
  <2>. QED  BY <1>1, <1>3, <2>1, <2>3 DEF Pieces, len
<1>6. \A k : Hash2Of(updated, k) = Hash2Of(piece, k)
  BY <1>3 DEF Hash2Of
<1>7. Chained(updated, i)
  <2>1. ASSUME NEW g \in 0..Hash2Range-1
        PROVE  IsLast(updated, g, i, updated.buckets[g])
    <3>1. IsLast(piece, g, i - 1, piece.buckets[g])
      BY DEF Chained
    <3>2. CASE g = h
      <4>1. updated.buckets[g] = i
        BY <1>1, <1>3, <1>4, <3>2
      <4>. QED  BY <1>1, <1>6, <3>2, <4>1 DEF IsLast, h
    <3>3. CASE g # h
      <4>1. updated.buckets[g] = piece.buckets[g]
        BY <1>1, <1>3, <1>4, <3>3
      <4>. QED  BY <1>1, <1>6, <3>1, <3>3, <4>1 DEF IsLast, h
    <3>. QED  BY <3>2, <3>3
  <2>2. ASSUME NEW k \in 1..i
        PROVE  IsLast(updated, Hash2Of(updated, k), k - 1, updated.chain[k])
    <3>1. CASE k = i
      <4>1. IsLast(piece, h, i - 1, piece.buckets[h])
        BY <1>4 DEF Chained
      <4>2. updated.chain[k] = piece.buckets[h]
        BY <1>1, <1>3, <3>1
      <4>. QED  BY <1>6, <3>1, <4>1, <4>2 DEF IsLast, h
    <3>2. CASE k # i
      <4>1. IsLast(piece, Hash2Of(piece, k), k - 1, piece.chain[k])
        BY <1>1, <3>2 DEF Chained
      <4>2. updated.chain[k] = piece.chain[k]
        BY <1>1, <1>3, <3>2
      <4>. QED  BY <1>6, <4>1, <4>2 DEF IsLast
    <3>. QED  BY <3>1, <3>2
  <2>3. ASSUME NEW k \in i+1..Len(updated.rows)
        PROVE  updated.chain[k] = 0
    <3>1. k \in i+1..len /\ k \in 1..len /\ k # i /\ k \in (i - 1) + 1..Len(piece.rows)
      BY <1>1, <1>3 DEF len
    <3>2. piece.chain[k] = 0
      BY <3>1 DEF Chained
    <3>. QED  BY <1>1, <1>3, <3>1, <3>2
  <2>. QED  BY <2>1, <2>2, <2>3 DEF Chained
<1>. QED  BY <1>3, <1>5, <1>7 DEF updated

-----------------------------------------------------------------------------
(* Result lists                                                            *)

LEMMA AllOfType ==
  ASSUME NEW l \in Lists
  PROVE  /\ l.nodes \in Seq(Seq(Pairs)) /\ l.buff \in Seq(Pairs) /\ l.total \in Nat
         /\ l = [nodes |-> l.nodes, buff |-> l.buff, total |-> l.total]
         /\ FlattenSeq(l.nodes) \in Seq(Pairs)
         /\ AllOf(l) \in Seq(Pairs)
<1>1. /\ l.nodes \in Seq(Seq(Pairs)) /\ l.buff \in Seq(Pairs) /\ l.total \in Nat
      /\ l = [nodes |-> l.nodes, buff |-> l.buff, total |-> l.total]
  BY DEF Lists
<1>2. FlattenSeq(l.nodes) \in Seq(Pairs)
  BY <1>1, FlattenSeqType
<1>3. AllOf(l) \in Seq(Pairs)
  BY <1>1, <1>2, ConcatProperties DEF AllOf
<1>. QED  BY <1>1, <1>2, <1>3

(* The buffer becomes a node.                                              *)
LEMMA NodesAppend ==
  ASSUME NEW S, NEW nodes \in Seq(Seq(S)), NEW buff \in Seq(S), NEW sizes,
         Len(buff) \in sizes, \A n \in DOMAIN nodes : Len(nodes[n]) \in sizes
  PROVE  \A n \in DOMAIN Append(nodes, buff) : Len(Append(nodes, buff)[n]) \in sizes
<1>1. \A n \in DOMAIN Append(nodes, buff) :
        \/ n \in DOMAIN nodes /\ Append(nodes, buff)[n] = nodes[n]
        \/ Append(nodes, buff)[n] = buff
  OBVIOUS
<1>. QED  BY <1>1, Zenon

(* A pushed pair is one more of the list.                                  *)
LEMMA PushResultFacts ==
  ASSUME NEW l, Sound(l), NEW m \in Pairs, m \notin Range(AllOf(l))
  PROVE  /\ Sound(PushResult(l, m))
         /\ Range(AllOf(PushResult(l, m))) = Range(AllOf(l)) \cup {m}
<1>. DEFINE pushed == PushResult(l, m)
            flat == FlattenSeq(l.nodes)
<1>1. /\ l.nodes \in Seq(Seq(Pairs)) /\ l.buff \in Seq(Pairs) /\ l.total \in Nat
      /\ flat \in Seq(Pairs) /\ AllOf(l) \in Seq(Pairs) /\ AllOf(l) = flat \o l.buff
      /\ l = [nodes |-> l.nodes, buff |-> l.buff, total |-> l.total]
      /\ Len(l.buff) <= MaxTuples /\ l.total = Len(AllOf(l)) /\ Once(AllOf(l))
      /\ \A n \in DOMAIN l.nodes : Len(l.nodes[n]) \in 1..MaxTuples
  BY AllOfType DEF Sound, AllOf
<1>2. MaxTuples \in Nat \ {0}
  BY SizesAssumption
<1>. HIDE DEF flat
<1>3. /\ pushed \in Lists /\ Len(pushed.buff) <= MaxTuples
      /\ pushed.total = l.total + 1
      /\ \A n \in DOMAIN pushed.nodes : Len(pushed.nodes[n]) \in 1..MaxTuples
      /\ AllOf(pushed) = Append(AllOf(l), m)
  <2>1. CASE Len(l.buff) # MaxTuples
    <3>1. pushed = [nodes |-> l.nodes, buff |-> Append(l.buff, m), total |-> l.total + 1]
      <4>1. pushed = [l EXCEPT !.buff = Append(@, m), !.total = @ + 1]
        BY <2>1 DEF PushResult
      <4>. HIDE DEF pushed
      <4>. QED  BY <1>1, <4>1
    <3>. HIDE DEF pushed
    <3>2. Append(l.buff, m) \in Seq(Pairs) /\ Len(Append(l.buff, m)) = Len(l.buff) + 1
      BY <1>1
    <3>3. flat \o Append(l.buff, m) = Append(flat \o l.buff, m)
      <4>1. <<m>> \in Seq(Pairs) /\ Append(l.buff, m) = l.buff \o <<m>>
        BY <1>1, AppendIsConcat
      <4>2. Append(flat \o l.buff, m) = (flat \o l.buff) \o <<m>>
        BY <1>1, AppendIsConcat
      <4>. QED  BY <1>1, <4>1, <4>2, ConcatAssociative
    <3>4. AllOf(pushed) = Append(AllOf(l), m)
      BY <1>1, <3>1, <3>3 DEF AllOf, flat
    <3>5. pushed \in Lists
      BY <1>1, <3>1, <3>2 DEF Lists
    <3>6. Len(pushed.buff) <= MaxTuples
      BY <1>1, <1>2, <2>1, <3>1, <3>2
    <3>7. pushed.total = l.total + 1 /\ pushed.nodes = l.nodes
      BY <3>1
    <3>. QED  BY <1>1, <3>4, <3>5, <3>6, <3>7, Zenon
  <2>2. CASE Len(l.buff) = MaxTuples
    <3>1. pushed = [nodes |-> Append(l.nodes, l.buff), buff |-> <<m>>, total |-> l.total + 1]
      BY <2>2 DEF PushResult
    <3>. HIDE DEF pushed
    <3>2. Append(l.nodes, l.buff) \in Seq(Seq(Pairs)) /\ <<m>> \in Seq(Pairs) /\ Len(<<m>>) = 1
      BY <1>1
    <3>3. \A n \in DOMAIN Append(l.nodes, l.buff) :
            Len(Append(l.nodes, l.buff)[n]) \in 1..MaxTuples
      <4>1. Len(l.buff) \in 1..MaxTuples
        BY <1>2, <2>2
      <4>. QED  BY <1>1, <4>1, NodesAppend
    <3>4. AllOf(pushed) = Append(AllOf(l), m)
      <4>1. FlattenSeq(Append(l.nodes, l.buff)) = AllOf(l)
        BY <1>1, FlattenSeqAppend DEF flat
      <4>2. Append(AllOf(l), m) = AllOf(l) \o <<m>>
        BY <1>1, AppendIsConcat
      <4>. QED  BY <3>1, <4>1, <4>2 DEF AllOf
    <3>5. pushed \in Lists
      BY <1>1, <3>1, <3>2 DEF Lists
    <3>6. Len(pushed.buff) <= MaxTuples
      BY <1>2, <3>1, <3>2
    <3>7. pushed.total = l.total + 1 /\ pushed.nodes = Append(l.nodes, l.buff)
      BY <3>1
    <3>. QED  BY <3>3, <3>4, <3>5, <3>6, <3>7, Zenon
  <2>. QED  BY <2>1, <2>2
<1>. HIDE DEF pushed
<1>4. Range(Append(AllOf(l), m)) = Range(AllOf(l)) \cup {m} /\ Once(Append(AllOf(l), m))
  <2>. DEFINE all == AllOf(l)
  <2>1. all \in Seq(Pairs) /\ Once(all) /\ m \notin Range(all)
    BY <1>1
  <2>. HIDE DEF all
  <2>2. Range(Append(all, m)) = Range(all) \cup {m} /\ Once(Append(all, m))
    BY <2>1, OnceAppend
  <2>. QED  BY <2>2 DEF all
<1>5. pushed.total = Len(AllOf(pushed))
  BY <1>1, <1>3
<1>6. Sound(pushed) /\ Range(AllOf(pushed)) = Range(AllOf(l)) \cup {m}
  BY <1>3, <1>4, <1>5 DEF Sound
<1>. QED  BY <1>6 DEF pushed

(* A cleaned list holds what it held, all of it in its nodes.              *)
LEMMA CleanListHeadFacts ==
  ASSUME NEW l, Sound(l)
  PROVE  /\ Sound(CleanListHead(l)) /\ CleanListHead(l).buff = <<>>
         /\ AllOf(CleanListHead(l)) = AllOf(l)
<1>. DEFINE clean == CleanListHead(l)
<1>1. /\ l \in Lists /\ l.nodes \in Seq(Seq(Pairs)) /\ l.buff \in Seq(Pairs) /\ l.total \in Nat
      /\ FlattenSeq(l.nodes) \in Seq(Pairs) /\ AllOf(l) \in Seq(Pairs)
      /\ AllOf(l) = FlattenSeq(l.nodes) \o l.buff
      /\ l = [nodes |-> l.nodes, buff |-> l.buff, total |-> l.total]
      /\ Len(l.buff) <= MaxTuples /\ l.total = Len(AllOf(l)) /\ Once(AllOf(l))
      /\ \A n \in DOMAIN l.nodes : Len(l.nodes[n]) \in 1..MaxTuples
  BY AllOfType DEF Sound, AllOf
<1>2. MaxTuples \in Nat \ {0}
  BY SizesAssumption
<1>3. CASE l.buff = <<>>
  BY <1>3 DEF CleanListHead
<1>4. CASE l.buff # <<>>
  <2>1. clean = [nodes |-> Append(l.nodes, l.buff), buff |-> <<>>, total |-> l.total]
    <3>1. clean = [l EXCEPT !.nodes = Append(@, l.buff), !.buff = <<>>]
      BY <1>4 DEF CleanListHead
    <3>. HIDE DEF clean
    <3>. QED  BY <1>1, <3>1
  <2>. HIDE DEF clean
  <2>2. Append(l.nodes, l.buff) \in Seq(Seq(Pairs)) /\ Len(l.buff) \in 1..MaxTuples
    BY <1>1, <1>2, <1>4
  <2>3. \A n \in DOMAIN Append(l.nodes, l.buff) :
          Len(Append(l.nodes, l.buff)[n]) \in 1..MaxTuples
    BY <1>1, <2>2, NodesAppend
  <2>4. AllOf(clean) = AllOf(l)
    <3>1. FlattenSeq(Append(l.nodes, l.buff)) = AllOf(l)
      BY <1>1, FlattenSeqAppend
    <3>2. AllOf(l) \o <<>> = AllOf(l)
      BY <1>1, ConcatEmptySeq
    <3>. QED  BY <2>1, <3>1, <3>2 DEF AllOf
  <2>5. clean \in Lists /\ Len(clean.buff) <= MaxTuples
    <3>1. <<>> \in Seq(Pairs) /\ Len(<<>>) = 0
      OBVIOUS
    <3>. QED  BY <1>1, <1>2, <2>1, <2>2, <3>1 DEF Lists
  <2>6. Sound(clean) /\ clean.buff = <<>>
    BY <1>1, <2>1, <2>3, <2>4, <2>5 DEF Sound
  <2>. QED  BY <2>4, <2>6 DEF clean
<1>. QED  BY <1>3, <1>4

(* A list behind another holds what both held.                             *)
Behind(final, joined) == [nodes |-> final.nodes \o joined.nodes, buff |-> <<>>,
                          total |-> final.total + joined.total]

LEMMA ElementsOfConcat ==
  ASSUME NEW S, NEW s \in Seq(S), NEW t \in Seq(S), NEW u, u = s \o t
  PROVE  \A n \in DOMAIN u : \/ n \in DOMAIN s /\ u[n] = s[n]
                             \/ n - Len(s) \in DOMAIN t /\ u[n] = t[n - Len(s)]
OBVIOUS

LEMMA BehindFacts ==
  ASSUME NEW final, NEW joined, Sound(final), Sound(joined),
         final.buff = <<>>, joined.buff = <<>>,
         Range(AllOf(final)) \cap Range(AllOf(joined)) = {}
  PROVE  LET both == Behind(final, joined)
         IN  /\ Sound(both)
             /\ Range(AllOf(both)) = Range(AllOf(final)) \cup Range(AllOf(joined))
<1>. DEFINE both == Behind(final, joined)
            ff == FlattenSeq(final.nodes)
            jj == FlattenSeq(joined.nodes)
<1>1. /\ final \in Lists /\ final.nodes \in Seq(Seq(Pairs)) /\ final.total \in Nat
      /\ ff \in Seq(Pairs)
      /\ \A n \in DOMAIN final.nodes : Len(final.nodes[n]) \in 1..MaxTuples
      /\ final.total = Len(AllOf(final)) /\ Once(AllOf(final))
  BY AllOfType DEF Sound
<1>2. /\ joined \in Lists /\ joined.nodes \in Seq(Seq(Pairs)) /\ joined.total \in Nat
      /\ jj \in Seq(Pairs)
      /\ \A n \in DOMAIN joined.nodes : Len(joined.nodes[n]) \in 1..MaxTuples
      /\ joined.total = Len(AllOf(joined)) /\ Once(AllOf(joined))
  BY AllOfType DEF Sound
<1>3. AllOf(final) = ff /\ AllOf(joined) = jj
  BY <1>1, <1>2, ConcatEmptySeq DEF AllOf
<1>4. both = [nodes |-> final.nodes \o joined.nodes, buff |-> <<>>,
              total |-> final.total + joined.total]
  BY DEF Behind
<1>. HIDE DEF ff, jj, both
<1>5. both.nodes \in Seq(Seq(Pairs)) /\ both \in Lists
  <2>1. final.nodes \o joined.nodes \in Seq(Seq(Pairs))
    BY <1>1, <1>2, ConcatProperties
  <2>2. <<>> \in Seq(Pairs)
    OBVIOUS
  <2>. QED  BY <1>1, <1>2, <1>4, <2>1, <2>2 DEF Lists
<1>6. \A n \in DOMAIN both.nodes : Len(both.nodes[n]) \in 1..MaxTuples
  <2>1. both.nodes = final.nodes \o joined.nodes
    BY <1>4
  <2>. DEFINE f == final.nodes
              j == joined.nodes
              u == both.nodes
              S == Seq(Pairs)
  <2>2. /\ f \in Seq(S) /\ j \in Seq(S) /\ u = f \o j
        /\ \A n \in DOMAIN f : Len(f[n]) \in 1..MaxTuples
        /\ \A n \in DOMAIN j : Len(j[n]) \in 1..MaxTuples
    BY <1>1, <1>2, <2>1
  <2>. HIDE DEF f, j, u, S
  <2>3. \A n \in DOMAIN u : \/ n \in DOMAIN f /\ u[n] = f[n]
                            \/ n - Len(f) \in DOMAIN j /\ u[n] = j[n - Len(f)]
    BY <2>2, ElementsOfConcat
  <2>4. \A n \in DOMAIN u : Len(u[n]) \in 1..MaxTuples
    BY <2>2, <2>3
  <2>. QED  BY <2>4 DEF u
<1>7. AllOf(both) = ff \o jj
  <2>1. FlattenSeq(final.nodes \o joined.nodes) = ff \o jj
    BY <1>1, <1>2, FlattenSeqConcat DEF ff, jj
  <2>2. (ff \o jj) \o <<>> = ff \o jj
    BY <1>1, <1>2, ConcatProperties, ConcatEmptySeq
  <2>. QED  BY <1>4, <2>1, <2>2 DEF AllOf
<1>8. Range(ff \o jj) = Range(ff) \cup Range(jj) /\ Once(ff \o jj)
  <2>1. Once(ff \o jj)
    BY <1>1, <1>2, <1>3, OnceConcat
  <2>. QED  BY <1>1, <1>2, <2>1, RangeConcatenation
<1>9. Len(ff \o jj) = Len(ff) + Len(jj)
  BY <1>1, <1>2, ConcatProperties
<1>10. both.total = Len(AllOf(both)) /\ Len(both.buff) <= MaxTuples
  BY <1>1, <1>2, <1>3, <1>4, <1>7, <1>9, SizesAssumption
<1>11. Sound(both)
  BY <1>5, <1>6, <1>7, <1>8, <1>10 DEF Sound
<1>. QED  BY <1>3, <1>7, <1>8, <1>11 DEF both

(* One list more along a walk.                                             *)
LEMMA NodesAppended ==
  ASSUME NEW walk \in Seq(Buckets), NEW b \in Buckets, list \in [Buckets -> Lists]
  PROVE  /\ NodesOf(walk) \in Seq(Seq(Pairs))
         /\ NodesOf(Append(walk, b)) = NodesOf(walk) \o list[b].nodes
<1>. DEFINE ss == [i \in 1..Len(walk) |-> list[walk[i]].nodes]
            tt == [i \in 1..Len(Append(walk, b)) |-> list[Append(walk, b)[i]].nodes]
            S == Seq(Pairs)
<1>1. \A c \in Buckets : list[c].nodes \in Seq(S)
  BY AllOfType
<1>2. Len(walk) \in Nat /\ \A i \in 1..Len(walk) : walk[i] \in Buckets
  OBVIOUS
<1>3. ss \in Seq(Seq(S))
  BY <1>1, <1>2
<1>4. tt = Append(ss, list[b].nodes)
  BY <1>2
<1>5. NodesOf(walk) = FlattenSeq(ss) /\ NodesOf(Append(walk, b)) = FlattenSeq(tt)
  BY DEF NodesOf
<1>. HIDE DEF ss, tt, S
<1>6. FlattenSeq(Append(ss, list[b].nodes)) = FlattenSeq(ss) \o list[b].nodes
  BY <1>1, <1>3, FlattenSeqAppend
<1>7. FlattenSeq(ss) \in Seq(S)
  BY <1>3, FlattenSeqType
<1>. QED  BY <1>4, <1>5, <1>6, <1>7 DEF S

-----------------------------------------------------------------------------
(* The relations do not change                                             *)

LEMMA DataKept ==
  ASSUME UNCHANGED <<rKey, sKey, hash2>>
  PROVE  /\ \A b : RSet(b)' = RSet(b) /\ SSet(b)' = SSet(b)
         /\ \A b : RRows(b)' = RRows(b) /\ SRows(b)' = SRows(b)
         /\ Probed' = Probed /\ Pairs' = Pairs /\ Lists' = Lists
         /\ \A l : Sound(l)' <=> Sound(l)
         /\ \A m : Equal(m)' <=> Equal(m)
         /\ \A b : Matches(b)' = Matches(b)
         /\ \A piece, i : Hash2Of(piece, i)' = Hash2Of(piece, i)
         /\ \A piece, n : Chained(piece, n)' <=> Chained(piece, n)
<1>1. \A b : RSet(b)' = RSet(b) /\ SSet(b)' = SSet(b)
  BY DEF RSet, SSet
<1>2. \A b : RRows(b)' = RRows(b) /\ SRows(b)' = SRows(b)
  BY DEF RRows, SRows
<1>3. Probed' = Probed /\ Pairs' = Pairs /\ Lists' = Lists
  BY <1>2 DEF Probed, Pairs, Lists
<1>4. \A l : Sound(l)' <=> Sound(l)
  BY <1>3 DEF Sound
<1>5. \A m : Equal(m)' <=> Equal(m)
  BY DEF Equal
<1>6. \A b : Matches(b)' = Matches(b)
  BY <1>1 DEF Matches, Equal
<1>7. \A piece, i : Hash2Of(piece, i)' = Hash2Of(piece, i)
  BY DEF Hash2Of
<1>8. \A piece, n : Chained(piece, n)' <=> Chained(piece, n)
  BY DEF Chained, IsLast, Hash2Of
<1>. QED  BY <1>1, <1>2, <1>3, <1>4, <1>5, <1>6, <1>7, <1>8

LEMMA FoundKept ==
  ASSUME UNCHANGED <<rKey, sKey, index>>, NEW b, NEW x
  PROVE  FoundAt(b, x)' = FoundAt(b, x)
<1>1. Matches(b)' = Matches(b) /\ SRows(b)' = SRows(b)
  BY DEF Matches, Equal, RSet, SSet, SRows
<1>. QED  BY <1>1 DEF FoundAt, Passed

(* The rows of a bucket, and their hashes.                                 *)
LEMMA RowFacts ==
  ASSUME BaseInv, NEW b
  PROVE  /\ RRows(b) \in Seq(RSet(b)) /\ Once(RRows(b)) /\ Range(RRows(b)) = RSet(b)
         /\ SRows(b) \in Seq(SSet(b)) /\ Once(SRows(b)) /\ Range(SRows(b)) = SSet(b)
         /\ RSet(b) \subseteq DOMAIN rKey /\ RSet(b) \subseteq Nat
         /\ SSet(b) \subseteq DOMAIN sKey /\ SSet(b) \subseteq Nat
         /\ b \in Buckets => (b \in Probed <=> SSet(b) # {})
         /\ RRows(b) = <<>> => RSet(b) = {}
<1>1. rKey \in Seq(Nat) /\ sKey \in Seq(Nat)
  BY DEF BaseInv
<1>2. RRows(b) \in Seq(RSet(b)) /\ Once(RRows(b)) /\ Range(RRows(b)) = RSet(b)
  BY <1>1, RowsOfFacts DEF RRows, RSet
<1>3. SRows(b) \in Seq(SSet(b)) /\ Once(SRows(b)) /\ Range(SRows(b)) = SSet(b)
  BY <1>1, RowsOfFacts DEF SRows, SSet
<1>4. /\ RSet(b) \subseteq DOMAIN rKey /\ RSet(b) \subseteq Nat
      /\ SSet(b) \subseteq DOMAIN sKey /\ SSet(b) \subseteq Nat
  BY <1>1 DEF RSet, SSet
<1>5. SRows(b) = <<>> <=> SSet(b) = {}
  BY <1>3 DEF Range
<1>6. RRows(b) = <<>> => RSet(b) = {}
  BY <1>2 DEF Range
<1>. QED  BY <1>2, <1>3, <1>4, <1>5, <1>6 DEF Probed

LEMMA HashFacts ==
  ASSUME BaseInv
  PROVE  /\ \A r \in DOMAIN rKey : /\ rKey[r] \in Nat /\ H1(rKey[r]) \in Buckets
                                   /\ hash2[rKey[r]] \in 0..Hash2Range-1
         /\ \A s \in DOMAIN sKey : /\ sKey[s] \in Nat /\ H1(sKey[s]) \in Buckets
                                   /\ hash2[sKey[s]] \in 0..Hash2Range-1
<1>1. /\ rKey \in Seq(Nat) /\ sKey \in Seq(Nat)
      /\ hash2 \in [Keys -> 0..Hash2Range-1]
  BY DEF BaseInv
<1>2. \A k \in Nat : H1(k) \in Buckets
  BY SizesAssumption DEF H1, Buckets
<1>3. /\ \A r \in DOMAIN rKey : rKey[r] \in Keys
      /\ \A s \in DOMAIN sKey : sKey[s] \in Keys
  BY DEF Keys, Range
<1>. QED  BY <1>1, <1>2, <1>3

(* A piece that is laid out has rows of its bucket.                        *)
LEMMA PieceFacts ==
  ASSUME BaseInv, IndexInv, NEW b \in Buckets, NEW p \in DOMAIN index[b]
  PROVE  /\ index[b] \in Seq(Pieces) /\ index[b][p] \in Pieces
         /\ LaidOut(index[b], RSet(b))
         /\ Len(index[b][p].rows) \in 1..Cap
         /\ DOMAIN index[b][p].rows = 1..Len(index[b][p].rows)
         /\ \A i \in DOMAIN index[b][p].rows :
              /\ index[b][p].rows[i] \in RSet(b)
              /\ Hash2Of(index[b][p], i) \in 0..Hash2Range-1
<1>1. index[b] \in Seq(Pieces) /\ index[b] # <<>> /\ LaidOut(index[b], RSet(b))
  BY DEF IndexInv
<1>2. index[b][p] \in Pieces
  BY <1>1
<1>3. \A i \in DOMAIN index[b][p].rows : index[b][p].rows[i] \in RSet(b)
  BY <1>1 DEF LaidOut
<1>4. RSet(b) \subseteq DOMAIN rKey
  BY RowFacts
<1>5. \A i \in DOMAIN index[b][p].rows : Hash2Of(index[b][p], i) \in 0..Hash2Range-1
  BY <1>3, <1>4, HashFacts DEF Hash2Of
<1>6. /\ Len(index[b][p].rows) \in 1..Cap
      /\ DOMAIN index[b][p].rows = 1..Len(index[b][p].rows)
  BY <1>2 DEF Pieces
<1>. QED  BY <1>1, <1>2, <1>3, <1>5, <1>6

-----------------------------------------------------------------------------
(* What one step of a probe passes                                         *)

(* The probe after the chain at hand has been followed down to rest.       *)
After(b, rest) == IF rest = 0 THEN NextProbe(b) ELSE [probe[b] EXCEPT !.ptr = rest]

(* What the step from the probe to After(b, rest) compares.                *)
Between(b, rest) ==
  {m \in Matches(b) :
     \E i \in DOMAIN ProbePiece(b).rows :
       /\ i > rest /\ (probe[b].ptr # 0 => i <= probe[b].ptr)
       /\ m = <<ProbePiece(b).rows[i], ProbeRow(b)>>}

LEMMA PassedStep ==
  ASSUME NEW b, NEW rest \in Nat,
         probe[b] \in [piece : Nat \ {0}, tuple : Nat \ {0}, ptr : Nat],
         Len(SRows(b)) \in Nat, probe[b].tuple <= Len(SRows(b)),
         probe[b].ptr # 0 => rest < probe[b].ptr,
         NEW p \in Nat, NEW t \in 1..Len(SRows(b)), NEW i \in Nat \ {0}
  PROVE  Passed(After(b, rest), p, t, i) <=>
           \/ Passed(probe[b], p, t, i)
           \/ /\ p = probe[b].piece /\ t = probe[b].tuple
              /\ i > rest /\ (probe[b].ptr # 0 => i <= probe[b].ptr)
<1>. DEFINE x == probe[b]
            n == Len(SRows(b))
<1>1. /\ x.piece \in Nat /\ x.tuple \in Nat /\ x.ptr \in Nat /\ x.tuple <= n /\ n \in Nat
      /\ t <= n /\ t \in Nat
      /\ x = [piece |-> x.piece, tuple |-> x.tuple, ptr |-> x.ptr]
  OBVIOUS
<1>2. CASE rest # 0
  <2>1. After(b, rest) = [piece |-> x.piece, tuple |-> x.tuple, ptr |-> rest]
    <3>1. After(b, rest) = [x EXCEPT !.ptr = rest]
      BY <1>2 DEF After
    <3>. HIDE DEF x
    <3>. QED  BY <1>1, <3>1
  <2>. QED  BY <1>1, <1>2, <2>1 DEF Passed
<1>3. CASE rest = 0 /\ x.tuple < n
  <2>1. After(b, rest) = [piece |-> x.piece, tuple |-> x.tuple + 1, ptr |-> 0]
    <3>1. After(b, rest) = [x EXCEPT !.tuple = @ + 1, !.ptr = 0]
      BY <1>3 DEF After, NextProbe
    <3>. HIDE DEF x
    <3>. QED  BY <1>1, <3>1
  <2>. QED  BY <1>1, <1>3, <2>1 DEF Passed
<1>4. CASE rest = 0 /\ ~(x.tuple < n)
  <2>1. After(b, rest) = [piece |-> x.piece + 1, tuple |-> 1, ptr |-> 0]
    BY <1>4 DEF After, NextProbe
  <2>. QED  BY <1>1, <1>4, <2>1 DEF Passed
<1>. QED  BY <1>2, <1>3, <1>4

(* A job that still has a piece to search.                                 *)
Searching(b) ==
  /\ BaseInv /\ IndexInv /\ b \in Buckets /\ job[b] = "run" /\ pc # "index"
  /\ probe[b] \in [piece : Nat \ {0}, tuple : Nat \ {0}, ptr : Nat]
  /\ InPiece(b)

LEMMA SearchingFacts ==
  ASSUME NEW b, Searching(b)
  PROVE  /\ ProbePiece(b) \in Pieces
         /\ Len(ProbePiece(b).rows) \in Nat
         /\ DOMAIN ProbePiece(b).rows = 1..Len(ProbePiece(b).rows)
         /\ \A i \in DOMAIN ProbePiece(b).rows : ProbePiece(b).rows[i] \in RSet(b)
         /\ Chained(ProbePiece(b), Len(ProbePiece(b).rows))
         /\ ProbeRow(b) \in SSet(b)
         /\ Len(SRows(b)) \in Nat /\ DOMAIN SRows(b) = 1..Len(SRows(b))
         /\ Len(index[b]) \in Nat /\ DOMAIN index[b] = 1..Len(index[b])
         /\ hash2[sKey[ProbeRow(b)]] \in 0..Hash2Range-1
<1>. BaseInv /\ IndexInv /\ b \in Buckets /\ probe[b].piece \in DOMAIN index[b]
  BY DEF Searching, InPiece
<1>1. /\ index[b] \in Seq(Pieces)
      /\ ProbePiece(b) \in Pieces
      /\ DOMAIN ProbePiece(b).rows = 1..Len(ProbePiece(b).rows)
      /\ Len(ProbePiece(b).rows) \in 1..Cap
      /\ \A i \in DOMAIN ProbePiece(b).rows : ProbePiece(b).rows[i] \in RSet(b)
  BY PieceFacts, Zenon DEF ProbePiece
<1>2. Len(ProbePiece(b).rows) \in Nat
  BY <1>1, SizesAssumption
<1>3. Chained(ProbePiece(b), Len(ProbePiece(b).rows))
  BY Zenon DEF IndexInv, Built, ProbePiece, Searching, InPiece
<1>4. SRows(b) \in Seq(SSet(b)) /\ SSet(b) \subseteq DOMAIN sKey
  BY RowFacts
<1>5. ProbeRow(b) \in SSet(b)
  BY <1>4 DEF ProbeRow, Searching, InPiece
<1>6. hash2[sKey[ProbeRow(b)]] \in 0..Hash2Range-1
  BY <1>4, <1>5, HashFacts
<1>. QED  BY <1>1, <1>2, <1>3, <1>4, <1>5, <1>6

LEMMA FoundStep ==
  ASSUME NEW b, Searching(b), NEW rest \in Nat,
         probe[b].ptr # 0 => rest < probe[b].ptr
  PROVE  FoundAt(b, After(b, rest)) = Found(b) \cup Between(b, rest)
<1>. DEFINE x == probe[b]
            y == After(b, rest)
            len == Len(SRows(b))
<1>1. /\ x \in [piece : Nat \ {0}, tuple : Nat \ {0}, ptr : Nat]
      /\ x.piece \in DOMAIN index[b] /\ x.tuple \in DOMAIN SRows(b)
      /\ len \in Nat /\ DOMAIN SRows(b) = 1..len /\ x.tuple <= len
      /\ DOMAIN index[b] = 1..Len(index[b])
      /\ ProbePiece(b) = index[b][x.piece] /\ ProbeRow(b) = SRows(b)[x.tuple]
  <2>1. /\ x \in [piece : Nat \ {0}, tuple : Nat \ {0}, ptr : Nat]
        /\ x.piece \in DOMAIN index[b] /\ x.tuple \in DOMAIN SRows(b)
        /\ ProbePiece(b) = index[b][x.piece] /\ ProbeRow(b) = SRows(b)[x.tuple]
    BY DEF Searching, InPiece, ProbePiece, ProbeRow
  <2>2. /\ len \in Nat /\ DOMAIN SRows(b) = 1..len
        /\ DOMAIN index[b] = 1..Len(index[b])
    BY SearchingFacts
  <2>3. x.tuple <= len
    BY <2>1, <2>2
  <2>. QED  BY <2>1, <2>2, <2>3
<1>2. \A p \in DOMAIN index[b] : DOMAIN index[b][p].rows = 1..Len(index[b][p].rows)
  BY PieceFacts DEF Searching, InPiece
<1>3. \A p \in DOMAIN index[b] : \A t \in DOMAIN SRows(b) : \A i \in DOMAIN index[b][p].rows :
        Passed(y, p, t, i) <=>
          \/ Passed(x, p, t, i)
          \/ p = x.piece /\ t = x.tuple /\ i > rest /\ (x.ptr # 0 => i <= x.ptr)
  <2>. TAKE p \in DOMAIN index[b]
  <2>. TAKE t \in DOMAIN SRows(b)
  <2>. TAKE i \in DOMAIN index[b][p].rows
  <2>2. p \in Nat /\ i \in Nat \ {0} /\ t \in 1..len
    BY <1>1, <1>2
  <2>. HIDE DEF x, y, len
  <2>3. Passed(After(b, rest), p, t, i) <=>
          \/ Passed(probe[b], p, t, i)
          \/ /\ p = probe[b].piece /\ t = probe[b].tuple
             /\ i > rest /\ (probe[b].ptr # 0 => i <= probe[b].ptr)
    BY <1>1, <2>2, PassedStep DEF x, len
  <2>. QED  BY <2>3 DEF x, y
<1>. HIDE DEF x, y
<1>4. Found(b) = FoundAt(b, x)
  BY DEF Found, x
<1>5. FoundAt(b, y) \subseteq FoundAt(b, x) \cup Between(b, rest)
  <2>1. ASSUME NEW m \in FoundAt(b, y), m \notin FoundAt(b, x)
        PROVE  m \in Between(b, rest)
    <3>1. PICK p \in DOMAIN index[b] : \E i \in DOMAIN index[b][p].rows, t \in DOMAIN SRows(b) :
            m = <<index[b][p].rows[i], SRows(b)[t]>> /\ Passed(y, p, t, i)
      BY DEF FoundAt
    <3>2. PICK i \in DOMAIN index[b][p].rows, t \in DOMAIN SRows(b) :
            m = <<index[b][p].rows[i], SRows(b)[t]>> /\ Passed(y, p, t, i)
      BY <3>1
    <3>3. m \in Matches(b)
      BY DEF FoundAt
    <3>4. ~Passed(x, p, t, i)
      BY <2>1, <3>2, <3>3 DEF FoundAt
    <3>5. p = x.piece /\ t = x.tuple /\ i > rest /\ (x.ptr # 0 => i <= x.ptr)
      BY <1>3, <3>2, <3>4
    <3>. QED  BY <1>1, <3>2, <3>3, <3>5 DEF Between, x
  <2>. QED  BY <2>1
<1>6. FoundAt(b, x) \subseteq FoundAt(b, y)
  BY <1>3 DEF FoundAt
<1>7. Between(b, rest) \subseteq FoundAt(b, y)
  <2>1. ASSUME NEW m \in Between(b, rest)
        PROVE  m \in FoundAt(b, y)
    <3>1. PICK i \in DOMAIN ProbePiece(b).rows :
            /\ i > rest /\ (x.ptr # 0 => i <= x.ptr)
            /\ m = <<ProbePiece(b).rows[i], ProbeRow(b)>>
      BY DEF Between, x
    <3>2. i \in DOMAIN index[b][x.piece].rows /\ Passed(y, x.piece, x.tuple, i)
      BY <1>1, <1>3, <3>1
    <3>3. m \in Matches(b) /\ m = <<index[b][x.piece].rows[i], SRows(b)[x.tuple]>>
      BY <1>1, <3>1 DEF Between
    <3>. QED  BY <1>1, <3>2, <3>3 DEF FoundAt
  <2>. QED  BY <2>1
<1>. QED  BY <1>4, <1>5, <1>6, <1>7 DEF y

(* What has another second hash does not match.                            *)
LEMMA NoMatch ==
  ASSUME NEW b, Searching(b), NEW i \in DOMAIN ProbePiece(b).rows,
         Hash2Of(ProbePiece(b), i) # hash2[sKey[ProbeRow(b)]]
  PROVE  <<ProbePiece(b).rows[i], ProbeRow(b)>> \notin Matches(b)
BY DEF Hash2Of, Matches, Equal

(* The head of the chain: nothing before it matches.                       *)
LEMMA HeadFacts ==
  ASSUME NEW b, Searching(b), probe[b].ptr = 0
  PROVE  LET head == ProbePiece(b).buckets[hash2[sKey[ProbeRow(b)]]]
         IN  /\ head \in 0..Len(ProbePiece(b).rows)
             /\ head # 0 => Hash2Of(ProbePiece(b), head) = hash2[sKey[ProbeRow(b)]]
             /\ Between(b, head) = {}
<1>. DEFINE h == hash2[sKey[ProbeRow(b)]]
            head == ProbePiece(b).buckets[h]
            n == Len(ProbePiece(b).rows)
<1>1. /\ Chained(ProbePiece(b), n) /\ h \in 0..Hash2Range-1 /\ n \in Nat
      /\ DOMAIN ProbePiece(b).rows = 1..n
  BY SearchingFacts
<1>2. IsLast(ProbePiece(b), h, n, head)
  BY <1>1 DEF Chained
<1>. HIDE DEF h, head, n
<1>3. \A i \in DOMAIN ProbePiece(b).rows : i > head => Hash2Of(ProbePiece(b), i) # h
  BY <1>1, <1>2 DEF IsLast
<1>4. Between(b, head) = {}
  BY <1>3, NoMatch DEF Between, h
<1>. QED  BY <1>2, <1>4 DEF IsLast, h, head, n

(* A link of the chain: only the tuple itself may match, and it was not    *)
(* found before.                                                           *)
LEMMA LinkFacts ==
  ASSUME NEW b, Searching(b), probe[b].ptr # 0
  PROVE  LET ptr  == probe[b].ptr
             link == ProbePiece(b).chain[ptr]
             m    == <<ProbePiece(b).rows[ptr], ProbeRow(b)>>
         IN  /\ link \in 0..ptr-1
             /\ link # 0 => Hash2Of(ProbePiece(b), link) = hash2[sKey[ProbeRow(b)]]
             /\ m \in Pairs /\ m \notin Found(b)
             /\ Between(b, link) = IF Equal(m) THEN {m} ELSE {}
<1>. DEFINE h == hash2[sKey[ProbeRow(b)]]
            ptr == probe[b].ptr
            piece == ProbePiece(b)
            link == piece.chain[ptr]
            n == Len(piece.rows)
            m == <<piece.rows[ptr], ProbeRow(b)>>
<1>1. /\ Chained(piece, n) /\ n \in Nat /\ DOMAIN piece.rows = 1..n
      /\ ptr \in 1..n /\ Hash2Of(piece, ptr) = h
      /\ piece.rows[ptr] \in RSet(b) /\ ProbeRow(b) \in SSet(b)
  BY SearchingFacts DEF Searching, InPiece
<1>2. IsLast(piece, h, ptr - 1, link)
  BY <1>1 DEF Chained
<1>3. m \in Pairs
  BY <1>1, RowFacts DEF Pairs, Searching, InPiece
<1>4. m \notin Found(b)
  <2>1. ASSUME m \in Found(b) PROVE FALSE
    <3>1. PICK p \in DOMAIN index[b] : \E i \in DOMAIN index[b][p].rows, t \in DOMAIN SRows(b) :
            m = <<index[b][p].rows[i], SRows(b)[t]>> /\ Passed(probe[b], p, t, i)
      BY <2>1 DEF Found, FoundAt
    <3>2. PICK i \in DOMAIN index[b][p].rows, t \in DOMAIN SRows(b) :
            m = <<index[b][p].rows[i], SRows(b)[t]>> /\ Passed(probe[b], p, t, i)
      BY <3>1
    <3>3. piece.rows[ptr] = index[b][p].rows[i] /\ ProbeRow(b) = SRows(b)[t]
      BY <3>2
    <3>4. p = probe[b].piece /\ i = ptr
      <4>1. LaidOut(index[b], RSet(b)) /\ probe[b].piece \in DOMAIN index[b]
        BY PieceFacts DEF Searching, InPiece
      <4>2. piece = index[b][probe[b].piece] /\ ptr \in DOMAIN piece.rows
        BY <1>1 DEF ProbePiece
      <4>. DEFINE at_ == probe[b].piece
      <4>. HIDE DEF piece, ptr, at_
      <4>3. /\ at_ \in DOMAIN index[b] /\ ptr \in DOMAIN index[b][at_].rows
            /\ index[b][at_].rows[ptr] = index[b][p].rows[i]
        BY <3>3, <4>1, <4>2 DEF at_
      <4>4. p = at_ /\ i = ptr
        BY <4>1, <4>3 DEF LaidOut
      <4>. QED  BY <4>4 DEF at_
    <3>5. t = probe[b].tuple
      <4>1. Once(SRows(b)) /\ probe[b].tuple \in DOMAIN SRows(b)
        BY RowFacts DEF Searching, InPiece
      <4>. QED  BY <3>3, <4>1, Zenon DEF Once, ProbeRow
    <3>6. probe[b].piece \in Nat /\ probe[b].tuple \in Nat /\ ptr \in Nat
      BY DEF Searching, InPiece
    <3>. HIDE DEF m, ptr
    <3>7. ~Passed(probe[b], probe[b].piece, probe[b].tuple, ptr)
      BY <3>6 DEF Passed, ptr
    <3>. QED  BY <3>2, <3>4, <3>5, <3>7
  <2>. QED  BY <2>1
<1>5. Between(b, link) = IF Equal(m) THEN {m} ELSE {}
  <2>1. link \in 0..ptr-1 /\ ptr \in Nat /\ ptr # 0
    BY <1>1, <1>2 DEF IsLast
  <2>2. \A i \in DOMAIN piece.rows : i > link /\ i <= ptr /\ i # ptr => Hash2Of(piece, i) # h
    BY <1>1, <1>2, <2>1 DEF IsLast
  <2>3. ASSUME NEW e \in Between(b, link)
        PROVE  e = m /\ Equal(m)
    <3>1. PICK i \in DOMAIN piece.rows : /\ i > link /\ i <= ptr
                                         /\ e = <<piece.rows[i], ProbeRow(b)>>
      BY DEF Between
    <3>2. e \in Matches(b) /\ Equal(e)
      BY DEF Between, Matches
    <3>3. i = ptr
      BY <2>2, <3>1, <3>2, NoMatch
    <3>. QED  BY <3>1, <3>2, <3>3
  <2>4. Equal(m) => m \in Between(b, link)
    <3>1. Equal(m) => m \in Matches(b)
      BY <1>1 DEF Matches
    <3>2. ptr \in DOMAIN piece.rows /\ ptr > link /\ ptr <= ptr
      BY <1>1, <2>1
    <3>. QED  BY <3>1, <3>2 DEF Between
  <2>. HIDE DEF m
  <2>. QED  BY <2>3, <2>4
<1>6. /\ link \in 0..ptr-1
      /\ link # 0 => Hash2Of(piece, link) = h
  BY <1>2 DEF IsLast
<1>. QED  BY <1>3, <1>4, <1>5, <1>6

-----------------------------------------------------------------------------
(* The invariant holds initially                                           *)

LEMMA EmptyListFacts ==
  /\ Sound(EmptyList) /\ EmptyList.buff = <<>>
  /\ AllOf(EmptyList) = <<>> /\ Range(AllOf(EmptyList)) = {}
<1>1. AllOf(EmptyList) = <<>>
  <2>1. AllOf(EmptyList) = FlattenSeq(<<>>) \o <<>>
    BY DEF AllOf, EmptyList
  <2>2. FlattenSeq(<<>>) = <<>>
    BY FlattenSeqEmpty, Zenon
  <2>. QED  BY <2>1, <2>2
<1>2. EmptyList \in Lists
  BY DEF Lists, EmptyList
<1>3. Once(<<>>) /\ Range(<<>>) = {} /\ Len(<<>>) = 0
  BY DEF Once, Range
<1>4. /\ EmptyList.buff = <<>> /\ EmptyList.total = 0 /\ EmptyList.nodes = <<>>
  BY DEF EmptyList
<1>5. Sound(EmptyList)
  BY <1>1, <1>2, <1>3, <1>4, SizesAssumption DEF Sound
<1>. QED  BY <1>1, <1>3, <1>4, <1>5

LEMMA NoResultType == NoResult \in Results
BY DEF NoResult, Results, Links

LEMMA InitInv == Init => Inv
<1>. SUFFICES ASSUME Init PROVE Inv
  OBVIOUS
<1>1. BaseInv
  BY KeysAssumption DEF Init, BaseInv
<1>2. HashRange \in Nat \ {0} /\ Buckets = 0..HashRange-1
  BY SizesAssumption DEF Buckets
<1>3. \A b \in Buckets : index[b] = <<>> /\ job[b] = "none" /\ list[b] = EmptyList
                         /\ probe[b] = [piece |-> 1, tuple |-> 1, ptr |-> 0]
  BY DEF Init
<1>4. pc = "index" /\ at = Start /\ at.bucket = 0 /\ at.piece = 1 /\ at.tuple = 1
  BY DEF Init, Start
<1>5. IndexInv
  <2>1. index \in [Buckets -> Seq(Pieces)]
    BY DEF Init
  <2>. QED  BY <1>2, <1>3, <1>4, <2>1 DEF IndexInv
<1>6. AtInv
  BY <1>2, <1>3, <1>4 DEF AtInv, Start
<1>7. JobInv
  BY <1>3, <1>4 DEF JobInv
<1>8. BarrierInv
  <2>1. Ended = {}
    BY <1>3 DEF Ended
  <2>2. Cardinality({}) = 0
    BY FS_EmptySet, Zenon
  <2>. QED  BY <1>4, <2>1, <2>2 DEF BarrierInv, Init
<1>9. ProbeInv
  BY <1>3 DEF ProbeInv, Init
<1>10. ListInv
  <2>1. list \in [Buckets -> Lists]
    <3>1. EmptyList \in Lists
      BY EmptyListFacts DEF Sound
    <3>. QED  BY <3>1 DEF Init
  <2>. QED  BY <1>3, <2>1, EmptyListFacts DEF ListInv
<1>11. ResultInv
  BY <1>4, NoResultType DEF ResultInv, Init
<1>. QED  BY <1>1, <1>5, <1>6, <1>7, <1>8, <1>9, <1>10, <1>11 DEF Inv

-----------------------------------------------------------------------------
(* What a step leaves alone                                                *)

LEMMA IndexKept ==
  ASSUME IndexInv, UNCHANGED <<rKey, sKey, hash2, index>>, pc # "index", pc' # "index"
  PROVE  IndexInv'
<1>1. \A b : RSet(b)' = RSet(b)
  BY DataKept
<1>2. \A b, p : Built(b, p) = Len(index[b][p].rows) /\ Built(b, p)' = Len(index[b][p].rows)
  BY DEF Built
<1>3. ASSUME NEW b \in Buckets
      PROVE  /\ index[b] # <<>> => LaidOut(index[b], RSet(b))
             /\ index[b] = <<>> => RSet(b) = {}
             /\ \A p \in DOMAIN index[b] :
                  Chained(index[b][p], Len(index[b][p].rows))
  BY <1>2 DEF IndexInv
<1>4. \A piece, n : Chained(piece, n)' <=> Chained(piece, n)
  BY DataKept
<1>5. index \in [Buckets -> Seq(Pieces)]
  BY DEF IndexInv
<1>. QED  BY <1>1, <1>2, <1>3, <1>4, <1>5 DEF IndexInv

LEMMA PlaceKept ==
  ASSUME UNCHANGED <<rKey, sKey, hash2, index>>, NEW b, probe'[b] = probe[b]
  PROVE  (InPiece(b)' <=> InPiece(b)) /\ (PastPieces(b)' <=> PastPieces(b))
BY DEF InPiece, PastPieces, SRows, ProbePiece, ProbeRow, Hash2Of

LEMMA ProbeKept ==
  ASSUME ProbeInv, UNCHANGED <<rKey, sKey, hash2, index, job, probe, list>>
  PROVE  ProbeInv'
<1>1. \A b \in Buckets : (InPiece(b)' <=> InPiece(b)) /\ (PastPieces(b)' <=> PastPieces(b))
  BY PlaceKept
<1>. QED  BY <1>1 DEF ProbeInv

LEMMA ListKept ==
  ASSUME ListInv, UNCHANGED <<rKey, sKey, hash2, index, job, probe, list>>
  PROVE  ListInv'
<1>1. Lists' = Lists /\ \A l : Sound(l)' <=> Sound(l)
  BY DataKept
<1>2. \A b : Found(b)' = Found(b) /\ Matches(b)' = Matches(b)
  BY FoundKept, DataKept DEF Found
<1>. QED  BY <1>1, <1>2 DEF ListInv

LEMMA ResultKept ==
  ASSUME ResultInv, UNCHANGED <<rKey, sKey, hash2, result>>,
         pc' \notin {"connect", "done"}, pc \notin {"connect", "done"}
  PROVE  ResultInv'
BY DEF ResultInv

(* What is linked stays linked.                                            *)
LEMMA LinkedKept ==
  ASSUME UNCHANGED <<rKey, sKey, hash2, list, result>>, NEW walk, NEW n
  PROVE  Linked(walk, n)' <=> Linked(walk, n)
<1>1. IsWalk(walk)' = IsWalk(walk) /\ NodesOf(walk)' = NodesOf(walk)
  BY DEF IsWalk, NodesOf
<1>2. Joined(walk)' = Joined(walk)
  BY <1>1 DEF Joined
<1>3. Pairs' = Pairs /\ Lists' = Lists
  BY DataKept
<1>4. Sound(Joined(walk))' <=> Sound(Joined(walk))
  BY <1>2, <1>3 DEF Sound, AllOf
<1>5. AllOf(Joined(walk))' = AllOf(Joined(walk))
  BY <1>2 DEF AllOf
<1>6. Below(n)' = Below(n)
  BY <1>3 DEF Below, Equal
<1>. QED  BY <1>1, <1>2, <1>4, <1>5, <1>6 DEF Linked

(* While no job has begun, none is being searched.                         *)
LEMMA NoJobsYet ==
  ASSUME JobInv, pc = "index"
  PROVE  \A b \in Buckets : job[b] = "none"
BY DEF JobInv

-----------------------------------------------------------------------------
(* indexing                                                                *)

LEMMA WhileIndexing ==
  ASSUME Inv, pc = "index", pc' \in {"index", "write"}, pc' = "write" => at'.bucket = 0,
         UNCHANGED <<rKey, sKey, hash2, job, probe, list, connected, result>>
  PROVE  BaseInv' /\ JobInv' /\ BarrierInv' /\ ProbeInv' /\ ListInv' /\ ResultInv'
<1>. BaseInv /\ JobInv /\ BarrierInv /\ ProbeInv /\ ListInv /\ ResultInv
  BY DEF Inv
<1>1. \A b \in Buckets : job[b] = "none" /\ job'[b] = "none"
  BY NoJobsYet
<1>2. BaseInv'
  BY DEF BaseInv, Keys
<1>3. JobInv'
  BY <1>1, SizesAssumption DEF JobInv, Buckets
<1>4. BarrierInv'
  BY DEF BarrierInv, Ended
<1>5. ProbeInv'
  BY <1>1 DEF ProbeInv
<1>6. ListInv'
  <2>1. Lists' = Lists /\ \A l : Sound(l)' <=> Sound(l)
    BY DataKept
  <2>. QED  BY <1>1, <2>1 DEF ListInv
<1>7. ResultInv'
  BY ResultKept
<1>. QED  BY <1>2, <1>3, <1>4, <1>5, <1>6, <1>7

LEMMA LayOutBucketKeeps ==
  ASSUME Inv, LayOutBucket
  PROVE  Inv'
<1>. DEFINE b == at.bucket
            pieces == NewPieces(RRows(b))
<1>1. /\ BaseInv /\ IndexInv /\ AtInv
      /\ pc = "index" /\ b \in Buckets /\ index[b] = <<>> /\ RRows(b) # <<>>
      /\ index' = [index EXCEPT ![b] = pieces]
      /\ UNCHANGED <<rKey, sKey, hash2, pc, at, job, probe, list, connected, result>>
  BY DEF Inv, LayOutBucket
<1>2. /\ pieces \in Seq(Pieces) /\ pieces # <<>> /\ LaidOut(pieces, RSet(b))
      /\ \A p \in DOMAIN pieces : Chained(pieces[p], 0)
  <2>1. /\ RSet(b) \subseteq Nat /\ RRows(b) \in Seq(RSet(b)) /\ Once(RRows(b))
        /\ Range(RRows(b)) = RSet(b)
    BY <1>1, RowFacts
  <2>2. LET new == NewPieces(RRows(b))
        IN  /\ new \in Seq(Pieces) /\ new # <<>> /\ LaidOut(new, Range(RRows(b)))
            /\ \A p \in DOMAIN new : Chained(new[p], 0)
    BY <1>1, <2>1, NewPiecesFacts
  <2>. QED  BY <2>1, <2>2
<1>3. at.piece = 1 /\ at.tuple = 1
  BY <1>1 DEF AtInv
<1>. HIDE DEF pieces
<1>4. AtInv'
  <2>1. 1 \in DOMAIN pieces /\ 1 \in DOMAIN pieces[1].rows
    <3>1. 1 \in DOMAIN pieces
      BY <1>2
    <3>2. pieces[1] \in Pieces
      BY <1>2, <3>1
    <3>. QED  BY <3>1, <3>2 DEF Pieces
  <2>2. index'[b] = pieces
    BY <1>1 DEF IndexInv
  <2>. QED  BY <1>1, <1>3, <2>1, <2>2 DEF AtInv
<1>5. IndexInv'
  <2>1. index' \in [Buckets -> Seq(Pieces)]
    BY <1>1, <1>2 DEF IndexInv
  <2>2. ASSUME NEW c \in Buckets
        PROVE  /\ index'[c] # <<>> => LaidOut(index'[c], RSet(c))
               /\ index'[c] = <<>> => RSet(c) = {} \/ c >= at.bucket
               /\ c > at.bucket => index'[c] = <<>>
               /\ \A p \in DOMAIN index'[c] : Chained(index'[c][p], Built(c, p)')
    <3>1. CASE c = b
      <4>1. index'[c] = pieces
        BY <1>1, <3>1 DEF IndexInv
      <4>2. ASSUME NEW p \in DOMAIN pieces
            PROVE  Built(c, p)' = 0
        <5>1. p \in Nat /\ p >= 1 /\ b \in Nat
          BY <1>1, <1>2, SizesAssumption DEF Buckets
        <5>2. pc' = "index" /\ at' = at
          BY <1>1
        <5>. QED  BY <1>3, <3>1, <5>1, <5>2 DEF Built
      <4>3. b \in Nat
        BY <1>1 DEF Buckets
      <4>. QED  BY <1>2, <3>1, <4>1, <4>2, <4>3
    <3>2. CASE c # b
      <4>1. index'[c] = index[c]
        BY <1>1, <3>2 DEF IndexInv
      <4>2. \A p : Built(c, p)' = Built(c, p)
        BY <1>1, <4>1 DEF Built
      <4>. QED  BY <1>1, <4>1, <4>2 DEF IndexInv
    <3>. QED  BY <3>1, <3>2
  <2>3. /\ \A c : RSet(c)' = RSet(c)
        /\ \A piece, n : Chained(piece, n)' <=> Chained(piece, n)
    BY <1>1, DataKept
  <2>. QED  BY <1>1, <2>1, <2>2, <2>3 DEF IndexInv
<1>. QED  BY <1>1, <1>4, <1>5, WhileIndexing DEF Inv

LEMMA AddTupleKeeps ==
  ASSUME Inv, AddTuple
  PROVE  Inv'
<1>. at \in [bucket : 0..HashRange, piece : Nat \ {0}, tuple : Nat \ {0}]
  BY DEF Inv, AtInv
<1>. SUFFICES ASSUME NEW b, NEW p \in Nat \ {0}, NEW i \in Nat \ {0},
                     at = [bucket |-> b, piece |-> p, tuple |-> i]
              PROVE  Inv'
  OBVIOUS
<1>0. at.bucket = b /\ at.piece = p /\ at.tuple = i
  OBVIOUS
<1>. DEFINE piece == index[b][p]
            updated == UpdateChain(piece, i)
<1>1. /\ BaseInv /\ IndexInv /\ AtInv
      /\ pc = "index" /\ b \in Buckets /\ index[b] # <<>> /\ p <= Len(index[b])
      /\ index' = [index EXCEPT ![b][p] = updated]
      /\ at' = IF i < Len(piece.rows) THEN [at EXCEPT !.tuple = i + 1]
               ELSE [at EXCEPT !.piece = p + 1, !.tuple = 1]
      /\ UNCHANGED <<rKey, sKey, hash2, pc, job, probe, list, connected, result>>
  BY <1>0 DEF Inv, AddTuple
<1>2. index[b] \in Seq(Pieces) /\ Len(index[b]) \in Nat /\ DOMAIN index[b] = 1..Len(index[b])
  BY <1>1 DEF IndexInv
<1>3. b \in Nat /\ Buckets \subseteq Nat
  BY <1>1 DEF Buckets
<1>4. p \in DOMAIN index[b] /\ i \in DOMAIN piece.rows
  BY <1>0, <1>1, <1>2 DEF AtInv
<1>5. /\ piece \in Pieces /\ LaidOut(index[b], RSet(b))
      /\ Len(piece.rows) \in Nat /\ DOMAIN piece.rows = 1..Len(piece.rows)
      /\ Hash2Of(piece, i) \in 0..Hash2Range-1
      /\ \A q \in DOMAIN index[b] : 1 \in DOMAIN index[b][q].rows
  <2>1. /\ piece \in Pieces /\ LaidOut(index[b], RSet(b))
        /\ Len(piece.rows) \in 1..Cap /\ DOMAIN piece.rows = 1..Len(piece.rows)
        /\ Hash2Of(piece, i) \in 0..Hash2Range-1
    BY <1>1, <1>4, PieceFacts
  <2>2. \A q \in DOMAIN index[b] : 1 \in DOMAIN index[b][q].rows
    BY <1>1, PieceFacts
  <2>. QED  BY <2>1, <2>2, SizesAssumption
<1>6. Chained(piece, i - 1)
  <2>1. Built(b, p) = i - 1
    BY <1>0, <1>1, <1>3 DEF Built
  <2>. QED  BY <1>1, <1>4, <2>1 DEF IndexInv
<1>7. updated \in Pieces /\ updated.rows = piece.rows /\ Chained(updated, i)
  <2>. HIDE DEF piece
  <2>. QED  BY <1>4, <1>5, <1>6, UpdateChainFacts
<1>. HIDE DEF updated
<1>8. /\ index' \in [Buckets -> Seq(Pieces)]
      /\ DOMAIN index'[b] = DOMAIN index[b] /\ Len(index'[b]) = Len(index[b])
      /\ index'[b][p] = updated
      /\ \A q \in DOMAIN index[b] : q # p => index'[b][q] = index[b][q]
      /\ \A c \in Buckets : c # b => index'[c] = index[c]
  <2>1. index \in [Buckets -> Seq(Pieces)]
    BY <1>1 DEF IndexInv
  <2>2. [index[b] EXCEPT ![p] = updated] \in Seq(Pieces)
    BY <1>2, <1>4, <1>7
  <2>. QED  BY <1>1, <1>2, <1>4, <2>1, <2>2
<1>9. \A c \in Buckets : /\ DOMAIN index'[c] = DOMAIN index[c]
                         /\ \A q \in DOMAIN index[c] : index'[c][q].rows = index[c][q].rows
  BY <1>7, <1>8
<1>10. at' = IF i < Len(piece.rows) THEN [bucket |-> b, piece |-> p, tuple |-> i + 1]
             ELSE [bucket |-> b, piece |-> p + 1, tuple |-> 1]
  <2>1. CASE i < Len(piece.rows)
    <3>1. at' = [at EXCEPT !.tuple = i + 1]
      BY <1>1, <2>1
    <3>2. at' = [bucket |-> b, piece |-> p, tuple |-> i + 1]
      BY <1>0, <3>1
    <3>. QED  BY <2>1, <3>2
  <2>2. CASE ~(i < Len(piece.rows))
    <3>1. at' = [at EXCEPT !.piece = p + 1, !.tuple = 1]
      BY <1>1, <2>2
    <3>2. at' = [bucket |-> b, piece |-> p + 1, tuple |-> 1]
      BY <1>0, <3>1
    <3>. QED  BY <2>2, <3>2
  <2>. QED  BY <2>1, <2>2
<1>11. ~(i < Len(piece.rows)) => i = Len(piece.rows)
  BY <1>4, <1>5
<1>12. /\ Built(b, p)' = i
       /\ \A c \in Buckets : \A q \in DOMAIN index[c] :
            c # b \/ q # p => Built(c, q)' = Built(c, q)
  <2>1. index'[b][p].rows = piece.rows
    BY <1>1, <1>4, <1>9
  <2>2. Built(b, p)' = i
    <3>1. CASE i < Len(piece.rows)
      <4>1. at'.bucket = b /\ at'.piece = p /\ at'.tuple = i + 1 /\ pc' = "index"
        BY <1>1, <1>10, <3>1
      <4>. HIDE DEF piece
      <4>. QED  BY <1>3, <4>1 DEF Built
    <3>2. CASE ~(i < Len(piece.rows))
      <4>1. at' = [bucket |-> b, piece |-> p + 1, tuple |-> 1]
        BY <1>10, <3>2
      <4>. QED  BY <1>1, <1>3, <1>11, <2>1, <3>2, <4>1 DEF Built
    <3>. QED  BY <3>1, <3>2
  <2>3. ASSUME NEW c \in Buckets, NEW q \in DOMAIN index[c], c # b \/ q # p
        PROVE  Built(c, q)' = Built(c, q)
    <3>1. /\ c \in Nat /\ q \in Nat
          /\ index'[c][q].rows = index[c][q].rows /\ pc' = "index" /\ pc = "index"
      <4>1. index[c] \in Seq(Pieces)
        BY <1>1 DEF IndexInv
      <4>. QED  BY <1>1, <1>3, <1>9, <4>1
    <3>2. CASE i < Len(piece.rows)
      <4>1. at'.bucket = b /\ at'.piece = p
        BY <1>10, <3>2
      <4>. HIDE DEF piece
      <4>. QED  BY <1>0, <1>3, <2>3, <3>1, <4>1 DEF Built
    <3>3. CASE ~(i < Len(piece.rows))
      <4>1. at'.bucket = b /\ at'.piece = p + 1 /\ at'.tuple = 1
        BY <1>10, <3>3
      <4>. HIDE DEF piece
      <4>. QED  BY <1>0, <1>3, <2>3, <3>1, <4>1 DEF Built
    <3>. QED  BY <3>2, <3>3
  <2>. QED  BY <2>2, <2>3
<1>13. AtInv'
  <2>1. b \in 0..HashRange /\ pc' = "index"
    BY <1>1, SizesAssumption DEF Buckets
  <2>2. CASE i < Len(piece.rows)
    <3>1. at' = [bucket |-> b, piece |-> p, tuple |-> i + 1]
      BY <1>10, <2>2
    <3>2. i + 1 \in DOMAIN index'[b][p].rows /\ p \in DOMAIN index'[b]
      BY <1>1, <1>4, <1>5, <1>9, <2>2
    <3>. QED  BY <2>1, <3>1, <3>2 DEF AtInv
  <2>3. CASE ~(i < Len(piece.rows))
    <3>1. at' = [bucket |-> b, piece |-> p + 1, tuple |-> 1]
      BY <1>10, <2>3
    <3>2. p + 1 = Len(index'[b]) + 1 \/ p + 1 \in DOMAIN index[b]
      BY <1>2, <1>4, <1>8
    <3>3. p + 1 \in DOMAIN index[b] => p + 1 \in DOMAIN index'[b] /\ 1 \in DOMAIN index'[b][p+1].rows
      BY <1>1, <1>5, <1>9
    <3>. QED  BY <2>1, <3>1, <3>2, <3>3 DEF AtInv
  <2>. QED  BY <2>2, <2>3
<1>14. IndexInv'
  <2>1. ASSUME NEW c \in Buckets
        PROVE  /\ index'[c] # <<>> => LaidOut(index'[c], RSet(c))
               /\ index'[c] = <<>> => RSet(c) = {} \/ c >= b
               /\ c > b => index'[c] = <<>>
               /\ \A q \in DOMAIN index'[c] : Chained(index'[c][q], Built(c, q)')
    <3>1. CASE c = b
      <4>1. LaidOut(index'[b], RSet(b))
        <5>1. LaidOut(index[b], RSet(b))
          BY <1>5
        <5>2. /\ DOMAIN index'[b] = DOMAIN index[b]
              /\ \A q \in DOMAIN index[b] : index'[b][q].rows = index[b][q].rows
          BY <1>1, <1>9
        <5>. QED  BY <5>1, <5>2 DEF LaidOut
      <4>2. ASSUME NEW q \in DOMAIN index'[b]
            PROVE  Chained(index'[b][q], Built(b, q)')
        <5>1. CASE q = p
          BY <1>7, <1>8, <1>12, <5>1
        <5>2. CASE q # p
          <6>1. Chained(index[b][q], Built(b, q))
            BY <1>1, <1>8 DEF IndexInv
          <6>. QED  BY <1>1, <1>8, <1>12, <5>2, <6>1
        <5>. QED  BY <5>1, <5>2
      <4>. QED  BY <1>3, <3>1, <4>1, <4>2
    <3>2. CASE c # b
      <4>1. index'[c] = index[c] /\ \A q \in DOMAIN index[c] : Built(c, q)' = Built(c, q)
        BY <1>8, <1>12, <3>2
      <4>2. \A q \in DOMAIN index[c] : Chained(index[c][q], Built(c, q))
        BY <1>1 DEF IndexInv
      <4>3. /\ index[c] # <<>> => LaidOut(index[c], RSet(c))
            /\ index[c] = <<>> => RSet(c) = {} \/ c >= b
            /\ c > b => index[c] = <<>>
        BY <1>0, <1>1 DEF IndexInv
      <4>. QED  BY <4>1, <4>2, <4>3
    <3>. QED  BY <3>1, <3>2
  <2>2. /\ \A c : RSet(c)' = RSet(c)
        /\ \A x, n : Chained(x, n)' <=> Chained(x, n)
    BY <1>1, DataKept
  <2>3. pc' = "index" /\ at'.bucket = b
    BY <1>1, <1>10
  <2>. QED  BY <1>8, <2>1, <2>2, <2>3 DEF IndexInv
<1>. QED  BY <1>1, <1>13, <1>14, WhileIndexing DEF Inv

LEMMA NextBucketKeeps ==
  ASSUME Inv, NextBucket
  PROVE  Inv'
<1>. at \in [bucket : 0..HashRange, piece : Nat \ {0}, tuple : Nat \ {0}]
  BY DEF Inv, AtInv
<1>. SUFFICES ASSUME NEW b \in 0..HashRange, at.bucket = b
              PROVE  Inv'
  OBVIOUS
<1>1. /\ BaseInv /\ IndexInv /\ AtInv
      /\ pc = "index" /\ b \in Buckets
      /\ RRows(b) = <<>> \/ (at.piece > Len(index[b]) /\ index[b] # <<>>)
      /\ at' = [Start EXCEPT !.bucket = b + 1]
      /\ UNCHANGED <<rKey, sKey, hash2, pc, index, job, probe, list, connected, result>>
  BY DEF Inv, NextBucket
<1>2. at'.bucket = b + 1 /\ at'.piece = 1 /\ at'.tuple = 1
      /\ at' = [bucket |-> b + 1, piece |-> 1, tuple |-> 1]
  BY <1>1 DEF Start
<1>3. /\ Buckets \subseteq Nat /\ b \in Nat /\ at.piece \in Nat /\ b + 1 \in 0..HashRange
  BY <1>1, SizesAssumption DEF Buckets
<1>4. AtInv'
  <2>1. b + 1 \in Buckets => index[b+1] = <<>>
    BY <1>1, <1>3 DEF IndexInv
  <2>2. at' \in [bucket : 0..HashRange, piece : Nat \ {0}, tuple : Nat \ {0}]
    BY <1>2, <1>3
  <2>3. pc' = "index" /\ index' = index
    BY <1>1
  <2>. QED  BY <1>2, <2>1, <2>2, <2>3 DEF AtInv
<1>5. /\ index[b] = <<>> => RSet(b) = {}
      /\ \A p \in DOMAIN index[b] : Built(b, p) = Len(index[b][p].rows)
  <2>1. CASE RRows(b) = <<>>
    <3>1. RSet(b) = {}
      BY <1>1, <2>1, RowFacts
    <3>2. \A p \in DOMAIN index[b] : FALSE
      <4>1. ASSUME NEW p \in DOMAIN index[b] PROVE FALSE
        <5>1. /\ Len(index[b][p].rows) \in 1..Cap
              /\ DOMAIN index[b][p].rows = 1..Len(index[b][p].rows)
              /\ \A i \in DOMAIN index[b][p].rows : index[b][p].rows[i] \in RSet(b)
          BY <1>1, PieceFacts
        <5>2. 1 \in DOMAIN index[b][p].rows
          BY <5>1, SizesAssumption
        <5>. QED  BY <3>1, <5>1, <5>2
      <4>. QED  BY <4>1
    <3>. QED  BY <3>1, <3>2
  <2>2. CASE at.piece > Len(index[b]) /\ index[b] # <<>>
    <3>1. index[b] \in Seq(Pieces)
      BY <1>1 DEF IndexInv
    <3>2. \A p \in DOMAIN index[b] : p < at.piece
      BY <1>3, <2>2, <3>1
    <3>. QED  BY <2>2, <3>2 DEF Built
  <2>. QED  BY <1>1, <2>1, <2>2
<1>6. \A c \in Buckets : \A p \in DOMAIN index[c] : Built(c, p)' = Built(c, p)
  <2>1. ASSUME NEW c \in Buckets, NEW p \in DOMAIN index[c]
        PROVE  Built(c, p)' = Built(c, p)
    <3>0. index[c] \in Seq(Pieces)
      BY <1>1 DEF IndexInv
    <3>1. /\ pc' = "index" /\ pc = "index" /\ index' = index
          /\ c \in Nat /\ p \in Nat /\ p >= 1
      BY <1>1, <1>3, <3>0
    <3>2. CASE c < b
      BY <1>2, <1>3, <3>1, <3>2 DEF Built
    <3>3. CASE c = b
      <4>1. Built(c, p) = Len(index[c][p].rows)
        BY <1>5, <3>3
      <4>. QED  BY <1>2, <1>3, <3>1, <3>3, <4>1 DEF Built
    <3>4. CASE c > b
      <4>1. index[c] = <<>>
        BY <1>1, <3>4 DEF IndexInv
      <4>. QED  BY <4>1
    <3>. QED  BY <1>3, <3>1, <3>2, <3>3, <3>4
  <2>. QED  BY <2>1
<1>7. IndexInv'
  <2>1. ASSUME NEW c \in Buckets
        PROVE  /\ index[c] # <<>> => LaidOut(index[c], RSet(c))
               /\ index[c] = <<>> => RSet(c) = {} \/ c >= b + 1
               /\ c > b + 1 => index[c] = <<>>
               /\ \A p \in DOMAIN index[c] : Chained(index[c][p], Built(c, p))
    <3>1. c \in Nat
      BY <1>3
    <3>2. /\ index[c] # <<>> => LaidOut(index[c], RSet(c))
          /\ index[c] = <<>> => RSet(c) = {} \/ c >= b
          /\ c > b => index[c] = <<>>
      BY <1>1 DEF IndexInv
    <3>3. \A p \in DOMAIN index[c] : Chained(index[c][p], Built(c, p))
      BY <1>1 DEF IndexInv
    <3>4. index[c] = <<>> => RSet(c) = {} \/ c >= b + 1
      BY <1>3, <1>5, <3>1, <3>2
    <3>. QED  BY <1>3, <3>1, <3>2, <3>3, <3>4
  <2>2. /\ \A c : RSet(c)' = RSet(c)
        /\ \A x, n : Chained(x, n)' <=> Chained(x, n)
    BY <1>1, DataKept
  <2>3. index' \in [Buckets -> Seq(Pieces)]
    BY <1>1 DEF IndexInv
  <2>. QED  BY <1>1, <1>2, <1>6, <2>1, <2>2, <2>3 DEF IndexInv
<1>. QED  BY <1>1, <1>4, <1>7, WhileIndexing DEF Inv

LEMMA EndIndexKeeps ==
  ASSUME Inv, EndIndex
  PROVE  Inv'
<1>1. /\ BaseInv /\ IndexInv /\ AtInv
      /\ pc = "index" /\ at.bucket = HashRange /\ pc' = "write" /\ at' = Start
      /\ UNCHANGED <<rKey, sKey, hash2, index, job, probe, list, connected, result>>
  BY DEF Inv, EndIndex
<1>2. at'.bucket = 0 /\ at' = [bucket |-> 0, piece |-> 1, tuple |-> 1]
  BY <1>1 DEF Start
<1>3. AtInv'
  BY <1>1, <1>2, SizesAssumption DEF AtInv
<1>4. \A b \in Buckets : b \in Nat /\ b < at.bucket
  BY <1>1, SizesAssumption DEF Buckets
<1>5. \A b \in Buckets : \A p : /\ Built(b, p) = Len(index[b][p].rows)
                                /\ Built(b, p)' = Len(index[b][p].rows)
  BY <1>1, <1>4 DEF Built
<1>6. IndexInv'
  <2>1. /\ \A c : RSet(c)' = RSet(c)
        /\ \A x, n : Chained(x, n)' <=> Chained(x, n)
    BY <1>1, DataKept
  <2>2. \A b \in Buckets : ~(b >= at.bucket)
    BY <1>1, <1>4, SizesAssumption
  <2>3. ASSUME NEW b \in Buckets
        PROVE  /\ index[b] # <<>> => LaidOut(index[b], RSet(b))
               /\ index[b] = <<>> => RSet(b) = {}
               /\ \A p \in DOMAIN index[b] : Chained(index[b][p], Built(b, p))
    BY <1>1, <2>2 DEF IndexInv
  <2>4. index' \in [Buckets -> Seq(Pieces)]
    BY <1>1 DEF IndexInv
  <2>. QED  BY <1>1, <1>5, <2>1, <2>3, <2>4 DEF IndexInv
<1>. QED  BY <1>1, <1>2, <1>3, <1>6, WhileIndexing DEF Inv

-----------------------------------------------------------------------------
(* The main thread in searchThreadVer                                      *)

LEMMA BaseKept ==
  ASSUME BaseInv, UNCHANGED <<rKey, sKey, hash2>>,
         pc' \in {"index", "write", "test", "wait", "connect", "done"},
         job' \in [Buckets -> {"none", "ready", "run", "end"}]
  PROVE  BaseInv'
BY DEF BaseInv, Keys

LEMMA WriteJobKeeps ==
  ASSUME Inv, WriteJob
  PROVE  Inv'
<1>. at \in [bucket : 0..HashRange, piece : Nat \ {0}, tuple : Nat \ {0}]
  BY DEF Inv, AtInv
<1>1. /\ BaseInv /\ IndexInv /\ AtInv /\ JobInv /\ BarrierInv /\ ProbeInv /\ ListInv /\ ResultInv
      /\ pc = "write" /\ at.bucket \in Buckets
      /\ job' = IF at.bucket \in Probed THEN [job EXCEPT ![at.bucket] = "ready"] ELSE job
      /\ at' = [at EXCEPT !.bucket = @ + 1]
      /\ UNCHANGED <<rKey, sKey, hash2, pc, index, probe, list, connected, result>>
  BY DEF Inv, WriteJob
<1>2. Buckets \subseteq Nat /\ at.bucket + 1 \in 0..HashRange
  BY <1>1, SizesAssumption DEF Buckets
<1>3. job \in [Buckets -> {"none", "ready", "run", "end"}]
  BY <1>1 DEF BaseInv
<1>4. BaseInv'
  BY <1>1, <1>3, BaseKept DEF BaseInv
<1>5. IndexInv'
  BY <1>1, IndexKept
<1>6. AtInv' /\ at'.bucket = at.bucket + 1
  BY <1>1, <1>2 DEF AtInv
<1>7. at.bucket \in Probed => job[at.bucket] = "none"
  BY <1>1, <1>2 DEF JobInv
<1>8. \A b \in Buckets : \/ job'[b] = job[b] /\ (b \in Probed => b # at.bucket)
                         \/ job[b] = "none" /\ job'[b] = "ready" /\ b = at.bucket /\ b \in Probed
  BY <1>1, <1>3, <1>7
<1>9. Probed' = Probed /\ Lists' = Lists /\ \A l : Sound(l)' <=> Sound(l)
  BY <1>1, DataKept
<1>10. JobInv'
  <2>1. ASSUME NEW b \in Buckets
        PROVE  /\ job'[b] # "none" => b \in Probed
               /\ b \in Probed => (job'[b] = "none" <=> at.bucket + 1 <= b)
    <3>1. b \in Nat /\ at.bucket \in Nat
      BY <1>2
    <3>2. /\ job[b] # "none" => b \in Probed
          /\ b \in Probed => (job[b] = "none" <=> at.bucket <= b)
      BY <1>1 DEF JobInv
    <3>. QED  BY <1>8, <3>1, <3>2
  <2>. QED  BY <1>1, <1>6, <1>9, <2>1 DEF JobInv
<1>11. BarrierInv'
  <2>1. Ended' = Ended
    BY <1>8 DEF Ended
  <2>. QED  BY <1>1, <2>1 DEF BarrierInv
<1>12. \A b \in Buckets : job'[b] \in {"none", "ready"} <=> job[b] \in {"none", "ready"}
  BY <1>8
<1>13. \A b \in Buckets : job'[b] \in {"run", "end"} => job'[b] = job[b]
  BY <1>8
<1>14. ProbeInv'
  <2>1. \A b \in Buckets : (InPiece(b)' <=> InPiece(b)) /\ (PastPieces(b)' <=> PastPieces(b))
    BY <1>1, PlaceKept
  <2>. QED  BY <1>1, <1>12, <1>13, <2>1 DEF ProbeInv
<1>15. ListInv'
  <2>1. \A b : Found(b)' = Found(b) /\ Matches(b)' = Matches(b)
    BY <1>1, FoundKept, DataKept DEF Found
  <2>. QED  BY <1>1, <1>9, <1>13, <2>1 DEF ListInv
<1>16. ResultInv'
  BY <1>1, ResultKept
<1>. QED  BY <1>4, <1>5, <1>6, <1>10, <1>11, <1>14, <1>15, <1>16 DEF Inv

LEMMA EndedFacts ==
  ASSUME JobInv
  PROVE  /\ IsFiniteSet(Probed) /\ Ended \subseteq Probed
         /\ IsFiniteSet(Ended) /\ Cardinality(Ended) \in 0..HashRange
         /\ Cardinality(Ended) = Cardinality(Probed) => Ended = Probed
<1>1. IsFiniteSet(Buckets) /\ Cardinality(Buckets) = HashRange
  BY FS_Interval, SizesAssumption DEF Buckets
<1>2. Ended \subseteq Probed /\ Probed \subseteq Buckets
  BY DEF JobInv, Ended, Probed
<1>3. IsFiniteSet(Probed) /\ Cardinality(Probed) <= Cardinality(Buckets)
  BY <1>1, <1>2, FS_Subset
<1>4. /\ IsFiniteSet(Ended) /\ Cardinality(Ended) <= Cardinality(Probed)
      /\ Cardinality(Probed) = Cardinality(Ended) => Probed = Ended
  BY <1>2, <1>3, FS_Subset, Zenon
<1>5. Cardinality(Ended) \in Nat /\ Cardinality(Probed) \in Nat
  BY <1>3, <1>4, FS_CardinalityType
<1>. QED  BY <1>1, <1>2, <1>3, <1>4, <1>5, SizesAssumption

(* Waiting for the jobs.                                                   *)
LEMMA WhileWaiting ==
  ASSUME Inv, pc \in {"write", "test", "wait"}, pc' \in {"test", "wait"},
         pc = "write" => at.bucket = HashRange, at' = IF pc = "write" THEN Start ELSE at,
         UNCHANGED <<rKey, sKey, hash2, index, job, probe, list, connected, result>>
  PROVE  Inv'
<1>1. /\ BaseInv /\ IndexInv /\ AtInv /\ JobInv /\ BarrierInv /\ ProbeInv /\ ListInv /\ ResultInv
  BY DEF Inv
<1>2. BaseInv'
  BY <1>1, BaseKept DEF BaseInv
<1>3. IndexInv'
  BY <1>1, IndexKept
<1>4. AtInv'
  BY <1>1, SizesAssumption DEF AtInv, Start
<1>5. JobInv'
  <2>1. Probed' = Probed
    BY DataKept
  <2>2. \A b \in Buckets : b \in Nat /\ ~(HashRange <= b)
    BY SizesAssumption DEF Buckets
  <2>. QED  BY <1>1, <2>1, <2>2 DEF JobInv
<1>6. BarrierInv'
  BY <1>1 DEF BarrierInv, Ended
<1>7. ProbeInv' /\ ListInv'
  BY <1>1, ProbeKept, ListKept
<1>8. ResultInv'
  BY <1>1, ResultKept
<1>. QED  BY <1>2, <1>3, <1>4, <1>5, <1>6, <1>7, <1>8 DEF Inv

LEMMA PassKeeps ==
  ASSUME Inv, Pass
  PROVE  Inv'
<1>1. /\ BaseInv /\ IndexInv /\ AtInv /\ JobInv /\ BarrierInv /\ ProbeInv /\ ListInv /\ ResultInv
      /\ pc = "test" /\ connected = Cardinality(Probed) /\ pc' = "connect"
      /\ UNCHANGED <<rKey, sKey, hash2, index, at, job, probe, list, connected, result>>
  BY DEF Inv, Pass
<1>2. BaseInv'
  BY <1>1, BaseKept DEF BaseInv
<1>3. IndexInv'
  BY <1>1, IndexKept
<1>4. AtInv' /\ at.bucket = 0
  BY <1>1 DEF AtInv
<1>5. Probed' = Probed /\ Pairs' = Pairs
  BY <1>1, DataKept
<1>6. JobInv'
  BY <1>1, <1>5 DEF JobInv
<1>7. BarrierInv'
  <2>1. Ended = Probed
    BY <1>1, EndedFacts DEF BarrierInv
  <2>. QED  BY <1>1, <1>5, <2>1 DEF BarrierInv, Ended
<1>8. ProbeInv' /\ ListInv'
  BY <1>1, ProbeKept, ListKept
<1>9. ResultInv'
  <2>1. result = NoResult /\ NodesOf(<<>>) = <<>>
    <3>1. [i \in 1..Len(<<>>) |-> list[<<>>[i]].nodes] = <<>>
      OBVIOUS
    <3>2. NodesOf(<<>>) = FlattenSeq(<<>>)
      BY <3>1 DEF NodesOf
    <3>. QED  BY <1>1, <3>2, FlattenSeqEmpty, Zenon DEF ResultInv
  <2>2. Below(at.bucket) = {}
    <3>1. ASSUME NEW m \in Pairs
          PROVE  ~(H1(sKey[m[2]]) < at.bucket)
      <4>1. m[2] \in DOMAIN sKey
        BY DEF Pairs
      <4>2. H1(sKey[m[2]]) \in Buckets
        BY <1>1, <4>1, HashFacts
      <4>. QED  BY <1>4, <4>2, SizesAssumption DEF Buckets
    <3>. QED  BY <3>1 DEF Below
  <2>3. Joined(<<>>) = EmptyList
    BY <2>1 DEF Joined, EmptyList, NoResult
  <2>4. Linked(<<>>, at.bucket)
    <3>1. IsWalk(<<>>) /\ result.total = 0 /\ result.numbOfNodes = Len(NodesOf(<<>>))
          /\ \A c \in Buckets : result.nextNode[c] = None
      BY <2>1 DEF IsWalk, NoResult
    <3>. QED  BY <1>4, <2>2, <2>3, <3>1, EmptyListFacts DEF Linked
  <2>5. Linked(<<>>, at.bucket)'
    BY <1>1, <2>4, LinkedKept
  <2>6. \E walk \in Seq(Buckets) : Linked(walk, at.bucket)'
    <3>1. <<>> \in Seq(Buckets)
      OBVIOUS
    <3>. QED  BY <2>5, <3>1, Zenon
  <2>. QED  BY <1>1, <2>6 DEF ResultInv
<1>. QED  BY <1>2, <1>3, <1>4, <1>6, <1>7, <1>8, <1>9 DEF Inv

(* The matches of a bucket are those of its rows of S.                     *)
LEMMA MatchesAre ==
  ASSUME BaseInv, NEW b
  PROVE  /\ Matches(b) = {m \in Pairs : Equal(m) /\ H1(sKey[m[2]]) = b}
         /\ SSet(b) = {} => Matches(b) = {}
<1>1. RSet(b) \subseteq DOMAIN rKey /\ SSet(b) \subseteq DOMAIN sKey
  BY RowFacts
<1>2. ASSUME NEW m \in Pairs, Equal(m), H1(sKey[m[2]]) = b
      PROVE  m \in Matches(b)
  BY <1>2 DEF Pairs, Matches, Equal, RSet, SSet
<1>3. ASSUME NEW m \in Matches(b)
      PROVE  m \in Pairs /\ Equal(m) /\ H1(sKey[m[2]]) = b
  BY <1>1 DEF Pairs, Matches, SSet
<1>. QED  BY <1>2, <1>3 DEF Matches

(* connectResultList appends a list to the walk.                           *)
LEMMA LinkOne ==
  ASSUME NEW walk \in Seq(Buckets), NEW b \in Buckets, Linked(walk, b),
         list \in [Buckets -> Lists], Sound(list[b]), list[b].buff = <<>>,
         list[b].total # 0, Below(b) \cap Range(AllOf(list[b])) = {},
         Below(b + 1) = Below(b) \cup Range(AllOf(list[b])),
         result \in Results, result' = ConnectResultList(result, b),
         UNCHANGED <<rKey, sKey, hash2, list>>
  PROVE  result' \in Results /\ Linked(Append(walk, b), b + 1)'
<1>. DEFINE more == Append(walk, b)
            nodes == list[b].nodes
            total == list[b].total
<1>1. /\ total \in Nat /\ total # 0 /\ nodes \in Seq(Seq(Pairs)) /\ Len(nodes) \in Nat
      /\ list[b] = [nodes |-> nodes, buff |-> <<>>, total |-> total]
  BY AllOfType
<1>2. /\ result.firstNode \in Links /\ result.tail \in Links
      /\ result.numbOfNodes \in Nat /\ result.total \in Nat
      /\ result.nextNode \in [Buckets -> Links]
  BY DEF Results
<1>3. /\ result'.firstNode = IF result.total = 0 THEN b ELSE result.firstNode
      /\ result'.tail = b
      /\ result'.numbOfNodes = result.numbOfNodes + Len(nodes)
      /\ result'.total = result.total + total
      /\ result'.nextNode = IF result.total = 0 THEN result.nextNode
                            ELSE [result.nextNode EXCEPT ![result.tail] = b]
      /\ result' = [firstNode |-> result'.firstNode, tail |-> result'.tail,
                    numbOfNodes |-> result'.numbOfNodes, total |-> result'.total,
                    nextNode |-> result'.nextNode]
  BY <1>1 DEF ConnectResultList
<1>4. result' \in Results
  <2>1. /\ result'.firstNode \in Links /\ result'.tail \in Links
        /\ result'.numbOfNodes \in Nat /\ result'.total \in Nat
    BY <1>1, <1>2, <1>3 DEF Links
  <2>2. result'.nextNode \in [Buckets -> Links]
    BY <1>2, <1>3 DEF Links
  <2>. HIDE DEF nodes, total
  <2>. QED  BY <1>3, <2>1, <2>2 DEF Results
<1>5. /\ NodesOf(walk) \in Seq(Seq(Pairs)) /\ NodesOf(more) = NodesOf(walk) \o nodes
      /\ NodesOf(more)' = NodesOf(more)
  BY NodesAppended DEF NodesOf
<1>6. /\ Len(walk) \in Nat /\ Len(more) = Len(walk) + 1 /\ more # <<>> /\ more[Len(more)] = b
      /\ \A i \in 1..Len(walk) : more[i] = walk[i] /\ walk[i] \in Buckets
  OBVIOUS
<1>7. /\ IsWalk(walk) /\ Len(walk) <= b /\ (walk = <<>> <=> result.total = 0)
      /\ walk # <<>> => result.tail = walk[Len(walk)] /\ result.tail < b
      /\ \A c \in Buckets : b <= c => result.nextNode[c] = None
      /\ Sound(Joined(walk)) /\ Range(AllOf(Joined(walk))) = Below(b)
      /\ result.numbOfNodes = Len(NodesOf(walk))
  BY DEF Linked
<1>. HIDE DEF more, nodes, total
<1>8. Joined(more)' = Behind(Joined(walk), list[b])
  BY <1>1, <1>3, <1>5 DEF Joined, Behind
<1>9. Sound(Joined(more))' /\ Range(AllOf(Joined(more)))' = Below(b + 1)'
  <2>. DEFINE both == Behind(Joined(walk), list[b])
  <2>1. /\ Sound(both)
        /\ Range(AllOf(both)) = Range(AllOf(Joined(walk))) \cup Range(AllOf(list[b]))
    <3>1. Joined(walk).buff = <<>>
      BY DEF Joined
    <3>. QED  BY <1>7, <3>1, BehindFacts
  <2>. HIDE DEF both
  <2>2. Joined(more)' = both /\ Pairs' = Pairs /\ Lists' = Lists
    BY <1>8, DataKept DEF both
  <2>3. Sound(Joined(more))'
    BY <2>1, <2>2 DEF Sound, AllOf
  <2>4. Range(AllOf(Joined(more)))' = Range(AllOf(both))
    BY <2>2 DEF AllOf
  <2>5. Below(b + 1)' = Below(b + 1)
    BY <2>2 DEF Below, Equal
  <2>. QED  BY <1>7, <2>1, <2>3, <2>4, <2>5
<1>10. result'.numbOfNodes = Len(NodesOf(more))
  BY <1>1, <1>3, <1>5, <1>7, ConcatProperties
<1>11. b \in Nat /\ None \notin Buckets
  BY DEF None, Buckets
<1>12. /\ IsWalk(more)'
       /\ \A c \in Buckets : b + 1 <= c => result'.nextNode[c] = None
  <2>1. SUFFICES /\ more[1] = result'.firstNode
                 /\ \A i \in 1..Len(walk) : result'.nextNode[more[i]] = more[i + 1]
                 /\ \A c \in Buckets : b <= c => result'.nextNode[c] = None
    BY <1>6, <1>11 DEF IsWalk, Buckets
  <2>2. CASE walk = <<>>
    BY <2>2, <1>3, <1>6, <1>7
  <2>3. CASE walk # <<>>
    <3>. DEFINE last == walk[Len(walk)]
    <3>1. /\ walk[1] = result.firstNode /\ Len(walk) \in 1..Len(walk)
          /\ \A i \in 1..Len(walk)-1 : result.nextNode[walk[i]] = walk[i+1]
          /\ result.nextNode[last] = None /\ last = result.tail
          /\ last \in Buckets /\ last < b
      BY <2>3, <1>6, <1>7 DEF IsWalk
    <3>. HIDE DEF last
    <3>2. /\ result'.nextNode[last] = b
          /\ \A c \in Buckets : c # last => result'.nextNode[c] = result.nextNode[c]
      BY <2>3, <3>1, <1>2, <1>3, <1>7
    <3>3. ASSUME NEW i \in 1..Len(walk)
          PROVE  result'.nextNode[more[i]] = more[i + 1]
      <4>1. CASE i = Len(walk)
        BY <4>1, <3>1, <3>2, <1>6 DEF last
      <4>2. CASE i # Len(walk)
        <5>1. i \in 1..Len(walk)-1 /\ i + 1 \in 1..Len(walk)
          BY <4>2, <1>6
        <5>2. result.nextNode[walk[i]] = walk[i+1] /\ walk[i+1] \in Buckets /\ walk[i] \in Buckets
          BY <5>1, <3>1, <1>6
        <5>3. walk[i] # last
          BY <5>2, <3>1, <1>11
        <5>. QED  BY <5>1, <5>2, <5>3, <3>2, <1>6
      <4>. QED  BY <4>1, <4>2
    <3>4. \A c \in Buckets : b <= c => c # last
      BY <3>1, <1>11 DEF Buckets
    <3>. QED  BY <2>3, <3>1, <3>2, <3>3, <3>4, <1>3, <1>6, <1>7
  <2>. QED  BY <2>2, <2>3
<1>13. /\ Len(more) <= b + 1 /\ result'.total # 0 /\ b < b + 1
  BY <1>1, <1>2, <1>3, <1>6, <1>7, <1>11
<1>. QED  BY <1>3, <1>4, <1>5, <1>6, <1>9, <1>10, <1>12, <1>13 DEF Linked, more

LEMMA ConnectKeeps ==
  ASSUME Inv, Connect
  PROVE  Inv'
<1>. at \in [bucket : 0..HashRange, piece : Nat \ {0}, tuple : Nat \ {0}]
  BY DEF Inv, AtInv
<1>. SUFFICES ASSUME NEW b \in Buckets, at.bucket = b
              PROVE  Inv'
  BY DEF Connect
<1>1. /\ BaseInv /\ IndexInv /\ AtInv /\ JobInv /\ BarrierInv /\ ProbeInv /\ ListInv /\ ResultInv
      /\ pc = "connect"
      /\ result' = IF b \in Probed THEN ConnectResultList(result, b) ELSE result
      /\ at' = [at EXCEPT !.bucket = @ + 1]
      /\ UNCHANGED <<rKey, sKey, hash2, pc, index, job, probe, list, connected>>
  BY DEF Inv, Connect
<1>2. b \in Nat /\ b + 1 \in 0..HashRange /\ at'.bucket = b + 1
  BY <1>1, SizesAssumption DEF Buckets
<1>3. BaseInv'
  BY <1>1, BaseKept DEF BaseInv
<1>4. IndexInv'
  BY <1>1, IndexKept
<1>5. AtInv'
  BY <1>1, <1>2 DEF AtInv
<1>6. Probed' = Probed /\ Pairs' = Pairs /\ (\A l : Sound(l)' <=> Sound(l))
      /\ \A m : Equal(m)' <=> Equal(m)
  BY <1>1, DataKept
<1>7. JobInv' /\ BarrierInv'
  BY <1>1, <1>6 DEF JobInv, BarrierInv, Ended
<1>8. ProbeInv' /\ ListInv'
  BY <1>1, ProbeKept, ListKept
<1>9. Below(b + 1) = Below(b) \cup Matches(b) /\ Below(b) \cap Matches(b) = {}
  <2>1. \A m \in Pairs : H1(sKey[m[2]]) \in Nat
    <3>1. ASSUME NEW m \in Pairs PROVE H1(sKey[m[2]]) \in Nat
      <4>1. m[2] \in DOMAIN sKey
        BY DEF Pairs
      <4>2. H1(sKey[m[2]]) \in Buckets
        BY <1>1, <4>1, HashFacts
      <4>. QED  BY <4>2 DEF Buckets
    <3>. QED  BY <3>1
  <2>2. \A m \in Pairs : H1(sKey[m[2]]) < b + 1 <=> H1(sKey[m[2]]) < b \/ H1(sKey[m[2]]) = b
    BY <1>2, <2>1
  <2>3. \A m \in Pairs : ~(H1(sKey[m[2]]) < b /\ H1(sKey[m[2]]) = b)
    BY <1>2, <2>1
  <2>4. Matches(b) = {m \in Pairs : Equal(m) /\ H1(sKey[m[2]]) = b}
    BY <1>1, MatchesAre
  <2>. QED  BY <2>2, <2>3, <2>4 DEF Below
<1>10. result \in Results /\ \E walk \in Seq(Buckets) : Linked(walk, b)
  BY <1>1 DEF ResultInv
<1>11. PICK walk \in Seq(Buckets) : Linked(walk, b)
  BY <1>10
<1>12. ResultInv'
  <2>1. list \in [Buckets -> Lists] /\ Sound(list[b]) /\ list[b].total = Len(AllOf(list[b]))
    BY <1>1 DEF ListInv, Sound
  <2>2. CASE b \in Probed /\ list[b].total # 0
    <3>1. job[b] = "end"
      BY <1>1, <2>2 DEF BarrierInv, Ended
    <3>2. list[b].buff = <<>> /\ Range(AllOf(list[b])) = Matches(b)
      BY <1>1, <3>1 DEF ListInv
    <3>3. result' = ConnectResultList(result, b)
      BY <1>1, <2>2
    <3>4. result' \in Results /\ Linked(Append(walk, b), b + 1)'
      BY <1>1, <1>2, <1>9, <1>10, <1>11, <2>1, <2>2, <3>2, <3>3, LinkOne
    <3>5. Append(walk, b) \in Seq(Buckets)
      OBVIOUS
    <3>. QED  BY <1>1, <1>2, <3>4, <3>5 DEF ResultInv
  <2>3. CASE ~(b \in Probed /\ list[b].total # 0)
    <3>1. result' = result
      BY <1>1, <2>3 DEF ConnectResultList
    <3>2. Matches(b) = {}
      <4>1. CASE b \in Probed
        <5>1. job[b] = "end"
          BY <1>1, <4>1 DEF BarrierInv, Ended
        <5>2. Range(AllOf(list[b])) = Matches(b) /\ AllOf(list[b]) \in Seq(Pairs)
          BY <1>1, <2>1, <5>1, AllOfType DEF ListInv
        <5>3. AllOf(list[b]) = <<>>
          BY <2>1, <2>3, <4>1, <5>2
        <5>. QED  BY <5>2, <5>3 DEF Range
      <4>2. CASE b \notin Probed
        BY <1>1, <4>2, MatchesAre, RowFacts
      <4>. QED  BY <4>1, <4>2
    <3>3. Below(b + 1) = Below(b)
      BY <1>9, <3>2
    <3>4. Linked(walk, b + 1)
      <4>1. \A c \in Buckets : b + 1 <= c => b <= c
        BY <1>2 DEF Buckets
      <4>2. Len(walk) <= b => Len(walk) <= b + 1
        BY <1>2
      <4>3. walk # <<>> => result.tail < b + 1
        <5>1. ASSUME walk # <<>>  PROVE result.tail < b + 1
          <6>1. /\ result.tail = walk[Len(walk)] /\ result.tail < b
                /\ walk[Len(walk)] \in Buckets
            BY <1>11, <5>1 DEF Linked
          <6>2. result.tail \in Nat
            BY <6>1 DEF Buckets
          <6>. QED  BY <1>2, <6>1, <6>2
        <5>. QED  BY <5>1
      <4>. QED  BY <1>11, <3>3, <4>1, <4>2, <4>3 DEF Linked
    <3>5. Linked(walk, b + 1)'
      BY <1>1, <3>1, <3>4, LinkedKept
    <3>. QED  BY <1>1, <1>2, <1>10, <3>1, <3>5 DEF ResultInv
  <2>. QED  BY <2>2, <2>3
<1>. QED  BY <1>3, <1>4, <1>5, <1>7, <1>8, <1>12 DEF Inv

LEMMA EndConnectKeeps ==
  ASSUME Inv, EndConnect
  PROVE  Inv'
<1>1. /\ BaseInv /\ IndexInv /\ AtInv /\ JobInv /\ BarrierInv /\ ProbeInv /\ ListInv /\ ResultInv
      /\ pc = "connect" /\ at.bucket = HashRange /\ pc' = "done"
      /\ UNCHANGED <<rKey, sKey, hash2, index, at, job, probe, list, connected, result>>
  BY DEF Inv, EndConnect
<1>2. BaseInv' /\ IndexInv' /\ AtInv'
  BY <1>1, BaseKept, IndexKept DEF BaseInv, AtInv
<1>3. Probed' = Probed /\ Pairs' = Pairs /\ (\A l : Sound(l)' <=> Sound(l))
      /\ \A m : Equal(m)' <=> Equal(m)
  BY <1>1, DataKept
<1>4. JobInv' /\ BarrierInv'
  BY <1>1, <1>3 DEF JobInv, BarrierInv, Ended
<1>5. ProbeInv' /\ ListInv'
  BY <1>1, ProbeKept, ListKept
<1>6. ResultInv'
  <2>1. PICK walk \in Seq(Buckets) : Linked(walk, at.bucket)
    BY <1>1 DEF ResultInv
  <2>2. Linked(walk, at.bucket)'
    BY <1>1, <2>1, LinkedKept
  <2>. QED  BY <1>1, <2>2 DEF ResultInv
<1>. QED  BY <1>2, <1>4, <1>5, <1>6 DEF Inv

-----------------------------------------------------------------------------
(* The jobs                                                                *)

(* A job that has not ended keeps the main thread from linking.            *)
LEMMA NotLinkingYet ==
  ASSUME JobInv, BarrierInv, NEW b \in Buckets, job[b] \in {"ready", "run"}
  PROVE  pc \notin {"connect", "done"}
BY DEF JobInv, BarrierInv, Ended

LEMMA BeginKeeps ==
  ASSUME Inv, NEW b \in Buckets, Begin(b)
  PROVE  Inv'
<1>1. /\ BaseInv /\ IndexInv /\ AtInv /\ JobInv /\ BarrierInv /\ ProbeInv /\ ListInv /\ ResultInv
      /\ job[b] = "ready" /\ job' = [job EXCEPT ![b] = "run"]
      /\ UNCHANGED <<rKey, sKey, hash2, pc, index, at, probe, list, connected, result>>
  BY DEF Inv, Begin
<1>2. job \in [Buckets -> {"none", "ready", "run", "end"}]
  BY <1>1 DEF BaseInv
<1>3. job'[b] = "run" /\ \A c \in Buckets : c # b => job'[c] = job[c]
  BY <1>1, <1>2
<1>4. b \in Probed /\ pc # "index"
  BY <1>1 DEF JobInv
<1>5. BaseInv'
  BY <1>1, <1>2, BaseKept DEF BaseInv
<1>6. IndexInv'
  BY <1>1, <1>4, IndexKept
<1>7. AtInv'
  BY <1>1 DEF AtInv
<1>8. Probed' = Probed /\ Pairs' = Pairs /\ Lists' = Lists /\ (\A l : Sound(l)' <=> Sound(l))
      /\ \A m : Equal(m)' <=> Equal(m)
  BY <1>1, DataKept
<1>9. JobInv'
  BY <1>1, <1>3, <1>4, <1>8 DEF JobInv
<1>10. BarrierInv'
  <2>1. Ended' = Ended
    BY <1>1, <1>3 DEF Ended
  <2>. QED  BY <1>1, <1>8, <2>1 DEF BarrierInv
<1>11. /\ probe[b] = [piece |-> 1, tuple |-> 1, ptr |-> 0] /\ list[b] = EmptyList
       /\ probe[b].piece = 1 /\ probe[b].tuple = 1 /\ probe[b].ptr = 0
  BY <1>1 DEF ProbeInv
<1>12. InPiece(b) \/ PastPieces(b)
  <2>1. index[b] \in Seq(Pieces)
    BY <1>1 DEF IndexInv
  <2>2. CASE index[b] = <<>>
    BY <1>11, <2>2 DEF PastPieces
  <2>3. CASE index[b] # <<>>
    <3>1. 1 \in DOMAIN index[b]
      BY <2>1, <2>3
    <3>2. Len(ProbePiece(b).rows) \in 1..Cap
      BY <1>1, <1>11, <3>1, PieceFacts DEF ProbePiece
    <3>3. 1 \in DOMAIN SRows(b)
      <4>1. SRows(b) \in Seq(SSet(b)) /\ SRows(b) # <<>>
        BY <1>1, <1>4, RowFacts DEF Probed
      <4>. QED  BY <4>1
    <3>. QED  BY <1>11, <3>1, <3>2, <3>3, SizesAssumption DEF InPiece
  <2>. QED  BY <2>2, <2>3
<1>13. ProbeInv'
  <2>1. \A c \in Buckets : (InPiece(c)' <=> InPiece(c)) /\ (PastPieces(c)' <=> PastPieces(c))
    BY <1>1, PlaceKept
  <2>. QED  BY <1>1, <1>3, <1>12, <2>1 DEF ProbeInv
<1>14. Range(AllOf(list[b])) = {} /\ Found(b) = {}
  <2>1. Range(AllOf(list[b])) = {}
    BY <1>11, EmptyListFacts
  <2>2. ASSUME NEW m \in Found(b) PROVE FALSE
    <3>1. PICK p \in DOMAIN index[b] : \E i \in DOMAIN index[b][p].rows, t \in DOMAIN SRows(b) :
            Passed(probe[b], p, t, i)
      BY DEF Found, FoundAt
    <3>2. PICK i \in DOMAIN index[b][p].rows, t \in DOMAIN SRows(b) : Passed(probe[b], p, t, i)
      BY <3>1
    <3>3. index[b] \in Seq(Pieces) /\ SRows(b) \in Seq(SSet(b))
      BY <1>1, RowFacts DEF IndexInv
    <3>4. p >= 1 /\ p \in Nat /\ t >= 1 /\ t \in Nat
      BY <3>3
    <3>. QED  BY <1>11, <3>2, <3>4 DEF Passed
  <2>. QED  BY <2>1, <2>2
<1>15. ListInv'
  <2>1. \A c : Found(c)' = Found(c) /\ Matches(c)' = Matches(c)
    BY <1>1, FoundKept, DataKept DEF Found
  <2>. QED  BY <1>1, <1>3, <1>8, <1>14, <2>1 DEF ListInv
<1>16. ResultInv'
  <2>1. pc \notin {"connect", "done"}
    BY <1>1, NotLinkingYet
  <2>. QED  BY <1>1, <2>1, ResultKept
<1>. QED  BY <1>5, <1>6, <1>7, <1>9, <1>10, <1>13, <1>15, <1>16 DEF Inv

(* Where a step of a probe takes it.                                       *)
LEMMA AfterPlace ==
  ASSUME NEW b, Searching(b), NEW rest \in 0..Len(ProbePiece(b).rows),
         rest # 0 => Hash2Of(ProbePiece(b), rest) = hash2[sKey[ProbeRow(b)]],
         UNCHANGED <<rKey, sKey, hash2, index>>, probe'[b] = After(b, rest)
  PROVE  /\ probe'[b] \in [piece : Nat \ {0}, tuple : Nat \ {0}, ptr : Nat]
         /\ InPiece(b)' \/ PastPieces(b)'
<1>. DEFINE x == probe[b]
            n == Len(SRows(b))
<1>1. /\ x \in [piece : Nat \ {0}, tuple : Nat \ {0}, ptr : Nat]
      /\ x.piece \in DOMAIN index[b] /\ x.tuple \in DOMAIN SRows(b)
      /\ n \in Nat /\ DOMAIN SRows(b) = 1..n
      /\ Len(index[b]) \in Nat /\ DOMAIN index[b] = 1..Len(index[b])
      /\ Len(ProbePiece(b).rows) \in Nat
  BY SearchingFacts DEF Searching, InPiece
<1>2. SRows(b)' = SRows(b)
  BY DEF SRows
<1>3. CASE rest # 0
  <2>1. probe'[b] = [x EXCEPT !.ptr = rest]
    BY <1>3 DEF After
  <2>. HIDE DEF x
  <2>2. /\ probe'[b].piece = x.piece /\ probe'[b].tuple = x.tuple /\ probe'[b].ptr = rest
        /\ probe'[b] \in [piece : Nat \ {0}, tuple : Nat \ {0}, ptr : Nat]
    BY <1>1, <2>1
  <2>3. ProbePiece(b)' = ProbePiece(b) /\ ProbeRow(b)' = ProbeRow(b)
    BY <1>2, <2>2 DEF ProbePiece, ProbeRow, x
  <2>4. Hash2Of(ProbePiece(b), rest)' = Hash2Of(ProbePiece(b), rest)
    BY <2>3 DEF Hash2Of
  <2>5. InPiece(b)'
    <3>1. index'[b] = index[b] /\ hash2'[sKey'[ProbeRow(b)']] = hash2[sKey[ProbeRow(b)]]
      BY <2>3
    <3>. QED  BY <1>1, <1>2, <1>3, <2>2, <2>3, <3>1 DEF InPiece, Hash2Of
  <2>. QED  BY <2>2, <2>5
<1>4. CASE rest = 0 /\ x.tuple < n
  <2>1. probe'[b] = [x EXCEPT !.tuple = @ + 1, !.ptr = 0]
    BY <1>4 DEF After, NextProbe
  <2>. HIDE DEF x
  <2>2. /\ probe'[b].piece = x.piece /\ probe'[b].tuple = x.tuple + 1 /\ probe'[b].ptr = 0
        /\ probe'[b] \in [piece : Nat \ {0}, tuple : Nat \ {0}, ptr : Nat]
    <3>1. probe'[b] = [piece |-> x.piece, tuple |-> x.tuple + 1, ptr |-> 0]
      BY <1>1, <2>1
    <3>2. x.piece \in Nat \ {0} /\ x.tuple + 1 \in Nat \ {0}
      BY <1>1
    <3>. QED  BY <3>1, <3>2
  <2>3. ProbePiece(b)' = ProbePiece(b)
    BY <2>2 DEF ProbePiece, x
  <2>4. InPiece(b)'
    BY <1>1, <1>2, <1>4, <2>2, <2>3 DEF InPiece
  <2>. QED  BY <2>2, <2>4
<1>5. CASE rest = 0 /\ ~(x.tuple < n)
  <2>1. probe'[b] = [piece |-> x.piece + 1, tuple |-> 1, ptr |-> 0]
    BY <1>5 DEF After, NextProbe
  <2>. HIDE DEF x
  <2>2. /\ probe'[b].piece = x.piece + 1 /\ probe'[b].tuple = 1 /\ probe'[b].ptr = 0
        /\ probe'[b] \in [piece : Nat \ {0}, tuple : Nat \ {0}, ptr : Nat]
    BY <1>1, <2>1
  <2>3. CASE x.piece = Len(index[b])
    <3>1. PastPieces(b)'
      BY <1>1, <2>2, <2>3 DEF PastPieces
    <3>. QED  BY <2>2, <3>1
  <2>4. CASE x.piece # Len(index[b])
    <3>1. x.piece + 1 \in DOMAIN index[b]
      BY <1>1, <2>4
    <3>2. Len(index[b][x.piece + 1].rows) \in 1..Cap
      BY <3>1, PieceFacts DEF Searching
    <3>3. ProbePiece(b)' = index[b][x.piece + 1]
      BY <2>2 DEF ProbePiece
    <3>4. 1 \in DOMAIN SRows(b)
      BY <1>1
    <3>5. InPiece(b)'
      BY <1>2, <2>2, <3>1, <3>2, <3>3, <3>4, SizesAssumption DEF InPiece
    <3>. QED  BY <2>2, <3>5
  <2>. QED  BY <2>3, <2>4
<1>. QED  BY <1>3, <1>4, <1>5

(* A job that follows a chain.                                             *)
LEMMA SearchKeeps ==
  ASSUME Inv, NEW b \in Buckets, Searching(b),
         NEW rest \in 0..Len(ProbePiece(b).rows),
         rest # 0 => Hash2Of(ProbePiece(b), rest) = hash2[sKey[ProbeRow(b)]],
         probe[b].ptr # 0 => rest < probe[b].ptr,
         probe' = [probe EXCEPT ![b] = After(b, rest)],
         NEW l, list' = [list EXCEPT ![b] = l],
         Sound(l), Range(AllOf(l)) = Range(AllOf(list[b])) \cup Between(b, rest),
         UNCHANGED <<rKey, sKey, hash2, pc, index, at, job, connected, result>>
  PROVE  Inv'
<1>1. /\ BaseInv /\ IndexInv /\ AtInv /\ JobInv /\ BarrierInv /\ ProbeInv /\ ListInv /\ ResultInv
      /\ job[b] = "run" /\ pc # "index"
  BY DEF Inv, Searching
<1>2. BaseInv' /\ IndexInv' /\ AtInv'
  BY <1>1, BaseKept, IndexKept DEF BaseInv, AtInv
<1>3. Probed' = Probed /\ Pairs' = Pairs /\ Lists' = Lists /\ (\A k : Sound(k)' <=> Sound(k))
      /\ \A m : Equal(m)' <=> Equal(m)
  BY DataKept
<1>4. JobInv' /\ BarrierInv'
  BY <1>1, <1>3 DEF JobInv, BarrierInv, Ended
<1>5. /\ probe'[b] = After(b, rest) /\ list'[b] = l
      /\ \A c \in Buckets : c # b => probe'[c] = probe[c] /\ list'[c] = list[c]
  BY <1>1 DEF ProbeInv, ListInv
<1>6. /\ probe'[b] \in [piece : Nat \ {0}, tuple : Nat \ {0}, ptr : Nat]
      /\ InPiece(b)' \/ PastPieces(b)'
  BY <1>5, AfterPlace
<1>7. ProbeInv'
  <2>1. probe' \in [Buckets -> [piece : Nat \ {0}, tuple : Nat \ {0}, ptr : Nat]]
    BY <1>1, <1>5, <1>6 DEF ProbeInv
  <2>2. ASSUME NEW c \in Buckets
        PROVE  /\ job[c] \in {"none", "ready"} =>
                    probe'[c] = [piece |-> 1, tuple |-> 1, ptr |-> 0] /\ list'[c] = EmptyList
               /\ job[c] = "run" => InPiece(c)' \/ PastPieces(c)'
    <3>1. CASE c = b
      BY <1>1, <1>6, <3>1
    <3>2. CASE c # b
      <4>1. probe'[c] = probe[c] /\ list'[c] = list[c]
        BY <1>5, <3>2
      <4>2. (InPiece(c)' <=> InPiece(c)) /\ (PastPieces(c)' <=> PastPieces(c))
        BY <4>1, PlaceKept
      <4>. QED  BY <1>1, <4>1, <4>2 DEF ProbeInv
    <3>. QED  BY <3>1, <3>2
  <2>. QED  BY <2>1, <2>2 DEF ProbeInv
<1>8. ListInv'
  <2>1. l \in Lists /\ list' \in [Buckets -> Lists]
    <3>1. l \in Lists
      BY DEF Sound
    <3>. QED  BY <1>1, <3>1 DEF ListInv
  <2>2. FoundAt(b, After(b, rest)) = Found(b) \cup Between(b, rest)
    BY FoundStep
  <2>3. \A c, x : FoundAt(c, x)' = FoundAt(c, x)
    BY FoundKept
  <2>4. Found(b)' = FoundAt(b, After(b, rest))
    BY <1>5, FoundKept DEF FoundAt, Found, Passed, Matches, Equal, RSet, SSet, SRows
  <2>5. \A c \in Buckets : c # b => Found(c)' = Found(c)
    BY <1>5 DEF FoundAt, Found, Passed, Matches, Equal, RSet, SSet, SRows
  <2>6. \A c : Matches(c)' = Matches(c)
    BY DataKept
  <2>7. Range(AllOf(l)) = Found(b)'
    BY <1>1, <2>2, <2>4 DEF ListInv
  <2>8. ASSUME NEW c \in Buckets
        PROVE  /\ Sound(list'[c])
               /\ job[c] = "run" => Range(AllOf(list'[c])) = Found(c)'
               /\ job[c] = "end" => list'[c].buff = <<>> /\ Range(AllOf(list'[c])) = Matches(c)
    <3>1. CASE c = b
      BY <1>1, <1>5, <2>7, <3>1
    <3>2. CASE c # b
      BY <1>1, <1>5, <2>5, <3>2 DEF ListInv
    <3>. QED  BY <3>1, <3>2
  <2>. QED  BY <1>3, <2>1, <2>6, <2>8 DEF ListInv
<1>9. ResultInv'
  <2>1. pc \notin {"connect", "done"}
    BY <1>1, NotLinkingYet
  <2>. QED  BY <1>1, <2>1, ResultKept
<1>. QED  BY <1>2, <1>4, <1>7, <1>8, <1>9 DEF Inv

LEMMA IsSearching ==
  ASSUME Inv, NEW b \in Buckets, job[b] = "run", InPiece(b)
  PROVE  Searching(b)
BY DEF Inv, Searching, JobInv, ProbeInv

LEMMA FollowChainKeeps ==
  ASSUME Inv, NEW b \in Buckets, FollowChain(b)
  PROVE  Inv'
<1>. DEFINE head == ProbePiece(b).buckets[hash2[sKey[ProbeRow(b)]]]
<1>1. /\ ListInv /\ ProbeInv /\ IndexInv
      /\ job[b] = "run" /\ probe[b].piece <= Len(index[b]) /\ probe[b].ptr = 0
      /\ probe' = [probe EXCEPT ![b] = IF head = 0 THEN NextProbe(b)
                                       ELSE [probe[b] EXCEPT !.ptr = head]]
      /\ UNCHANGED <<rKey, sKey, hash2, pc, index, at, job, list, connected, result>>
  BY DEF Inv, FollowChain
<1>2. Searching(b)
  <2>1. index[b] \in Seq(Pieces)
    BY <1>1 DEF IndexInv
  <2>2. ~PastPieces(b)
    BY <1>1, <2>1 DEF PastPieces
  <2>. QED  BY <1>1, <2>2, IsSearching DEF ProbeInv
<1>3. /\ head \in 0..Len(ProbePiece(b).rows)
      /\ head # 0 => Hash2Of(ProbePiece(b), head) = hash2[sKey[ProbeRow(b)]]
      /\ Between(b, head) = {}
  BY <1>1, <1>2, HeadFacts
<1>. HIDE DEF head
<1>4. probe' = [probe EXCEPT ![b] = After(b, head)]
  BY <1>1 DEF After
<1>5. /\ list' = [list EXCEPT ![b] = list[b]] /\ Sound(list[b])
      /\ Range(AllOf(list[b])) = Range(AllOf(list[b])) \cup Between(b, head)
  BY <1>1, <1>3 DEF ListInv
<1>. QED  BY <1>1, <1>2, <1>3, <1>4, <1>5, SearchKeeps

LEMMA VisitLinkKeeps ==
  ASSUME Inv, NEW b \in Buckets, VisitLink(b)
  PROVE  Inv'
<1>. DEFINE ptr == probe[b].ptr
            link == ProbePiece(b).chain[ptr]
            m == <<ProbePiece(b).rows[ptr], ProbeRow(b)>>
            l == IF Equal(m) THEN PushResult(list[b], m) ELSE list[b]
<1>1. /\ ListInv /\ ProbeInv
      /\ job[b] = "run" /\ ptr # 0
      /\ list' = IF rKey[ProbePiece(b).rows[ptr]] # sKey[ProbeRow(b)] THEN list
                 ELSE [list EXCEPT ![b] = PushResult(list[b], m)]
      /\ probe' = [probe EXCEPT ![b] = IF link = 0 THEN NextProbe(b)
                                       ELSE [probe[b] EXCEPT !.ptr = link]]
      /\ UNCHANGED <<rKey, sKey, hash2, pc, index, at, job, connected, result>>
  BY DEF Inv, VisitLink
<1>2. Searching(b)
  <2>1. ~PastPieces(b)
    BY <1>1 DEF PastPieces
  <2>. QED  BY <1>1, <2>1, IsSearching DEF ProbeInv
<1>3. /\ link \in 0..ptr-1
      /\ link # 0 => Hash2Of(ProbePiece(b), link) = hash2[sKey[ProbeRow(b)]]
      /\ m \in Pairs /\ m \notin Found(b)
      /\ Between(b, link) = IF Equal(m) THEN {m} ELSE {}
  BY <1>1, <1>2, LinkFacts
<1>4. link \in 0..Len(ProbePiece(b).rows) /\ link < ptr
  <2>1. ptr \in 0..Len(ProbePiece(b).rows) /\ Len(ProbePiece(b).rows) \in Nat
    BY <1>2, SearchingFacts DEF Searching, InPiece
  <2>. HIDE DEF ptr, link
  <2>. QED  BY <1>3, <2>1
<1>5. Equal(m) <=> ~(rKey[ProbePiece(b).rows[ptr]] # sKey[ProbeRow(b)])
  BY DEF Equal
<1>. HIDE DEF link, m
<1>6. list' = [list EXCEPT ![b] = l]
  BY <1>1, <1>5 DEF ListInv
<1>7. Sound(list[b]) /\ Range(AllOf(list[b])) = Found(b)
  BY <1>1 DEF ListInv
<1>8. Sound(l) /\ Range(AllOf(l)) = Range(AllOf(list[b])) \cup Between(b, link)
  <2>1. CASE Equal(m)
    <3>1. /\ Sound(PushResult(list[b], m))
          /\ Range(AllOf(PushResult(list[b], m))) = Range(AllOf(list[b])) \cup {m}
      BY <1>3, <1>7, PushResultFacts
    <3>. QED  BY <1>3, <2>1, <3>1
  <2>2. CASE ~Equal(m)
    BY <1>3, <1>7, <2>2
  <2>. QED  BY <2>1, <2>2
<1>. HIDE DEF l
<1>9. probe' = [probe EXCEPT ![b] = After(b, link)]
  BY <1>1 DEF After
<1>. QED  BY <1>1, <1>2, <1>3, <1>4, <1>6, <1>8, <1>9, SearchKeeps

(* When a probe is past the last piece, every match has been found.        *)
LEMMA AllFound ==
  ASSUME BaseInv, IndexInv, NEW b \in Buckets, pc # "index", PastPieces(b)
  PROVE  Found(b) = Matches(b)
<1>1. ASSUME NEW m \in Matches(b)
      PROVE  m \in Found(b)
  <2>1. m[1] \in RSet(b) /\ m[2] \in SSet(b) /\ m = <<m[1], m[2]>>
    BY DEF Matches
  <2>2. index[b] \in Seq(Pieces) /\ LaidOut(index[b], RSet(b))
    BY <2>1 DEF IndexInv
  <2>3. PICK p \in DOMAIN index[b] : \E i \in DOMAIN index[b][p].rows : index[b][p].rows[i] = m[1]
    BY <2>1, <2>2 DEF LaidOut
  <2>4. PICK i \in DOMAIN index[b][p].rows : index[b][p].rows[i] = m[1]
    BY <2>3
  <2>5. PICK t \in DOMAIN SRows(b) : SRows(b)[t] = m[2]
    <3>1. m[2] \in Range(SRows(b))
      BY <2>1, RowFacts
    <3>. QED  BY <3>1 DEF Range
  <2>6. Passed(probe[b], p, t, i)
    <3>1. p < probe[b].piece
      BY <2>2 DEF PastPieces
    <3>. QED  BY <3>1 DEF Passed
  <2>. QED  BY <2>1, <2>4, <2>5, <2>6 DEF Found, FoundAt
<1>. QED  BY <1>1 DEF Found, FoundAt

LEMMA EndJobKeeps ==
  ASSUME Inv, NEW b \in Buckets, EndJob(b)
  PROVE  Inv'
<1>1. /\ BaseInv /\ IndexInv /\ AtInv /\ JobInv /\ BarrierInv /\ ProbeInv /\ ListInv /\ ResultInv
      /\ job[b] = "run" /\ probe[b].piece > Len(index[b])
      /\ list' = [list EXCEPT ![b] = CleanListHead(list[b])]
      /\ job' = [job EXCEPT ![b] = "end"] /\ connected' = connected + 1
      /\ pc' = IF connected + 1 = Cardinality(Probed) /\ pc = "wait" THEN "test" ELSE pc
      /\ UNCHANGED <<rKey, sKey, hash2, index, at, probe, result>>
  BY DEF Inv, EndJob, CountAndSignal
<1>2. job \in [Buckets -> {"none", "ready", "run", "end"}]
  BY <1>1 DEF BaseInv
<1>3. job'[b] = "end" /\ \A c \in Buckets : c # b => job'[c] = job[c]
  BY <1>1, <1>2
<1>4. /\ b \in Probed /\ pc # "index" /\ pc' # "index" /\ pc \notin {"connect", "done"}
      /\ pc' = pc \/ (pc = "wait" /\ pc' = "test")
      /\ pc' \in {"write", "test", "wait"}
  BY <1>1 DEF JobInv, BarrierInv, Ended, BaseInv
<1>5. BaseInv'
  BY <1>1, <1>2, <1>4, BaseKept DEF BaseInv
<1>6. IndexInv'
  BY <1>1, <1>4, IndexKept
<1>7. AtInv'
  BY <1>1, <1>4 DEF AtInv
<1>8. Probed' = Probed /\ Pairs' = Pairs /\ Lists' = Lists /\ (\A l : Sound(l)' <=> Sound(l))
      /\ \A m : Equal(m)' <=> Equal(m)
  BY <1>1, DataKept
<1>9. JobInv'
  BY <1>1, <1>3, <1>4, <1>8 DEF JobInv
<1>10. BarrierInv'
  <2>1. Ended' = Ended \cup {b} /\ b \notin Ended
    BY <1>1, <1>3 DEF Ended
  <2>2. Cardinality(Ended \cup {b}) = Cardinality(Ended) + 1
    BY <1>1, <2>1, EndedFacts, FS_AddElement
  <2>. QED  BY <1>1, <1>4, <2>1, <2>2 DEF BarrierInv
<1>11. ProbeInv'
  <2>1. \A c \in Buckets : (InPiece(c)' <=> InPiece(c)) /\ (PastPieces(c)' <=> PastPieces(c))
    BY <1>1, PlaceKept
  <2>2. \A c \in Buckets : c # b => list'[c] = list[c]
    BY <1>1 DEF ListInv
  <2>. QED  BY <1>1, <1>3, <2>1, <2>2 DEF ProbeInv
<1>12. Found(b) = Matches(b)
  <2>1. index[b] \in Seq(Pieces)
    BY <1>1 DEF IndexInv
  <2>2. ~InPiece(b)
    BY <1>1, <2>1 DEF InPiece
  <2>3. PastPieces(b)
    BY <1>1, <2>2 DEF ProbeInv
  <2>. QED  BY <1>1, <1>4, <2>3, AllFound
<1>13. ListInv'
  <2>1. \A c : Found(c)' = Found(c) /\ Matches(c)' = Matches(c)
    BY <1>1, FoundKept, DataKept DEF Found
  <2>2. /\ Sound(CleanListHead(list[b])) /\ CleanListHead(list[b]).buff = <<>>
        /\ Range(AllOf(CleanListHead(list[b]))) = Matches(b)
    BY <1>1, <1>12, CleanListHeadFacts DEF ListInv
  <2>3. /\ list' \in [Buckets -> Lists] /\ list'[b] = CleanListHead(list[b])
        /\ \A c \in Buckets : c # b => list'[c] = list[c]
    <3>1. CleanListHead(list[b]) \in Lists
      BY <2>2 DEF Sound
    <3>. QED  BY <1>1, <3>1 DEF ListInv
  <2>4. ASSUME NEW c \in Buckets
        PROVE  /\ Sound(list'[c])
               /\ job'[c] = "run" => Range(AllOf(list'[c])) = Found(c)
               /\ job'[c] = "end" => list'[c].buff = <<>> /\ Range(AllOf(list'[c])) = Matches(c)
    <3>1. CASE c = b
      BY <1>3, <2>2, <2>3, <3>1
    <3>2. CASE c # b
      BY <1>1, <1>3, <2>3, <3>2 DEF ListInv
    <3>. QED  BY <3>1, <3>2
  <2>. QED  BY <1>8, <2>1, <2>3, <2>4 DEF ListInv
<1>14. ResultInv'
  BY <1>1, <1>4, <1>8 DEF ResultInv
<1>. QED  BY <1>5, <1>6, <1>7, <1>9, <1>10, <1>11, <1>13, <1>14 DEF Inv

-----------------------------------------------------------------------------
(* The theorems                                                            *)

LEMMA StepInv == Inv /\ [Next]_vars => Inv'
<1>. SUFFICES ASSUME Inv, [Next]_vars PROVE Inv'
  OBVIOUS
<1>1. CASE LayOutBucket
  BY <1>1, LayOutBucketKeeps
<1>2. CASE AddTuple
  BY <1>2, AddTupleKeeps
<1>3. CASE NextBucket
  BY <1>3, NextBucketKeeps
<1>4. CASE EndIndex
  BY <1>4, EndIndexKeeps
<1>5. CASE WriteJob
  BY <1>5, WriteJobKeeps
<1>6. CASE EndWrite
  BY <1>6, WhileWaiting DEF EndWrite
<1>7. CASE Wait \/ SpuriousWakeup
  BY <1>7, WhileWaiting DEF Wait, SpuriousWakeup
<1>8. CASE Pass
  BY <1>8, PassKeeps
<1>9. CASE Connect
  BY <1>9, ConnectKeeps
<1>10. CASE EndConnect
  BY <1>10, EndConnectKeeps
<1>11. CASE \E b \in Buckets : Job(b)
  <2>1. PICK b \in Buckets : Job(b)
    BY <1>11
  <2>. QED  BY <2>1, BeginKeeps, FollowChainKeeps, VisitLinkKeeps, EndJobKeeps DEF Job
<1>12. CASE UNCHANGED vars
  <2>1. UNCHANGED <<rKey, sKey, hash2, pc, index, at, job, probe, list, connected, result>>
    BY <1>12 DEF vars
  <2>2. /\ BaseInv /\ IndexInv /\ AtInv /\ JobInv /\ BarrierInv /\ ProbeInv /\ ListInv /\ ResultInv
    BY DEF Inv
  <2>3. Probed' = Probed /\ Pairs' = Pairs /\ (\A l : Sound(l)' <=> Sound(l))
        /\ (\A m : Equal(m)' <=> Equal(m)) /\ (\A b : RSet(b)' = RSet(b))
        /\ (\A x, n : Chained(x, n)' <=> Chained(x, n))
        /\ \A b, p : Built(b, p)' = Built(b, p)
    BY <2>1, DataKept DEF Built
  <2>4. IndexInv'
    BY <2>1, <2>2, <2>3 DEF IndexInv
  <2>5. BaseInv' /\ AtInv'
    BY <2>1, <2>2, BaseKept DEF BaseInv, AtInv
  <2>6. JobInv' /\ BarrierInv' /\ ResultInv'
    <3>1. \A walk, n : Linked(walk, n)' <=> Linked(walk, n)
      BY <2>1, LinkedKept
    <3>2. ResultInv'
      BY <2>1, <2>2, <3>1 DEF ResultInv
    <3>. QED  BY <2>1, <2>2, <2>3, <3>2 DEF JobInv, BarrierInv, Ended
  <2>7. ProbeInv' /\ ListInv'
    BY <2>1, <2>2, ProbeKept, ListKept
  <2>. QED  BY <2>4, <2>5, <2>6, <2>7 DEF Inv
<1>. QED  BY <1>1, <1>2, <1>3, <1>4, <1>5, <1>6, <1>7, <1>8, <1>9, <1>10, <1>11, <1>12
          DEF Next, Main, Finished

(* The inductive invariant holds in every reachable state.                 *)
THEOREM Invariance == Spec => []Inv
<1>1. Init => Inv
  BY InitInv
<1>2. Inv /\ [Next]_vars => Inv'
  BY StepInv
<1>. QED  BY <1>1, <1>2, PTL DEF Spec

LEMMA BuiltFacts ==
  ASSUME Inv, NEW b \in Buckets, NEW p \in DOMAIN index[b]
  PROVE  Built(b, p) \in 0..Len(index[b][p].rows)
<1>1. /\ index[b] \in Seq(Pieces) /\ p \in Nat /\ b \in Nat
      /\ Len(index[b][p].rows) \in Nat /\ DOMAIN index[b][p].rows = 1..Len(index[b][p].rows)
  BY PieceFacts, SizesAssumption DEF Inv, Buckets
<1>2. ASSUME pc = "index", b = at.bucket, p = at.piece
      PROVE  at.tuple - 1 \in 0..Len(index[b][p].rows)
  <2>1. index[b] # <<>> /\ p # Len(index[b]) + 1
    BY <1>1
  <2>2. at.tuple \in DOMAIN index[b][p].rows
    BY <1>2, <2>1 DEF Inv, AtInv
  <2>. QED  BY <1>1, <2>2
<1>3. at.bucket \in Nat /\ at.piece \in Nat
  BY SizesAssumption DEF Inv, AtInv
<1>4. CASE pc # "index" \/ b < at.bucket \/ (b = at.bucket /\ p < at.piece)
  BY <1>1, <1>4 DEF Built
<1>5. CASE ~(pc # "index" \/ b < at.bucket \/ (b = at.bucket /\ p < at.piece))
  <2>1. CASE b = at.bucket /\ p = at.piece
    BY <1>1, <1>2, <1>5, <2>1 DEF Built
  <2>2. CASE ~(b = at.bucket /\ p = at.piece)
    BY <1>1, <1>5, <2>2 DEF Built
  <2>. QED  BY <2>1, <2>2
<1>. QED  BY <1>4, <1>5

(* Every piece fits the cache, every chain and bucket of an index points   *)
(* into its piece, and no node of a result list holds more than MB allows. *)
THEOREM TypeCorrect == Spec => []TypeOK
<1>1. Inv => TypeOK
  <2>. SUFFICES ASSUME Inv PROVE TypeOK
    OBVIOUS
  <2>1. /\ BaseInv /\ IndexInv /\ AtInv /\ JobInv /\ BarrierInv /\ ProbeInv /\ ListInv /\ ResultInv
    BY DEF Inv
  <2>2. ASSUME NEW b \in Buckets, NEW p \in DOMAIN index[b]
        PROVE  LET piece == index[b][p]
               IN  /\ Len(piece.rows) \in 1..Cap
                   /\ \A i \in DOMAIN piece.chain : piece.chain[i] \in 0..Len(piece.rows)
                   /\ \A h \in DOMAIN piece.buckets : piece.buckets[h] \in 0..Len(piece.rows)
    <3>. DEFINE piece == index[b][p]
                n == Built(b, p)
                len == Len(piece.rows)
    <3>1. piece \in Pieces /\ len \in 1..Cap /\ len \in Nat
      BY <2>1, PieceFacts, SizesAssumption
    <3>2. n \in 0..len
      BY BuiltFacts
    <3>3. Chained(piece, n)
      BY <2>1 DEF IndexInv
    <3>4. DOMAIN piece.chain = 1..len /\ DOMAIN piece.buckets = 0..Hash2Range-1
      BY <3>1 DEF Pieces
    <3>. HIDE DEF piece, n
    <3>5. ASSUME NEW i \in DOMAIN piece.chain
          PROVE  piece.chain[i] \in 0..len
      <4>1. CASE i \in 1..n
        <5>1. piece.chain[i] \in 0..i-1
          BY <3>3, <4>1 DEF Chained, IsLast
        <5>. QED  BY <3>1, <3>2, <4>1, <5>1
      <4>2. CASE i \in n+1..len
        BY <3>1, <3>3, <4>2 DEF Chained
      <4>. QED  BY <3>1, <3>2, <3>4, <4>1, <4>2
    <3>6. ASSUME NEW h \in DOMAIN piece.buckets
          PROVE  piece.buckets[h] \in 0..len
      <4>1. piece.buckets[h] \in 0..n
        BY <3>3, <3>4 DEF Chained, IsLast
      <4>. QED  BY <3>1, <3>2, <4>1
    <3>. QED  BY <3>1, <3>5, <3>6 DEF piece
  <2>3. connected \in 0..HashRange
    BY <2>1, EndedFacts DEF BarrierInv
  <2>4. \A b \in Buckets : /\ list[b] \in Lists
                           /\ Len(list[b].buff) <= MaxTuples
                           /\ \A n \in DOMAIN list[b].nodes :
                                Len(list[b].nodes[n]) \in 1..MaxTuples
    BY <2>1 DEF ListInv, Sound
  <2>5. result \in Results
    BY <2>1 DEF ResultInv
  <2>. QED  BY <2>1, <2>2, <2>3, <2>4, <2>5 DEF TypeOK, BaseInv
<1>. QED  BY <1>1, Invariance, PTL

(* searchThreadVer links a result list only when its job has ended.        *)
THEOREM Barrier == Spec => []ConnectsFinishedLists
<1>1. Inv => ConnectsFinishedLists
  BY DEF Inv, BarrierInv, Ended, ConnectsFinishedLists
<1>. QED  BY <1>1, Invariance, PTL

(* The result of searchThreadVer is the join: who follows its links to the *)
(* end finds every pair of rows with equal keys, each once, and as many as *)
(* are counted.                                                            *)
THEOREM JoinIsExact == Spec => []JoinExact
<1>1. Inv => JoinExact
  <2>. SUFFICES ASSUME Inv, pc = "done" PROVE JoinExact
    BY DEF JoinExact
  <2>1. /\ BaseInv /\ at.bucket = HashRange /\ HashRange \in Nat
        /\ \E walk \in Seq(Buckets) : Linked(walk, at.bucket)
    BY SizesAssumption DEF Inv, AtInv, ResultInv
  <2>2. PICK walk \in Seq(Buckets) : Linked(walk, HashRange)
    BY <2>1
  <2>. DEFINE rows == FlattenSeq(NodesOf(walk))
              l == Joined(walk)
  <2>3. /\ IsWalk(walk) /\ Len(walk) <= HashRange /\ Sound(l)
        /\ Range(AllOf(l)) = Below(HashRange) /\ result.numbOfNodes = Len(NodesOf(walk))
    BY <2>2 DEF Linked
  <2>4. l.nodes = NodesOf(walk) /\ l.buff = <<>> /\ l.total = result.total
    BY DEF Joined
  <2>. HIDE DEF l
  <2>5. AllOf(l) = rows /\ rows \in Seq(Pairs) /\ Once(rows) /\ result.total = Len(rows)
    <3>1. l \in Lists /\ Once(AllOf(l)) /\ l.total = Len(AllOf(l))
      BY <2>3 DEF Sound
    <3>2. FlattenSeq(l.nodes) \in Seq(Pairs)
      BY <3>1, AllOfType
    <3>3. AllOf(l) = rows
      BY <2>4, <3>2, ConcatEmptySeq DEF AllOf
    <3>. QED  BY <2>4, <3>1, <3>2, <3>3
  <2>. HIDE DEF rows
  <2>6. \A m \in Pairs : H1(sKey[m[2]]) < HashRange
    <3>1. ASSUME NEW m \in Pairs PROVE H1(sKey[m[2]]) < HashRange
      <4>1. m[2] \in DOMAIN sKey
        BY DEF Pairs
      <4>2. H1(sKey[m[2]]) \in Buckets
        BY <2>1, <4>1, HashFacts
      <4>. QED  BY <4>2, SizesAssumption DEF Buckets
    <3>. QED  BY <3>1
  <2>7. Range(rows) = {m \in Pairs : rKey[m[1]] = sKey[m[2]]}
    BY <2>3, <2>5, <2>6 DEF Below, Equal
  <2>8. Len(rows) = Cardinality(Range(rows))
    BY <2>5, OnceCardinality
  <2>9. walk \in BoundedSeq(Buckets, HashRange)
    <3>1. walk \in [1..Len(walk) -> Buckets] /\ Len(walk) \in 0..HashRange
      BY <2>1, <2>3
    <3>. QED  BY <3>1 DEF BoundedSeq, SeqOf
  <2>. QED  BY <2>3, <2>5, <2>7, <2>8, <2>9 DEF JoinExact, rows
<1>. QED  BY <1>1, Invariance, PTL
=============================================================================
