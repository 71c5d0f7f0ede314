-------------------------- MODULE JoinOrderProofs --------------------------
(***************************************************************************)
(* Proofs about JoinOrder for all connected queries of up to ten relations *)
(* and ten joins.                                                          *)
(*                                                                         *)
(* The argument: a tree of a set S has one join less than S has relations, *)
(* each of them brings in one relation (IsTree); as long as a set with a   *)
(* tree is not all relations, a join leads out of it, so every level has   *)
(* one.  The self joins and the tree have no join twice, so they fit in    *)
(* priorities.  Of the joins that SetPriorities looks at afterwards it     *)
(* finds each one like itself, but for those of Rest: the first of its     *)
(* pair in priorities is always a self join or one of the tree (RestInv).  *)
(***************************************************************************)
EXTENDS JoinOrder, FiniteSetTheorems, SequenceTheorems, WellFoundedInduction,
        TLAPS

-----------------------------------------------------------------------------
(* Facts about numbers and sequences                                       *)

(* No element is at two positions.                                         *)
Once(s) == \A i, l \in DOMAIN s : s[i] = s[l] => i = l

(* A set of natural numbers has a least element.                           *)
LEMMA LeastOf ==
  ASSUME NEW T, T \subseteq Nat, T # {}
  PROVE  \E x \in T : \A y \in T : x <= y
<1>1. PICK x \in T : \A y \in T : <<y, x>> \notin OpToRel(<, Nat)
  BY WFMin, NatLessThanWellFounded, Zenon
<1>2. \A y \in T : ~(y < x)
  BY <1>1, Zenon DEF OpToRel
<1>3. \A y \in T : x <= y
  BY <1>2
<1>. QED  BY <1>3

(* Induction, for a set that is given by what is to be shown.              *)
LEMMA InductionInSet ==
  ASSUME NEW T, 0 \in T, \A n \in Nat : n \in T => n + 1 \in T
  PROVE  Nat \subseteq T
<1>. DEFINE missing == Nat \ T
<1>1. SUFFICES ASSUME missing # {} PROVE FALSE
  OBVIOUS
<1>2. PICK x \in missing : \A y \in missing : x <= y
  BY <1>1, LeastOf
<1>3. x # 0 /\ x - 1 \in Nat
  BY <1>2
<1>4. x - 1 \in T
  BY <1>2, <1>3
<1>5. (x - 1) + 1 \in T
  BY <1>3, <1>4
<1>. QED  BY <1>5, <1>2

(* The same up to a bound, for what a sequence or a prefix satisfies.      *)
LEMMA InductionUpTo ==
  ASSUME NEW m \in Nat, NEW T, 0 \in T,
         \A n \in 0..m-1 : n \in T => n + 1 \in T
  PROVE  0..m \subseteq T
<1>. DEFINE U == T \cup {n \in Nat : n > m}
<1>1. 0 \in U
  OBVIOUS
<1>2. \A n \in Nat : n \in U => n + 1 \in U
  OBVIOUS
<1>. HIDE DEF U
<1>3. Nat \subseteq U
  BY <1>1, <1>2, InductionInSet
<1>. QED  BY <1>3 DEF U

(* FlattenSeq                                                              *)

LEMMA OnceAppend ==
  ASSUME NEW S, NEW s \in Seq(S), NEW e \in S
  PROVE  /\ Range(Append(s, e)) = Range(s) \cup {e}
         /\ Once(s) /\ e \notin Range(s) => Once(Append(s, e))
<1>. DEFINE t == Append(s, e)
<1>1. /\ Len(s) \in Nat /\ DOMAIN s = 1..Len(s) /\ DOMAIN t = 1..Len(s)+1
      /\ (\A i \in 1..Len(s) : t[i] = s[i]) /\ t[Len(s) + 1] = e
  OBVIOUS
<1>. HIDE DEF t
<1>2. \A i \in DOMAIN t : i \in DOMAIN s \/ i = Len(s) + 1
  BY <1>1
<1>3. \A i \in DOMAIN s : i \in DOMAIN t /\ i # Len(s) + 1
  BY <1>1
<1>4. Len(s) + 1 \in DOMAIN t
  BY <1>1
<1>5. Range(t) = Range(s) \cup {e}
  BY <1>1, <1>2, <1>3, <1>4, Zenon DEF Range
<1>6. ASSUME Once(s), e \notin Range(s), NEW i \in DOMAIN t, NEW l \in DOMAIN t, t[i] = t[l]
      PROVE  i = l
  BY <1>1, <1>2, <1>6, Zenon DEF Once, Range
<1>. QED  BY <1>5, <1>6 DEF t, Once

LEMMA OnceConcat ==
  ASSUME NEW S, NEW s \in Seq(S), NEW t \in Seq(S),
         Once(s), Once(t), Range(s) \cap Range(t) = {}
  PROVE  Once(s \o t)
<1>. DEFINE u == s \o t
<1>1. /\ Len(s) \in Nat /\ DOMAIN s = 1..Len(s)
      /\ Len(t) \in Nat /\ DOMAIN t = 1..Len(t)
      /\ DOMAIN u = 1..Len(s)+Len(t)
      /\ \A i \in 1..Len(s)+Len(t) : u[i] = IF i <= Len(s) THEN s[i] ELSE t[i - Len(s)]
  BY ConcatProperties, LenProperties
<1>. HIDE DEF u
<1>2. \A i \in DOMAIN u : \/ i \in DOMAIN s /\ u[i] = s[i]
                          \/ i - Len(s) \in DOMAIN t /\ u[i] = t[i - Len(s)]
  BY <1>1
<1>3. ASSUME NEW i \in DOMAIN u, NEW l \in DOMAIN u, u[i] = u[l]
      PROVE  i = l
  <2>1. \A a \in DOMAIN s, b \in DOMAIN t : s[a] # t[b]
    BY Zenon DEF Range
  <2>2. CASE i \in DOMAIN s /\ u[i] = s[i] /\ l \in DOMAIN s /\ u[l] = s[l]
    BY <2>2, <1>3 DEF Once
  <2>3. CASE /\ i - Len(s) \in DOMAIN t /\ u[i] = t[i - Len(s)]
             /\ l - Len(s) \in DOMAIN t /\ u[l] = t[l - Len(s)]
    <3>1. i - Len(s) = l - Len(s)
      BY <2>3, <1>3, Zenon DEF Once
    <3>. QED  BY <3>1, <1>1
  <2>. QED  BY <1>2, <1>3, <2>1, <2>2, <2>3
<1>. QED  BY <1>3 DEF u, Once

(* A sequence without repetition is as long as its elements are many.      *)
LEMMA OnceCardinality ==
  ASSUME NEW S, NEW s \in Seq(S), Once(s)
  PROVE  IsFiniteSet(Range(s)) /\ Cardinality(Range(s)) = Len(s)
<1>1. Len(s) \in Nat /\ DOMAIN s = 1..Len(s)
  OBVIOUS
<1>2. s \in [1..Len(s) -> Range(s)]
  BY <1>1 DEF Range
<1>3. s \in Bijection(1..Len(s), Range(s))
  BY <1>1, <1>2 DEF Bijection, Injection, Surjection, Once, Range, IsInjective
<1>4. ExistsBijection(1..Len(s), Range(s))
  BY <1>3 DEF ExistsBijection
<1>5. IsFiniteSet(1..Len(s)) /\ Cardinality(1..Len(s)) = Len(s)
  BY <1>1, FS_Interval
<1>. QED  BY <1>4, <1>5, FS_Bijection

-----------------------------------------------------------------------------
QueryInv ==
  /\ numOfRels \in 2..10
  /\ NumJoins \in 1..10
  /\ DOMAIN joins = 0..NumJoins-1
  /\ \A i \in DOMAIN joins : Pair(joins[i]) \subseteq Rels
  /\ ConnectedQuery(joins)

SelfSet == {i \in DOMAIN joins : IsSelfJoin(joins[i])}

-----------------------------------------------------------------------------
(* The self joins                                                          *)

LEMMA QuerySizes ==
  ASSUME NEW q \in Queries, numOfRels = q.numOfRels, joins = q.joins, ConnectedQuery(joins)
  PROVE  QueryInv
<1>1. PICK n \in 1..10 : DOMAIN joins = 0..n-1
  BY SizesAssumption
<1>2. NumJoins = n
  <2>1. Cardinality(0..n-1) = n
    BY FS_Interval
  <2>. QED  BY <1>1, <2>1 DEF NumJoins
<1>3. numOfRels \in 2..10
  BY SizesAssumption
<1>4. \A i \in DOMAIN joins : Pair(joins[i]) \subseteq Rels
  BY JoinsAssumption DEF Pair, Rels
<1>. QED  BY <1>1, <1>2, <1>3, <1>4 DEF QueryInv

(* The function by which SelfJoins is defined.                             *)
Collects(n, f) ==
  f = [i \in 0..n |-> IF i = 0 THEN <<>>
                      ELSE IF IsSelfJoin(joins[i-1]) THEN Append(f[i-1], i-1) ELSE f[i-1]]

LEMMA CollectsExists ==
  ASSUME NEW m \in Nat
  PROVE  \E f : Collects(m, f)
<1>. DEFINE T == {n \in Nat : \E f : Collects(n, f)}
            Grown(prev, i) == IF IsSelfJoin(joins[i-1]) THEN Append(prev, i-1) ELSE prev
<1>1. 0 \in T
  <2>. DEFINE f == [i \in 0..0 |-> <<>>]
  <2>1. f = [i \in 0..0 |-> IF i = 0 THEN <<>> ELSE Grown(f[i-1], i)]
    OBVIOUS
  <2>2. \E g : Collects(0, g)
    BY <2>1, Zenon DEF Collects
  <2>. QED  BY <2>2
<1>2. ASSUME NEW n \in Nat, n \in T
      PROVE  n + 1 \in T
  <2>1. PICK f : Collects(n, f)
    BY <1>2
  <2>. HIDE DEF Grown
  <2>. DEFINE g == [i \in 0..n+1 |-> IF i \in 0..n THEN f[i] ELSE Grown(f[n], i)]
  <2>2. \A i \in 0..n : f[i] = IF i = 0 THEN <<>> ELSE Grown(f[i-1], i)
    BY <2>1, Zenon DEF Collects, Grown
  <2>3. ASSUME NEW i \in 0..n+1
        PROVE  g[i] = IF i = 0 THEN <<>> ELSE Grown(g[i-1], i)
    <3>1. CASE i \in 0..n
      <4>1. i # 0 => i - 1 \in 0..n /\ i - 1 \in 0..n+1
        BY <3>1
      <4>2. g[i] = f[i] /\ (i # 0 => g[i-1] = f[i-1])
        BY <3>1, <4>1
      <4>. QED  BY <2>2, <3>1, <4>2, Zenon
    <3>2. CASE i = n + 1
      <4>1. i # 0 /\ i - 1 = n /\ n \in 0..n /\ n \in 0..n+1 /\ i \notin 0..n
        BY <3>2
      <4>2. g[i] = Grown(f[n], i) /\ g[n] = f[n]
        BY <4>1
      <4>. QED  BY <4>1, <4>2, Zenon
    <3>. QED  BY <3>1, <3>2
  <2>4. g = [i \in 0..n+1 |-> IF i = 0 THEN <<>> ELSE Grown(g[i-1], i)]
    BY <2>3
  <2>5. \E h : Collects(n + 1, h)
    BY <2>4, Zenon DEF Collects, Grown
  <2>. QED  BY <2>5
<1>. HIDE DEF T
<1>3. m \in T
  BY <1>1, <1>2, InductionInSet
<1>. QED  BY <1>3 DEF T

LEMMA SelfJoinsDef ==
  ASSUME QueryInv
  PROVE  \E f : Collects(NumJoins, f) /\ SelfJoins(joins) = f[NumJoins]
<1>. DEFINE upTo == CHOOSE f : f = [i \in 0..Cardinality(DOMAIN joins) |->
               IF i = 0 THEN <<>>
               ELSE IF IsSelfJoin(joins[i-1]) THEN Append(f[i-1], i-1) ELSE f[i-1]]
<1>1. NumJoins \in Nat
  BY DEF QueryInv
<1>2. \E f : Collects(NumJoins, f)
  BY <1>1, CollectsExists
<1>3. \E f : f = [i \in 0..Cardinality(DOMAIN joins) |->
               IF i = 0 THEN <<>>
               ELSE IF IsSelfJoin(joins[i-1]) THEN Append(f[i-1], i-1) ELSE f[i-1]]
  BY <1>2, Zenon DEF Collects, NumJoins
<1>4. upTo = [i \in 0..Cardinality(DOMAIN joins) |->
               IF i = 0 THEN <<>>
               ELSE IF IsSelfJoin(joins[i-1]) THEN Append(upTo[i-1], i-1) ELSE upTo[i-1]]
  BY <1>3, Zenon
<1>5. SelfJoins(joins) = upTo[Cardinality(DOMAIN joins)]
  BY Zenon DEF SelfJoins
<1>. QED  BY <1>4, <1>5, Zenon DEF Collects, NumJoins

(* Every self join is collected, once.                                     *)
LEMMA SelfJoinsFacts ==
  ASSUME QueryInv
  PROVE  /\ SelfJoins(joins) \in Seq(0..NumJoins-1)
         /\ Once(SelfJoins(joins))
         /\ Range(SelfJoins(joins)) = SelfSet
<1>1. NumJoins \in Nat /\ DOMAIN joins = 0..NumJoins-1
  BY DEF QueryInv
<1>2. PICK f : Collects(NumJoins, f) /\ SelfJoins(joins) = f[NumJoins]
  BY SelfJoinsDef
<1>. DEFINE S == 0..NumJoins-1
            First(n) == {i \in SelfSet : i < n}
            T == {n \in Nat : n \in 0..NumJoins =>
                                /\ f[n] \in Seq(S) /\ Once(f[n]) /\ Range(f[n]) = First(n)}
<1>3. \A i \in 0..NumJoins :
        f[i] = IF i = 0 THEN <<>>
               ELSE IF IsSelfJoin(joins[i-1]) THEN Append(f[i-1], i-1) ELSE f[i-1]
  BY <1>2, Zenon DEF Collects
<1>4. 0 \in T
  <2>1. f[0] = <<>>
    BY <1>1, <1>3
  <2>2. <<>> \in Seq(S) /\ Once(<<>>) /\ Range(<<>>) = {}
    BY DEF Once, Range
  <2>3. First(0) = {}
    BY <1>1 DEF SelfSet
  <2>. QED  BY <2>1, <2>2, <2>3
<1>5. ASSUME NEW n \in 0..NumJoins-1, n \in T
      PROVE  n + 1 \in T
  <2>1. n \in 0..NumJoins /\ n + 1 \in 0..NumJoins /\ n + 1 # 0 /\ (n + 1) - 1 = n /\ n \in S
    BY <1>1
  <2>2. f[n] \in Seq(S) /\ Once(f[n]) /\ Range(f[n]) = First(n)
    BY <1>5, <2>1
  <2>3. f[n+1] = IF IsSelfJoin(joins[n]) THEN Append(f[n], n) ELSE f[n]
    BY <1>3, <2>1, Zenon
  <2>4. CASE IsSelfJoin(joins[n])
    <3>1. f[n+1] = Append(f[n], n)
      BY <2>3, <2>4, Zenon
    <3>2. First(n+1) = First(n) \cup {n} /\ n \notin First(n)
      BY <1>1, <2>1, <2>4 DEF SelfSet
    <3>. HIDE DEF First, S
    <3>3. Append(f[n], n) \in Seq(S)
      BY <2>1, <2>2
    <3>. DEFINE fn == f[n]
    <3>4. fn \in Seq(S) /\ Once(fn) /\ n \in S /\ n \notin Range(fn) /\ Range(fn) = First(n)
      BY <2>1, <2>2, <3>2, Zenon
    <3>. HIDE DEF fn
    <3>5. Range(Append(fn, n)) = Range(fn) \cup {n} /\ Once(Append(fn, n))
      BY <3>4, OnceAppend
    <3>6. Range(f[n+1]) = First(n+1) /\ Once(f[n+1]) /\ f[n+1] \in Seq(S)
      BY <3>1, <3>2, <3>3, <3>4, <3>5, Zenon DEF fn
    <3>7. n + 1 \in Nat
      BY <2>1
    <3>. QED  BY <3>6, <3>7, Zenon
  <2>5. CASE ~IsSelfJoin(joins[n])
    <3>1. f[n+1] = f[n]
      BY <2>3, <2>5, Zenon
    <3>2. First(n+1) = First(n)
      BY <1>1, <2>1, <2>5 DEF SelfSet
    <3>. HIDE DEF First, S
    <3>. QED  BY <2>1, <2>2, <3>1, <3>2
  <2>. QED  BY <2>4, <2>5
<1>. HIDE DEF T
<1>6. 0..NumJoins \subseteq T
  BY <1>1, <1>4, <1>5, InductionUpTo
<1>7. NumJoins \in T /\ NumJoins \in 0..NumJoins
  BY <1>1, <1>6
<1>8. First(NumJoins) = SelfSet
  BY <1>1 DEF SelfSet
<1>. QED  BY <1>2, <1>7, <1>8 DEF T

-----------------------------------------------------------------------------
(* Trees                                                                   *)

IsTree(seq, S) ==
  /\ seq \in Seq(0..NumJoins-1)
  /\ Once(seq)
  /\ Len(seq) = Cardinality(S) - 1
  /\ \A n \in DOMAIN seq : /\ joins[seq[n]].rel1 # joins[seq[n]].rel2
                           /\ Pair(joins[seq[n]]) \subseteq S
  /\ Cardinality(S) > 1 => RelsBefore(seq, Cardinality(S)) = S
  /\ \A n \in 2..Len(seq) : Cardinality(Pair(joins[seq[n]]) \ RelsBefore(seq, n)) = 1

TreesOfSets == \A S \in DOMAIN hashTree : IsTree(hashTree[S], S)

TreesInv ==
  /\ level \in 1..numOfRels
  /\ DOMAIN hashTree \subseteq Trees
  /\ TreesOfSets
  /\ \E S \in DOMAIN hashTree : Cardinality(S) = level

LEMMA MinFacts ==
  ASSUME NEW T, T \subseteq Nat, T # {}
  PROVE  Min(T) \in T /\ \A y \in T : Min(T) <= y
<1>1. \E x \in T : \A y \in T : x <= y
  BY LeastOf
<1>. QED  BY <1>1, Zenon DEF Min

LEMMA RelsFacts ==
  ASSUME QueryInv
  PROVE  /\ IsFiniteSet(Rels) /\ Cardinality(Rels) = numOfRels /\ numOfRels \in Nat
         /\ \A S \in SUBSET Rels :
              /\ IsFiniteSet(S) /\ Cardinality(S) \in 0..numOfRels
              /\ Cardinality(S) = 0 <=> S = {}
              /\ Cardinality(S) = numOfRels => S = Rels
<1>1. numOfRels \in Nat
  BY DEF QueryInv
<1>2. IsFiniteSet(Rels) /\ Cardinality(Rels) = numOfRels
  <2>1. IsFiniteSet(0..numOfRels-1) /\ Cardinality(0..numOfRels-1) = numOfRels
    BY <1>1, FS_Interval
  <2>. QED  BY <2>1 DEF Rels
<1>3. ASSUME NEW S \in SUBSET Rels
      PROVE  /\ IsFiniteSet(S) /\ Cardinality(S) \in 0..numOfRels
             /\ Cardinality(S) = 0 <=> S = {}
             /\ Cardinality(S) = numOfRels => S = Rels
  <2>1. IsFiniteSet(S) /\ Cardinality(S) <= numOfRels
        /\ (Cardinality(S) = numOfRels => S = Rels)
    BY <1>2, FS_Subset
  <2>2. Cardinality(S) \in Nat /\ (Cardinality(S) = 0 <=> S = {})
    BY <2>1, FS_CardinalityType, FS_EmptySet
  <2>. QED  BY <1>1, <2>1, <2>2
<1>. QED  BY <1>1, <1>2, <1>3

(* The join that areConnected returns leads from the set to r.             *)
LEMMA JoinIdFacts ==
  ASSUME QueryInv, NEW S \in SUBSET Rels, NEW r \in Rels, r \notin S, areConnected(S, r)
  PROVE  /\ JoinId(S, r) \in DOMAIN joins
         /\ joins[JoinId(S, r)].rel1 # joins[JoinId(S, r)].rel2
         /\ \E c \in S : Pair(joins[JoinId(S, r)]) = {c, r}
<1>. DEFINE c == Min(Neighbours(S, r))
<1>1. c \in S /\ Edges(c, r) \cup Edges(r, c) # {}
  <2>1. Neighbours(S, r) \subseteq Nat
    <3>1. Neighbours(S, r) \subseteq S
      BY Zenon DEF Neighbours
    <3>2. Rels \subseteq Nat
      BY RelsFacts DEF Rels
    <3>. QED  BY <3>1, <3>2
  <2>2. Neighbours(S, r) # {}
    BY DEF areConnected
  <2>3. c \in Neighbours(S, r)
    BY <2>1, <2>2, MinFacts
  <2>. QED  BY <2>3 DEF Neighbours
<1>2. c # r
  BY <1>1
<1>3. \A a, b : Edges(a, b) # {} =>
                   /\ Min(Edges(a, b)) \in DOMAIN joins
                   /\ joins[Min(Edges(a, b))].rel1 = a
                   /\ joins[Min(Edges(a, b))].rel2 = b
  <2>1. ASSUME NEW a, NEW b, Edges(a, b) # {}
        PROVE  /\ Min(Edges(a, b)) \in DOMAIN joins
               /\ joins[Min(Edges(a, b))].rel1 = a
               /\ joins[Min(Edges(a, b))].rel2 = b
    <3>. DEFINE i == Min(Edges(a, b))
    <3>1. Edges(a, b) \subseteq Nat
      BY DEF Edges, QueryInv
    <3>2. i \in Edges(a, b)
      BY <2>1, <3>1, MinFacts
    <3>. HIDE DEF i
    <3>3. i \in DOMAIN joins /\ joins[i].rel1 = a /\ joins[i].rel2 = b
      BY <3>2 DEF Edges
    <3>. QED  BY <3>3 DEF i
  <2>. QED  BY <2>1
<1>4. CASE Edges(c, r) # {}
  <2>1. JoinId(S, r) = Min(Edges(c, r))
    BY <1>4, Zenon DEF JoinId
  <2>. HIDE DEF c
  <2>. QED  BY <1>1, <1>2, <1>3, <1>4, <2>1 DEF Pair
<1>5. CASE Edges(c, r) = {}
  <2>1. JoinId(S, r) = Min(Edges(r, c)) /\ Edges(r, c) # {}
    <3>1. Edges(r, c) # {}
      BY <1>1, <1>5
    <3>. QED  BY <1>5, <3>1, Zenon DEF JoinId
  <2>. HIDE DEF c
  <2>. QED  BY <1>1, <1>2, <1>3, <1>5, <2>1 DEF Pair
<1>. QED  BY <1>4, <1>5

(* A join leads out of every set but that of all relations.                *)
LEMMA SomeConnected ==
  ASSUME QueryInv, NEW S \in Trees, S # Rels
  PROVE  \E r \in Rels \ S : areConnected(S, r)
<1>1. S \in (SUBSET Rels) \ {{}, Rels}
  BY DEF Trees
<1>2. PICK i \in DOMAIN joins : ~(Pair(joins[i]) \subseteq S) /\ Pair(joins[i]) \cap S # {}
  BY <1>1, Zenon DEF QueryInv, ConnectedQuery
<1>3. Pair(joins[i]) \subseteq Rels
  BY DEF QueryInv
<1>4. PICK r \in Pair(joins[i]) : r \notin S
  BY <1>2
<1>5. PICK c \in Pair(joins[i]) : c \in S
  BY <1>2
<1>6. \/ joins[i].rel1 = c /\ joins[i].rel2 = r
      \/ joins[i].rel1 = r /\ joins[i].rel2 = c
  BY <1>4, <1>5 DEF Pair
<1>7. i \in Edges(c, r) \/ i \in Edges(r, c)
  BY <1>4, <1>5, <1>6 DEF Edges, IsSelfJoin
<1>. QED  BY <1>3, <1>4, <1>5, <1>7 DEF areConnected, Neighbours

(* A relation connected to the set of a tree makes a larger tree.          *)
LEMMA TreeGrows ==
  ASSUME QueryInv, NEW S \in Trees, NEW seq, IsTree(seq, S),
         NEW r \in Rels, r \notin S, areConnected(S, r)
  PROVE  IsTree(Append(seq, JoinId(S, r)), S \cup {r})
<1>. DEFINE e == JoinId(S, r)
            grown == Append(seq, e)
            T == S \cup {r}
            size == Cardinality(S)
            X == 0..NumJoins-1
<1>1. S \in SUBSET Rels /\ S # {}
  BY DEF Trees
<1>2. /\ e \in X /\ joins[e].rel1 # joins[e].rel2
      /\ \E c \in S : Pair(joins[e]) = {c, r}
  BY <1>1, JoinIdFacts DEF QueryInv
<1>3. PICK c \in S : Pair(joins[e]) = {c, r}
  BY <1>2
<1>4. IsFiniteSet(S) /\ size \in Nat /\ size # 0 /\ Cardinality(T) = size + 1
  <2>1. IsFiniteSet(S) /\ size \in Nat /\ size # 0
    BY <1>1, RelsFacts
  <2>. QED  BY <2>1, FS_AddElement
<1>5. /\ seq \in Seq(X) /\ Once(seq) /\ Len(seq) = size - 1
      /\ \A n \in DOMAIN seq : /\ joins[seq[n]].rel1 # joins[seq[n]].rel2
                               /\ Pair(joins[seq[n]]) \subseteq S
      /\ size > 1 => RelsBefore(seq, size) = S
      /\ \A n \in 2..Len(seq) : Cardinality(Pair(joins[seq[n]]) \ RelsBefore(seq, n)) = 1
  BY DEF IsTree
<1>. HIDE DEF e, size, X
<1>6. /\ grown \in Seq(X) /\ Len(grown) = size /\ grown[size] = e
      /\ \A n \in 1..size-1 : grown[n] = seq[n]
      /\ DOMAIN grown = 1..size /\ DOMAIN seq = 1..size-1
  BY <1>2, <1>4, <1>5
<1>7. Once(grown)
  <2>1. e \notin Range(seq)
    <3>1. \A n \in DOMAIN seq : r \notin Pair(joins[seq[n]])
      BY <1>5
    <3>2. r \in Pair(joins[e])
      BY <1>3
    <3>. QED  BY <3>1, <3>2, Zenon DEF Range
  <2>. QED  BY <1>2, <1>5, <2>1, OnceAppend
<1>. HIDE DEF grown
<1>8. \A n \in 1..size : RelsBefore(grown, n) = RelsBefore(seq, n)
  <2>1. \A n \in 1..size : \A i \in 1..n-1 : grown[i] = seq[i]
    BY <1>4, <1>6
  <2>. QED  BY <2>1 DEF RelsBefore
<1>9. size > 1 => RelsBefore(grown, size) = S
  BY <1>4, <1>5, <1>8
<1>10. RelsBefore(grown, size + 1) = T
  <2>1. RelsBefore(grown, size + 1) = RelsBefore(grown, size) \cup Pair(joins[e])
    <3>1. 1..(size + 1)-1 = (1..size-1) \cup {size}
      BY <1>4
    <3>. QED  BY <1>6, <3>1 DEF RelsBefore
  <2>2. CASE size > 1
    BY <1>3, <1>9, <2>1, <2>2
  <2>3. CASE size = 1
    <3>1. S = {c}
      <4>1. PICK a : S = {a}
        BY <1>4, <2>3, FS_Singleton DEF size
      <4>. QED  BY <4>1
    <3>2. RelsBefore(grown, size) = {}
      BY <2>3 DEF RelsBefore
    <3>. QED  BY <1>3, <2>1, <3>1, <3>2
  <2>. QED  BY <1>4, <2>2, <2>3
<1>11. ASSUME NEW n \in 2..Len(grown)
       PROVE  Cardinality(Pair(joins[grown[n]]) \ RelsBefore(grown, n)) = 1
  <2>1. CASE n < size
    <3>1. n \in 2..Len(seq) /\ n \in 1..size /\ n \in 1..size-1
      BY <1>4, <1>5, <1>6, <2>1
    <3>. QED  BY <1>5, <1>6, <1>8, <3>1
  <2>2. CASE n = size
    <3>1. RelsBefore(grown, n) = S
      BY <1>9, <2>2
    <3>2. Pair(joins[grown[n]]) \ RelsBefore(grown, n) = {r}
      BY <1>3, <1>6, <2>2, <3>1
    <3>. QED  BY <3>2, FS_Singleton
  <2>. QED  BY <1>4, <1>6, <2>1, <2>2
<1>12. ASSUME NEW n \in DOMAIN grown
       PROVE  joins[grown[n]].rel1 # joins[grown[n]].rel2 /\ Pair(joins[grown[n]]) \subseteq T
  <2>1. CASE n \in 1..size-1
    BY <1>5, <1>6, <2>1
  <2>2. CASE n = size
    BY <1>2, <1>3, <1>6, <2>2
  <2>. QED  BY <1>4, <1>6, <2>1, <2>2
<1>. HIDE DEF T
<1>13. Len(grown) = Cardinality(T) - 1 /\ (Cardinality(T) > 1 => RelsBefore(grown, Cardinality(T)) = T)
  BY <1>4, <1>6, <1>10
<1>14. IsTree(grown, T)
  BY <1>6, <1>7, <1>11, <1>12, <1>13, Zenon DEF IsTree, X
<1>. QED  BY <1>14 DEF grown, T, e

-----------------------------------------------------------------------------
(* The inductive invariant                                                 *)

(* What SetSequence has in priorities when it ends.                        *)
Base == SelfSet \cup Range(sequence)
Start == Len(SelfJoins(joins)) + Len(sequence)

CounterInv ==
  /\ pc \in {"enumerate", "sequence", "rest", "done", "undefined"}
  /\ priorities \in [0..NumJoins-1 -> -1..NumJoins-1]
  /\ j \in 0..NumJoins /\ k \in 0..NumJoins-1 /\ already \in Nat
  /\ already <= j * NumJoins + k
  /\ j = NumJoins => k = 0
  /\ pc = "rest" => j < NumJoins

InitialPriorities ==
  [i \in 0..NumJoins-1 |->
     IF i < Len(SelfJoins(joins)) THEN SelfJoins(joins)[i + 1] ELSE -1]

SequenceInv ==
  /\ pc = "enumerate" => sequence = <<>>
  /\ pc # "enumerate" => IsTree(sequence, Rels)
  /\ pc \in {"enumerate", "sequence"} =>
       priorities = InitialPriorities /\ j = 0 /\ k = 0 /\ already = 0

InPriorities(i) == \E p \in DOMAIN priorities : priorities[p] = i

(* Rest has one join at most.  When j or k has passed it, it is in         *)
(* priorities.                                                             *)
Progress ==
  /\ pc # "undefined"
  /\ Start <= j
  /\ already <= NumJoins
  /\ pc = "rest" => already <= j \/ (already = j + 1 /\ \A x \in Rest : x < k)
  /\ \A x \in Rest : pc = "done" \/ j > Start \/ k > x => InPriorities(x)

(* Before already are Base and what is in Rest, the latter behind a join   *)
(* of Base with the same relations; after already there is nothing else.   *)
Placed ==
  /\ \A p \in 0..already-1 : priorities[p] \in Base \cup Rest
  /\ \A p \in already..NumJoins-1 : priorities[p] \in {-1} \cup Rest
  /\ \A b \in Base : \E p \in 0..already-1 : priorities[p] = b
  /\ \A p \in 0..already-1 : priorities[p] \in Rest =>
       \E q \in 0..p-1 : /\ priorities[q] \in Base
                         /\ Pair(joins[priorities[q]]) = Pair(joins[priorities[p]])

RestInv ==
  pc \in {"rest", "done", "undefined"} /\ OneMore => Progress /\ Placed

Inv == QueryInv /\ TreesInv /\ CounterInv /\ SequenceInv /\ RestInv

LEMMA Unchanged ==
  ASSUME numOfRels' = numOfRels, joins' = joins
  PROVE  /\ NumJoins' = NumJoins /\ Rels' = Rels /\ Trees' = Trees
         /\ SelfSet' = SelfSet /\ SelfJoins(joins)' = SelfJoins(joins)
         /\ InitialPriorities' = InitialPriorities
         /\ QueryInv => QueryInv'
         /\ \A seq, S : IsTree(seq, S) => IsTree(seq, S)'
<1>1. NumJoins' = NumJoins /\ Rels' = Rels
  BY DEF NumJoins, Rels
<1>2. Trees' = Trees /\ SelfSet' = SelfSet
  BY <1>1 DEF Trees, SelfSet
<1>3. SelfJoins(joins)' = SelfJoins(joins)
  BY Zenon DEF SelfJoins
<1>4. InitialPriorities' = InitialPriorities
  BY <1>1, <1>3, Zenon DEF InitialPriorities
<1>5. QueryInv => QueryInv'
  BY <1>1, Zenon DEF QueryInv, ConnectedQuery
<1>6. ASSUME NEW seq, NEW S, IsTree(seq, S)
      PROVE  IsTree(seq, S)'
  <2>1. \A n : RelsBefore(seq, n)' = RelsBefore(seq, n)
    BY Zenon DEF RelsBefore
  <2>. QED  BY <1>1, <1>6, <2>1, Zenon DEF IsTree
<1>. QED  BY <1>1, <1>2, <1>3, <1>4, <1>5, <1>6

LEMMA TreesKept ==
  ASSUME joins' = joins, \A S \in DOMAIN hashTree' : IsTree(hashTree'[S], S)
  PROVE  TreesOfSets'
<1>1. NumJoins' = NumJoins
  BY DEF NumJoins
<1>2. ASSUME NEW S \in DOMAIN hashTree'
      PROVE  IsTree(hashTree[S], S)'
  <2>1. \A n : RelsBefore(hashTree[S], n)' = RelsBefore(hashTree'[S], n)
    BY Zenon DEF RelsBefore
  <2>. QED  BY <1>1, <2>1, Zenon DEF IsTree
<1>. QED  BY <1>2, Zenon DEF TreesOfSets

LEMMA SingleTree ==
  ASSUME QueryInv, NEW r \in Rels
  PROVE  {r} \in Trees /\ IsTree(<<>>, {r}) /\ Cardinality({r}) = 1
<1>. DEFINE empty == <<>>
<1>1. empty \in Seq(0..NumJoins-1) /\ Len(empty) = 0 /\ DOMAIN empty = {} /\ Once(empty)
  BY DEF Once
<1>2. Cardinality({r}) = 1
  BY FS_Singleton
<1>. HIDE DEF empty
<1>3. IsTree(empty, {r})
  BY <1>1, <1>2 DEF IsTree
<1>. QED  BY <1>2, <1>3 DEF Trees, empty

LEMMA InitialType ==
  ASSUME QueryInv
  PROVE  InitialPriorities \in [0..NumJoins-1 -> -1..NumJoins-1]
<1>. DEFINE s == SelfJoins(joins)
<1>1. s \in Seq(0..NumJoins-1) /\ NumJoins \in Nat
  BY SelfJoinsFacts DEF QueryInv
<1>. HIDE DEF s
<1>2. ASSUME NEW i \in 0..NumJoins-1
      PROVE  (IF i < Len(s) THEN s[i + 1] ELSE -1) \in -1..NumJoins-1
  <2>1. CASE i < Len(s)
    <3>1. i + 1 \in 1..Len(s)
      BY <1>1, <2>1
    <3>. QED  BY <1>1, <2>1, <3>1
  <2>2. CASE ~(i < Len(s))
    BY <1>1, <2>2
  <2>. QED  BY <2>1, <2>2
<1>. QED  BY <1>2 DEF InitialPriorities, s

LEMMA InitInv == Init => Inv
<1>. SUFFICES ASSUME Init PROVE Inv
  OBVIOUS
<1>1. QueryInv
  BY QuerySizes DEF Init
<1>2. /\ pc = "enumerate" /\ level = 1 /\ sequence = <<>>
      /\ j = 0 /\ k = 0 /\ already = 0
      /\ priorities = InitialPriorities
      /\ hashTree = [S \in {{r} : r \in Rels} |-> <<>>]
  BY Zenon DEF Init, InitialPriorities
<1>3. TreesInv
  <2>1. ASSUME NEW S \in DOMAIN hashTree
        PROVE  S \in Trees /\ IsTree(hashTree[S], S)
    <3>1. PICK r \in Rels : S = {r}
      BY <1>2
    <3>2. hashTree[S] = <<>>
      BY <1>2
    <3>. QED  BY <1>1, <3>1, <3>2, SingleTree
  <2>2. \E S \in DOMAIN hashTree : Cardinality(S) = level
    <3>1. 0 \in Rels
      BY <1>1 DEF QueryInv, Rels
    <3>2. {0} \in DOMAIN hashTree
      BY <1>2, <3>1
    <3>3. Cardinality({0}) = level
      BY <1>2, FS_Singleton
    <3>. QED  BY <3>2, <3>3
  <2>3. level \in 1..numOfRels
    BY <1>1, <1>2 DEF QueryInv
  <2>. QED  BY <2>1, <2>2, <2>3 DEF TreesInv, TreesOfSets
<1>4. CounterInv
  <2>1. NumJoins \in 1..10
    BY <1>1 DEF QueryInv
  <2>. QED  BY <1>1, <1>2, <2>1, InitialType DEF CounterInv
<1>5. SequenceInv /\ RestInv
  BY <1>2 DEF SequenceInv, RestInv
<1>. QED  BY <1>1, <1>3, <1>4, <1>5 DEF Inv

-----------------------------------------------------------------------------
(* joinEnumeration                                                         *)

LEMMA EnumerationStep == Inv /\ joinEnumeration => Inv'
<1>. SUFFICES ASSUME Inv, joinEnumeration PROVE Inv'
  OBVIOUS
<1>. DEFINE next == {T \in Trees : Cardinality(T) = level + 1 /\ LastOf(T) # {}}
<1>1. /\ pc = "enumerate" /\ level < numOfRels /\ level' = level + 1
      /\ numOfRels' = numOfRels /\ joins' = joins /\ pc' = pc
      /\ UNCHANGED <<priorities, sequence, j, k, already>>
  BY DEF joinEnumeration
<1>2. PICK last \in [next -> Rels] :
        /\ \A T \in next : last[T] \in LastOf(T)
        /\ hashTree' = [S \in DOMAIN hashTree \cup next |->
                          IF S \in next THEN CreateJoinTree(S, last[S]) ELSE hashTree[S]]
  BY Zenon DEF joinEnumeration
<1>3. QueryInv /\ QueryInv' /\ NumJoins' = NumJoins
  BY <1>1, Unchanged DEF Inv
<1>4. /\ level \in 1..numOfRels
      /\ DOMAIN hashTree \subseteq Trees
      /\ \A S \in DOMAIN hashTree : IsTree(hashTree[S], S)
      /\ \E S \in DOMAIN hashTree : Cardinality(S) = level
  BY DEF Inv, TreesInv, TreesOfSets
<1>5. ASSUME NEW T \in next
      PROVE  IsTree(CreateJoinTree(T, last[T]), T)
  <2>. DEFINE r == last[T]
              S == T \ {r}
  <2>1. r \in LastOf(T)
    BY <1>2
  <2>2. r \in T /\ S \in DOMAIN hashTree /\ areConnected(S, r)
    BY <2>1 DEF LastOf
  <2>3. r \in Rels /\ S \cup {r} = T
    BY <2>2 DEF Trees
  <2>4. S \in Trees /\ IsTree(hashTree[S], S) /\ r \notin S
    BY <1>4, <2>2
  <2>5. CreateJoinTree(T, r) = Append(hashTree[S], JoinId(S, r))
    BY Zenon DEF CreateJoinTree
  <2>. HIDE DEF r, S
  <2>6. IsTree(Append(hashTree[S], JoinId(S, r)), S \cup {r})
    BY <1>3, <2>2, <2>3, <2>4, TreeGrows
  <2>. QED  BY <2>3, <2>5, <2>6 DEF r
<1>6. \E T \in next : Cardinality(T) = level + 1
  <2>1. PICK S \in DOMAIN hashTree : Cardinality(S) = level
    BY <1>4
  <2>2. S \in Trees /\ S \in SUBSET Rels
    BY <1>4 DEF Trees
  <2>3. S # Rels /\ IsFiniteSet(S) /\ level \in Nat
    BY <1>1, <1>3, <1>4, <2>1, <2>2, RelsFacts
  <2>4. PICK r \in Rels \ S : areConnected(S, r)
    BY <1>3, <2>2, <2>3, SomeConnected
  <2>. DEFINE T == S \cup {r}
  <2>5. T \in Trees /\ T \ {r} = S /\ r \in T
    BY <2>2, <2>4 DEF Trees
  <2>6. Cardinality(T) = level + 1
    BY <2>1, <2>3, <2>4, FS_AddElement
  <2>7. r \in LastOf(T)
    BY <2>1, <2>4, <2>5 DEF LastOf
  <2>. QED  BY <2>5, <2>6, <2>7
<1>7. TreesInv'
  <2>1. Trees' = Trees
    BY <1>1, Unchanged
  <2>2. DOMAIN hashTree' = DOMAIN hashTree \cup next
    BY <1>2
  <2>3. DOMAIN hashTree' \subseteq Trees'
    BY <1>4, <2>1, <2>2
  <2>4. ASSUME NEW S \in DOMAIN hashTree'
        PROVE  IsTree(hashTree'[S], S)
    <3>1. S \in DOMAIN hashTree \cup next
      BY <2>2
    <3>2. CASE S \in next
      <4>1. hashTree'[S] = CreateJoinTree(S, last[S])
        BY <1>2, <3>1, <3>2
      <4>. QED  BY <1>5, <3>2, <4>1, Zenon
    <3>3. CASE S \notin next
      <4>1. hashTree'[S] = hashTree[S] /\ S \in DOMAIN hashTree
        BY <1>2, <3>1, <3>3
      <4>. QED  BY <1>4, <4>1, Zenon
    <3>. QED  BY <3>2, <3>3
  <2>5. TreesOfSets'
    BY <1>1, <2>4, TreesKept
  <2>6. \E S \in DOMAIN hashTree' : Cardinality(S) = level'
    BY <1>1, <1>6, <2>2
  <2>7. level' \in 1..numOfRels'
    BY <1>1, <1>3, <1>4 DEF QueryInv
  <2>. QED  BY <2>3, <2>5, <2>6, <2>7 DEF TreesInv
<1>8. CounterInv'
  BY <1>1, <1>3 DEF Inv, CounterInv
<1>9. SequenceInv' /\ RestInv'
  <2>1. InitialPriorities' = InitialPriorities
    BY <1>1, Unchanged
  <2>2. sequence = <<>> /\ priorities = InitialPriorities /\ j = 0 /\ k = 0 /\ already = 0
    BY <1>1 DEF Inv, SequenceInv
  <2>. QED  BY <1>1, <2>1, <2>2 DEF SequenceInv, RestInv
<1>. QED  BY <1>3, <1>7, <1>8, <1>9 DEF Inv

LEMMA EndStep == Inv /\ EndEnumeration => Inv'
<1>. SUFFICES ASSUME Inv, EndEnumeration PROVE Inv'
  OBVIOUS
<1>1. /\ pc = "enumerate" /\ level = numOfRels /\ pc' = "sequence" /\ sequence' = hashTree[Rels]
      /\ numOfRels' = numOfRels /\ joins' = joins
      /\ UNCHANGED <<hashTree, level, priorities, j, k, already>>
  BY DEF EndEnumeration
<1>2. QueryInv /\ QueryInv' /\ NumJoins' = NumJoins
  BY <1>1, Unchanged DEF Inv
<1>3. /\ level \in 1..numOfRels
      /\ DOMAIN hashTree \subseteq Trees
      /\ \A S \in DOMAIN hashTree : IsTree(hashTree[S], S)
      /\ \E S \in DOMAIN hashTree : Cardinality(S) = level
  BY DEF Inv, TreesInv, TreesOfSets
<1>4. /\ Trees' = Trees /\ Rels' = Rels /\ InitialPriorities' = InitialPriorities
      /\ \A seq, S : IsTree(seq, S) => IsTree(seq, S)'
  BY <1>1, Unchanged
<1>5. TreesInv'
  <2>1. TreesOfSets'
    <3>1. \A S \in DOMAIN hashTree' : IsTree(hashTree'[S], S)
      BY <1>1, <1>3
    <3>. QED  BY <1>1, <3>1, TreesKept
  <2>. QED  BY <1>1, <1>3, <1>4, <2>1 DEF TreesInv
<1>6. CounterInv'
  BY <1>1, <1>2 DEF Inv, CounterInv
<1>7. IsTree(sequence', Rels)
  <2>1. PICK S \in DOMAIN hashTree : Cardinality(S) = level
    BY <1>3
  <2>2. S = Rels
    <3>1. S \in SUBSET Rels
      BY <1>3 DEF Trees
    <3>. QED  BY <1>1, <1>2, <2>1, <3>1, RelsFacts
  <2>. QED  BY <1>1, <1>3, <2>1, <2>2
<1>8. SequenceInv' /\ RestInv'
  <2>1. priorities = InitialPriorities /\ j = 0 /\ k = 0 /\ already = 0
    BY <1>1 DEF Inv, SequenceInv
  <2>2. IsTree(sequence, Rels)'
    BY <1>4, <1>7, Zenon
  <2>. QED  BY <1>1, <1>4, <2>1, <2>2 DEF SequenceInv, RestInv
<1>. QED  BY <1>2, <1>5, <1>6, <1>8 DEF Inv

-----------------------------------------------------------------------------
(* SetSequence                                                             *)

(* The self joins and the tree are different joins, so they fit.           *)
LEMMA BaseFits ==
  ASSUME QueryInv, IsTree(sequence, Rels)
  PROVE  /\ SelfJoins(joins) \o sequence \in Seq(0..NumJoins-1)
         /\ Len(SelfJoins(joins) \o sequence) = Start
         /\ Range(SelfJoins(joins) \o sequence) = Base
         /\ Len(SelfJoins(joins)) < Start /\ Start <= NumJoins
         /\ Start = NumJoins => Base = DOMAIN joins
<1>. DEFINE s == SelfJoins(joins)
            both == s \o sequence
            X == 0..NumJoins-1
<1>1. s \in Seq(X) /\ Once(s) /\ Range(s) = SelfSet
  BY SelfJoinsFacts
<1>2. sequence \in Seq(X) /\ Once(sequence) /\ Len(sequence) = Cardinality(Rels) - 1
  BY DEF IsTree
<1>3. Range(s) \cap Range(sequence) = {}
  <2>1. \A n \in DOMAIN sequence : sequence[n] \notin SelfSet
    BY DEF IsTree, SelfSet, IsSelfJoin
  <2>. QED  BY <1>1, <2>1, Zenon DEF Range
<1>4. Start = Len(s) + Len(sequence)
  BY DEF Start
<1>5. NumJoins \in Nat /\ DOMAIN joins = X
  BY DEF QueryInv
<1>6. Len(s) \in Nat /\ Len(sequence) \in Nat /\ Len(sequence) > 0
  <2>1. Cardinality(Rels) = numOfRels /\ numOfRels \in 2..10
    BY RelsFacts DEF QueryInv
  <2>. QED  BY <1>1, <1>2, <2>1
<1>. HIDE DEF s, X
<1>7. both \in Seq(X) /\ Len(both) = Start
  BY <1>1, <1>2, <1>4, ConcatProperties
<1>8. Range(both) = Base
  <2>1. Range(both) = Range(s) \cup Range(sequence)
    BY <1>1, <1>2, RangeConcatenation
  <2>. QED  BY <1>1, <2>1 DEF Base
<1>9. Once(both)
  BY <1>1, <1>2, <1>3, OnceConcat
<1>. HIDE DEF both
<1>10. IsFiniteSet(Range(both)) /\ Cardinality(Range(both)) = Start
  BY <1>7, <1>9, OnceCardinality
<1>11. Base \subseteq X
  <2>1. Range(both) \subseteq X
    BY <1>7, RangeOfSeq
  <2>. QED  BY <1>8, <2>1
<1>12. IsFiniteSet(X) /\ Cardinality(X) = NumJoins
  <2>1. IsFiniteSet(0..NumJoins-1) /\ Cardinality(0..NumJoins-1) = NumJoins
    BY <1>5, FS_Interval
  <2>. QED  BY <2>1 DEF X
<1>13. Start <= NumJoins /\ (Start = NumJoins => Base = X)
  BY <1>8, <1>10, <1>11, <1>12, FS_Subset
<1>. QED  BY <1>4, <1>5, <1>6, <1>7, <1>8, <1>13 DEF both, s, X

LEMMA RestFacts ==
  ASSUME QueryInv, IsTree(sequence, Rels)
  PROVE  /\ Base \subseteq DOMAIN joins
         /\ Rest \subseteq DOMAIN joins
         /\ Base \cap Rest = {}
<1>1. Range(sequence) \subseteq DOMAIN joins
  <2>1. sequence \in Seq(0..NumJoins-1) /\ DOMAIN joins = 0..NumJoins-1
    BY DEF QueryInv, IsTree
  <2>. QED  BY <2>1, RangeOfSeq
<1>2. \A i \in Range(sequence) : SameJoin(joins[i], joins[i])
  BY DEF SameJoin, Aligned
<1>. QED  BY <1>1, <1>2 DEF Base, Rest, SelfSet

LEMMA SetSequenceStep == Inv /\ SetSequence => Inv'
<1>. SUFFICES ASSUME Inv, SetSequence PROVE Inv'
  OBVIOUS
<1>. DEFINE s == SelfJoins(joins)
            both == s \o sequence
<1>1. /\ pc = "sequence" /\ k' = 0
      /\ numOfRels' = numOfRels /\ joins' = joins
      /\ hashTree' = hashTree /\ level' = level /\ sequence' = sequence
  BY DEF SetSequence
<1>2. /\ QueryInv /\ QueryInv' /\ NumJoins' = NumJoins /\ Rels' = Rels /\ Trees' = Trees
      /\ SelfJoins(joins)' = s /\ SelfSet' = SelfSet
      /\ \A seq, S : IsTree(seq, S) => IsTree(seq, S)'
  BY <1>1, Unchanged DEF Inv
<1>3. IsTree(sequence, Rels) /\ priorities = InitialPriorities
  BY <1>1 DEF Inv, SequenceInv
<1>4. /\ both \in Seq(0..NumJoins-1) /\ Len(both) = Start /\ Range(both) = Base
      /\ Len(s) < Start /\ Start <= NumJoins
      /\ Start = NumJoins => Base = DOMAIN joins
  BY <1>2, <1>3, BaseFits
<1>5. NumJoins \in 1..10 /\ DOMAIN joins = 0..NumJoins-1
  BY <1>2 DEF QueryInv
<1>6. s \in Seq(0..NumJoins-1) /\ sequence \in Seq(0..NumJoins-1) /\ Start = Len(s) + Len(sequence)
  BY <1>2, <1>3, SelfJoinsFacts DEF IsTree, Start
<1>7. \A i \in 1..Start : both[i] = IF i <= Len(s) THEN s[i] ELSE sequence[i - Len(s)]
  <2>. HIDE DEF s
  <2>. QED  BY <1>6, ConcatProperties
<1>. HIDE DEF s, both
<1>8. FirstFree = Len(s)
  <2>1. \A i \in 0..NumJoins : i = NumJoins \/ priorities[i] = -1 <=> i >= Len(s)
    <3>1. \A i \in 0..NumJoins-1 : priorities[i] = IF i < Len(s) THEN s[i + 1] ELSE -1
      BY <1>3 DEF InitialPriorities, s
    <3>2. \A i \in 0..NumJoins-1 : i < Len(s) => s[i + 1] >= 0
      <4>1. ASSUME NEW i \in 0..NumJoins-1, i < Len(s)
            PROVE  s[i + 1] >= 0
        <5>1. i + 1 \in 1..Len(s)
          BY <1>6, <4>1
        <5>2. s[i + 1] \in 0..NumJoins-1
          BY <1>6, <5>1, ElementOfSeq
        <5>. QED  BY <1>5, <5>2
      <4>. QED  BY <4>1
    <3>3. Len(s) \in 0..NumJoins
      BY <1>4, <1>5, <1>6
    <3>4. \A i \in 0..NumJoins-1 : priorities[i] = -1 <=> i >= Len(s)
      <4>1. ASSUME NEW i \in 0..NumJoins-1
            PROVE  priorities[i] = -1 <=> i >= Len(s)
        <5>1. CASE i < Len(s)
          <6>1. priorities[i] = s[i + 1] /\ s[i + 1] >= 0
            BY <3>1, <3>2, <5>1
          <6>. QED  BY <3>3, <5>1, <6>1
        <5>2. CASE ~(i < Len(s))
          BY <3>1, <3>3, <5>2
        <5>. QED  BY <5>1, <5>2
      <4>. QED  BY <4>1
    <3>. QED  BY <1>5, <3>3, <3>4
  <2>2. {i \in 0..NumJoins : i = NumJoins \/ priorities[i] = -1} = Len(s)..NumJoins
    BY <1>5, <1>6, <2>1
  <2>. DEFINE free == Len(s)..NumJoins
  <2>3. Len(s) \in free /\ free \subseteq Nat
    BY <1>4, <1>5, <1>6
  <2>4. FirstFree = Min(free)
    BY <2>2, Zenon DEF FirstFree
  <2>. HIDE DEF free
  <2>5. Min(free) \in free /\ Min(free) <= Len(s)
    <3>1. free # {}
      BY <2>3
    <3>. QED  BY <2>3, <3>1, MinFacts
  <2>. QED  BY <1>5, <1>6, <2>4, <2>5 DEF free
<1>9. /\ j' = Start /\ already' = Start
      /\ pc' = IF Start < NumJoins THEN "rest" ELSE "done"
      /\ priorities' = [i \in 0..NumJoins-1 |->
                          IF i \in Len(s)..Start-1 THEN sequence[i - Len(s) + 1]
                          ELSE priorities[i]]
  BY <1>6, <1>8 DEF SetSequence
<1>10. priorities' = [i \in 0..NumJoins-1 |-> IF i < Start THEN both[i + 1] ELSE -1]
  <2>1. ASSUME NEW i \in 0..NumJoins-1
        PROVE  (IF i \in Len(s)..Start-1 THEN sequence[i - Len(s) + 1] ELSE priorities[i])
                 = IF i < Start THEN both[i + 1] ELSE -1
    <3>1. priorities[i] = IF i < Len(s) THEN s[i + 1] ELSE -1
      BY <1>3 DEF InitialPriorities, s
    <3>2. CASE i < Len(s)
      BY <1>4, <1>5, <1>6, <1>7, <3>1, <3>2
    <3>3. CASE i \in Len(s)..Start-1
      <4>1. i + 1 \in 1..Start /\ ~(i + 1 <= Len(s)) /\ (i + 1) - Len(s) = i - Len(s) + 1 /\ i < Start
        BY <1>5, <1>6, <3>3
      <4>. QED  BY <1>7, <3>3, <4>1
    <3>4. CASE i >= Start
      BY <1>4, <1>5, <1>6, <3>1, <3>4
    <3>. QED  BY <1>5, <1>6, <3>2, <3>3, <3>4
  <2>. QED  BY <1>9, <2>1
<1>11. \A i \in 1..Start : both[i] \in 0..NumJoins-1 /\ both[i] \in Base
  <2>1. DOMAIN both = 1..Start
    BY <1>4
  <2>2. \A i \in 1..Start : both[i] \in Base
    BY <1>4, <2>1, Zenon DEF Range
  <2>3. \A i \in 1..Start : both[i] \in 0..NumJoins-1
    BY <1>4, ElementOfSeq
  <2>. QED  BY <2>2, <2>3
<1>12. Start \in Nat
  BY <1>6
<1>13. TreesInv'
  <2>1. TreesOfSets'
    <3>1. \A S \in DOMAIN hashTree' : IsTree(hashTree'[S], S)
      BY <1>1, Zenon DEF Inv, TreesInv, TreesOfSets
    <3>. QED  BY <1>1, <3>1, TreesKept
  <2>. QED  BY <1>1, <1>2, <2>1 DEF Inv, TreesInv
<1>14. CounterInv'
  <2>1. priorities' \in [0..NumJoins-1 -> -1..NumJoins-1]
    BY <1>5, <1>10, <1>11, <1>12
  <2>2. Start <= Start * NumJoins + 0
    BY <1>5, <1>12
  <2>. QED  BY <1>1, <1>2, <1>4, <1>5, <1>9, <1>12, <2>1, <2>2 DEF CounterInv
<1>15. SequenceInv'
  <2>1. IsTree(sequence, Rels)'
    BY <1>1, <1>2, <1>3, Zenon
  <2>2. pc' # "enumerate" /\ pc' # "sequence"
    BY <1>9
  <2>. QED  BY <2>1, <2>2 DEF SequenceInv
<1>16. RestInv'
  <2>1. Base' = Base /\ Start' = Start /\ Rest' = Rest /\ DOMAIN priorities' = 0..NumJoins-1
    BY <1>1, <1>2, <1>10 DEF Base, Start, Rest, s
  <2>2. Rest \subseteq DOMAIN joins /\ Base \cap Rest = {}
    BY <1>2, <1>3, RestFacts
  <2>3. \A p \in 0..Start-1 : priorities'[p] \in Base
    BY <1>4, <1>5, <1>10, <1>11, <1>12
  <2>4. \A p \in Start..NumJoins-1 : priorities'[p] = -1
    BY <1>5, <1>10, <1>12
  <2>5. \A b \in Base : \E p \in 0..Start-1 : priorities'[p] = b
    <3>1. ASSUME NEW b \in Base
          PROVE  \E p \in 0..Start-1 : priorities'[p] = b
      <4>1. PICK i \in 1..Start : both[i] = b
        BY <1>4 DEF Range
      <4>2. i - 1 \in 0..Start-1 /\ priorities'[i - 1] = both[i]
        BY <1>4, <1>5, <1>10, <1>12
      <4>. QED  BY <4>1, <4>2
    <3>. QED  BY <3>1
  <2>6. ASSUME NEW x \in Rest
        PROVE  pc' # "done" /\ ~(j' > Start) /\ ~(k' > x)
    <3>1. x \in 0..NumJoins-1 /\ x \notin Base
      BY <1>5, <2>2
    <3>2. Start # NumJoins
      BY <1>4, <1>5, <3>1
    <3>. QED  BY <1>1, <1>4, <1>5, <1>9, <1>12, <3>1, <3>2
  <2>7. pc' # "undefined" /\ j' = Start /\ already' = Start /\ Start <= NumJoins
    BY <1>4, <1>9
  <2>. HIDE DEF both
  <2>. QED  BY <1>2, <1>12, <2>1, <2>2, <2>3, <2>4, <2>5, <2>6, <2>7
        DEF RestInv, Progress, Placed
<1>. QED  BY <1>2, <1>13, <1>14, <1>15, <1>16 DEF Inv

-----------------------------------------------------------------------------
(* The search of SetPriorities                                             *)

(* A tree has one join of a pair of relations.                             *)
LEMMA PairsOfTree ==
  ASSUME IsTree(sequence, Rels),
         NEW a \in Range(sequence), NEW b \in Range(sequence),
         Pair(joins[a]) = Pair(joins[b])
  PROVE  a = b
<1>1. \A n \in DOMAIN sequence, m \in DOMAIN sequence :
        n < m => Pair(joins[sequence[n]]) # Pair(joins[sequence[m]])
  <2>1. SUFFICES ASSUME NEW n \in DOMAIN sequence, NEW m \in DOMAIN sequence, n < m,
                        Pair(joins[sequence[n]]) = Pair(joins[sequence[m]])
                 PROVE  FALSE
    OBVIOUS
  <2>2. DOMAIN sequence = 1..Len(sequence) /\ Len(sequence) \in Nat
    BY DEF IsTree
  <2>3. m \in 2..Len(sequence) /\ n \in 1..m-1
    BY <2>1, <2>2
  <2>4. Cardinality(Pair(joins[sequence[m]]) \ RelsBefore(sequence, m)) = 1
    BY <2>3 DEF IsTree
  <2>5. Pair(joins[sequence[n]]) \subseteq RelsBefore(sequence, m)
    BY <2>3 DEF RelsBefore
  <2>6. Pair(joins[sequence[m]]) \ RelsBefore(sequence, m) = {}
    BY <2>1, <2>5
  <2>. QED  BY <2>4, <2>6, FS_EmptySet
<1>2. PICK n \in DOMAIN sequence, m \in DOMAIN sequence : sequence[n] = a /\ sequence[m] = b
  BY Zenon DEF Range
<1>3. n \in Int /\ m \in Int
  BY DEF IsTree
<1>4. ~(n < m) /\ ~(m < n)
  BY <1>1, <1>2
<1>. QED  BY <1>2, <1>3, <1>4

(* What is asked of the first join of the pair.                            *)
IdenticalTo(a, b) == IF a.rel1 = b.rel1 /\ a.rel2 = b.rel2
                     THEN Aligned(a, b) ELSE Aligned(a, Reversed(b))

LEMMA IdenticalFacts ==
  ASSUME NEW a, NEW b
  PROVE  /\ IdenticalTo(a, b) => SameJoin(a, b)
         /\ a.rel1 # a.rel2 /\ SameJoin(a, b) => IdenticalTo(a, b)
         /\ Aligned(a, b) => IdenticalTo(a, b)
         /\ SameJoin(a, b) => Pair(a) = Pair(b)
<1>1. /\ Reversed(b).rel1 = b.rel2 /\ Reversed(b).col1 = b.col2
      /\ Reversed(b).rel2 = b.rel1 /\ Reversed(b).col2 = b.col1
  BY DEF Reversed
<1>2. IdenticalTo(a, b) => SameJoin(a, b)
  BY Zenon DEF IdenticalTo, SameJoin
<1>3. Aligned(a, b) => IdenticalTo(a, b)
  BY Zenon DEF IdenticalTo, Aligned
<1>4. a.rel1 # a.rel2 /\ SameJoin(a, b) => IdenticalTo(a, b)
  BY <1>1, Zenon DEF IdenticalTo, SameJoin, Aligned
<1>5. SameJoin(a, b) => Pair(a) = Pair(b)
  BY <1>1 DEF SameJoin, Aligned, Pair
<1>. QED  BY <1>2, <1>3, <1>4, <1>5

LEMMA SearchFacts ==
  ASSUME Inv, OneMore, pc = "rest", k \notin Range(sequence)
  PROVE  /\ \A p \in 0..already-1 : ~Unread(p)
         /\ Matches # {} => /\ Min(Matches) \in 0..already-1
                            /\ priorities[Min(Matches)] \in Base
                            /\ SamePair(Min(Matches))
         /\ k \in Rest /\ Matches # {} => ~Identical(Min(Matches))
         /\ k \notin Rest => Matches # {} /\ Identical(Min(Matches))
<1>1. /\ QueryInv /\ IsTree(sequence, Rels) /\ Progress /\ Placed
      /\ already \in Nat /\ k \in DOMAIN joins
  BY DEF Inv, SequenceInv, RestInv, CounterInv, QueryInv
<1>2. NumJoins \in Nat /\ DOMAIN joins = 0..NumJoins-1 /\ already <= NumJoins
  BY <1>1 DEF QueryInv, Progress
<1>3. Base \subseteq DOMAIN joins /\ Rest \subseteq DOMAIN joins /\ Base \cap Rest = {}
  BY <1>1, RestFacts
<1>4. /\ \A p \in 0..already-1 : priorities[p] \in Base \cup Rest
      /\ \A b \in Base : \E p \in 0..already-1 : priorities[p] = b
      /\ \A p \in 0..already-1 : priorities[p] \in Rest =>
           \E q \in 0..p-1 : /\ priorities[q] \in Base
                             /\ Pair(joins[priorities[q]]) = Pair(joins[priorities[p]])
  BY <1>1 DEF Placed
<1>5. \A p \in 0..already-1 : ~Unread(p)
  <2>1. ASSUME NEW p \in 0..already-1
        PROVE  ~(p >= NumJoins) /\ priorities[p] # -1
    <3>1. priorities[p] \in 0..NumJoins-1
      BY <1>2, <1>3, <1>4
    <3>. QED  BY <1>1, <1>2, <3>1
  <2>. QED  BY <2>1 DEF Unread
<1>6. Matches = {p \in 0..already-1 : SamePair(p)}
  BY <1>5 DEF Matches
<1>. DEFINE first == Min(Matches)
            a == joins[priorities[first]]
<1>7. ASSUME Matches # {}
      PROVE  first \in 0..already-1 /\ priorities[first] \in Base /\ SamePair(first)
  <2>1. Matches \subseteq Nat
    BY <1>1, <1>6
  <2>2. first \in Matches /\ \A p \in Matches : first <= p
    BY <1>7, <2>1, MinFacts
  <2>3. first \in 0..already-1 /\ SamePair(first)
    BY <1>6, <2>2
  <2>. HIDE DEF first
  <2>4. priorities[first] \in Base
    <3>1. SUFFICES ASSUME priorities[first] \in Rest PROVE FALSE
      BY <1>4, <2>3
    <3>2. PICK q \in 0..first-1 :
            /\ priorities[q] \in Base
            /\ Pair(joins[priorities[q]]) = Pair(joins[priorities[first]])
      BY <1>4, <2>3, <3>1
    <3>3. q \in 0..already-1 /\ q < first
      BY <1>1, <2>3
    <3>4. SamePair(q)
      BY <2>3, <3>2 DEF SamePair
    <3>. QED  BY <1>1, <1>6, <2>2, <2>3, <3>3, <3>4
  <2>. QED  BY <2>3, <2>4
<1>8. Identical(first) <=> IdenticalTo(a, joins[k])
  BY Zenon DEF Identical, IdenticalTo
<1>9. ASSUME Matches # {}, Identical(first)
      PROVE  k \notin Rest
  <2>1. SameJoin(a, joins[k]) /\ priorities[first] \in Base
    BY <1>7, <1>8, <1>9, IdenticalFacts
  <2>. HIDE DEF first
  <2>2. CASE priorities[first] \in Range(sequence)
    BY <2>1, <2>2 DEF Rest
  <2>3. CASE priorities[first] \in SelfSet
    <3>1. IsSelfJoin(a)
      BY <2>3 DEF SelfSet
    <3>2. IsSelfJoin(joins[k])
      BY <2>1, <3>1 DEF SameJoin, Aligned, Reversed, IsSelfJoin
    <3>. QED  BY <3>2 DEF Rest
  <2>. QED  BY <2>1, <2>2, <2>3 DEF Base
<1>10. ASSUME k \notin Rest
       PROVE  Matches # {} /\ Identical(first)
  <2>1. PICK b \in Base : /\ SameJoin(joins[b], joins[k])
                          /\ IsSelfJoin(joins[k]) => b = k
                          /\ ~IsSelfJoin(joins[k]) => b \in Range(sequence)
    <3>1. CASE IsSelfJoin(joins[k])
      <4>1. k \in Base
        BY <1>1, <3>1 DEF Base, SelfSet
      <4>2. SameJoin(joins[k], joins[k])
        BY DEF SameJoin, Aligned
      <4>. QED  BY <3>1, <4>1, <4>2
    <3>2. CASE ~IsSelfJoin(joins[k])
      <4>1. PICK n \in Range(sequence) : SameJoin(joins[n], joins[k])
        BY <1>1, <1>10, <3>2, Zenon DEF Rest
      <4>2. n \in Base
        BY DEF Base
      <4>. QED  BY <3>2, <4>1, <4>2
    <3>. QED  BY <3>1, <3>2
  <2>2. Pair(joins[b]) = Pair(joins[k])
    BY <2>1, IdenticalFacts
  <2>3. PICK p \in 0..already-1 : priorities[p] = b
    BY <1>4
  <2>4. Matches # {}
    <3>1. SamePair(p)
      BY <2>2, <2>3, Zenon DEF SamePair
    <3>. QED  BY <1>6, <2>3, <3>1
  <2>5. priorities[first] \in Base /\ Pair(a) = Pair(joins[k])
    BY <1>7, <2>4 DEF SamePair
  <2>. DEFINE e == priorities[first]
  <2>6. a = joins[e] /\ e \in Base /\ Pair(joins[e]) = Pair(joins[k])
    BY <2>5
  <2>. HIDE DEF first, a, e
  <2>7. \A i \in Range(sequence) : joins[i].rel1 # joins[i].rel2
    BY <1>1, Zenon DEF IsTree, Range
  <2>8. CASE IsSelfJoin(joins[k])
    <3>1. joins[e].rel1 = joins[k].rel1 /\ joins[e].rel2 = joins[k].rel1
      BY <2>6, <2>8 DEF IsSelfJoin, Pair
    <3>2. e \in SelfSet
      BY <2>6, <2>7, <3>1 DEF Base
    <3>3. Aligned(joins[e], joins[k])
      BY <1>1, <2>8, <3>1, <3>2 DEF OneMore, SelfSet
    <3>. QED  BY <1>8, <2>4, <2>6, <3>3, IdenticalFacts
  <2>9. CASE ~IsSelfJoin(joins[k])
    <3>1. b \in Range(sequence) /\ joins[b].rel1 # joins[b].rel2
      BY <2>1, <2>7, <2>9
    <3>2. Pair(joins[e]) = Pair(joins[b])
      BY <2>2, <2>6
    <3>3. joins[e].rel1 # joins[e].rel2
      BY <3>1, <3>2 DEF Pair
    <3>4. e \in Range(sequence)
      BY <2>6, <3>3 DEF Base, SelfSet, IsSelfJoin
    <3>5. e = b
      BY <1>1, <3>1, <3>2, <3>4, PairsOfTree
    <3>. QED  BY <1>8, <2>1, <2>4, <2>6, <3>1, <3>5, IdenticalFacts
  <2>. QED  BY <2>8, <2>9
<1>. QED  BY <1>5, <1>7, <1>9, <1>10

-----------------------------------------------------------------------------
(* Its steps                                                               *)

LEMMA RestIsOne ==
  ASSUME QueryInv, OneMore, NEW x \in Rest, NEW y \in Rest
  PROVE  x = y
<1>1. IsFiniteSet(Rest)
  <2>1. Rest \subseteq 0..NumJoins-1 /\ NumJoins \in Nat
    BY DEF Rest, QueryInv
  <2>2. IsFiniteSet(0..NumJoins-1)
    BY <2>1, FS_Interval
  <2>. QED  BY <2>1, <2>2, FS_Subset
<1>2. Cardinality(Rest) \in Nat /\ Cardinality(Rest) <= 1 /\ Cardinality(Rest) # 0
  BY <1>1, FS_CardinalityType, FS_EmptySet DEF OneMore
<1>3. Cardinality(Rest) = 1
  BY <1>2
<1>4. PICK z : Rest = {z}
  BY <1>1, <1>3, FS_Singleton
<1>. QED  BY <1>4

(* What NextJoin keeps, whatever becomes of priorities.                    *)
LEMMA NextJoinInv ==
  ASSUME Inv, pc = "rest", NextJoin,
         priorities' \in [0..NumJoins-1 -> -1..NumJoins-1],
         already' \in {already, already + 1}
  PROVE  QueryInv' /\ TreesInv' /\ CounterInv' /\ SequenceInv'
<1>1. /\ k' = IF k + 1 < NumJoins THEN k + 1 ELSE 0
      /\ j' = IF k + 1 < NumJoins THEN j ELSE j + 1
      /\ pc' = IF k + 1 = NumJoins /\ j + 1 = NumJoins THEN "done" ELSE "rest"
      /\ numOfRels' = numOfRels /\ joins' = joins
      /\ hashTree' = hashTree /\ level' = level /\ sequence' = sequence
  BY DEF NextJoin
<1>2. /\ QueryInv' /\ NumJoins' = NumJoins /\ Rels' = Rels /\ Trees' = Trees
      /\ \A seq, S : IsTree(seq, S) => IsTree(seq, S)'
  BY <1>1, Unchanged DEF Inv
<1>3. TreesInv'
  <2>1. TreesOfSets'
    <3>1. \A S \in DOMAIN hashTree' : IsTree(hashTree'[S], S)
      BY <1>1, Zenon DEF Inv, TreesInv, TreesOfSets
    <3>. QED  BY <1>1, <3>1, TreesKept
  <2>. QED  BY <1>1, <1>2, <2>1 DEF Inv, TreesInv
<1>4. SequenceInv'
  <2>1. IsTree(sequence, Rels)'
    <3>1. IsTree(sequence, Rels)
      BY DEF Inv, SequenceInv
    <3>. QED  BY <1>1, <1>2, <3>1, Zenon
  <2>2. pc' # "enumerate" /\ pc' # "sequence"
    BY <1>1
  <2>. QED  BY <2>1, <2>2 DEF SequenceInv
<1>5. CounterInv'
  <2>. DEFINE N == NumJoins
  <2>1. N \in 1..10
    BY DEF Inv, QueryInv
  <2>2. /\ j \in 0..N-1 /\ k \in 0..N-1 /\ already \in Nat
        /\ already <= j * N + k
    <3>1. /\ j \in 0..N /\ j < N /\ k \in 0..N-1 /\ already \in Nat
          /\ already <= j * N + k
      BY Zenon DEF Inv, CounterInv
    <3>. HIDE DEF N
    <3>. QED  BY <2>1, <3>1
  <2>. HIDE DEF N
  <2>3. already' \in Nat /\ already' <= j * N + k + 1
    <3>1. j * N \in Int
      BY <2>1, <2>2
    <3>. QED  BY <2>2, <3>1
  <2>4. already' <= j' * N + k' /\ j' \in 0..N /\ k' \in 0..N-1 /\ (j' = N => k' = 0)
        /\ (pc' = "rest" => j' < N)
    <3>1. CASE k + 1 < N
      <4>1. j' = j /\ k' = k + 1 /\ pc' = "rest"
        BY <1>1, <2>1, <2>2, <3>1 DEF N
      <4>2. j * N \in Int
        BY <2>1, <2>2
      <4>. QED  BY <2>1, <2>2, <2>3, <3>1, <4>1, <4>2
    <3>2. CASE ~(k + 1 < N)
      <4>1. k + 1 = N /\ j' = j + 1 /\ k' = 0 /\ (pc' = "rest" => j + 1 # N)
        BY <1>1, <2>1, <2>2, <3>2 DEF N
      <4>2. j * N \in Int /\ (j + 1) * N = j * N + N
        BY <2>1, <2>2
      <4>. QED  BY <2>1, <2>2, <2>3, <4>1, <4>2
    <3>. QED  BY <3>1, <3>2
  <2>5. pc' \in {"enumerate", "sequence", "rest", "done", "undefined"}
    BY <1>1
  <2>. QED  BY <1>2, <2>3, <2>4, <2>5 DEF CounterInv, N
<1>. QED  BY <1>2, <1>3, <1>4, <1>5

LEMMA StaticRest ==
  ASSUME numOfRels' = numOfRels, joins' = joins, sequence' = sequence
  PROVE  /\ Base' = Base /\ Start' = Start /\ Rest' = Rest
         /\ OneMore' => OneMore
<1>1. SelfSet' = SelfSet /\ SelfJoins(joins)' = SelfJoins(joins)
  BY Unchanged
<1>2. Rest' = Rest
  BY Zenon DEF Rest
<1>3. Base' = Base /\ Start' = Start
  BY <1>1, Zenon DEF Base, Start
<1>4. OneMore' => OneMore
  BY <1>2, Zenon DEF OneMore
<1>. QED  BY <1>2, <1>3, <1>4

(* When the join of Rest is put into priorities and already grows for no   *)
(* other, the search goes on as it should.                                 *)
LEMMA NextJoinProgress ==
  ASSUME Inv, OneMore, pc = "rest", NextJoin,
         \/ already' = already
         \/ already' = already + 1 /\ k \in Rest,
         k \in Rest => \E p \in DOMAIN priorities' : priorities'[p] = k,
         k \notin Rest => priorities' = priorities
  PROVE  Progress'
<1>. DEFINE N == NumJoins
<1>1. /\ k' = IF k + 1 < N THEN k + 1 ELSE 0
      /\ j' = IF k + 1 < N THEN j ELSE j + 1
      /\ pc' = IF k + 1 = N /\ j + 1 = N THEN "done" ELSE "rest"
      /\ numOfRels' = numOfRels /\ joins' = joins /\ sequence' = sequence
  BY DEF NextJoin
<1>2. NumJoins' = N /\ Start' = Start /\ Rest' = Rest
  BY <1>1, Unchanged, StaticRest
<1>3. N \in 1..10 /\ Rest \subseteq 0..N-1
  BY DEF Inv, QueryInv, Rest
<1>4. j \in 0..N-1 /\ k \in 0..N-1 /\ already \in Nat
  <2>1. j \in 0..N /\ j < N /\ k \in 0..N-1 /\ already \in Nat
    BY Zenon DEF Inv, CounterInv
  <2>. HIDE DEF N
  <2>. QED  BY <1>3, <2>1
<1>5. /\ Start <= j /\ already <= N
      /\ already <= j \/ (already = j + 1 /\ \A x \in Rest : x < k)
      /\ \A x \in Rest : j > Start \/ k > x => InPriorities(x)
  BY DEF Inv, RestInv, Progress
<1>6. Start \in Int
  <2>1. SelfJoins(joins) \in Seq(0..NumJoins-1) /\ sequence \in Seq(0..NumJoins-1)
    BY SelfJoinsFacts DEF Inv, SequenceInv, IsTree
  <2>. QED  BY <2>1 DEF Start
<1>. HIDE DEF N
<1>7. k \in Rest => already <= j
  BY <1>4, <1>5
<1>8. already' <= N
  BY <1>3, <1>4, <1>5, <1>7
<1>9. pc' # "undefined" /\ Start <= j'
  BY <1>1, <1>4, <1>5, <1>6
<1>10. pc' = "rest" => already' <= j' \/ (already' = j' + 1 /\ \A x \in Rest : x < k')
  <2>1. already' <= j + 1
    BY <1>4, <1>5, <1>7
  <2>2. CASE k + 1 < N
    <3>1. j' = j /\ k' = k + 1
      BY <1>1, <2>2
    <3>2. CASE already' <= j
      BY <3>1, <3>2
    <3>3. CASE already' = j + 1
      <4>1. ASSUME NEW x \in Rest
            PROVE  x < k + 1
        <5>1. CASE already' = already
          BY <1>3, <1>4, <1>5, <3>3, <4>1, <5>1
        <5>2. CASE already' = already + 1 /\ k \in Rest
          <6>1. x = k
            BY <5>2, RestIsOne DEF Inv
          <6>. QED  BY <1>4, <6>1
        <5>. QED  BY <5>1, <5>2
      <4>. QED  BY <3>1, <3>3, <4>1
    <3>4. already' \in Int
      BY <1>4
    <3>. QED  BY <1>4, <2>1, <3>2, <3>3, <3>4
  <2>3. CASE ~(k + 1 < N)
    <3>1. j' = j + 1
      BY <1>1, <2>3
    <3>. QED  BY <2>1, <3>1
  <2>. QED  BY <2>2, <2>3
<1>11. ASSUME NEW x \in Rest, pc' = "done" \/ j' > Start \/ k' > x
       PROVE  InPriorities(x)'
  <2>1. CASE x = k
    BY <2>1, Zenon DEF InPriorities
  <2>2. CASE x # k
    <3>1. k \notin Rest
      BY <2>2, RestIsOne DEF Inv
    <3>2. j > Start \/ k > x
      <4>1. CASE k + 1 < N
        <5>1. pc' = "rest" /\ j' = j /\ k' = k + 1
          BY <1>1, <1>3, <1>4, <4>1
        <5>. QED  BY <1>3, <1>4, <1>11, <2>2, <5>1
      <4>2. CASE ~(k + 1 < N)
        BY <1>3, <1>4, <2>2, <4>2
      <4>. QED  BY <4>1, <4>2
    <3>3. InPriorities(x)
      BY <1>5, <3>2
    <3>. QED  BY <3>1, <3>3, Zenon DEF InPriorities
  <2>. QED  BY <2>1, <2>2
<1>. QED  BY <1>2, <1>8, <1>9, <1>10, <1>11 DEF Progress

LEMMA SkipStep == Inv /\ SkipJoin => Inv'
<1>. SUFFICES ASSUME Inv, SkipJoin PROVE Inv'
  OBVIOUS
<1>1. /\ pc = "rest" /\ NextJoin /\ priorities' = priorities /\ already' = already
      /\ \/ k \in Range(sequence)
         \/ Matches # {} /\ Identical(Min(Matches))
      /\ numOfRels' = numOfRels /\ joins' = joins /\ sequence' = sequence
  BY DEF SkipJoin, NextJoin
<1>2. priorities' \in [0..NumJoins-1 -> -1..NumJoins-1]
  BY <1>1 DEF Inv, CounterInv
<1>3. QueryInv' /\ TreesInv' /\ CounterInv' /\ SequenceInv'
  BY <1>1, <1>2, NextJoinInv
<1>4. ASSUME OneMore'
      PROVE  Progress' /\ Placed'
  <2>1. Base' = Base /\ Rest' = Rest /\ OneMore /\ NumJoins' = NumJoins
    BY <1>1, <1>4, StaticRest, Unchanged
  <2>2. QueryInv /\ IsTree(sequence, Rels) /\ Progress /\ Placed
    BY <1>1, <2>1 DEF Inv, SequenceInv, RestInv
  <2>3. k \notin Rest
    <3>1. CASE k \in Range(sequence)
      BY <2>2, <3>1, RestFacts DEF Base
    <3>2. CASE k \notin Range(sequence)
      BY <1>1, <2>1, <3>2, SearchFacts
    <3>. QED  BY <3>1, <3>2
  <2>4. Progress'
    BY <1>1, <2>1, <2>3, NextJoinProgress
  <2>5. Placed'
    BY <1>1, <2>1, <2>2, Zenon DEF Placed
  <2>. QED  BY <2>4, <2>5
<1>. QED  BY <1>3, <1>4 DEF Inv, RestInv

LEMMA ReadOutsideStep == Inv /\ ReadOutside => Inv'
<1>. SUFFICES ASSUME Inv, ReadOutside PROVE Inv'
  OBVIOUS
<1>1. /\ pc = "rest" /\ k \notin Range(sequence) /\ pc' = "undefined"
      /\ {p \in ReadFirst : Unread(p)} # {}
      /\ numOfRels' = numOfRels /\ joins' = joins /\ sequence' = sequence
      /\ UNCHANGED <<hashTree, level, priorities, j, k, already>>
  BY DEF ReadOutside
<1>2. ReadFirst \subseteq 0..already-1
  BY DEF ReadFirst
<1>3. ~OneMore
  BY <1>1, <1>2, SearchFacts
<1>4. /\ QueryInv' /\ NumJoins' = NumJoins /\ Rels' = Rels /\ Trees' = Trees
      /\ \A seq, S : IsTree(seq, S) => IsTree(seq, S)'
  BY <1>1, Unchanged DEF Inv
<1>5. TreesInv'
  <2>1. TreesOfSets'
    <3>1. \A S \in DOMAIN hashTree' : IsTree(hashTree'[S], S)
      BY <1>1, Zenon DEF Inv, TreesInv, TreesOfSets
    <3>. QED  BY <1>1, <3>1, TreesKept
  <2>. QED  BY <1>1, <1>4, <2>1 DEF Inv, TreesInv
<1>6. CounterInv'
  BY <1>1, <1>4 DEF Inv, CounterInv
<1>7. SequenceInv'
  <2>1. IsTree(sequence, Rels)'
    <3>1. IsTree(sequence, Rels)
      BY <1>1 DEF Inv, SequenceInv
    <3>. QED  BY <1>1, <1>4, <3>1, Zenon
  <2>. QED  BY <1>1, <2>1 DEF SequenceInv
<1>8. RestInv'
  <2>1. OneMore' => OneMore
    BY <1>1, StaticRest
  <2>. QED  BY <1>3, <2>1 DEF RestInv
<1>. QED  BY <1>4, <1>5, <1>6, <1>7, <1>8 DEF Inv

(* What an insertion behind p makes of priorities.                         *)
InsertedAt(old, p) ==
  [i \in 0..NumJoins-1 |-> IF i = p + 1 THEN k
                           ELSE IF i \in p+2..j THEN old[i - 1] ELSE old[i]]

LEMMA InsertStep == Inv /\ InsertJoin => Inv'
<1>. SUFFICES ASSUME Inv, InsertJoin PROVE Inv'
  OBVIOUS
<1>. DEFINE N == NumJoins
            first == Min(Matches)
<1>1. /\ pc = "rest" /\ NextJoin /\ k \notin Range(sequence) /\ already' = already + 1
      /\ Matches # {} /\ ~Identical(first) /\ priorities' = Inserted(first)
      /\ numOfRels' = numOfRels /\ joins' = joins /\ sequence' = sequence
  BY DEF InsertJoin, NextJoin
<1>2. N \in 1..10
  BY DEF Inv, QueryInv
<1>3. /\ j \in 0..N-1 /\ k \in 0..N-1 /\ already \in Nat
      /\ priorities \in [0..N-1 -> -1..N-1]
  <2>1. /\ j \in 0..N /\ j < N /\ k \in 0..N-1 /\ already \in Nat
        /\ priorities \in [0..N-1 -> -1..N-1]
    BY <1>1, Zenon DEF Inv, CounterInv
  <2>. HIDE DEF N
  <2>. QED  BY <1>2, <2>1
<1>4. first \in Nat
  <2>1. Matches \subseteq Nat
    BY <1>3 DEF Matches
  <2>. QED  BY <1>1, <2>1, MinFacts
<1>5. priorities' \in [0..N-1 -> -1..N-1]
  <2>1. priorities' = [i \in 0..N-1 |->
           IF i = (IF j > first + 1 THEN first + 1 ELSE j) THEN k
           ELSE IF i \in first+2..j THEN priorities[i - 1] ELSE priorities[i]]
    BY <1>1, Zenon DEF Inserted
  <2>. HIDE DEF N, first
  <2>2. ASSUME NEW i \in 0..N-1
        PROVE  (IF i = (IF j > first + 1 THEN first + 1 ELSE j) THEN k
                ELSE IF i \in first+2..j THEN priorities[i - 1] ELSE priorities[i]) \in -1..N-1
    <3>1. i \in first+2..j => i - 1 \in 0..N-1
      BY <1>2, <1>3, <1>4
    <3>2. i \in first+2..j => priorities[i - 1] \in -1..N-1
      BY <1>3, <3>1
    <3>3. k \in -1..N-1 /\ priorities[i] \in -1..N-1
      BY <1>2, <1>3
    <3>. QED  BY <3>2, <3>3, Zenon
  <2>. QED  BY <2>1, <2>2
<1>6. QueryInv' /\ TreesInv' /\ CounterInv' /\ SequenceInv'
  BY <1>1, <1>5, NextJoinInv
<1>7. ASSUME OneMore'
      PROVE  Progress' /\ Placed'
  <2>1. Base' = Base /\ Rest' = Rest /\ OneMore /\ NumJoins' = N
    BY <1>1, <1>7, StaticRest, Unchanged
  <2>2. QueryInv /\ IsTree(sequence, Rels) /\ Progress /\ Placed
    BY <1>1, <2>1 DEF Inv, SequenceInv, RestInv
  <2>3. k \in Rest /\ first \in 0..already-1 /\ priorities[first] \in Base /\ SamePair(first)
    BY <1>1, <2>1, SearchFacts
  <2>4. already <= j
    BY <1>1, <1>3, <2>2, <2>3 DEF Progress
  <2>5. priorities' = InsertedAt(priorities, first)
    <3>1. (IF j > first + 1 THEN first + 1 ELSE j) = first + 1
      BY <1>3, <2>3, <2>4
    <3>. QED  BY <1>1, <3>1, Zenon DEF Inserted, InsertedAt
  <2>. HIDE DEF first, N
  <2>6. /\ priorities'[first + 1] = k /\ first + 1 \in DOMAIN priorities'
        /\ \A i \in 0..first : priorities'[i] = priorities[i]
        /\ \A i \in first+2..j : priorities'[i] = priorities[i - 1]
        /\ \A i \in j+1..N-1 : priorities'[i] = priorities[i]
    BY <1>2, <1>3, <1>4, <2>3, <2>4, <2>5 DEF InsertedAt, N
  <2>7. Progress'
    BY <1>1, <2>1, <2>3, <2>6, NextJoinProgress
  <2>8. /\ \A p \in 0..already-1 : priorities[p] \in Base \cup Rest
        /\ \A p \in already..N-1 : priorities[p] \in {-1} \cup Rest
        /\ \A b \in Base : \E p \in 0..already-1 : priorities[p] = b
        /\ \A p \in 0..already-1 : priorities[p] \in Rest =>
             \E q \in 0..p-1 : /\ priorities[q] \in Base
                               /\ Pair(joins[priorities[q]]) = Pair(joins[priorities[p]])
    BY <2>2 DEF Placed, N
  <2>9. \A p \in 0..already : priorities'[p] \in Base \cup Rest
    <3>1. ASSUME NEW p \in 0..already
          PROVE  priorities'[p] \in Base \cup Rest
      <4>1. CASE p \in 0..first
        <5>1. p \in 0..already-1
          BY <1>3, <2>3, <4>1
        <5>. QED  BY <2>6, <2>8, <4>1, <5>1
      <4>2. CASE p = first + 1
        BY <2>3, <2>6, <4>2
      <4>3. CASE p \in first+2..j
        <5>1. p - 1 \in 0..already-1
          BY <1>3, <2>3, <4>3
        <5>. QED  BY <2>6, <2>8, <4>3, <5>1
      <4>. QED  BY <1>3, <2>3, <2>4, <4>1, <4>2, <4>3
    <3>. QED  BY <3>1
  <2>10. \A p \in already+1..N-1 : priorities'[p] \in {-1} \cup Rest
    <3>1. ASSUME NEW p \in already+1..N-1
          PROVE  priorities'[p] \in {-1} \cup Rest
      <4>1. CASE p <= j
        <5>1. p \in first+2..j /\ p - 1 \in already..N-1
          BY <1>2, <1>3, <2>3, <4>1
        <5>. QED  BY <2>6, <2>8, <5>1
      <4>2. CASE p > j
        <5>1. p \in j+1..N-1 /\ p \in already..N-1
          BY <1>2, <1>3, <4>2
        <5>. QED  BY <2>6, <2>8, <5>1
      <4>. QED  BY <1>3, <4>1, <4>2
    <3>. QED  BY <3>1
  (* Where an entry is after the insertion.                                *)
  <2>11. \A q \in 0..already-1 :
           \E r \in 0..already : /\ priorities'[r] = priorities[q]
                                 /\ r <= q + 1 /\ (q <= first => r = q)
    <3>1. ASSUME NEW q \in 0..already-1
          PROVE  \E r \in 0..already : /\ priorities'[r] = priorities[q]
                                       /\ r <= q + 1 /\ (q <= first => r = q)
      <4>1. CASE q <= first
        <5>1. q \in 0..first /\ q \in 0..already
          BY <1>3, <2>3, <4>1
        <5>2. priorities'[q] = priorities[q] /\ q <= q + 1
          BY <2>6, <5>1
        <5>. QED  BY <5>1, <5>2
      <4>2. CASE q > first
        <5>1. q + 1 \in first+2..j /\ (q + 1) - 1 = q /\ q + 1 \in 0..already
          BY <1>3, <2>3, <2>4, <4>2
        <5>2. priorities'[q + 1] = priorities[q]
          BY <2>6, <5>1
        <5>. QED  BY <2>3, <4>2, <5>1, <5>2
      <4>. QED  BY <2>3, <4>1, <4>2
    <3>. QED  BY <3>1
  <2>12. \A b \in Base : \E p \in 0..already : priorities'[p] = b
    BY <2>8, <2>11
  <2>13. \A p \in 0..already : priorities'[p] \in Rest =>
           \E q \in 0..p-1 : /\ priorities'[q] \in Base
                             /\ Pair(joins[priorities'[q]]) = Pair(joins[priorities'[p]])
    <3>1. ASSUME NEW p \in 0..already, priorities'[p] \in Rest
          PROVE  \E q \in 0..p-1 : /\ priorities'[q] \in Base
                                   /\ Pair(joins[priorities'[q]]) = Pair(joins[priorities'[p]])
      <4>1. CASE p = first + 1
        <5>1. first \in 0..first /\ first \in 0..p-1
          BY <2>3, <4>1
        <5>2. priorities'[first] = priorities[first] /\ priorities'[p] = k
          BY <2>6, <4>1, <5>1
        <5>. QED  BY <2>3, <5>1, <5>2 DEF SamePair
      <4>2. CASE p # first + 1
        <5>1. PICK o \in 0..already-1 : /\ priorities'[p] = priorities[o]
                                        /\ IF p <= first THEN o = p ELSE o = p - 1 /\ o > first
          <6>1. CASE p <= first
            <7>1. p \in 0..first /\ p \in 0..already-1
              BY <1>3, <2>3, <6>1
            <7>. QED  BY <2>6, <6>1, <7>1
          <6>2. CASE ~(p <= first)
            <7>1. p \in first+2..j /\ p - 1 \in 0..already-1 /\ p - 1 > first
              BY <1>3, <2>3, <2>4, <4>2, <6>2
            <7>. QED  BY <2>6, <6>2, <7>1
          <6>. QED  BY <6>1, <6>2
        <5>2. PICK q \in 0..o-1 :
                /\ priorities[q] \in Base
                /\ Pair(joins[priorities[q]]) = Pair(joins[priorities[o]])
          BY <2>8, <3>1, <5>1
        <5>3. q \in 0..already-1
          BY <1>3, <5>1
        <5>4. PICK r \in 0..already : /\ priorities'[r] = priorities[q]
                                      /\ r <= q + 1 /\ (q <= first => r = q)
          BY <2>11, <5>3
        <5>5. r \in 0..p-1
          BY <1>3, <2>3, <5>1, <5>2, <5>4
        <5>. QED  BY <5>1, <5>2, <5>4, <5>5
      <4>. QED  BY <4>1, <4>2
    <3>. QED  BY <3>1
  <2>14. 0..already'-1 = 0..already /\ already'..NumJoins'-1 = already+1..N-1
    BY <1>1, <1>3, <2>1
  <2>15. Placed'
    <3>1. /\ \A p \in 0..already'-1 : priorities'[p] \in Base' \cup Rest'
          /\ \A p \in already'..NumJoins'-1 : priorities'[p] \in {-1} \cup Rest'
          /\ \A b \in Base' : \E p \in 0..already'-1 : priorities'[p] = b
      BY <2>1, <2>9, <2>10, <2>12, <2>14, Zenon
    <3>2. \A p \in 0..already'-1 : priorities'[p] \in Rest' =>
            \E q \in 0..p-1 : /\ priorities'[q] \in Base'
                              /\ Pair(joins'[priorities'[q]]) = Pair(joins'[priorities'[p]])
      BY <1>1, <2>1, <2>13, <2>14, Zenon
    <3>. QED  BY <3>1, <3>2, Zenon DEF Placed
  <2>. QED  BY <2>7, <2>15
<1>. QED  BY <1>6, <1>7 DEF Inv, RestInv

LEMMA AppendStep == Inv /\ AppendJoin => Inv'
<1>. SUFFICES ASSUME Inv, AppendJoin PROVE Inv'
  OBVIOUS
<1>. DEFINE N == NumJoins
<1>1. /\ pc = "rest" /\ NextJoin /\ k \notin Range(sequence) /\ already' = already
      /\ Matches = {} /\ priorities' = [priorities EXCEPT ![j] = k]
      /\ numOfRels' = numOfRels /\ joins' = joins /\ sequence' = sequence
  BY DEF AppendJoin, NextJoin
<1>2. N \in 1..10
  BY DEF Inv, QueryInv
<1>3. /\ j \in 0..N-1 /\ k \in 0..N-1 /\ already \in Nat
      /\ priorities \in [0..N-1 -> -1..N-1]
  <2>1. /\ j \in 0..N /\ j < N /\ k \in 0..N-1 /\ already \in Nat
        /\ priorities \in [0..N-1 -> -1..N-1]
    BY <1>1, Zenon DEF Inv, CounterInv
  <2>. HIDE DEF N
  <2>. QED  BY <1>2, <2>1
<1>4. priorities' \in [0..N-1 -> -1..N-1]
  <2>1. k \in -1..N-1
    BY <1>3
  <2>. HIDE DEF N
  <2>. QED  BY <1>1, <1>3, <2>1
<1>5. QueryInv' /\ TreesInv' /\ CounterInv' /\ SequenceInv'
  BY <1>1, <1>4, NextJoinInv
<1>6. ASSUME OneMore'
      PROVE  Progress' /\ Placed'
  <2>1. Base' = Base /\ Rest' = Rest /\ OneMore /\ NumJoins' = N
    BY <1>1, <1>6, StaticRest, Unchanged
  <2>2. QueryInv /\ IsTree(sequence, Rels) /\ Progress /\ Placed
    BY <1>1, <2>1 DEF Inv, SequenceInv, RestInv
  <2>3. k \in Rest
    BY <1>1, <2>1, SearchFacts
  <2>4. already <= j
    BY <1>1, <1>3, <2>2, <2>3 DEF Progress
  <2>. HIDE DEF N
  <2>5. /\ priorities'[j] = k /\ j \in DOMAIN priorities'
        /\ \A i \in 0..N-1 : i # j => priorities'[i] = priorities[i]
    BY <1>1, <1>3
  <2>6. Progress'
    BY <1>1, <2>1, <2>3, <2>5, NextJoinProgress
  <2>7. \A i \in 0..already-1 : priorities'[i] = priorities[i]
    BY <1>2, <1>3, <2>4, <2>5
  <2>8. \A i \in already..N-1 : priorities'[i] \in {-1} \cup Rest
    <3>1. \A i \in already..N-1 : priorities[i] \in {-1} \cup Rest
      BY <2>2 DEF Placed, N
    <3>2. \A i \in already..N-1 : i \in 0..N-1
      BY <1>2, <1>3
    <3>. QED  BY <2>3, <2>5, <3>1, <3>2, Zenon
  <2>9. Placed'
    <3>1. /\ \A p \in 0..already-1 : priorities[p] \in Base \cup Rest
          /\ \A b \in Base : \E p \in 0..already-1 : priorities[p] = b
          /\ \A p \in 0..already-1 : priorities[p] \in Rest =>
               \E q \in 0..p-1 : /\ priorities[q] \in Base
                                 /\ Pair(joins[priorities[q]]) = Pair(joins[priorities[p]])
      BY <2>2, Zenon DEF Placed
    <3>2. \A p \in 0..already-1 : \A q \in 0..p-1 : q \in 0..already-1
      BY <1>3
    <3>3. \A p \in 0..already'-1 : priorities'[p] \in Rest' =>
            \E q \in 0..p-1 : /\ priorities'[q] \in Base'
                              /\ Pair(joins'[priorities'[q]]) = Pair(joins'[priorities'[p]])
      <4>1. ASSUME NEW p \in 0..already-1, priorities'[p] \in Rest
            PROVE  \E q \in 0..p-1 : /\ priorities'[q] \in Base
                                     /\ Pair(joins[priorities'[q]]) = Pair(joins[priorities'[p]])
        <5>1. PICK q \in 0..p-1 : /\ priorities[q] \in Base
                                  /\ Pair(joins[priorities[q]]) = Pair(joins[priorities[p]])
          BY <2>7, <3>1, <4>1
        <5>2. priorities'[q] = priorities[q] /\ priorities'[p] = priorities[p]
          BY <2>7, <3>2
        <5>. QED  BY <5>1, <5>2
      <4>. QED  BY <1>1, <2>1, <4>1, Zenon
    <3>4. /\ \A p \in 0..already'-1 : priorities'[p] \in Base' \cup Rest'
          /\ \A p \in already'..NumJoins'-1 : priorities'[p] \in {-1} \cup Rest'
          /\ \A b \in Base' : \E p \in 0..already'-1 : priorities'[p] = b
      BY <1>1, <2>1, <2>7, <2>8, <3>1, Zenon
    <3>. QED  BY <3>3, <3>4, Zenon DEF Placed
  <2>. QED  BY <2>6, <2>9
<1>. QED  BY <1>5, <1>6 DEF Inv, RestInv

LEMMA StoppedStep == Inv /\ UNCHANGED vars => Inv'
<1>. SUFFICES ASSUME Inv, UNCHANGED vars PROVE Inv'
  OBVIOUS
<1>1. /\ numOfRels' = numOfRels /\ joins' = joins /\ hashTree' = hashTree /\ level' = level
      /\ pc' = pc /\ priorities' = priorities /\ sequence' = sequence
      /\ j' = j /\ k' = k /\ already' = already
  BY DEF vars
<1>2. /\ QueryInv' /\ NumJoins' = NumJoins /\ Rels' = Rels /\ Trees' = Trees
      /\ InitialPriorities' = InitialPriorities
      /\ \A seq, S : IsTree(seq, S) => IsTree(seq, S)'
  BY <1>1, Unchanged DEF Inv
<1>3. TreesInv'
  <2>1. TreesOfSets'
    <3>1. \A S \in DOMAIN hashTree' : IsTree(hashTree'[S], S)
      BY <1>1, Zenon DEF Inv, TreesInv, TreesOfSets
    <3>. QED  BY <1>1, <3>1, TreesKept
  <2>. QED  BY <1>1, <1>2, <2>1 DEF Inv, TreesInv
<1>4. CounterInv'
  BY <1>1, <1>2 DEF Inv, CounterInv
<1>5. SequenceInv'
  <2>1. pc # "enumerate" => IsTree(sequence, Rels)'
    <3>1. pc # "enumerate" => IsTree(sequence, Rels)
      BY DEF Inv, SequenceInv
    <3>. QED  BY <1>1, <1>2, <3>1, Zenon
  <2>. QED  BY <1>1, <1>2, <2>1 DEF Inv, SequenceInv
<1>6. RestInv'
  <2>1. Base' = Base /\ Start' = Start /\ Rest' = Rest /\ (OneMore' => OneMore)
    BY <1>1, StaticRest
  <2>2. Progress => Progress'
    BY <1>1, <1>2, <2>1, Zenon DEF Progress, InPriorities
  <2>3. Placed => Placed'
    BY <1>1, <1>2, <2>1, Zenon DEF Placed
  <2>. QED  BY <1>1, <2>1, <2>2, <2>3 DEF Inv, RestInv
<1>. QED  BY <1>2, <1>3, <1>4, <1>5, <1>6 DEF Inv

(* The invariant holds for every connected query.                          *)
THEOREM Invariance == Spec => []Inv
<1>1. Inv /\ [Next]_vars => Inv'
  BY EnumerationStep, EndStep, SetSequenceStep, SkipStep, InsertStep, AppendStep,
     ReadOutsideStep, StoppedStep DEF Next, Stopped
<1>. QED  BY InitInv, <1>1, PTL DEF Spec

-----------------------------------------------------------------------------
(* What follows from it                                                    *)

(* joinSeq and priorities name joins of the query, and the counters of     *)
(* SetPriorities stay in their ranges: alreadyPrioritized grows once a     *)
(* round at most.                                                          *)
THEOREM TypeCorrect == Spec => []TypeOK
<1>1. Inv => TypeOK
  <2>. SUFFICES ASSUME Inv PROVE TypeOK
    OBVIOUS
  <2>. DEFINE N == NumJoins
  <2>1. /\ numOfRels \in 2..10 /\ N \in 1..10
        /\ \A i \in DOMAIN joins : Pair(joins[i]) \subseteq Rels
    BY DEF Inv, QueryInv
  <2>2. DOMAIN hashTree \subseteq Trees /\ level \in 1..numOfRels
        /\ \A S \in DOMAIN hashTree : hashTree[S] \in Seq(0..N-1)
    BY Zenon DEF Inv, TreesInv, TreesOfSets, IsTree
  <2>3. sequence \in Seq(0..N-1)
    <3>1. CASE pc = "enumerate"
      <4>1. sequence = <<>>
        BY <3>1 DEF Inv, SequenceInv
      <4>. QED  BY <4>1
    <3>2. CASE pc # "enumerate"
      BY <3>2, Zenon DEF Inv, SequenceInv, IsTree
    <3>. QED  BY <3>1, <3>2
  <2>4. /\ pc \in {"enumerate", "sequence", "rest", "done", "undefined"}
        /\ priorities \in [0..N-1 -> -1..N-1]
        /\ j \in 0..N /\ k \in 0..N-1 /\ already \in Nat
        /\ already <= j * N + k /\ (j = N => k = 0)
    BY Zenon DEF Inv, CounterInv
  <2>. HIDE DEF N
  <2>5. j * N + k <= N * N
    <3>1. CASE j = N
      BY <2>1, <2>4, <3>1
    <3>2. CASE j # N
      <4>1. PICK d \in Nat : N = j + 1 + d
        <5>1. N - j - 1 \in Nat /\ N = j + 1 + (N - j - 1)
          BY <2>1, <2>4, <3>2
        <5>. QED  BY <5>1
      <4>2. N * N = j * N + N + d * N
        <5>1. j \in Nat /\ N \in Nat /\ N * N = (j + 1 + d) * N
          BY <2>1, <2>4, <4>1
        <5>. QED  BY <5>1
      <4>3. j * N \in Nat /\ d * N \in Nat
        BY <2>1, <2>4
      <4>. QED  BY <2>1, <2>4, <4>2, <4>3
    <3>. QED  BY <3>1, <3>2
  <2>6. already \in 0..N*N
    <3>1. j * N \in Int /\ N * N \in Int
      BY <2>1, <2>4
    <3>. QED  BY <2>1, <2>4, <2>5, <3>1
  <2>. QED  BY <2>1, <2>2, <2>3, <2>4, <2>6 DEF TypeOK, N
<1>. QED  BY Invariance, <1>1, PTL

(* Every tree of joinEnumeration is left deep, without a cross product,    *)
(* and the last level has one of all relations.                            *)
THEOREM TreesLeftDeep == Spec => []LeftDeep
<1>1. Inv => LeftDeep
  <2>. SUFFICES ASSUME Inv PROVE LeftDeep
    OBVIOUS
  <2>1. \A S \in DOMAIN hashTree : IsTree(hashTree[S], S)
    BY Zenon DEF Inv, TreesInv, TreesOfSets
  <2>2. level = numOfRels => Rels \in DOMAIN hashTree
    <3>1. PICK S \in DOMAIN hashTree : Cardinality(S) = level
      BY Zenon DEF Inv, TreesInv
    <3>2. S \in SUBSET Rels
      BY DEF Inv, TreesInv, Trees
    <3>3. level = numOfRels => S = Rels
      BY <3>1, <3>2, RelsFacts DEF Inv
    <3>. QED  BY <3>1, <3>3
  <2>. QED  BY <2>1, <2>2, Zenon DEF LeftDeep, IsTree
<1>. QED  BY Invariance, <1>1, PTL

LEMMA DoneFacts ==
  ASSUME Inv, pc = "done", OneMore
  PROVE  /\ QueryInv /\ IsTree(sequence, Rels) /\ Progress /\ Placed
         /\ already \in 0..NumJoins /\ DOMAIN priorities = 0..NumJoins-1
         /\ \A i \in Base \cup Rest : i # -1
         /\ \A b \in Base : InPriorities(b)
         /\ \A x \in Rest : InPriorities(x)
<1>1. QueryInv /\ IsTree(sequence, Rels) /\ Progress /\ Placed
  BY DEF Inv, SequenceInv, RestInv
<1>2. already \in 0..NumJoins /\ DOMAIN priorities = 0..NumJoins-1
  <2>1. already \in Nat /\ already <= NumJoins /\ NumJoins \in Nat
    BY <1>1 DEF Inv, CounterInv, Progress, QueryInv
  <2>2. DOMAIN priorities = 0..NumJoins-1
    BY DEF Inv, CounterInv
  <2>. QED  BY <2>1, <2>2
<1>3. \A i \in Base \cup Rest : i # -1
  <2>1. Base \cup Rest \subseteq 0..NumJoins-1
    BY <1>1, RestFacts DEF QueryInv
  <2>2. NumJoins \in Nat
    BY <1>1 DEF QueryInv
  <2>. QED  BY <2>1, <2>2
<1>4. \A b \in Base : InPriorities(b)
  <2>1. \A p \in 0..already-1 : p \in DOMAIN priorities
    <3>1. NumJoins \in Nat
      BY <1>1 DEF QueryInv
    <3>. QED  BY <1>2, <3>1
  <2>. QED  BY <1>1, <2>1, Zenon DEF Placed, InPriorities
<1>5. \A x \in Rest : InPriorities(x)
  BY <1>1, Zenon DEF Progress
<1>. QED  BY <1>1, <1>2, <1>3, <1>4, <1>5

(* If at most one join is left when the tree is chosen, SetPriorities      *)
(* reads nothing outside priorities, and every join is executed, itself or *)
(* one that is identical to it.                                            *)
THEOREM OneMoreScheduled == Spec => []OneMoreIsScheduled
<1>1. Inv => OneMoreIsScheduled
  <2>. SUFFICES ASSUME Inv, OneMore PROVE pc # "undefined" /\ (pc = "done" => Scheduled)
    BY DEF OneMoreIsScheduled
  <2>1. pc # "undefined"
    <3>1. SUFFICES ASSUME pc = "undefined" PROVE FALSE
      OBVIOUS
    <3>. QED  BY <3>1 DEF Inv, RestInv, Progress
  <2>2. ASSUME pc = "done", NEW i \in DOMAIN joins
        PROVE  \E p \in DOMAIN priorities :
                 priorities[p] # -1 /\ SameJoin(joins[priorities[p]], joins[i])
    <3>1. PICK n \in Base \cup Rest : SameJoin(joins[n], joins[i])
      <4>1. SameJoin(joins[i], joins[i])
        BY DEF SameJoin, Aligned
      <4>2. CASE IsSelfJoin(joins[i])
        BY <4>1, <4>2 DEF Base, SelfSet
      <4>3. CASE ~IsSelfJoin(joins[i]) /\ \A n \in Range(sequence) : ~SameJoin(joins[n], joins[i])
        <5>1. i \in Rest
          BY <4>3, Zenon DEF Rest
        <5>. QED  BY <4>1, <5>1
      <4>4. CASE \E n \in Range(sequence) : SameJoin(joins[n], joins[i])
        BY <4>4 DEF Base
      <4>. QED  BY <4>2, <4>3, <4>4
    <3>2. InPriorities(n) /\ n # -1
      BY <2>2, DoneFacts
    <3>3. PICK p \in DOMAIN priorities : priorities[p] = n
      BY <3>2, Zenon DEF InPriorities
    <3>. QED  BY <3>1, <3>2, <3>3
  <2>. QED  BY <2>1, <2>2, Zenon DEF Scheduled
<1>. QED  BY Invariance, <1>1, PTL

(* A join that is not in the tree comes after joins of the tree that have  *)
(* brought in both its relations: it filters an intermediate.              *)
THEOREM RestFilters == Spec => []RestAreFilters
<1>1. Inv => RestAreFilters
  <2>. DEFINE Before(p) == UNION {Pair(joins[priorities[q]]) :
                                   q \in {q \in 0..p-1 : priorities[q] \in Range(sequence)}}
  <2>. SUFFICES ASSUME Inv, pc = "done", OneMore, NEW p \in DOMAIN priorities,
                       priorities[p] \notin Range(sequence), priorities[p] # -1,
                       Cardinality(Pair(joins[priorities[p]])) = 2
                PROVE  Pair(joins[priorities[p]]) \subseteq Before(p)
    BY Zenon DEF RestAreFilters
  <2>. DEFINE x == priorities[p]
  <2>1. /\ QueryInv /\ IsTree(sequence, Rels) /\ Placed
        /\ already \in 0..NumJoins /\ DOMAIN priorities = 0..NumJoins-1 /\ NumJoins \in Nat
    BY DoneFacts DEF QueryInv
  <2>2. /\ \A q \in 0..already-1 : priorities[q] \in Base \cup Rest
        /\ \A q \in already..NumJoins-1 : priorities[q] \in {-1} \cup Rest
        /\ \A b \in Base : \E q \in 0..already-1 : priorities[q] = b
        /\ \A q \in 0..already-1 : priorities[q] \in Rest =>
             \E r \in 0..q-1 : /\ priorities[r] \in Base
                               /\ Pair(joins[priorities[r]]) = Pair(joins[priorities[q]])
    BY <2>1 DEF Placed
  <2>3. \A i : Cardinality(Pair(joins[i])) = 2 => i \notin SelfSet
    <3>1. ASSUME NEW i \in SelfSet
          PROVE  Cardinality(Pair(joins[i])) = 1
      <4>1. Pair(joins[i]) = {joins[i].rel1}
        BY DEF SelfSet, IsSelfJoin, Pair
      <4>. QED  BY <4>1, FS_Singleton
    <3>. QED  BY <3>1
  <2>4. x \in Rest
    <3>1. x \notin SelfSet
      BY <2>3
    <3>2. p \in 0..already-1 \/ p \in already..NumJoins-1
      BY <2>1
    <3>. QED  BY <2>2, <3>1, <3>2 DEF Base
  <2>5. CASE p \in 0..already-1
    <3>1. PICK q \in 0..p-1 : /\ priorities[q] \in Base
                              /\ Pair(joins[priorities[q]]) = Pair(joins[x])
      BY <2>2, <2>4, <2>5
    <3>2. priorities[q] \notin SelfSet
      <4>1. Cardinality(Pair(joins[priorities[q]])) = 2
        BY <3>1
      <4>. QED  BY <2>3, <4>1
    <3>3. priorities[q] \in Range(sequence)
      BY <3>1, <3>2 DEF Base
    <3>. QED  BY <3>1, <3>3
  <2>6. CASE p \notin 0..already-1
    <3>1. Rels \subseteq UNION {Pair(joins[i]) : i \in Range(sequence)}
      <4>1. Cardinality(Rels) > 1 /\ Len(sequence) = Cardinality(Rels) - 1
            /\ Cardinality(Rels) \in Nat /\ DOMAIN sequence = 1..Len(sequence)
        BY <2>1, RelsFacts DEF QueryInv, IsTree
      <4>2. RelsBefore(sequence, Cardinality(Rels)) = Rels
        BY <2>1, <4>1 DEF IsTree
      <4>3. 1..Cardinality(Rels)-1 = DOMAIN sequence
        BY <4>1
      <4>4. Rels = UNION {Pair(joins[sequence[i]]) : i \in DOMAIN sequence}
        BY <4>2, <4>3, Zenon DEF RelsBefore
      <4>. QED  BY <4>4 DEF Range
    <3>2. ASSUME NEW i \in Range(sequence)
          PROVE  Pair(joins[i]) \subseteq Before(p)
      <4>1. PICK q \in 0..already-1 : priorities[q] = i
        BY <2>2, Zenon DEF Base
      <4>2. q \in 0..p-1
        BY <2>1, <2>6
      <4>. QED  BY <4>1, <4>2
    <3>3. Pair(joins[x]) \subseteq Rels
      BY <2>1, <2>4 DEF QueryInv, Rest
    <3>. HIDE DEF Before, x
    <3>4. Pair(joins[x]) \subseteq Before(p)
      BY <3>1, <3>2, <3>3
    <3>. QED  BY <3>4 DEF x
  <2>. QED  BY <2>5, <2>6
<1>. QED  BY Invariance, <1>1, PTL
=============================================================================
