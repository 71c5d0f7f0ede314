---------------------------- MODULE PipeIOProofs ----------------------------
(***************************************************************************)
(* Proofs about PipeIO for all sizes of the buffer and of the pipes, all   *)
(* file names and all batches.                                             *)
(*                                                                         *)
(* The argument: what has been read, what is in the pipe and what is still *)
(* to be written are one stream (Sent).  It is the lines of the names,     *)
(* Done and a batch, and while nothing is cut, spilled or lost, a read     *)
(* appends what has come of it or finds the stop word and makes the text   *)
(* the lines before it (ReadOutcome, on streams alone); the memory for the *)
(* text grows first (ReadAllocated).  So program and                       *)
(* harness keep in step (InStep): the program reads a batch only when the  *)
(* answers to the one before are all in, and what it has then is that      *)
(* batch.  IInv says so of the states where nothing has gone wrong, and    *)
(* has the types of all (Typed).                                           *)
(* For texts that fit in the buffer two more invariants show that nothing  *)
(* goes wrong: until the stop word is read, all or nothing of the names    *)
(* has been (NamesInv), and all or nothing of a batch has been written,    *)
(* and nothing read (BatchInv).                                            *)
(***************************************************************************)
EXTENDS PipeIO, FiniteSetTheorems, SequenceTheorems, WellFoundedInduction,
        TLAPS

-----------------------------------------------------------------------------
(* Facts about numbers and sequences                                       *)

(* A set of natural numbers has a least element.                           *)
LEMMA LeastOf ==
  ASSUME NEW T, T \subseteq Nat, T # {}
  PROVE  \E x \in T : \A y \in T : x <= y
<1>1. PICK x \in T : \A y \in T : <<y, x>> \notin OpToRel(<, Nat)
  BY WFMin, NatLessThanWellFounded, Zenon
<1>2. \A y \in T : ~(y < x)
  BY <1>1, Zenon DEF OpToRel
<1>3. \A y \in T : x <= y
  BY <1>2
<1>. QED  BY <1>3

(* Induction, for a set that is given by what is to be shown.              *)
LEMMA InductionInSet ==
  ASSUME NEW T, 0 \in T, \A n \in Nat : n \in T => n + 1 \in T
  PROVE  Nat \subseteq T
<1>. DEFINE missing == Nat \ T
<1>1. SUFFICES ASSUME missing # {} PROVE FALSE
  OBVIOUS
<1>2. PICK x \in missing : \A y \in missing : x <= y
  BY <1>1, LeastOf
<1>3. x # 0 /\ x - 1 \in Nat
  BY <1>2
<1>4. x - 1 \in T
  BY <1>2, <1>3
<1>5. (x - 1) + 1 \in T
  BY <1>3, <1>4
<1>. QED  BY <1>5, <1>2

(* The same up to a bound, for what a sequence or a prefix satisfies.      *)
LEMMA InductionUpTo ==
  ASSUME NEW m \in Nat, NEW T, 0 \in T,
         \A n \in 0..m-1 : n \in T => n + 1 \in T
  PROVE  0..m \subseteq T
<1>. DEFINE U == T \cup {n \in Nat : n > m}
<1>1. 0 \in U
  OBVIOUS
<1>2. \A n \in Nat : n \in U => n + 1 \in U
  OBVIOUS
<1>. HIDE DEF U
<1>3. Nat \subseteq U
  BY <1>1, <1>2, InductionInSet
<1>. QED  BY <1>3 DEF U

(* FlattenSeq                                                              *)

Flattens(ss, n, f) ==
  f = [i \in 1..n |-> IF i = 1 THEN ss[i] ELSE f[i-1] \o ss[i]]

(* The function by which FlattenSeq is defined exists.                     *)
LEMMA FlattensExists ==
  ASSUME NEW ss, NEW m \in Nat
  PROVE  \E f : Flattens(ss, m, f)
<1>. DEFINE T == {n \in Nat : \E f : Flattens(ss, n, f)}
<1>1. 0 \in T
  <2>. DEFINE f == [i \in 1..0 |-> ss[i]]
  <2>1. f = [i \in 1..0 |-> IF i = 1 THEN ss[i] ELSE f[i-1] \o ss[i]]
    OBVIOUS
  <2>. QED  BY <2>1 DEF Flattens
<1>2. ASSUME NEW n \in Nat, n \in T
      PROVE  n + 1 \in T
  <2>1. PICK f : Flattens(ss, n, f)
    BY <1>2
  <2>. DEFINE g == [i \in 1..n+1 |-> IF i \in 1..n THEN f[i]
                                     ELSE IF i = 1 THEN ss[i] ELSE f[i-1] \o ss[i]]
  <2>2. ASSUME NEW i \in 1..n+1
        PROVE  g[i] = IF i = 1 THEN ss[i] ELSE g[i-1] \o ss[i]
    <3>1. CASE i \in 1..n
      <4>1. f[i] = IF i = 1 THEN ss[i] ELSE f[i-1] \o ss[i]
        BY <2>1, <3>1 DEF Flattens
      <4>2. i # 1 => i - 1 \in 1..n /\ i - 1 \in 1..n+1
        BY <3>1
      <4>. QED  BY <3>1, <4>1, <4>2
    <3>2. CASE i = n + 1
      <4>1. i # 1 => i - 1 \in 1..n /\ i - 1 \in 1..n+1
        BY <3>2
      <4>2. i \notin 1..n
        BY <3>2
      <4>. QED  BY <4>1, <4>2
    <3>. QED  BY <3>1, <3>2
  <2>3. g = [i \in 1..n+1 |-> IF i = 1 THEN ss[i] ELSE g[i-1] \o ss[i]]
    BY <2>2
  <2>4. \E h : Flattens(ss, n + 1, h)
    BY <2>3, Zenon DEF Flattens
  <2>. QED  BY <2>4
<1>. HIDE DEF T
<1>3. m \in T
  BY <1>1, <1>2, InductionInSet
<1>. QED  BY <1>3 DEF T

(* FlattenSeq is the last value of such a function.                        *)
LEMMA FlattenSeqDef ==
  ASSUME NEW ss, Len(ss) \in Nat, Len(ss) # 0
  PROVE  \E f : Flattens(ss, Len(ss), f) /\ FlattenSeq(ss) = f[Len(ss)]
<1>. DEFINE m == Len(ss)
            flatten == CHOOSE f : f = [i \in 1..m |-> IF i = 1 THEN ss[i] ELSE f[i-1] \o ss[i]]
<1>1. \E f : f = [i \in 1..m |-> IF i = 1 THEN ss[i] ELSE f[i-1] \o ss[i]]
  BY FlattensExists, Zenon DEF Flattens
<1>2. flatten = [i \in 1..m |-> IF i = 1 THEN ss[i] ELSE flatten[i-1] \o ss[i]]
  BY <1>1, Zenon
<1>3. FlattenSeq(ss) = flatten[m]
  BY Zenon DEF FlattenSeq
<1>. QED  BY <1>2, <1>3, Zenon DEF Flattens

LEMMA FlattensStep ==
  ASSUME NEW ss, NEW m \in Nat, NEW f, Flattens(ss, m, f), NEW n \in Nat, n + 1 \in 1..m
  PROVE  f[n + 1] = IF n = 0 THEN ss[n + 1] ELSE f[n] \o ss[n + 1]
<1>1. f[n + 1] = IF n + 1 = 1 THEN ss[n + 1] ELSE f[(n + 1) - 1] \o ss[n + 1]
  BY Zenon DEF Flattens
<1>2. (n + 1) - 1 = n /\ (n + 1 = 1 <=> n = 0)
  OBVIOUS
<1>. QED  BY <1>1, <1>2, Zenon

LEMMA FlattenSeqEmpty == FlattenSeq(<<>>) = <<>>
BY DEF FlattenSeq

(* A flattened sequence of sequences over S is a sequence over S.          *)
LEMMA FlattensType ==
  ASSUME NEW S, NEW ss \in Seq(Seq(S)), NEW f, NEW m \in 0..Len(ss), Flattens(ss, m, f)
  PROVE  \A i \in 1..m : f[i] \in Seq(S)
<1>. DEFINE T == {n \in Nat : n \in 1..m => f[n] \in Seq(S)}
<1>1. 0 \in T
  OBVIOUS
<1>2. ASSUME NEW n \in 0..m-1, n \in T
      PROVE  n + 1 \in T
  <2>1. ss[n+1] \in Seq(S)
    OBVIOUS
  <2>2. f[n+1] = IF n = 0 THEN ss[n+1] ELSE f[n] \o ss[n+1]
    BY FlattensStep
  <2>3. CASE n = 0
    BY <2>1, <2>2, <2>3
  <2>4. CASE n # 0
    <3>1. f[n] \in Seq(S)
      BY <2>4, <1>2
    <3>2. f[n] \o ss[n+1] \in Seq(S)
      BY <3>1, <2>1, ConcatProperties
    <3>3. f[n+1] \in Seq(S)
      BY <2>2, <2>4, <3>2, Zenon
    <3>. QED  BY <3>3
  <2>. QED  BY <2>3, <2>4
<1>. HIDE DEF T
<1>3. 0..m \subseteq T
  <2>. m \in Nat
    OBVIOUS
  <2>. QED  BY <1>1, <1>2, InductionUpTo
<1>. QED  BY <1>3 DEF T

LEMMA FlattenSeqType ==
  ASSUME NEW S, NEW ss \in Seq(Seq(S))
  PROVE  FlattenSeq(ss) \in Seq(S)
<1>1. CASE Len(ss) = 0
  <2>1. ss = <<>>
    BY <1>1
  <2>2. FlattenSeq(ss) = <<>>
    BY <2>1, FlattenSeqEmpty, Zenon
  <2>. QED  BY <2>2
<1>2. CASE Len(ss) # 0
  <2>1. PICK f : Flattens(ss, Len(ss), f) /\ FlattenSeq(ss) = f[Len(ss)]
    BY <1>2, FlattenSeqDef
  <2>. QED  BY <1>2, <2>1, FlattensType
<1>. QED  BY <1>1, <1>2

(* What FlattenSeq makes of one sequence more.                             *)
LEMMA FlattenSeqAppend ==
  ASSUME NEW S, NEW ss \in Seq(Seq(S)), NEW s \in Seq(S)
  PROVE  FlattenSeq(Append(ss, s)) = FlattenSeq(ss) \o s
<1>. DEFINE tt == Append(ss, s)
            m == Len(ss)
<1>1. /\ m \in Nat /\ tt \in Seq(Seq(S)) /\ Len(tt) = m + 1
      /\ (\A i \in 1..m : tt[i] = ss[i]) /\ tt[m + 1] = s
  OBVIOUS
<1>. HIDE DEF tt
<1>2. PICK g : Flattens(tt, m + 1, g) /\ FlattenSeq(tt) = g[m + 1]
  BY <1>1, FlattenSeqDef
<1>3. \A n \in Nat : n + 1 \in 1..m+1 =>
        g[n + 1] = IF n = 0 THEN tt[n + 1] ELSE g[n] \o tt[n + 1]
  <2>1. m + 1 \in Nat /\ Flattens(tt, m + 1, g)
    BY <1>1, <1>2
  <2>. HIDE DEF m
  <2>. QED  BY <2>1, FlattensStep
<1>4. g[m + 1] = IF m = 0 THEN s ELSE g[m] \o s
  <2>1. m \in Nat /\ m + 1 \in 1..m+1 /\ tt[m + 1] = s
    BY <1>1
  <2>. HIDE DEF m
  <2>. QED  BY <1>3, <2>1
<1>5. CASE m = 0
  <2>1. ss = <<>> /\ FlattenSeq(ss) = <<>>
    BY <1>5, FlattenSeqEmpty
  <2>2. <<>> \o s = s
    BY ConcatEmptySeq
  <2>. QED  BY <1>2, <1>4, <1>5, <2>1, <2>2 DEF tt
<1>6. CASE m # 0
  <2>1. PICK f : Flattens(ss, m, f) /\ FlattenSeq(ss) = f[m]
    BY <1>1, <1>6, FlattenSeqDef
  <2>. DEFINE T == {n \in Nat : n \in 1..m => g[n] = f[n]}
  <2>2. 0 \in T
    OBVIOUS
  <2>3. ASSUME NEW n \in 0..m-1, n \in T
        PROVE  n + 1 \in T
    <3>1. n \in Nat /\ n + 1 \in 1..m /\ n + 1 \in 1..m+1 /\ (n # 0 => n \in 1..m)
      BY <1>1
    <3>2. f[n+1] = IF n = 0 THEN ss[n+1] ELSE f[n] \o ss[n+1]
      BY <1>1, <2>1, <3>1, FlattensStep, Zenon
    <3>3. g[n+1] = IF n = 0 THEN ss[n+1] ELSE g[n] \o ss[n+1]
      <4>1. tt[n+1] = ss[n+1]
        BY <1>1, <3>1
      <4>. QED  BY <1>3, <3>1, <4>1, Zenon
    <3>4. n # 0 => g[n] = f[n]
      BY <2>3, <3>1, Zenon
    <3>5. g[n+1] = f[n+1]
      BY <3>2, <3>3, <3>4, Zenon
    <3>. QED  BY <3>5
  <2>. HIDE DEF T
  <2>4. 0..m \subseteq T
    BY <1>1, <2>2, <2>3, InductionUpTo
  <2>5. m \in 0..m /\ m \in 1..m
    BY <1>1, <1>6
  <2>6. g[m] = f[m]
    BY <2>4, <2>5, Zenon DEF T
  <2>. QED  BY <1>2, <1>4, <1>6, <2>1, <2>6 DEF tt
<1>. QED  BY <1>5, <1>6, <1>1

(* FlattenSeq distributes over concatenation.                              *)
LEMMA FlattenSeqConcat ==
  ASSUME NEW S, NEW ss \in Seq(Seq(S)), NEW tt \in Seq(Seq(S))
  PROVE  FlattenSeq(ss \o tt) = FlattenSeq(ss) \o FlattenSeq(tt)
<1>. DEFINE m == Len(tt)
            Q == Seq(Seq(S))
            T == {n \in Nat : \A u \in Q : Len(u) = n =>
                    FlattenSeq(ss \o u) = FlattenSeq(ss) \o FlattenSeq(u)}
<1>1. 0 \in T
  <2>1. ASSUME NEW u \in Q, Len(u) = 0
        PROVE  FlattenSeq(ss \o u) = FlattenSeq(ss) \o FlattenSeq(u)
    <3>1. u = <<>> /\ ss \o <<>> = ss
      BY <2>1, ConcatEmptySeq
    <3>2. FlattenSeq(ss) \o <<>> = FlattenSeq(ss)
      BY FlattenSeqType, ConcatEmptySeq
    <3>. QED  BY <3>1, <3>2, FlattenSeqEmpty
  <2>. QED  BY <2>1
<1>2. ASSUME NEW n \in Nat, n \in T
      PROVE  n + 1 \in T
  <2>1. ASSUME NEW u \in Q, Len(u) = n + 1
        PROVE  FlattenSeq(ss \o u) = FlattenSeq(ss) \o FlattenSeq(u)
    <3>1. u # <<>>
      BY <2>1
    <3>2. PICK v \in Q, e \in Seq(S) : u = Append(v, e)
      BY <3>1, SequenceEmptyOrAppend
    <3>3. Len(v) = n
      BY <2>1, <3>2
    <3>4. FlattenSeq(ss \o v) = FlattenSeq(ss) \o FlattenSeq(v)
      BY <1>2, <3>3
    <3>5. ss \o Append(v, e) = Append(ss \o v, e) /\ ss \o v \in Q
      <4>1. ss \o v \in Q /\ v \in Q
        BY ConcatProperties
      <4>2. Append(v, e) = v \o <<e>> /\ Append(ss \o v, e) = (ss \o v) \o <<e>>
        BY <4>1, AppendIsConcat
      <4>3. <<e>> \in Q
        OBVIOUS
      <4>. QED  BY <4>1, <4>2, <4>3, ConcatAssociative
    <3>6. FlattenSeq(ss \o u) = FlattenSeq(ss \o v) \o e
      BY <3>2, <3>5, FlattenSeqAppend
    <3>7. FlattenSeq(u) = FlattenSeq(v) \o e
      BY <3>2, FlattenSeqAppend
    <3>8. FlattenSeq(ss) \in Seq(S) /\ FlattenSeq(v) \in Seq(S)
      BY FlattenSeqType
    <3>9. (FlattenSeq(ss) \o FlattenSeq(v)) \o e = FlattenSeq(ss) \o (FlattenSeq(v) \o e)
      BY <3>8, ConcatAssociative
    <3>. QED  BY <3>4, <3>6, <3>7, <3>9, Zenon
  <2>. HIDE DEF Q
  <2>. QED  BY <2>1
<1>. HIDE DEF T
<1>3. m \in Nat
  OBVIOUS
<1>. HIDE DEF m
<1>4. m \in T
  BY <1>1, <1>2, <1>3, InductionInSet
<1>. QED  BY <1>4 DEF T, m

(* Parts of sequences                                                      *)

(* A function on 1..n is a sequence.                                       *)
LEMMA FunctionIsSequence ==
  ASSUME NEW S, NEW n \in Nat, NEW f \in [1..n -> S]
  PROVE  f \in Seq(S) /\ Len(f) = n
OBVIOUS

-----------------------------------------------------------------------------
(* Text and lines                                                          *)

TextLines(ws) == FlattenSeq([i \in DOMAIN ws |-> Line(ws[i])])

(* The text of some lines, unit by unit.                                   *)
IsTextOf(t, ws, W) ==
  /\ t \in Seq(W \cup {More, Eol})
  /\ Len(t) = 3 * Len(ws)
  /\ \A i \in 1..Len(ws) : t[3*i - 2] = ws[i] /\ t[3*i - 1] = More /\ t[3*i] = Eol

LEMMA LineType ==
  ASSUME NEW W, NEW w \in W
  PROVE  /\ Line(w) \in Seq(W \cup {More, Eol}) /\ Len(Line(w)) = 3
         /\ Line(w)[1] = w /\ Line(w)[2] = More /\ Line(w)[3] = Eol
BY DEF Line

LEMMA LinesType ==
  ASSUME NEW W, NEW ws \in Seq(W)
  PROVE  /\ [i \in DOMAIN ws |-> Line(ws[i])] \in Seq(Seq(W \cup {More, Eol}))
         /\ Len([i \in DOMAIN ws |-> Line(ws[i])]) = Len(ws)
<1>1. Len(ws) \in Nat /\ DOMAIN ws = 1..Len(ws)
  OBVIOUS
<1>2. \A i \in 1..Len(ws) : Line(ws[i]) \in Seq(W \cup {More, Eol})
  BY LineType
<1>3. [i \in DOMAIN ws |-> Line(ws[i])] \in [1..Len(ws) -> Seq(W \cup {More, Eol})]
  BY <1>1, <1>2, Zenon
<1>. QED  BY <1>1, <1>3, FunctionIsSequence

(* One more line at the end of a text.                                     *)
LEMMA TextStep ==
  ASSUME NEW W, NEW ws \in Seq(W), NEW w \in W, NEW t, IsTextOf(t, ws, W)
  PROVE  IsTextOf(t \o Line(w), Append(ws, w), W)
<1>. DEFINE U == W \cup {More, Eol}
            u == t \o Line(w)
<1>1. t \in Seq(U) /\ Line(w) \in Seq(U) /\ Len(Line(w)) = 3 /\ Len(t) = 3 * Len(ws)
  BY LineType DEF IsTextOf
<1>. HIDE DEF U
<1>2. u \in Seq(U) /\ Len(u) = Len(t) + 3
      /\ \A k \in 1..Len(t) + 3 : u[k] = IF k <= Len(t) THEN t[k] ELSE Line(w)[k - Len(t)]
  <2>1. u \in Seq(U) /\ Len(u) = Len(t) + Len(Line(w))
        /\ \A k \in 1..Len(t) + Len(Line(w)) : u[k] = IF k <= Len(t) THEN t[k] ELSE Line(w)[k - Len(t)]
    BY <1>1, ConcatProperties, Zenon
  <2>. QED  BY <1>1, <2>1, Zenon
<1>3. \A k \in 1..3 * Len(ws) + 3 : u[k] = IF k <= 3 * Len(ws) THEN t[k] ELSE Line(w)[k - 3 * Len(ws)]
  BY <1>1, <1>2
<1>4. Len(ws) \in Nat /\ Len(Append(ws, w)) = Len(ws) + 1
      /\ \A i \in 1..Len(ws) + 1 : Append(ws, w)[i] = IF i <= Len(ws) THEN ws[i] ELSE w
  OBVIOUS
<1>. HIDE DEF u
<1>5. ASSUME NEW i \in 1..Len(ws) + 1
      PROVE  u[3*i - 2] = Append(ws, w)[i] /\ u[3*i - 1] = More /\ u[3*i] = Eol
  <2>1. CASE i <= Len(ws)
    <3>1. i \in 1..Len(ws)
      BY <2>1
    <3>2. t[3*i - 2] = ws[i] /\ t[3*i - 1] = More /\ t[3*i] = Eol
      BY <3>1 DEF IsTextOf
    <3>3. 3*i - 2 \in 1..3 * Len(ws) /\ 3*i - 1 \in 1..3 * Len(ws) /\ 3*i \in 1..3 * Len(ws)
      BY <3>1, <1>4
    <3>. QED  BY <1>3, <1>4, <3>1, <3>2, <3>3
  <2>2. CASE i = Len(ws) + 1
    <3>1. /\ u[3 * Len(ws) + 1] = Line(w)[1] /\ u[3 * Len(ws) + 2] = Line(w)[2]
          /\ u[3 * Len(ws) + 3] = Line(w)[3]
      BY <1>3, <1>4
    <3>2. 3*i - 2 = 3 * Len(ws) + 1 /\ 3*i - 1 = 3 * Len(ws) + 2 /\ 3*i = 3 * Len(ws) + 3
      BY <2>2, <1>4
    <3>3. Append(ws, w)[i] = w
      BY <1>4, <2>2
    <3>4. Line(w)[1] = w /\ Line(w)[2] = More /\ Line(w)[3] = Eol
      BY LineType
    <3>. QED  BY <3>1, <3>2, <3>3, <3>4, Zenon
  <2>. QED  BY <1>4, <2>1, <2>2
<1>6. Len(u) = 3 * Len(Append(ws, w))
  BY <1>1, <1>2, <1>4
<1>. QED  BY <1>2, <1>4, <1>5, <1>6 DEF IsTextOf, u, U

LEMMA TextOfLines ==
  ASSUME NEW W, NEW words \in Seq(W)
  PROVE  IsTextOf(TextLines(words), words, W)
<1>. DEFINE U == W \cup {More, Eol}
            T == {n \in Nat : \A ws \in Seq(W) : Len(ws) = n => IsTextOf(TextLines(ws), ws, W)}
<1>1. 0 \in T
  <2> SUFFICES ASSUME NEW ws \in Seq(W), Len(ws) = 0
              PROVE  IsTextOf(TextLines(ws), ws, W)
    OBVIOUS
  <2>1. [i \in DOMAIN ws |-> Line(ws[i])] = <<>>
    BY LinesType
  <2>2. TextLines(ws) = <<>>
    BY <2>1, FlattenSeqEmpty DEF TextLines
  <2>. QED  BY <2>2 DEF IsTextOf
<1>2. ASSUME NEW n \in Nat, n \in T
      PROVE  n + 1 \in T
  <2> SUFFICES ASSUME NEW ws \in Seq(W), Len(ws) = n + 1
              PROVE  IsTextOf(TextLines(ws), ws, W)
    OBVIOUS
  <2>. DEFINE w == ws[n + 1]
              init == SubSeq(ws, 1, n)
              lines(s) == [i \in DOMAIN s |-> Line(s[i])]
  <2>1. init \in Seq(W) /\ Len(init) = n /\ (\A i \in 1..n : init[i] = ws[i]) /\ w \in W
    OBVIOUS
  <2>2. ws = Append(init, w)
    OBVIOUS
  <2>3. lines(init) \in Seq(Seq(U)) /\ Len(lines(init)) = n /\ lines(ws) \in Seq(Seq(U))
        /\ Len(lines(ws)) = n + 1 /\ Line(w) \in Seq(U)
    BY <2>1, LinesType, LineType
  <2>4. \A i \in 1..n + 1 : lines(ws)[i] = IF i <= n THEN lines(init)[i] ELSE Line(w)
    <3>1. DOMAIN ws = 1..n+1 /\ DOMAIN init = 1..n
      BY <2>1
    <3>. QED  BY <2>1, <3>1
  <2>. HIDE DEF lines
  <2>5. lines(ws) = Append(lines(init), Line(w))
    BY <2>3, <2>4
  <2>6. FlattenSeq(lines(ws)) = FlattenSeq(lines(init)) \o Line(w)
    BY <2>3, <2>5, FlattenSeqAppend
  <2>7. IsTextOf(TextLines(init), init, W)
    BY <1>2, <2>1
  <2>8. TextLines(ws) = TextLines(init) \o Line(w)
    BY <2>6 DEF TextLines, lines
  <2>. HIDE DEF init, w
  <2>9. IsTextOf(TextLines(init) \o Line(w), Append(init, w), W)
    BY <2>1, <2>7, TextStep
  <2>. QED  BY <2>2, <2>8, <2>9, Zenon
<1>3. Nat \subseteq T
  BY <1>1, <1>2, InductionInSet
<1>. QED  BY <1>3

LEMMA MaxIs ==
  ASSUME NEW T, T \subseteq Int, NEW m \in T, \A x \in T : x <= m
  PROVE  Max(T) = m
<1>1. \A y \in T : m >= y
  OBVIOUS
<1>2. ASSUME NEW x \in T, \A y \in T : x >= y
      PROVE  x = m
  BY <1>2
<1>. QED  BY <1>1, <1>2 DEF Max

LEMMA MinIs ==
  ASSUME NEW T, T \subseteq Int, NEW m \in T, \A x \in T : m <= x
  PROVE  Min(T) = m
<1>1. ASSUME NEW x \in T, \A y \in T : x <= y
      PROVE  x = m
  BY <1>1
<1>. QED  BY <1>1 DEF Min

LEMMA MinOf ==
  ASSUME NEW T, T \subseteq Nat, T # {}
  PROVE  Min(T) \in T /\ \A x \in T : Min(T) <= x
<1>1. PICK m \in T : \A x \in T : m <= x
  BY LeastOf
<1>2. Min(T) = m
  <2>1. T \subseteq Int
    OBVIOUS
  <2>. HIDE DEF Min
  <2>. QED  BY <1>1, <2>1, MinIs, Zenon
<1>. QED  BY <1>1, <1>2

LEMMA GreatestOf ==
  ASSUME NEW n \in Nat, NEW T, T \subseteq 0..n, T # {}
  PROVE  \E m \in T : \A x \in T : x <= m
<1>. DEFINE D == {y \in 0..n : n - y \in T}
<1>1. D \subseteq Nat /\ D # {}
  <2>1. PICK x \in T : TRUE
    OBVIOUS
  <2>2. n - x \in 0..n /\ n - (n - x) = x
    OBVIOUS
  <2>3. n - x \in D
    BY <2>2
  <2>4. D \subseteq Nat
    OBVIOUS
  <2>. HIDE DEF D
  <2>. QED  BY <2>3, <2>4
<1>2. PICK d \in D : \A y \in D : d <= y
  BY <1>1, LeastOf
<1>3. n - d \in T
  OBVIOUS
<1>4. ASSUME NEW x \in T
      PROVE  x <= n - d
  <2>1. n - x \in 0..n /\ n - (n - x) = x
    OBVIOUS
  <2>2. d <= n - x
    BY <1>2, <2>1
  <2>. QED  BY <2>2
<1>. QED  BY <1>3, <1>4

(* A line starts after the newline before it.                              *)
Begins(s, j, i) == /\ j \in 1..i /\ (j = 1 \/ s[j - 1] = Eol)
                   /\ \A k \in j..i - 1 : s[k] # Eol

LEMMA LineStartIs ==
  ASSUME NEW U, NEW s \in Seq(U), NEW i \in 1..Len(s) + 1, NEW j \in 1..i, Begins(s, j, i)
  PROVE  LineStart(s, i) = j
<1>. DEFINE T == {0} \cup {e \in Eols(s) : e < i}
<1>1. T \subseteq Int /\ j - 1 \in T
  BY DEF Eols, Begins
<1>2. \A x \in T : x <= j - 1
  BY DEF Eols, Begins
<1>3. Max(T) = j - 1
  BY <1>1, <1>2, MaxIs
<1>. QED  BY <1>3 DEF LineStart

LEMMA LineStartOf ==
  ASSUME NEW U, NEW s \in Seq(U), NEW i \in 1..Len(s) + 1
  PROVE  LineStart(s, i) \in 1..i /\ Begins(s, LineStart(s, i), i)
<1>. DEFINE T == {0} \cup {e \in Eols(s) : e < i}
<1>1. T \subseteq 0..Len(s) /\ T # {}
  BY DEF Eols
<1>2. PICK m \in T : \A x \in T : x <= m
  <2>1. Len(s) \in Nat
    OBVIOUS
  <2>. HIDE DEF T
  <2>. QED  BY <1>1, <2>1, GreatestOf, Zenon
<1>3. Begins(s, m + 1, i)
  BY <1>1, <1>2 DEF Begins, Eols
<1>4. m + 1 \in 1..i
  BY <1>2 DEF Eols
<1>. QED  BY <1>3, <1>4, LineStartIs

-----------------------------------------------------------------------------
(* A read of a stream: the lines of body, the stop word and what follows   *)

LEMMA Distinct ==
  /\ Eol # Nul /\ Eol # More /\ Nul # More
  /\ Len(Done) = 2 /\ Done[1] = "Do" /\ Done[2] = "ne" /\ Len(F) = 1 /\ F[1] = "F"
  /\ Done \in Seq(Units) /\ F \in Seq(Units)
  /\ {Eol, Nul, Junk, More} \subseteq Units
<1>1. Eol # Nul /\ Eol # More /\ Nul # More
  BY DEF Eol, Nul, More
<1>2. Len(Done) = 2 /\ Done[1] = "Do" /\ Done[2] = "ne" /\ Len(F) = 1 /\ F[1] = "F"
  BY DEF Done, F
<1>3. DOMAIN Done = 1..2 /\ DOMAIN F = 1..1
  BY DEF Done, F
<1>4. "Do" \in Units /\ "ne" \in Units /\ "F" \in Units
  BY <1>2, <1>3 DEF Units, Range
<1>5. Done \in Seq(Units) /\ F \in Seq(Units)
  BY <1>4 DEF Done, F
<1>. QED  BY <1>1, <1>2, <1>5 DEF Units

LEMMA StopWord ==
  /\ Stop \in Seq(Units) /\ Len(Stop) \in 1..2
  /\ \A k \in 1..Len(Stop) : Stop[k] # Eol /\ Stop[k] # Nul /\ Stop[k] # More
<1>1. CASE Stop = Done
  <2>1. "Do" \notin {Eol, Nul, More} /\ "ne" \notin {Eol, Nul, More}
    BY DEF Eol, Nul, More
  <2>2. \A k \in 1..2 : Done[k] \in {"Do", "ne"}
    BY Distinct
  <2>. QED  BY <1>1, <2>1, <2>2, Distinct
<1>2. CASE Stop = F
  <2>1. "F" \notin {Eol, Nul, More}
    BY DEF Eol, Nul, More
  <2>. QED  BY <1>2, <2>1, Distinct
<1>. QED  BY <1>1, <1>2 DEF Stop

Body(q) ==
  /\ q \in Seq(Units)
  /\ \A i \in 1..Len(q) : q[i] # Nul /\ (q[i] = Eol => i > 1 /\ q[i - 1] = More)
  /\ q # <<>> => q[Len(q)] = Eol

(* The unit of x that ends the stop word after q.                          *)
StopEnd(q) == Len(q) + Len(Stop) + 1
StartsWith(x, q) ==
  /\ x \in Seq(Units) /\ StopEnd(q) <= Len(x)
  /\ \A i \in 1..Len(q) : x[i] = q[i]
  /\ \A k \in 1..Len(Stop) : x[Len(q) + k] = Stop[k]
  /\ x[StopEnd(q)] = Eol

(* x begins with what has been read and the next chunk.                    *)
Reads(x, chunk) ==
  /\ text \in Seq(Units) /\ chunk \in Seq(Units)
  /\ Len(text) + Len(chunk) <= Len(x)
  /\ \A i \in 1..Len(text) : x[i] = text[i]
  /\ \A i \in 1..Len(chunk) : x[Len(text) + i] = chunk[i]

(* A line that is taken for the stop word before it is there has been cut. *)
LEMMA EarlyStop ==
  ASSUME NEW q, Body(q), NEW x, StartsWith(x, q), NEW chunk, Reads(x, chunk),
         NEW e \in Stops(chunk), Len(text) + e < StopEnd(q)
  PROVE  Cut(chunk)
<1>1. Len(text) \in Nat /\ Len(chunk) \in Nat /\ Len(q) \in Nat /\ Len(x) \in Nat
      /\ text \in Seq(Units) /\ chunk \in Seq(Units)
  BY DEF Reads, Body, StartsWith
<1>2. e \in 1..Len(chunk) /\ chunk[e] = Eol /\ IsPrefix(LineBefore(chunk, e), Stop)
  BY <1>1 DEF Stops, Eols
<1>3. x[Len(text) + e] = Eol
  BY <1>2 DEF Reads
<1>4. Len(text) + e <= Len(q)
  <2>1. SUFFICES ASSUME Len(text) + e > Len(q) PROVE FALSE
    BY <1>1, <1>2
  <2>2. Len(text) + e - Len(q) \in 1..Len(Stop)
    BY <1>1, <1>2, <2>1, StopWord DEF StopEnd
  <2>3. x[Len(q) + (Len(text) + e - Len(q))] = Stop[Len(text) + e - Len(q)]
    BY <2>2 DEF StartsWith
  <2>4. Len(q) + (Len(text) + e - Len(q)) = Len(text) + e
    BY <1>1, <1>2
  <2>. QED  BY <1>3, <2>2, <2>3, <2>4, StopWord
<1>5. /\ Len(text) + e \in 1..Len(q) /\ Len(text) + e > 1
      /\ x[Len(text) + e - 1] = More
  <2>1. Len(text) + e \in 1..Len(q)
    BY <1>1, <1>2, <1>4
  <2>2. q[Len(text) + e] = Eol
    BY <1>3, <2>1 DEF StartsWith
  <2>3. Len(text) + e > 1 /\ q[Len(text) + e - 1] = More
    <3>. DEFINE p == Len(text) + e
    <3>. HIDE DEF p
    <3>1. p \in 1..Len(q) /\ q[p] = Eol
      BY <2>1, <2>2 DEF p
    <3>2. p > 1 /\ q[p - 1] = More
      BY <3>1 DEF Body
    <3>3. Len(text) + e - 1 = p - 1
      BY <1>1, <1>2 DEF p
    <3>. QED  BY <3>2, <3>3 DEF p
  <2>4. Len(text) + e - 1 \in 1..Len(q)
    BY <1>1, <1>2, <2>1, <2>3
  <2>. QED  BY <2>1, <2>3, <2>4 DEF StartsWith
<1>. DEFINE ls == LineStart(chunk, e)
<1>6. ls \in 1..e /\ Begins(chunk, ls, e)
  BY <1>1, <1>2, LineStartOf
<1>7. e > 1 => chunk[e - 1] = More
  <2>1. SUFFICES ASSUME e > 1 PROVE chunk[e - 1] = More
    OBVIOUS
  <2>2. e - 1 \in 1..Len(chunk)
    BY <1>1, <1>2, <2>1
  <2>3. x[Len(text) + (e - 1)] = chunk[e - 1]
    BY <2>2 DEF Reads
  <2>4. Len(text) + (e - 1) = Len(text) + e - 1
    BY <1>1, <1>2
  <2>. QED  BY <1>5, <2>3, <2>4
<1>8. ls = e
  <2>. HIDE DEF ls
  <2>1. SUFFICES ASSUME ls < e PROVE FALSE
    BY <1>2, <1>6
  <2>. DEFINE line == LineBefore(chunk, e)
  <2>2. line \in Seq(Units) /\ Len(line) = e - ls /\ line[e - ls] = chunk[e - 1]
    BY <1>1, <1>2, <1>6, <2>1 DEF LineBefore, ls
  <2>3. Len(line) <= Len(Stop) /\ line[e - ls] = Stop[e - ls]
    <3>. HIDE DEF line
    <3>1. Len(line) <= Len(Stop) /\ SubSeq(line, 1, Len(line)) = SubSeq(Stop, 1, Len(line))
      BY <1>2 DEF IsPrefix, line
    <3>2. Len(line) \in 1..Len(Stop)
      BY <1>2, <1>6, <2>1, <2>2, <3>1
    <3>3. SubSeq(line, 1, Len(line))[Len(line)] = line[Len(line)]
      BY <2>2, <3>2
    <3>4. SubSeq(Stop, 1, Len(line))[Len(line)] = Stop[Len(line)]
      BY StopWord, <3>2
    <3>. QED  BY <2>2, <3>1, <3>3, <3>4
  <2>4. e - ls \in 1..Len(Stop)
    <3>. HIDE DEF line
    <3>. QED  BY <1>2, <1>6, <2>1, <2>2, <2>3, StopWord
  <2>5. chunk[e - 1] = Stop[e - ls] /\ e > 1
    <3>. HIDE DEF line
    <3>. QED  BY <1>2, <1>6, <2>1, <2>2, <2>3
  <2>. QED  BY <1>7, <2>4, <2>5, StopWord
<1>9. e = 1
  <2>1. SUFFICES ASSUME e > 1 PROVE FALSE
    BY <1>2
  <2>2. chunk[e - 1] = Eol
    BY <1>6, <1>8, <2>1 DEF Begins
  <2>. QED  BY <1>7, <2>1, <2>2, Distinct
<1>10. Len(text) > 0 /\ text[Len(text)] = More
  <2>1. Len(text) > 0
    BY <1>1, <1>5, <1>9
  <2>2. x[Len(text)] = text[Len(text)]
    BY <1>1, <2>1 DEF Reads
  <2>3. Len(text) + e - 1 = Len(text)
    BY <1>1, <1>9
  <2>. QED  BY <1>5, <2>1, <2>2, <2>3
<1>11. OpenLine(text) # <<>>
  <2>. DEFINE l == LineStart(text, Len(text) + 1)
  <2>1. l \in 1..Len(text) + 1 /\ Begins(text, l, Len(text) + 1)
    BY <1>1, LineStartOf
  <2>2. l # Len(text) + 1
    BY <1>1, <1>10, <2>1, Distinct DEF Begins
  <2>3. Len(SubSeq(text, l, Len(text))) = Len(text) - l + 1
    BY <1>1, <2>1, <2>2
  <2>. HIDE DEF l
  <2>4. Len(SubSeq(text, l, Len(text))) # 0
    BY <1>1, <2>1, <2>2, <2>3
  <2>. QED  BY <2>4, EmptySeq DEF OpenLine, l
<1>12. Eols(chunk) # {} /\ Min(Eols(chunk)) = 1
  <2>1. 1 \in Eols(chunk) /\ Eols(chunk) \subseteq Int /\ \A k \in Eols(chunk) : 1 <= k
    BY <1>1, <1>2, <1>9 DEF Eols
  <2>. QED  BY <2>1, MinIs
<1>. QED  BY <1>2, <1>9, <1>11, <1>12 DEF Cut

(* Where a read that cuts nothing has the end of the stop word, it finds   *)
(* it, with the whole word before it.                                      *)
LEMMA StopIsFound ==
  ASSUME NEW q, Body(q), NEW x, StartsWith(x, q), NEW chunk, Reads(x, chunk),
         ~Cut(chunk), Len(text) < StopEnd(q), StopEnd(q) <= Len(text) + Len(chunk)
  PROVE  Len(text) <= Len(q) /\ StopEnd(q) - Len(text) \in Stops(chunk)
<1>1. Len(text) \in Nat /\ Len(chunk) \in Nat /\ Len(q) \in Nat /\ Len(x) \in Nat
      /\ text \in Seq(Units) /\ chunk \in Seq(Units) /\ Len(Stop) \in 1..2
  BY StopWord DEF Reads, Body, StartsWith
<1>. DEFINE e == StopEnd(q) - Len(text)
<1>2. e \in 1..Len(chunk) /\ Len(text) + e = StopEnd(q)
  BY <1>1 DEF StopEnd
<1>. HIDE DEF e
<1>3. chunk[e] = Eol
  BY <1>2 DEF Reads, StartsWith
<1>4. e \in Eols(chunk)
  BY <1>1, <1>2, <1>3 DEF Eols
<1>5. ASSUME NEW k \in 1..Len(Stop), Len(text) < Len(q) + k
      PROVE  Len(q) + k - Len(text) \in 1..e - 1 /\ chunk[Len(q) + k - Len(text)] = Stop[k]
  <2>1. Len(q) + k - Len(text) \in 1..e - 1
    BY <1>1, <1>2, <1>5 DEF StopEnd
  <2>2. x[Len(text) + (Len(q) + k - Len(text))] = chunk[Len(q) + k - Len(text)]
    <3>1. Len(q) + k - Len(text) \in 1..Len(chunk)
      BY <1>1, <1>2, <2>1
    <3>. QED  BY <3>1 DEF Reads
  <2>3. Len(text) + (Len(q) + k - Len(text)) = Len(q) + k
    BY <1>1
  <2>. QED  BY <2>1, <2>2, <2>3 DEF StartsWith
<1>6. \A i \in 1..e - 1 : Len(text) + i > Len(q) => chunk[i] = Stop[Len(text) + i - Len(q)] /\ chunk[i] # Eol
  <2> SUFFICES ASSUME NEW i \in 1..e - 1, Len(text) + i > Len(q)
              PROVE  chunk[i] = Stop[Len(text) + i - Len(q)] /\ chunk[i] # Eol
    OBVIOUS
  <2>1. Len(text) + i - Len(q) \in 1..Len(Stop)
    BY <1>1, <1>2 DEF StopEnd
  <2>2. Len(q) + (Len(text) + i - Len(q)) - Len(text) = i
    BY <1>1
  <2>3. chunk[i] = Stop[Len(text) + i - Len(q)]
    BY <1>1, <1>5, <2>1, <2>2
  <2>. QED  BY <2>1, <2>3, StopWord
<1>7. ASSUME Len(text) <= Len(q)
      PROVE  e \in Stops(chunk)
  <2>. DEFINE ls == e - Len(Stop)
              line == SubSeq(chunk, ls, e - 1)
  <2>1. ls \in 1..e /\ Len(text) + ls = Len(q) + 1
    BY <1>1, <1>2, <1>7 DEF StopEnd
  <2>. HIDE DEF ls
  <2>2. ls = 1 \/ chunk[ls - 1] = Eol
    <3>1. SUFFICES ASSUME ls > 1 PROVE chunk[ls - 1] = Eol
      BY <2>1
    <3>2. ls - 1 \in 1..Len(chunk) /\ Len(text) + (ls - 1) = Len(q) /\ Len(q) > 0
      BY <1>1, <1>2, <2>1, <3>1
    <3>3. q[Len(q)] = Eol
      BY <3>2 DEF Body
    <3>4. x[Len(q)] = q[Len(q)]
      BY <1>1, <3>2 DEF StartsWith
    <3>5. x[Len(q)] = chunk[ls - 1]
      BY <3>2 DEF Reads
    <3>. QED  BY <3>3, <3>4, <3>5
  <2>3. \A k \in ls..e - 1 : chunk[k] # Eol
    BY <1>1, <1>2, <1>6, <2>1
  <2>4. LineStart(chunk, e) = ls
    <3>1. Begins(chunk, ls, e)
      BY <2>1, <2>2, <2>3 DEF Begins
    <3>2. e \in 1..Len(chunk) + 1
      BY <1>1, <1>2
    <3>. QED  BY <1>1, <2>1, <3>1, <3>2, LineStartIs
  <2>5. line \in Seq(Units) /\ Len(line) = Len(Stop) /\ \A k \in 1..Len(Stop) : line[k] = Stop[k]
    <3>1. e - 1 - ls + 1 = Len(Stop)
      BY <1>1, <1>2 DEF ls
    <3>2. line \in Seq(Units) /\ Len(line) = Len(Stop)
          /\ \A k \in 1..Len(Stop) : line[k] = chunk[ls + k - 1]
      BY <1>1, <1>2, <2>1, <3>1
    <3>3. \A k \in 1..Len(Stop) : Len(q) + k - Len(text) = ls + k - 1
      BY <1>1, <1>2, <2>1
    <3>4. \A k \in 1..Len(Stop) : chunk[ls + k - 1] = Stop[k]
      BY <1>1, <1>5, <1>7, <3>3
    <3>. QED  BY <3>2, <3>4
  <2>6. line = Stop
    <3>. HIDE DEF line
    <3>. QED  BY <2>5, StopWord, SeqEqual
  <2>7. IsPrefix(Stop, Stop)
    BY <1>1 DEF IsPrefix
  <2>. QED  BY <1>4, <2>4, <2>6, <2>7 DEF Stops, LineBefore
<1>8. ASSUME Len(text) > Len(q)
      PROVE  Cut(chunk)
  <2>. DEFINE n == Len(text) - Len(q)
              o == SubSeq(text, Len(q) + 1, Len(text))
              rest == SubSeq(chunk, 1, e - 1)
  <2>1. n \in 1..Len(Stop) /\ e - 1 = Len(Stop) - n
    BY <1>1, <1>2, <1>8 DEF StopEnd
  <2>2. \A i \in Len(q) + 1..Len(text) : text[i] = Stop[i - Len(q)] /\ text[i] # Eol
    <3> SUFFICES ASSUME NEW i \in Len(q) + 1..Len(text)
                PROVE  text[i] = Stop[i - Len(q)] /\ text[i] # Eol
      OBVIOUS
    <3>1. i - Len(q) \in 1..Len(Stop) /\ i \in 1..Len(text) /\ Len(q) + (i - Len(q)) = i
      BY <1>1, <2>1
    <3>2. x[i] = Stop[i - Len(q)]
      BY <3>1 DEF StartsWith
    <3>3. x[i] = text[i]
      BY <3>1 DEF Reads
    <3>. QED  BY <3>1, <3>2, <3>3, StopWord
  <2>3. LineStart(text, Len(text) + 1) = Len(q) + 1
    <3>1. Len(q) + 1 = 1 \/ text[Len(q) + 1 - 1] = Eol
      <4>1. SUFFICES ASSUME Len(q) > 0 PROVE text[Len(q)] = Eol
        BY <1>1
      <4>2. q[Len(q)] = Eol
        BY <4>1 DEF Body
      <4>3. x[Len(q)] = q[Len(q)]
        BY <1>1, <4>1 DEF StartsWith
      <4>4. x[Len(q)] = text[Len(q)]
        BY <1>1, <1>8, <4>1 DEF Reads
      <4>. QED  BY <4>2, <4>3, <4>4
    <3>2. Begins(text, Len(q) + 1, Len(text) + 1)
      BY <1>1, <1>8, <2>2, <3>1 DEF Begins
    <3>3. Len(text) + 1 \in 1..Len(text) + 1 /\ Len(q) + 1 \in 1..Len(text) + 1
      BY <1>1, <1>8
    <3>. QED  BY <1>1, <3>2, <3>3, LineStartIs
  <2>4. o \in Seq(Units) /\ Len(o) = n /\ \A i \in 1..n : o[i] = Stop[i]
    <3>1. Len(text) - (Len(q) + 1) + 1 = n
      BY <1>1
    <3>2. o \in Seq(Units) /\ Len(o) = n /\ \A i \in 1..n : o[i] = text[Len(q) + i]
      BY <1>1, <1>8, <2>1, <3>1
    <3>3. \A i \in 1..n : Len(q) + i \in Len(q) + 1..Len(text) /\ Len(q) + i - Len(q) = i
      BY <1>1
    <3>. HIDE DEF o, n
    <3>. QED  BY <2>2, <3>2, <3>3
  <2>5. rest \in Seq(Units) /\ Len(rest) = e - 1 /\ \A i \in 1..e - 1 : rest[i] = Stop[n + i]
    <3>1. rest \in Seq(Units) /\ Len(rest) = e - 1 /\ \A i \in 1..e - 1 : rest[i] = chunk[i]
      BY <1>1, <1>2
    <3>2. \A i \in 1..e - 1 : Len(text) + i > Len(q) /\ Len(text) + i - Len(q) = n + i
      BY <1>1, <1>2, <1>8
    <3>. HIDE DEF rest, n
    <3>. QED  BY <1>6, <3>1, <3>2
  <2>6. o \o rest = Stop
    <3>. HIDE DEF o, rest, n
    <3>1. o \o rest \in Seq(Units) /\ Len(o \o rest) = Len(o) + Len(rest)
          /\ \A i \in 1..Len(o) + Len(rest) : (o \o rest)[i] = IF i <= Len(o) THEN o[i] ELSE rest[i - Len(o)]
      <4>1. o \in Seq(Units) /\ rest \in Seq(Units)
        BY <2>4, <2>5
      <4>. QED  BY <4>1, ConcatProperties
    <3>2. Len(o) + Len(rest) = Len(Stop)
      BY <1>1, <1>2, <2>1, <2>4, <2>5
    <3>3. \A i \in 1..Len(Stop) : (o \o rest)[i] = Stop[i]
      <4> SUFFICES ASSUME NEW i \in 1..Len(Stop)
                  PROVE  (o \o rest)[i] = Stop[i]
        OBVIOUS
      <4>1. CASE i <= n
        <5>1. i \in 1..n
          BY <2>1, <4>1
        <5>. QED  BY <2>4, <3>1, <3>2, <4>1, <5>1
      <4>2. CASE i > n
        <5>1. i - n \in 1..e - 1 /\ n + (i - n) = i
          BY <1>1, <1>2, <2>1, <4>2
        <5>2. rest[i - n] = Stop[i]
          BY <2>5, <5>1
        <5>3. ~(i <= n)
          BY <1>1, <2>1, <4>2
        <5>. QED  BY <2>4, <3>1, <3>2, <5>2, <5>3
      <4>3. i <= n \/ i > n
        BY <1>1, <2>1
      <4>. QED  BY <4>1, <4>2, <4>3
    <3>4. Len(o \o rest) = Len(Stop)
      BY <3>1, <3>2
    <3>. QED  BY <3>1, <3>3, <3>4, StopWord, SeqEqual
  <2>7. Eols(chunk) # {} /\ Min(Eols(chunk)) = e
    <3>1. Eols(chunk) \subseteq Int /\ \A i \in Eols(chunk) : e <= i
      <4>1. ASSUME NEW i \in Eols(chunk), i < e PROVE FALSE
        <5>1. i \in 1..e - 1 /\ chunk[i] = Eol
          BY <1>1, <1>2, <4>1 DEF Eols
        <5>2. Len(text) + i > Len(q)
          BY <1>1, <1>8, <5>1
        <5>. QED  BY <1>6, <5>1, <5>2
      <4>2. Eols(chunk) \subseteq 1..Len(chunk)
        BY <1>1 DEF Eols
      <4>. QED  BY <1>1, <1>2, <4>1, <4>2
    <3>. QED  BY <1>4, <3>1, MinIs
  <2>8. LineBefore(chunk, e) = rest
    <3>1. Begins(chunk, 1, e)
      <4>1. \A k \in 1..e - 1 : chunk[k] # Eol
        BY <1>1, <1>6, <1>8, <1>2
      <4>. QED  BY <1>2, <4>1 DEF Begins
    <3>2. e \in 1..Len(chunk) + 1 /\ 1 \in 1..e
      BY <1>1, <1>2
    <3>3. LineStart(chunk, e) = 1
      BY <1>1, <3>1, <3>2, LineStartIs
    <3>. QED  BY <3>3 DEF LineBefore
  <2>9. OpenLine(text) = o /\ o # <<>>
    <3>1. Len(o) # 0
      BY <2>1, <2>4
    <3>. QED  BY <2>3, <3>1, EmptySeq DEF OpenLine
  <2>. HIDE DEF o, rest, n
  <2>. QED  BY <2>6, <2>7, <2>8, <2>9 DEF Cut
<1>. QED  BY <1>1, <1>2, <1>7, <1>8 DEF e

IsBuffer(array) == array \in [1..MaxBuffer -> Units]
ReadInto(chunk) == chunk \o SubSeq(buffer, Len(chunk) + 1, MaxBuffer)

LEMMA ReadIntoType ==
  ASSUME NEW chunk \in Seq(Units), Len(chunk) <= MaxBuffer, IsBuffer(buffer)
  PROVE  IsBuffer(ReadInto(chunk)) /\ \A i \in 1..Len(chunk) : ReadInto(chunk)[i] = chunk[i]
<1>. DEFINE rest == SubSeq(buffer, Len(chunk) + 1, MaxBuffer)
<1>1. MaxBuffer \in Nat /\ Len(chunk) \in Nat
  BY SizesAssumption
<1>2. rest \in Seq(Units) /\ Len(rest) = MaxBuffer - Len(chunk)
  <2>1. \A i \in Len(chunk) + 1..MaxBuffer : buffer[i] \in Units
    BY <1>1 DEF IsBuffer
  <2>2. rest \in Seq(Units)
        /\ Len(rest) = IF Len(chunk) + 1 <= MaxBuffer THEN MaxBuffer - (Len(chunk) + 1) + 1 ELSE 0
    BY <1>1, <2>1, SubSeqProperties
  <2>. HIDE DEF rest
  <2>. QED  BY <1>1, <2>2
<1>. HIDE DEF rest
<1>3. chunk \o rest \in Seq(Units) /\ Len(chunk \o rest) = Len(chunk) + Len(rest)
      /\ \A i \in 1..Len(chunk) + Len(rest) :
           (chunk \o rest)[i] = IF i <= Len(chunk) THEN chunk[i] ELSE rest[i - Len(chunk)]
  BY <1>2, ConcatProperties
<1>4. Len(chunk \o rest) = MaxBuffer
  BY <1>1, <1>2, <1>3
<1>5. \A i \in 1..Len(chunk) : (chunk \o rest)[i] = chunk[i]
  BY <1>1, <1>2, <1>3
<1>6. chunk \o rest \in [1..MaxBuffer -> Units]
  BY <1>3, <1>4, LenProperties
<1>. QED  BY <1>5, <1>6 DEF ReadInto, rest, IsBuffer

LEMMA FilledType ==
  ASSUME NEW chunk \in Seq(Units), Len(chunk) <= MaxBuffer, IsBuffer(buffer)
  PROVE  IsBuffer(Filled(chunk))
<1>1. IsBuffer(ReadInto(chunk))
  BY ReadIntoType
<1>2. \A end : IsBuffer([ReadInto(chunk) EXCEPT ![end] = Nul])
  BY <1>1, Distinct DEF IsBuffer
<1>. QED  BY <1>1, <1>2 DEF Filled, ReadInto

LEMMA CopiesType ==
  ASSUME NEW array, IsBuffer(array), NEW copy \in Copies(array)
  PROVE  copy \in Seq(Units) /\ Len(copy) <= MaxBuffer + 1
<1>1. array \in Seq(Units) /\ Len(array) = MaxBuffer
  BY SizesAssumption DEF IsBuffer
<1>2. CASE Nul \in Range(array)
  <2>. DEFINE m == Min({i \in DOMAIN array : array[i] = Nul})
  <2>1. m \in 1..MaxBuffer
    <3>1. {i \in DOMAIN array : array[i] = Nul} \subseteq Nat /\ {i \in DOMAIN array : array[i] = Nul} # {}
      BY <1>1, <1>2 DEF Range
    <3>2. m \in {i \in DOMAIN array : array[i] = Nul}
      BY <3>1, MinOf
    <3>. QED  BY <3>2 DEF IsBuffer
  <2>2. copy = SubSeq(array, 1, m - 1)
    BY <1>2 DEF Copies
  <2>. HIDE DEF m
  <2>. QED  BY <1>1, <2>1, <2>2, SizesAssumption
<1>3. CASE Nul \notin Range(array)
  <2>1. copy = array \/ copy = Append(array, Junk)
    BY <1>3 DEF Copies
  <2>2. Junk \in Units
    BY Distinct
  <2>. QED  BY <1>1, <2>1, <2>2
<1>. QED  BY <1>2, <1>3

(* What is copied is what is before the first Nul.                         *)
LEMMA CopyToTheNul ==
  ASSUME NEW array, IsBuffer(array), NEW copy \in Copies(array), NEW end \in 1..MaxBuffer,
         array[end] = Nul, \A i \in 1..end - 1 : array[i] # Nul
  PROVE  copy = SubSeq(array, 1, end - 1)
<1>1. Nul \in Range(array)
  BY DEF Range, IsBuffer
<1>. DEFINE T == {i \in DOMAIN array : array[i] = Nul}
<1>2. T \subseteq Int /\ end \in T
  BY SizesAssumption DEF IsBuffer
<1>3. ASSUME NEW i \in T PROVE end <= i
  <2>1. i \in 1..MaxBuffer /\ array[i] = Nul
    BY DEF IsBuffer
  <2>. QED  BY <2>1, SizesAssumption
<1>4. Min(T) = end
  <2>. HIDE DEF T
  <2>. QED  BY <1>2, <1>3, MinIs
<1>. QED  BY <1>1, <1>4 DEF Copies

(* A read that cuts and spills nothing: before the end of the stop word it *)
(* appends what has come, and with it it makes the text the body.          *)
ReadsOn(q, chunk, copy) ==
  /\ Len(text) + Len(chunk) < StopEnd(q)
  /\ Stops(chunk) = {} /\ copy = chunk
ReadsAll(q, chunk, copy) ==
  /\ Len(text) <= Len(q) /\ StopEnd(q) <= Len(text) + Len(chunk)
  /\ StopEnd(q) - Len(text) \in Stops(chunk)
  /\ copy \in Seq(Units) /\ Len(copy) = Len(q) - Len(text) /\ text \o copy = q

LEMMA ReadOutcome ==
  ASSUME NEW q, Body(q), NEW x, StartsWith(x, q), NEW chunk, Reads(x, chunk),
         Len(chunk) <= MaxBuffer, IsBuffer(buffer), Len(text) < StopEnd(q),
         NEW copy \in Copies(Filled(chunk)), ~Cut(chunk), Stops(chunk) = {} => copy = chunk
  PROVE  ReadsOn(q, chunk, copy) \/ ReadsAll(q, chunk, copy)
<1>1. Len(text) \in Nat /\ Len(chunk) \in Nat /\ Len(q) \in Nat /\ Len(x) \in Nat
      /\ text \in Seq(Units) /\ chunk \in Seq(Units) /\ q \in Seq(Units)
      /\ Len(Stop) \in 1..2 /\ StopEnd(q) \in Nat /\ StopEnd(q) = Len(q) + Len(Stop) + 1
  BY StopWord DEF Reads, Body, StartsWith, StopEnd
<1>2. \A e \in Stops(chunk) : e \in 1..Len(chunk) /\ StopEnd(q) <= Len(text) + e
  <2> SUFFICES ASSUME NEW e \in Stops(chunk)
              PROVE  e \in 1..Len(chunk) /\ StopEnd(q) <= Len(text) + e
    OBVIOUS
  <2>1. e \in 1..Len(chunk)
    BY <1>1 DEF Stops, Eols
  <2>2. ~(Len(text) + e < StopEnd(q))
    BY EarlyStop
  <2>. QED  BY <1>1, <2>1, <2>2
<1>3. CASE Len(text) + Len(chunk) < StopEnd(q)
  <2>1. Stops(chunk) = {}
    BY <1>1, <1>2, <1>3
  <2>. QED  BY <1>3, <2>1 DEF ReadsOn
<1>4. CASE StopEnd(q) <= Len(text) + Len(chunk)
  <2>. DEFINE s == StopEnd(q) - Len(text)
              end == s - Len(Stop)
  <2>1. Len(text) <= Len(q) /\ s \in Stops(chunk)
    BY <1>4, StopIsFound
  <2>2. Min(Stops(chunk)) = s
    <3>1. Stops(chunk) \subseteq Int /\ \A e \in Stops(chunk) : s <= e
      BY <1>1, <1>2
    <3>. HIDE DEF s
    <3>. QED  BY <2>1, <3>1, MinIs
  <2>3. end = Len(q) - Len(text) + 1 /\ end \in 1..Len(chunk) /\ end \in 1..MaxBuffer
    BY <1>1, <1>4, <2>1, SizesAssumption
  <2>4. Filled(chunk) = [ReadInto(chunk) EXCEPT ![end] = Nul]
    <3>1. Stops(chunk) # {}
      BY <2>1
    <3>. HIDE DEF s
    <3>2. end > 0
      BY <2>3, SizesAssumption
    <3>. QED  BY <2>2, <3>1, <3>2 DEF Filled, ReadInto
  <2>. HIDE DEF end
  <2>5. IsBuffer(ReadInto(chunk)) /\ \A i \in 1..Len(chunk) : ReadInto(chunk)[i] = chunk[i]
    BY <1>1, ReadIntoType
  <2>6. /\ IsBuffer(Filled(chunk)) /\ Filled(chunk)[end] = Nul
        /\ \A i \in 1..end - 1 : Filled(chunk)[i] = q[Len(text) + i] /\ Filled(chunk)[i] # Nul
    <3>1. IsBuffer(Filled(chunk))
      BY <1>1, FilledType
    <3>2. Filled(chunk)[end] = Nul
      BY <2>3, <2>4, <2>5 DEF IsBuffer
    <3>3. ASSUME NEW i \in 1..end - 1
          PROVE  Filled(chunk)[i] = q[Len(text) + i] /\ Filled(chunk)[i] # Nul
      <4>1. i # end /\ i \in 1..Len(chunk) /\ i \in 1..MaxBuffer /\ Len(text) + i \in 1..Len(q)
        BY <1>1, <2>1, <2>3, SizesAssumption
      <4>2. Filled(chunk)[i] = ReadInto(chunk)[i]
        BY <2>4, <2>5, <4>1 DEF IsBuffer
      <4>3. ReadInto(chunk)[i] = chunk[i]
        BY <2>5, <4>1
      <4>4. chunk[i] = x[Len(text) + i]
        BY <4>1 DEF Reads
      <4>5. x[Len(text) + i] = q[Len(text) + i]
        BY <4>1 DEF StartsWith
      <4>6. q[Len(text) + i] # Nul
        BY <4>1 DEF Body
      <4>. QED  BY <4>2, <4>3, <4>4, <4>5, <4>6
    <3>. QED  BY <3>1, <3>2, <3>3
  <2>7. copy = SubSeq(Filled(chunk), 1, end - 1)
    BY <2>3, <2>6, CopyToTheNul
  <2>8. copy \in Seq(Units) /\ Len(copy) = end - 1
        /\ \A i \in 1..end - 1 : copy[i] = Filled(chunk)[i]
    <3>1. \A i \in 1..end - 1 : Filled(chunk)[i] \in Units
      BY <2>3, <2>6, SizesAssumption DEF IsBuffer
    <3>. QED  BY <1>1, <2>3, <2>7, <3>1, SubSeqProperties
  <2>9. text \o copy = q
    <3>1. text \o copy \in Seq(Units) /\ Len(text \o copy) = Len(text) + Len(copy)
          /\ \A i \in 1..Len(text) + Len(copy) :
               (text \o copy)[i] = IF i <= Len(text) THEN text[i] ELSE copy[i - Len(text)]
      BY <1>1, <2>8, ConcatProperties
    <3>2. Len(text) + Len(copy) = Len(q)
      BY <1>1, <2>3, <2>8
    <3>3. ASSUME NEW i \in 1..Len(q) PROVE (text \o copy)[i] = q[i]
      <4>1. CASE i <= Len(text)
        <5>1. i \in 1..Len(text)
          BY <1>1, <4>1
        <5>2. x[i] = text[i] /\ x[i] = q[i]
          BY <5>1 DEF Reads, StartsWith
        <5>. QED  BY <3>1, <3>2, <4>1, <5>2
      <4>2. CASE ~(i <= Len(text))
        <5>1. i - Len(text) \in 1..end - 1 /\ Len(text) + (i - Len(text)) = i
          BY <1>1, <2>3, <4>2
        <5>2. copy[i - Len(text)] = q[i]
          BY <2>6, <2>8, <5>1
        <5>. QED  BY <3>1, <3>2, <4>2, <5>2
      <4>. QED  BY <4>1, <4>2
    <3>4. Len(text \o copy) = Len(q)
      BY <3>1, <3>2
    <3>. QED  BY <1>1, <3>1, <3>3, <3>4, SeqEqual
  <2>10. Len(copy) = Len(q) - Len(text)
    BY <1>1, <2>3, <2>8
  <2>. HIDE DEF s
  <2>. QED  BY <1>4, <2>1, <2>8, <2>9, <2>10 DEF ReadsAll, s
<1>. QED  BY <1>1, <1>3, <1>4

-----------------------------------------------------------------------------
(* The text of lines, and the lines of such a text                         *)

(* Where a unit of such a text is in its line.                             *)
LEMMA InLine ==
  ASSUME NEW n \in Nat, NEW j \in 1..3*n
  PROVE  \E i \in 1..n : j = 3*i - 2 \/ j = 3*i - 1 \/ j = 3*i
<1>1. (j + 2) \div 3 \in 1..n
  OBVIOUS
<1>2. j = 3 * ((j + 2) \div 3) - 2 \/ j = 3 * ((j + 2) \div 3) - 1 \/ j = 3 * ((j + 2) \div 3)
  OBVIOUS
<1>. QED  BY <1>1, <1>2

LEMMA TextIsBody ==
  ASSUME NEW W, W \subseteq Units \ {Eol, Nul}, NEW ws \in Seq(W), NEW t, IsTextOf(t, ws, W)
  PROVE  Body(t)
<1>1. Len(ws) \in Nat /\ \A i \in 1..Len(ws) : ws[i] \in Units \ {Eol, Nul}
  OBVIOUS
<1>2. W \cup {More, Eol} \subseteq Units
  BY Distinct
<1>3. t \in Seq(Units) /\ Len(t) = 3 * Len(ws)
  <2>1. t \in Seq(W \cup {More, Eol})
    BY DEF IsTextOf
  <2>. HIDE DEF Units, More, Eol
  <2>2. t \in Seq(Units)
    BY <1>2, <2>1, SeqMonotonic
  <2>. QED  BY <2>2 DEF IsTextOf
<1>4. ASSUME NEW j \in 1..Len(t)
      PROVE  t[j] # Nul /\ (t[j] = Eol => j > 1 /\ t[j - 1] = More)
  <2>1. PICK i \in 1..Len(ws) : j = 3*i - 2 \/ j = 3*i - 1 \/ j = 3*i
    BY <1>1, <1>3, InLine
  <2>2. t[3*i - 2] = ws[i] /\ t[3*i - 1] = More /\ t[3*i] = Eol
    BY DEF IsTextOf
  <2>3. Eol # Nul /\ Eol # More /\ Nul # More
    BY Distinct
  <2>4. CASE j = 3*i
    <3>1. t[j] = Eol /\ j > 1 /\ j - 1 = 3*i - 1
      BY <1>1, <2>2, <2>4
    <3>. QED  BY <2>2, <2>3, <3>1
  <2>5. CASE j = 3*i - 1
    BY <2>2, <2>3, <2>5
  <2>6. CASE j = 3*i - 2
    BY <1>1, <2>2, <2>6
  <2>. QED  BY <2>1, <2>4, <2>5, <2>6
<1>5. ASSUME t # <<>> PROVE t[Len(t)] = Eol
  <2>1. Len(ws) \in 1..Len(ws)
    BY <1>1, <1>3, <1>5
  <2>. QED  BY <1>3, <2>1 DEF IsTextOf
<1>. QED  BY <1>3, <1>4, <1>5 DEF Body

LEMMA CountOfThirds ==
  ASSUME NEW n \in Nat
  PROVE  IsFiniteSet({3 * k : k \in 1..n}) /\ Cardinality({3 * k : k \in 1..n}) = n
<1>. DEFINE S(m) == {3 * k : k \in 1..m}
            T == {m \in Nat : IsFiniteSet(S(m)) /\ Cardinality(S(m)) = m}
<1>1. 0 \in T
  <2>1. S(0) = {}
    OBVIOUS
  <2>. QED  BY <2>1, FS_EmptySet
<1>2. ASSUME NEW m \in Nat, m \in T PROVE m + 1 \in T
  <2>1. S(m + 1) = S(m) \cup {3 * (m + 1)}
    OBVIOUS
  <2>2. 3 * (m + 1) \notin S(m)
    OBVIOUS
  <2>. HIDE DEF S
  <2>3. IsFiniteSet(S(m) \cup {3 * (m + 1)}) /\ Cardinality(S(m) \cup {3 * (m + 1)}) = Cardinality(S(m)) + 1
    BY <1>2, <2>2, FS_AddElement
  <2>. QED  BY <1>2, <2>1, <2>3
<1>3. Nat \subseteq T
  <2>. HIDE DEF T
  <2>. QED  BY <1>1, <1>2, InductionInSet
<1>. QED  BY <1>3

LEMMA LinesOfText ==
  ASSUME NEW W, W \subseteq Units \ {Eol, Nul}, NEW ws \in Seq(W), NEW t, IsTextOf(t, ws, W)
  PROVE  Lines(t) = [i \in 1..Len(ws) |-> <<ws[i], More>>]
<1>1. Len(ws) \in Nat /\ \A i \in 1..Len(ws) : ws[i] # Eol
  OBVIOUS
<1>2. Len(t) = 3 * Len(ws) /\ t \in Seq(W \cup {More, Eol})
      /\ \A i \in 1..Len(ws) : t[3*i - 2] = ws[i] /\ t[3*i - 1] = More /\ t[3*i] = Eol
  BY DEF IsTextOf
<1>3. Eol # More
  BY Distinct
<1>4. Eols(t) = {3 * k : k \in 1..Len(ws)}
  <2>1. ASSUME NEW j \in Eols(t) PROVE j \in {3 * k : k \in 1..Len(ws)}
    <3>1. j \in 1..3 * Len(ws) /\ t[j] = Eol
      BY <1>2 DEF Eols
    <3>2. PICK i \in 1..Len(ws) : j = 3*i - 2 \/ j = 3*i - 1 \/ j = 3*i
      BY <1>1, <3>1, InLine
    <3>3. t[3*i - 2] # Eol /\ t[3*i - 1] # Eol
      BY <1>1, <1>2, <1>3
    <3>4. j = 3*i
      BY <3>1, <3>2, <3>3, Zenon
    <3>. QED  BY <3>4
  <2>2. ASSUME NEW k \in 1..Len(ws) PROVE 3 * k \in Eols(t)
    <3>1. 3 * k \in 1..Len(t)
      BY <1>1, <1>2
    <3>. QED  BY <1>2, <3>1 DEF Eols
  <2>. QED  BY <2>1, <2>2
<1>5. ASSUME NEW n \in 1..Len(ws)
      PROVE  Cardinality({d \in Eols(t) : d <= 3 * n}) = n
  <2>1. {d \in Eols(t) : d <= 3 * n} = {3 * k : k \in 1..n}
    <3>1. n \in Nat /\ n <= Len(ws) /\ Len(ws) \in Nat
      BY <1>1
    <3>2. ASSUME NEW d \in Eols(t), d <= 3 * n PROVE \E k \in 1..n : d = 3 * k
      <4>1. PICK k \in 1..Len(ws) : d = 3 * k
        BY <1>4
      <4>2. k \in 1..n
        BY <3>1, <3>2, <4>1
      <4>. QED  BY <4>1, <4>2
    <3>3. ASSUME NEW k \in 1..n PROVE 3 * k \in Eols(t) /\ 3 * k <= 3 * n
      <4>1. k \in 1..Len(ws) /\ 3 * k <= 3 * n
        BY <3>1
      <4>2. 3 * k \in {3 * l : l \in 1..Len(ws)}
        BY <4>1
      <4>. QED  BY <1>4, <4>1, <4>2
    <3>. QED  BY <3>2, <3>3, Zenon
  <2>2. n \in Nat
    OBVIOUS
  <2>. QED  BY <2>1, <2>2, CountOfThirds, Zenon
<1>6. Cardinality(Eols(t)) = Len(ws)
  BY <1>1, <1>4, CountOfThirds
<1>7. ASSUME NEW n \in 1..Len(ws)
      PROVE  LineBefore(t, EndOfLine(t, n)) = <<ws[n], More>>
  <2>1. 3 * n \in Eols(t)
    BY <1>4
  <2>2. ASSUME NEW e \in Eols(t), Cardinality({d \in Eols(t) : d <= e}) = n
        PROVE  e = 3 * n
    <3>1. PICK k \in 1..Len(ws) : e = 3 * k
      BY <1>4
    <3>. QED  BY <1>5, <2>2, <3>1
  <2>3. EndOfLine(t, n) = 3 * n
    <3>. HIDE DEF Eols
    <3>. QED  BY <1>5, <2>1, <2>2 DEF EndOfLine
  <2>4. 3*n - 2 \in 1..3*n /\ 3*n \in 1..Len(t) + 1 /\ 3*n \in 1..Len(t)
    BY <1>1, <1>2
  <2>5. Begins(t, 3*n - 2, 3*n)
    <3>1. 3*n - 2 = 1 \/ t[3*n - 2 - 1] = Eol
      <4>1. SUFFICES ASSUME n > 1 PROVE t[3*n - 2 - 1] = Eol
        OBVIOUS
      <4>2. n - 1 \in 1..Len(ws) /\ 3*n - 2 - 1 = 3 * (n - 1)
        BY <1>1, <4>1
      <4>. QED  BY <1>2, <4>2
    <3>2. \A k \in 3*n - 2..3*n - 1 : k = 3*n - 2 \/ k = 3*n - 1
      OBVIOUS
    <3>3. \A k \in 3*n - 2..3*n - 1 : t[k] # Eol
      BY <1>1, <1>2, <1>3, <3>2
    <3>. QED  BY <2>4, <3>1, <3>3 DEF Begins
  <2>6. LineStart(t, 3*n) = 3*n - 2
    BY <1>2, <2>4, <2>5, LineStartIs
  <2>7. SubSeq(t, 3*n - 2, 3*n - 1) = <<ws[n], More>>
    <3>1. 3*n - 1 - (3*n - 2) + 1 = 2
      OBVIOUS
    <3>2. \A i \in 3*n - 2..3*n - 1 : t[i] \in W \cup {More, Eol}
      BY <1>2, <2>4
    <3>. DEFINE s == SubSeq(t, 3*n - 2, 3*n - 1)
    <3>3. s \in Seq(W \cup {More, Eol}) /\ Len(s) = 2 /\ s[1] = t[3*n - 2] /\ s[2] = t[3*n - 1]
      <4>1. 3*n - 2 \in Int /\ 3*n - 1 \in Int /\ 3*n - 2 <= 3*n - 1
            /\ 3*n - 2 + 1 - 1 = 3*n - 2 /\ 3*n - 2 + 2 - 1 = 3*n - 1
        OBVIOUS
      <4>2. /\ s \in Seq(W \cup {More, Eol})
            /\ Len(s) = IF 3*n - 2 <= 3*n - 1 THEN 3*n - 1 - (3*n - 2) + 1 ELSE 0
            /\ \A i \in 1..3*n - 1 - (3*n - 2) + 1 : s[i] = t[3*n - 2 + i - 1]
        BY <3>2, <4>1, SubSeqProperties
      <4>. HIDE DEF s
      <4>. QED  BY <3>1, <4>1, <4>2
    <3>. HIDE DEF s
    <3>4. s = <<ws[n], More>>
      BY <1>2, <3>3
    <3>. QED  BY <3>4 DEF s
  <2>. QED  BY <2>3, <2>6, <2>7 DEF LineBefore
<1>. QED  BY <1>6, <1>7 DEF Lines

-----------------------------------------------------------------------------
(* What is sent                                                            *)

QueryWords == Queries \ {Eol, Nul}
Batch(b) == b \in Seq(QueryWords)

LEMMA BatchFacts ==
  ASSUME NEW b, Batch(b)
  PROVE  /\ Body(QueryLines(b)) /\ IsTextOf(QueryLines(b), b, QueryWords)
         /\ Lines(QueryLines(b)) = [i \in 1..Len(b) |-> <<b[i], More>>]
         /\ Len(b) \in Nat /\ Len(QueryLines(b)) = 3 * Len(b)
         /\ BatchText(b) \in Seq(Units) /\ Len(BatchText(b)) = 3 * Len(b) + 2
<1>1. QueryWords \subseteq Units \ {Eol, Nul}
  BY DEF Units, QueryWords
<1>2. IsTextOf(QueryLines(b), b, QueryWords)
  BY TextOfLines DEF QueryLines, TextLines, Batch
<1>3. Body(QueryLines(b)) /\ Lines(QueryLines(b)) = [i \in 1..Len(b) |-> <<b[i], More>>]
  BY <1>1, <1>2, TextIsBody, LinesOfText DEF Batch
<1>4. QueryLines(b) \in Seq(Units) /\ Len(QueryLines(b)) = 3 * Len(b) /\ Len(b) \in Nat
  BY <1>2, <1>3 DEF Body, IsTextOf, Batch
<1>5. F \o <<Eol>> \in Seq(Units) /\ Len(F \o <<Eol>>) = 2
  <2>1. F \in Seq(Units) /\ <<Eol>> \in Seq(Units) /\ Len(F) = 1 /\ Len(<<Eol>>) = 1
    BY Distinct
  <2>. QED  BY <2>1, ConcatProperties
<1>6. BatchText(b) \in Seq(Units) /\ Len(BatchText(b)) = Len(QueryLines(b)) + 2
  <2>1. BatchText(b) = QueryLines(b) \o F \o <<Eol>>
    BY DEF BatchText
  <2>2. F \in Seq(Units) /\ <<Eol>> \in Seq(Units) /\ Len(F) = 1 /\ Len(<<Eol>>) = 1
    BY Distinct
  <2>3. QueryLines(b) \o F \in Seq(Units) /\ Len(QueryLines(b) \o F) = Len(QueryLines(b)) + 1
    <3>1. QueryLines(b) \o F \in Seq(Units) /\ Len(QueryLines(b) \o F) = Len(QueryLines(b)) + Len(F)
      BY <1>4, <2>2, ConcatProperties, Zenon
    <3>. QED  BY <2>2, <3>1
  <2>4. QueryLines(b) \o F \o <<Eol>> \in Seq(Units)
        /\ Len(QueryLines(b) \o F \o <<Eol>>) = Len(QueryLines(b) \o F) + Len(<<Eol>>)
    BY <2>2, <2>3, ConcatProperties, Zenon
  <2>. QED  BY <1>4, <2>1, <2>2, <2>3, <2>4
<1>. QED  BY <1>2, <1>3, <1>4, <1>6

LEMMA WorkloadFacts ==
  ASSUME NEW w \in Workloads
  PROVE  /\ w \in Seq(Seq(QueryWords)) /\ Len(w) \in Nat
         /\ \A i \in 1..Len(w) : Batch(w[i])
BY TextAssumption DEF QueryWords, Batch

LEMMA NamesFacts ==
  ASSUME names \in InitFiles
  PROVE  /\ Body(InitText) /\ InitText \in Seq(Units)
         /\ Lines(InitText) = [i \in 1..Len(names) |-> <<names[i], More>>]
<1>. DEFINE W == Range(names) \ {Eol, Nul}
<1>1. names \in Seq(W)
  BY TextAssumption
<1>2. W \subseteq Units \ {Eol, Nul}
  BY DEF Units
<1>3. IsTextOf(InitText, names, W)
  <2>. HIDE DEF W
  <2>. QED  BY <1>1, TextOfLines DEF InitText, TextLines
<1>4. Body(InitText) /\ Lines(InitText) = [i \in 1..Len(names) |-> <<names[i], More>>]
  <2>. HIDE DEF W
  <2>. QED  BY <1>1, <1>2, <1>3, TextIsBody, LinesOfText
<1>. QED  BY <1>4 DEF Body

-----------------------------------------------------------------------------
(* Types                                                                   *)

IsSequence(s) == \E S : s \in Seq(S)

LEMMA SequenceStep ==
  ASSUME NEW s, IsSequence(s)
  PROVE  /\ Len(s) \in Nat
         /\ \A x : IsSequence(Append(s, x)) /\ Len(Append(s, x)) = Len(s) + 1
         /\ \A n \in 0..Len(s) : /\ IsSequence(SubSeq(s, 1, n)) /\ Len(SubSeq(s, 1, n)) = n
                                 /\ IsSequence(SubSeq(s, n + 1, Len(s)))
                                 /\ Len(SubSeq(s, n + 1, Len(s))) = Len(s) - n
<1>1. PICK S : s \in Seq(S)
  BY DEF IsSequence
<1>2. Len(s) \in Nat
  BY <1>1
<1>3. ASSUME NEW x PROVE IsSequence(Append(s, x)) /\ Len(Append(s, x)) = Len(s) + 1
  <2>1. s \in Seq(S \cup {x})
    BY <1>1, SeqMonotonic
  <2>2. Append(s, x) \in Seq(S \cup {x}) /\ Len(Append(s, x)) = Len(s) + 1
    BY <2>1
  <2>. QED  BY <2>2 DEF IsSequence
<1>4. ASSUME NEW n \in 0..Len(s)
      PROVE  /\ IsSequence(SubSeq(s, 1, n)) /\ Len(SubSeq(s, 1, n)) = n
             /\ IsSequence(SubSeq(s, n + 1, Len(s)))
             /\ Len(SubSeq(s, n + 1, Len(s))) = Len(s) - n
  <2>1. SubSeq(s, 1, n) \in Seq(S) /\ Len(SubSeq(s, 1, n)) = n
    BY <1>1, <1>2
  <2>2. SubSeq(s, n + 1, Len(s)) \in Seq(S) /\ Len(SubSeq(s, n + 1, Len(s))) = Len(s) - n
    <3>1. \A i \in n + 1..Len(s) : s[i] \in S
      BY <1>1, <1>2
    <3>2. SubSeq(s, n + 1, Len(s)) \in Seq(S)
          /\ Len(SubSeq(s, n + 1, Len(s))) = IF n + 1 <= Len(s) THEN Len(s) - (n + 1) + 1 ELSE 0
      BY <1>2, <3>1, SubSeqProperties
    <3>. QED  BY <1>2, <3>2
  <2>. QED  BY <2>1, <2>2 DEF IsSequence
<1>. QED  BY <1>2, <1>3, <1>4

LEMMA SequenceConcat ==
  ASSUME NEW s, IsSequence(s), NEW t, IsSequence(t)
  PROVE  IsSequence(s \o t) /\ Len(s \o t) = Len(s) + Len(t)
<1>1. PICK S : s \in Seq(S)
  BY DEF IsSequence
<1>2. PICK T : t \in Seq(T)
  BY DEF IsSequence
<1>3. s \in Seq(S \cup T) /\ t \in Seq(S \cup T)
  BY <1>1, <1>2, SeqMonotonic
<1>4. s \o t \in Seq(S \cup T) /\ Len(s \o t) = Len(s) + Len(t)
  BY <1>3, ConcatProperties
<1>. QED  BY <1>4 DEF IsSequence

(* Where the harness is in its workload.                                   *)
Structure ==
  /\ IsSequence(toHarness) /\ IsSequence(got) /\ IsSequence(answers)
  /\ hpc \in {"init", "done", "sleep"} => batch = 1
  /\ hpc = "batch" => batch <= Len(workload)
  /\ hpc \in {"done", "sleep", "end"} => left = <<>>
  /\ mishaps \cap (Kinds \X {"answer"}) \subseteq {<<"overrun", "answer">>}

Typed == TypeOK /\ Structure

LEMMA TypedInit == Init => Typed
<1> SUFFICES ASSUME Init PROVE Typed
  OBVIOUS
<1>1. names \in InitFiles /\ workload \in Workloads /\ hpc = "init" /\ batch = 1 /\ left = InitText
      /\ got = <<>> /\ answers = <<>> /\ failed = 0 /\ toProgram = <<>> /\ toHarness = <<>>
      /\ pc = "files" /\ text = <<>> /\ lenInput = MaxBuffer + 1 /\ mishaps = {}
  BY DEF Init
<1>2. buffer \in [1..MaxBuffer -> Units]
  BY Distinct DEF Init, Uninitialized
<1>3. Len(workload) \in Nat
  BY <1>1, WorkloadFacts
<1>4. left \in Seq(Units)
  BY <1>1, NamesFacts
<1>5. TypeOK
  <2>1. batch \in 1..Len(workload) + 1
    BY <1>1, <1>3
  <2>2. toProgram \in Seq(Units) /\ text \in Seq(Units) /\ Len(toProgram) <= PipeSize
        /\ Len(toHarness) <= OutSize /\ Len(answers) = batch - 1
    BY <1>1, SizesAssumption
  <2>3. TextAllocated /\ failed \in Nat
    <3>1. Len(text) = 0 /\ MaxBuffer \in Nat /\ MaxBuffer > 0
      BY <1>1, SizesAssumption
    <3>. QED  BY <1>1, <3>1 DEF TextAllocated
  <2>. QED  BY <1>1, <1>2, <1>4, <2>1, <2>2, <2>3 DEF TypeOK
<1>6. IsSequence(<<>>)
  <2>1. <<>> \in Seq({})
    OBVIOUS
  <2>. QED  BY <2>1 DEF IsSequence
<1>7. Structure
  BY <1>1, <1>6 DEF Structure
<1>. QED  BY <1>5, <1>7 DEF Typed

(* A sequence from the front of which n elements are taken.                *)
LEMMA Parts ==
  ASSUME NEW U, NEW s \in Seq(U), NEW n \in 0..Len(s)
  PROVE  /\ SubSeq(s, 1, n) \in Seq(U) /\ Len(SubSeq(s, 1, n)) = n
         /\ \A i \in 1..n : SubSeq(s, 1, n)[i] = s[i]
         /\ SubSeq(s, n + 1, Len(s)) \in Seq(U)
         /\ Len(SubSeq(s, n + 1, Len(s))) = Len(s) - n
         /\ \A i \in 1..Len(s) - n : SubSeq(s, n + 1, Len(s))[i] = s[n + i]
         /\ SubSeq(s, 1, n) \o SubSeq(s, n + 1, Len(s)) = s
<1>1. Len(s) \in Nat /\ n \in Nat /\ n <= Len(s) /\ Len(s) - n \in Nat /\ n + (Len(s) - n) = Len(s)
  OBVIOUS
<1>. DEFINE a == SubSeq(s, 1, n)
            z == SubSeq(s, n + 1, Len(s))
<1>2. a \in Seq(U) /\ Len(a) = n /\ \A i \in 1..n : a[i] = s[i]
  BY <1>1
<1>3. z \in Seq(U) /\ Len(z) = Len(s) - n /\ \A i \in 1..Len(s) - n : z[i] = s[n + i]
  <2>1. \A i \in n + 1..Len(s) : s[i] \in U
    BY <1>1
  <2>2. z \in Seq(U) /\ Len(z) = (IF n + 1 <= Len(s) THEN Len(s) - (n + 1) + 1 ELSE 0)
        /\ \A i \in 1..Len(s) - (n + 1) + 1 : z[i] = s[n + 1 + i - 1]
    BY <1>1, <2>1, SubSeqProperties
  <2>3. Len(s) - (n + 1) + 1 = Len(s) - n /\ \A i \in 1..Len(s) - n : n + 1 + i - 1 = n + i
    BY <1>1
  <2>. HIDE DEF z
  <2>4. Len(z) = Len(s) - n
    <3>1. \A k, m \in Nat : k <= m => (IF k + 1 <= m THEN m - (k + 1) + 1 ELSE 0) = m - k
      OBVIOUS
    <3>. QED  BY <1>1, <2>2, <3>1, Zenon
  <2>5. \A i \in 1..Len(s) - n : z[i] = s[n + i]
    BY <2>2, <2>3
  <2>. QED  BY <2>2, <2>4, <2>5
<1>4. a \o z = s
  <2>. HIDE DEF a, z
  <2>1. a \o z \in Seq(U) /\ Len(a \o z) = Len(a) + Len(z)
        /\ \A i \in 1..Len(a) + Len(z) : (a \o z)[i] = IF i <= Len(a) THEN a[i] ELSE z[i - Len(a)]
    BY <1>2, <1>3, ConcatProperties
  <2>2. Len(a) + Len(z) = Len(s)
    BY <1>1, <1>2, <1>3
  <2>3. ASSUME NEW i \in 1..Len(s) PROVE (a \o z)[i] = s[i]
    <3>1. CASE i <= n
      <4>1. i \in 1..n
        BY <1>1, <3>1
      <4>. QED  BY <1>2, <2>1, <2>2, <3>1, <4>1
    <3>2. CASE ~(i <= n)
      <4>1. i - n \in 1..Len(s) - n /\ n + (i - n) = i
        BY <1>1, <3>2
      <4>2. z[i - n] = s[i]
        BY <1>3, <4>1
      <4>. QED  BY <1>2, <2>1, <2>2, <3>2, <4>2
    <3>. QED  BY <3>1, <3>2
  <2>4. Len(a \o z) = Len(s)
    BY <2>1, <2>2
  <2>. QED  BY <2>1, <2>3, <2>4, SeqEqual
<1>. QED  BY <1>2, <1>3, <1>4

LEMMA UnitsTaken ==
  ASSUME NEW s \in Seq(Units), NEW n \in 0..Len(s)
  PROVE  /\ SubSeq(s, 1, n) \in Seq(Units) /\ Len(SubSeq(s, 1, n)) = n
         /\ \A i \in 1..n : SubSeq(s, 1, n)[i] = s[i]
         /\ SubSeq(s, n + 1, Len(s)) \in Seq(Units)
         /\ Len(SubSeq(s, n + 1, Len(s))) = Len(s) - n
         /\ \A i \in 1..Len(s) - n : SubSeq(s, n + 1, Len(s))[i] = s[n + i]
         /\ SubSeq(s, 1, n) \o SubSeq(s, n + 1, Len(s)) = s
BY Parts

LEMMA ArrivedFacts ==
  ASSUME toProgram \in Seq(Units)
  PROVE  /\ Arrived \in Seq(Units) /\ Len(Arrived) \in 0..Len(toProgram)
         /\ Len(Arrived) <= MaxBuffer
         /\ Arrived = SubSeq(toProgram, 1, Len(Arrived))
         /\ toProgram # <<>> => Len(Arrived) > 0
         /\ Len(toProgram) <= MaxBuffer => Len(Arrived) = Len(toProgram)
         /\ MaxBuffer <= Len(toProgram) => Len(Arrived) = MaxBuffer
<1>. DEFINE m == Min({Len(toProgram), MaxBuffer})
<1>1. Len(toProgram) \in Nat /\ MaxBuffer \in Nat /\ MaxBuffer > 0
      /\ (toProgram # <<>> => Len(toProgram) > 0)
  BY SizesAssumption, EmptySeq
<1>2. m \in {Len(toProgram), MaxBuffer} /\ m <= Len(toProgram) /\ m <= MaxBuffer
  <2>1. {Len(toProgram), MaxBuffer} \subseteq Nat /\ {Len(toProgram), MaxBuffer} # {}
    BY <1>1
  <2>2. m \in {Len(toProgram), MaxBuffer} /\ \A x \in {Len(toProgram), MaxBuffer} : m <= x
    BY <2>1, MinOf
  <2>. QED  BY <2>2
<1>3. Arrived = SubSeq(toProgram, 1, m)
  BY DEF Arrived
<1>. HIDE DEF m
<1>4. m \in 0..Len(toProgram)
  BY <1>1, <1>2
<1>5. SubSeq(toProgram, 1, m) \in Seq(Units) /\ Len(SubSeq(toProgram, 1, m)) = m
  BY <1>4, UnitsTaken
<1>. QED  BY <1>1, <1>2, <1>3, <1>4, <1>5

(* A read leaves what it did not take.                                     *)
ReadStep(chunk, copy) ==
  /\ toProgram' = SubSeq(toProgram, Len(chunk) + 1, Len(toProgram))
  /\ buffer' = Filled(chunk)
  /\ lenInput' = NewLength(chunk)
  /\ text' = text \o copy
  /\ pc' = IF Stops(chunk) # {} THEN Return ELSE pc
  /\ mishaps' = mishaps \cup (Happens(chunk, copy) \X {pc})

(* A read that spills nothing copies no more than has come.                *)
LEMMA CopyFits ==
  ASSUME NEW chunk, NEW copy, ReadStep(chunk, copy), <<"spill", pc>> \notin mishaps',
         Len(chunk) \in Nat, Len(copy) \in Nat
  PROVE  Len(copy) <= Len(chunk)
<1>1. "spill" \notin Happens(chunk, copy)
  BY DEF ReadStep
<1>2. copy = chunk \/ ~(Len(copy) > Len(chunk))
  BY <1>1 DEF Happens, Kinds
<1>. QED  BY <1>2

(* The memory grows before the text does.                                  *)
LEMMA ReadAllocated ==
  ASSUME TextAllocated, pc \in {"files", "batch"}, text \in Seq(Units),
         NEW chunk \in Seq(Units), Len(chunk) \in 1..MaxBuffer,
         NEW copy \in Seq(Units), Len(copy) <= MaxBuffer + 1, ReadStep(chunk, copy)
  PROVE  TextAllocated'
<1>. DEFINE t == Len(text)
            c == Len(chunk)
            k == Len(copy)
<1>1. t \in Nat /\ c \in Nat /\ k \in Nat /\ MaxBuffer \in Nat /\ c > 0 /\ c <= MaxBuffer
  BY SizesAssumption
<1>2. /\ lenInput \in Nat /\ MaxBuffer < lenInput
      /\ lenInput <= 2 * (t + MaxBuffer) + 1
      /\ t <= lenInput + MaxBuffer
      /\ <<"spill", pc>> \notin mishaps => t <= lenInput
  BY DEF TextAllocated, Reading
<1>3. text' = text \o copy /\ Len(text') = t + k
  BY ConcatProperties DEF ReadStep
<1>4. lenInput' = IF c + t > lenInput THEN 2 * lenInput + 1 ELSE lenInput
  BY DEF ReadStep, NewLength
<1>5. mishaps \subseteq mishaps' /\ Reading' = pc
  BY DEF ReadStep, Return, Reading
<1>6. <<"spill", pc>> \notin mishaps' => k <= c
  BY <1>1, CopyFits
<1>7. lenInput' \in Nat /\ MaxBuffer < lenInput' /\ lenInput' <= 2 * (t + k + MaxBuffer) + 1
  <2>. HIDE DEF t, c, k
  <2>. QED  BY <1>1, <1>2, <1>4
<1>8. t + k <= lenInput' + MaxBuffer
  <2>. HIDE DEF t, c, k
  <2>1. k <= MaxBuffer + 1
    BY DEF k
  <2>. QED  BY <1>1, <1>2, <1>4, <2>1
<1>9. <<"spill", pc>> \notin mishaps' => t + k <= lenInput'
  <2>2. ASSUME k <= c, t <= lenInput
        PROVE  t + k <= lenInput'
    <3>. HIDE DEF t, c, k
    <3>. QED  BY <1>1, <1>2, <1>4, <2>2
  <2>. QED  BY <1>2, <1>5, <1>6, <2>2
<1>. QED  BY <1>3, <1>5, <1>7, <1>8, <1>9 DEF TextAllocated

LEMMA ReadTyped ==
  ASSUME Typed, Read
  PROVE  Typed'
<1>1. PICK copy \in Copies(Filled(Arrived)) : ReadStep(Arrived, copy)
  BY DEF Read, ReadStep
<1>2. pc \in {"files", "batch"} /\ UNCHANGED <<harnessVars, toHarness>>
  BY DEF Read
<1>3. toProgram \in Seq(Units) /\ text \in Seq(Units) /\ IsBuffer(buffer) /\ TextAllocated
      /\ Len(toProgram) <= PipeSize
  BY DEF Typed, TypeOK, IsBuffer
<1>4. Arrived \in Seq(Units) /\ Len(Arrived) \in 0..Len(toProgram) /\ Len(Arrived) <= MaxBuffer
      /\ Len(Arrived) > 0
  BY <1>3, ArrivedFacts DEF Read
<1>5. toProgram' \in Seq(Units) /\ Len(toProgram') <= PipeSize
  <2>1. toProgram' \in Seq(Units) /\ Len(toProgram') = Len(toProgram) - Len(Arrived)
    BY <1>1, <1>3, <1>4, UnitsTaken DEF ReadStep
  <2>. QED  BY <1>3, <1>4, <2>1, SizesAssumption
<1>6. IsBuffer(Filled(Arrived))
  BY <1>3, <1>4, FilledType
<1>7. copy \in Seq(Units) /\ Len(copy) <= MaxBuffer + 1
  BY <1>1, <1>6, CopiesType
<1>8. text' \in Seq(Units)
  <2>1. text' = text \o copy
    BY <1>1 DEF ReadStep
  <2>. QED  BY <1>3, <1>7, <2>1, ConcatProperties
<1>9. TextAllocated'
  <2>1. Len(Arrived) \in 1..MaxBuffer
    BY <1>4, SizesAssumption
  <2>. QED  BY <1>1, <1>2, <1>3, <1>4, <1>7, <2>1, ReadAllocated
<1>10. pc' \in {"construct", "count", "files", "batch"}
  BY <1>1, <1>2 DEF ReadStep, Return
<1>11. mishaps' \subseteq Kinds \X Phases /\ mishaps \subseteq mishaps'
       /\ mishaps' \cap (Kinds \X {"answer"}) = mishaps \cap (Kinds \X {"answer"})
  <2>1. Happens(Arrived, copy) \subseteq Kinds
    BY DEF Happens
  <2>2. mishaps' = mishaps \cup (Happens(Arrived, copy) \X {pc})
    BY <1>1 DEF ReadStep
  <2>3. mishaps \subseteq Kinds \X Phases
    BY DEF Typed, TypeOK
  <2>. HIDE DEF Kinds, Happens
  <2>. QED  BY <1>2, <2>1, <2>2, <2>3 DEF Phases
<1>12. TypeOK'
  <2>1. buffer' \in [1..MaxBuffer -> Units]
    BY <1>1, <1>6 DEF ReadStep, IsBuffer
  <2>. QED  BY <1>2, <1>5, <1>8, <1>9, <1>10, <1>11, <2>1 DEF Typed, TypeOK, harnessVars
<1>13. Structure'
  BY <1>2, <1>11 DEF Typed, Structure, harnessVars
<1>. QED  BY <1>12, <1>13 DEF Typed

LEMMA MainTyped ==
  ASSUME Typed, ReadEnd \/ ConstructInput \/ EndOrCount \/ WritePipe \/ NotAQuery \/ NextRead
  PROVE  Typed'
<1>1. TypeOK /\ Structure
  BY DEF Typed
<1>2. ASSUME buffer' \in Uninitialized PROVE buffer' \in [1..MaxBuffer -> Units]
  BY <1>2, Distinct DEF Uninitialized
<1>3. MaxBuffer + 1 \in Nat /\ <<>> \in Seq(Units) /\ (CallRead => TextAllocated')
  <2>1. MaxBuffer \in Nat /\ MaxBuffer > 0 /\ Len(<<>>) = 0
    BY SizesAssumption
  <2>. QED  BY <2>1 DEF CallRead, TextAllocated
<1>4. CASE ReadEnd
  BY <1>1, <1>4 DEF ReadEnd, Return, Typed, TypeOK, TextAllocated, Reading, Structure, harnessVars
<1>5. CASE ConstructInput
  <2>1. UNCHANGED <<harnessVars, toProgram, toHarness, todo, mishaps>> /\ CallRead
    BY <1>5 DEF ConstructInput
  <2>. QED  BY <1>1, <1>2, <1>3, <2>1 DEF CallRead, Typed, TypeOK, Structure, harnessVars
<1>6. CASE EndOrCount
  <2>1. UNCHANGED <<harnessVars, toProgram, toHarness, buffer, text, lenInput, input>>
        /\ pc' \in {"ended", "answer"}
        /\ (mishaps' = mishaps \/ mishaps' = mishaps \cup {<<"empty", "batch">>})
    BY <1>6 DEF EndOrCount
  <2>2. mishaps' \subseteq Kinds \X Phases
        /\ mishaps' \cap (Kinds \X {"answer"}) = mishaps \cap (Kinds \X {"answer"})
    BY <1>1, <2>1 DEF TypeOK, Kinds, Phases
  <2>4. TextAllocated'
    <3>1. Reading' = Reading
      BY <1>6, <2>1 DEF EndOrCount, Reading
    <3>2. text' = text /\ lenInput' = lenInput /\ mishaps \subseteq mishaps'
      BY <2>1
    <3>. QED  BY <1>1, <3>1, <3>2 DEF TypeOK, TextAllocated
  <2>3. TypeOK'
    BY <1>1, <2>1, <2>2, <2>4 DEF TypeOK, harnessVars
  <2>. QED  BY <1>1, <2>1, <2>2, <2>3 DEF Typed, Structure, harnessVars
<1>7. CASE WritePipe
  <2>1. /\ UNCHANGED <<harnessVars, toProgram, pc, buffer, text, lenInput, input>>
        /\ Len(toHarness) < OutSize
        /\ \E a : toHarness' = Append(toHarness, a)
        /\ (mishaps' = mishaps \/ mishaps' = mishaps \cup {<<"overrun", "answer">>})
    BY <1>7 DEF WritePipe
  <2>2. mishaps' \subseteq Kinds \X Phases
        /\ mishaps' \cap (Kinds \X {"answer"}) \subseteq {<<"overrun", "answer">>}
    BY <1>1, <2>1 DEF TypeOK, Structure, Kinds, Phases
  <2>3. IsSequence(toHarness') /\ Len(toHarness') = Len(toHarness) + 1 /\ Len(toHarness) \in Nat
    BY <1>1, <2>1, SequenceStep DEF Structure
  <2>4. Len(toHarness') <= OutSize
    BY <2>1, <2>3, SizesAssumption
  <2>5. TypeOK'
    BY <1>1, <2>1, <2>2, <2>4 DEF TypeOK, TextAllocated, Reading, harnessVars
  <2>. QED  BY <1>1, <2>1, <2>2, <2>3, <2>5 DEF Typed, Structure, harnessVars
<1>8. CASE NotAQuery
  BY <1>1, <1>8 DEF NotAQuery, Typed, TypeOK, TextAllocated, Reading, Structure, harnessVars
<1>9. CASE NextRead
  <2>1. UNCHANGED <<harnessVars, toProgram, toHarness, todo, input, mishaps>> /\ CallRead
    BY <1>9 DEF NextRead
  <2>. QED  BY <1>1, <1>2, <1>3, <2>1 DEF CallRead, Typed, TypeOK, Structure, harnessVars
<1>. QED  BY <1>4, <1>5, <1>6, <1>7, <1>8, <1>9

(* What is written to a pipe is taken from what is left.                   *)
SentStep(n) ==
  /\ toProgram' \in Seq(Units) /\ left' \in Seq(Units)
  /\ Len(toProgram') = Len(toProgram) + n /\ Len(left') = Len(left) - n
  /\ Len(toProgram') <= PipeSize
  /\ toProgram' \o left' = toProgram \o left

LEMMA SendsStep ==
  ASSUME TypeOK, NEW n \in 0..Len(left), Sends(n)
  PROVE  SentStep(n)
<1>1. left \in Seq(Units) /\ toProgram \in Seq(Units) /\ Len(toProgram) \in Nat
  BY DEF TypeOK
<1>. DEFINE a == SubSeq(left, 1, n)
            z == SubSeq(left, n + 1, Len(left))
<1>2. a \in Seq(Units) /\ Len(a) = n /\ z \in Seq(Units) /\ Len(z) = Len(left) - n /\ a \o z = left
  BY <1>1, UnitsTaken
<1>3. toProgram' = toProgram \o a /\ left' = z /\ n <= PipeSize - Len(toProgram)
  BY DEF Sends, Room
<1>. HIDE DEF a, z
<1>4. toProgram \o a \in Seq(Units) /\ Len(toProgram \o a) = Len(toProgram) + Len(a)
  BY <1>1, <1>2, ConcatProperties
<1>5. Len(toProgram') <= PipeSize
  BY <1>1, <1>2, <1>3, <1>4, SizesAssumption
<1>6. (toProgram \o a) \o z = toProgram \o (a \o z)
  <2>1. a \in Seq(Units) /\ z \in Seq(Units)
    BY <1>2
  <2>. QED  BY <1>1, <2>1, ConcatAssociative
<1>. QED  BY <1>2, <1>3, <1>4, <1>5, <1>6 DEF SentStep

LEMMA OpenBatchTyped ==
  ASSUME workload \in Workloads, NEW b \in 1..Len(workload) + 1, OpenBatch(b)
  PROVE  /\ left' \in Seq(Units) /\ hpc' \in {"batch", "end"} /\ got' = <<>> /\ IsSequence(got')
         /\ hpc' = "end" => left' = <<>>
         /\ hpc' = "batch" => b <= Len(workload) /\ left' = BatchText(workload[b])
<1>1. Len(workload) \in Nat /\ <<>> \in Seq({}) /\ <<>> \in Seq(Units)
  BY WorkloadFacts
<1>2. ASSUME b <= Len(workload) PROVE BatchText(workload[b]) \in Seq(Units)
  <2>1. b \in 1..Len(workload)
    BY <1>1, <1>2
  <2>. QED  BY <2>1, WorkloadFacts, BatchFacts
<1>. QED  BY <1>1, <1>2 DEF OpenBatch, IsSequence

LEMMA HarnessTyped ==
  ASSUME Typed, Harness
  PROVE  Typed'
<1>1. TypeOK /\ Structure
  BY DEF Typed
<1>2. workload \in Workloads /\ Len(workload) \in Nat /\ left \in Seq(Units) /\ Len(left) \in Nat
  BY <1>1, WorkloadFacts DEF TypeOK
<1>3. CASE SendNames
  <2>. DEFINE n == Min({Len(left), MaxBuffer})
  <2>1. n \in 0..Len(left)
    <3>1. {Len(left), MaxBuffer} \subseteq Nat /\ {Len(left), MaxBuffer} # {}
      BY <1>2, SizesAssumption
    <3>2. n \in {Len(left), MaxBuffer} /\ \A x \in {Len(left), MaxBuffer} : n <= x
      BY <3>1, MinOf
    <3>. HIDE DEF n
    <3>. QED  BY <1>2, <3>2, SizesAssumption
  <2>2. Sends(n) /\ hpc' \in {"done", "init"} /\ (hpc' = "done" => left' = <<>>) /\ hpc = "init"
        /\ UNCHANGED <<names, workload, batch, got, answers, failed, toHarness, programVars, mishaps>>
    BY <1>3 DEF SendNames
  <2>. HIDE DEF n
  <2>3. SentStep(n)
    BY <1>1, <2>1, <2>2, SendsStep
  <2>4. TypeOK'
    BY <1>1, <2>2, <2>3 DEF TypeOK, TextAllocated, Reading, SentStep, programVars
  <2>. QED  BY <1>1, <2>2, <2>4 DEF Typed, Structure
<1>4. CASE SendDone
  <2>1. /\ hpc = "done" /\ hpc' = "sleep" /\ toProgram' = toProgram \o Done \o <<Eol>>
        /\ Len(Done) + 1 <= PipeSize - Len(toProgram)
        /\ UNCHANGED <<names, workload, batch, left, got, answers, failed, toHarness, programVars, mishaps>>
    BY <1>4 DEF SendDone, Room
  <2>2. toProgram \in Seq(Units) /\ Len(toProgram) \in Nat
    BY <1>1 DEF TypeOK
  <2>3. Done \in Seq(Units) /\ Len(Done) = 2 /\ <<Eol>> \in Seq(Units) /\ Len(<<Eol>>) = 1
    BY Distinct
  <2>4. toProgram \o Done \in Seq(Units) /\ Len(toProgram \o Done) = Len(toProgram) + Len(Done)
    BY <2>2, <2>3, ConcatProperties, Zenon
  <2>5. (toProgram \o Done) \o <<Eol>> \in Seq(Units)
        /\ Len((toProgram \o Done) \o <<Eol>>) = Len(toProgram \o Done) + Len(<<Eol>>)
    BY <2>3, <2>4, ConcatProperties, Zenon
  <2>6. toProgram' \in Seq(Units) /\ Len(toProgram') <= PipeSize
    BY <2>1, <2>2, <2>3, <2>4, <2>5, SizesAssumption
  <2>7. TypeOK'
    BY <1>1, <2>1, <2>6 DEF TypeOK, TextAllocated, Reading, programVars
  <2>. QED  BY <1>1, <2>1, <2>7 DEF Typed, Structure
<1>5. CASE WakeUp
  <2>1. hpc = "sleep" /\ batch = 1 /\ OpenBatch(1)
        /\ UNCHANGED <<names, workload, batch, answers, failed, toProgram, toHarness, programVars, mishaps>>
    BY <1>1, <1>5 DEF WakeUp, Structure
  <2>2. 1 \in 1..Len(workload) + 1
    BY <1>2
  <2>3. /\ left' \in Seq(Units) /\ hpc' \in {"batch", "end"} /\ IsSequence(got')
        /\ (hpc' = "end" => left' = <<>>) /\ (hpc' = "batch" => 1 <= Len(workload))
    BY <1>2, <2>1, <2>2, OpenBatchTyped
  <2>4. TypeOK'
    BY <1>1, <2>1, <2>3 DEF TypeOK, TextAllocated, Reading, programVars
  <2>. QED  BY <1>1, <2>1, <2>3, <2>4 DEF Typed, Structure
<1>6. CASE Feed
  <2>1. hpc = "batch"
        /\ UNCHANGED <<names, workload, batch, got, answers, failed, toHarness, programVars, mishaps>>
    BY <1>6 DEF Feed
  <2>2. CASE pc = "ended"
    <3>1. hpc' = "killed" /\ UNCHANGED <<left, toProgram>>
      BY <1>6, <2>2 DEF Feed
    <3>2. TypeOK'
      BY <1>1, <2>1, <3>1 DEF TypeOK, TextAllocated, Reading, programVars
    <3>. QED  BY <1>1, <2>1, <3>1, <3>2 DEF Typed, Structure
  <2>3. CASE pc # "ended"
    <3>1. PICK n \in 1..Len(left) : Sends(n)
      BY <1>6, <2>3 DEF Feed
    <3>2. SentStep(n) /\ hpc' = hpc
      BY <1>1, <1>6, <2>3, <3>1, SendsStep DEF Feed
    <3>3. TypeOK'
      BY <1>1, <2>1, <3>2 DEF TypeOK, TextAllocated, Reading, SentStep, programVars
    <3>. QED  BY <1>1, <2>1, <3>2, <3>3 DEF Typed, Structure
  <2>. QED  BY <2>2, <2>3
<1>7. CASE Collect
  <2>1. hpc = "batch"
        /\ UNCHANGED <<names, workload, hpc, batch, left, answers, failed, toProgram, programVars, mishaps>>
    BY <1>7 DEF Collect
  <2>2. PICK n \in 1..Len(toHarness) :
          /\ got' = got \o SubSeq(toHarness, 1, n)
          /\ toHarness' = SubSeq(toHarness, n + 1, Len(toHarness))
    BY <1>7 DEF Collect
  <2>3. /\ IsSequence(SubSeq(toHarness, 1, n)) /\ IsSequence(toHarness')
        /\ Len(toHarness') = Len(toHarness) - n /\ Len(toHarness) \in Nat
    BY <1>1, <2>2, SequenceStep DEF Structure
  <2>4. IsSequence(got')
    BY <1>1, <2>2, <2>3, SequenceConcat DEF Structure
  <2>5. Len(toHarness') <= OutSize
    BY <1>1, <2>3, SizesAssumption DEF TypeOK
  <2>6. TypeOK'
    BY <1>1, <2>1, <2>5 DEF TypeOK, TextAllocated, Reading, programVars
  <2>. QED  BY <1>1, <2>1, <2>3, <2>4, <2>6 DEF Typed, Structure
<1>8. CASE NextBatch
  <2>1. hpc = "batch" /\ answers' = Append(answers, got) /\ batch' = batch + 1
        /\ failed' = failed + Cardinality(Mismatches(batch))
        /\ UNCHANGED <<names, workload, toProgram, toHarness, programVars, mishaps>>
    BY <1>8 DEF NextBatch
  <2>2. batch \in 1..Len(workload) /\ batch + 1 \in 1..Len(workload) + 1
    BY <1>1, <1>2, <2>1 DEF TypeOK, Structure
  <2>3. failed' \in Nat
    <3>1. Len(workload[batch]) \in Nat /\ DOMAIN workload[batch] = 1..Len(workload[batch])
      BY <1>2, <2>2, WorkloadFacts DEF Batch
    <3>2. IsFiniteSet(Mismatches(batch)) /\ Cardinality(Mismatches(batch)) \in Nat
      <4>1. Mismatches(batch) \subseteq 1..Len(workload[batch])
        BY <3>1 DEF Mismatches
      <4>2. IsFiniteSet(1..Len(workload[batch]))
        BY <3>1, FS_Interval
      <4>. QED  BY <4>1, <4>2, FS_Subset, FS_CardinalityType
    <3>. QED  BY <1>1, <2>1, <3>2 DEF TypeOK
  <2>4. IsSequence(answers') /\ Len(answers') = batch' - 1
    <3>1. IsSequence(answers) /\ Len(answers) = batch - 1
      BY <1>1 DEF Structure, TypeOK
    <3>2. IsSequence(answers') /\ Len(answers') = Len(answers) + 1
      BY <2>1, <3>1, SequenceStep
    <3>. QED  BY <2>1, <2>2, <3>1, <3>2
  <2>5. /\ left' \in Seq(Units) /\ hpc' \in {"batch", "end"} /\ IsSequence(got')
        /\ (hpc' = "end" => left' = <<>>) /\ (hpc' = "batch" => batch + 1 <= Len(workload))
    <3>1. CASE OpenBatch(batch + 1)
      BY <1>2, <2>2, <3>1, OpenBatchTyped
    <3>2. CASE hpc' = "end" /\ left' = <<>> /\ got' = <<>>
      <4>1. <<>> \in Seq({})
        OBVIOUS
      <4>. QED  BY <3>2, <4>1 DEF IsSequence
    <3>. QED  BY <1>8, <3>1, <3>2 DEF NextBatch
  <2>6. TypeOK'
    BY <1>1, <2>1, <2>2, <2>3, <2>4, <2>5 DEF TypeOK, TextAllocated, Reading, programVars
  <2>. QED  BY <1>1, <2>1, <2>4, <2>5, <2>6 DEF Typed, Structure
<1>. QED  BY <1>3, <1>4, <1>5, <1>6, <1>7, <1>8 DEF Harness

LEMMA TypedNext == Typed /\ [Next]_vars => Typed'
<1> SUFFICES ASSUME Typed, [Next]_vars PROVE Typed'
  OBVIOUS
<1>1. CASE Program
  BY <1>1, ReadTyped, MainTyped DEF Program
<1>2. CASE Harness
  BY <1>2, HarnessTyped
<1>3. CASE UNCHANGED vars
  BY <1>3 DEF vars, harnessVars, programVars, Typed, TypeOK, TextAllocated, Reading, Structure
<1>. QED  BY <1>1, <1>2, <1>3 DEF Next

(* readFromPipe makes the memory of inputStr grow in time: unless a read   *)
(* copies what it has not read, all of the text but its '\0' is in it, and *)
(* whatever goes wrong, at most a buffer of the text is behind it; for all *)
(* sizes of the buffer and the pipes and all texts.                        *)
THEOREM TextStaysAllocated == Spec => []TypeOK
<1>1. Init => Typed
  BY TypedInit
<1>2. Typed /\ [Next]_vars => Typed'
  BY TypedNext
<1>3. Typed => TypeOK
  BY DEF Typed
<1>. QED  BY <1>1, <1>2, <1>3, PTL DEF Spec

-----------------------------------------------------------------------------
(* Streams                                                                 *)

LEMMA Concatenated ==
  ASSUME NEW U, NEW s \in Seq(U), NEW t \in Seq(U)
  PROVE  /\ s \o t \in Seq(U) /\ Len(s \o t) = Len(s) + Len(t)
         /\ \A i \in 1..Len(s) : (s \o t)[i] = s[i]
         /\ \A i \in 1..Len(t) : (s \o t)[Len(s) + i] = t[i]
<1>1. Len(s) \in Nat /\ Len(t) \in Nat
  OBVIOUS
<1>2. s \o t \in Seq(U) /\ Len(s \o t) = Len(s) + Len(t)
      /\ \A i \in 1..Len(s) + Len(t) : (s \o t)[i] = IF i <= Len(s) THEN s[i] ELSE t[i - Len(s)]
  BY ConcatProperties
<1>3. ASSUME NEW i \in 1..Len(s) PROVE (s \o t)[i] = s[i]
  <2>1. i \in 1..Len(s) + Len(t) /\ i <= Len(s)
    BY <1>1
  <2>. QED  BY <1>2, <2>1
<1>4. ASSUME NEW i \in 1..Len(t) PROVE (s \o t)[Len(s) + i] = t[i]
  <2>1. Len(s) + i \in 1..Len(s) + Len(t) /\ ~(Len(s) + i <= Len(s)) /\ Len(s) + i - Len(s) = i
    BY <1>1
  <2>. QED  BY <1>2, <2>1
<1>. QED  BY <1>2, <1>3, <1>4

LEMMA Joined ==
  ASSUME NEW s \in Seq(Units), NEW t \in Seq(Units)
  PROVE  /\ s \o t \in Seq(Units) /\ Len(s \o t) = Len(s) + Len(t)
         /\ \A i \in 1..Len(s) : (s \o t)[i] = s[i]
         /\ \A i \in 1..Len(t) : (s \o t)[Len(s) + i] = t[i]
BY Concatenated

LEMMA Regroup ==
  ASSUME NEW a \in Seq(Units), NEW b \in Seq(Units), NEW c \in Seq(Units)
  PROVE  (a \o b) \o c = a \o (b \o c)
BY ConcatAssociative

LEMMA CancelFront ==
  ASSUME NEW a \in Seq(Units), NEW b \in Seq(Units), NEW c \in Seq(Units), NEW d \in Seq(Units),
         a \o b = c \o d, Len(a) = Len(c)
  PROVE  a = c /\ b = d
<1>1. Len(b) = Len(d)
  <2>1. Len(a \o b) = Len(a) + Len(b) /\ Len(c \o d) = Len(c) + Len(d)
    BY Joined
  <2>2. Len(a) \in Nat /\ Len(b) \in Nat /\ Len(d) \in Nat
    OBVIOUS
  <2>. QED  BY <2>1, <2>2
<1>2. \A i \in 1..Len(a) : a[i] = c[i]
  <2>1. \A i \in 1..Len(a) : (a \o b)[i] = a[i] /\ (c \o d)[i] = c[i]
    BY Joined
  <2>. QED  BY <2>1
<1>3. \A i \in 1..Len(b) : b[i] = d[i]
  <2>1. \A i \in 1..Len(b) : (a \o b)[Len(a) + i] = b[i] /\ (c \o d)[Len(a) + i] = d[i]
    <3>1. \A i \in 1..Len(b) : (a \o b)[Len(a) + i] = b[i]
      BY Joined
    <3>2. \A i \in 1..Len(d) : (c \o d)[Len(c) + i] = d[i]
      BY Joined
    <3>. QED  BY <1>1, <3>1, <3>2
  <2>. QED  BY <2>1
<1>4. a = c
  BY <1>2, SeqEqual
<1>5. b = d
  BY <1>1, <1>3, SeqEqual
<1>. QED  BY <1>4, <1>5

LEMMA JoinStarts ==
  ASSUME NEW q \in Seq(Units), NEW s \in Seq(Units)
  PROVE  /\ (q \o Stop) \o <<Eol>> \in Seq(Units) /\ Len((q \o Stop) \o <<Eol>>) = StopEnd(q)
         /\ StartsWith(((q \o Stop) \o <<Eol>>) \o s, q)
<1>. DEFINE a == q \o Stop
            b == a \o <<Eol>>
            x == b \o s
<1>1. Stop \in Seq(Units) /\ <<Eol>> \in Seq(Units) /\ Len(<<Eol>>) = 1 /\ <<Eol>>[1] = Eol
      /\ Len(q) \in Nat /\ Len(Stop) \in Nat /\ Len(s) \in Nat
  BY StopWord, Distinct
<1>2. /\ a \in Seq(Units) /\ Len(a) = Len(q) + Len(Stop)
      /\ (\A i \in 1..Len(q) : a[i] = q[i]) /\ \A i \in 1..Len(Stop) : a[Len(q) + i] = Stop[i]
  BY <1>1, Joined
<1>. HIDE DEF a
<1>3. /\ b \in Seq(Units) /\ Len(b) = Len(a) + Len(<<Eol>>)
      /\ (\A i \in 1..Len(a) : b[i] = a[i])
      /\ \A i \in 1..Len(<<Eol>>) : b[Len(a) + i] = <<Eol>>[i]
  BY <1>1, <1>2, Joined
<1>. HIDE DEF b
<1>4. /\ x \in Seq(Units) /\ Len(x) = Len(b) + Len(s) /\ \A i \in 1..Len(b) : x[i] = b[i]
  BY <1>3, Joined
<1>. HIDE DEF x
<1>5. Len(b) = StopEnd(q) /\ StopEnd(q) = Len(q) + Len(Stop) + 1 /\ StopEnd(q) <= Len(x)
  BY <1>1, <1>2, <1>3, <1>4 DEF StopEnd
<1>6. \A i \in 1..Len(q) : x[i] = q[i]
  <2>1. \A i \in 1..Len(q) : i \in 1..Len(a) /\ i \in 1..Len(b)
    BY <1>1, <1>2, <1>5
  <2>. QED  BY <1>2, <1>3, <1>4, <2>1
<1>7. \A k \in 1..Len(Stop) : x[Len(q) + k] = Stop[k]
  <2>1. \A k \in 1..Len(Stop) : Len(q) + k \in 1..Len(a) /\ Len(q) + k \in 1..Len(b)
    BY <1>1, <1>2, <1>5
  <2>. QED  BY <1>2, <1>3, <1>4, <2>1
<1>8. x[StopEnd(q)] = Eol
  <2>1. 1 \in 1..Len(<<Eol>>) /\ Len(a) + 1 = StopEnd(q) /\ StopEnd(q) \in 1..Len(b)
    BY <1>1, <1>2, <1>5
  <2>2. b[Len(a) + 1] = Eol
    BY <1>1, <1>3, <2>1
  <2>. QED  BY <1>4, <2>1, <2>2
<1>9. StartsWith(x, q)
  BY <1>4, <1>5, <1>6, <1>7, <1>8 DEF StartsWith
<1>. QED  BY <1>3, <1>5, <1>9 DEF x, b, a

LEMMA ReadsPrefix ==
  ASSUME text \in Seq(Units), toProgram \in Seq(Units), NEW z \in Seq(Units)
  PROVE  Reads((text \o toProgram) \o z, Arrived)
<1>. DEFINE a == text \o toProgram
            x == a \o z
<1>1. /\ a \in Seq(Units) /\ Len(a) = Len(text) + Len(toProgram)
      /\ (\A i \in 1..Len(text) : a[i] = text[i])
      /\ \A i \in 1..Len(toProgram) : a[Len(text) + i] = toProgram[i]
  BY Joined
<1>. HIDE DEF a
<1>2. x \in Seq(Units) /\ Len(x) = Len(a) + Len(z) /\ \A i \in 1..Len(a) : x[i] = a[i]
  BY <1>1, Joined
<1>. HIDE DEF x
<1>3. /\ Arrived \in Seq(Units) /\ Len(Arrived) \in 0..Len(toProgram)
      /\ Arrived = SubSeq(toProgram, 1, Len(Arrived))
  BY ArrivedFacts
<1>4. \A i \in 1..Len(Arrived) : Arrived[i] = toProgram[i]
  BY <1>3, UnitsTaken
<1>5. Len(text) \in Nat /\ Len(toProgram) \in Nat /\ Len(z) \in Nat
  OBVIOUS
<1>6. Len(text) + Len(Arrived) <= Len(x)
  BY <1>1, <1>2, <1>3, <1>5
<1>7. \A i \in 1..Len(text) : x[i] = text[i]
  <2>1. \A i \in 1..Len(text) : i \in 1..Len(a)
    BY <1>1, <1>5
  <2>. QED  BY <1>1, <1>2, <2>1
<1>8. \A i \in 1..Len(Arrived) : x[Len(text) + i] = Arrived[i]
  <2>1. \A i \in 1..Len(Arrived) : i \in 1..Len(toProgram) /\ Len(text) + i \in 1..Len(a)
    BY <1>1, <1>3, <1>5
  <2>. QED  BY <1>1, <1>2, <1>4, <2>1
<1>. QED  BY <1>3, <1>6, <1>7, <1>8 DEF Reads, x, a

LEMMA ReadsMore ==
  ASSUME NEW x \in Seq(Units), NEW y \in Seq(Units), NEW chunk, Reads(x, chunk)
  PROVE  Reads(x \o y, chunk)
<1>1. Len(x \o y) = Len(x) + Len(y) /\ \A i \in 1..Len(x) : (x \o y)[i] = x[i]
  BY Joined
<1>2. text \in Seq(Units) /\ chunk \in Seq(Units) /\ Len(text) + Len(chunk) <= Len(x)
      /\ (\A i \in 1..Len(text) : x[i] = text[i])
      /\ \A i \in 1..Len(chunk) : x[Len(text) + i] = chunk[i]
  BY DEF Reads
<1>3. Len(text) \in Nat /\ Len(chunk) \in Nat /\ Len(x) \in Nat /\ Len(y) \in Nat
  BY <1>2
<1>4. (\A i \in 1..Len(text) : i \in 1..Len(x)) /\ \A i \in 1..Len(chunk) : Len(text) + i \in 1..Len(x)
  BY <1>2, <1>3
<1>. DEFINE z == x \o y
<1>. HIDE DEF z
<1>5. Len(z) = Len(x) + Len(y) /\ \A i \in 1..Len(x) : z[i] = x[i]
  BY <1>1 DEF z
<1>6. Reads(z, chunk)
  BY <1>2, <1>3, <1>4, <1>5 DEF Reads
<1>. QED  BY <1>6 DEF z

-----------------------------------------------------------------------------
(* The two are in step while nothing has gone wrong with a read            *)

Clean == mishaps \subseteq {"overrun"} \X Phases
NoAnswers == got = <<>> /\ toHarness = <<>>
FirstAnswers(b, n) == [i \in 1..n |-> Answer(b[i])]
AnswersTo(b) == FirstAnswers(b, Len(b))

(* What comes to the program after the names or the batch before: a batch, *)
(* nothing as the answers are still awaited, or nothing as no batch is     *)
(* sent.  Or the harness is ahead, as the next batch has no query.  The    *)
(* program has read n units of it.                                         *)
OfBatch(s, n) == /\ hpc = "batch" /\ NoAnswers
                 /\ s = BatchText(workload[batch]) /\ n < Len(s)
Answered(s) == /\ hpc = "batch" /\ s = <<>>
               /\ got \o toHarness = AnswersTo(workload[batch])
Nothing(s) == hpc \in {"sleep", "end"} /\ NoAnswers /\ s = <<>>
Ahead(s, n) == /\ hpc \in {"batch", "end"} /\ NoAnswers /\ ~NoEmptyBatch
               /\ Len(s) >= 2 /\ s[1] = F[1] /\ s[2] = Eol /\ n < 2
Coming(s, n) == OfBatch(s, n) \/ Answered(s) \/ Nothing(s) \/ Ahead(s, n)

Pending == toProgram \o left
Sent == (text \o toProgram) \o left
InitSent == (InitText \o Done) \o <<Eol>>

ReadingNames ==
  /\ Len(text) < Len(InitText) + 3
  /\ NoAnswers
  /\ hpc \in {"init", "done"} => Sent = InitText
  /\ hpc \notin {"init", "done"} =>
       \E s \in Seq(Units) : Sent = InitSent \o s /\ Coming(s, 0)
Constructing == /\ hpc \notin {"init", "done"}
                /\ text = InitText /\ Coming(Pending, 0)
ReadingBatch == /\ hpc \notin {"init", "done"}
                /\ Coming(Sent, Len(text))
Counting ==
  /\ NoAnswers
  /\ \/ /\ hpc = "batch" /\ text = QueryLines(workload[batch])
        /\ toProgram = <<>> /\ left = <<>>
     \/ hpc = "end" /\ text = <<>>
     \/ hpc = "batch" /\ text = <<>> /\ ~NoEmptyBatch
Answering ==
  \/ /\ hpc = "batch" /\ toProgram = <<>> /\ left = <<>>
     /\ \E n \in 0..Len(workload[batch]) :
          /\ todo = [i \in 1..Len(workload[batch]) - n |-> <<workload[batch][n + i], More>>]
          /\ got \o toHarness = FirstAnswers(workload[batch], n)
  \/ hpc \in {"batch", "end"} /\ todo = <<>> /\ Coming(Pending, 0)
AtEnd == hpc = "end" /\ NoAnswers

InStep ==
  /\ hpc # "killed"
  /\ \A i \in 1..Len(answers) : answers[i] = AnswersTo(workload[i])
  /\ pc \notin {"files", "construct"} => input = Lines(InitText)
  /\ \/ pc = "files" /\ ReadingNames
     \/ pc = "construct" /\ Constructing
     \/ pc = "batch" /\ ReadingBatch
     \/ pc = "count" /\ Counting
     \/ pc = "answer" /\ Answering
     \/ pc = "ended" /\ AtEnd

IInv == Typed /\ (Clean => InStep)

-----------------------------------------------------------------------------
(* A read keeps them in step                                               *)

LEMMA CleanRead ==
  ASSUME pc \in {"files", "batch"}, NEW chunk, NEW copy, ReadStep(chunk, copy), Clean'
  PROVE  /\ ~Cut(chunk)
         /\ Stops(chunk) = {} => copy = chunk
         /\ \A e \in Stops(chunk) : ~(e < Len(chunk))
<1>1. mishaps' = mishaps \cup (Happens(chunk, copy) \X {pc}) /\ mishaps' \subseteq {"overrun"} \X Phases
  BY DEF ReadStep, Clean
<1>2. \A kind \in Happens(chunk, copy) : kind = "overrun"
  <2>1. \A kind \in Happens(chunk, copy) : <<kind, pc>> \in {"overrun"} \X Phases
    BY <1>1
  <2>. QED  BY <2>1
<1>3. "cut" \in Kinds /\ "spill" \in Kinds /\ "lost" \in Kinds
  BY DEF Kinds
<1>4. "cut" # "overrun" /\ "spill" # "overrun" /\ "lost" # "overrun"
  OBVIOUS
<1>. QED  BY <1>2, <1>3, <1>4 DEF Happens

(* A read either goes on or ends with the stop word.                       *)
GoesOn(q) == /\ Len(text') < StopEnd(q) /\ pc' = pc
             /\ text' \o toProgram' = text \o toProgram
EndsWith(q) == /\ text' = q /\ pc' = Return
               /\ Len(text \o Arrived) = StopEnd(q)
               /\ text \o Arrived \in Seq(Units)
               /\ (text \o Arrived) \o toProgram' = text \o toProgram

LEMMA ReadOfStream ==
  ASSUME Typed, Clean', pc \in {"files", "batch"},
         NEW copy \in Copies(Filled(Arrived)), ReadStep(Arrived, copy),
         NEW q, Body(q), Len(text) < StopEnd(q),
         NEW x, StartsWith(x, q), Reads(x, Arrived)
  PROVE  GoesOn(q) \/ EndsWith(q)
<1>1. toProgram \in Seq(Units) /\ text \in Seq(Units) /\ IsBuffer(buffer)
  BY DEF Typed, TypeOK, IsBuffer
<1>. DEFINE c == Arrived
            r == SubSeq(toProgram, Len(c) + 1, Len(toProgram))
<1>2. c \in Seq(Units) /\ Len(c) \in 0..Len(toProgram) /\ Len(c) <= MaxBuffer
      /\ c = SubSeq(toProgram, 1, Len(c))
  BY <1>1, ArrivedFacts
<1>3. r \in Seq(Units) /\ c \o r = toProgram
  BY <1>1, <1>2, UnitsTaken
<1>4. toProgram' = r /\ text' = text \o copy /\ pc' = IF Stops(c) # {} THEN Return ELSE pc
  BY DEF ReadStep
<1>5. ~Cut(c) /\ (Stops(c) = {} => copy = c) /\ \A e \in Stops(c) : ~(e < Len(c))
  BY CleanRead
<1>6. ReadsOn(q, c, copy) \/ ReadsAll(q, c, copy)
  BY <1>1, <1>2, <1>5, ReadOutcome
<1>. HIDE DEF c, r
<1>7. (text \o c) \o r = text \o toProgram
  <2>1. (text \o c) \o r = text \o (c \o r)
    BY <1>1, <1>2, <1>3, Regroup
  <2>. QED  BY <1>3, <2>1
<1>8. text \o c \in Seq(Units) /\ Len(text \o c) = Len(text) + Len(c)
  BY <1>1, <1>2, Joined
<1>9. CASE ReadsOn(q, c, copy)
  BY <1>4, <1>7, <1>8, <1>9 DEF ReadsOn, GoesOn
<1>10. CASE ReadsAll(q, c, copy)
  <2>1. /\ Len(text) <= Len(q) /\ StopEnd(q) <= Len(text) + Len(c)
        /\ StopEnd(q) - Len(text) \in Stops(c) /\ text \o copy = q
    BY <1>10 DEF ReadsAll
  <2>2. Len(text) \in Nat /\ Len(c) \in Nat /\ StopEnd(q) \in Nat
    BY <1>1, <1>2, StopWord DEF StopEnd, Body
  <2>3. ~(StopEnd(q) - Len(text) < Len(c))
    BY <1>5, <2>1
  <2>4. Len(text) + Len(c) = StopEnd(q)
    <3>1. \A k, m, n \in Nat : n <= k + m /\ ~(n - k < m) => k + m = n
      OBVIOUS
    <3>. QED  BY <2>1, <2>2, <2>3, <3>1, Zenon
  <2>5. text' = q /\ pc' = Return
    <3>1. Stops(c) # {}
      BY <2>1
    <3>. QED  BY <1>4, <2>1, <3>1
  <2>. QED  BY <1>4, <1>7, <1>8, <2>4, <2>5 DEF EndsWith, c
<1>. QED  BY <1>6, <1>9, <1>10

(* What has been said of the rest of the stream holds when nothing of it   *)
(* changes.                                                                *)
LEMMA ComingKept ==
  ASSUME UNCHANGED <<names, workload, hpc, batch, got, toHarness>>, NEW s, NEW n, Coming(s, n)
  PROVE  Coming(s, n)'
BY DEF Coming, OfBatch, Answered, Nothing, Ahead, NoAnswers, NoEmptyBatch

LEMMA StopOfPhase ==
  /\ pc = "files" => Stop = Done /\ Return = "construct"
  /\ pc = "batch" => Stop = F /\ Return = "count"
BY DEF Stop, Return

LEMMA ReadNamesInStep ==
  ASSUME Typed, Clean', InStep, Read, pc = "files"
  PROVE  InStep'
<1>1. PICK copy \in Copies(Filled(Arrived)) : ReadStep(Arrived, copy)
  BY DEF Read, ReadStep
<1>2. UNCHANGED <<harnessVars, toHarness, input>>
  BY DEF Read
<1>3. ReadingNames
  BY DEF InStep
<1>4. toProgram \in Seq(Units) /\ text \in Seq(Units) /\ left \in Seq(Units)
      /\ names \in InitFiles
  BY DEF Typed, TypeOK
<1>5. Body(InitText) /\ InitText \in Seq(Units) /\ InitText' = InitText
  <2>1. names' = names
    BY <1>2 DEF harnessVars
  <2>. QED  BY <1>4, <2>1, NamesFacts DEF InitText
<1>6. Stop = Done /\ Return = "construct" /\ StopEnd(InitText) = Len(InitText) + 3
  <2>1. Stop = Done /\ Return = "construct" /\ Len(Done) = 2
    BY StopOfPhase, Distinct
  <2>2. Len(InitText) \in Nat
    BY <1>5
  <2>. QED  BY <2>1, <2>2 DEF StopEnd
<1>7. InitSent \in Seq(Units) /\ Len(InitSent) = StopEnd(InitText)
  BY <1>5, <1>6, JoinStarts, EmptySeq DEF InitSent
<1>8. Reads(Sent, Arrived) /\ Sent \in Seq(Units)
  <2>1. Reads(Sent, Arrived)
    BY <1>4, ReadsPrefix DEF Sent
  <2>2. text \o toProgram \in Seq(Units)
    BY <1>4, Joined
  <2>3. Sent \in Seq(Units)
    BY <1>4, <2>2, Joined DEF Sent
  <2>. QED  BY <2>1, <2>3
<1>9. Len(text) < StopEnd(InitText) /\ NoAnswers
  BY <1>3, <1>6 DEF ReadingNames
<1>10. hpc' = hpc /\ left' = left /\ NoAnswers'
  BY <1>2, <1>9 DEF harnessVars, NoAnswers
<1>11. hpc # "killed" /\ hpc' # "killed" /\ (\A i \in 1..Len(answers) : answers[i] = AnswersTo(workload[i]))'
  BY <1>2 DEF InStep, harnessVars
<1>12. ASSUME text' \o toProgram' = text \o toProgram PROVE Sent' = Sent
  BY <1>10, <1>12 DEF Sent
<1>13. CASE hpc \in {"init", "done"}
  <2>1. Sent = InitText
    BY <1>3, <1>13 DEF ReadingNames
  <2>2. Done \o <<Eol>> \in Seq(Units) /\ InitSent = InitText \o (Done \o <<Eol>>)
    <3>1. Done \in Seq(Units) /\ <<Eol>> \in Seq(Units)
      BY Distinct
    <3>2. Done \o <<Eol>> \in Seq(Units)
      BY <3>1, Joined
    <3>3. (InitText \o Done) \o <<Eol>> = InitText \o (Done \o <<Eol>>)
      BY <1>5, <3>1, ConcatAssociative
    <3>. QED  BY <3>2, <3>3 DEF InitSent
  <2>3. Reads(InitSent, Arrived)
    BY <1>5, <1>8, <2>1, <2>2, ReadsMore
  <2>4. StartsWith(InitSent, InitText)
    <3>1. <<>> \in Seq(Units) /\ InitSent \o <<>> = InitSent
      BY <1>7, ConcatEmptySeq, EmptySeq
    <3>2. StartsWith(InitSent \o <<>>, InitText)
      BY <1>5, <1>6, <3>1, JoinStarts DEF InitSent
    <3>. QED  BY <3>1, <3>2
  <2>5. GoesOn(InitText) \/ EndsWith(InitText)
    BY <1>1, <1>5, <1>9, <2>3, <2>4, ReadOfStream
  <2>6. ~EndsWith(InitText)
    <3>1. SUFFICES ASSUME EndsWith(InitText) PROVE FALSE
      OBVIOUS
    <3>2. Len(text \o Arrived) = StopEnd(InitText)
      BY <3>1 DEF EndsWith
    <3>3. Len(text) + Len(Arrived) <= Len(InitText) /\ Arrived \in Seq(Units)
      BY <1>8, <2>1 DEF Reads
    <3>4. Len(text \o Arrived) = Len(text) + Len(Arrived)
      BY <1>4, <3>3, Joined
    <3>5. Len(text) \in Nat /\ Len(Arrived) \in Nat /\ Len(InitText) \in Nat
      BY <1>4, <1>5, <3>3
    <3>. QED  BY <1>6, <3>2, <3>3, <3>4, <3>5
  <2>7. Len(text') < Len(InitText) + 3 /\ pc' = "files" /\ Sent' = InitText'
    BY <1>5, <1>6, <1>12, <2>1, <2>5, <2>6 DEF GoesOn
  <2>8. ReadingNames'
    BY <1>5, <1>10, <1>13, <2>7 DEF ReadingNames
  <2>. QED  BY <1>11, <2>7, <2>8 DEF InStep
<1>14. CASE hpc \notin {"init", "done"}
  <2>1. PICK s \in Seq(Units) : Sent = InitSent \o s /\ Coming(s, 0)
    BY <1>3, <1>14 DEF ReadingNames
  <2>2. StartsWith(Sent, InitText)
    BY <1>5, <1>6, <2>1, JoinStarts DEF InitSent
  <2>3. GoesOn(InitText) \/ EndsWith(InitText)
    BY <1>1, <1>5, <1>8, <1>9, <2>2, ReadOfStream
  <2>4. Coming(s, 0)'
    BY <1>2, <2>1, ComingKept DEF harnessVars
  <2>5. CASE GoesOn(InitText)
    <3>1. Len(text') < Len(InitText) + 3 /\ pc' = "files" /\ Sent' = Sent
      BY <1>6, <1>12, <2>5 DEF GoesOn
    <3>2. Sent' = InitSent' \o s
      BY <1>5, <2>1, <3>1 DEF InitSent
    <3>3. ReadingNames'
      BY <1>5, <1>10, <1>14, <2>1, <2>4, <3>1, <3>2 DEF ReadingNames
    <3>. QED  BY <1>11, <3>1, <3>3 DEF InStep
  <2>6. CASE EndsWith(InitText)
    <3>. DEFINE a == text \o Arrived
    <3>1. /\ text' = InitText /\ pc' = "construct" /\ a \in Seq(Units)
          /\ Len(a) = Len(InitSent) /\ a \o toProgram' = text \o toProgram
      BY <1>6, <1>7, <2>6 DEF EndsWith
    <3>. HIDE DEF a
    <3>2. toProgram' \in Seq(Units)
      BY ReadTyped DEF Typed, TypeOK
    <3>3. a \o (toProgram' \o left) = InitSent \o s
      <4>1. (a \o toProgram') \o left = a \o (toProgram' \o left)
        BY <1>4, <3>1, <3>2, Regroup
      <4>. QED  BY <2>1, <3>1, <4>1 DEF Sent
    <3>4. toProgram' \o left \in Seq(Units)
      BY <1>4, <3>2, Joined
    <3>5. toProgram' \o left = s
      BY <1>7, <2>1, <3>1, <3>3, <3>4, CancelFront
    <3>6. Pending' = s
      BY <1>10, <3>5 DEF Pending
    <3>7. Coming(Pending, 0)'
      BY <2>4, <3>6 DEF Coming, OfBatch, Answered, Nothing, Ahead
    <3>8. Constructing'
      BY <1>5, <1>10, <1>14, <3>1, <3>7 DEF Constructing
    <3>. QED  BY <1>11, <3>1, <3>8 DEF InStep
  <2>. QED  BY <2>3, <2>5, <2>6
<1>. QED  BY <1>13, <1>14

LEMMA BatchSent ==
  ASSUME NEW b, Batch(b), Stop = F
  PROVE  /\ StartsWith(BatchText(b), QueryLines(b))
         /\ StopEnd(QueryLines(b)) = Len(BatchText(b))
<1>. DEFINE q == QueryLines(b)
<1>1. q \in Seq(Units)
  BY BatchFacts DEF Body
<1>2. BatchText(b) = (q \o Stop) \o <<Eol>>
  BY DEF BatchText
<1>. HIDE DEF q
<1>3. (q \o Stop) \o <<Eol>> \in Seq(Units) /\ Len((q \o Stop) \o <<Eol>>) = StopEnd(q)
      /\ StartsWith(((q \o Stop) \o <<Eol>>) \o <<>>, q)
  BY <1>1, EmptySeq, JoinStarts
<1>4. ((q \o Stop) \o <<Eol>>) \o <<>> = (q \o Stop) \o <<Eol>>
  BY <1>3, ConcatEmptySeq
<1>. QED  BY <1>2, <1>3, <1>4 DEF q

(* The stop word alone is the end of an empty batch.                       *)
LEMMA StopAlone ==
  ASSUME Stop = F, NEW x \in Seq(Units), Len(x) >= 2, x[1] = F[1], x[2] = Eol
  PROVE  Body(<<>>) /\ StopEnd(<<>>) = 2 /\ StartsWith(x, <<>>)
<1>1. Len(Stop) = 1 /\ StopEnd(<<>>) = 2
  BY Distinct DEF StopEnd
<1>2. Body(<<>>)
  BY DEF Body
<1>3. \A k \in 1..Len(Stop) : x[Len(<<>>) + k] = Stop[k]
  BY <1>1
<1>. QED  BY <1>1, <1>2, <1>3 DEF StartsWith

(* Nothing is left of a stream of which all has been read.                 *)
LEMMA AllRead ==
  ASSUME NEW a \in Seq(Units), NEW b \in Seq(Units), NEW c \in Seq(Units),
         Len((a \o b) \o c) = Len(a)
  PROVE  b = <<>> /\ c = <<>>
<1>1. Len(a) \in Nat /\ Len(b) \in Nat /\ Len(c) \in Nat
  OBVIOUS
<1>2. a \o b \in Seq(Units) /\ Len(a \o b) = Len(a) + Len(b)
  BY Joined
<1>3. Len((a \o b) \o c) = Len(a \o b) + Len(c)
  BY <1>2, Joined
<1>4. Len(b) = 0 /\ Len(c) = 0
  BY <1>1, <1>2, <1>3
<1>. QED  BY <1>4, EmptySeq

LEMMA ReadBatchInStep ==
  ASSUME Typed, Clean', InStep, Read, pc = "batch"
  PROVE  InStep'
<1>1. PICK copy \in Copies(Filled(Arrived)) : ReadStep(Arrived, copy)
  BY DEF Read, ReadStep
<1>2. UNCHANGED <<harnessVars, toHarness, input>> /\ toProgram # <<>>
  BY DEF Read
<1>3. hpc \notin {"init", "done"} /\ Coming(Sent, Len(text))
  BY DEF InStep, ReadingBatch
<1>4. toProgram \in Seq(Units) /\ text \in Seq(Units) /\ left \in Seq(Units)
      /\ workload \in Workloads /\ batch \in 1..Len(workload) + 1
      /\ (hpc = "batch" => batch <= Len(workload))
  BY DEF Typed, TypeOK, Structure
<1>5. Stop = F /\ Return = "count"
  BY StopOfPhase
<1>6. Reads(Sent, Arrived) /\ Sent \in Seq(Units) /\ Sent # <<>>
  <2>1. Reads(Sent, Arrived)
    BY <1>4, ReadsPrefix DEF Sent
  <2>2. text \o toProgram \in Seq(Units)
    BY <1>4, Joined
  <2>3. Sent \in Seq(Units) /\ Len(Sent) = Len(text \o toProgram) + Len(left)
    BY <1>4, <2>2, Joined DEF Sent
  <2>4. Len(text \o toProgram) = Len(text) + Len(toProgram) /\ Len(toProgram) # 0
    BY <1>2, <1>4, Joined, EmptySeq
  <2>5. Len(text) \in Nat /\ Len(toProgram) \in Nat /\ Len(left) \in Nat
    BY <1>4
  <2>6. Len(Sent) # 0
    BY <2>3, <2>4, <2>5
  <2>. QED  BY <2>1, <2>3, <2>6
<1>7. /\ hpc' = hpc /\ left' = left /\ workload' = workload /\ batch' = batch /\ hpc' # "killed"
      /\ (\A i \in 1..Len(answers) : answers[i] = AnswersTo(workload[i]))'
      /\ (input = Lines(InitText))' /\ (NoAnswers => NoAnswers')
      /\ (~NoEmptyBatch => ~NoEmptyBatch')
  BY <1>2 DEF InStep, harnessVars, InitText, NoAnswers, NoEmptyBatch
<1>8. toProgram' \in Seq(Units)
  BY ReadTyped DEF Typed, TypeOK
<1>9. ASSUME NEW q, Body(q), Len(text) < StopEnd(q), StartsWith(Sent, q)
      PROVE  GoesOn(q) \/ EndsWith(q)
  BY <1>1, <1>6, <1>9, ReadOfStream
<1>10. ASSUME NEW q, GoesOn(q)
       PROVE  pc' = "batch" /\ Sent' = Sent /\ Len(text') < StopEnd(q)
  <2>1. text' \o toProgram' = text \o toProgram
    BY <1>10 DEF GoesOn
  <2>2. Sent' = Sent
    BY <1>7, <2>1 DEF Sent
  <2>. QED  BY <1>10, <2>2 DEF GoesOn
<1>11. CASE OfBatch(Sent, Len(text))
  <2>. DEFINE b == workload[batch]
              q == QueryLines(b)
  <2>1. hpc = "batch" /\ NoAnswers /\ Sent = BatchText(b) /\ Len(text) < Len(Sent)
    BY <1>11 DEF OfBatch
  <2>2. Batch(b)
    BY <1>4, <2>1, WorkloadFacts
  <2>. HIDE DEF b
  <2>3. StartsWith(Sent, q) /\ StopEnd(q) = Len(Sent) /\ Body(q)
    BY <1>5, <2>1, <2>2, BatchSent, BatchFacts
  <2>. HIDE DEF q
  <2>4. GoesOn(q) \/ EndsWith(q)
    BY <1>9, <2>1, <2>3
  <2>5. CASE GoesOn(q)
    <3>1. pc' = "batch" /\ Sent' = Sent /\ Len(text') < Len(Sent)
      BY <1>10, <2>3, <2>5
    <3>2. OfBatch(Sent, Len(text))'
      BY <1>7, <2>1, <3>1 DEF OfBatch, BatchText, b
    <3>3. ReadingBatch'
      BY <1>3, <1>7, <3>2 DEF ReadingBatch, Coming
    <3>. QED  BY <1>7, <3>1, <3>3 DEF InStep
  <2>6. CASE EndsWith(q)
    <3>. DEFINE a == text \o Arrived
    <3>1. /\ text' = q /\ pc' = "count" /\ a \in Seq(Units)
          /\ Len(a) = Len(Sent) /\ a \o toProgram' = text \o toProgram
      BY <1>5, <2>3, <2>6 DEF EndsWith
    <3>. HIDE DEF a
    <3>2. (a \o toProgram') \o left = Sent
      BY <3>1 DEF Sent
    <3>3. toProgram' = <<>> /\ left = <<>>
      BY <1>4, <1>8, <3>1, <3>2, AllRead
    <3>4. Counting'
      BY <1>7, <2>1, <3>1, <3>3 DEF Counting, q, b
    <3>. QED  BY <1>7, <3>1, <3>4 DEF InStep
  <2>. QED  BY <2>4, <2>5, <2>6
<1>12. CASE Ahead(Sent, Len(text))
  <2>1. /\ hpc \in {"batch", "end"} /\ NoAnswers /\ ~NoEmptyBatch
        /\ Len(Sent) >= 2 /\ Sent[1] = F[1] /\ Sent[2] = Eol /\ Len(text) < 2
    BY <1>12 DEF Ahead
  <2>2. Body(<<>>) /\ StopEnd(<<>>) = 2 /\ StartsWith(Sent, <<>>)
    BY <1>5, <1>6, <2>1, StopAlone
  <2>3. GoesOn(<<>>) \/ EndsWith(<<>>)
    BY <1>9, <2>1, <2>2
  <2>4. CASE GoesOn(<<>>)
    <3>1. pc' = "batch" /\ Sent' = Sent /\ Len(text') < 2
      BY <1>10, <2>2, <2>4
    <3>2. Ahead(Sent, Len(text))'
      BY <1>7, <2>1, <3>1 DEF Ahead
    <3>3. ReadingBatch'
      BY <1>3, <1>7, <3>2 DEF ReadingBatch, Coming
    <3>. QED  BY <1>7, <3>1, <3>3 DEF InStep
  <2>5. CASE EndsWith(<<>>)
    <3>1. text' = <<>> /\ pc' = "count"
      BY <1>5, <2>5 DEF EndsWith
    <3>2. Counting'
      BY <1>7, <2>1, <3>1 DEF Counting
    <3>. QED  BY <1>7, <3>1, <3>2 DEF InStep
  <2>. QED  BY <2>3, <2>4, <2>5
<1>. QED  BY <1>3, <1>6, <1>11, <1>12 DEF Coming, Answered, Nothing

-----------------------------------------------------------------------------
(* The other steps of main keep them in step                               *)

(* What no step of the program touches.                                    *)
LEMMA HarnessKept ==
  ASSUME InStep, UNCHANGED harnessVars
  PROVE  /\ names' = names /\ workload' = workload /\ hpc' = hpc /\ batch' = batch
         /\ left' = left /\ got' = got /\ hpc' # "killed" /\ InitText' = InitText
         /\ (\A i \in 1..Len(answers) : answers[i] = AnswersTo(workload[i]))'
BY DEF InStep, harnessVars, InitText

LEMMA ReadEndInStep ==
  ASSUME Typed, InStep, ReadEnd
  PROVE  InStep'
<1>1. /\ UNCHANGED harnessVars /\ UNCHANGED <<toProgram, toHarness, text, input>>
      /\ toProgram = <<>> /\ hpc \in {"end", "killed"} /\ pc \in {"files", "batch"} /\ pc' = Return
  BY DEF ReadEnd
<1>2. hpc = "end" /\ left = <<>> /\ text \in Seq(Units) /\ names \in InitFiles
  BY <1>1 DEF InStep, Typed, TypeOK, Structure
<1>3. Sent = text
  BY <1>1, <1>2, ConcatEmptySeq DEF Sent
<1>4. CASE pc = "files"
  <2>1. PICK s \in Seq(Units) : Sent = InitSent \o s
    BY <1>2, <1>4 DEF InStep, ReadingNames
  <2>2. Len(text) < Len(InitText) + 3
    BY <1>4 DEF InStep, ReadingNames
  <2>3. InitText \in Seq(Units) /\ Done \in Seq(Units) /\ Len(Done) = 2
    BY <1>2, NamesFacts, Distinct
  <2>4. InitText \o Done \in Seq(Units) /\ Len(InitText \o Done) = Len(InitText) + Len(Done)
    BY <2>3, Joined
  <2>5. <<Eol>> \in Seq(Units) /\ Len(<<Eol>>) = 1
    BY Distinct
  <2>6. InitSent \in Seq(Units) /\ Len(InitSent) = Len(InitText \o Done) + Len(<<Eol>>)
    BY <2>4, <2>5, Joined DEF InitSent
  <2>7. Len(InitSent \o s) = Len(InitSent) + Len(s)
    BY <2>6, Joined
  <2>8. Len(InitText) \in Nat /\ Len(s) \in Nat
    BY <2>3
  <2>. QED  BY <1>3, <2>1, <2>2, <2>3, <2>4, <2>5, <2>6, <2>7, <2>8
<1>5. CASE pc = "batch"
  <2>1. Coming(Sent, Len(text)) /\ Return = "count" /\ input = Lines(InitText)
    BY <1>5, StopOfPhase DEF InStep, ReadingBatch
  <2>2. Nothing(Sent)
    <3>1. ~Ahead(Sent, Len(text))
      BY <1>2, <1>3 DEF Ahead
    <3>. QED  BY <1>2, <2>1, <3>1 DEF Coming, OfBatch, Answered
  <2>3. NoAnswers /\ text = <<>>
    BY <1>3, <2>2 DEF Nothing
  <2>4. Counting'
    BY <1>1, <1>2, <2>3, HarnessKept DEF Counting, NoAnswers
  <2>. QED  BY <1>1, <2>1, <2>4, HarnessKept DEF InStep
<1>. QED  BY <1>1, <1>4, <1>5

(* The text of the next read is empty: all that comes is yet to be read.   *)
LEMMA NextText ==
  ASSUME Typed, UNCHANGED harnessVars, UNCHANGED <<toProgram, toHarness>>, text' = <<>>,
         Coming(Pending, 0)
  PROVE  Coming(Sent, Len(text))'
<1>1. toProgram \in Seq(Units) /\ left' = left /\ toProgram' = toProgram
  BY DEF Typed, TypeOK, harnessVars
<1>2. Sent' = Pending
  BY <1>1, ConcatEmptySeq DEF Sent, Pending
<1>3. Len(text') = 0
  OBVIOUS
<1>4. Coming(Pending, 0)'
  <2>1. Pending' = Pending
    BY <1>1 DEF Pending
  <2>. QED  BY <2>1 DEF harnessVars, Coming, OfBatch, Answered, Nothing, Ahead, NoAnswers, NoEmptyBatch
<1>5. Pending' = Pending
  BY <1>1 DEF Pending
<1>. QED  BY <1>2, <1>3, <1>4, <1>5 DEF Coming, OfBatch, Answered, Nothing, Ahead

LEMMA ConstructInStep ==
  ASSUME Typed, InStep, ConstructInput
  PROVE  InStep'
<1>1. /\ UNCHANGED harnessVars /\ UNCHANGED <<toProgram, toHarness>> /\ pc = "construct"
      /\ input' = Lines(text) /\ text' = <<>> /\ pc' = "batch"
  BY DEF ConstructInput, CallRead
<1>2. hpc \notin {"init", "done"} /\ text = InitText /\ Coming(Pending, 0)
  BY <1>1 DEF InStep, Constructing
<1>3. Coming(Sent, Len(text))'
  BY <1>1, <1>2, NextText
<1>4. ReadingBatch'
  BY <1>1, <1>2, <1>3, HarnessKept DEF ReadingBatch
<1>5. input' = Lines(InitText')
  BY <1>1, <1>2, HarnessKept
<1>. QED  BY <1>1, <1>4, <1>5, HarnessKept DEF InStep

LEMMA EndOrCountInStep ==
  ASSUME Typed, Clean', InStep, EndOrCount
  PROVE  InStep'
<1>1. /\ UNCHANGED harnessVars /\ UNCHANGED <<toProgram, toHarness, text, input>> /\ pc = "count"
      /\ pc' = IF text = <<>> THEN "ended" ELSE "answer"
      /\ todo' = Lines(text)
      /\ mishaps' = IF text = <<>> /\ hpc # "end" THEN mishaps \cup {<<"empty", "batch">>} ELSE mishaps
  BY DEF EndOrCount
<1>2. Counting /\ NoAnswers /\ input = Lines(InitText)
  BY <1>1 DEF InStep, Counting
<1>3. NoAnswers'
  BY <1>1, <1>2 DEF NoAnswers, harnessVars
<1>4. CASE text = <<>>
  <2>1. hpc = "end"
    <3>1. SUFFICES ASSUME hpc # "end" PROVE FALSE
      OBVIOUS
    <3>2. <<"empty", "batch">> \in mishaps'
      BY <1>1, <1>4, <3>1
    <3>. QED  BY <3>2 DEF Clean
  <2>2. AtEnd'
    BY <1>1, <1>3, <2>1, HarnessKept DEF AtEnd
  <2>. QED  BY <1>1, <1>2, <1>4, <2>2, HarnessKept DEF InStep
<1>5. CASE text # <<>>
  <2>1. hpc = "batch" /\ text = QueryLines(workload[batch]) /\ toProgram = <<>> /\ left = <<>>
    BY <1>2, <1>5 DEF Counting
  <2>. DEFINE b == workload[batch]
  <2>2. Batch(b)
    BY <2>1, WorkloadFacts DEF Typed, TypeOK, Structure
  <2>. HIDE DEF b
  <2>3. Len(b) \in Nat /\ todo' = [i \in 1..Len(b) |-> <<b[i], More>>]
    BY <1>1, <2>1, <2>2, BatchFacts DEF b
  <2>4. todo' = [i \in 1..Len(b) - 0 |-> <<b[0 + i], More>>]
    <3>1. Len(b) - 0 = Len(b) /\ \A i \in 1..Len(b) : 0 + i = i
      BY <2>3
    <3>. QED  BY <2>3, <3>1
  <2>5. got \o toHarness = FirstAnswers(b, 0)
    <3>1. FirstAnswers(b, 0) = <<>>
      BY DEF FirstAnswers
    <3>2. <<>> \o <<>> = <<>>
      OBVIOUS
    <3>. QED  BY <1>2, <3>1, <3>2 DEF NoAnswers
  <2>6. b' = b /\ got' = got /\ toHarness' = toHarness
    BY <1>1, HarnessKept DEF b
  <2>7. \E n \in 0..Len(workload[batch])' :
          /\ todo' = [i \in 1..Len(workload[batch])' - n |-> <<(workload[batch])'[n + i], More>>]
          /\ got' \o toHarness' = FirstAnswers(workload[batch], n)'
    <3>1. FirstAnswers(b, 0)' = FirstAnswers(b, 0)
      BY <2>6 DEF FirstAnswers
    <3>2. 0 \in 0..Len(b)
      BY <2>3
    <3>. QED  BY <2>4, <2>5, <2>6, <3>1, <3>2 DEF b
  <2>8. Answering'
    BY <1>1, <2>1, <2>7, HarnessKept DEF Answering
  <2>. QED  BY <1>1, <1>2, <1>5, <2>8, HarnessKept DEF InStep
<1>. QED  BY <1>4, <1>5

(* The lines of a batch from the n-th on.                                  *)
LinesAfter(b, n) == [i \in 1..Len(b) - n |-> <<b[n + i], More>>]

LEMMA NextLine ==
  ASSUME NEW b, Batch(b), NEW n \in 0..Len(b), LinesAfter(b, n) # <<>>
  PROVE  /\ n + 1 \in 0..Len(b)
         /\ Head(LinesAfter(b, n)) = <<b[n + 1], More>> /\ b[n + 1] \in Queries
         /\ Tail(LinesAfter(b, n)) = LinesAfter(b, n + 1)
<1>. DEFINE U == QueryWords \X {More}
            l == LinesAfter(b, n)
<1>1. Len(b) \in Nat /\ \A i \in 1..Len(b) : b[i] \in QueryWords
  BY DEF Batch
<1>2. \A i \in 1..Len(b) - n : n + i \in 1..Len(b)
  BY <1>1
<1>3. l \in Seq(U) /\ Len(l) = Len(b) - n /\ \A i \in 1..Len(b) - n : l[i] = <<b[n + i], More>>
  BY <1>1, <1>2, FunctionIsSequence DEF LinesAfter
<1>4. Len(l) # 0
  BY <1>3, EmptySeq
<1>5. n + 1 \in 1..Len(b) /\ 1 \in 1..Len(b) - n /\ Len(b) - (n + 1) = Len(l) - 1
  BY <1>1, <1>3, <1>4
<1>6. Head(l) = <<b[n + 1], More>>
  <2>1. l[1] = <<b[n + 1], More>>
    BY <1>3, <1>5
  <2>. HIDE DEF l
  <2>2. l # <<>> /\ Head(l) = l[1]
    BY <1>3, <1>4
  <2>. QED  BY <2>1, <2>2
<1>7. Tail(l) = LinesAfter(b, n + 1)
  <2>. DEFINE m == LinesAfter(b, n + 1)
  <2>1. \A i \in 1..Len(b) - (n + 1) : i + 1 \in 1..Len(b) - n /\ n + 1 + i = n + (i + 1) /\ n + 1 + i \in 1..Len(b)
    BY <1>1
  <2>2. m \in Seq(U) /\ Len(m) = Len(b) - (n + 1) /\ \A i \in 1..Len(b) - (n + 1) : m[i] = <<b[n + 1 + i], More>>
    <3>1. Len(b) - (n + 1) \in Nat
      BY <1>1, <1>5
    <3>2. m = [i \in 1..Len(b) - (n + 1) |-> <<b[n + 1 + i], More>>]
      BY DEF LinesAfter
    <3>3. \A i \in 1..Len(b) - (n + 1) : <<b[n + 1 + i], More>> \in U
      BY <1>1, <2>1
    <3>. DEFINE k == Len(b) - (n + 1)
                f == [i \in 1..k |-> <<b[n + 1 + i], More>>]
    <3>4. k \in Nat /\ (\A i \in 1..k : f[i] = <<b[n + 1 + i], More>> /\ f[i] \in U) /\ m = f
          /\ f = [i \in 1..k |-> f[i]]
      BY <3>1, <3>2, <3>3
    <3>. HIDE DEF U, m, k, f
    <3>5. f \in Seq(U) /\ Len(f) = k
      BY <3>4, FunctionIsSequence
    <3>. QED  BY <3>4, <3>5 DEF k
  <2>. HIDE DEF l, m
  <2>3. Tail(l) \in Seq(U) /\ Len(Tail(l)) = Len(l) - 1 /\ \A i \in 1..Len(l) - 1 : Tail(l)[i] = l[i + 1]
    BY <1>3, <1>4
  <2>4. \A i \in 1..Len(m) : Tail(l)[i] = m[i]
    <3> SUFFICES ASSUME NEW i \in 1..Len(m) PROVE Tail(l)[i] = m[i]
      OBVIOUS
    <3>1. i \in 1..Len(b) - (n + 1) /\ i \in 1..Len(l) - 1
      BY <1>5, <2>2
    <3>2. l[i + 1] = <<b[n + (i + 1)], More>> /\ n + 1 + i = n + (i + 1)
      BY <1>3, <2>1, <3>1
    <3>3. m[i] = <<b[n + 1 + i], More>>
      BY <2>2, <3>1
    <3>. QED  BY <2>3, <3>1, <3>2, <3>3
  <2>. QED  BY <1>5, <2>2, <2>3, <2>4, SeqEqual DEF m
<1>8. b[n + 1] \in Queries /\ n + 1 \in 0..Len(b)
  BY <1>1, <1>5 DEF QueryWords
<1>. QED  BY <1>6, <1>7, <1>8

LEMMA AppendLater ==
  ASSUME NEW U, NEW s \in Seq(U), NEW t \in Seq(U), NEW a \in U
  PROVE  s \o Append(t, a) = Append(s \o t, a)
<1>1. <<a>> \in Seq(U) /\ Append(t, a) = t \o <<a>>
  OBVIOUS
<1>2. s \o t \in Seq(U)
  BY ConcatProperties
<1>3. Append(s \o t, a) = (s \o t) \o <<a>>
  BY <1>2
<1>4. (s \o t) \o <<a>> = s \o (t \o <<a>>)
  BY <1>1, ConcatAssociative
<1>. QED  BY <1>1, <1>3, <1>4

LEMMA OneAnswerMore ==
  ASSUME NEW s, IsSequence(s), NEW t, IsSequence(t), NEW b, NEW n \in Nat,
         FirstAnswers(b, n) = s \o t
  PROVE  FirstAnswers(b, n + 1) = s \o Append(t, Answer(b[n + 1]))
<1>. DEFINE a == Answer(b[n + 1])
            v == FirstAnswers(b, n + 1)
<1>1. PICK S : s \in Seq(S)
  BY DEF IsSequence
<1>2. PICK T : t \in Seq(T)
  BY DEF IsSequence
<1>. DEFINE U == S \cup T \cup {a} \cup {v[i] : i \in 1..n + 1}
<1>3. s \in Seq(U) /\ t \in Seq(U) /\ a \in U /\ <<a>> \in Seq(U)
  <2>1. S \subseteq U /\ T \subseteq U /\ a \in U
    OBVIOUS
  <2>. HIDE DEF U, a
  <2>. QED  BY <1>1, <1>2, <2>1, SeqMonotonic
<1>4. v \in Seq(U) /\ Len(v) = n + 1 /\ \A i \in 1..n + 1 : v[i] = Answer(b[i])
  <2>1. \A i \in 1..n + 1 : v[i] \in U
    OBVIOUS
  <2>2. v = [i \in 1..n + 1 |-> Answer(b[i])]
    BY DEF FirstAnswers
  <2>3. \A i \in 1..n + 1 : v[i] = Answer(b[i])
    BY <2>2
  <2>4. v \in [1..n + 1 -> U]
    <3>. HIDE DEF U
    <3>. QED  BY <2>1, <2>2
  <2>. HIDE DEF U, v
  <2>5. n + 1 \in Nat
    OBVIOUS
  <2>6. v \in Seq(U) /\ Len(v) = n + 1
    <3>1. v = [i \in 1..n + 1 |-> v[i]]
      BY <2>4
    <3>. QED  BY <2>1, <2>5, <3>1, FunctionIsSequence
  <2>. QED  BY <2>3, <2>6
<1>. HIDE DEF U, v, a
<1>5. s \o Append(t, a) = Append(s \o t, a)
  <2>1. \A w : s \in Seq(w) /\ t \in Seq(w) /\ a \in w => s \o Append(t, a) = Append(s \o t, a)
    <3> SUFFICES ASSUME NEW w, s \in Seq(w), t \in Seq(w), a \in w
                PROVE  s \o Append(t, a) = Append(s \o t, a)
      OBVIOUS
    <3>. QED  BY AppendLater
  <2>. QED  BY <1>3, <2>1, Zenon
<1>7. s \o t \in Seq(U) /\ Len(s \o t) = n /\ \A i \in 1..n : (s \o t)[i] = Answer(b[i])
  <2>1. s \o t \in Seq(U)
    BY <1>3, ConcatProperties
  <2>2. DOMAIN (s \o t) = 1..n /\ \A i \in 1..n : (s \o t)[i] = Answer(b[i])
    BY DEF FirstAnswers
  <2>3. Len(s \o t) = n
    BY <2>1, <2>2, LenProperties
  <2>. QED  BY <2>1, <2>2, <2>3
<1>. DEFINE u == s \o t
<1>. HIDE DEF u
<1>8. u \in Seq(U) /\ Len(u) = n /\ \A i \in 1..n : u[i] = Answer(b[i])
  BY <1>7 DEF u
<1>9. Append(u, a) \in Seq(U) /\ Len(Append(u, a)) = n + 1
      /\ \A i \in 1..n + 1 : Append(u, a)[i] = IF i <= n THEN u[i] ELSE a
  BY <1>3, <1>8
<1>10. \A i \in 1..n + 1 : Append(u, a)[i] = v[i]
  <2> SUFFICES ASSUME NEW i \in 1..n + 1 PROVE Append(u, a)[i] = v[i]
    OBVIOUS
  <2>1. CASE i <= n
    <3>1. i \in 1..n
      BY <2>1
    <3>. QED  BY <1>4, <1>8, <1>9, <2>1, <3>1
  <2>2. CASE ~(i <= n)
    <3>1. i = n + 1
      BY <2>2
    <3>. QED  BY <1>4, <1>9, <2>2, <3>1 DEF a
  <2>. QED  BY <2>1, <2>2
<1>11. Append(u, a) = v
  BY <1>4, <1>9, <1>10, SeqEqual
<1>. QED  BY <1>5, <1>11, Zenon DEF u, v, a

(* The line that is answered next is the one of the next query.            *)
LEMMA AtLine ==
  ASSUME Typed, InStep, pc = "answer", todo # <<>>
  PROVE  /\ hpc = "batch" /\ toProgram = <<>> /\ left = <<>> /\ Batch(workload[batch])
         /\ \E n \in 0..Len(workload[batch]) :
              /\ n + 1 \in 0..Len(workload[batch])
              /\ todo = LinesAfter(workload[batch], n)
              /\ got \o toHarness = FirstAnswers(workload[batch], n)
              /\ Head(todo) = <<workload[batch][n + 1], More>>
              /\ workload[batch][n + 1] \in Queries
              /\ Tail(todo) = LinesAfter(workload[batch], n + 1)
<1>1. hpc = "batch" /\ toProgram = <<>> /\ left = <<>>
      /\ \E n \in 0..Len(workload[batch]) :
           /\ todo = LinesAfter(workload[batch], n)
           /\ got \o toHarness = FirstAnswers(workload[batch], n)
  BY DEF InStep, Answering, LinesAfter
<1>2. Batch(workload[batch])
  BY <1>1, WorkloadFacts DEF Typed, TypeOK, Structure
<1>. QED  BY <1>1, <1>2, NextLine

LEMMA WritePipeInStep ==
  ASSUME Typed, InStep, WritePipe
  PROVE  InStep'
<1>1. /\ UNCHANGED harnessVars /\ UNCHANGED <<toProgram, pc, input>> /\ pc = "answer" /\ todo # <<>>
      /\ toHarness' = Append(toHarness, Answer(Head(todo)[1])) /\ todo' = Tail(todo)
  BY DEF WritePipe
<1>. DEFINE b == workload[batch]
<1>2. /\ hpc = "batch" /\ toProgram = <<>> /\ left = <<>> /\ Batch(b)
      /\ input = Lines(InitText)
  BY <1>1, AtLine DEF InStep
<1>3. PICK n \in 0..Len(b) :
        /\ n + 1 \in 0..Len(b) /\ got \o toHarness = FirstAnswers(b, n)
        /\ Head(todo) = <<b[n + 1], More>> /\ Tail(todo) = LinesAfter(b, n + 1)
  BY <1>1, AtLine
<1>4. toHarness' = Append(toHarness, Answer(b[n + 1]))
  BY <1>1, <1>3
<1>5. got \o toHarness' = FirstAnswers(b, n + 1)
  <2>. HIDE DEF b
  <2>1. /\ IsSequence(got) /\ IsSequence(toHarness) /\ n \in Nat
        /\ got \o toHarness = FirstAnswers(b, n)
    BY <1>3 DEF Typed, Structure
  <2>2. FirstAnswers(b, n + 1) = got \o Append(toHarness, Answer(b[n + 1]))
    BY <2>1, OneAnswerMore, Zenon
  <2>. QED  BY <1>4, <2>2, Zenon
<1>6. Answering'
  <2>1. b' = b /\ got' = got
    BY <1>1, HarnessKept
  <2>2. FirstAnswers(b, n + 1)' = FirstAnswers(b, n + 1) /\ LinesAfter(b, n + 1)' = LinesAfter(b, n + 1)
    BY <2>1 DEF FirstAnswers, LinesAfter
  <2>3. \E k \in 0..Len(b') : /\ todo' = [i \in 1..Len(b') - k |-> <<b'[k + i], More>>]
                              /\ got' \o toHarness' = FirstAnswers(b, k)'
    <3>1. todo' = [i \in 1..Len(b') - (n + 1) |-> <<b'[n + 1 + i], More>>]
      BY <1>1, <1>3, <2>1 DEF LinesAfter
    <3>2. got' \o toHarness' = FirstAnswers(b, n + 1)'
      BY <1>5, <2>1, <2>2
    <3>. HIDE DEF b
    <3>. QED  BY <1>3, <2>1, <3>1, <3>2
  <2>4. hpc' = "batch" /\ toProgram' = <<>> /\ left' = <<>>
    BY <1>1, <1>2, HarnessKept
  <2>. QED  BY <2>3, <2>4 DEF Answering
<1>. QED  BY <1>1, <1>2, <1>6, HarnessKept DEF InStep

LEMMA NeverUndefined ==
  ASSUME Typed, InStep, NotAQuery
  PROVE  FALSE
<1>1. pc = "answer" /\ todo # <<>> /\ (~IsQuery(Head(todo)) \/ hpc \in {"end", "killed"})
  BY DEF NotAQuery
<1>2. hpc = "batch"
  BY <1>1, AtLine
<1>3. PICK q \in Queries : Head(todo) = <<q, More>>
  BY <1>1, AtLine
<1>4. <<q, More>> \o <<Eol>> = Line(q)
  <2>. DEFINE U == {q, More, Eol}
              s == <<q, More>>
              t == <<Eol>>
  <2>1. s \in Seq(U) /\ Len(s) = 2 /\ t \in Seq(U) /\ Len(t) = 1
        /\ s[1] = q /\ s[2] = More /\ t[1] = Eol
    OBVIOUS
  <2>2. Line(q) \in Seq(U) /\ Len(Line(q)) = 3
        /\ Line(q)[1] = q /\ Line(q)[2] = More /\ Line(q)[3] = Eol
    BY DEF Line
  <2>. HIDE DEF U, s, t
  <2>3. s \o t \in Seq(U) /\ Len(s \o t) = Len(s) + Len(t)
        /\ \A i \in 1..Len(s) + Len(t) : (s \o t)[i] = IF i <= Len(s) THEN s[i] ELSE t[i - Len(s)]
    BY <2>1, ConcatProperties
  <2>4. Len(s \o t) = 3 /\ (s \o t)[1] = q /\ (s \o t)[2] = More /\ (s \o t)[3] = Eol
    BY <2>1, <2>3
  <2>5. \A i \in 1..3 : i = 1 \/ i = 2 \/ i = 3
    OBVIOUS
  <2>6. \A i \in 1..3 : (s \o t)[i] = Line(q)[i]
    BY <2>2, <2>4, <2>5
  <2>7. s \o t = Line(q)
    BY <2>2, <2>3, <2>4, <2>6, SeqEqual
  <2>. QED  BY <2>7 DEF s, t
<1>. QED  BY <1>1, <1>2, <1>3, <1>4 DEF IsQuery

(* When every line is answered, what comes is the rest of the stream.      *)
LEMMA AllAnswered ==
  ASSUME Typed, InStep, pc = "answer", todo = <<>>
  PROVE  Coming(Pending, 0)
<1>1. SUFFICES ASSUME ~Coming(Pending, 0) PROVE FALSE
  OBVIOUS
<1>. DEFINE b == workload[batch]
<1>2. /\ hpc = "batch" /\ toProgram = <<>> /\ left = <<>>
      /\ \E n \in 0..Len(b) : todo = LinesAfter(b, n) /\ got \o toHarness = FirstAnswers(b, n)
  BY <1>1 DEF InStep, Answering, LinesAfter
<1>3. Batch(b)
  BY <1>2, WorkloadFacts DEF Typed, TypeOK, Structure
<1>. HIDE DEF b
<1>4. PICK n \in 0..Len(b) : todo = LinesAfter(b, n) /\ got \o toHarness = FirstAnswers(b, n)
  BY <1>2
<1>5. n = Len(b)
  <2>1. DOMAIN todo = 1..Len(b) - n /\ DOMAIN todo = {} /\ Len(b) \in Nat
    BY <1>3, <1>4 DEF LinesAfter, Batch
  <2>2. n < Len(b) => 1 \in 1..Len(b) - n
    BY <2>1
  <2>3. 1 \notin 1..Len(b) - n
    BY <2>1, Zenon
  <2>. QED  BY <2>1, <2>2, <2>3
<1>6. Pending = <<>>
  BY <1>2 DEF Pending
<1>7. Answered(Pending)
  BY <1>2, <1>4, <1>5, <1>6 DEF Answered, AnswersTo, b
<1>. QED  BY <1>1, <1>7 DEF Coming

LEMMA NextReadInStep ==
  ASSUME Typed, InStep, NextRead
  PROVE  InStep'
<1>1. /\ UNCHANGED harnessVars /\ UNCHANGED <<toProgram, toHarness, input>> /\ pc = "answer"
      /\ todo = <<>> /\ pc' = "batch" /\ text' = <<>>
  BY DEF NextRead, CallRead
<1>2. hpc \in {"batch", "end"} /\ input = Lines(InitText)
  BY <1>1 DEF InStep, Answering
<1>3. Coming(Pending, 0)
  BY <1>1, AllAnswered
<1>4. Coming(Sent, Len(text))'
  BY <1>1, <1>3, NextText
<1>5. ReadingBatch'
  BY <1>1, <1>2, <1>4, HarnessKept DEF ReadingBatch
<1>6. input' = Lines(InitText')
  BY <1>1, <1>2, HarnessKept
<1>. QED  BY <1>1, <1>5, <1>6, HarnessKept DEF InStep

-----------------------------------------------------------------------------
(* The harness keeps them in step                                          *)

LEMMA FirstAnswersType ==
  ASSUME NEW b, NEW n \in Nat
  PROVE  \E S : FirstAnswers(b, n) \in Seq(S) /\ Len(FirstAnswers(b, n)) = n
<1>. DEFINE S == {Answer(b[i]) : i \in 1..n}
<1>1. FirstAnswers(b, n) = [i \in 1..n |-> Answer(b[i])] /\ \A i \in 1..n : Answer(b[i]) \in S
  BY DEF FirstAnswers
<1>. HIDE DEF S
<1>2. FirstAnswers(b, n) \in Seq(S) /\ Len(FirstAnswers(b, n)) = n
  BY <1>1, FunctionIsSequence
<1>. QED  BY <1>2

(* What the harness has and what is on its way are the first answers.      *)
LEMMA AnsweredSoFar ==
  ASSUME Typed, InStep, hpc = "batch"
  PROVE  /\ Batch(workload[batch])
         /\ \E n \in 0..Len(workload[batch]) : got \o toHarness = FirstAnswers(workload[batch], n)
<1>. DEFINE b == workload[batch]
<1>1. Batch(b)
  BY WorkloadFacts DEF Typed, TypeOK, Structure
<1>. HIDE DEF b
<1>2. 0 \in 0..Len(b) /\ Len(b) \in 0..Len(b)
  BY <1>1 DEF Batch
<1>3. NoAnswers => got \o toHarness = FirstAnswers(b, 0)
  <2>1. FirstAnswers(b, 0) = <<>> /\ <<>> \o <<>> = <<>>
    BY DEF FirstAnswers
  <2>. QED  BY <2>1 DEF NoAnswers
<1>4. \A s, n : Coming(s, n) => NoAnswers \/ got \o toHarness = FirstAnswers(b, Len(b))
  BY DEF Coming, OfBatch, Answered, Nothing, Ahead, AnswersTo, b
<1>5. \/ NoAnswers
      \/ \E s, n : Coming(s, n)
      \/ \E n \in 0..Len(b) : got \o toHarness = FirstAnswers(b, n)
  BY DEF InStep, ReadingNames, Constructing, ReadingBatch, Counting, Answering, AtEnd, b
<1>6. \E n \in 0..Len(b) : got \o toHarness = FirstAnswers(b, n)
  BY <1>2, <1>3, <1>4, <1>5, Zenon
<1>. QED  BY <1>1, <1>6 DEF b

(* So it has every answer to the batch, and no other, when it goes on.     *)
LEMMA GotAll ==
  ASSUME Typed, InStep, hpc = "batch", Len(got) >= Len(workload[batch])
  PROVE  /\ got = AnswersTo(workload[batch]) /\ toHarness = <<>>
         /\ \A n \in 0..Len(workload[batch]) :
              got \o toHarness = FirstAnswers(workload[batch], n) => n = Len(workload[batch])
<1>. DEFINE b == workload[batch]
<1>1. Batch(b) /\ IsSequence(got) /\ IsSequence(toHarness) /\ Len(got) >= Len(b)
  BY AnsweredSoFar DEF Typed, Structure
<1>2. PICK m \in 0..Len(b) : got \o toHarness = FirstAnswers(b, m)
  BY AnsweredSoFar
<1>. HIDE DEF b
<1>3. Len(b) \in Nat /\ Len(got) \in Nat /\ Len(toHarness) \in Nat
      /\ Len(got \o toHarness) = Len(got) + Len(toHarness)
  BY <1>1, SequenceConcat, SequenceStep DEF Batch
<1>4. \A n \in 0..Len(b) : Len(FirstAnswers(b, n)) = n
  BY <1>3, FirstAnswersType
<1>5. \A n \in 0..Len(b) : got \o toHarness = FirstAnswers(b, n) => n = Len(b) /\ Len(toHarness) = 0
  BY <1>1, <1>3, <1>4
<1>6. m = Len(b) /\ Len(toHarness) = 0
  BY <1>2, <1>5
<1>7. toHarness = <<>>
  <2>1. PICK S : toHarness \in Seq(S)
    BY <1>1 DEF IsSequence
  <2>. QED  BY <1>6, <2>1, EmptySeq
<1>8. got = AnswersTo(b)
  <2>1. PICK S : got \in Seq(S)
    BY <1>1 DEF IsSequence
  <2>2. got \o toHarness = got
    BY <1>7, <2>1, ConcatEmptySeq
  <2>. QED  BY <1>2, <1>6, <2>2 DEF AnswersTo
<1>. QED  BY <1>5, <1>7, <1>8 DEF b

(* The harness adds z to the stream, and what was coming is followed by z. *)
Grows(z) ==
  /\ z \in Seq(Units) /\ toProgram' \in Seq(Units) /\ left' \in Seq(Units)
  /\ toProgram' \o left' = (toProgram \o left) \o z
  /\ hpc' \in {"batch", "end"}
  /\ \A s \in Seq(Units), n \in Nat : n <= Len(s) /\ Coming(s, n) => Coming(s \o z, n)'

(* The steps of the harness once it has sent the names and Done.           *)
BatchStep == WakeUp \/ Feed \/ Collect \/ NextBatch
StepKept == UNCHANGED <<names, workload, programVars, mishaps>>

LEMMA Grown ==
  ASSUME Typed, NEW z, Grows(z), text' = text
  PROVE  /\ Pending \in Seq(Units) /\ Sent \in Seq(Units) /\ Len(text) \in 0..Len(Sent)
         /\ Pending' = Pending \o z /\ Sent' = Sent \o z
<1>1. toProgram \in Seq(Units) /\ left \in Seq(Units) /\ text \in Seq(Units) /\ z \in Seq(Units)
  BY DEF Typed, TypeOK, Grows
<1>2. Pending \in Seq(Units)
  BY <1>1, Joined DEF Pending
<1>3. Pending' = Pending \o z
  BY DEF Grows, Pending
<1>4. Sent = text \o Pending
  BY <1>1, Regroup DEF Sent, Pending
<1>5. Sent \in Seq(Units) /\ Len(Sent) = Len(text) + Len(Pending)
  BY <1>1, <1>2, <1>4, Joined
<1>6. Len(text) \in 0..Len(Sent)
  <2>1. Len(text) \in Nat /\ Len(Pending) \in Nat
    BY <1>1, <1>2
  <2>. QED  BY <1>5, <2>1
<1>7. Sent' = text \o Pending'
  <2>1. \A p, l \in Seq(Units) : (text \o p) \o l = text \o (p \o l)
    BY <1>1, Regroup
  <2>2. toProgram' \in Seq(Units) /\ left' \in Seq(Units)
    BY DEF Grows
  <2>. QED  BY <2>1, <2>2 DEF Sent, Pending
<1>8. text \o (Pending \o z) = (text \o Pending) \o z
  BY <1>1, <1>2, Regroup
<1>. QED  BY <1>2, <1>3, <1>4, <1>5, <1>6, <1>7, <1>8

LEMMA ComingFacts ==
  ASSUME NEW s, NEW n, Coming(s, n)
  PROVE  /\ hpc \in {"sleep", "batch", "end"}
         /\ hpc = "sleep" => NoAnswers /\ s = <<>>
         /\ hpc = "batch" => OfBatch(s, n) \/ Answered(s) \/ Ahead(s, n)
BY DEF Coming, OfBatch, Answered, Nothing, Ahead

(* With the queries of a batch still to come, or with an empty batch       *)
(* before it, the harness is ahead when it opens another.                  *)
LEMMA EmptyBatchAhead ==
  ASSUME NEW b, Batch(b), Len(b) = 0
  PROVE  Len(BatchText(b)) = 2 /\ BatchText(b)[1] = F[1] /\ BatchText(b)[2] = Eol
<1>1. Len(BatchText(b)) = 2 /\ Len(QueryLines(b)) = 0 /\ QueryLines(b) \in Seq(Units)
  <2>1. Len(BatchText(b)) = 3 * Len(b) + 2 /\ Len(QueryLines(b)) = 3 * Len(b) /\ Body(QueryLines(b))
    BY BatchFacts
  <2>2. QueryLines(b) \in Seq(Units)
    BY <2>1 DEF Body
  <2>. QED  BY <2>1, <2>2
<1>2. QueryLines(b) = <<>>
  BY <1>1, EmptySeq
<1>3. BatchText(b) = (<<>> \o F) \o <<Eol>>
  BY <1>2 DEF BatchText
<1>4. F \in Seq(Units) /\ Len(F) = 1 /\ <<Eol>> \in Seq(Units) /\ Len(<<Eol>>) = 1 /\ <<Eol>>[1] = Eol
  BY Distinct
<1>5. <<>> \o F = F
  BY <1>4, ConcatEmptySeq
<1>6. (F \o <<Eol>>)[1] = F[1] /\ (F \o <<Eol>>)[Len(F) + 1] = <<Eol>>[1]
  <2>1. 1 \in 1..Len(F) /\ 1 \in 1..Len(<<Eol>>)
    BY <1>4
  <2>. QED  BY <1>4, <2>1, Joined
<1>. QED  BY <1>1, <1>3, <1>4, <1>5, <1>6

LEMMA AheadGrows ==
  ASSUME NEW s \in Seq(Units), NEW z \in Seq(Units), Len(s) >= 2, s[1] = F[1], s[2] = Eol
  PROVE  Len(s \o z) >= 2 /\ (s \o z)[1] = F[1] /\ (s \o z)[2] = Eol
<1>1. Len(s \o z) = Len(s) + Len(z) /\ \A i \in 1..Len(s) : (s \o z)[i] = s[i]
  BY Joined
<1>2. Len(s) \in Nat /\ Len(z) \in Nat
  OBVIOUS
<1>3. 1 \in 1..Len(s) /\ 2 \in 1..Len(s)
  BY <1>2
<1>. QED  BY <1>1, <1>2, <1>3

(* What is coming when the harness has opened a batch, or has no more.     *)
LEMMA Opened ==
  ASSUME hpc' \in {"batch", "end"}, NoAnswers', NEW z,
         hpc' = "end" => z = <<>>,
         hpc' = "batch" => Batch(workload'[batch']) /\ z = BatchText(workload'[batch'])
  PROVE  Coming(z, 0)'
<1>1. CASE hpc' = "end"
  BY <1>1 DEF Coming, Nothing
<1>2. CASE hpc' = "batch"
  <2>1. Len(z) > 0
    BY <1>2, BatchFacts
  <2>. QED  BY <1>2, <2>1 DEF Coming, OfBatch
<1>. QED  BY <1>1, <1>2

LEMMA WakeUpGrows ==
  ASSUME Typed, Typed', InStep, WakeUp
  PROVE  (\E z : z = left' /\ Grows(z)) /\ hpc = "sleep" /\ NoAnswers'
<1>1. /\ hpc = "sleep" /\ batch = 1 /\ left = <<>> /\ OpenBatch(1)
      /\ UNCHANGED <<names, workload, batch, answers, toProgram, toHarness>>
  BY DEF WakeUp, Typed, Structure
<1>2. toProgram \in Seq(Units) /\ left' \in Seq(Units) /\ toProgram' \in Seq(Units)
  BY DEF Typed, TypeOK
<1>3. workload \in Workloads /\ Len(workload) \in Nat
  BY WorkloadFacts DEF Typed, TypeOK
<1>4. toHarness = <<>>
  BY <1>1, ComingFacts DEF InStep, ReadingNames, Constructing, ReadingBatch, Counting, Answering, AtEnd, NoAnswers
<1>5. NoAnswers'
  BY <1>1, <1>4 DEF NoAnswers, OpenBatch
<1>6. hpc' \in {"batch", "end"} /\ (hpc' = "end" => left' = <<>>)
      /\ (hpc' = "batch" => 1 \in 1..Len(workload) /\ left' = BatchText(workload[1]))
  BY <1>1, <1>3 DEF OpenBatch
<1>7. PICK z : z = left'
  OBVIOUS
<1>8. Coming(z, 0)'
  <2>1. (hpc' = "end" => z = <<>>) /\ (hpc' = "batch" => Batch(workload'[batch']) /\ z = BatchText(workload'[batch']))
    BY <1>1, <1>3, <1>6, <1>7, WorkloadFacts
  <2>. QED  BY <1>5, <1>6, <2>1, Opened
<1>9. ASSUME NEW s \in Seq(Units), NEW n \in Nat, n <= Len(s), Coming(s, n)
      PROVE  Coming(s \o z, n)'
  <2>1. s = <<>>
    BY <1>1, <1>9, ComingFacts
  <2>2. n = 0 /\ s \o z = z
    BY <1>2, <1>7, <1>9, <2>1, ConcatEmptySeq
  <2>. QED  BY <1>8, <2>2 DEF Coming, OfBatch, Answered, Nothing, Ahead
<1>10. toProgram' \o left' = (toProgram \o left) \o z
  BY <1>1, <1>2, <1>7, ConcatEmptySeq
<1>. QED  BY <1>1, <1>2, <1>5, <1>6, <1>7, <1>9, <1>10 DEF Grows

LEMMA FeedGrows ==
  ASSUME Typed, Typed', InStep, Feed
  PROVE  /\ Grows(<<>>) /\ hpc = "batch" /\ left # <<>>
         /\ UNCHANGED <<hpc, batch, got, toHarness, answers>>
<1>1. /\ hpc = "batch" /\ left # <<>>
      /\ UNCHANGED <<names, workload, batch, got, answers, toHarness>>
  BY DEF Feed
<1>2. pc # "ended"
  BY <1>1 DEF InStep, AtEnd
<1>3. PICK n \in 1..Len(left) : Sends(n)
  BY <1>2 DEF Feed
<1>4. hpc' = hpc
  BY <1>2 DEF Feed
<1>5. left \in Seq(Units) /\ toProgram \in Seq(Units) /\ left' \in Seq(Units)
      /\ toProgram' \in Seq(Units)
  BY DEF Typed, TypeOK
<1>6. toProgram' \o left' = toProgram \o left
  <2>1. n \in 0..Len(left) /\ TypeOK
    BY DEF Typed
  <2>2. SentStep(n)
    BY <1>3, <2>1, SendsStep
  <2>. QED  BY <2>2 DEF SentStep
<1>7. (toProgram \o left) \o <<>> = toProgram \o left
  BY <1>5, Joined, ConcatEmptySeq
<1>8. ASSUME NEW s \in Seq(Units), NEW k \in Nat, k <= Len(s), Coming(s, k)
      PROVE  Coming(s \o <<>>, k)'
  <2>1. s \o <<>> = s
    BY ConcatEmptySeq
  <2>2. Coming(s, k)'
    BY <1>1, <1>4, <1>8, ComingKept
  <2>. QED  BY <2>1, <2>2
<1>9. <<>> \in Seq(Units)
  OBVIOUS
<1>. QED  BY <1>1, <1>4, <1>5, <1>6, <1>7, <1>8, <1>9 DEF Grows

LEMMA TakenFromFront ==
  ASSUME NEW s, IsSequence(s), NEW t, IsSequence(t), NEW n \in 1..Len(t)
  PROVE  (s \o SubSeq(t, 1, n)) \o SubSeq(t, n + 1, Len(t)) = s \o t
<1>1. PICK S : s \in Seq(S)
  BY DEF IsSequence
<1>2. PICK T : t \in Seq(T)
  BY DEF IsSequence
<1>. DEFINE U == S \cup T
            a == SubSeq(t, 1, n)
            z == SubSeq(t, n + 1, Len(t))
<1>3. s \in Seq(U) /\ t \in Seq(U)
  BY <1>1, <1>2, SeqMonotonic
<1>. HIDE DEF U
<1>4. a \in Seq(U) /\ z \in Seq(U) /\ a \o z = t
  BY <1>3, Parts DEF a, z
<1>. HIDE DEF a, z
<1>5. s \in Seq(U) /\ a \in Seq(U) /\ z \in Seq(U)
  BY <1>3, <1>4
<1>6. (s \o a) \o z = s \o (a \o z)
  BY <1>5, ConcatAssociative
<1>. QED  BY <1>4, <1>6 DEF a, z

LEMMA CollectGrows ==
  ASSUME Typed, Typed', InStep, Collect
  PROVE  /\ Grows(<<>>) /\ hpc = "batch" /\ toHarness # <<>>
         /\ got' \o toHarness' = got \o toHarness
         /\ UNCHANGED <<hpc, batch, left, toProgram, answers>>
<1>1. /\ hpc = "batch"
      /\ UNCHANGED <<names, workload, hpc, batch, left, answers, toProgram>>
  BY DEF Collect
<1>2. PICK n \in 1..Len(toHarness) : /\ got' = got \o SubSeq(toHarness, 1, n)
                                     /\ toHarness' = SubSeq(toHarness, n + 1, Len(toHarness))
  BY DEF Collect
<1>3. toHarness # <<>>
  BY <1>2
<1>4. got' \o toHarness' = got \o toHarness
  <2>1. IsSequence(got) /\ IsSequence(toHarness)
    BY DEF Typed, Structure
  <2>. QED  BY <1>2, <2>1, TakenFromFront
<1>5. toProgram \in Seq(Units) /\ left \in Seq(Units) /\ <<>> \in Seq(Units)
  BY DEF Typed, TypeOK
<1>6. toProgram' \o left' = (toProgram \o left) \o <<>>
  BY <1>1, <1>5, Joined, ConcatEmptySeq
<1>7. ASSUME NEW s \in Seq(Units), NEW k \in Nat, k <= Len(s), Coming(s, k)
      PROVE  Coming(s \o <<>>, k)'
  <2>1. s \o <<>> = s
    BY ConcatEmptySeq
  <2>2. Answered(s)
    BY <1>1, <1>3, <1>7 DEF Coming, OfBatch, Nothing, Ahead, NoAnswers
  <2>3. Answered(s)'
    BY <1>1, <1>4, <2>2 DEF Answered, AnswersTo, FirstAnswers
  <2>. QED  BY <2>1, <2>3 DEF Coming
<1>. QED  BY <1>1, <1>3, <1>4, <1>5, <1>6, <1>7 DEF Grows

LEMMA NextBatchGrows ==
  ASSUME Typed, Typed', InStep, NextBatch
  PROVE  /\ (\E z : z = left' /\ Grows(z)) /\ hpc = "batch" /\ left = <<>> /\ NoAnswers'
         /\ Len(got) >= Len(workload[batch]) /\ got = AnswersTo(workload[batch])
         /\ answers' = Append(answers, got) /\ toProgram' = toProgram
<1>1. /\ hpc = "batch" /\ left = <<>> /\ Len(got) >= Len(workload[batch])
      /\ answers' = Append(answers, got) /\ batch' = batch + 1
      /\ UNCHANGED <<names, workload, toProgram, toHarness>>
      /\ \/ hpc' = "end" /\ left' = <<>> /\ got' = <<>>
         \/ OpenBatch(batch + 1)
  BY DEF NextBatch
<1>2. toProgram \in Seq(Units) /\ left' \in Seq(Units) /\ toProgram' \in Seq(Units)
  BY DEF Typed, TypeOK
<1>3. workload \in Workloads /\ Len(workload) \in Nat /\ batch \in 1..Len(workload)
  BY <1>1, WorkloadFacts DEF Typed, TypeOK, Structure
<1>4. got = AnswersTo(workload[batch]) /\ toHarness = <<>>
  BY <1>1, GotAll
<1>5. got' = <<>> /\ hpc' \in {"batch", "end"} /\ (hpc' = "end" => left' = <<>>)
      /\ (hpc' = "batch" => batch + 1 \in 1..Len(workload) /\ left' = BatchText(workload[batch + 1]))
  BY <1>1, <1>3 DEF OpenBatch
<1>6. NoAnswers'
  BY <1>1, <1>4, <1>5 DEF NoAnswers
<1>7. PICK z : z = left'
  OBVIOUS
<1>8. Coming(z, 0)'
  <2>1. (hpc' = "end" => z = <<>>) /\ (hpc' = "batch" => Batch(workload'[batch']) /\ z = BatchText(workload'[batch']))
    BY <1>1, <1>3, <1>5, <1>7, WorkloadFacts
  <2>. QED  BY <1>5, <1>6, <2>1, Opened
<1>9. ASSUME NEW s \in Seq(Units), NEW n \in Nat, n <= Len(s), Coming(s, n)
      PROVE  Coming(s \o z, n)'
  <2>1. CASE Answered(s)
    <3>1. s = <<>>
      BY <2>1 DEF Answered
    <3>2. n = 0 /\ s \o z = z
      BY <1>2, <1>7, <1>9, <3>1, ConcatEmptySeq
    <3>. QED  BY <1>8, <3>2 DEF Coming, OfBatch, Answered, Nothing, Ahead
  <2>2. CASE OfBatch(s, n) \/ Ahead(s, n)
    <3>1. /\ ~NoEmptyBatch /\ n < 2
          /\ Len(s) >= 2 /\ s[1] = F[1] /\ s[2] = Eol
      <4>1. CASE Ahead(s, n)
        BY <4>1 DEF Ahead
      <4>2. CASE OfBatch(s, n)
        <5>. DEFINE b == workload[batch]
        <5>1. got = <<>> /\ s = BatchText(b) /\ n < Len(s)
          BY <4>2 DEF OfBatch, NoAnswers
        <5>2. Batch(b) /\ Len(b) \in Nat /\ batch \in DOMAIN workload
          BY <1>3, WorkloadFacts DEF Batch
        <5>3. Len(b) = 0
          BY <1>1, <5>1, <5>2
        <5>4. b = <<>>
          BY <5>2, <5>3, EmptySeq DEF Batch
        <5>5. ~NoEmptyBatch
          BY <5>2, <5>4 DEF NoEmptyBatch
        <5>. HIDE DEF b
        <5>6. Len(BatchText(b)) = 2 /\ BatchText(b)[1] = F[1] /\ BatchText(b)[2] = Eol
          BY <5>2, <5>3, EmptyBatchAhead
        <5>. QED  BY <5>1, <5>5, <5>6
      <4>. QED  BY <2>2, <4>1, <4>2
    <3>2. Len(s \o z) >= 2 /\ (s \o z)[1] = F[1] /\ (s \o z)[2] = Eol
      BY <1>2, <1>7, <3>1, AheadGrows
    <3>3. ~NoEmptyBatch'
      BY <1>1, <3>1 DEF NoEmptyBatch
    <3>4. Ahead(s \o z, n)'
      BY <1>5, <1>6, <3>1, <3>2, <3>3 DEF Ahead
    <3>. QED  BY <3>4 DEF Coming
  <2>. QED  BY <1>1, <1>9, <2>1, <2>2, ComingFacts
<1>10. toProgram' \o left' = (toProgram \o left) \o z
  BY <1>1, <1>2, <1>7, ConcatEmptySeq
<1>. QED  BY <1>1, <1>2, <1>4, <1>5, <1>6, <1>7, <1>9, <1>10 DEF Grows

(* What no step of the harness touches, and where it sends the names.      *)
LEMMA ProgramKept ==
  ASSUME InStep, StepKept
  PROVE  /\ names' = names /\ workload' = workload /\ pc' = pc /\ text' = text
         /\ todo' = todo /\ InitText' = InitText
         /\ pc \notin {"files", "construct"} => (input = Lines(InitText))'
BY DEF InStep, StepKept, programVars, InitText

LEMMA StillNames ==
  ASSUME InStep, hpc \in {"init", "done"}
  PROVE  pc = "files" /\ ReadingNames /\ Sent = InitText /\ NoAnswers
<1>1. pc = "files" /\ ReadingNames
  BY ComingFacts DEF InStep, ReadingNames, Constructing, ReadingBatch, Counting, Answering, AtEnd
<1>. QED  BY <1>1 DEF ReadingNames

LEMMA SendNamesInStep ==
  ASSUME Typed, InStep, SendNames
  PROVE  InStep'
<1>. DEFINE n == Min({Len(left), MaxBuffer})
<1>1. /\ hpc = "init" /\ Sends(n) /\ hpc' \in {"init", "done"} /\ StepKept
      /\ UNCHANGED <<workload, answers, got, toHarness>>
  BY DEF SendNames, StepKept
<1>2. text \in Seq(Units) /\ toProgram \in Seq(Units) /\ left \in Seq(Units) /\ TypeOK
  BY DEF Typed, TypeOK
<1>3. n \in 0..Len(left)
  <2>1. {Len(left), MaxBuffer} \subseteq Nat /\ {Len(left), MaxBuffer} # {}
    BY <1>2, SizesAssumption
  <2>2. n \in {Len(left), MaxBuffer} /\ \A x \in {Len(left), MaxBuffer} : n <= x
    BY <2>1, MinOf
  <2>3. Len(left) \in Nat
    BY <1>2
  <2>. HIDE DEF n
  <2>. QED  BY <2>2, <2>3, SizesAssumption
<1>. HIDE DEF n
<1>4. SentStep(n)
  BY <1>1, <1>2, <1>3, SendsStep
<1>5. toProgram' \in Seq(Units) /\ left' \in Seq(Units) /\ toProgram' \o left' = toProgram \o left
  BY <1>4 DEF SentStep
<1>6. (text \o toProgram) \o left = text \o (toProgram \o left)
  BY <1>2, Regroup
<1>7. (text \o toProgram') \o left' = text \o (toProgram' \o left')
  BY <1>2, <1>5, Regroup
<1>8. text' = text /\ pc' = pc /\ InitText' = InitText
  BY <1>1, ProgramKept
<1>9. Sent' = Sent
  BY <1>5, <1>6, <1>7, <1>8 DEF Sent
<1>10. pc = "files" /\ ReadingNames /\ Sent = InitText
  BY <1>1, StillNames
<1>11. ReadingNames'
  BY <1>1, <1>8, <1>9, <1>10 DEF ReadingNames, NoAnswers
<1>. QED  BY <1>1, <1>8, <1>10, <1>11 DEF InStep, AnswersTo, FirstAnswers

LEMMA SendDoneInStep ==
  ASSUME Typed, Typed', InStep, SendDone
  PROVE  InStep'
<1>1. /\ hpc = "done" /\ hpc' = "sleep" /\ StepKept
      /\ toProgram' = (toProgram \o Done) \o <<Eol>>
      /\ UNCHANGED <<workload, answers, got, toHarness, left>>
  BY DEF SendDone, StepKept
<1>2. text \in Seq(Units) /\ toProgram \in Seq(Units) /\ left = <<>>
  BY <1>1 DEF Typed, TypeOK, Structure
<1>3. pc = "files" /\ ReadingNames /\ Sent = InitText /\ NoAnswers
  BY <1>1, StillNames
<1>4. text' = text /\ pc' = pc /\ InitText' = InitText
  BY <1>1, ProgramKept
<1>. DEFINE e == <<Eol>>
<1>5. Done \in Seq(Units) /\ e \in Seq(Units)
  BY Distinct
<1>. HIDE DEF e
<1>6. text \o toProgram \in Seq(Units) /\ toProgram \o Done \in Seq(Units)
  BY <1>2, <1>5, Joined
<1>7. Sent = text \o toProgram
  BY <1>2, <1>6, ConcatEmptySeq DEF Sent
<1>8. Sent' = text \o ((toProgram \o Done) \o e)
  <2>1. (toProgram \o Done) \o e \in Seq(Units)
    BY <1>5, <1>6, Joined
  <2>2. text \o ((toProgram \o Done) \o e) \in Seq(Units)
    BY <1>2, <2>1, Joined
  <2>3. Sent' = (text \o ((toProgram \o Done) \o e)) \o <<>>
    BY <1>1, <1>2, <1>4 DEF Sent, e
  <2>. QED  BY <2>2, <2>3, ConcatEmptySeq
<1>9. text \o ((toProgram \o Done) \o e) = (text \o (toProgram \o Done)) \o e
  BY <1>2, <1>5, <1>6, Regroup
<1>10. text \o (toProgram \o Done) = (text \o toProgram) \o Done
  BY <1>2, <1>5, Regroup
<1>11. Sent' = InitSent
  BY <1>3, <1>7, <1>8, <1>9, <1>10 DEF InitSent, e
<1>12. InitSent \in Seq(Units) /\ InitSent' = InitSent
  <2>1. text \o (toProgram \o Done) \in Seq(Units)
    BY <1>2, <1>6, Joined
  <2>2. (text \o (toProgram \o Done)) \o e \in Seq(Units)
    BY <1>5, <2>1, Joined
  <2>. QED  BY <1>4, <1>8, <1>9, <1>11, <2>2 DEF InitSent
<1>13. Sent' = InitSent' \o <<>>
  BY <1>11, <1>12, ConcatEmptySeq
<1>14. NoAnswers'
  BY <1>1, <1>3 DEF NoAnswers
<1>15. Coming(<<>>, 0)'
  BY <1>1, <1>14 DEF Coming, Nothing
<1>16. ReadingNames'
  <2>1. <<>> \in Seq(Units)
    OBVIOUS
  <2>. QED  BY <1>1, <1>3, <1>4, <1>13, <1>14, <1>15, <2>1 DEF ReadingNames
<1>. QED  BY <1>1, <1>3, <1>4, <1>16 DEF InStep, AnswersTo, FirstAnswers

(* What each step once the names are sent does to the parts of InStep.     *)
LEMMA BatchStepFacts ==
  ASSUME Typed, Typed', InStep, BatchStep
  PROVE  /\ StepKept /\ hpc \in {"sleep", "batch"} /\ hpc' \in {"batch", "end"}
         /\ \E z : Grows(z)
         /\ NoAnswers => NoAnswers'
         /\ \/ UNCHANGED answers
            \/ /\ hpc = "batch" /\ answers' = Append(answers, got)
               /\ got = AnswersTo(workload[batch])
<1>1. StepKept
  BY DEF BatchStep, WakeUp, Feed, Collect, NextBatch, StepKept
<1>2. CASE WakeUp
  <2>1. UNCHANGED answers
    BY <1>2 DEF WakeUp
  <2>2. \E z : Grows(z)
    BY <1>2, WakeUpGrows
  <2>. QED  BY <1>1, <1>2, <2>1, <2>2, WakeUpGrows DEF Grows
<1>3. CASE Feed
  BY <1>1, <1>3, FeedGrows DEF NoAnswers, Grows
<1>4. CASE Collect
  BY <1>1, <1>4, CollectGrows DEF NoAnswers, Grows
<1>5. CASE NextBatch
  <2>1. \E z : Grows(z)
    BY <1>5, NextBatchGrows
  <2>. QED  BY <1>1, <1>5, <2>1, NextBatchGrows DEF Grows
<1>. QED  BY <1>2, <1>3, <1>4, <1>5 DEF BatchStep

LEMMA AnswersKept ==
  ASSUME Typed, Typed', InStep, BatchStep
  PROVE  (\A i \in 1..Len(answers) : answers[i] = AnswersTo(workload[i]))'
<1>1. workload' = workload /\ \A i \in 1..Len(answers) : answers[i] = AnswersTo(workload[i])
  BY BatchStepFacts DEF InStep, StepKept
<1>2. CASE UNCHANGED answers
  BY <1>1, <1>2 DEF AnswersTo, FirstAnswers
<1>3. CASE answers' = Append(answers, got) /\ got = AnswersTo(workload[batch])
  <2>1. IsSequence(answers) /\ Len(answers) = batch - 1 /\ batch \in Nat
    <3>1. workload \in Workloads /\ batch \in 1..Len(workload) + 1
      BY DEF Typed, TypeOK
    <3>2. Len(workload) \in Nat
      BY <3>1, WorkloadFacts
    <3>. QED  BY <3>1, <3>2 DEF Typed, TypeOK, Structure
  <2>2. PICK S : answers \in Seq(S)
    BY <2>1 DEF IsSequence
  <2>3. answers \in Seq(S \cup {got}) /\ got \in S \cup {got}
    BY <2>2, SeqMonotonic
  <2>4. Len(Append(answers, got)) = Len(answers) + 1
        /\ \A i \in 1..Len(answers) + 1 :
             Append(answers, got)[i] = IF i <= Len(answers) THEN answers[i] ELSE got
    BY <2>3
  <2>5. \A i \in 1..Len(answers) + 1 : Append(answers, got)[i] = AnswersTo(workload[i])
    <3> SUFFICES ASSUME NEW i \in 1..Len(answers) + 1
                PROVE  Append(answers, got)[i] = AnswersTo(workload[i])
      OBVIOUS
    <3>1. CASE i <= Len(answers)
      <4>1. i \in 1..Len(answers)
        BY <2>1, <3>1
      <4>. QED  BY <1>1, <2>4, <3>1, <4>1
    <3>2. CASE ~(i <= Len(answers))
      <4>1. i = batch
        BY <2>1, <3>2
      <4>. QED  BY <1>3, <2>4, <3>2, <4>1
    <3>. QED  BY <3>1, <3>2
  <2>6. \A i \in 1..Len(answers') : answers'[i] = AnswersTo(workload[i])
    BY <1>3, <2>4, <2>5
  <2>. QED  BY <1>1, <2>6 DEF AnswersTo, FirstAnswers
<1>. QED  BY <1>2, <1>3, BatchStepFacts

LEMMA CountingKept ==
  ASSUME Typed, Typed', InStep, BatchStep, Counting
  PROVE  Counting'
<1>1. NoAnswers' /\ StepKept /\ text' = text /\ workload' = workload
  BY BatchStepFacts, ProgramKept DEF Counting
<1>2. CASE WakeUp
  BY <1>2, WakeUpGrows DEF Counting
<1>3. CASE Feed
  <2>1. hpc = "batch" /\ left # <<>> /\ hpc' = "batch"
    BY <1>3, FeedGrows
  <2>2. text = <<>> /\ ~NoEmptyBatch
    BY <2>1 DEF Counting
  <2>. QED  BY <1>1, <2>1, <2>2 DEF Counting, NoEmptyBatch
<1>4. CASE Collect
  BY <1>4, CollectGrows DEF Counting, NoAnswers
<1>5. CASE NextBatch
  <2>. DEFINE b == workload[batch]
  <2>1. /\ hpc = "batch" /\ hpc' \in {"batch", "end"} /\ Len(got) >= Len(b) /\ got = <<>>
    BY <1>5, NextBatchGrows, BatchStepFacts DEF Counting, NoAnswers
  <2>2. Batch(b) /\ batch \in DOMAIN workload
    <3>1. workload \in Workloads /\ batch \in 1..Len(workload)
      <4>1. workload \in Workloads /\ batch \in 1..Len(workload) + 1 /\ batch <= Len(workload)
        BY <2>1 DEF Typed, TypeOK, Structure
      <4>2. Len(workload) \in Nat
        BY <4>1, WorkloadFacts
      <4>. QED  BY <4>1, <4>2
    <3>. QED  BY <3>1, WorkloadFacts
  <2>3. Len(b) = 0
    <3>1. Len(b) \in Nat
      BY <2>2 DEF Batch
    <3>. QED  BY <2>1, <3>1
  <2>4. b = <<>> /\ ~NoEmptyBatch
    <3>1. b = <<>>
      BY <2>2, <2>3, EmptySeq DEF Batch
    <3>. QED  BY <2>2, <3>1 DEF NoEmptyBatch
  <2>5. text = <<>>
    <3>. HIDE DEF b
    <3>1. Len(QueryLines(b)) = 3 * Len(b) /\ Body(QueryLines(b))
      BY <2>2, BatchFacts
    <3>2. QueryLines(b) = <<>>
      BY <2>3, <3>1, EmptySeq DEF Body
    <3>. QED  BY <2>1, <3>2 DEF Counting, b
  <2>. QED  BY <1>1, <2>1, <2>4, <2>5 DEF Counting, NoEmptyBatch
<1>. QED  BY <1>2, <1>3, <1>4, <1>5 DEF BatchStep

LEMMA AnsweringKept ==
  ASSUME Typed, Typed', InStep, BatchStep, pc = "answer"
  PROVE  Answering'
<1>1. StepKept /\ text' = text /\ todo' = todo /\ workload' = workload
      /\ hpc \in {"sleep", "batch"} /\ hpc' \in {"batch", "end"}
  BY BatchStepFacts, ProgramKept
<1>2. Answering /\ hpc = "batch"
  BY <1>1 DEF InStep, Answering
<1>3. ASSUME todo = <<>>, Coming(Pending, 0)
      PROVE  Answering'
  <2>1. PICK z : Grows(z)
    BY BatchStepFacts
  <2>2. Pending \in Seq(Units) /\ Pending' = Pending \o z
    BY <1>1, <2>1, Grown
  <2>3. 0 \in Nat /\ 0 <= Len(Pending)
    BY <2>2
  <2>4. Coming(Pending, 0)'
    <3>. DEFINE p == Pending \o z
    <3>1. PICK q : q = p
      OBVIOUS
    <3>2. Coming(q, 0)'
      BY <1>3, <2>1, <2>2, <2>3, <3>1 DEF Grows
    <3>3. Pending' = q
      BY <2>2, <3>1
    <3>. QED  BY <3>2, <3>3 DEF Coming, OfBatch, Answered, Nothing, Ahead
  <2>. QED  BY <1>1, <1>3, <2>4 DEF Answering
<1>4. ASSUME ~(todo = <<>> /\ Coming(Pending, 0))
      PROVE  Answering'
  <2>. DEFINE b == workload[batch]
  <2>1. /\ hpc = "batch" /\ toProgram = <<>> /\ left = <<>> /\ Batch(b)
        /\ \E n \in 0..Len(b) : todo = LinesAfter(b, n) /\ got \o toHarness = FirstAnswers(b, n)
    BY <1>2, <1>4, AnsweredSoFar DEF Answering, LinesAfter
  <2>2. PICK n \in 0..Len(b) : todo = LinesAfter(b, n) /\ got \o toHarness = FirstAnswers(b, n)
    BY <2>1
  <2>3. ~WakeUp /\ ~Feed
    BY <2>1, WakeUpGrows, FeedGrows
  <2>4. CASE Collect
    <3>1. UNCHANGED <<hpc, batch, left, toProgram>> /\ got' \o toHarness' = got \o toHarness
      BY <2>4, CollectGrows
    <3>2. b' = b
      BY <1>1, <3>1
    <3>3. FirstAnswers(b, n)' = FirstAnswers(b, n) /\ LinesAfter(b, n)' = LinesAfter(b, n)
      BY <3>2 DEF FirstAnswers, LinesAfter
    <3>4. \E k \in 0..Len(b') : /\ todo' = [i \in 1..Len(b') - k |-> <<b'[k + i], More>>]
                                /\ got' \o toHarness' = FirstAnswers(b, k)'
      <4>1. todo' = [i \in 1..Len(b') - n |-> <<b'[n + i], More>>]
        BY <1>1, <2>2, <3>2 DEF LinesAfter
      <4>2. got' \o toHarness' = FirstAnswers(b, n)'
        BY <2>2, <3>1, <3>3
      <4>. HIDE DEF b
      <4>. QED  BY <3>2, <4>1, <4>2
    <3>. QED  BY <2>1, <3>1, <3>4 DEF Answering
  <2>5. CASE NextBatch
    <3>1. n = Len(b)
      <4>1. Len(got) >= Len(b)
        BY <2>5, NextBatchGrows
      <4>. QED  BY <2>1, <2>2, <4>1, GotAll
    <3>2. todo = <<>>
      <4>1. Len(b) \in Nat
        BY <2>1 DEF Batch
      <4>2. 1..Len(b) - Len(b) = {}
        BY <4>1
      <4>3. LinesAfter(b, n) = [i \in {} |-> <<b[n + i], More>>]
        BY <3>1, <4>2 DEF LinesAfter
      <4>. QED  BY <2>2, <4>3
    <3>. QED  BY <1>2, <1>4, <3>2, AllAnswered DEF InStep
  <2>. QED  BY <2>3, <2>4, <2>5 DEF BatchStep
<1>. QED  BY <1>3, <1>4

LEMMA ReadingKept ==
  ASSUME Typed, Typed', InStep, BatchStep, pc \in {"files", "construct", "batch"}
  PROVE  /\ pc = "files" => ReadingNames'
         /\ pc = "construct" => Constructing'
         /\ pc = "batch" => ReadingBatch'
<1>1. StepKept /\ text' = text /\ InitText' = InitText /\ pc' = pc
      /\ hpc \in {"sleep", "batch"} /\ hpc' \in {"batch", "end"} /\ (NoAnswers => NoAnswers')
  BY BatchStepFacts, ProgramKept
<1>2. PICK z : Grows(z)
  BY BatchStepFacts
<1>3. /\ Pending \in Seq(Units) /\ Sent \in Seq(Units) /\ Len(text) \in 0..Len(Sent)
      /\ Pending' = Pending \o z /\ Sent' = Sent \o z /\ z \in Seq(Units)
  BY <1>1, <1>2, Grown DEF Grows
<1>4. ASSUME NEW s \in Seq(Units), NEW n \in Nat, n <= Len(s), Coming(s, n)
      PROVE  \E r \in Seq(Units) : r = s \o z /\ Coming(r, n)'
  <2>1. PICK r : r = s \o z
    OBVIOUS
  <2>2. r \in Seq(Units)
    BY <1>3, <2>1, Joined
  <2>3. Coming(r, n)'
    BY <1>2, <1>4, <2>1 DEF Grows
  <2>. QED  BY <2>1, <2>2, <2>3
<1>5. CASE pc = "files"
  <2>1. PICK s \in Seq(Units) : Sent = InitSent \o s /\ Coming(s, 0)
    BY <1>1, <1>5 DEF InStep, ReadingNames
  <2>2. PICK r \in Seq(Units) : r = s \o z /\ Coming(r, 0)'
    <3>1. 0 \in Nat /\ 0 <= Len(s)
      BY <2>1
    <3>. QED  BY <1>4, <2>1, <3>1
  <2>3. InitSent \in Seq(Units) /\ InitSent' = InitSent
    <3>1. InitText \in Seq(Units)
      BY NamesFacts DEF Typed, TypeOK
    <3>2. Done \in Seq(Units) /\ <<Eol>> \in Seq(Units)
      BY Distinct
    <3>3. InitText \o Done \in Seq(Units)
      BY <3>1, <3>2, Joined
    <3>. QED  BY <1>1, <3>2, <3>3, Joined DEF InitSent
  <2>4. (InitSent \o s) \o z = InitSent \o (s \o z)
    BY <1>3, <2>3, Regroup
  <2>5. Sent' = InitSent' \o r
    BY <1>3, <2>1, <2>2, <2>3, <2>4
  <2>6. Len(text') < Len(InitText') + 3 /\ NoAnswers'
    BY <1>1, <1>5 DEF InStep, ReadingNames
  <2>7. ReadingNames'
    BY <1>1, <2>2, <2>5, <2>6 DEF ReadingNames
  <2>. QED  BY <1>5, <2>7
<1>6. CASE pc = "construct"
  <2>1. text = InitText /\ Coming(Pending, 0)
    BY <1>6 DEF InStep, Constructing
  <2>2. PICK r \in Seq(Units) : r = Pending \o z /\ Coming(r, 0)'
    <3>1. 0 \in Nat /\ 0 <= Len(Pending)
      BY <1>3
    <3>. QED  BY <1>3, <1>4, <2>1, <3>1
  <2>3. Pending' = r
    BY <1>3, <2>2
  <2>4. Coming(Pending, 0)'
    BY <2>2, <2>3 DEF Coming, OfBatch, Answered, Nothing, Ahead
  <2>5. Constructing'
    BY <1>1, <2>1, <2>4 DEF Constructing
  <2>. QED  BY <1>6, <2>5
<1>7. CASE pc = "batch"
  <2>1. Coming(Sent, Len(text))
    BY <1>7 DEF InStep, ReadingBatch
  <2>2. PICK r \in Seq(Units) : r = Sent \o z /\ Coming(r, Len(text))'
    <3>1. PICK m : m = Len(text)
      OBVIOUS
    <3>2. m \in Nat /\ m <= Len(Sent) /\ Coming(Sent, m)
      <4>1. Len(Sent) \in Nat
        BY <1>3
      <4>. QED  BY <1>3, <2>1, <3>1, <4>1
    <3>3. PICK r \in Seq(Units) : r = Sent \o z /\ Coming(r, m)'
      BY <1>3, <1>4, <3>2
    <3>4. Len(text') = m
      BY <1>1, <3>1
    <3>. QED  BY <3>3, <3>4 DEF Coming, OfBatch, Answered, Nothing, Ahead
  <2>3. Sent' = r
    BY <1>3, <2>2
  <2>4. Coming(Sent, Len(text))'
    BY <2>2, <2>3 DEF Coming, OfBatch, Answered, Nothing, Ahead
  <2>5. ReadingBatch'
    BY <1>1, <2>4 DEF ReadingBatch
  <2>. QED  BY <1>7, <2>5
<1>. QED  BY <1>5, <1>6, <1>7

LEMMA BatchStepInStep ==
  ASSUME Typed, Typed', InStep, BatchStep
  PROVE  InStep'
<1>1. pc' = pc /\ hpc' # "killed" /\ (pc \notin {"files", "construct"} => (input = Lines(InitText))')
  BY BatchStepFacts, ProgramKept
<1>2. (\A i \in 1..Len(answers) : answers[i] = AnswersTo(workload[i]))'
  BY AnswersKept
<1>3. CASE pc \in {"files", "construct", "batch"}
  BY <1>1, <1>2, <1>3, ReadingKept DEF InStep
<1>4. CASE pc = "count"
  <2>1. Counting'
    BY <1>4, CountingKept DEF InStep
  <2>. QED  BY <1>1, <1>2, <1>4, <2>1 DEF InStep
<1>5. CASE pc = "answer"
  <2>1. Answering'
    BY <1>5, AnsweringKept
  <2>. QED  BY <1>1, <1>2, <1>5, <2>1 DEF InStep
<1>6. pc # "ended"
  BY BatchStepFacts DEF InStep, AtEnd
<1>. QED  BY <1>3, <1>4, <1>5, <1>6 DEF InStep

-----------------------------------------------------------------------------
(* What main gets is what was sent                                         *)

LEMMA IInvInit == Init => IInv
<1> SUFFICES ASSUME Init PROVE IInv
  OBVIOUS
<1>1. Typed
  BY TypedInit
<1>2. /\ hpc = "init" /\ left = InitText /\ got = <<>> /\ answers = <<>> /\ toProgram = <<>>
      /\ toHarness = <<>> /\ pc = "files" /\ text = <<>>
  BY DEF Init
<1>3. InitText \in Seq(Units)
  BY <1>1, NamesFacts DEF Typed, TypeOK
<1>4. Sent = InitText
  <2>1. <<>> \o <<>> = <<>> /\ <<>> \o InitText = InitText
    BY <1>3, ConcatEmptySeq
  <2>. QED  BY <1>2, <2>1 DEF Sent
<1>5. Len(text) < Len(InitText) + 3
  BY <1>2, <1>3
<1>6. ReadingNames
  BY <1>2, <1>4, <1>5 DEF ReadingNames, NoAnswers
<1>. QED  BY <1>1, <1>2, <1>6 DEF IInv, InStep

LEMMA MishapsStay == [Next]_vars => mishaps \subseteq mishaps'
BY DEF Next, vars, Program, Harness, Read, ReadEnd, ConstructInput, EndOrCount, WritePipe,
       NotAQuery, NextRead, SendNames, SendDone, WakeUp, Feed, Collect, NextBatch

LEMMA InStepKept ==
  ASSUME InStep, UNCHANGED vars
  PROVE  InStep'
<1>1. UNCHANGED <<harnessVars, programVars, toProgram, toHarness>>
  BY DEF vars
<1>2. /\ pc' = pc /\ text' = text /\ todo' = todo /\ input' = input /\ toProgram' = toProgram
      /\ toHarness' = toHarness
  BY <1>1 DEF programVars
<1>3. /\ workload' = workload /\ hpc' = hpc /\ batch' = batch /\ left' = left /\ got' = got
      /\ names' = names /\ answers' = answers
  BY <1>1 DEF harnessVars
<1>4. /\ Sent' = Sent /\ Pending' = Pending /\ InitText' = InitText
      /\ NoAnswers' = NoAnswers /\ NoEmptyBatch' = NoEmptyBatch
  BY <1>2, <1>3 DEF Sent, Pending, InitText, NoAnswers, NoEmptyBatch
<1>5. InitSent' = InitSent
  BY <1>4 DEF InitSent
<1>6. \A s, n : Coming(s, n) => Coming(s, n)'
  BY <1>2, <1>3, ComingKept
<1>7. (\A i \in 1..Len(answers) : answers[i] = AnswersTo(workload[i]))'
  BY <1>3 DEF InStep, AnswersTo, FirstAnswers
<1>8. pc \notin {"files", "construct"} => (input = Lines(InitText))'
  BY <1>2, <1>4 DEF InStep
<1>9. Coming(Pending, 0) => Coming(Pending, 0)'
  <2>1. PICK s : s = Pending
    OBVIOUS
  <2>2. Coming(Pending, 0) => Coming(s, 0)'
    BY <1>6, <2>1
  <2>3. Pending' = s
    BY <1>4, <2>1
  <2>. QED  BY <2>2, <2>3 DEF Coming, OfBatch, Answered, Nothing, Ahead
<1>10. CASE pc = "files"
  <2>1. ReadingNames'
    BY <1>2, <1>3, <1>4, <1>5, <1>6, <1>10 DEF InStep, ReadingNames
  <2>. QED  BY <1>2, <1>3, <1>7, <1>10, <2>1 DEF InStep
<1>11. CASE pc = "construct"
  <2>1. Coming(Pending, 0)'
    BY <1>11, <1>9 DEF InStep, Constructing
  <2>2. Constructing'
    BY <1>2, <1>3, <1>4, <1>11, <2>1 DEF InStep, Constructing
  <2>. QED  BY <1>2, <1>3, <1>7, <1>11, <2>2 DEF InStep
<1>12. CASE pc = "batch"
  <2>1. Coming(Sent, Len(text))'
    <3>1. PICK s : s = Sent
      OBVIOUS
    <3>2. PICK n : n = Len(text)
      OBVIOUS
    <3>3. Coming(s, n)'
      BY <1>6, <1>12, <3>1, <3>2 DEF InStep, ReadingBatch
    <3>4. Sent' = s /\ Len(text') = n
      BY <1>2, <1>4, <3>1, <3>2
    <3>. QED  BY <3>3, <3>4 DEF Coming, OfBatch, Answered, Nothing, Ahead
  <2>2. ReadingBatch'
    BY <1>3, <1>12, <2>1 DEF InStep, ReadingBatch
  <2>. QED  BY <1>2, <1>3, <1>7, <1>8, <1>12, <2>2 DEF InStep
<1>13. CASE pc = "count"
  <2>1. Counting'
    BY <1>2, <1>3, <1>4, <1>13 DEF InStep, Counting
  <2>. QED  BY <1>2, <1>3, <1>7, <1>8, <1>13, <2>1 DEF InStep
<1>14. CASE pc = "answer"
  <2>1. Answering'
    <3>1. CASE todo = <<>> /\ hpc \in {"batch", "end"} /\ Coming(Pending, 0)
      <4>1. Coming(Pending, 0)'
        BY <1>9, <3>1
      <4>. QED  BY <1>2, <1>3, <3>1, <4>1 DEF Answering
    <3>2. CASE ~(todo = <<>> /\ hpc \in {"batch", "end"} /\ Coming(Pending, 0))
      <4>. DEFINE b == workload[batch]
      <4>1. /\ hpc = "batch" /\ toProgram = <<>> /\ left = <<>>
            /\ \E n \in 0..Len(b) : todo = LinesAfter(b, n) /\ got \o toHarness = FirstAnswers(b, n)
        BY <1>14, <3>2 DEF InStep, Answering, LinesAfter
      <4>2. b' = b
        BY <1>3
      <4>3. \A n : FirstAnswers(b, n)' = FirstAnswers(b, n) /\ LinesAfter(b, n)' = LinesAfter(b, n)
        BY <4>2 DEF FirstAnswers, LinesAfter
      <4>4. PICK n \in 0..Len(b) : todo = LinesAfter(b, n) /\ got \o toHarness = FirstAnswers(b, n)
        BY <4>1
      <4>5. todo' = [i \in 1..Len(b') - n |-> <<b'[n + i], More>>]
        BY <1>2, <4>2, <4>4 DEF LinesAfter
      <4>6. got' \o toHarness' = FirstAnswers(b, n)'
        BY <1>2, <1>3, <4>3, <4>4
      <4>7. \E k \in 0..Len(b') : /\ todo' = [i \in 1..Len(b') - k |-> <<b'[k + i], More>>]
                                  /\ got' \o toHarness' = FirstAnswers(b, k)'
        <5>. HIDE DEF b
        <5>. QED  BY <4>2, <4>4, <4>5, <4>6
      <4>. QED  BY <1>2, <1>3, <4>1, <4>7 DEF Answering
    <3>. QED  BY <3>1, <3>2
  <2>. QED  BY <1>2, <1>3, <1>7, <1>8, <1>14, <2>1 DEF InStep
<1>15. CASE pc = "ended"
  <2>1. AtEnd'
    BY <1>3, <1>4, <1>15 DEF InStep, AtEnd
  <2>. QED  BY <1>2, <1>3, <1>7, <1>8, <1>15, <2>1 DEF InStep
<1>. QED  BY <1>10, <1>11, <1>12, <1>13, <1>14, <1>15 DEF InStep

LEMMA IInvNext == IInv /\ [Next]_vars => IInv'
<1> SUFFICES ASSUME IInv, [Next]_vars PROVE IInv'
  OBVIOUS
<1>1. Typed /\ Typed'
  BY TypedNext DEF IInv
<1> SUFFICES ASSUME Clean' PROVE InStep'
  BY <1>1 DEF IInv
<1>2. InStep
  BY MishapsStay DEF IInv, Clean
<1>3. CASE Read
  <2>1. pc \in {"files", "batch"}
    BY <1>3 DEF Read
  <2>. QED  BY <1>1, <1>2, <1>3, <2>1, ReadNamesInStep, ReadBatchInStep
<1>4. CASE ReadEnd
  BY <1>1, <1>2, <1>4, ReadEndInStep
<1>5. CASE ConstructInput
  BY <1>1, <1>2, <1>5, ConstructInStep
<1>6. CASE EndOrCount
  BY <1>1, <1>2, <1>6, EndOrCountInStep
<1>7. CASE WritePipe
  BY <1>1, <1>2, <1>7, WritePipeInStep
<1>8. CASE NotAQuery
  BY <1>1, <1>2, <1>8, NeverUndefined
<1>9. CASE NextRead
  BY <1>1, <1>2, <1>9, NextReadInStep
<1>10. CASE SendNames
  BY <1>1, <1>2, <1>10, SendNamesInStep
<1>11. CASE SendDone
  BY <1>1, <1>2, <1>11, SendDoneInStep
<1>12. CASE WakeUp \/ Feed \/ Collect \/ NextBatch
  BY <1>1, <1>2, <1>12, BatchStepInStep DEF BatchStep
<1>13. CASE UNCHANGED vars
  BY <1>2, <1>13, InStepKept
<1>. QED  BY <1>3, <1>4, <1>5, <1>6, <1>7, <1>8, <1>9, <1>10, <1>11, <1>12, <1>13
          DEF Next, Program, Harness

LEMMA AlwaysInStep == Spec => []IInv
<1>1. Init => IInv
  BY IInvInit
<1>2. IInv /\ [Next]_vars => IInv'
  BY IInvNext
<1>. QED  BY <1>1, <1>2, PTL DEF Spec

(* What ConstructInput and the loop of main are given is what was sent     *)
(* before the stop word, for all sizes of the buffer, the pipes, the names *)
(* and the batches, unless a read has cut, spilled or lost something.      *)
THEOREM WhatWasSent == Spec => []TextAsSent
<1>1. IInv => TextAsSent
  <2> SUFFICES ASSUME IInv, mishaps \subseteq {<<"overrun", "answer">>}, NoEmptyBatch
              PROVE  /\ pc = "construct" => text = InitText
                     /\ pc = "count" => text = IF hpc = "end" THEN <<>> ELSE QueryLines(workload[batch])
                     /\ pc \in {"batch", "count", "answer", "ended"} => input = Lines(InitText)
                     /\ pc # "undefined"
    BY DEF TextAsSent
  <2>1. Clean
    BY DEF Clean, Phases
  <2>2. InStep
    BY <2>1 DEF IInv
  <2>3. pc = "count" => text = IF hpc = "end" THEN <<>> ELSE QueryLines(workload[batch])
    BY <2>2 DEF InStep, Counting
  <2>. QED  BY <2>2, <2>3 DEF InStep, Constructing
<1>. QED  BY <1>1, AlwaysInStep, PTL

-----------------------------------------------------------------------------
(* The answers                                                             *)

Replies == {Answer(q) : q \in Queries}

LEMMA RepliesTo ==
  ASSUME NEW b, Batch(b), NEW n \in 0..Len(b)
  PROVE  /\ FirstAnswers(b, n) \in Seq(Replies) /\ Len(FirstAnswers(b, n)) = n
         /\ \A i \in 1..n : FirstAnswers(b, n)[i] = Answer(b[i])
<1>1. n \in Nat /\ \A i \in 1..n : b[i] \in Queries
  BY DEF Batch, QueryWords
<1>2. FirstAnswers(b, n) = [i \in 1..n |-> Answer(b[i])] /\ \A i \in 1..n : Answer(b[i]) \in Replies
  BY <1>1 DEF FirstAnswers, Replies
<1>3. FirstAnswers(b, n) \in [1..n -> Replies]
  BY <1>2
<1>. QED  BY <1>1, <1>2, <1>3, FunctionIsSequence

LEMMA BatchesJoined ==
  ASSUME NEW a, Batch(a), NEW b, Batch(b)
  PROVE  /\ Batch(a \o b) /\ Len(a \o b) = Len(a) + Len(b) /\ Len(a) \in Nat /\ Len(b) \in Nat
         /\ (\A i \in 1..Len(a) : (a \o b)[i] = a[i])
         /\ \A i \in 1..Len(b) : (a \o b)[Len(a) + i] = b[i]
<1>1. a \in Seq(QueryWords) /\ b \in Seq(QueryWords)
  BY DEF Batch
<1>2. /\ a \o b \in Seq(QueryWords) /\ Len(a \o b) = Len(a) + Len(b)
      /\ (\A i \in 1..Len(a) : (a \o b)[i] = a[i])
      /\ \A i \in 1..Len(b) : (a \o b)[Len(a) + i] = b[i]
  BY <1>1, Concatenated
<1>. QED  BY <1>1, <1>2 DEF Batch

(* The answers to a batch and the first ones to the next are the first     *)
(* answers to both.                                                        *)
LEMMA AnswersJoined ==
  ASSUME NEW a, Batch(a), NEW b, Batch(b), NEW n \in 0..Len(b)
  PROVE  /\ AnswersTo(a) \o FirstAnswers(b, n) = FirstAnswers(a \o b, Len(a) + n)
         /\ Len(a) + n \in 0..Len(a \o b)
<1>1. PICK c : /\ c = a \o b
               /\ Batch(c) /\ Len(c) = Len(a) + Len(b) /\ Len(a) \in Nat /\ Len(b) \in Nat
               /\ (\A i \in 1..Len(a) : c[i] = a[i])
               /\ \A i \in 1..Len(b) : c[Len(a) + i] = b[i]
  <2>1. /\ Batch(a \o b) /\ Len(a \o b) = Len(a) + Len(b) /\ Len(a) \in Nat /\ Len(b) \in Nat
        /\ (\A i \in 1..Len(a) : (a \o b)[i] = a[i])
        /\ \A i \in 1..Len(b) : (a \o b)[Len(a) + i] = b[i]
    BY BatchesJoined
  <2>. QED  BY <2>1
<1>. DEFINE m == Len(a) + n
            x == AnswersTo(a)
            y == FirstAnswers(b, n)
            z == FirstAnswers(c, m)
<1>2. m \in 0..Len(c) /\ Len(a) \in 0..Len(a)
  BY <1>1
<1>3. x \in Seq(Replies) /\ Len(x) = Len(a) /\ \A i \in 1..Len(a) : x[i] = Answer(a[i])
  BY <1>2, RepliesTo DEF AnswersTo
<1>4. y \in Seq(Replies) /\ Len(y) = n /\ \A i \in 1..n : y[i] = Answer(b[i])
  BY RepliesTo
<1>5. z \in Seq(Replies) /\ Len(z) = m /\ \A i \in 1..m : z[i] = Answer(c[i])
  BY <1>1, <1>2, RepliesTo
<1>. HIDE DEF x, y, z
<1>6. /\ x \o y \in Seq(Replies) /\ Len(x \o y) = Len(x) + Len(y)
      /\ (\A i \in 1..Len(x) : (x \o y)[i] = x[i])
      /\ \A i \in 1..Len(y) : (x \o y)[Len(x) + i] = y[i]
  <2>1. x \in Seq(Replies) /\ y \in Seq(Replies)
    BY <1>3, <1>4
  <2>. HIDE DEF m
  <2>. QED  BY <2>1, Concatenated
<1>7. ASSUME NEW i \in 1..m PROVE (x \o y)[i] = z[i]
  <2>1. CASE i <= Len(a)
    <3>1. i \in 1..Len(a)
      BY <1>1, <2>1
    <3>. QED  BY <1>1, <1>3, <1>5, <1>6, <3>1
  <2>2. CASE ~(i <= Len(a))
    <3>1. i - Len(a) \in 1..n /\ Len(a) + (i - Len(a)) = i /\ i - Len(a) \in 1..Len(b)
      BY <1>1, <2>2
    <3>2. (x \o y)[i] = Answer(b[i - Len(a)])
      BY <1>3, <1>4, <1>6, <3>1
    <3>3. c[i] = b[i - Len(a)]
      BY <1>1, <3>1
    <3>. QED  BY <1>5, <3>2, <3>3
  <2>. QED  BY <2>1, <2>2
<1>8. Len(x \o y) = m
  BY <1>3, <1>4, <1>6
<1>9. x \o y = z
  BY <1>5, <1>6, <1>7, <1>8, SeqEqual
<1>. QED  BY <1>1, <1>2, <1>9 DEF x, y, z

LEMMA LastApart ==
  ASSUME NEW S, NEW s \in Seq(S), NEW n \in Nat, Len(s) = n + 1
  PROVE  /\ SubSeq(s, 1, n) \in Seq(S) /\ Len(SubSeq(s, 1, n)) = n
         /\ (\A i \in 1..n : SubSeq(s, 1, n)[i] = s[i])
         /\ s = Append(SubSeq(s, 1, n), s[n + 1]) /\ s[n + 1] \in S
OBVIOUS

(* The answers to batches, one batch after the other.                      *)
LEMMA AnswersToAll ==
  ASSUME NEW w \in Seq(Seq(QueryWords)), NEW a \in Seq(Seq(Replies)), Len(a) = Len(w),
         \A i \in 1..Len(w) : a[i] = AnswersTo(w[i])
  PROVE  FlattenSeq(a) = AnswersTo(FlattenSeq(w))
<1>. DEFINE T == {n \in Nat : \A v \in Seq(Seq(QueryWords)), c \in Seq(Seq(Replies)) :
                    Len(v) = n /\ Len(c) = n /\ (\A i \in 1..n : c[i] = AnswersTo(v[i]))
                    => FlattenSeq(c) = AnswersTo(FlattenSeq(v))}
<1>1. 0 \in T
  <2> SUFFICES ASSUME NEW v \in Seq(Seq(QueryWords)), NEW c \in Seq(Seq(Replies)), Len(v) = 0, Len(c) = 0
              PROVE  FlattenSeq(c) = AnswersTo(FlattenSeq(v))
    OBVIOUS
  <2>1. v = <<>> /\ c = <<>>
    BY EmptySeq
  <2>2. FlattenSeq(v) = <<>> /\ FlattenSeq(c) = <<>>
    BY <2>1, FlattenSeqEmpty
  <2>3. AnswersTo(<<>>) = <<>>
    BY DEF AnswersTo, FirstAnswers
  <2>. QED  BY <2>2, <2>3
<1>2. ASSUME NEW n \in Nat, n \in T
      PROVE  n + 1 \in T
  <2> SUFFICES ASSUME NEW v \in Seq(Seq(QueryWords)), NEW c \in Seq(Seq(Replies)),
                      Len(v) = n + 1, Len(c) = n + 1, \A i \in 1..n + 1 : c[i] = AnswersTo(v[i])
              PROVE  FlattenSeq(c) = AnswersTo(FlattenSeq(v))
    OBVIOUS
  <2>. DEFINE iv == SubSeq(v, 1, n)
              ic == SubSeq(c, 1, n)
  <2>1. /\ iv \in Seq(Seq(QueryWords)) /\ Len(iv) = n /\ (\A i \in 1..n : iv[i] = v[i])
        /\ v = Append(iv, v[n + 1]) /\ v[n + 1] \in Seq(QueryWords)
    BY LastApart
  <2>2. /\ ic \in Seq(Seq(Replies)) /\ Len(ic) = n /\ (\A i \in 1..n : ic[i] = c[i])
        /\ c = Append(ic, c[n + 1]) /\ c[n + 1] \in Seq(Replies)
    BY LastApart
  <2>. HIDE DEF iv, ic
  <2>3. FlattenSeq(ic) = AnswersTo(FlattenSeq(iv))
    <3>1. \A i \in 1..n : ic[i] = AnswersTo(iv[i])
      BY <2>1, <2>2
    <3>. QED  BY <1>2, <2>1, <2>2, <3>1
  <2>4. FlattenSeq(v) = FlattenSeq(iv) \o v[n + 1]
    BY <2>1, FlattenSeqAppend
  <2>5. FlattenSeq(c) = FlattenSeq(ic) \o c[n + 1]
    BY <2>2, FlattenSeqAppend
  <2>6. Batch(FlattenSeq(iv)) /\ Batch(v[n + 1])
    BY <2>1, FlattenSeqType DEF Batch
  <2>7. c[n + 1] = FirstAnswers(v[n + 1], Len(v[n + 1])) /\ Len(v[n + 1]) \in 0..Len(v[n + 1])
    <3>1. n + 1 \in 1..n + 1 /\ Len(v[n + 1]) \in Nat
      BY <2>1
    <3>. QED  BY <3>1 DEF AnswersTo
  <2>. DEFINE p == FlattenSeq(iv)
              l == v[n + 1]
  <2>. HIDE DEF p, l
  <2>8. AnswersTo(p) \o FirstAnswers(l, Len(l)) = FirstAnswers(p \o l, Len(p) + Len(l))
    BY <2>6, <2>7, AnswersJoined DEF p, l
  <2>9. Len(p \o l) = Len(p) + Len(l)
    BY <2>6, BatchesJoined DEF p, l
  <2>10. AnswersTo(p) \o FirstAnswers(l, Len(l)) = AnswersTo(p \o l)
    BY <2>8, <2>9 DEF AnswersTo
  <2>. QED  BY <2>3, <2>4, <2>5, <2>7, <2>10 DEF p, l
<1>3. Nat \subseteq T
  <2>. HIDE DEF T
  <2>. QED  BY <1>1, <1>2, InductionInSet
<1>4. Len(w) \in Nat
  OBVIOUS
<1>5. Len(w) \in T
  <2>. HIDE DEF T
  <2>. QED  BY <1>3, <1>4
<1>. QED  BY <1>5

LEMMA ElementsIn ==
  ASSUME NEW S, NEW s, IsSequence(s), \A i \in 1..Len(s) : s[i] \in S
  PROVE  s \in Seq(S)
<1>1. PICK T : s \in Seq(T)
  BY DEF IsSequence
<1>2. Len(s) \in Nat /\ s = [i \in 1..Len(s) |-> s[i]]
  BY <1>1
<1>3. s \in [1..Len(s) -> S]
  BY <1>2
<1>. QED  BY <1>2, <1>3, FunctionIsSequence

(* The first answers to the first batches are those to all.                *)
LEMMA FirstOfAll ==
  ASSUME NEW w \in Seq(Seq(QueryWords)), NEW k \in 0..Len(w),
         NEW m \in 0..Len(FlattenSeq(SubSeq(w, 1, k)))
  PROVE  /\ FirstAnswers(FlattenSeq(SubSeq(w, 1, k)), m) = FirstAnswers(FlattenSeq(w), m)
         /\ m \in 0..Len(FlattenSeq(w))
<1>. DEFINE pre == SubSeq(w, 1, k)
            rest == SubSeq(w, k + 1, Len(w))
            x == FlattenSeq(pre)
            y == FlattenSeq(rest)
<1>1. pre \in Seq(Seq(QueryWords)) /\ rest \in Seq(Seq(QueryWords)) /\ w = pre \o rest
  BY Parts
<1>2. m \in 0..Len(x)
  OBVIOUS
<1>. HIDE DEF pre, rest
<1>3. FlattenSeq(w) = x \o y
  BY <1>1, FlattenSeqConcat
<1>4. Batch(x) /\ Batch(y)
  BY <1>1, FlattenSeqType DEF Batch
<1>. HIDE DEF x, y
<1>5. Len(x \o y) = Len(x) + Len(y) /\ Len(x) \in Nat /\ Len(y) \in Nat
      /\ \A i \in 1..Len(x) : (x \o y)[i] = x[i]
  BY <1>4, BatchesJoined
<1>6. m \in 0..Len(x \o y) /\ \A i \in 1..m : (x \o y)[i] = x[i]
  BY <1>2, <1>5
<1>7. FirstAnswers(x, m) = FirstAnswers(x \o y, m)
  BY <1>6 DEF FirstAnswers
<1>. QED  BY <1>3, <1>6, <1>7 DEF x, pre

LEMMA NoneOutside ==
  ASSUME InStep, hpc # "batch"
  PROVE  NoAnswers
<1>1. \A s, n : Coming(s, n) => NoAnswers
  BY DEF Coming, OfBatch, Answered, Nothing, Ahead
<1>. QED  BY <1>1 DEF InStep, ReadingNames, Constructing, ReadingBatch, Counting, Answering, AtEnd

(* All that has been answered are the first answers to what is asked.      *)
LEMMA AllSoFar ==
  ASSUME Typed, InStep
  PROVE  \E m \in 0..Len(FlattenSeq(workload)) :
           FlattenSeq(answers) \o got \o toHarness = FirstAnswers(FlattenSeq(workload), m)
<1>. DEFINE w == workload
            k == batch - 1
            pre == SubSeq(w, 1, k)
            p == FlattenSeq(pre)
            a == FlattenSeq(answers)
            all == a \o got \o toHarness
<1>1. w \in Seq(Seq(QueryWords)) /\ Len(w) \in Nat /\ batch \in 1..Len(w) + 1
  BY WorkloadFacts DEF Typed, TypeOK
<1>2. k \in 0..Len(w) /\ k \in Nat /\ k + 1 = batch
  BY <1>1
<1>3. IsSequence(answers) /\ Len(answers) = k /\ IsSequence(got) /\ IsSequence(toHarness)
  BY DEF Typed, TypeOK, Structure
<1>4. \A i \in 1..k : answers[i] = AnswersTo(w[i])
  BY <1>3 DEF InStep
<1>. HIDE DEF w, k
<1>5. pre \in Seq(Seq(QueryWords)) /\ Len(pre) = k /\ \A i \in 1..k : pre[i] = w[i]
  BY <1>1, <1>2
<1>6. answers \in Seq(Seq(Replies))
  <2>1. ASSUME NEW i \in 1..k PROVE answers[i] \in Seq(Replies)
    <3>1. Batch(w[i])
      BY <1>1, <1>2 DEF Batch
    <3>2. Len(w[i]) \in 0..Len(w[i])
      BY <3>1 DEF Batch
    <3>. QED  BY <1>4, <3>1, <3>2, RepliesTo DEF AnswersTo
  <2>. QED  BY <1>3, <2>1, ElementsIn
<1>. HIDE DEF pre
<1>7. a = AnswersTo(p)
  <2>1. Len(answers) = Len(pre) /\ \A i \in 1..Len(pre) : answers[i] = AnswersTo(pre[i])
    BY <1>3, <1>4, <1>5
  <2>. QED  BY <1>5, <1>6, <2>1, AnswersToAll
<1>8. Batch(p) /\ Len(p) \in 0..Len(p)
  BY <1>5, FlattenSeqType DEF Batch
<1>9. a \in Seq(Replies)
  BY <1>6, FlattenSeqType
<1>. HIDE DEF p, a
<1>10. all = a \o (got \o toHarness)
  <2>1. PICK S : got \in Seq(S)
    BY <1>3 DEF IsSequence
  <2>2. PICK T : toHarness \in Seq(T)
    BY <1>3 DEF IsSequence
  <2>. DEFINE U == Replies \cup S \cup T
  <2>3. a \in Seq(U) /\ got \in Seq(U) /\ toHarness \in Seq(U)
    BY <1>9, <2>1, <2>2, SeqMonotonic
  <2>. QED  BY <2>3, ConcatAssociative
<1>11. \E n \in 0..Len(w), m \in Nat :
         m \in 0..Len(FlattenSeq(SubSeq(w, 1, n))) /\ all = FirstAnswers(FlattenSeq(SubSeq(w, 1, n)), m)
  <2>1. CASE hpc = "batch"
    <3>. DEFINE b == w[batch]
    <3>1. PICK n \in 0..Len(b) : Batch(b) /\ got \o toHarness = FirstAnswers(b, n)
      BY <2>1, AnsweredSoFar DEF w
    <3>2. batch \in 1..Len(w) /\ batch \in 0..Len(w)
      BY <1>1, <2>1 DEF Typed, Structure, w
    <3>. HIDE DEF b
    <3>3. AnswersTo(p) \o FirstAnswers(b, n) = FirstAnswers(p \o b, Len(p) + n)
          /\ Len(p) + n \in 0..Len(p \o b)
      BY <1>8, <3>1, AnswersJoined
    <3>4. SubSeq(w, 1, batch) = Append(pre, b)
      BY <1>1, <1>2, <3>2 DEF pre, b
    <3>5. FlattenSeq(SubSeq(w, 1, batch)) = p \o b
      <4>1. b \in Seq(QueryWords)
        BY <3>1 DEF Batch
      <4>2. FlattenSeq(Append(pre, b)) = FlattenSeq(pre) \o b
        BY <1>5, <4>1, FlattenSeqAppend
      <4>. QED  BY <3>4, <4>2 DEF p
    <3>6. all = FirstAnswers(p \o b, Len(p) + n)
      BY <1>7, <1>10, <3>1, <3>3
    <3>. HIDE DEF all
    <3>7. Len(p) + n \in Nat
      BY <3>3
    <3>. QED  BY <3>2, <3>3, <3>5, <3>6, <3>7
  <2>2. CASE hpc # "batch"
    <3>1. got = <<>> /\ toHarness = <<>>
      BY <2>2, NoneOutside DEF NoAnswers
    <3>2. all = a
      BY <1>9, <3>1, ConcatEmptySeq
    <3>3. all = FirstAnswers(p, Len(p)) /\ Len(p) \in Nat
      BY <1>7, <1>8, <3>2 DEF AnswersTo
    <3>. HIDE DEF all
    <3>. QED  BY <1>2, <1>8, <3>3 DEF p, pre
  <2>. QED  BY <2>1, <2>2
<1>. HIDE DEF all
<1>12. PICK n \in 0..Len(w), m \in Nat :
         m \in 0..Len(FlattenSeq(SubSeq(w, 1, n))) /\ all = FirstAnswers(FlattenSeq(SubSeq(w, 1, n)), m)
  BY <1>11
<1>13. all = FirstAnswers(FlattenSeq(w), m) /\ m \in 0..Len(FlattenSeq(w))
  BY <1>1, <1>12, FirstOfAll
<1>. QED  BY <1>13 DEF all, a, w

LEMMA AsExpected ==
  ASSUME NEW q \in Queries, PrintedAsExpected(q)
  PROVE  Answer(q) = Expected(q)
<1>1. AsSigned(Result[q].sum) = Result[q].sum
  BY DEF AsSigned, PrintedAsExpected
<1>2. Result[q].sum = 0 <=> Result[q].rows = 0
  BY ResultAssumption DEF PrintedAsExpected
<1>. QED  BY <1>1, <1>2, Zenon DEF Answer, Expected

(* The harness gets the answers to its queries in their order, each once   *)
(* and to the batch it is at, and they are the expected ones where the sum *)
(* is a positive signed number or the result is empty.                     *)
THEOREM AnswersComeInOrder == Spec => []AnswersInOrder
<1>1. IInv => AnswersInOrder
  <2>. DEFINE asked == FlattenSeq(workload)
              all == FlattenSeq(answers) \o got \o toHarness
  <2> SUFFICES ASSUME IInv, mishaps \subseteq {<<"overrun", "answer">>}
              PROVE  /\ Len(all) <= Len(asked)
                     /\ hpc = "batch" => Len(got) <= Len(workload[batch])
                     /\ \A b \in DOMAIN answers : Len(answers[b]) = Len(workload[b])
                     /\ \A i \in DOMAIN all :
                          /\ all[i] = Answer(asked[i])
                          /\ PrintedAsExpected(asked[i]) => all[i] = Expected(asked[i])
    BY DEF AnswersInOrder
  <2>1. Clean
    BY DEF Clean, Phases
  <2>2. Typed /\ InStep
    BY <2>1 DEF IInv
  <2>3. workload \in Seq(Seq(QueryWords)) /\ batch \in 1..Len(workload) + 1
        /\ Len(workload) \in Nat
    BY <2>2, WorkloadFacts DEF Typed, TypeOK
  <2>4. Batch(asked)
    BY <2>3, FlattenSeqType DEF Batch
  <2>5. PICK m \in 0..Len(asked) : all = FirstAnswers(asked, m)
    BY <2>2, AllSoFar
  <2>. HIDE DEF asked, all
  <2>6. Len(all) = m /\ DOMAIN all = 1..m /\ \A i \in 1..m : all[i] = Answer(asked[i])
    <3>1. all \in Seq(Replies) /\ Len(all) = m /\ \A i \in 1..m : all[i] = Answer(asked[i])
      BY <2>4, <2>5, RepliesTo
    <3>. QED  BY <3>1
  <2>7. Len(all) <= Len(asked)
    BY <2>4, <2>6 DEF Batch
  <2>8. ASSUME hpc = "batch" PROVE Len(got) <= Len(workload[batch])
    <3>1. PICK n \in 0..Len(workload[batch]) :
            Batch(workload[batch]) /\ got \o toHarness = FirstAnswers(workload[batch], n)
      BY <2>2, <2>8, AnsweredSoFar
    <3>2. Len(got \o toHarness) = n
      BY <3>1, RepliesTo
    <3>3. Len(got \o toHarness) = Len(got) + Len(toHarness) /\ Len(got) \in Nat /\ Len(toHarness) \in Nat
      BY <2>2, SequenceConcat, SequenceStep DEF Typed, Structure
    <3>4. Len(workload[batch]) \in Nat
      BY <3>1 DEF Batch
    <3>. QED  BY <3>2, <3>3, <3>4
  <2>9. ASSUME NEW b \in DOMAIN answers PROVE Len(answers[b]) = Len(workload[b])
    <3>1. b \in 1..Len(answers) /\ Len(answers) = batch - 1
      <4>1. PICK S : answers \in Seq(S)
        BY <2>2 DEF Typed, Structure, IsSequence
      <4>. QED  BY <2>2, <4>1 DEF Typed, TypeOK
    <3>2. Batch(workload[b])
      BY <2>3, <3>1 DEF Batch
    <3>3. Len(workload[b]) \in 0..Len(workload[b])
      BY <3>2 DEF Batch
    <3>4. answers[b] = AnswersTo(workload[b])
      BY <2>2, <3>1 DEF InStep
    <3>. QED  BY <3>2, <3>3, <3>4, RepliesTo DEF AnswersTo
  <2>10. ASSUME NEW i \in DOMAIN all, PrintedAsExpected(asked[i]) PROVE all[i] = Expected(asked[i])
    <3>1. asked[i] \in Queries
      BY <2>4, <2>6 DEF Batch, QueryWords
    <3>. QED  BY <2>6, <2>10, <3>1, AsExpected
  <2>. QED  BY <2>6, <2>7, <2>8, <2>9, <2>10
<1>. QED  BY <1>1, AlwaysInStep, PTL

-----------------------------------------------------------------------------
(* Texts that fit in the buffer                                            *)

FilesMishaps == mishaps \cap (Kinds \X {"files"})
BatchMishaps == mishaps \cap (Kinds \X {"batch"})

(* Names that fit are read whole, alone or with the stop word, or after    *)
(* them the stop word: until it is, all or nothing of them has been read.  *)
NamesFit == Len(InitText) + Len(Done) + 1 <= MaxBuffer
NamesInv ==
  NamesFit /\ <<"spill", "files">> \notin mishaps =>
    \/ /\ pc = "files" /\ mishaps = {}
       /\ text \in {<<>>, InitText} /\ lenInput = MaxBuffer + 1
       /\ hpc = "init" => left = InitText
       /\ hpc \notin {"init", "done"} => Len(InitText) + 3 <= Len(text) + Len(toProgram)
    \/ pc # "files" /\ FilesMishaps \subseteq {<<"lost", "files">>}

(* Of a batch that fits all or nothing has been written, and nothing read. *)
AllFit == NoEmptyBatch /\ \A b \in DOMAIN workload : Fits(workload[b])
BatchInv ==
  AllFit /\ FilesMishaps = {} =>
    /\ BatchMishaps = {}
    /\ hpc = "batch" => left = <<>> \/ left = BatchText(workload[batch])
    /\ pc = "batch" => text = <<>> /\ lenInput = MaxBuffer + 1

LEMMA WholeLines ==
  ASSUME text = <<>> \/ Body(text), NEW chunk
  PROVE  ~Cut(chunk)
<1>1. Body(text)
  <2>1. Body(<<>>)
    BY DEF Body
  <2>. QED  BY <2>1
<1>2. text \in Seq(Units) /\ Len(text) \in Nat /\ Len(text) + 1 \in 1..Len(text) + 1
  BY <1>1 DEF Body
<1>3. Begins(text, Len(text) + 1, Len(text) + 1)
  <2>1. CASE text = <<>>
    BY <2>1 DEF Begins
  <2>2. CASE text # <<>>
    <3>1. text[Len(text)] = Eol /\ (Len(text) + 1) - 1 = Len(text)
      BY <1>1, <1>2, <2>2 DEF Body
    <3>2. \A k \in Len(text) + 1..(Len(text) + 1) - 1 : text[k] # Eol
      BY <1>2
    <3>. QED  BY <1>2, <3>1, <3>2 DEF Begins
  <2>. QED  BY <2>1, <2>2
<1>4. LineStart(text, Len(text) + 1) = Len(text) + 1
  BY <1>2, <1>3, LineStartIs
<1>5. OpenLine(text) = <<>>
  <2>1. SubSeq(text, Len(text) + 1, Len(text)) = <<>>
    BY <1>2
  <2>. QED  BY <1>4, <2>1 DEF OpenLine
<1>. QED  BY <1>5 DEF Cut

(* The stream that the names are read from, until the stop word is.        *)
LEMMA NamesStream ==
  ASSUME Typed, InStep, pc = "files"
  PROVE  /\ Body(InitText) /\ Stop = Done /\ StopEnd(InitText) = Len(InitText) + 3
         /\ Len(InitText) \in Nat /\ Len(text) < StopEnd(InitText)
         /\ \E x : StartsWith(x, InitText) /\ Reads(x, Arrived)
         /\ hpc \in {"init", "done"} => Sent = InitText
<1>1. toProgram \in Seq(Units) /\ text \in Seq(Units) /\ left \in Seq(Units)
      /\ names \in InitFiles
  BY DEF Typed, TypeOK
<1>2. Body(InitText) /\ InitText \in Seq(Units) /\ Len(InitText) \in Nat
  BY <1>1, NamesFacts DEF Body
<1>3. Stop = Done /\ StopEnd(InitText) = Len(InitText) + 3
  <2>1. Stop = Done /\ Len(Done) = 2
    BY StopOfPhase, Distinct
  <2>. QED  BY <1>2, <2>1 DEF StopEnd
<1>4. ReadingNames
  BY DEF InStep
<1>5. Reads(Sent, Arrived) /\ Sent \in Seq(Units)
  <2>1. Reads(Sent, Arrived)
    BY <1>1, ReadsPrefix DEF Sent
  <2>2. text \o toProgram \in Seq(Units)
    BY <1>1, Joined
  <2>3. Sent \in Seq(Units)
    BY <1>1, <2>2, Joined DEF Sent
  <2>. QED  BY <2>1, <2>3
<1>6. CASE hpc \in {"init", "done"}
  <2>1. Sent = InitText
    BY <1>4, <1>6 DEF ReadingNames
  <2>2. Done \in Seq(Units) /\ <<Eol>> \in Seq(Units)
    BY Distinct
  <2>3. Done \o <<Eol>> \in Seq(Units)
    BY <2>2, Joined
  <2>4. InitSent = InitText \o (Done \o <<Eol>>)
    BY <1>2, <2>2, ConcatAssociative DEF InitSent
  <2>5. Reads(InitSent, Arrived)
    BY <1>2, <1>5, <2>1, <2>3, <2>4, ReadsMore
  <2>6. StartsWith(InitSent, InitText)
    <3>1. <<>> \in Seq(Units) /\ InitSent \in Seq(Units)
      BY <1>2, <1>3, JoinStarts, EmptySeq DEF InitSent
    <3>2. InitSent \o <<>> = InitSent
      BY <3>1, ConcatEmptySeq
    <3>3. StartsWith(InitSent \o <<>>, InitText)
      BY <1>2, <1>3, <3>1, JoinStarts DEF InitSent
    <3>. QED  BY <3>2, <3>3
  <2>. QED  BY <1>2, <1>3, <1>4, <2>1, <2>5, <2>6 DEF ReadingNames
<1>7. CASE hpc \notin {"init", "done"}
  <2>1. PICK s \in Seq(Units) : Sent = InitSent \o s
    BY <1>4, <1>7 DEF ReadingNames
  <2>2. StartsWith(Sent, InitText)
    BY <1>2, <1>3, <2>1, JoinStarts DEF InitSent
  <2>. QED  BY <1>2, <1>3, <1>4, <1>5, <1>7, <2>2 DEF ReadingNames
<1>. QED  BY <1>6, <1>7

LEMMA AllArrives ==
  ASSUME toProgram \in Seq(Units), Len(toProgram) <= MaxBuffer
  PROVE  Arrived = toProgram
<1>1. Arrived = SubSeq(toProgram, 1, Len(toProgram))
  BY ArrivedFacts
<1>. QED  BY <1>1

LEMMA ReadOfNames ==
  ASSUME IInv, NamesInv, Read, pc = "files", NamesFit, <<"spill", "files">> \notin mishaps'
  PROVE  \/ /\ pc' = "files" /\ mishaps' = {} /\ hpc = "done"
            /\ text' = InitText /\ lenInput' = MaxBuffer + 1
         \/ pc' # "files" /\ mishaps' \cap (Kinds \X {"files"}) \subseteq {<<"lost", "files">>}
<1>1. PICK copy \in Copies(Filled(Arrived)) : ReadStep(Arrived, copy)
  BY DEF Read, ReadStep
<1>2. mishaps' = mishaps \cup (Happens(Arrived, copy) \X {"files"}) /\ toProgram # <<>>
  BY <1>1 DEF ReadStep, Read
<1>3. /\ mishaps = {} /\ text \in {<<>>, InitText} /\ lenInput = MaxBuffer + 1
      /\ hpc = "init" => left = InitText
      /\ hpc \notin {"init", "done"} => Len(InitText) + 3 <= Len(text) + Len(toProgram)
  BY <1>2 DEF NamesInv
<1>4. Typed /\ InStep
  BY <1>3 DEF IInv, Clean
<1>5. toProgram \in Seq(Units) /\ text \in Seq(Units) /\ left \in Seq(Units) /\ IsBuffer(buffer)
      /\ (hpc = "done" => left = <<>>)
  BY <1>4 DEF Typed, TypeOK, Structure, IsBuffer
<1>6. /\ Body(InitText) /\ Stop = Done /\ StopEnd(InitText) = Len(InitText) + 3
      /\ Len(InitText) \in Nat /\ Len(text) < StopEnd(InitText)
      /\ \E x : StartsWith(x, InitText) /\ Reads(x, Arrived)
      /\ hpc \in {"init", "done"} => Sent = InitText
  BY <1>4, NamesStream
<1>7. Arrived \in Seq(Units) /\ Len(Arrived) \in 0..Len(toProgram) /\ Len(Arrived) <= MaxBuffer
      /\ (Len(toProgram) <= MaxBuffer => Len(Arrived) = Len(toProgram))
      /\ (MaxBuffer <= Len(toProgram) => Len(Arrived) = MaxBuffer)
  BY <1>5, ArrivedFacts
<1>8. ~Cut(Arrived)
  BY <1>3, <1>6, WholeLines
<1>9. "spill" \notin Happens(Arrived, copy)
  BY <1>2
<1>10. Stops(Arrived) = {} => copy = Arrived
  BY <1>9 DEF Happens, Kinds
<1>11. ReadsOn(InitText, Arrived, copy) \/ ReadsAll(InitText, Arrived, copy)
  BY <1>5, <1>6, <1>7, <1>8, <1>10, ReadOutcome
<1>12. Len(InitText) + 3 <= MaxBuffer /\ MaxBuffer \in Nat
  BY <1>6, Distinct, SizesAssumption DEF NamesFit
<1>13. CASE ReadsOn(InitText, Arrived, copy)
  <2>1. /\ Len(text) + Len(Arrived) < Len(InitText) + 3
        /\ Stops(Arrived) = {} /\ copy = Arrived
    BY <1>6, <1>13 DEF ReadsOn
  <2>2. Len(text) \in Nat /\ Len(Arrived) \in Nat /\ Len(toProgram) \in Nat
    BY <1>5, <1>7
  <2>3. hpc \in {"init", "done"}
    <3>1. SUFFICES ASSUME Len(InitText) + 3 <= Len(text) + Len(toProgram) PROVE FALSE
      BY <1>3
    <3>2. CASE Len(toProgram) <= MaxBuffer
      BY <1>6, <1>7, <2>1, <2>2, <3>1, <3>2
    <3>3. CASE MaxBuffer <= Len(toProgram)
      BY <1>6, <1>7, <1>12, <2>1, <2>2, <3>3
    <3>. QED  BY <1>12, <2>2, <3>2, <3>3
  <2>4. Len(Sent) = Len(text) + Len(toProgram) + Len(left) /\ Len(left) \in Nat
        /\ Sent = InitText
    <3>1. text \o toProgram \in Seq(Units) /\ Len(text \o toProgram) = Len(text) + Len(toProgram)
      BY <1>5, Joined
    <3>2. Len(Sent) = Len(text \o toProgram) + Len(left)
      BY <1>5, <3>1, Joined DEF Sent
    <3>. QED  BY <1>5, <1>6, <2>3, <3>1, <3>2
  <2>5. hpc = "done" /\ left = <<>>
    <3>1. Len(toProgram) # 0
      BY <1>2, <1>5, EmptySeq
    <3>2. hpc # "init"
      BY <1>3, <2>2, <2>4, <3>1
    <3>. QED  BY <1>5, <2>3, <3>2
  <2>6. text \o toProgram = InitText
    <3>1. text \o toProgram \in Seq(Units)
      BY <1>5, Joined
    <3>. QED  BY <2>4, <2>5, <3>1, ConcatEmptySeq DEF Sent
  <2>7. text' = InitText
    <3>1. Len(toProgram) <= MaxBuffer
      BY <1>6, <1>12, <2>2, <2>4
    <3>2. Arrived = toProgram
      BY <1>5, <3>1, AllArrives
    <3>. QED  BY <1>1, <2>1, <2>6, <3>2 DEF ReadStep
  <2>8. NewLength(Arrived) = lenInput
    <3>1. ~(Len(Arrived) + Len(text) > lenInput)
      BY <1>3, <1>6, <1>12, <2>1, <2>2
    <3>. QED  BY <3>1 DEF NewLength
  <2>9. ~(Len(text) + Len(copy) + 1 > NewLength(Arrived))
    BY <1>3, <1>6, <1>12, <2>1, <2>2, <2>8
  <2>10. Happens(Arrived, copy) = {}
    BY <1>8, <2>1, <2>9 DEF Happens
  <2>11. mishaps' = {}
    BY <1>2, <1>3, <2>10
  <2>12. pc' = "files" /\ lenInput' = MaxBuffer + 1
    BY <1>1, <1>3, <2>1, <2>8 DEF ReadStep
  <2>. QED  BY <2>5, <2>7, <2>11, <2>12
<1>14. CASE ReadsAll(InitText, Arrived, copy)
  <2>1. /\ Len(text) <= Len(InitText) /\ Len(copy) = Len(InitText) - Len(text)
        /\ Stops(Arrived) # {}
    BY <1>14 DEF ReadsAll
  <2>2. pc' = "construct"
    BY <1>1, <2>1 DEF ReadStep, Return
  <2>3. Len(text) \in Nat
    BY <1>5
  <2>4. ~(Len(text) + Len(copy) + 1 > NewLength(Arrived))
    <3>1. Len(text) + Len(copy) + 1 <= MaxBuffer + 1
      BY <1>6, <1>12, <2>1, <2>3
    <3>2. NewLength(Arrived) \in Nat /\ MaxBuffer + 1 <= NewLength(Arrived)
      BY <1>3, <1>12 DEF NewLength
    <3>. QED  BY <1>6, <1>12, <2>1, <2>3, <3>1, <3>2
  <2>5. Happens(Arrived, copy) \subseteq {"lost"}
    BY <1>8, <1>9, <2>4 DEF Happens, Kinds
  <2>6. mishaps' \cap (Kinds \X {"files"}) \subseteq {<<"lost", "files">>}
    BY <1>2, <1>3, <2>5
  <2>. QED  BY <2>2, <2>6
<1>. QED  BY <1>11, <1>13, <1>14

(* No step renames the files, and none that is no read of names has a      *)
(* mishap with them.                                                       *)
LEMMA NotWithNames ==
  ASSUME [Next]_vars, pc # "files", Typed
  PROVE  /\ pc' # "files"
         /\ mishaps' \cap (Kinds \X {"files"}) = mishaps \cap (Kinds \X {"files"})
<1>1. CASE Read
  <2>1. PICK copy : ReadStep(Arrived, copy)
    BY <1>1 DEF Read, ReadStep
  <2>2. pc = "batch"
    BY <1>1 DEF Read
  <2>3. pc' # "files" /\ mishaps' = mishaps \cup (Happens(Arrived, copy) \X {"batch"})
    BY <2>1, <2>2 DEF ReadStep, Return
  <2>. QED  BY <2>3
<1>2. CASE ReadEnd \/ ConstructInput \/ NotAQuery \/ NextRead
  BY <1>2 DEF ReadEnd, ConstructInput, NotAQuery, NextRead, CallRead, Return
<1>3. CASE EndOrCount
  <2>1. mishaps' = mishaps \/ mishaps' = mishaps \cup {<<"empty", "batch">>}
    BY <1>3 DEF EndOrCount
  <2>. QED  BY <1>3, <2>1 DEF EndOrCount
<1>4. CASE WritePipe
  <2>1. mishaps' = mishaps \/ mishaps' = mishaps \cup {<<"overrun", "answer">>}
    BY <1>4 DEF WritePipe
  <2>. QED  BY <1>4, <2>1 DEF WritePipe
<1>5. CASE Harness
  BY <1>5 DEF Harness, SendNames, SendDone, WakeUp, Feed, Collect, NextBatch, programVars
<1>6. CASE UNCHANGED vars
  BY <1>6 DEF vars, programVars
<1>. QED  BY <1>1, <1>2, <1>3, <1>4, <1>5, <1>6 DEF Next, Program

LEMMA NamesStay ==
  ASSUME [Next]_vars
  PROVE  /\ names' = names /\ workload' = workload /\ InitText' = InitText
         /\ NamesFit' = NamesFit /\ AllFit' = AllFit
<1>1. names' = names /\ workload' = workload
  BY DEF Next, vars, Program, Harness, Read, ReadEnd, ConstructInput, EndOrCount, WritePipe,
         NotAQuery, NextRead, SendNames, SendDone, WakeUp, Feed, Collect, NextBatch, harnessVars
<1>2. InitText' = InitText
  BY <1>1 DEF InitText
<1>. QED  BY <1>1, <1>2 DEF NamesFit, AllFit, NoEmptyBatch, Fits, BatchText

(* The harness writes the names in one piece, then Done.                   *)
LEMMA NamesSentWhole ==
  ASSUME Typed, Typed', Harness, hpc = "init" => left = InitText, NamesFit,
         hpc \notin {"init", "done"} => Len(InitText) + 3 <= Len(text) + Len(toProgram),
         InStep
  PROVE  /\ hpc' # "init"
         /\ hpc' # "done" => Len(InitText) + 3 <= Len(text) + Len(toProgram')
<1>1. /\ left \in Seq(Units) /\ toProgram \in Seq(Units) /\ text \in Seq(Units)
      /\ Len(left) \in Nat /\ Len(toProgram) \in Nat /\ Len(text) \in Nat /\ TypeOK
      /\ InitText \in Seq(Units) /\ Len(InitText) \in Nat
  <2>1. TypeOK /\ left \in Seq(Units) /\ toProgram \in Seq(Units) /\ text \in Seq(Units)
        /\ names \in InitFiles
    BY DEF Typed, TypeOK
  <2>2. InitText \in Seq(Units)
    BY <2>1, NamesFacts
  <2>. QED  BY <2>1, <2>2
<1>2. CASE SendNames
  <2>. DEFINE n == Min({Len(left), MaxBuffer})
  <2>1. hpc = "init" /\ Sends(n) /\ hpc' = IF left' = <<>> THEN "done" ELSE "init"
    BY <1>2 DEF SendNames
  <2>2. Len(left) <= MaxBuffer /\ MaxBuffer \in Nat
    BY <1>1, <2>1, Distinct, SizesAssumption DEF NamesFit
  <2>3. n = Len(left)
    <3>1. {Len(left), MaxBuffer} \subseteq Int /\ Len(left) \in {Len(left), MaxBuffer}
          /\ \A x \in {Len(left), MaxBuffer} : Len(left) <= x
      BY <1>1, <2>2
    <3>2. PICK T : T = {Len(left), MaxBuffer}
      OBVIOUS
    <3>3. Min(T) = Len(left)
      BY <3>1, <3>2, MinIs
    <3>. QED  BY <3>2, <3>3
  <2>. HIDE DEF n
  <2>4. left' = SubSeq(left, n + 1, Len(left))
    BY <2>1 DEF Sends
  <2>5. left' = <<>>
    BY <1>1, <2>3, <2>4
  <2>. QED  BY <2>1, <2>5
<1>3. CASE SendDone
  <2>1. hpc = "done" /\ hpc' = "sleep" /\ toProgram' = (toProgram \o Done) \o <<Eol>>
        /\ left = <<>>
    BY <1>3 DEF SendDone, Typed, Structure
  <2>2. Done \in Seq(Units) /\ <<Eol>> \in Seq(Units) /\ Len(Done) = 2 /\ Len(<<Eol>>) = 1
    BY Distinct
  <2>3. toProgram \o Done \in Seq(Units) /\ Len(toProgram \o Done) = Len(toProgram) + 2
    <3>1. toProgram \in Seq(Units) /\ Done \in Seq(Units)
      BY <1>1, <2>2
    <3>2. toProgram \o Done \in Seq(Units)
          /\ Len(toProgram \o Done) = Len(toProgram) + Len(Done)
      BY <3>1, Joined
    <3>. QED  BY <2>2, <3>2
  <2>4. Len((toProgram \o Done) \o <<Eol>>) = Len(toProgram \o Done) + 1
    BY <2>2, <2>3, Joined
  <2>5. Sent = InitText
    BY <2>1, StillNames
  <2>6. text \o toProgram \in Seq(Units) /\ Len(text \o toProgram) = Len(text) + Len(toProgram)
    BY <1>1, Joined
  <2>7. Sent = text \o toProgram
    BY <2>1, <2>6, ConcatEmptySeq DEF Sent
  <2>. QED  BY <1>1, <2>1, <2>3, <2>4, <2>5, <2>6, <2>7
<1>4. CASE WakeUp \/ Collect \/ NextBatch
  BY <1>4 DEF WakeUp, Collect, NextBatch, OpenBatch
<1>5. CASE Feed
  <2>1. hpc = "batch" /\ hpc' \in {"batch", "killed"}
    BY <1>5 DEF Feed
  <2>2. toProgram' = toProgram \/ \E n \in 1..Len(left) : Sends(n)
    BY <1>5 DEF Feed
  <2>3. ASSUME NEW n \in 1..Len(left), Sends(n) PROVE Len(toProgram) <= Len(toProgram')
    <3>1. n \in 0..Len(left)
      BY <1>1
    <3>2. Len(toProgram') = Len(toProgram) + n
      BY <1>1, <2>3, <3>1, SendsStep DEF SentStep
    <3>. QED  BY <1>1, <3>1, <3>2
  <2>4. Len(toProgram) <= Len(toProgram') /\ Len(toProgram') \in Nat
    <3>1. toProgram' \in Seq(Units)
      BY DEF Typed, TypeOK
    <3>2. Len(toProgram) <= Len(toProgram')
      BY <1>1, <2>2, <2>3
    <3>. QED  BY <3>1, <3>2
  <2>. QED  BY <1>1, <2>1, <2>4
<1>. QED  BY <1>2, <1>3, <1>4, <1>5 DEF Harness

LEMMA NamesInvInit == Init => NamesInv
BY DEF Init, NamesInv

LEMMA NamesInvNext == IInv /\ NamesInv /\ [Next]_vars => NamesInv'
<1> SUFFICES ASSUME IInv, NamesInv, [Next]_vars, NamesFit', <<"spill", "files">> \notin mishaps'
             PROVE  \/ /\ pc' = "files" /\ mishaps' = {}
                       /\ text' \in {<<>>, InitText'} /\ lenInput' = MaxBuffer + 1
                       /\ hpc' = "init" => left' = InitText'
                       /\ hpc' \notin {"init", "done"} =>
                            Len(InitText') + 3 <= Len(text') + Len(toProgram')
                    \/ pc' # "files" /\ mishaps' \cap (Kinds \X {"files"}) \subseteq {<<"lost", "files">>}
  BY DEF NamesInv, FilesMishaps
<1>1. NamesFit /\ InitText' = InitText /\ <<"spill", "files">> \notin mishaps
  BY NamesStay, MishapsStay
<1>2. Typed /\ Typed'
  BY TypedNext DEF IInv
<1>3. CASE pc # "files"
  <2>1. mishaps \cap (Kinds \X {"files"}) \subseteq {<<"lost", "files">>}
    BY <1>1, <1>3 DEF NamesInv, FilesMishaps
  <2>. QED  BY <1>2, <1>3, <2>1, NotWithNames
<1>4. CASE pc = "files"
  <2>1. /\ mishaps = {} /\ text \in {<<>>, InitText} /\ lenInput = MaxBuffer + 1
        /\ hpc = "init" => left = InitText
        /\ hpc \notin {"init", "done"} => Len(InitText) + 3 <= Len(text) + Len(toProgram)
    BY <1>1, <1>4 DEF NamesInv
  <2>2. InStep
    BY <2>1 DEF IInv, Clean
  <2>3. CASE Read
    <3>1. hpc' = hpc
      BY <2>3 DEF Read, harnessVars
    <3>. QED  BY <1>1, <1>4, <2>3, <3>1, ReadOfNames
  <2>4. CASE ReadEnd
    BY <1>4, <2>1, <2>4 DEF ReadEnd, Return
  <2>5. CASE Harness
    <3>1. hpc' # "init" /\ (hpc' # "done" => Len(InitText) + 3 <= Len(text) + Len(toProgram'))
      BY <1>1, <1>2, <2>1, <2>2, <2>5, NamesSentWhole
    <3>2. pc' = pc /\ mishaps' = mishaps /\ text' = text /\ lenInput' = lenInput
      BY <2>5 DEF Harness, SendNames, SendDone, WakeUp, Feed, Collect, NextBatch, programVars
    <3>. QED  BY <1>1, <1>4, <2>1, <3>1, <3>2
  <2>6. CASE UNCHANGED vars
    <3>1. pc' = pc /\ mishaps' = mishaps /\ text' = text /\ lenInput' = lenInput
          /\ hpc' = hpc /\ left' = left /\ toProgram' = toProgram
      BY <2>6 DEF vars, programVars, harnessVars
    <3>. QED  BY <1>1, <1>4, <2>1, <3>1
  <2>7. ~(ConstructInput \/ EndOrCount \/ WritePipe \/ NotAQuery \/ NextRead)
    BY <1>4 DEF ConstructInput, EndOrCount, WritePipe, NotAQuery, NextRead
  <2>. QED  BY <2>3, <2>4, <2>5, <2>6, <2>7 DEF Next, Program
<1>. QED  BY <1>3, <1>4

(* A batch that fits is read whole, and without a mishap.                  *)
LEMMA ReadOfBatch ==
  ASSUME Typed, InStep, BatchInv, Read, pc = "batch", AllFit, FilesMishaps = {}
  PROVE  pc' = "count" /\ mishaps' = mishaps
<1>1. PICK copy \in Copies(Filled(Arrived)) : ReadStep(Arrived, copy)
  BY DEF Read, ReadStep
<1>2. toProgram # <<>> /\ Stop = F /\ Return = "count"
  BY StopOfPhase DEF Read
<1>3. text = <<>> /\ lenInput = MaxBuffer + 1
      /\ (hpc = "batch" => left = <<>> \/ left = BatchText(workload[batch]))
  BY DEF BatchInv
<1>4. toProgram \in Seq(Units) /\ left \in Seq(Units) /\ IsBuffer(buffer) /\ text \in Seq(Units)
      /\ workload \in Workloads /\ batch \in 1..Len(workload) + 1
      /\ (hpc = "batch" => batch <= Len(workload))
  BY DEF Typed, TypeOK, Structure, IsBuffer
<1>5. Sent = toProgram \o left /\ Sent \in Seq(Units) /\ Len(Sent) = Len(toProgram) + Len(left)
      /\ Reads(Sent, Arrived)
  <2>1. text \o toProgram = toProgram
    BY <1>3, <1>4, ConcatEmptySeq
  <2>2. Reads(Sent, Arrived)
    BY <1>4, ReadsPrefix DEF Sent
  <2>. QED  BY <1>4, <2>1, <2>2, Joined DEF Sent
<1>6. Len(toProgram) \in Nat /\ Len(left) \in Nat /\ Len(toProgram) # 0 /\ MaxBuffer \in Nat
  BY <1>2, <1>4, EmptySeq, SizesAssumption
<1>7. Sent # <<>>
  BY <1>5, <1>6
<1>8. OfBatch(Sent, Len(text))
  BY <1>7 DEF InStep, ReadingBatch, Coming, Answered, Nothing, Ahead, AllFit
<1>. DEFINE b == workload[batch]
            q == QueryLines(b)
<1>9. hpc = "batch" /\ Sent = BatchText(b)
  BY <1>8 DEF OfBatch
<1>10. Batch(b) /\ batch \in DOMAIN workload
  <2>1. batch \in 1..Len(workload) /\ workload \in Seq(Seq(QueryWords))
    BY <1>4, <1>9, WorkloadFacts
  <2>2. DOMAIN workload = 1..Len(workload)
    BY <2>1
  <2>. QED  BY <1>4, <2>1, <2>2, WorkloadFacts
<1>11. Len(BatchText(b)) <= MaxBuffer
  BY <1>10 DEF AllFit, Fits
<1>12. /\ StartsWith(Sent, q) /\ StopEnd(q) = Len(Sent) /\ Body(q)
       /\ Len(q) \in Nat /\ Len(Sent) = Len(q) + 2
  <2>. HIDE DEF b
  <2>1. Len(b) \in Nat /\ Len(QueryLines(b)) = 3 * Len(b) /\ Len(BatchText(b)) = 3 * Len(b) + 2
        /\ Body(QueryLines(b))
    BY <1>10, BatchFacts
  <2>2. StartsWith(BatchText(b), QueryLines(b)) /\ StopEnd(QueryLines(b)) = Len(BatchText(b))
    BY <1>2, <1>10, BatchSent
  <2>. QED  BY <1>9, <2>1, <2>2
<1>13. left = <<>> /\ Sent = toProgram
  <2>1. left = <<>> \/ left = Sent
    BY <1>3, <1>9
  <2>2. left # Sent
    BY <1>5, <1>6
  <2>3. left = <<>>
    BY <2>1, <2>2
  <2>. QED  BY <1>4, <1>5, <2>3, ConcatEmptySeq
<1>. HIDE DEF b, q
<1>14. Arrived = toProgram
  BY <1>4, <1>9, <1>11, <1>13, AllArrives
<1>15. Len(text) = 0 /\ Len(Arrived) = StopEnd(q) /\ Len(Arrived) <= MaxBuffer
  BY <1>3, <1>9, <1>11, <1>12, <1>13, <1>14
<1>16. ~Cut(Arrived)
  BY <1>3, WholeLines
<1>17. StopEnd(q) - Len(text) \in Stops(Arrived)
  <2>1. Len(text) < StopEnd(q) /\ StopEnd(q) <= Len(text) + Len(Arrived)
    BY <1>6, <1>12, <1>13, <1>14, <1>15
  <2>. QED  BY <1>5, <1>12, <1>16, <2>1, StopIsFound
<1>18. Stops(Arrived) # {}
  BY <1>17
<1>19. ReadsAll(q, Arrived, copy)
  <2>1. Len(text) < StopEnd(q)
    BY <1>6, <1>12, <1>13, <1>14, <1>15
  <2>2. ReadsOn(q, Arrived, copy) \/ ReadsAll(q, Arrived, copy)
    BY <1>4, <1>5, <1>12, <1>15, <1>16, <1>18, <2>1, ReadOutcome
  <2>. QED  BY <1>18, <2>2 DEF ReadsOn
<1>20. \A e \in Stops(Arrived) : ~(e < Len(Arrived))
  <2> SUFFICES ASSUME NEW e \in Stops(Arrived), e < Len(Arrived) PROVE FALSE
    OBVIOUS
  <2>1. e \in 1..Len(Arrived)
    BY <1>4, <1>14 DEF Stops, Eols
  <2>2. Len(text) + e < StopEnd(q)
    BY <1>6, <1>13, <1>14, <1>15, <2>1
  <2>3. Cut(Arrived)
    BY <1>5, <1>12, <2>2, EarlyStop
  <2>. QED  BY <1>16, <2>3
<1>21. ~(Len(text) + Len(copy) + 1 > NewLength(Arrived))
  <2>1. Len(copy) = Len(q)
    BY <1>12, <1>15, <1>19 DEF ReadsAll
  <2>2. NewLength(Arrived) \in Nat /\ MaxBuffer + 1 <= NewLength(Arrived)
    BY <1>3, <1>6 DEF NewLength
  <2>. QED  BY <1>6, <1>12, <1>15, <2>1, <2>2
<1>22. Happens(Arrived, copy) = {}
  <2>1. ~(Len(copy) > Len(Arrived))
    BY <1>12, <1>15, <1>19 DEF ReadsAll
  <2>. QED  BY <1>16, <1>18, <1>20, <1>21, <2>1 DEF Happens
<1>. QED  BY <1>1, <1>2, <1>18, <1>22 DEF ReadStep

(* A batch that fits is written in one piece.                              *)
LEMMA BatchSentWhole ==
  ASSUME Typed, Harness, AllFit,
         hpc = "batch" => left = <<>> \/ left = BatchText(workload[batch])
  PROVE  hpc' = "batch" => left' = <<>> \/ left' = BatchText(workload'[batch'])
<1>1. CASE SendNames \/ SendDone
  BY <1>1 DEF SendNames, SendDone
<1>2. CASE WakeUp
  <2>1. batch = 1
    BY <1>2 DEF WakeUp, Typed, Structure
  <2>. QED  BY <1>2, <2>1 DEF WakeUp, OpenBatch, BatchText, QueryLines, Line
<1>3. CASE Feed
  <2>1. hpc = "batch" /\ left # <<>> /\ UNCHANGED <<workload, batch>>
    BY <1>3 DEF Feed
  <2>2. CASE pc = "ended"
    BY <1>3, <2>2 DEF Feed
  <2>3. CASE pc # "ended"
    <3>1. PICK n \in 1..Len(left) : (Len(left) <= MaxBuffer => n = Len(left)) /\ Sends(n)
      BY <1>3, <2>3 DEF Feed
    <3>2. left = BatchText(workload[batch])
      BY <2>1
    <3>3. batch \in DOMAIN workload /\ left \in Seq(Units)
      <4>1. workload \in Workloads /\ batch \in 1..Len(workload) + 1 /\ batch <= Len(workload)
            /\ left \in Seq(Units)
        BY <2>1 DEF Typed, TypeOK, Structure
      <4>2. workload \in Seq(Seq(QueryWords))
        BY <4>1, WorkloadFacts
      <4>3. DOMAIN workload = 1..Len(workload) /\ Len(workload) \in Nat
        BY <4>2
      <4>. QED  BY <4>1, <4>3
    <3>4. n = Len(left)
      BY <3>1, <3>2, <3>3 DEF AllFit, Fits
    <3>5. left' = SubSeq(left, n + 1, Len(left))
      BY <3>1 DEF Sends
    <3>6. left' = <<>>
      BY <3>3, <3>4, <3>5
    <3>. QED  BY <3>6
  <2>. QED  BY <2>2, <2>3
<1>4. CASE Collect
  BY <1>4 DEF Collect, BatchText, QueryLines, Line
<1>5. CASE NextBatch
  BY <1>5 DEF NextBatch, OpenBatch, BatchText, QueryLines, Line
<1>. QED  BY <1>1, <1>2, <1>3, <1>4, <1>5 DEF Harness

(* The text that ends the program is that of no batch.                     *)
LEMMA NeverEmpty ==
  ASSUME Typed, InStep, pc = "count", NoEmptyBatch, text = <<>>
  PROVE  hpc = "end"
<1>1. SUFFICES ASSUME hpc = "batch", QueryLines(workload[batch]) = <<>> PROVE FALSE
  BY DEF InStep, Counting
<1>2. workload \in Workloads /\ batch \in 1..Len(workload)
  BY <1>1 DEF Typed, TypeOK, Structure
<1>3. batch \in DOMAIN workload /\ Batch(workload[batch])
  <2>1. workload \in Seq(Seq(QueryWords))
    BY <1>2, WorkloadFacts
  <2>2. DOMAIN workload = 1..Len(workload)
    BY <2>1
  <2>. QED  BY <1>2, <2>2, WorkloadFacts
<1>4. Len(QueryLines(workload[batch])) = 3 * Len(workload[batch]) /\ Len(workload[batch]) \in Nat
  BY <1>3, BatchFacts
<1>5. workload[batch] # <<>> /\ workload[batch] \in Seq(QueryWords)
  BY <1>3 DEF NoEmptyBatch, Batch
<1>6. Len(workload[batch]) # 0
  BY <1>5, EmptySeq
<1>. QED  BY <1>1, <1>4, <1>6

LEMMA BatchInvInit == Init => BatchInv
BY DEF Init, BatchInv, BatchMishaps

LEMMA BatchInvNext == IInv /\ BatchInv /\ [Next]_vars => BatchInv'
<1> SUFFICES ASSUME IInv, BatchInv, [Next]_vars, AllFit',
                    mishaps' \cap (Kinds \X {"files"}) = {}
             PROVE  /\ mishaps' \cap (Kinds \X {"batch"}) = {}
                    /\ hpc' = "batch" => left' = <<>> \/ left' = BatchText(workload'[batch'])
                    /\ pc' = "batch" => text' = <<>> /\ lenInput' = MaxBuffer + 1
  BY DEF BatchInv, FilesMishaps, BatchMishaps, BatchText, QueryLines, Line
<1>1. AllFit /\ FilesMishaps = {}
  BY NamesStay, MishapsStay DEF FilesMishaps
<1>2. /\ mishaps \cap (Kinds \X {"batch"}) = {}
      /\ hpc = "batch" => left = <<>> \/ left = BatchText(workload[batch])
      /\ pc = "batch" => text = <<>> /\ lenInput = MaxBuffer + 1
  BY <1>1 DEF BatchInv, BatchMishaps
<1>3. Typed /\ InStep
  <2>1. Typed
    BY DEF IInv
  <2>2. mishaps \subseteq Kinds \X Phases
        /\ mishaps \cap (Kinds \X {"answer"}) \subseteq {<<"overrun", "answer">>}
    BY <2>1 DEF Typed, TypeOK, Structure
  <2>3. mishaps \cap (Kinds \X {"files"}) = {} /\ mishaps \cap (Kinds \X {"batch"}) = {}
    BY <1>1, <1>2 DEF FilesMishaps
  <2>4. ASSUME NEW m \in mishaps PROVE m = <<"overrun", "answer">>
    <3>1. PICK k \in Kinds, p \in Phases : m = <<k, p>>
      BY <2>2, <2>4
    <3>2. p # "files" /\ p # "batch"
      BY <2>3, <2>4, <3>1
    <3>3. p = "answer"
      BY <3>2 DEF Phases
    <3>. QED  BY <2>2, <2>4, <3>1, <3>3
  <2>5. Clean
    BY <2>4 DEF Clean, Phases
  <2>. QED  BY <2>1, <2>5 DEF IInv
<1>4. CASE Read /\ pc = "batch"
  <2>1. pc' = "count" /\ mishaps' = mishaps
    BY <1>1, <1>3, <1>4, ReadOfBatch
  <2>2. UNCHANGED <<hpc, left, workload, batch>>
    BY <1>4 DEF Read, harnessVars
  <2>. QED  BY <1>2, <2>1, <2>2 DEF BatchText, QueryLines, Line
<1>5. CASE Read /\ pc = "files"
  <2>1. PICK copy : ReadStep(Arrived, copy)
    BY <1>5 DEF Read, ReadStep
  <2>2. mishaps' = mishaps \cup (Happens(Arrived, copy) \X {"files"}) /\ pc' \in {"files", "construct"}
    BY <1>5, <2>1 DEF ReadStep, Return
  <2>3. UNCHANGED <<hpc, left, workload, batch>>
    BY <1>5 DEF Read, harnessVars
  <2>. QED  BY <1>2, <2>2, <2>3 DEF BatchText, QueryLines, Line
<1>6. CASE ReadEnd \/ ConstructInput \/ NotAQuery \/ NextRead
  <2>1. UNCHANGED <<hpc, left, workload, batch, mishaps>>
    BY <1>6 DEF ReadEnd, ConstructInput, NotAQuery, NextRead, harnessVars
  <2>2. pc' = "batch" => text' = <<>> /\ lenInput' = MaxBuffer + 1
    BY <1>6 DEF ReadEnd, ConstructInput, NotAQuery, NextRead, CallRead, Return
  <2>. QED  BY <1>2, <2>1, <2>2 DEF BatchText, QueryLines, Line
<1>7. CASE EndOrCount
  <2>1. UNCHANGED <<hpc, left, workload, batch>> /\ pc = "count" /\ pc' # "batch"
    BY <1>7 DEF EndOrCount, harnessVars
  <2>2. text = <<>> => hpc = "end"
    BY <1>1, <1>3, <2>1, NeverEmpty DEF AllFit
  <2>3. mishaps' = mishaps
    BY <1>7, <2>2 DEF EndOrCount
  <2>. QED  BY <1>2, <2>1, <2>3 DEF BatchText, QueryLines, Line
<1>8. CASE WritePipe
  <2>1. UNCHANGED <<hpc, left, workload, batch>> /\ pc' # "batch"
    BY <1>8 DEF WritePipe, harnessVars
  <2>2. mishaps' = mishaps \/ mishaps' = mishaps \cup {<<"overrun", "answer">>}
    BY <1>8 DEF WritePipe
  <2>3. mishaps' \cap (Kinds \X {"batch"}) = {}
    BY <1>2, <2>2
  <2>. QED  BY <1>2, <2>1, <2>3 DEF BatchText, QueryLines, Line
<1>9. CASE Harness
  <2>1. UNCHANGED <<pc, text, lenInput, mishaps>>
    BY <1>9 DEF Harness, SendNames, SendDone, WakeUp, Feed, Collect, NextBatch, programVars
  <2>2. hpc' = "batch" => left' = <<>> \/ left' = BatchText(workload'[batch'])
    BY <1>1, <1>2, <1>3, <1>9, BatchSentWhole
  <2>. QED  BY <1>2, <2>1, <2>2
<1>10. CASE UNCHANGED vars
  <2>1. UNCHANGED <<hpc, left, workload, batch, mishaps, pc, text, lenInput>>
    BY <1>10 DEF vars, harnessVars, programVars
  <2>. QED  BY <1>2, <2>1 DEF BatchText, QueryLines, Line
<1>11. Read => pc \in {"files", "batch"}
  BY DEF Read
<1>. QED  BY <1>4, <1>5, <1>6, <1>7, <1>8, <1>9, <1>10, <1>11 DEF Next, Program

(* Nothing goes wrong with batches that fit in the buffer when nothing has *)
(* gone wrong with the names; and with names that fit, nothing but the     *)
(* loss of what came with Done, unless a read takes what is left in the    *)
(* array behind them.                                                      *)
THEOREM FittingTexts == Spec => []FittingIsSafe
<1>1. Init => NamesInv /\ BatchInv
  BY NamesInvInit, BatchInvInit
<1>2. IInv /\ NamesInv /\ [Next]_vars => NamesInv'
  BY NamesInvNext
<1>3. IInv /\ BatchInv /\ [Next]_vars => BatchInv'
  BY BatchInvNext
<1>4. NamesInv /\ BatchInv => FittingIsSafe
  BY DEF NamesInv, BatchInv, FittingIsSafe, NamesFit, AllFit, FilesMishaps, BatchMishaps
<1>. QED  BY <1>1, <1>2, <1>3, <1>4, AlwaysInStep, PTL DEF Spec
=============================================================================
