------------------------ MODULE ProtocStream_proofs ------------------------
(***************************************************************************)
(* Proofs about ProtocStream: whatever failed writes have left in the      *)
(* stream and wherever it is cut or damaged, Read returns the records that *)
(* were written, and a stream that arrives whole is read without an error. *)
(***************************************************************************)
EXTENDS ProtocStream, WellFoundedInduction, TLAPS

-----------------------------------------------------------------------------
(* Sequences of tokens.  Tokens nest (a checksum holds the tokens it was    *)
(* computed from), so a sequence is one over some set.                      *)
IsSequence(s) == \E S : s \in Seq(S)

LEMMA SequenceFacts ==
  ASSUME NEW s, IsSequence(s)
  PROVE  Len(s) \in Nat /\ DOMAIN s = 1 .. Len(s)
  BY DEF IsSequence

LEMMA ConcatFacts ==
  ASSUME NEW s, IsSequence(s), NEW t, IsSequence(t)
  PROVE  /\ Len(s) \in Nat /\ Len(t) \in Nat
         /\ IsSequence(s \o t) /\ Len(s \o t) = Len(s) + Len(t)
         /\ \A i \in 1 .. Len(s) : (s \o t)[i] = s[i]
         /\ \A i \in 1 .. Len(t) : (s \o t)[Len(s) + i] = t[i]
  <1>1. PICK S, T : s \in Seq(S) /\ t \in Seq(T)
    BY DEF IsSequence
  <1>2. s \in Seq(S \cup T) /\ t \in Seq(S \cup T)
    BY <1>1
  <1>3. s \o t \in Seq(S \cup T)
    BY <1>2
  <1>4. IsSequence(s \o t)
    BY <1>3 DEF IsSequence
  <1> QED
    BY <1>2, <1>4

\* A sequence with one, two or four more elements.
LEMMA OneMore ==
  ASSUME NEW s, IsSequence(s), NEW x, NEW u, u = s \o <<x>> \/ u = Append(s, x)
  PROVE  /\ Len(s) \in Nat /\ IsSequence(u) /\ Len(u) = Len(s) + 1
         /\ \A i \in 1 .. Len(s) : u[i] = s[i]
         /\ u[Len(s) + 1] = x
  <1>1. PICK S : s \in Seq(S)
    BY DEF IsSequence
  <1>2. s \in Seq(S \cup {x})
    BY <1>1
  <1>3. u = s \o <<x>>
    BY <1>2
  <1>4. u \in Seq(S \cup {x})
    BY <1>2, <1>3
  <1>5. IsSequence(u)
    BY <1>4 DEF IsSequence
  <1> QED
    BY <1>2, <1>3, <1>5

LEMMA TwoMore ==
  ASSUME NEW s, IsSequence(s), NEW x, NEW y, NEW u, u = s \o <<x, y>>
  PROVE  /\ Len(s) \in Nat /\ IsSequence(u) /\ Len(u) = Len(s) + 2
         /\ \A i \in 1 .. Len(s) : u[i] = s[i]
         /\ u[Len(s) + 1] = x /\ u[Len(s) + 2] = y
  <1>1. PICK S : s \in Seq(S)
    BY DEF IsSequence
  <1>2. s \in Seq(S \cup {x, y})
    BY <1>1
  <1>4. u \in Seq(S \cup {x, y})
    BY <1>2
  <1>5. IsSequence(u)
    BY <1>4 DEF IsSequence
  <1> QED
    BY <1>2, <1>5

LEMMA FourMore ==
  ASSUME NEW s, IsSequence(s), NEW x, NEW y, NEW z, NEW w, NEW u, u = s \o <<x, y, z, w>>
  PROVE  /\ Len(s) \in Nat /\ IsSequence(u) /\ Len(u) = Len(s) + 4
         /\ \A i \in 1 .. Len(s) : u[i] = s[i]
         /\ u[Len(s) + 1] = x /\ u[Len(s) + 2] = y /\ u[Len(s) + 3] = z /\ u[Len(s) + 4] = w
  <1>1. PICK S : s \in Seq(S)
    BY DEF IsSequence
  <1>2. s \in Seq(S \cup {x, y, z, w})
    BY <1>1
  <1>4. u \in Seq(S \cup {x, y, z, w})
    BY <1>2
  <1>5. IsSequence(u)
    BY <1>4 DEF IsSequence
  <1>6. Len(s) \in Nat /\ Len(u) = Len(s) + 4
    BY <1>2
  <1>7. \A i \in 1 .. Len(s) : u[i] = s[i]
    BY <1>2
  <1>8. u[Len(s) + 1] = x /\ u[Len(s) + 2] = y
    BY <1>2
  <1>9. u[Len(s) + 3] = z /\ u[Len(s) + 4] = w
    BY <1>2
  <1> QED
    BY <1>5, <1>6, <1>7, <1>8, <1>9

LEMMA EmptySequence == IsSequence(<<>>) /\ Len(<<>>) = 0
  <1>1. <<>> \in Seq({})
    OBVIOUS
  <1> QED
    BY <1>1 DEF IsSequence

LEMMA SameSequence ==
  ASSUME NEW s, IsSequence(s), NEW t, IsSequence(t), Len(s) = Len(t),
         \A i \in 1 .. Len(s) : s[i] = t[i]
  PROVE  s = t
  <1>1. PICK S, T : s \in Seq(S) /\ t \in Seq(T)
    BY DEF IsSequence
  <1>2. s \in [1 .. Len(s) -> S] /\ t \in [1 .. Len(t) -> T]
    BY <1>1
  <1>3. s = [i \in 1 .. Len(s) |-> s[i]] /\ t = [i \in 1 .. Len(s) |-> t[i]]
    BY <1>2
  <1> QED
    BY <1>3

\* A sequence of pairs.
Even(n) == n % 2 = 0

LEMMA EvenFacts ==
  /\ Even(0)
  /\ \A n \in Nat : Even(n + 2) <=> Even(n)
  /\ \A n \in Nat : Even(n + 1) <=> ~Even(n)
  /\ \A m, n \in Nat : Even(m) => (Even(m + n) <=> Even(n))
  BY DEF Even

-----------------------------------------------------------------------------
(* What is written of a record.                                             *)

\* Every non-empty set of natural numbers has a least element.
LEMMA LeastElement ==
  ASSUME NEW T, T \subseteq Nat, T # {}
  PROVE  \E x \in T : \A y \in T : x <= y
  <1>1. PICK R : IsWellFoundedOn(R, Nat) /\ R = OpToRel(<, Nat)
    BY NatLessThanWellFounded
  <1>2. \A m, n \in Nat : m < n => <<m, n>> \in R
    BY <1>1, Zenon DEF OpToRel
  <1>3. PICK x \in T : \A y \in T : ~ (<<y, x>> \in R)
    BY <1>1, WFMin
  <1>4. \A y \in T : ~ (y < x)
    BY <1>2, <1>3, Zenon
  <1>5. \A y \in T : x <= y
    BY <1>4, SMT
  <1> QED
    BY <1>5

\* What is written before a column, as a function of the column.
Before(r) == CHOOSE f : f = [c \in 0 .. NumColumns |-> IF c = 0 THEN <<>> ELSE f[c - 1] \o Field(r, c)]

LEMMA FieldsUnfold ==
  ASSUME NEW r, NEW n
  PROVE  FieldsBefore(r, n) = Before(r)[n - 1]
  BY DEF FieldsBefore, Before

\* The recursion of FieldsBefore has a solution.
LEMMA BeforeDef ==
  ASSUME NEW r
  PROVE  Before(r) = [c \in 0 .. NumColumns |-> IF c = 0 THEN <<>> ELSE Before(r)[c - 1] \o Field(r, c)]
  <1> DEFINE Solves(f, m) == f = [c \in 0 .. m |-> IF c = 0 THEN <<>> ELSE f[c - 1] \o Field(r, c)]
             T == {m \in Nat : ~ \E f : Solves(f, m)}
  <1>1. T = {}
    <2> SUFFICES ASSUME T # {} PROVE FALSE
      OBVIOUS
    <2>0. T \subseteq Nat /\ \A m \in Nat : m \notin T => \E f : Solves(f, m)
      OBVIOUS
    <2>1. PICK m \in T : m \in Nat /\ \A k \in T : m <= k
      BY <2>0, LeastElement
    <2>4. ~ \E f : Solves(f, m)
      OBVIOUS
    <2> HIDE DEF T
    <2>2. CASE m = 0
      <3> DEFINE f == [c \in 0 .. 0 |-> <<>>]
      <3>1. Solves(f, 0)
        OBVIOUS
      <3> QED
        BY <2>2, <2>4, <3>1
    <2>3. CASE m # 0
      <3>1. m - 1 \in Nat /\ m \in Nat /\ ~(m <= m - 1)
        BY <2>1, <2>3
      <3>2. m - 1 \notin T
        BY <2>1, <3>1
      <3>3. PICK f : Solves(f, m - 1)
        BY <2>0, <3>1, <3>2
      <3> DEFINE g == [c \in 0 .. m |-> IF c = m THEN f[m - 1] \o Field(r, m) ELSE f[c]]
      <3>4. \A c \in 0 .. m - 1 : f[c] = IF c = 0 THEN <<>> ELSE f[c - 1] \o Field(r, c)
        BY <3>3
      <3>5. \A c \in 0 .. m - 1 : g[c] = f[c]
        BY <3>1
      <3>6. g[m] = f[m - 1] \o Field(r, m)
        BY <3>1
      <3>7. \A c \in 0 .. m : g[c] = IF c = 0 THEN <<>> ELSE g[c - 1] \o Field(r, c)
        <4> TAKE c \in 0 .. m
        <4>1. CASE c = m
          <5>1. m - 1 \in 0 .. m - 1 /\ m # 0
            BY <2>3, <3>1
          <5>2. g[m - 1] = f[m - 1]
            BY <3>5, <5>1
          <5> HIDE DEF g
          <5> QED
            BY <3>6, <4>1, <5>1, <5>2
        <4>2. CASE c # m
          <5>1. c \in 0 .. m - 1 /\ (c # 0 => c - 1 \in 0 .. m - 1)
            BY <3>1, <4>2
          <5> HIDE DEF g
          <5> QED
            BY <3>4, <3>5, <5>1
        <4> QED
          BY <4>1, <4>2
      <3>8. g = [c \in 0 .. m |-> g[c]]
        OBVIOUS
      <3> HIDE DEF g
      <3>9. Solves(g, m)
        BY <3>7, <3>8
      <3> QED
        BY <2>4, <3>9
    <2> QED
      BY <2>2, <2>3
  <1>2. \E f : Solves(f, NumColumns)
    BY <1>1, ProtocAssumption
  <1> QED
    BY <1>2 DEF Before

\* Fields come in pairs of a column's tag and the record's value, one for each column
\* that is not null.
PairsOf(r, n, F) ==
  /\ IsSequence(F) /\ Even(Len(F))
  /\ \A i \in 1 .. Len(F) : ~Even(i) =>
       /\ i + 1 <= Len(F)
       /\ \E c \in 1 .. n : r[c] # Null /\ F[i] = Tag(c) /\ F[i + 1] = Val(r[c])
  /\ \A c \in 1 .. n : r[c] # Null => \E i \in 1 .. Len(F) : ~Even(i) /\ F[i] = Tag(c)

LEMMA PairsStep ==
  ASSUME NEW r, NEW m \in Nat, NEW F, PairsOf(r, m, F)
  PROVE  PairsOf(r, m + 1, F \o Field(r, m + 1))
  <1> DEFINE c == m + 1
  <1>0. IsSequence(F) /\ Len(F) \in Nat
    BY SequenceFacts DEF PairsOf
  <1>1. CASE r[c] = Null
    <2>1. F \o Field(r, c) = F
      BY <1>1, <1>0 DEF Field, IsSequence
    <2> DEFINE Q == F \o Field(r, c)
    <2>2. Q = F
      BY <2>1
    <2> HIDE DEF Q
    <2>3. \A d \in 1 .. m : d \in 1 .. c
      OBVIOUS
    <2>4. ASSUME NEW d \in 1 .. c, r[d] # Null PROVE d \in 1 .. m
      BY <1>1, <2>4
    <2> HIDE DEF c
    <2>5. PairsOf(r, c, F)
      BY <2>3, <2>4 DEF PairsOf
    <2> QED
      BY <2>2, <2>5 DEF Q, c
  <1>2. CASE r[c] # Null
    <2>0. PICK G : G = F \o <<Tag(c), Val(r[c])>>
      OBVIOUS
    <2>1. F \o Field(r, c) = G
      BY <1>2, <2>0 DEF Field
    <2>3. /\ IsSequence(G) /\ Len(G) = Len(F) + 2
          /\ \A i \in 1 .. Len(F) : G[i] = F[i]
      <3>1. IsSequence(G)
        BY <1>0, <2>0, TwoMore
      <3>2. Len(G) = Len(F) + 2
        BY <1>0, <2>0, TwoMore
      <3>3. \A i \in 1 .. Len(F) : G[i] = F[i]
        BY <1>0, <2>0, TwoMore
      <3> QED
        BY <3>1, <3>2, <3>3
    <2>4. G[Len(F) + 1] = Tag(c) /\ G[Len(F) + 2] = Val(r[c])
      BY <1>0, <2>0, TwoMore
    <2>5. Even(Len(F)) /\ Even(Len(G)) /\ ~Even(Len(F) + 1)
      BY <1>0, <2>3, EvenFacts DEF PairsOf
    <2>6. ASSUME NEW i \in 1 .. Len(G), ~Even(i)
          PROVE  /\ i + 1 <= Len(G)
                 /\ \E d \in 1 .. c : r[d] # Null /\ G[i] = Tag(d) /\ G[i + 1] = Val(r[d])
      <3>1. CASE i <= Len(F)
        <4>1. i \in 1 .. Len(F)
          BY <1>0, <3>1
        <4>2. i + 1 <= Len(F) /\ \E d \in 1 .. m : r[d] # Null /\ F[i] = Tag(d) /\ F[i + 1] = Val(r[d])
          BY <2>6, <4>1 DEF PairsOf
        <4>3. i + 1 \in 1 .. Len(F)
          BY <1>0, <4>1, <4>2
        <4>4. G[i] = F[i] /\ G[i + 1] = F[i + 1]
          BY <2>3, <4>1, <4>3
        <4>5. \A d \in 1 .. m : d \in 1 .. c
          OBVIOUS
        <4> QED
          BY <1>0, <2>3, <4>2, <4>4, <4>5
      <3>2. CASE i > Len(F)
        <4>1. i = Len(F) + 1
          <5>1. i = Len(F) + 1 \/ i = Len(F) + 2
            BY <1>0, <2>3, <3>2
          <5>2. Even(Len(F) + 2)
            BY <2>3, <2>5
          <5> QED
            BY <2>6, <5>1, <5>2
        <4>2. c \in 1 .. c /\ i + 1 = Len(F) + 2
          BY <1>0, <4>1
        <4> QED
          BY <1>0, <1>2, <2>3, <2>4, <4>1, <4>2
      <3> QED
        BY <1>0, <3>1, <3>2
    <2>7. ASSUME NEW d \in 1 .. c, r[d] # Null
          PROVE  \E i \in 1 .. Len(G) : ~Even(i) /\ G[i] = Tag(d)
      <3>1. CASE d = c
        BY <1>0, <2>3, <2>4, <2>5, <3>1
      <3>2. CASE d # c
        <4>1. d \in 1 .. m
          BY <3>2
        <4>2. PICK i \in 1 .. Len(F) : ~Even(i) /\ F[i] = Tag(d)
          BY <2>7, <4>1 DEF PairsOf
        <4>3. i \in 1 .. Len(G) /\ G[i] = Tag(d)
          BY <1>0, <2>3, <4>2
        <4> QED
          BY <4>2, <4>3
      <3> QED
        BY <3>1, <3>2
    <2>8. PairsOf(r, c, G)
      BY <2>3, <2>5, <2>6, <2>7 DEF PairsOf
    <2> QED
      BY <2>1, <2>8
  <1> QED
    BY <1>1, <1>2

LEMMA FieldsArePairs ==
  ASSUME NEW r, NEW n \in 1 .. NumColumns + 1
  PROVE  PairsOf(r, n - 1, FieldsBefore(r, n))
  <1> DEFINE T == {m \in 0 .. NumColumns : ~ PairsOf(r, m, Before(r)[m])}
  <1>1. T = {}
    <2> SUFFICES ASSUME T # {} PROVE FALSE
      OBVIOUS
    <2>1. T \subseteq Nat
      BY ProtocAssumption
    <2>2. PICK m \in T : \A k \in T : m <= k
      BY <2>1, LeastElement
    <2>3. m \in 0 .. NumColumns /\ ~ PairsOf(r, m, Before(r)[m])
      OBVIOUS
    <2>4. Before(r)[m] = IF m = 0 THEN <<>> ELSE Before(r)[m - 1] \o Field(r, m)
      <3>1. \A c \in 0 .. NumColumns :
              [d \in 0 .. NumColumns |-> IF d = 0 THEN <<>> ELSE Before(r)[d - 1] \o Field(r, d)][c]
              = IF c = 0 THEN <<>> ELSE Before(r)[c - 1] \o Field(r, c)
        OBVIOUS
      <3> QED
        BY <2>3, <3>1, BeforeDef, Zenon
    <2>5. CASE m = 0
      <3>1. PairsOf(r, 0, <<>>)
        <4>1. IsSequence(<<>>) /\ Len(<<>>) = 0 /\ Even(0)
          BY EmptySequence, EvenFacts
        <4> QED
          BY <4>1 DEF PairsOf
      <3> QED
        BY <2>3, <2>4, <2>5, <3>1
    <2>6. CASE m # 0
      <3>1. m - 1 \in 0 .. NumColumns /\ m - 1 \in Nat /\ m - 1 + 1 = m /\ m - 1 < m
        BY <2>3, <2>6, ProtocAssumption
      <3>2. PairsOf(r, m - 1, Before(r)[m - 1])
        BY <2>2, <3>1
      <3>3. PairsOf(r, m - 1 + 1, Before(r)[m - 1] \o Field(r, m - 1 + 1))
        BY <3>1, <3>2, PairsStep
      <3> QED
        BY <2>3, <2>4, <2>6, <3>1, <3>3
    <2> QED
      BY <2>5, <2>6
  <1>2. n - 1 \in 0 .. NumColumns
    BY ProtocAssumption
  <1> QED
    BY <1>1, <1>2, FieldsUnfold

\* What the fields of a record are made of.
LEMMA FieldTokens ==
  ASSUME NEW r, NEW n \in 1 .. NumColumns + 1, NEW F, F = FieldsBefore(r, n)
  PROVE  /\ IsSequence(F) /\ Len(F) \in Nat /\ Even(Len(F))
         /\ \A i \in 1 .. Len(F) : F[i].t \in {"tag", "val"}
         /\ Len(F) = 0 \/ F[1].t = "tag"
  <1>1. PairsOf(r, n - 1, F)
    BY FieldsArePairs
  <1>2. IsSequence(F) /\ Even(Len(F))
    BY <1>1 DEF PairsOf
  <1>3. Len(F) \in Nat
    BY <1>2, SequenceFacts
  <1>4. ASSUME NEW i \in 1 .. Len(F), ~Even(i)
        PROVE  i + 1 <= Len(F) /\ F[i].t = "tag" /\ F[i + 1].t = "val"
    <2>1. /\ i + 1 <= Len(F)
          /\ \E c \in 1 .. n - 1 : r[c] # Null /\ F[i] = Tag(c) /\ F[i + 1] = Val(r[c])
      BY <1>1, <1>4 DEF PairsOf
    <2> QED
      BY <2>1 DEF Tag, Val
  <1>5. ASSUME NEW i \in 1 .. Len(F) PROVE F[i].t \in {"tag", "val"}
    <2>1. CASE ~Even(i)
      BY <1>4, <2>1
    <2>2. CASE Even(i)
      <3>1. i - 1 \in 1 .. Len(F) /\ ~Even(i - 1) /\ i - 1 + 1 = i
        BY <1>3, <2>2 DEF Even
      <3>2. F[i - 1 + 1].t = "val"
        BY <1>4, <3>1
      <3> QED
        BY <3>1, <3>2
    <2> QED
      BY <2>1, <2>2
  <1>6. Len(F) = 0 \/ F[1].t = "tag"
    <2>1. ~Even(1)
      BY DEF Even
    <2> QED
      BY <1>3, <1>4, <2>1
  <1> QED
    BY <1>2, <1>3, <1>5, <1>6

-----------------------------------------------------------------------------
(* The updates of a checksum that a failed write has a part in: somewhere a *)
(* tag is where a value has to be.  Nothing that is written later mends it, *)
(* and no reader computes it.                                               *)
Broken(C) == \E i \in 1 .. Len(C) : ~Even(i) /\ (i = Len(C) \/ C[i + 1].t = "tag")

LEMMA BrokenStays ==
  ASSUME NEW C, IsSequence(C), Broken(C), NEW X, IsSequence(X), Len(X) = 0 \/ X[1].t = "tag"
  PROVE  Broken(C \o X)
  <1>1. PICK D : D = C \o X
    OBVIOUS
  <1>2. Len(C) \in Nat /\ Len(X) \in Nat
    BY SequenceFacts
  <1>3. Len(D) = Len(C) + Len(X)
    BY <1>1, ConcatFacts
  <1>4. \A i \in 1 .. Len(C) : D[i] = C[i]
    BY <1>1, ConcatFacts
  <1>5. \A i \in 1 .. Len(X) : D[Len(C) + i] = X[i]
    BY <1>1, ConcatFacts
  <1>6. PICK i \in 1 .. Len(C) : ~Even(i) /\ (i = Len(C) \/ C[i + 1].t = "tag")
    BY DEF Broken
  <1>7. i \in 1 .. Len(D)
    BY <1>2, <1>3
  <1>8. i = Len(D) \/ D[i + 1].t = "tag"
    <2>1. CASE i = Len(C) /\ Len(X) = 0
      BY <1>2, <1>3, <2>1
    <2>2. CASE i = Len(C) /\ Len(X) # 0
      BY <1>2, <1>5, <2>2
    <2>3. CASE i # Len(C)
      <3>1. i + 1 \in 1 .. Len(C)
        BY <1>2, <2>3
      <3> QED
        BY <1>4, <1>6, <2>3, <3>1
    <2> QED
      BY <2>1, <2>2, <2>3
  <1>9. Broken(D)
    BY <1>6, <1>7, <1>8 DEF Broken
  <1> QED
    BY <1>1, <1>9

\* A write that fails leaves a broken checksum behind it.
LEMMA FailureBreaks ==
  ASSUME NEW C, IsSequence(C), C = <<>> \/ Broken(C), NEW r, NEW c \in Columns
  PROVE  Broken(C \o FieldsBefore(r, c) \o <<Tag(c)>>)
  <1>1. PICK F : F = FieldsBefore(r, c)
    OBVIOUS
  <1>2. c \in 1 .. NumColumns + 1
    BY ProtocAssumption DEF Columns
  <1>3. IsSequence(F) /\ Len(F) \in Nat /\ Even(Len(F)) /\ (Len(F) = 0 \/ F[1].t = "tag")
    BY <1>1, <1>2, FieldTokens
  <1>4. PICK X : X = <<Tag(c)>>
    OBVIOUS
  <1>5. PICK D : D = C \o F
    OBVIOUS
  <1>6. IsSequence(D)
    BY <1>3, <1>5, ConcatFacts
  <1>7. CASE C = <<>>
    <2>1. D = F
      BY <1>3, <1>5, <1>7 DEF IsSequence
    <2>2. PICK E : E = D \o X
      OBVIOUS
    <2>3. Len(E) = Len(D) + 1
      BY <1>4, <1>6, <2>2, OneMore
    <2>4. ~Even(Len(E)) /\ Len(E) \in 1 .. Len(E)
      BY <1>3, <2>1, <2>3, EvenFacts
    <2>5. Broken(E)
      BY <2>4 DEF Broken
    <2> QED
      BY <1>1, <1>4, <1>5, <2>2, <2>5
  <1>8. CASE Broken(C)
    <2>1. Broken(D)
      BY <1>3, <1>5, <1>8, BrokenStays
    <2>2. X \in Seq({Tag(c)}) /\ X[1].t = "tag"
      BY <1>4 DEF Tag
    <2>3. IsSequence(X)
      BY <2>2 DEF IsSequence
    <2>4. Broken(D \o X)
      BY <1>6, <2>1, <2>2, <2>3, BrokenStays
    <2> QED
      BY <1>1, <1>4, <1>5, <2>4
  <1> QED
    BY <1>7, <1>8

-----------------------------------------------------------------------------
(* The writer.                                                              *)

\* The stream without its footer.
Body == IF phase = "write" THEN Len(wire) ELSE Len(wire) - 4

WriterType ==
  /\ phase \in {"write", "closed", "read"} /\ poisoned \in BOOLEAN
  /\ written \in Seq(Records)
  /\ IsSequence(wire) /\ IsSequence(wCrc)
  /\ IsSequence(wCrcs) /\ Len(wCrcs) = Len(written)
  /\ \A i \in 1 .. Len(wire) : wire[i].t \in {"tag", "val", "num", "crc"}
  /\ Body \in Nat

\* Record j is alone between the end of the record before it and its own.
Clean(e, j) ==
  LET F == Fields(written[j])
  IN  /\ e[j] = e[j - 1] + Len(F) + 2
      /\ wCrcs[j] = Crc(F)
      /\ wire[e[j] - 1] = Tag(EndRecord)
      /\ \A i \in 1 .. Len(F) : wire[e[j - 1] + i] = F[i]

\* The stream has checksums where the records end and nowhere else, and a record is clean
\* or its checksum is broken.
Layout(e) ==
  /\ e \in [0 .. Len(written) -> 0 .. Body] /\ e[0] = 0
  /\ \A i, j \in 0 .. Len(written) : i < j => e[i] < e[j]
  /\ \A j \in 1 .. Len(written) :
       /\ wire[e[j]] = wCrcs[j]
       /\ \/ Clean(e, j)
          \/ poisoned /\ \E C : wCrcs[j] = Crc(C) /\ Broken(C)
  /\ \A q \in 1 .. Body : wire[q].t = "crc" => \E j \in 1 .. Len(written) : q = e[j]
  /\ \/ wCrc = <<>> /\ e[Len(written)] = Body
     \/ poisoned /\ Broken(wCrc)

Footer ==
  phase # "write" =>
    LET n == Len(wire)
    IN  /\ wire[n - 3] = Tag(MetaCount) /\ wire[n - 2] = Num(Len(written))
        /\ wire[n - 1] = Tag(MetaChecksum) /\ wire[n] = Crc(wCrcs)

\* What Write does to the stream.
LEMMA WriteStep ==
  ASSUME WriterType, NEW e, Layout(e), NEW r \in Records, Write(r)
  PROVE  WriterType' /\ \E f : Layout(f)'
  <1>0. PICK N, W : N = Len(written) /\ W = Len(wire)
    OBVIOUS
  <1>1. PICK F : F = Fields(r)
    OBVIOUS
  <1>2. /\ IsSequence(F) /\ Len(F) \in Nat /\ (Len(F) = 0 \/ F[1].t = "tag")
        /\ \A i \in 1 .. Len(F) : F[i].t \in {"tag", "val"}
    <2>1. NumColumns + 1 \in 1 .. NumColumns + 1
      BY ProtocAssumption
    <2> QED
      BY <1>1, <2>1, FieldTokens DEF Fields
  <1>3. PICK C : C = wCrc \o F
    OBVIOUS
  <1>4. /\ phase = "write" /\ phase' = phase /\ poisoned' = poisoned
        /\ wire' = wire \o F \o <<Tag(EndRecord), Crc(C)>>
        /\ wCrc' = <<>> /\ wCrcs' = Append(wCrcs, Crc(C)) /\ written' = Append(written, r)
    BY <1>1, <1>3 DEF Write, CrcAfterRecord
  <1>5. /\ N \in Nat /\ N = Len(written) /\ W \in Nat /\ W = Len(wire) /\ Body = W
        /\ IsSequence(wire) /\ IsSequence(wCrc) /\ IsSequence(wCrcs)
    BY <1>0, <1>4, SequenceFacts DEF WriterType, Body
  <1>6. /\ written' \in Seq(Records) /\ Len(written') = N + 1
        /\ \A j \in 1 .. N : written'[j] = written[j]
        /\ written'[N + 1] = r
    BY <1>4, <1>5 DEF WriterType
  <1>7. IsSequence(wCrcs') /\ Len(wCrcs') = N + 1
    <2>1. IsSequence(wCrcs')
      BY <1>4, <1>5, OneMore
    <2>2. Len(wCrcs') = N + 1
      BY <1>4, <1>5, OneMore DEF WriterType
    <2> QED
      BY <2>1, <2>2
  <1>8. (\A j \in 1 .. N : wCrcs'[j] = wCrcs[j]) /\ wCrcs'[N + 1] = Crc(C)
    BY <1>4, <1>5, OneMore DEF WriterType
  <1>9. PICK B : B = wire \o F
    OBVIOUS
  <1>10. IsSequence(B) /\ Len(B) = W + Len(F)
    BY <1>2, <1>5, <1>9, ConcatFacts
  <1>11. (\A i \in 1 .. W : B[i] = wire[i]) /\ \A i \in 1 .. Len(F) : B[W + i] = F[i]
    BY <1>2, <1>5, <1>9, ConcatFacts
  <1>12. wire' = B \o <<Tag(EndRecord), Crc(C)>>
    BY <1>4, <1>9
  <1>13. IsSequence(wire') /\ Len(wire') = W + Len(F) + 2
    <2>1. IsSequence(wire')
      BY <1>10, <1>12, TwoMore
    <2>2. Len(wire') = Len(B) + 2
      BY <1>10, <1>12, TwoMore
    <2> QED
      BY <1>10, <2>1, <2>2
  <1>14. \A i \in 1 .. W + Len(F) : wire'[i] = B[i]
    BY <1>2, <1>5, <1>10, <1>12, TwoMore
  <1>15. wire'[W + Len(F) + 1] = Tag(EndRecord) /\ wire'[W + Len(F) + 2] = Crc(C)
    BY <1>2, <1>5, <1>10, <1>12, TwoMore
  <1>16. \A i \in 1 .. W : wire'[i] = wire[i]
    BY <1>2, <1>5, <1>11, <1>14
  <1>17. \A i \in 1 .. Len(F) : wire'[W + i] = F[i]
    BY <1>2, <1>5, <1>11, <1>14
  <1>18. \A i \in 1 .. Len(wire') :
           \/ i \in 1 .. W
           \/ \E k \in 1 .. Len(F) : i = W + k
           \/ i = W + Len(F) + 1
           \/ i = W + Len(F) + 2
    <2> TAKE i \in 1 .. Len(wire')
    <2>1. CASE i > W /\ i <= W + Len(F)
      <3>1. i - W \in 1 .. Len(F) /\ i = W + (i - W)
        BY <1>2, <1>5, <2>1
      <3> QED
        BY <3>1
    <2>2. CASE i <= W
      BY <1>5, <2>2
    <2>3. CASE i > W + Len(F)
      BY <1>2, <1>5, <1>13, <2>3
    <2> QED
      BY <1>2, <1>5, <2>1, <2>2, <2>3
  <1>19. Body' = W + Len(F) + 2
    BY <1>4, <1>13 DEF Body
  <1>20. WriterType'
    <2>1. ASSUME NEW i \in 1 .. Len(wire') PROVE wire'[i].t \in {"tag", "val", "num", "crc"}
      <3>1. CASE i \in 1 .. W
        BY <1>5, <1>16, <3>1 DEF WriterType
      <3>2. CASE \E k \in 1 .. Len(F) : i = W + k
        BY <1>2, <1>17, <3>2
      <3>3. CASE i = W + Len(F) + 1
        BY <1>15, <3>3 DEF Tag
      <3>4. CASE i = W + Len(F) + 2
        BY <1>15, <3>4 DEF Crc
      <3> QED
        BY <1>18, <3>1, <3>2, <3>3, <3>4
    <2>2. IsSequence(wCrc')
      BY <1>4, EmptySequence
    <2>3. Body' \in Nat
      BY <1>2, <1>5, <1>19
    <2> QED
      BY <1>4, <1>6, <1>7, <1>13, <2>1, <2>2, <2>3 DEF WriterType
  <1>30. PICK f : f = [j \in 0 .. N + 1 |-> IF j = N + 1 THEN W + Len(F) + 2 ELSE e[j]]
    OBVIOUS
  <1>21. \A j \in 0 .. N : e[j] \in Nat /\ e[j] <= W
    BY <1>5 DEF Layout
  <1>22. (\A j \in 0 .. N : f[j] = e[j]) /\ f[N + 1] = W + Len(F) + 2
    BY <1>5, <1>30
  <1>23. f \in [0 .. N + 1 -> 0 .. W + Len(F) + 2]
    <2>1. ASSUME NEW j \in 0 .. N + 1
          PROVE  (IF j = N + 1 THEN W + Len(F) + 2 ELSE e[j]) \in 0 .. W + Len(F) + 2
      <3>1. CASE j = N + 1
        BY <1>2, <1>5, <3>1
      <3>2. CASE j # N + 1
        <4>1. j \in 0 .. N
          BY <1>5, <3>2
        <4>2. PICK a : a = e[j]
          OBVIOUS
        <4>3. a \in Nat /\ a <= W
          BY <1>21, <4>1, <4>2
        <4> QED
          BY <1>2, <1>5, <3>2, <4>2, <4>3
      <3> QED
        BY <3>1, <3>2
    <2> QED
      BY <1>30, <2>1
  <1>24. f[0] = 0
    BY <1>5, <1>22 DEF Layout
  <1>25. ASSUME NEW i \in 0 .. N + 1, NEW j \in 0 .. N + 1, i < j PROVE f[i] < f[j]
    <2>1. CASE j = N + 1
      <3>1. i \in 0 .. N
        BY <1>5, <1>25, <2>1
      <3>2. f[i] = e[i] /\ e[i] \in Nat /\ e[i] <= W
        BY <1>21, <1>22, <3>1
      <3> QED
        BY <1>2, <1>5, <1>22, <2>1, <3>2
    <2>2. CASE j # N + 1
      <3>1. i \in 0 .. N /\ j \in 0 .. N
        BY <1>5, <1>25, <2>2
      <3> QED
        BY <1>5, <1>22, <1>25, <3>1 DEF Layout
    <2> QED
      BY <2>1, <2>2
  <1>26. ASSUME NEW j \in 1 .. N
         PROVE  /\ wire'[f[j]] = wCrcs'[j]
                /\ \/ Clean(f, j)'
                   \/ poisoned /\ \E D : wCrcs'[j] = Crc(D) /\ Broken(D)
    <2>1. j \in 0 .. N /\ j - 1 \in 0 .. N /\ j - 1 < j
      BY <1>5
    <2>2. f[j] = e[j] /\ f[j - 1] = e[j - 1] /\ e[j - 1] < e[j]
      BY <1>5, <1>22, <2>1 DEF Layout
    <2>3. e[j] \in 1 .. W /\ e[j - 1] \in Nat
      BY <1>5, <1>21, <2>1, <2>2
    <2>4. wire'[f[j]] = wCrcs'[j]
      <3>1. wire[e[j]] = wCrcs[j]
        BY <1>5 DEF Layout
      <3> QED
        BY <1>8, <1>16, <2>2, <2>3, <3>1
    <2>5. ASSUME Clean(e, j) PROVE Clean(f, j)'
      <3>1. PICK G : G = Fields(written[j])
        OBVIOUS
      <3>2. /\ e[j] = e[j - 1] + Len(G) + 2 /\ wCrcs[j] = Crc(G) /\ wire[e[j] - 1] = Tag(EndRecord)
            /\ \A i \in 1 .. Len(G) : wire[e[j - 1] + i] = G[i]
        BY <2>5, <3>1 DEF Clean
      <3>3. Len(G) \in Nat
        <4>1. NumColumns + 1 \in 1 .. NumColumns + 1
          BY ProtocAssumption
        <4> QED
          BY <3>1, <4>1, FieldTokens DEF Fields
      <3>4. e[j] - 1 \in 1 .. W /\ \A i \in 1 .. Len(G) : e[j - 1] + i \in 1 .. W
        <4>1. PICK a, b : a = e[j - 1] /\ b = e[j]
          OBVIOUS
        <4>2. a \in Nat /\ b \in 1 .. W /\ b = a + Len(G) + 2
          BY <2>3, <3>2, <4>1
        <4>3. b - 1 \in 1 .. W /\ \A i \in 1 .. Len(G) : a + i \in 1 .. W
          BY <1>5, <3>3, <4>2
        <4> QED
          BY <4>1, <4>3
      <3>5. wire'[e[j] - 1] = Tag(EndRecord) /\ \A i \in 1 .. Len(G) : wire'[e[j - 1] + i] = G[i]
        BY <1>16, <3>2, <3>4
      <3>6. Fields(written'[j]) = G /\ wCrcs'[j] = Crc(G)
        BY <1>6, <1>8, <3>1, <3>2
      <3> QED
        BY <2>2, <3>2, <3>5, <3>6 DEF Clean
    <2>6. wCrcs'[j] = wCrcs[j]
      BY <1>8
    <2> QED
      BY <1>5, <2>4, <2>5, <2>6 DEF Layout
  <1>27. /\ wire'[f[N + 1]] = wCrcs'[N + 1]
         /\ \/ Clean(f, N + 1)'
            \/ poisoned /\ \E D : wCrcs'[N + 1] = Crc(D) /\ Broken(D)
    <2>1. wire'[f[N + 1]] = wCrcs'[N + 1]
      BY <1>8, <1>15, <1>22
    <2>2. CASE wCrc = <<>> /\ e[N] = Body
      <3>1. C = F
        BY <1>2, <1>3, <2>2 DEF IsSequence
      <3>2. PICK k : k = N + 1
        OBVIOUS
      <3>3. Fields(written'[k]) = F /\ wCrcs'[k] = Crc(F)
        BY <1>1, <1>6, <1>8, <3>1, <3>2
      <3>4. k - 1 = N /\ f[N] = W /\ f[k] = W + Len(F) + 2
        BY <1>5, <1>22, <2>2, <3>2
      <3>5. f[k] = f[k - 1] + Len(F) + 2 /\ f[k] - 1 = W + Len(F) + 1
        <4>1. PICK a, b : a = f[k - 1] /\ b = f[k]
          OBVIOUS
        <4>2. a = W
          BY <3>4, <4>1, Zenon
        <4>3. b = W + Len(F) + 2
          BY <3>4, <4>1
        <4>4. b = a + Len(F) + 2 /\ b - 1 = W + Len(F) + 1
          BY <1>2, <1>5, <4>2, <4>3
        <4> QED
          BY <4>1, <4>4
      <3>6. wire'[f[k] - 1] = Tag(EndRecord)
        BY <1>15, <3>5
      <3>7. \A i \in 1 .. Len(F) : wire'[f[k - 1] + i] = F[i]
        BY <1>17, <3>4
      <3>8. Clean(f, k)'
        BY <3>3, <3>5, <3>6, <3>7 DEF Clean
      <3> QED
        BY <2>1, <3>2, <3>8
    <2>3. CASE poisoned /\ Broken(wCrc)
      <3>1. Broken(C)
        BY <1>2, <1>3, <1>5, <2>3, BrokenStays
      <3> QED
        BY <1>8, <2>1, <2>3, <3>1
    <2> QED
      BY <1>5, <2>2, <2>3 DEF Layout
  <1>28. ASSUME NEW q \in 1 .. Len(wire'), wire'[q].t = "crc"
         PROVE  \E j \in 1 .. N + 1 : q = f[j]
    <2>1. CASE q \in 1 .. W
      <3>1. PICK j \in 1 .. N : q = e[j]
        BY <1>5, <1>16, <1>28, <2>1 DEF Layout
      <3>2. j \in 0 .. N /\ j \in 1 .. N + 1
        BY <1>5
      <3> QED
        BY <1>22, <3>1, <3>2
    <2>2. CASE \E k \in 1 .. Len(F) : q = W + k
      BY <1>2, <1>17, <1>28, <2>2
    <2>3. CASE q = W + Len(F) + 1
      BY <1>15, <1>28, <2>3 DEF Tag
    <2>4. CASE q = W + Len(F) + 2
      <3>1. N + 1 \in 1 .. N + 1
        BY <1>5
      <3> QED
        BY <1>22, <2>4, <3>1
    <2> QED
      BY <1>18, <2>1, <2>2, <2>3, <2>4
  <1>29. Layout(f)'
    <2>1. \A j \in 1 .. N + 1 : j \in 1 .. N \/ j = N + 1
      BY <1>5
    <2>2. \A j \in 1 .. N + 1 :
            /\ wire'[f[j]] = wCrcs'[j]
            /\ \/ Clean(f, j)'
               \/ poisoned' /\ \E D : wCrcs'[j] = Crc(D) /\ Broken(D)
      BY <1>4, <1>26, <1>27, <2>1
    <2>3. f[Len(written')] = Body'
      BY <1>6, <1>19, <1>22
    <2>4. Len(written') = N + 1 /\ Body' = W + Len(F) + 2 /\ Len(wire') = Body'
      BY <1>6, <1>13, <1>19
    <2>5. f \in [0 .. Len(written') -> 0 .. Body'] /\ f[0] = 0
      BY <1>23, <1>24, <2>4
    <2>6. \A i, j \in 0 .. Len(written') : i < j => f[i] < f[j]
      BY <1>25, <2>4
    <2>7. \A q \in 1 .. Body' : wire'[q].t = "crc" => \E j \in 1 .. Len(written') : q = f[j]
      BY <1>28, <2>4
    <2>8. \A j \in 1 .. Len(written') :
            /\ wire'[f[j]] = wCrcs'[j]
            /\ \/ Clean(f, j)'
               \/ poisoned' /\ \E D : wCrcs'[j] = Crc(D) /\ Broken(D)
      BY <2>2, <2>4
    <2> QED
      BY <1>4, <2>3, <2>5, <2>6, <2>7, <2>8 DEF Layout
  <1> QED
    BY <1>20, <1>29

\* What follows the last record leaves the records as they are.
LEMMA LayoutKept ==
  ASSUME WriterType, NEW e, Layout(e),
         written' = written, wCrcs' = wCrcs, poisoned => poisoned',
         Body' \in Nat, Body <= Body',
         \A i \in 1 .. Body : wire'[i] = wire[i],
         \A q \in 1 .. Body' : q > Body => wire'[q].t # "crc",
         \/ wCrc' = wCrc /\ Body' = Body
         \/ poisoned' /\ Broken(wCrc')
  PROVE  Layout(e)'
  <1>0. PICK N, W, V : N = Len(written) /\ W = Body /\ V = Body'
    OBVIOUS
  <1>1. N \in Nat /\ W \in Nat /\ V \in Nat /\ W <= V
    BY <1>0 DEF WriterType
  <1>2. e \in [0 .. N -> 0 .. W] /\ e[0] = 0 /\ \A i, j \in 0 .. N : i < j => e[i] < e[j]
    BY <1>0 DEF Layout
  <1>3. e \in [0 .. N -> 0 .. V]
    <2>1. 0 .. W \subseteq 0 .. V
      BY <1>1
    <2> QED
      BY <1>2, <2>1
  <1>4. ASSUME NEW j \in 1 .. N PROVE e[j] \in 1 .. W /\ e[j - 1] \in Nat /\ e[j - 1] < e[j]
    <2>1. j \in 0 .. N /\ j - 1 \in 0 .. N /\ j - 1 < j
      BY <1>1
    <2>2. PICK a, b : a = e[j - 1] /\ b = e[j]
      OBVIOUS
    <2>3. a \in 0 .. W /\ b \in 0 .. W /\ a < b
      BY <1>2, <2>1, <2>2
    <2>4. b \in 1 .. W /\ a \in Nat
      BY <1>1, <2>3
    <2> QED
      BY <2>2, <2>3, <2>4
  <1>5. ASSUME NEW j \in 1 .. N, Clean(e, j) PROVE Clean(e, j)'
    <2>1. PICK G : G = Fields(written[j])
      OBVIOUS
    <2>2. /\ e[j] = e[j - 1] + Len(G) + 2 /\ wCrcs[j] = Crc(G) /\ wire[e[j] - 1] = Tag(EndRecord)
          /\ \A i \in 1 .. Len(G) : wire[e[j - 1] + i] = G[i]
      BY <1>5, <2>1 DEF Clean
    <2>3. Len(G) \in Nat
      <3>1. NumColumns + 1 \in 1 .. NumColumns + 1
        BY ProtocAssumption
      <3> QED
        BY <2>1, <3>1, FieldTokens DEF Fields
    <2>4. PICK a, b : a = e[j - 1] /\ b = e[j]
      OBVIOUS
    <2>5. a \in Nat /\ b \in 1 .. W /\ b = a + Len(G) + 2
      BY <1>4, <2>2, <2>4
    <2>6. b - 1 \in 1 .. W /\ \A i \in 1 .. Len(G) : a + i \in 1 .. W
      BY <1>1, <2>3, <2>5
    <2>7. wire'[b - 1] = Tag(EndRecord) /\ \A i \in 1 .. Len(G) : wire'[a + i] = G[i]
      BY <1>0, <2>2, <2>4, <2>6
    <2>8. Fields(written'[j]) = G
      BY <2>1
    <2> QED
      BY <2>2, <2>4, <2>7, <2>8 DEF Clean
  <1>6. ASSUME NEW j \in 1 .. N
        PROVE  /\ wire'[e[j]] = wCrcs'[j]
               /\ \/ Clean(e, j)'
                  \/ poisoned' /\ \E D : wCrcs'[j] = Crc(D) /\ Broken(D)
    <2>1. wire[e[j]] = wCrcs[j] /\ (Clean(e, j) \/ (poisoned /\ \E D : wCrcs[j] = Crc(D) /\ Broken(D)))
      BY <1>0 DEF Layout
    <2>2. wire'[e[j]] = wCrcs'[j]
      BY <1>0, <1>4, <2>1
    <2> QED
      BY <1>5, <2>1, <2>2
  <1>7. ASSUME NEW q \in 1 .. V, wire'[q].t = "crc" PROVE \E j \in 1 .. N : q = e[j]
    <2>1. q \in 1 .. W
      BY <1>0, <1>1, <1>7
    <2>2. wire[q].t = "crc"
      BY <1>0, <1>7, <2>1
    <2> QED
      BY <1>0, <2>1, <2>2 DEF Layout
  <1>8. \/ wCrc' = <<>> /\ e[N] = V
        \/ poisoned' /\ Broken(wCrc')
    <2>1. \/ wCrc = <<>> /\ e[N] = W
          \/ poisoned /\ Broken(wCrc)
      BY <1>0 DEF Layout
    <2> QED
      BY <1>0, <2>1
  <1>9. Len(written') = N /\ Body' = V
    BY <1>0
  <1> QED
    BY <1>2, <1>3, <1>6, <1>7, <1>8, <1>9 DEF Layout

\* What a failed write leaves behind it.
LEMMA FailStep ==
  ASSUME WriterType, NEW e, Layout(e), NEW r \in Records, NEW c \in Columns, WriteFails(r, c)
  PROVE  WriterType' /\ Layout(e)'
  <1>0. PICK F : F = FieldsBefore(r, c)
    OBVIOUS
  <1>1. /\ IsSequence(F) /\ \A i \in 1 .. Len(F) : F[i].t \in {"tag", "val"}
    <2>1. c \in 1 .. NumColumns + 1
      BY ProtocAssumption DEF Columns
    <2> QED
      BY <1>0, <2>1, FieldTokens
  <1>2. PICK tag : tag \in {<<>>, <<Tag(c)>>} /\ wire' = wire \o F \o tag
    BY <1>0 DEF WriteFails
  <1>3. /\ phase = "write" /\ phase' = phase /\ poisoned' = TRUE /\ written' = written /\ wCrcs' = wCrcs
        /\ wCrc' = wCrc \o F \o <<Tag(c)>>
    BY <1>0 DEF WriteFails
  <1>4. IsSequence(wire) /\ IsSequence(wCrc) /\ Len(wire) \in Nat /\ Len(F) \in Nat
    BY <1>1, SequenceFacts DEF WriterType
  <1>5. PICK B : B = wire \o F
    OBVIOUS
  <1>6. IsSequence(B) /\ Len(B) = Len(wire) + Len(F)
    BY <1>1, <1>4, <1>5, ConcatFacts
  <1>7. \A i \in 1 .. Len(wire) : B[i] = wire[i]
    BY <1>1, <1>4, <1>5, ConcatFacts
  <1>8. ASSUME NEW i \in 1 .. Len(B), i > Len(wire) PROVE B[i].t \in {"tag", "val"}
    <2>1. PICK k \in 1 .. Len(F) : i = Len(wire) + k
      <3>1. i - Len(wire) \in 1 .. Len(F) /\ i = Len(wire) + (i - Len(wire))
        BY <1>4, <1>6, <1>8
      <3> QED
        BY <3>1
    <2>2. B[Len(wire) + k] = F[k]
      BY <1>1, <1>4, <1>5, ConcatFacts
    <2> QED
      BY <1>1, <2>1, <2>2
  <1>9. /\ IsSequence(wire') /\ Len(wire') \in Nat /\ Len(B) <= Len(wire')
        /\ \A i \in 1 .. Len(B) : wire'[i] = B[i]
        /\ \A i \in 1 .. Len(wire') : i > Len(B) => wire'[i].t = "tag"
    <2>1. CASE tag = <<>>
      <3>1. wire' = B
        BY <1>2, <1>5, <1>6, <2>1 DEF IsSequence
      <3> QED
        BY <1>4, <1>6, <3>1
    <2>2. CASE tag = <<Tag(c)>>
      <3>1. wire' = B \o <<Tag(c)>>
        BY <1>2, <1>5, <2>2
      <3>2. IsSequence(wire') /\ Len(wire') = Len(B) + 1
        BY <1>6, <3>1, OneMore
      <3>3. \A i \in 1 .. Len(B) : wire'[i] = B[i]
        BY <1>6, <3>1, OneMore
      <3>4. wire'[Len(B) + 1].t = "tag"
        <4>1. wire'[Len(B) + 1] = Tag(c)
          BY <1>6, <3>1, OneMore
        <4> QED
          BY <4>1 DEF Tag
      <3>5. \A i \in 1 .. Len(wire') : i > Len(B) => i = Len(B) + 1
        BY <1>4, <1>6, <3>2
      <3> QED
        BY <1>4, <1>6, <3>2, <3>3, <3>4, <3>5
    <2> QED
      BY <1>2, <2>1, <2>2
  <1>10. \A i \in 1 .. Len(wire) : i \in 1 .. Len(B) /\ wire'[i] = wire[i]
    BY <1>4, <1>6, <1>7, <1>9
  <1>11. ASSUME NEW i \in 1 .. Len(wire'), i > Len(wire) PROVE wire'[i].t \in {"tag", "val"}
    <2>1. CASE i <= Len(B)
      <3>1. i \in 1 .. Len(B)
        BY <1>4, <1>6, <2>1
      <3> QED
        BY <1>8, <1>9, <1>11, <3>1
    <2>2. CASE i > Len(B)
      BY <1>9, <2>2
    <2> QED
      BY <1>4, <1>6, <2>1, <2>2
  <1>12. Body = Len(wire) /\ Body' = Len(wire')
    BY <1>3 DEF Body
  <1>13. IsSequence(wCrc')
    <2>1. PICK D : D = wCrc \o F
      OBVIOUS
    <2>2. IsSequence(D)
      BY <1>1, <1>4, <2>1, ConcatFacts
    <2> QED
      BY <1>3, <2>1, <2>2, OneMore
  <1>14. WriterType'
    <2>1. ASSUME NEW i \in 1 .. Len(wire') PROVE wire'[i].t \in {"tag", "val", "num", "crc"}
      <3>1. CASE i \in 1 .. Len(wire)
        BY <1>10, <3>1 DEF WriterType
      <3>2. CASE i > Len(wire)
        BY <1>11, <3>2
      <3> QED
        BY <1>4, <3>1, <3>2
    <2> QED
      BY <1>3, <1>9, <1>12, <1>13, <2>1 DEF WriterType
  <1>15. Broken(wCrc')
    <2>1. wCrc = <<>> \/ Broken(wCrc)
      BY DEF Layout
    <2> QED
      BY <1>0, <1>3, <1>4, <2>1, FailureBreaks
  <1>16. Body <= Body'
    BY <1>4, <1>6, <1>9, <1>12
  <1>17. \A q \in 1 .. Body' : q > Body => wire'[q].t # "crc"
    BY <1>11, <1>12
  <1>18. (\A i \in 1 .. Body : wire'[i] = wire[i]) /\ Body' \in Nat
    BY <1>9, <1>10, <1>12
  <1>19. Layout(e)'
    BY <1>3, <1>15, <1>16, <1>17, <1>18, LayoutKept
  <1> QED
    BY <1>14, <1>19

\* The footer.
LEMMA CloseStep ==
  ASSUME WriterType, NEW e, Layout(e), Close
  PROVE  WriterType' /\ Layout(e)' /\ Footer'
  <1>1. /\ phase = "write" /\ phase' = "closed" /\ UNCHANGED <<poisoned, written, wCrc, wCrcs>>
        /\ wire' = wire \o <<Tag(MetaCount), Num(Len(written)), Tag(MetaChecksum), Crc(wCrcs)>>
    BY DEF Close
  <1>2. IsSequence(wire) /\ Len(wire) \in Nat
    BY SequenceFacts DEF WriterType
  <1>3. IsSequence(wire') /\ Len(wire') = Len(wire) + 4
    <2>1. IsSequence(wire')
      <3>1. PICK a, b, c, d : wire' = wire \o <<a, b, c, d>>
        BY <1>1
      <3>2. PICK u : u = wire \o <<a, b, c, d>>
        OBVIOUS
      <3>3. IsSequence(u)
        BY <1>2, <3>2, FourMore
      <3> QED
        BY <3>1, <3>2, <3>3
    <2>2. Len(wire') = Len(wire) + 4
      BY <1>1, <1>2, FourMore
    <2> QED
      BY <2>1, <2>2
  <1>4. \A i \in 1 .. Len(wire) : wire'[i] = wire[i]
    BY <1>1, <1>2, FourMore
  <1>5. wire'[Len(wire) + 1] = Tag(MetaCount) /\ wire'[Len(wire) + 2] = Num(Len(written))
    BY <1>1, <1>2, FourMore
  <1>6. wire'[Len(wire) + 3] = Tag(MetaChecksum) /\ wire'[Len(wire) + 4] = Crc(wCrcs)
    BY <1>1, <1>2, FourMore
  <1>7. Body = Len(wire) /\ Body' = Len(wire)
    BY <1>1, <1>2, <1>3 DEF Body
  <1>8. WriterType'
    <2>1. ASSUME NEW i \in 1 .. Len(wire') PROVE wire'[i].t \in {"tag", "val", "num", "crc"}
      <3>1. \/ i \in 1 .. Len(wire)
            \/ i = Len(wire) + 1 \/ i = Len(wire) + 2 \/ i = Len(wire) + 3 \/ i = Len(wire) + 4
        BY <1>2, <1>3
      <3>2. CASE i \in 1 .. Len(wire)
        BY <1>4, <3>2 DEF WriterType
      <3>3. CASE i = Len(wire) + 1
        BY <1>5, <3>3 DEF Tag
      <3>4. CASE i = Len(wire) + 2
        BY <1>5, <3>4 DEF Num
      <3>5. CASE i = Len(wire) + 3
        BY <1>6, <3>5 DEF Tag
      <3>6. CASE i = Len(wire) + 4
        BY <1>6, <3>6 DEF Crc
      <3> QED
        BY <3>1, <3>2, <3>3, <3>4, <3>5, <3>6
    <2> QED
      BY <1>1, <1>2, <1>3, <1>7, <2>1 DEF WriterType
  <1>9. Layout(e)'
    <2>1. Body' \in Nat /\ Body <= Body' /\ \A q \in 1 .. Body' : ~(q > Body)
      BY <1>2, <1>7
    <2>2. \A i \in 1 .. Body : wire'[i] = wire[i]
      BY <1>4, <1>7
    <2> QED
      BY <1>1, <1>7, <2>1, <2>2, LayoutKept
  <1>10. Footer'
    <2>1. /\ Len(wire') - 3 = Len(wire) + 1 /\ Len(wire') - 2 = Len(wire) + 2
          /\ Len(wire') - 1 = Len(wire) + 3 /\ Len(wire') = Len(wire) + 4
      BY <1>2, <1>3
    <2> QED
      BY <1>1, <1>5, <1>6, <2>1 DEF Footer
  <1> QED
    BY <1>8, <1>9, <1>10

-----------------------------------------------------------------------------
(* The way to the reader.                                                   *)

\* At most one token is another one, of the same type, and a damaged checksum is none
\* that a reader computes.
Delivered ==
  /\ IsSequence(net) /\ Len(net) <= Len(wire) /\ cleanEnd \in BOOLEAN
  /\ Len(net) = Len(wire) => cleanEnd
  /\ \E d : \A i \in 1 .. Len(net) : i # d => net[i] = wire[i]
  /\ \A i \in 1 .. Len(net) :
       /\ net[i].t = wire[i].t
       /\ net[i].t = "crc" => net[i] = wire[i] \/ net[i] = Crc(<<Num(-1)>>)

LEMMA TransferStep ==
  ASSUME WriterType, Footer, Transfer
  PROVE  Delivered'
  <1>1. IsSequence(wire) /\ Len(wire) \in Nat /\ DOMAIN wire = 1 .. Len(wire) /\ wire' = wire
    BY SequenceFacts DEF WriterType, Transfer, writeVars
  <1>2. CASE net' = wire /\ cleanEnd' = TRUE
    <2>1. \A i \in 1 .. Len(net') : i # 0 => net'[i] = wire[i]
      BY <1>2
    <2> QED
      BY <1>1, <1>2, <2>1 DEF Delivered
  <1>3. ASSUME NEW n \in 0 .. Len(wire) - 1, net' = SubSeq(wire, 1, n), cleanEnd' \in BOOLEAN
        PROVE  Delivered'
    <2>1. PICK S : wire \in Seq(S)
      BY <1>1 DEF IsSequence
    <2>2. n \in Nat /\ n < Len(wire)
      BY <1>1
    <2>9. n <= Len(wire) /\ n # Len(wire)
      <3>1. Len(wire) \in Nat
        BY <1>1
      <3> QED
        BY <3>1
    <2>3. net' \in Seq(S) /\ Len(net') = n
      BY <1>1, <1>3, <2>1, <2>2
    <2>4. \A i \in 1 .. n : net'[i] = wire[i]
      BY <1>1, <1>3, <2>1, <2>2
    <2>5. IsSequence(net')
      BY <2>3 DEF IsSequence
    <2>6. \A i \in 1 .. Len(net') : i # 0 => net'[i] = wire[i]
      BY <2>3, <2>4
    <2>7. Len(wire') = Len(wire) /\ Len(net') <= Len(wire) /\ Len(net') # Len(wire)
      <3>1. Len(wire') = Len(wire)
        BY <1>1
      <3>2. Len(net') = n
        BY <2>3
      <3> QED
        BY <2>9, <3>1, <3>2, Zenon
    <2>8. /\ \E d : \A i \in 1 .. Len(net') : i # d => net'[i] = wire[i]
          /\ \A i \in 1 .. Len(net') : net'[i] = wire[i]
      BY <2>3, <2>4, <2>6
    <2> QED
      BY <1>1, <1>3, <2>5, <2>7, <2>8 DEF Delivered
  <1>4. ASSUME NEW d \in DOMAIN wire, NEW k \in OtherTokens(wire[d]),
               net' = [wire EXCEPT ![d] = k], cleanEnd' = TRUE
        PROVE  Delivered'
    <2>1. PICK S : wire \in Seq(S)
      BY <1>1 DEF IsSequence
    <2>2. net' \in Seq(S \cup {k}) /\ Len(net') = Len(wire)
      BY <1>1, <1>4, <2>1
    <2>3. (\A i \in 1 .. Len(wire) : i # d => net'[i] = wire[i]) /\ net'[d] = k
      BY <1>1, <1>4, <2>1
    <2>4. IsSequence(net')
      BY <2>2 DEF IsSequence
    <2>5. wire[d].t \in {"tag", "val", "num", "crc"}
      BY <1>1 DEF WriterType
    <2>6. k.t = wire[d].t /\ (k.t = "crc" => k = Crc(<<Num(-1)>>))
      <3>1. CASE wire[d].t = "tag"
        BY <3>1 DEF OtherTokens, Tag
      <3>2. CASE wire[d].t = "val"
        BY <3>2 DEF OtherTokens, Val
      <3>3. CASE wire[d].t = "num"
        BY <3>3 DEF OtherTokens, Num
      <3>4. CASE wire[d].t = "crc"
        BY <3>4 DEF OtherTokens, Crc
      <3> QED
        BY <2>5, <3>1, <3>2, <3>3, <3>4
    <2>7. ASSUME NEW i \in 1 .. Len(net')
          PROVE  /\ net'[i].t = wire[i].t
                 /\ net'[i].t = "crc" => net'[i] = wire[i] \/ net'[i] = Crc(<<Num(-1)>>)
      <3>1. CASE i = d
        BY <2>3, <2>6, <3>1
      <3>2. CASE i # d
        BY <2>2, <2>3, <3>2
      <3> QED
        BY <3>1, <3>2
    <2>8. \E i : \A j \in 1 .. Len(net') : j # i => net'[j] = wire[j]
      BY <2>2, <2>3
    <2>9. Len(wire') = Len(wire) /\ Len(net') <= Len(wire)
      BY <1>1, <2>2
    <2> QED
      BY <1>1, <1>4, <2>4, <2>7, <2>8, <2>9 DEF Delivered
  <1> QED
    BY <1>2, <1>3, <1>4 DEF Transfer

-----------------------------------------------------------------------------
(* The reader.                                                              *)

\* rCrc is made of pairs, a tag and what was read as a value, and record is what they say.
PairsRead ==
  /\ IsSequence(rCrc) /\ Even(Len(rCrc))
  /\ \A i \in 1 .. Len(rCrc) : Even(i) => rCrc[i].t = "val"
  /\ record = [c \in Columns |-> record[c]]
  /\ \A c \in Columns :
       \/ /\ record[c] = Null
          /\ \A i \in 1 .. Len(rCrc) : ~Even(i) => rCrc[i] # Tag(c)
       \/ \E i \in 1 .. Len(rCrc) : ~Even(i) /\ rCrc[i] = Tag(c) /\ rCrc[i + 1].v = record[c]

\* What was read is what was written first, and until the stream has been read the reader
\* is as far behind the end of a record as rCrc is long.
RecordsRead(e) ==
  LET k == Len(got)
  IN  /\ got \in Seq(Records) /\ k <= Len(written)
      /\ \A i \in 1 .. k : got[i] = written[i]
      /\ IsSequence(rCrcs) /\ Len(rCrcs) = k
      /\ \A i \in 1 .. k : rCrcs[i] = wCrcs[i]
      /\ pos \in 0 .. Len(net)
      /\ pos = Len(net) \/ pos = e[k] + Len(rCrc)

\* In a stream of full length the footer is read by ReadMeta: a reader that has passed its
\* first tag met a damaged one.
FooterRead ==
  /\ Len(net) = Len(wire) =>
       /\ pos = Len(net) - 2 => net[Len(net) - 3] # Tag(MetaCount)
       /\ pos = Len(net) => got = written
  /\ verdict = "eof" => got = written \/ EndedEarly

\* In a stream that arrived as it was written the reader follows the writer.
Follows ==
  net = wire /\ ~poisoned =>
    /\ verdict # "error"
    /\ LET k == Len(got)
           F == Fields(written[k + 1])
       IN  \/ pos = Len(net)
           \/ k < Len(written) /\ Len(rCrc) <= Len(F) /\ \A i \in 1 .. Len(rCrc) : rCrc[i] = F[i]
           \/ k = Len(written) /\ rCrc = <<>>

NotReading ==
  /\ pos = 0 /\ rCrc = <<>> /\ rCrcs = <<>> /\ record = NoFields
  /\ got = <<>> /\ verdict = "none"

Inv ==
  /\ WriterType /\ Footer
  /\ phase # "read" => NotReading
  /\ \E e : /\ Layout(e)
            /\ phase = "read" => Delivered /\ PairsRead /\ RecordsRead(e) /\ FooterRead /\ Follows

\* The fields of a record that has been read are those of the record that was written.
LEMMA RecordIsRead ==
  ASSUME PairsRead, NEW r \in Records, rCrc = Fields(r)
  PROVE  record = r
  <1>1. PICK F : F = Fields(r)
    OBVIOUS
  <1>2. PairsOf(r, NumColumns, F)
    <2>1. PICK n : n = NumColumns + 1
      OBVIOUS
    <2>2. n \in 1 .. NumColumns + 1 /\ n - 1 = NumColumns
      BY <2>1, ProtocAssumption
    <2>3. PairsOf(r, n - 1, F)
      BY <1>1, <2>1, <2>2, FieldsArePairs DEF Fields
    <2> QED
      BY <2>2, <2>3
  <1>3. ASSUME NEW c \in Columns PROVE record[c] = r[c]
    <2>1. CASE \E i \in 1 .. Len(F) : ~Even(i) /\ F[i] = Tag(c) /\ F[i + 1].v = record[c]
      <3>1. PICK i \in 1 .. Len(F) : ~Even(i) /\ F[i] = Tag(c) /\ F[i + 1].v = record[c]
        BY <2>1
      <3>2. PICK d \in 1 .. NumColumns : F[i] = Tag(d) /\ F[i + 1] = Val(r[d])
        BY <1>2, <3>1 DEF PairsOf
      <3>3. d = c
        BY <3>1, <3>2 DEF Tag
      <3>4. F[i + 1].v = r[d]
        BY <3>2 DEF Val
      <3> QED
        BY <3>1, <3>3, <3>4
    <2>2. CASE record[c] = Null /\ \A i \in 1 .. Len(F) : ~Even(i) => F[i] # Tag(c)
      <3>1. r[c] # Null => \E i \in 1 .. Len(F) : ~Even(i) /\ F[i] = Tag(c)
        BY <1>2 DEF PairsOf, Columns
      <3> QED
        BY <2>2, <3>1
    <2> QED
      BY <1>1, <2>1, <2>2 DEF PairsRead
  <1> QED
    BY <1>3 DEF PairsRead, Records

\* No reader computes a broken checksum.
LEMMA NoneIsBroken ==
  ASSUME PairsRead
  PROVE  ~Broken(rCrc)
  <1>1. Len(rCrc) \in Nat /\ Even(Len(rCrc))
    BY SequenceFacts DEF PairsRead
  <1>2. ASSUME NEW i \in 1 .. Len(rCrc), ~Even(i) PROVE i # Len(rCrc) /\ rCrc[i + 1].t # "tag"
    <2>1. i # Len(rCrc)
      BY <1>1, <1>2
    <2>2. i + 1 \in 1 .. Len(rCrc) /\ Even(i + 1)
      BY <1>1, <1>2, <2>1 DEF Even
    <2>3. rCrc[i + 1].t = "val"
      BY <2>2 DEF PairsRead
    <2> QED
      BY <2>1, <2>3
  <1> QED
    BY <1>2 DEF Broken

\* A pair is read.
LEMMA PairIsRead ==
  ASSUME PairsRead, NEW c \in Columns, NEW x,
         rCrc' = rCrc \o FieldCrc(c, x), record' = [record EXCEPT ![c] = x.v]
  PROVE  PairsRead'
  <1>0. PICK L : L = Len(rCrc)
    OBVIOUS
  <1>1. IsSequence(rCrc) /\ L \in Nat /\ Even(L)
    BY <1>0, SequenceFacts DEF PairsRead
  <1>2. rCrc' = rCrc \o <<Tag(c), AsValue(x)>>
    BY DEF FieldCrc
  <1>3. IsSequence(rCrc')
    <2>1. PICK u, a : a = AsValue(x) /\ u = rCrc \o <<Tag(c), a>>
      OBVIOUS
    <2>2. IsSequence(u)
      BY <1>1, <2>1, TwoMore
    <2> QED
      BY <1>2, <2>1, <2>2
  <1>4. Len(rCrc') = L + 2
    BY <1>0, <1>1, <1>2, TwoMore
  <1>5. \A i \in 1 .. L : rCrc'[i] = rCrc[i]
    BY <1>0, <1>1, <1>2, TwoMore
  <1>6. rCrc'[L + 1] = Tag(c) /\ rCrc'[L + 2] = AsValue(x)
    BY <1>0, <1>1, <1>2, TwoMore
  <1>7. Even(L + 2) /\ ~Even(L + 1)
    BY <1>1, EvenFacts
  <1>8. \A i \in 1 .. L + 2 : i \in 1 .. L \/ i = L + 1 \/ i = L + 2
    BY <1>1
  <1>9. L + 1 \in 1 .. L + 2 /\ L + 1 + 1 = L + 2 /\ \A i \in 1 .. L : i \in 1 .. L + 2
    BY <1>1
  <1>10. \A i \in 1 .. L + 2 : Even(i) => rCrc'[i].t = "val"
    <2>1. AsValue(x).t = "val"
      BY DEF AsValue
    <2>2. \A i \in 1 .. L : Even(i) => rCrc[i].t = "val"
      BY <1>0 DEF PairsRead
    <2> QED
      BY <1>5, <1>6, <1>7, <1>8, <2>1, <2>2
  <1>11. record' = [d \in Columns |-> record'[d]] /\ record'[c] = x.v
         /\ \A d \in Columns : d # c => record'[d] = record[d]
    BY DEF PairsRead
  <1>12. ASSUME NEW d \in Columns
         PROVE  \/ /\ record'[d] = Null
                   /\ \A i \in 1 .. L + 2 : ~Even(i) => rCrc'[i] # Tag(d)
                \/ \E i \in 1 .. L + 2 : ~Even(i) /\ rCrc'[i] = Tag(d) /\ rCrc'[i + 1].v = record'[d]
    <2>1. CASE d = c
      <3>1. rCrc'[L + 1 + 1].v = record'[d]
        <4>1. rCrc'[L + 2].v = record'[d]
          BY <1>6, <1>11, <2>1 DEF AsValue
        <4> QED
          BY <1>9, <4>1, Zenon
      <3> QED
        BY <1>6, <1>7, <1>9, <2>1, <3>1
    <2>2. CASE d # c
      <3>1. record'[d] = record[d] /\ Tag(c) # Tag(d)
        BY <1>11, <2>2 DEF Tag
      <3>2. CASE record[d] = Null /\ \A i \in 1 .. L : ~Even(i) => rCrc[i] # Tag(d)
        BY <1>5, <1>6, <1>7, <1>8, <3>1, <3>2
      <3>3. CASE \E i \in 1 .. L : ~Even(i) /\ rCrc[i] = Tag(d) /\ rCrc[i + 1].v = record[d]
        <4>1. PICK i \in 1 .. L : ~Even(i) /\ rCrc[i] = Tag(d) /\ rCrc[i + 1].v = record[d]
          BY <3>3
        <4>2. i + 1 \in 1 .. L
          BY <1>1, <4>1 DEF Even
        <4>3. rCrc'[i] = Tag(d) /\ rCrc'[i + 1].v = record'[d]
          BY <1>5, <3>1, <4>1, <4>2
        <4> QED
          BY <1>9, <4>1, <4>3
      <3> QED
        BY <1>0, <3>2, <3>3 DEF PairsRead
    <2> QED
      BY <2>1, <2>2
  <1> QED
    BY <1>3, <1>4, <1>7, <1>10, <1>11, <1>12 DEF PairsRead

\* What is known of a reader that has not read all of the stream.
Reader(e) ==
  /\ WriterType /\ Footer /\ Layout(e)
  /\ phase = "read"
  /\ Delivered /\ PairsRead /\ RecordsRead(e) /\ FooterRead /\ Follows

LEMMA Places ==
  ASSUME NEW e, Reader(e)
  PROVE  /\ Len(wire) \in Nat /\ Len(net) \in Nat /\ Len(net) <= Len(wire) /\ Len(wire) >= 4
         /\ Body = Len(wire) - 4 /\ Len(got) \in Nat /\ Len(written) \in Nat
         /\ pos \in Nat /\ pos <= Len(net) /\ Len(rCrc) \in Nat
         /\ \A j \in 0 .. Len(written) : e[j] \in Nat
  <1>1. IsSequence(wire) /\ IsSequence(net) /\ IsSequence(rCrc)
    BY DEF Reader, WriterType, Delivered, PairsRead
  <1>2. Len(wire) \in Nat /\ Len(net) \in Nat /\ Len(rCrc) \in Nat
    BY <1>1, SequenceFacts
  <1>3. Body = Len(wire) - 4 /\ Body \in Nat
    BY DEF Reader, WriterType, Body
  <1>4. got \in Seq(Records) /\ written \in Seq(Records)
    BY DEF Reader, WriterType, RecordsRead
  <1>5. pos \in 0 .. Len(net)
    BY DEF Reader, RecordsRead
  <1>6. e \in [0 .. Len(written) -> 0 .. Body]
    BY DEF Reader, Layout
  <1>7. \A j \in 0 .. Len(written) : e[j] \in 0 .. Body
    BY <1>6
  <1>8. Len(net) <= Len(wire)
    BY DEF Reader, Delivered
  <1> QED
    BY <1>2, <1>3, <1>4, <1>5, <1>7, <1>8

\* No reader gets past the footer but by reading it: two of its tags would be damaged.
LEMMA FooterIsMet ==
  ASSUME NEW e, Reader(e), Left > 1,
         Tok(1) # Tag(MetaCount), Tok(1) # Tag(MetaChecksum), Len(net) = Len(wire)
  PROVE  /\ pos + 2 # Len(net)
         /\ pos + 2 = Len(net) - 2 => net[Len(net) - 3] # Tag(MetaCount)
  <1>0. PICK n : n = Len(net)
    OBVIOUS
  <1>1. n \in Nat /\ n >= 4 /\ pos \in Nat /\ n = Len(wire)
    BY <1>0, Places
  <1>2. Tok(1) = net[pos + 1]
    BY DEF Tok
  <1>3. ASSUME pos + 2 = n - 2 PROVE net[n - 3] # Tag(MetaCount)
    <2>1. pos + 1 = n - 3
      BY <1>1, <1>3
    <2> QED
      BY <1>2, <2>1
  <1>4. ASSUME pos + 2 = n PROVE FALSE
    <2>1. pos + 1 = n - 1 /\ pos = n - 2 /\ n - 1 \in 1 .. n /\ n - 3 \in 1 .. n /\ n - 1 # n - 3
      BY <1>1, <1>4
    <2>2. net[n - 3] # Tag(MetaCount)
      BY <1>0, <2>1 DEF Reader, FooterRead
    <2>3. net[n - 1] # Tag(MetaChecksum)
      BY <1>2, <2>1
    <2>4. wire[n - 3] = Tag(MetaCount) /\ wire[n - 1] = Tag(MetaChecksum)
      BY <1>1 DEF Reader, Footer
    <2>5. PICK d : \A i \in 1 .. n : i # d => net[i] = wire[i]
      BY <1>0 DEF Reader, Delivered
    <2> QED
      BY <2>1, <2>2, <2>3, <2>4, <2>5
  <1> QED
    BY <1>0, <1>3, <1>4

\* A checksum that matches is the next record's, and the record is the one written.
LEMMA ChecksumIsNext ==
  ASSUME NEW e, Reader(e), Left > 1, Tok(1) = Tag(EndRecord), Tok(2) = Crc(rCrc)
  PROVE  LET k == Len(got)
         IN  /\ k < Len(written) /\ pos + 2 = e[k + 1]
             /\ wCrcs[k + 1] = Crc(rCrc) /\ record = written[k + 1]
  <1>0. PICK k, L, q : k = Len(got) /\ L = Len(rCrc) /\ q = pos + 2
    OBVIOUS
  <1>1. /\ Len(wire) \in Nat /\ Len(net) \in Nat /\ Len(net) <= Len(wire) /\ Len(wire) >= 4
        /\ Body = Len(wire) - 4 /\ k \in Nat /\ pos \in Nat /\ L \in Nat
    BY <1>0, Places
  <1>2. q \in 1 .. Len(net) /\ pos # Len(net) /\ Tok(2) = net[q]
    BY <1>0, <1>1 DEF Left, Tok
  <1>3. k <= Len(written) /\ pos = e[k] + L
    BY <1>0, <1>2 DEF Reader, RecordsRead
  <1>4. wire[q] = Crc(rCrc)
    <2>1. net[q] = Crc(rCrc) /\ net[q].t = "crc"
      BY <1>2 DEF Crc
    <2>2. net[q] = wire[q] \/ net[q] = Crc(<<Num(-1)>>)
      BY <1>2, <2>1 DEF Reader, Delivered
    <2>3. rCrc # <<Num(-1)>>
      <3>1. Even(Len(rCrc))
        BY DEF Reader, PairsRead
      <3>2. ~Even(1)
        BY DEF Even
      <3> QED
        BY <3>1, <3>2
    <2> QED
      BY <2>1, <2>2, <2>3 DEF Crc
  <1>5. q \in 1 .. Body
    <2>1. wire[q].t = "crc"
      BY <1>4 DEF Crc
    <2>2. q # Len(wire)
      <3>1. Tok(1) # Tag(MetaCount) /\ Tok(1) # Tag(MetaChecksum)
        BY DEF Tag, EndRecord, MetaCount, MetaChecksum
      <3>2. ASSUME q = Len(wire) PROVE FALSE
        <4>1. Len(net) = Len(wire) /\ pos + 2 = Len(net)
          BY <1>0, <1>1, <1>2, <3>2
        <4> QED
          BY <3>1, <4>1, FooterIsMet
      <3> QED
        BY <3>2
    <2>3. q # Len(wire) - 1 /\ q # Len(wire) - 2 /\ q # Len(wire) - 3
      <3>1. /\ wire[Len(wire) - 3] = Tag(MetaCount) /\ wire[Len(wire) - 2] = Num(Len(written))
            /\ wire[Len(wire) - 1] = Tag(MetaChecksum)
        BY DEF Reader, Footer
      <3> QED
        BY <2>1, <3>1 DEF Tag, Num
    <2> QED
      BY <1>1, <1>2, <2>2, <2>3
  <1>6. PICK j \in 1 .. Len(written) : q = e[j]
    <2>1. wire[q].t = "crc"
      BY <1>4 DEF Crc
    <2> QED
      BY <1>5, <2>1 DEF Reader, Layout
  <1>7. wCrcs[j] = Crc(rCrc)
    BY <1>4, <1>6 DEF Reader, Layout
  <1>8. Clean(e, j)
    <2>1. Clean(e, j) \/ \E C : wCrcs[j] = Crc(C) /\ Broken(C)
      BY DEF Reader, Layout
    <2>2. ~Broken(rCrc)
      BY NoneIsBroken DEF Reader
    <2>3. \A C : Crc(C) = Crc(rCrc) => C = rCrc
      BY DEF Crc
    <2> QED
      BY <1>7, <2>1, <2>2, <2>3
  <1>9. rCrc = Fields(written[j]) /\ e[j] = e[j - 1] + L + 2
    <2>1. PICK F : F = Fields(written[j])
      OBVIOUS
    <2>2. wCrcs[j] = Crc(F) /\ e[j] = e[j - 1] + Len(F) + 2
      BY <1>8, <2>1 DEF Clean
    <2>3. F = rCrc
      BY <1>7, <2>2 DEF Crc
    <2> QED
      BY <1>0, <2>1, <2>2, <2>3
  <1>10. j - 1 = k
    <2>0. Len(written) \in Nat
      BY Places
    <2>1. j - 1 \in 0 .. Len(written) /\ k \in 0 .. Len(written)
      BY <1>1, <1>3, <2>0
    <2>2. PICK a, b : a = e[j - 1] /\ b = e[k]
      OBVIOUS
    <2>3. a \in Nat /\ b \in Nat
      BY <2>1, <2>2, Places
    <2>4. q = a + L + 2 /\ pos = b + L /\ q = pos + 2
      BY <1>0, <1>3, <1>6, <1>9, <2>2
    <2>5. a = b
      BY <1>1, <2>3, <2>4
    <2>6. ~(j - 1 < k) /\ ~(k < j - 1)
      <3>1. \A x, y \in 0 .. Len(written) : x < y => e[x] < e[y]
        BY DEF Reader, Layout
      <3>2. ~(a < a)
        BY <2>3
      <3> QED
        BY <2>1, <2>2, <2>5, <3>1, <3>2
    <2> QED
      BY <1>1, <2>1, <2>6
  <1>11. j = k + 1
    BY <1>1, <1>10
  <1>12. written[j] \in Records
    BY DEF Reader, WriterType
  <1>13. record = written[j]
    BY <1>9, <1>12, RecordIsRead DEF Reader
  <1> QED
    BY <1>0, <1>1, <1>6, <1>7, <1>11, <1>13

\* What is next in a stream of good writes that arrived as it was written.
InFields(F) ==
  /\ Len(rCrc) + 2 <= Len(F) /\ \A i \in 1 .. Len(rCrc) : rCrc[i] = F[i]
  /\ Tok(1) = F[Len(rCrc) + 1] /\ Tok(2) = F[Len(rCrc) + 2]
  /\ \E c \in Columns : \E v : Tok(1) = Tag(c) /\ Tok(2) = Val(v)
AtEndRecord(F) == rCrc = F /\ Tok(1) = Tag(EndRecord) /\ Tok(2) = Crc(F)
AtFooter ==
  /\ Len(got) = Len(written) /\ rCrc = <<>> /\ pos = Len(net) - 4
  /\ Tok(1) = Tag(MetaCount) /\ Tok(2) = Num(Len(written))
  /\ Tok(3) = Tag(MetaChecksum) /\ Tok(4) = Crc(wCrcs)

LEMMA NextToken ==
  ASSUME NEW e, Reader(e), net = wire, ~poisoned, pos # Len(net)
  PROVE  LET k == Len(got)
             F == Fields(written[k + 1])
         IN  \/ k < Len(written) /\ InFields(F)
             \/ k < Len(written) /\ AtEndRecord(F)
             \/ AtFooter
  <1>0. PICK k, L, a : k = Len(got) /\ L = Len(rCrc) /\ a = e[k]
    OBVIOUS
  <1>1. /\ Len(wire) \in Nat /\ Len(wire) >= 4 /\ Body = Len(wire) - 4
        /\ k \in Nat /\ pos \in Nat /\ L \in Nat /\ Len(written) \in Nat
    BY <1>0, Places
  <1>2. pos = a + L /\ k <= Len(written)
    BY <1>0 DEF Reader, RecordsRead
  <1>3. a \in Nat
    <2>1. k \in 0 .. Len(written)
      BY <1>1, <1>2
    <2> QED
      BY <1>0, <2>1, Places
  <1>4. IsSequence(rCrc) /\ Even(L)
    BY <1>0 DEF Reader, PairsRead
  <1>5. PICK F : F = Fields(written[k + 1])
    OBVIOUS
  <1>6. IsSequence(F) /\ Len(F) \in Nat /\ PairsOf(written[k + 1], NumColumns, F)
    <2>1. PICK n : n = NumColumns + 1
      OBVIOUS
    <2>2. n \in 1 .. NumColumns + 1 /\ n - 1 = NumColumns
      BY <2>1, ProtocAssumption
    <2>3. PairsOf(written[k + 1], n - 1, F)
      BY <1>5, <2>1, <2>2, FieldsArePairs DEF Fields
    <2>4. IsSequence(F)
      BY <2>3 DEF PairsOf
    <2> QED
      BY <2>2, <2>3, <2>4, SequenceFacts
  <1>7. \A i : Tok(i) = wire[pos + i]
    BY DEF Tok
  <1>8. CASE k < Len(written) /\ L <= Len(F) /\ \A i \in 1 .. L : rCrc[i] = F[i]
    <2>1. k + 1 \in 1 .. Len(written)
      BY <1>1, <1>8
    <2>2. Clean(e, k + 1)
      BY <2>1 DEF Reader, Layout
    <2>3. PICK b : b = e[k + 1]
      OBVIOUS
    <2>4. b = a + Len(F) + 2
      <3>1. e[k + 1] = e[k + 1 - 1] + Len(F) + 2 /\ k + 1 - 1 = k
        BY <1>1, <1>5, <2>2 DEF Clean
      <3> QED
        BY <1>0, <2>3, <3>1
    <2>5. /\ wCrcs[k + 1] = Crc(F) /\ wire[b - 1] = Tag(EndRecord)
      BY <1>5, <2>2, <2>3 DEF Clean
    <2>6. \A i \in 1 .. Len(F) : wire[a + i] = F[i]
      <3>1. PICK m : m = k + 1
        OBVIOUS
      <3>2. Clean(e, m) /\ F = Fields(written[m])
        BY <1>5, <2>2, <3>1
      <3>3. \A i \in 1 .. Len(F) : wire[e[m - 1] + i] = F[i]
        BY <3>2 DEF Clean
      <3>4. m - 1 = k
        BY <1>1, <3>1
      <3> QED
        BY <1>0, <3>3, <3>4
    <2>7. wire[b] = wCrcs[k + 1]
      BY <2>1, <2>3 DEF Reader, Layout
    <2>8. CASE L = Len(F)
      <3>1. pos + 1 = b - 1 /\ pos + 2 = b
        BY <1>1, <1>2, <1>3, <1>6, <2>4, <2>8
      <3>2. rCrc = F
        BY <1>0, <1>4, <1>6, <1>8, <2>8, SameSequence
      <3>3. Tok(1) = Tag(EndRecord) /\ Tok(2) = Crc(F)
        BY <1>7, <2>5, <2>7, <3>1
      <3> QED
        BY <1>0, <1>5, <1>8, <3>2, <3>3 DEF AtEndRecord
    <2>9. CASE L # Len(F)
      <3>1. Even(Len(F))
        BY <1>6 DEF PairsOf
      <3>2. L + 2 <= Len(F)
        BY <1>1, <1>4, <1>6, <1>8, <2>9, <3>1 DEF Even
      <3>3. L + 1 \in 1 .. Len(F) /\ L + 2 \in 1 .. Len(F) /\ L + 1 + 1 = L + 2
            /\ pos + 1 = a + (L + 1) /\ pos + 2 = a + (L + 2)
        BY <1>1, <1>2, <1>3, <1>6, <3>2
      <3>4. Tok(1) = F[L + 1] /\ Tok(2) = F[L + 2]
        BY <1>7, <2>6, <3>3
      <3>5. ~Even(L + 1)
        BY <1>1, <1>4, EvenFacts
      <3>6. \E c \in 1 .. NumColumns : F[L + 1] = Tag(c) /\ F[L + 1 + 1] = Val(written[k + 1][c])
        BY <1>6, <3>3, <3>5 DEF PairsOf
      <3>7. \E c \in Columns : \E v : F[L + 1] = Tag(c) /\ F[L + 2] = Val(v)
        BY <3>3, <3>6 DEF Columns
      <3>8. InFields(F)
        BY <1>0, <1>8, <3>2, <3>4, <3>7 DEF InFields
      <3> QED
        BY <1>0, <1>5, <1>8, <3>8
    <2> QED
      BY <2>8, <2>9
  <1>9. CASE k = Len(written) /\ rCrc = <<>>
    <2>1. ~poisoned /\ e[Len(written)] = Body
      BY DEF Reader, Layout
    <2>2. L = 0
      BY <1>0, <1>9, EmptySequence
    <2>3. pos = Len(wire) - 4
      BY <1>0, <1>1, <1>2, <1>9, <2>1, <2>2
    <2>4. /\ pos + 1 = Len(wire) - 3 /\ pos + 2 = Len(wire) - 2
          /\ pos + 3 = Len(wire) - 1 /\ pos + 4 = Len(wire)
      BY <1>1, <2>3
    <2>5. /\ wire[Len(wire) - 3] = Tag(MetaCount) /\ wire[Len(wire) - 2] = Num(Len(written))
          /\ wire[Len(wire) - 1] = Tag(MetaChecksum) /\ wire[Len(wire)] = Crc(wCrcs)
      BY DEF Reader, Footer
    <2>6. AtFooter
      BY <1>0, <1>7, <1>9, <2>3, <2>4, <2>5 DEF AtFooter
    <2> QED
      BY <2>6
  <1>10. \/ k < Len(written) /\ L <= Len(F) /\ \A i \in 1 .. L : rCrc[i] = F[i]
         \/ k = Len(written) /\ rCrc = <<>>
    BY <1>0, <1>5 DEF Reader, Follows
  <1> QED
    BY <1>8, <1>9, <1>10

\* The writer and the network are done when the reader reads.
LEMMA ReadFrame ==
  ASSUME NEW e, Reader(e), UNCHANGED <<writeVars, net, cleanEnd, phase>>
  PROVE  WriterType' /\ Footer' /\ Layout(e)' /\ phase' = "read" /\ Delivered'
  <1>1. /\ wire' = wire /\ wCrc' = wCrc /\ wCrcs' = wCrcs /\ written' = written /\ poisoned' = poisoned
        /\ net' = net /\ cleanEnd' = cleanEnd /\ phase' = phase
    BY DEF writeVars
  <1>2. Body' = Body
    BY <1>1 DEF Body
  <1>3. WriterType' /\ Footer' /\ Delivered' /\ phase' = "read"
    <2>1. WriterType'
      BY <1>1, <1>2 DEF Reader, WriterType
    <2>2. Footer'
      BY <1>1 DEF Reader, Footer
    <2>3. Delivered'
      <3>1. Delivered
        BY DEF Reader
      <3>2. net' = net /\ wire' = wire /\ cleanEnd' = cleanEnd
        BY <1>1
      <3>3. \E d : \A i \in 1 .. Len(net') : i # d => net'[i] = wire'[i]
        BY <3>1, <3>2 DEF Delivered
      <3>4. \A i \in 1 .. Len(net') :
              /\ net'[i].t = wire'[i].t
              /\ net'[i].t = "crc" => net'[i] = wire'[i] \/ net'[i] = Crc(<<Num(-1)>>)
        BY <3>1, <3>2 DEF Delivered
      <3>5. IsSequence(net') /\ Len(net') <= Len(wire') /\ cleanEnd' \in BOOLEAN
            /\ (Len(net') = Len(wire') => cleanEnd')
        BY <3>1, <3>2 DEF Delivered
      <3> QED
        BY <3>3, <3>4, <3>5 DEF Delivered
    <2> QED
      BY <1>1, <2>1, <2>2, <2>3 DEF Reader
  <1>4. \A j : Clean(e, j)' <=> Clean(e, j)
    BY <1>1 DEF Clean
  <1>5. Layout(e)'
    BY <1>1, <1>2, <1>4 DEF Reader, Layout
  <1> QED
    BY <1>3, <1>5

LEMMA FieldStep ==
  ASSUME NEW e, Reader(e), ReadField
  PROVE  Reader(e)'
  <1>1. /\ Left > 1 /\ Tok(1).n \in Columns /\ verdict = "none" /\ verdict' = verdict
        /\ rCrc' = rCrc \o FieldCrc(Tok(1).n, Tok(2))
        /\ record' = [record EXCEPT ![Tok(1).n] = Tok(2).v]
        /\ pos' = pos + 2 /\ rCrcs' = rCrcs /\ got' = got
        /\ UNCHANGED <<writeVars, net, cleanEnd, phase>>
    BY DEF ReadField, Reading, ReadOn
  <1>2. WriterType' /\ Footer' /\ Layout(e)' /\ phase' = "read" /\ Delivered'
    BY <1>1, ReadFrame
  <1>3. wire' = wire /\ net' = net /\ written' = written /\ wCrcs' = wCrcs /\ poisoned' = poisoned
    BY <1>1 DEF writeVars
  <1>4. PairsRead'
    BY <1>1, PairIsRead DEF Reader
  <1>5. PICK L, c, x, n : L = Len(rCrc) /\ c = Tok(1).n /\ x = AsValue(Tok(2)) /\ n = Len(net)
    OBVIOUS
  <1>6. L \in Nat /\ n \in Nat /\ pos \in Nat /\ pos + 2 <= n
    BY <1>1, <1>5, Places DEF Left
  <1>7. PICK u : u = rCrc \o <<Tag(c), x>>
    OBVIOUS
  <1>8. rCrc' = u
    BY <1>1, <1>5, <1>7 DEF FieldCrc
  <1>9. /\ Len(u) = L + 2 /\ u[L + 1] = Tag(c) /\ u[L + 2] = x
        /\ \A i \in 1 .. L : u[i] = rCrc[i]
    <2>1. IsSequence(rCrc)
      BY DEF Reader, PairsRead
    <2> QED
      BY <1>5, <1>7, <2>1, TwoMore
  <1>10. RecordsRead(e)'
    <2>1. PICK k, a : k = Len(got) /\ a = e[k]
      OBVIOUS
    <2>2. k <= Len(written) /\ pos = a + L
      <3>1. pos # n
        BY <1>6
      <3> QED
        BY <1>5, <2>1, <3>1 DEF Reader, RecordsRead
    <2>3. a \in Nat
      <3>1. k \in 0 .. Len(written)
        BY <2>1, <2>2, Places
      <3> QED
        BY <2>1, <3>1, Places
    <2>4. pos' = a + (L + 2) /\ pos' \in 0 .. n
      BY <1>1, <1>6, <2>2, <2>3
    <2>5. pos' = e[Len(got')] + Len(rCrc')
      BY <1>1, <1>8, <1>9, <2>1, <2>4
    <2>6. pos' \in 0 .. Len(net')
      BY <1>3, <1>5, <2>4
    <2> QED
      BY <1>1, <1>3, <2>5, <2>6 DEF Reader, RecordsRead
  <1>11. Tok(1) # Tag(MetaCount) /\ Tok(1) # Tag(MetaChecksum) /\ Tok(1) # Tag(EndRecord)
    <2>1. MetaCount \notin Columns /\ MetaChecksum \notin Columns /\ EndRecord \notin Columns
      BY ProtocAssumption DEF Columns, MetaCount, MetaChecksum, EndRecord
    <2> QED
      BY <1>1, <2>1 DEF Tag
  <1>12. FooterRead'
    <2>1. verdict' # "eof"
      BY <1>1
    <2>2. ASSUME Len(net) = Len(wire)
          PROVE  /\ pos + 2 # Len(net)
                 /\ pos + 2 = Len(net) - 2 => net[Len(net) - 3] # Tag(MetaCount)
      BY <1>1, <1>11, <2>2, FooterIsMet
    <2> QED
      BY <1>1, <1>3, <2>1, <2>2 DEF FooterRead
  <1>13. Follows'
    <2> SUFFICES ASSUME net = wire, ~poisoned
                 PROVE  LET k == Len(got')
                            F == Fields(written'[k + 1])
                        IN  k < Len(written') /\ Len(rCrc') <= Len(F) /\ \A i \in 1 .. Len(rCrc') : rCrc'[i] = F[i]
      BY <1>1, <1>3 DEF Follows
    <2>1. PICK k, F : k = Len(got) /\ F = Fields(written[k + 1])
      OBVIOUS
    <2>2. pos # Len(net)
      BY <1>5, <1>6
    <2>3. k < Len(written) /\ InFields(F)
      BY <1>11, <2>1, <2>2, NextToken DEF AtEndRecord, AtFooter
    <2>4. PICK d, v : d \in Columns /\ Tok(1) = Tag(d) /\ Tok(2) = Val(v)
      BY <2>3 DEF InFields
    <2>5. Tag(c) = F[L + 1] /\ x = F[L + 2]
      <3>1. c = d /\ x = Val(v)
        BY <1>5, <2>4 DEF Tag, Val, AsValue
      <3> QED
        BY <1>5, <2>3, <2>4, <3>1 DEF InFields
    <2>6. L + 2 <= Len(F) /\ \A i \in 1 .. L : rCrc[i] = F[i]
      BY <1>5, <2>3 DEF InFields
    <2>7. \A i \in 1 .. L + 2 : u[i] = F[i]
      <3>1. \A i \in 1 .. L + 2 : i \in 1 .. L \/ i = L + 1 \/ i = L + 2
        BY <1>6
      <3> QED
        BY <1>9, <2>5, <2>6, <3>1
    <2> QED
      BY <1>1, <1>3, <1>8, <1>9, <2>1, <2>3, <2>6, <2>7
  <1> QED
    BY <1>2, <1>4, <1>10, <1>12, <1>13 DEF Reader

\* The end of a record: the checksum matches, and the record is the next one written, or
\* the reader stops with an error, which in a whole stream does not happen.
LEMMA EndRecordStep ==
  ASSUME NEW e, Reader(e), ReadEndRecord
  PROVE  Reader(e)'
  <1>1. /\ Left > 1 /\ Tok(1) = Tag(EndRecord) /\ verdict = "none"
        /\ UNCHANGED <<writeVars, net, cleanEnd, phase>>
    BY DEF ReadEndRecord, Reading
  <1>2. WriterType' /\ Footer' /\ Layout(e)' /\ phase' = "read" /\ Delivered'
    BY <1>1, ReadFrame
  <1>3. wire' = wire /\ net' = net /\ written' = written /\ wCrcs' = wCrcs /\ poisoned' = poisoned
    BY <1>1 DEF writeVars
  <1>4. PICK k, n : k = Len(got) /\ n = Len(net)
    OBVIOUS
  <1>5. k \in Nat /\ Len(written) \in Nat /\ n \in Nat /\ pos \in Nat /\ pos + 2 <= n
    BY <1>1, <1>4, Places DEF Left
  <1>6. CASE Tok(2) = Crc(rCrc)
    <2>1. /\ got' = Append(got, record) /\ rCrc' = <<>> /\ rCrcs' = Append(rCrcs, Crc(rCrc))
          /\ record' = NoFields /\ pos' = pos + 2 /\ verdict' = verdict
      BY <1>6 DEF ReadEndRecord, RecordCrcMatches, ReadOn
    <2>2. /\ k < Len(written) /\ pos + 2 = e[k + 1]
          /\ wCrcs[k + 1] = Crc(rCrc) /\ record = written[k + 1]
      BY <1>1, <1>4, <1>6, ChecksumIsNext
    <2>3. k + 1 \in 1 .. Len(written) /\ k + 1 <= Len(written)
      BY <1>5, <2>2
    <2>4. written[k + 1] \in Records
      BY <2>3 DEF Reader, WriterType
    <2>5. /\ got' \in Seq(Records) /\ Len(got') = k + 1
          /\ \A i \in 1 .. k : got'[i] = got[i]
          /\ got'[k + 1] = written[k + 1]
      <3>1. got \in Seq(Records)
        BY DEF Reader, RecordsRead
      <3> QED
        BY <1>4, <2>1, <2>2, <2>4, <3>1
    <2>6. \A i \in 1 .. k + 1 : i \in 1 .. k \/ i = k + 1
      BY <1>5
    <2>7. IsSequence(rCrcs) /\ Len(rCrcs) = k
      BY <1>4 DEF Reader, RecordsRead
    <2>8. IsSequence(rCrcs')
      BY <2>1, <2>7, OneMore
    <2>9. /\ Len(rCrcs') = k + 1 /\ rCrcs'[k + 1] = Crc(rCrc)
          /\ \A i \in 1 .. k : rCrcs'[i] = rCrcs[i]
      BY <2>1, <2>7, OneMore
    <2>10. PairsRead'
      <3>1. IsSequence(rCrc') /\ Len(rCrc') = 0 /\ Even(0)
        BY <2>1, EmptySequence, EvenFacts
      <3>2. record' = [c \in Columns |-> Null]
        BY <2>1 DEF NoFields
      <3> QED
        BY <3>1, <3>2 DEF PairsRead
    <2>11. RecordsRead(e)'
      <3>1. \A i \in 1 .. k + 1 : got'[i] = written'[i]
        <4>1. \A i \in 1 .. k : got[i] = written[i]
          BY <1>4 DEF Reader, RecordsRead
        <4> QED
          BY <1>3, <2>5, <2>6, <4>1
      <3>2. \A i \in 1 .. k + 1 : rCrcs'[i] = wCrcs'[i]
        <4>1. \A i \in 1 .. k : rCrcs[i] = wCrcs[i]
          BY <1>4 DEF Reader, RecordsRead
        <4> QED
          BY <1>3, <2>2, <2>6, <2>9, <4>1
      <3>3. pos' \in 0 .. Len(net')
        BY <1>3, <1>4, <1>5, <2>1
      <3>4. pos' = e[Len(got')] + Len(rCrc')
        <4>1. e[k + 1] \in Nat
          <5>1. k + 1 \in 0 .. Len(written)
            BY <1>5, <2>3
          <5> QED
            BY <5>1, Places
        <4>2. pos' = e[k + 1] /\ Len(rCrc') = 0
          BY <2>1, <2>2, EmptySequence
        <4>3. e[k + 1] + 0 = e[k + 1]
          BY <4>1
        <4> QED
          BY <2>5, <4>2, <4>3
      <3> QED
        BY <1>3, <2>3, <2>5, <2>8, <2>9, <3>1, <3>2, <3>3, <3>4 DEF RecordsRead
    <2>12. FooterRead'
      <3>1. Tok(1) # Tag(MetaCount) /\ Tok(1) # Tag(MetaChecksum)
        BY <1>1 DEF Tag, EndRecord, MetaCount, MetaChecksum
      <3>2. verdict' # "eof"
        BY <1>1, <2>1
      <3>3. ASSUME Len(net) = Len(wire)
            PROVE  /\ pos + 2 # Len(net)
                   /\ pos + 2 = Len(net) - 2 => net[Len(net) - 3] # Tag(MetaCount)
        BY <1>1, <3>1, <3>3, FooterIsMet
      <3> QED
        BY <1>3, <2>1, <3>2, <3>3 DEF FooterRead
    <2>13. Follows'
      <3> SUFFICES ASSUME net = wire, ~poisoned
                   PROVE  LET F == Fields(written'[Len(got') + 1])
                          IN  \/ /\ Len(got') < Len(written') /\ Len(rCrc') <= Len(F)
                                 /\ \A i \in 1 .. Len(rCrc') : rCrc'[i] = F[i]
                              \/ Len(got') = Len(written') /\ rCrc' = <<>>
        BY <1>1, <1>3, <2>1 DEF Follows
      <3>1. PICK F : F = Fields(written'[Len(got') + 1])
        OBVIOUS
      <3>2. Len(F) \in Nat
        <4>1. NumColumns + 1 \in 1 .. NumColumns + 1
          BY ProtocAssumption
        <4> QED
          BY <3>1, <4>1, FieldTokens DEF Fields
      <3>3. Len(rCrc') = 0 /\ Len(rCrc') <= Len(F) /\ \A i \in 1 .. Len(rCrc') : rCrc'[i] = F[i]
        BY <2>1, <3>2, EmptySequence
      <3>4. Len(got') < Len(written') \/ Len(got') = Len(written')
        BY <1>3, <1>5, <2>3, <2>5
      <3> QED
        BY <2>1, <3>1, <3>3, <3>4
    <2> QED
      BY <1>2, <2>10, <2>11, <2>12, <2>13 DEF Reader
  <1>7. CASE Tok(2) # Crc(rCrc)
    <2>1. verdict' = "error" /\ UNCHANGED <<pos, rCrc, rCrcs, record, got>>
      BY <1>7 DEF ReadEndRecord, RecordCrcMatches, Ends
    <2>2. ~(net = wire /\ ~poisoned)
      <3> SUFFICES ASSUME net = wire, ~poisoned PROVE FALSE
        OBVIOUS
      <3>1. pos # Len(net)
        BY <1>4, <1>5
      <3>2. \A c \in Columns : Tag(c) # Tag(EndRecord)
        BY DEF Tag, EndRecord, Columns
      <3>3. Tag(MetaCount) # Tag(EndRecord)
        BY DEF Tag, EndRecord, MetaCount
      <3> QED
        BY <1>1, <1>7, <3>1, <3>2, <3>3, NextToken DEF InFields, AtEndRecord, AtFooter
    <2>3. PairsRead' /\ RecordsRead(e)'
      BY <1>3, <2>1 DEF Reader, PairsRead, RecordsRead
    <2>4. FooterRead' /\ Follows'
      BY <1>3, <2>1, <2>2 DEF Reader, FooterRead, Follows
    <2> QED
      BY <1>2, <2>3, <2>4 DEF Reader
  <1> QED
    BY <1>6, <1>7

\* The footer: at most one of the count and the checksum is damaged, and either tells
\* that all records were read.
LEMMA MetaStep ==
  ASSUME NEW e, Reader(e), ReadMeta
  PROVE  Reader(e)'
  <1>1. /\ Left > 1 /\ Tok(1) = Tag(MetaCount) /\ verdict = "none"
        /\ UNCHANGED <<writeVars, net, cleanEnd, phase, rCrc, rCrcs, record, got>>
    BY DEF ReadMeta, Reading
  <1>2. WriterType' /\ Footer' /\ Layout(e)' /\ phase' = "read" /\ Delivered'
    BY <1>1, ReadFrame
  <1>3. /\ wire' = wire /\ net' = net /\ written' = written /\ wCrcs' = wCrcs /\ poisoned' = poisoned
        /\ cleanEnd' = cleanEnd /\ rCrc' = rCrc /\ rCrcs' = rCrcs /\ record' = record /\ got' = got
    BY <1>1 DEF writeVars
  <1>4. PICK k, n : k = Len(got) /\ n = Len(net)
    OBVIOUS
  <1>5. /\ k \in Nat /\ Len(written) \in Nat /\ n \in Nat /\ pos \in Nat /\ pos + 2 <= n
        /\ Left = n - pos /\ Len(wire) \in Nat /\ n <= Len(wire) /\ Len(wire) >= 4
    BY <1>1, <1>4, Places DEF Left
  <1>6. PairsRead'
    BY <1>3 DEF Reader, PairsRead
  <1>7. PICK sum : sum = IF Left > 3 THEN Tok(4) ELSE Crc(<<>>)
    OBVIOUS
  <1>8. IF /\ Tok(2) = Num(k) /\ Left > 2 /\ Tok(3) = Tag(MetaChecksum)
           /\ sum = Crc(rCrcs) /\ Left <= 4
        THEN pos' = n /\ verdict' = verdict
        ELSE /\ verdict' = IF Tok(2) = Num(k) /\ Left = 2 THEN EndOfStream(cleanEnd) ELSE "error"
             /\ pos' = pos
    BY <1>4, <1>7 DEF ReadMeta, Ends
  <1>9. CASE /\ Tok(2) = Num(k) /\ Left > 2 /\ Tok(3) = Tag(MetaChecksum)
             /\ sum = Crc(rCrcs) /\ Left <= 4
    <2>1. pos' = n /\ verdict' = "none"
      BY <1>1, <1>8, <1>9
    <2>2. RecordsRead(e)'
      <3>1. pos' \in 0 .. Len(net') /\ pos' = Len(net')
        BY <1>3, <1>4, <1>5, <2>1
      <3> QED
        BY <1>3, <3>1 DEF Reader, RecordsRead
    <2>3. ASSUME n = Len(wire) PROVE got = written
      <3>1. n - 3 \in 1 .. n /\ n - 2 \in 1 .. n /\ n - 2 # n /\ n \in 1 .. n
        BY <1>5, <2>3
      <3>2. \A i \in 1 .. n : net[i].t = wire[i].t
        BY <1>4 DEF Reader, Delivered
      <3>3. /\ wire[n - 2] = Num(Len(written)) /\ wire[n] = Crc(wCrcs)
        BY <2>3 DEF Reader, Footer
      <3>4. Left = 4
        <4>1. Left = 3 \/ Left = 4
          BY <1>5, <1>9
        <4>2. Left # 3
          <5> SUFFICES ASSUME Left = 3 PROVE FALSE
            OBVIOUS
          <5>1. pos + 1 = n - 2
            BY <1>5
          <5>2. net[n - 2] = Tag(MetaCount)
            BY <1>1, <5>1 DEF Tok
          <5> QED
            BY <3>1, <3>2, <3>3, <5>2 DEF Tag, Num
        <4> QED
          BY <4>1, <4>2
      <3>5. pos + 2 = n - 2 /\ pos + 4 = n
        BY <1>5, <3>4
      <3>6. net[n - 2] = Num(k) /\ net[n] = Crc(rCrcs)
        BY <1>7, <1>9, <3>4, <3>5 DEF Tok
      <3>7. net[n - 2] = wire[n - 2] \/ net[n] = wire[n]
        <4>1. PICK d : \A i \in 1 .. n : i # d => net[i] = wire[i]
          BY <1>4 DEF Reader, Delivered
        <4> QED
          BY <3>1, <4>1
      <3>8. Len(rCrcs) = k /\ Len(wCrcs) = Len(written)
        BY <1>4 DEF Reader, RecordsRead, WriterType
      <3>9. k = Len(written)
        <4>1. CASE net[n - 2] = wire[n - 2]
          BY <3>3, <3>6, <4>1 DEF Num
        <4>2. CASE net[n] = wire[n]
          <5>1. rCrcs = wCrcs
            BY <3>3, <3>6, <4>2 DEF Crc
          <5> QED
            BY <3>8, <5>1
        <4> QED
          BY <3>7, <4>1, <4>2
      <3>10. got \in Seq(Records) /\ written \in Seq(Records) /\ \A i \in 1 .. k : got[i] = written[i]
        BY <1>4 DEF Reader, RecordsRead, WriterType
      <3>11. IsSequence(got) /\ IsSequence(written)
        BY <3>10 DEF IsSequence
      <3> QED
        BY <1>4, <3>9, <3>10, <3>11, SameSequence
    <2>4. FooterRead'
      <3>1. Len(net) = Len(wire) => pos' # Len(net) - 2 /\ got = written
        BY <1>4, <1>5, <2>1, <2>3
      <3> QED
        BY <1>3, <2>1, <3>1 DEF FooterRead
    <2>5. Follows'
      BY <1>3, <1>4, <2>1 DEF Reader, Follows
    <2> QED
      BY <1>2, <1>6, <2>2, <2>4, <2>5 DEF Reader
  <1>10. CASE ~(/\ Tok(2) = Num(k) /\ Left > 2 /\ Tok(3) = Tag(MetaChecksum)
               /\ sum = Crc(rCrcs) /\ Left <= 4)
    <2>1. /\ pos' = pos
          /\ verdict' = IF Tok(2) = Num(k) /\ Left = 2 THEN EndOfStream(cleanEnd) ELSE "error"
      BY <1>8, <1>10
    <2>2. RecordsRead(e)'
      BY <1>3, <2>1 DEF Reader, RecordsRead
    <2>3. verdict' = "eof" => EndedEarly
      <3> SUFFICES ASSUME verdict' = "eof" PROVE EndedEarly
        OBVIOUS
      <3>1. Tok(2) = Num(k) /\ Left = 2 /\ cleanEnd
        BY <2>1 DEF EndOfStream
      <3>2. n # Len(wire)
        <4> SUFFICES ASSUME n = Len(wire) PROVE FALSE
          OBVIOUS
        <4>1. pos + 2 = n /\ n \in 1 .. n
          BY <1>5, <3>1
        <4>2. net[n] = Num(k)
          BY <3>1, <4>1 DEF Tok
        <4>3. wire[n] = Crc(wCrcs) /\ net[n].t = wire[n].t
          BY <1>4, <4>1 DEF Reader, Footer, Delivered
        <4> QED
          BY <4>2, <4>3 DEF Num, Crc
      <3> QED
        BY <1>4, <1>5, <3>1, <3>2 DEF EndedEarly
    <2>4. FooterRead'
      BY <1>3, <2>1, <2>3 DEF Reader, FooterRead, EndedEarly
    <2>5. ~(net = wire /\ ~poisoned)
      <3> SUFFICES ASSUME net = wire, ~poisoned PROVE FALSE
        OBVIOUS
      <3>1. pos # Len(net)
        BY <1>4, <1>5
      <3>2. (\A c \in Columns : Tag(c) # Tag(MetaCount)) /\ Tag(EndRecord) # Tag(MetaCount)
        BY DEF Tag, EndRecord, MetaCount, Columns
      <3>3. AtFooter
        BY <1>1, <3>1, <3>2, NextToken DEF InFields, AtEndRecord
      <3>4. Left = 4
        BY <1>4, <1>5, <3>3 DEF AtFooter
      <3>5. sum = Crc(wCrcs) /\ Tok(2) = Num(k) /\ Tok(3) = Tag(MetaChecksum)
        BY <1>4, <1>7, <3>3, <3>4 DEF AtFooter
      <3>6. rCrcs = wCrcs
        <4>1. /\ IsSequence(rCrcs) /\ IsSequence(wCrcs) /\ Len(rCrcs) = k /\ Len(wCrcs) = k
              /\ \A i \in 1 .. k : rCrcs[i] = wCrcs[i]
          BY <1>4, <3>3 DEF Reader, RecordsRead, WriterType, AtFooter
        <4> QED
          BY <4>1, SameSequence
      <3> QED
        BY <1>10, <3>4, <3>5, <3>6
    <2>6. Follows'
      BY <1>3, <2>5 DEF Follows
    <2> QED
      BY <1>2, <1>6, <2>2, <2>4, <2>6 DEF Reader
  <1> QED
    BY <1>9, <1>10

\* The reader stops at what is no tag, and where the stream ends.
LEMMA StopStep ==
  ASSUME NEW e, Reader(e), ReadPastEnd \/ BadTag
  PROVE  Reader(e)'
  <1>1. /\ verdict = "none"
        /\ UNCHANGED <<writeVars, net, cleanEnd, phase, pos, rCrc, rCrcs, record, got>>
    BY DEF ReadPastEnd, BadTag, Reading
  <1>2. WriterType' /\ Footer' /\ Layout(e)' /\ phase' = "read" /\ Delivered'
    BY <1>1, ReadFrame
  <1>3. /\ wire' = wire /\ net' = net /\ written' = written /\ wCrcs' = wCrcs /\ poisoned' = poisoned
        /\ cleanEnd' = cleanEnd /\ rCrc' = rCrc /\ rCrcs' = rCrcs /\ record' = record /\ got' = got
        /\ pos' = pos
    BY <1>1 DEF writeVars
  <1>4. PairsRead' /\ RecordsRead(e)'
    BY <1>3 DEF Reader, PairsRead, RecordsRead
  <1>5. PICK n : n = Len(net)
    OBVIOUS
  <1>6. /\ n \in Nat /\ pos \in Nat /\ pos <= n /\ Left = n - pos
        /\ Len(wire) \in Nat /\ n <= Len(wire) /\ Len(wire) >= 4
    BY <1>5, Places DEF Left
  <1>7. verdict' = "eof" => got = written \/ EndedEarly
    <2> SUFFICES ASSUME verdict' = "eof" PROVE got = written \/ EndedEarly
      OBVIOUS
    <2>1. ReadPastEnd
      BY DEF BadTag, Ends
    <2>2. cleanEnd /\ (Left = 0 \/ (Left = 1 /\ Tok(1).t = "tag"))
      BY <2>1 DEF ReadPastEnd, Ends, EndOfStream
    <2>3. CASE n = Len(wire)
      <3>1. Left # 1 \/ Tok(1).t # "tag"
        <4> SUFFICES ASSUME Left = 1, Tok(1).t = "tag" PROVE FALSE
          OBVIOUS
        <4>1. pos + 1 = n /\ n \in 1 .. n
          BY <1>6, <2>3
        <4>2. net[n].t = "tag"
          BY <4>1 DEF Tok
        <4>3. wire[n] = Crc(wCrcs) /\ net[n].t = wire[n].t
          BY <1>5, <2>3, <4>1 DEF Reader, Footer, Delivered
        <4> QED
          BY <4>2, <4>3 DEF Crc
      <3>2. pos = Len(net)
        BY <1>5, <1>6, <2>2, <3>1
      <3> QED
        BY <1>5, <2>3, <3>2 DEF Reader, FooterRead
    <2>4. CASE n # Len(wire)
      BY <1>5, <1>6, <2>2, <2>4 DEF EndedEarly
    <2> QED
      BY <2>3, <2>4
  <1>8. FooterRead'
    BY <1>3, <1>7 DEF Reader, FooterRead, EndedEarly
  <1>9. ASSUME net = wire, ~poisoned PROVE verdict' # "error"
    <2>1. CASE ReadPastEnd
      <3>1. cleanEnd
        BY <1>9 DEF Reader, Delivered
      <3> QED
        BY <2>1, <3>1 DEF ReadPastEnd, Ends, EndOfStream
    <2>2. CASE BadTag
      <3>1. Left > 0 /\ (Tok(1).t # "tag" \/ Tok(1).n = MetaChecksum)
        BY <2>2 DEF BadTag
      <3>2. pos # Len(net)
        BY <1>5, <1>6, <3>1
      <3>3. Tok(1) = Tag(EndRecord) \/ Tok(1) = Tag(MetaCount) \/ \E c \in Columns : Tok(1) = Tag(c)
        BY <1>9, <3>2, NextToken DEF InFields, AtEndRecord, AtFooter
      <3>4. MetaChecksum \notin Columns
        BY ProtocAssumption DEF Columns, MetaChecksum
      <3> QED
        BY <3>1, <3>3, <3>4 DEF Tag, EndRecord, MetaCount, MetaChecksum
    <2> QED
      BY <2>1, <2>2
  <1>10. Follows'
    BY <1>3, <1>9 DEF Reader, Follows
  <1> QED
    BY <1>2, <1>4, <1>8, <1>10 DEF Reader

-----------------------------------------------------------------------------
(* The inductive invariant and the theorems.                                *)

\* A stream that has just arrived, of which nothing has been read.
LEMMA Arrival ==
  ASSUME WriterType, Footer, NotReading, NEW e, Layout(e), Transfer
  PROVE  Reader(e)'
  <1>1. /\ phase = "closed" /\ phase' = "read" /\ UNCHANGED writeVars
        /\ pos' = 0 /\ rCrc' = <<>> /\ rCrcs' = <<>> /\ record' = NoFields
        /\ got' = <<>> /\ verdict' = "none"
    BY DEF Transfer, readVars, NotReading
  <1>2. /\ wire' = wire /\ wCrc' = wCrc /\ wCrcs' = wCrcs /\ written' = written /\ poisoned' = poisoned
    BY <1>1 DEF writeVars
  <1>3. Body' = Body /\ Body = Len(wire) - 4 /\ Body \in Nat /\ Len(wire) \in Nat
    BY <1>1, <1>2, SequenceFacts DEF Body, WriterType
  <1>4. WriterType'
    BY <1>1, <1>2, <1>3 DEF WriterType
  <1>5. Footer'
    BY <1>1, <1>2 DEF Footer
  <1>6. Layout(e)'
    <2>1. \A j : Clean(e, j)' <=> Clean(e, j)
      BY <1>2 DEF Clean
    <2> QED
      BY <1>2, <1>3, <2>1 DEF Layout
  <1>7. Delivered'
    BY TransferStep
  <1>8. PairsRead'
    <2>1. IsSequence(rCrc') /\ Len(rCrc') = 0 /\ Even(0)
      BY <1>1, EmptySequence, EvenFacts
    <2>2. record' = [c \in Columns |-> Null]
      BY <1>1 DEF NoFields
    <2> QED
      BY <2>1, <2>2 DEF PairsRead
  <1>9. Len(got') = 0 /\ Len(rCrc') = 0 /\ Len(rCrcs') = 0 /\ IsSequence(rCrcs')
    BY <1>1, EmptySequence
  <1>10. RecordsRead(e)'
    <2>1. got' \in Seq(Records) /\ Len(written') \in Nat
      BY <1>1, <1>4 DEF WriterType
    <2>2. pos' \in 0 .. Len(net')
      <3>1. IsSequence(net')
        BY <1>7 DEF Delivered
      <3>2. Len(net') \in Nat
        BY <3>1, SequenceFacts
      <3> QED
        BY <1>1, <3>2
    <2>3. pos' = e[Len(got')] + Len(rCrc')
      <3>1. e[0] = 0
        BY DEF Layout
      <3> QED
        BY <1>1, <1>9, <3>1
    <2> QED
      BY <1>9, <2>1, <2>2, <2>3 DEF RecordsRead
  <1>11. FooterRead'
    <2>1. PICK n : n = Len(net')
      OBVIOUS
    <2>2. n = Len(wire') => n >= 4 /\ n \in Nat
      BY <1>2, <1>3
    <2>3. n = Len(wire') => pos' # n - 2 /\ pos' # n
      BY <1>1, <2>2
    <2> QED
      BY <1>1, <2>1, <2>3 DEF FooterRead
  <1>12. Follows'
    <2>1. PICK F : F = Fields(written'[Len(got') + 1])
      OBVIOUS
    <2>2. Len(F) \in Nat
      <3>1. NumColumns + 1 \in 1 .. NumColumns + 1
        BY ProtocAssumption
      <3> QED
        BY <2>1, <3>1, FieldTokens DEF Fields
    <2>3. Len(rCrc') <= Len(F) /\ \A i \in 1 .. Len(rCrc') : rCrc'[i] = F[i]
      BY <1>9, <2>2
    <2>4. Len(got') < Len(written') \/ Len(got') = Len(written')
      <3>1. Len(written') \in Nat
        BY <1>4 DEF WriterType
      <3> QED
        BY <1>9, <3>1
    <2>5. verdict' # "error"
      BY <1>1
    <2> QED
      BY <1>1, <2>1, <2>3, <2>4, <2>5 DEF Follows
  <1> QED
    BY <1>1, <1>4, <1>5, <1>6, <1>7, <1>8, <1>10, <1>11, <1>12 DEF Reader

LEMMA InvInit == Init => Inv
  <1> SUFFICES ASSUME Init PROVE Inv
    OBVIOUS
  <1>1. IsSequence(<<>>) /\ Len(<<>>) = 0
    BY EmptySequence
  <1>2. written \in Seq(Records)
    BY DEF Init
  <1>3. Body = 0
    BY <1>1 DEF Init, Body
  <1>4. WriterType
    <2>1. /\ IsSequence(wire) /\ IsSequence(wCrc) /\ IsSequence(wCrcs)
          /\ Len(wire) = 0 /\ Len(wCrcs) = Len(written)
      BY <1>1 DEF Init
    <2>2. \A i \in 1 .. Len(wire) : wire[i].t \in {"tag", "val", "num", "crc"}
      BY <2>1
    <2>3. phase = "write" /\ poisoned = FALSE
      BY DEF Init
    <2> QED
      BY <1>2, <1>3, <2>1, <2>2, <2>3 DEF WriterType
  <1>5. Footer /\ phase # "read" /\ NotReading
    BY DEF Init, Footer, NotReading
  <1>6. Layout([j \in 0 .. 0 |-> 0])
    <2>1. PICK e : e = [j \in 0 .. 0 |-> 0]
      OBVIOUS
    <2>2. e \in [0 .. Len(written) -> 0 .. Body] /\ e[0] = 0 /\ Len(written) = 0
      BY <1>1, <1>3, <2>1 DEF Init
    <2>3. \A i, j \in 0 .. Len(written) : ~ (i < j)
      BY <2>2
    <2>4. wCrc = <<>> /\ e[Len(written)] = Body
      BY <1>3, <2>2 DEF Init
    <2>5. (\A j \in 1 .. Len(written) : FALSE) /\ (\A q \in 1 .. Body : FALSE)
      BY <1>3, <2>2
    <2> QED
      BY <2>1, <2>2, <2>3, <2>4, <2>5 DEF Layout
  <1> QED
    BY <1>4, <1>5, <1>6 DEF Inv

LEMMA InvNext == Inv /\ [Next]_vars => Inv'
  <1> SUFFICES ASSUME Inv, [Next]_vars PROVE Inv'
    OBVIOUS
  <1>1. WriterType /\ Footer
    BY DEF Inv
  <1>2. PICK e : Layout(e) /\ (phase = "read" => Reader(e))
    BY DEF Inv, Reader
  <1>3. ASSUME phase = "write", phase' # "read", UNCHANGED readVars,
               WriterType', Footer', \E f : Layout(f)'
        PROVE  Inv'
    <2>1. NotReading
      BY <1>3 DEF Inv
    <2>2. NotReading'
      BY <1>3, <2>1 DEF NotReading, readVars
    <2> QED
      BY <1>3, <2>2 DEF Inv
  <1>4. ASSUME Reader(e)' PROVE Inv'
    BY <1>4 DEF Inv, Reader
  <1>5. ASSUME NEW r \in Records, Write(r) PROVE Inv'
    <2>1. phase = "write" /\ phase' = phase /\ UNCHANGED readVars
      BY <1>5 DEF Write
    <2>2. WriterType' /\ \E f : Layout(f)'
      BY <1>1, <1>2, <1>5, WriteStep
    <2>3. Footer'
      BY <2>1 DEF Footer
    <2> QED
      BY <1>3, <2>1, <2>2, <2>3
  <1>6. ASSUME NEW r \in Records, NEW c \in Columns, WriteFails(r, c) PROVE Inv'
    <2>1. phase = "write" /\ phase' = phase /\ UNCHANGED readVars
      BY <1>6 DEF WriteFails
    <2>2. WriterType' /\ Layout(e)'
      BY <1>1, <1>2, <1>6, FailStep
    <2>3. Footer'
      BY <2>1 DEF Footer
    <2> QED
      BY <1>3, <2>1, <2>2, <2>3
  <1>7. CASE Close
    <2>1. phase = "write" /\ phase' = "closed" /\ UNCHANGED readVars
      BY <1>7 DEF Close
    <2>2. WriterType' /\ Layout(e)' /\ Footer'
      BY <1>1, <1>2, <1>7, CloseStep
    <2> QED
      BY <1>3, <2>1, <2>2
  <1>8. CASE Transfer
    <2>1. phase # "read"
      BY <1>8 DEF Transfer
    <2>2. NotReading
      BY <2>1 DEF Inv
    <2> QED
      BY <1>1, <1>2, <1>4, <1>8, <2>2, Arrival
  <1>9. CASE ReadPastEnd \/ BadTag \/ ReadField \/ ReadEndRecord \/ ReadMeta
    <2>1. Reader(e)
      BY <1>2, <1>9 DEF ReadPastEnd, BadTag, ReadField, ReadEndRecord, ReadMeta, Reading
    <2>2. CASE ReadPastEnd \/ BadTag
      BY <1>4, <2>1, <2>2, StopStep
    <2>3. CASE ReadField
      BY <1>4, <2>1, <2>3, FieldStep
    <2>4. CASE ReadEndRecord
      BY <1>4, <2>1, <2>4, EndRecordStep
    <2>5. CASE ReadMeta
      BY <1>4, <2>1, <2>5, MetaStep
    <2> QED
      BY <1>9, <2>2, <2>3, <2>4, <2>5
  <1>10. CASE UNCHANGED vars
    <2>1. UNCHANGED <<wire, wCrc, wCrcs, written, poisoned, net, cleanEnd, phase>> /\ UNCHANGED readVars
      BY <1>10 DEF vars, writeVars
    <2>2. CASE phase = "read"
      <3>1. Reader(e)
        BY <1>2, <2>2
      <3>2. UNCHANGED <<writeVars, net, cleanEnd, phase>>
        BY <1>10 DEF vars
      <3>3. WriterType' /\ Footer' /\ Layout(e)' /\ phase' = "read" /\ Delivered'
        BY <3>1, <3>2, ReadFrame
      <3>4. PairsRead' /\ RecordsRead(e)' /\ FooterRead' /\ Follows'
        <4>1. /\ rCrc' = rCrc /\ rCrcs' = rCrcs /\ record' = record /\ got' = got /\ verdict' = verdict
              /\ pos' = pos /\ net' = net /\ wire' = wire /\ written' = written /\ wCrcs' = wCrcs
              /\ poisoned' = poisoned /\ cleanEnd' = cleanEnd
          BY <2>1 DEF readVars
        <4>2. PairsRead' /\ RecordsRead(e)'
          BY <3>1, <4>1 DEF Reader, PairsRead, RecordsRead
        <4> QED
          BY <3>1, <4>1, <4>2 DEF Reader, FooterRead, EndedEarly, Follows
      <3> QED
        BY <1>4, <3>3, <3>4 DEF Reader
    <2>3. CASE phase # "read"
      <3>1. Body' = Body
        BY <2>1 DEF Body
      <3>2. WriterType' /\ Footer'
        BY <1>1, <2>1, <3>1 DEF WriterType, Footer
      <3>3. \A j : Clean(e, j)' <=> Clean(e, j)
        BY <2>1 DEF Clean
      <3>4. Layout(e)'
        BY <1>2, <2>1, <3>1, <3>3 DEF Layout
      <3>5. NotReading'
        BY <2>1, <2>3 DEF Inv, NotReading, readVars
      <3> QED
        BY <2>1, <2>3, <3>2, <3>4, <3>5 DEF Inv
    <2> QED
      BY <2>2, <2>3
  <1> QED
    BY <1>5, <1>6, <1>7, <1>8, <1>9, <1>10 DEF Next

\* Read returns the records that were written, in their order and from the first, and
\* Iterator ends without an error only after all of them or on a body that its sender ended
\* early: for every record, every failed write and every way the stream arrives.
THEOREM ReadersAreFaithful == Spec => []ReadIsFaithful
  <1>1. Inv => ReadIsFaithful
    <2> SUFFICES ASSUME Inv PROVE ReadIsFaithful
      OBVIOUS
    <2>1. CASE phase # "read"
      <3>1. got = <<>> /\ verdict = "none"
        BY <2>1 DEF Inv, NotReading
      <3>2. IsPrefix(<<>>, written)
        <4>1. written \in Seq(Records)
          BY DEF Inv, WriterType
        <4>2. SubSeq(written, 1, 0) = <<>>
          BY <4>1
        <4> QED
          BY <4>1, <4>2 DEF IsPrefix
      <3> QED
        BY <3>1, <3>2 DEF ReadIsFaithful
    <2>2. CASE phase = "read"
      <3>1. PICK e : RecordsRead(e)
        BY <2>2 DEF Inv
      <3>2. PICK k : k = Len(got)
        OBVIOUS
      <3>3. /\ got \in Seq(Records) /\ written \in Seq(Records) /\ k \in Nat /\ k <= Len(written)
            /\ \A i \in 1 .. k : got[i] = written[i]
        BY <3>1, <3>2 DEF Inv, WriterType, RecordsRead
      <3>4. PICK S : S = SubSeq(written, 1, k)
        OBVIOUS
      <3>5. S \in Seq(Records) /\ Len(S) = k /\ \A i \in 1 .. k : S[i] = written[i]
        BY <3>3, <3>4
      <3>6. S = got
        <4>1. IsSequence(S) /\ IsSequence(got)
          BY <3>3, <3>5 DEF IsSequence
        <4> QED
          BY <3>2, <3>3, <3>5, <4>1, SameSequence
      <3>7. IsPrefix(got, written)
        BY <3>2, <3>3, <3>4, <3>6 DEF IsPrefix
      <3> QED
        BY <2>2, <3>7 DEF Inv, FooterRead, ReadIsFaithful
    <2> QED
      BY <2>1, <2>2
  <1> QED
    BY <1>1, InvInit, InvNext, PTL DEF Spec

\* A stream whose writes were all good and that arrives as it was written is never taken
\* for a damaged one: no checksum, count or tag of it is refused.
THEOREM WholeStreamsAreRead == Spec => []RoundTrip
  <1>1. Inv => RoundTrip
    BY DEF Inv, NotReading, Follows, RoundTrip
  <1> QED
    BY <1>1, InvInit, InvNext, PTL DEF Spec
=============================================================================
