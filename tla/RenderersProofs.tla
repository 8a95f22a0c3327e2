--------------------------- MODULE RenderersProofs ---------------------------
(***************************************************************************)
(* Machine-checked theorems about Renderers, for every renderer, pattern   *)
(* and event, and texts of any length.                                     *)
(***************************************************************************)
EXTENDS Renderers, TLAPS, SequenceTheorems, WellFoundedInduction

-----------------------------------------------------------------------------
(* Induction over the natural numbers, with the predicate as a set: the    *)
(* library's form has an operator as parameter, but WFMin has not.         *)

LEMMA LeastNat ==
  ASSUME NEW T, T \subseteq Nat, T # {}
  PROVE  \E m \in T : \A k \in T : m <= k
  <1> DEFINE R == {ss \in Nat \X Nat : ss[1] < ss[2]}
  <1>1. IsWellFoundedOn(R, Nat)
    BY NatLessThanWellFounded, Zenon DEF OpToRel
  <1>2. \A x, y \in Nat : x < y => <<x, y>> \in R
    OBVIOUS
  <1>3. PICK m \in T : \A k \in T : ~ (<<k, m>> \in R)
    BY <1>1, WFMin, Zenon
  <1> HIDE DEF R
  <1>4. ASSUME NEW k \in T PROVE m <= k
    <2>1. m \in Nat /\ k \in Nat
      BY Zenon
    <2>2. ~ (k < m)
      BY <1>2, <1>3, <2>1, Zenon
    <2> QED
      BY <2>1, <2>2
  <1> QED
    BY <1>4

LEMMA InductionOnSets ==
  ASSUME NEW S, 0 \in S, \A m \in Nat : m \in S => m + 1 \in S
  PROVE  Nat \subseteq S
  <1> SUFFICES ASSUME Nat \ S # {} PROVE FALSE
    OBVIOUS
  <1>1. PICK m \in Nat \ S : \A k \in Nat \ S : m <= k
    BY LeastNat
  <1>2. m - 1 \in Nat /\ m - 1 \notin S
    BY <1>1
  <1> QED
    BY <1>1, <1>2

LEMMA StrongInduction ==
  ASSUME NEW S, \A m \in Nat : (\A k \in Nat : k < m => k \in S) => m \in S
  PROVE  Nat \subseteq S
  <1> SUFFICES ASSUME Nat \ S # {} PROVE FALSE
    OBVIOUS
  <1>1. PICK m \in Nat \ S : \A k \in Nat \ S : m <= k
    BY LeastNat
  <1>2. \A k \in Nat : k < m => k \in S
    BY <1>1
  <1> QED
    BY <1>1, <1>2

-----------------------------------------------------------------------------
(* Texts.                                                                  *)

LEMMA Braces ==
  LBRACE # RBRACE
  BY Zenon DEF LBRACE, RBRACE

LEMMA TextIs ==
  ASSUME NEW s \in Text
  PROVE  /\ Len(s) \in Nat /\ DOMAIN s = 1..Len(s) /\ s \in [1..Len(s) -> Symbols]
         /\ \A i \in 1..Len(s) : s[i] \in Symbols
         /\ Len(s) = 0 => s = <<>>
         /\ s # <<>> => Len(s) >= 1
  BY LenProperties, EmptySeq DEF Text

LEMMA TextEqual ==
  ASSUME NEW s \in Text, NEW u \in Text, Len(s) = Len(u), \A i \in 1..Len(s) : s[i] = u[i]
  PROVE  s = u
  BY SeqEqual DEF Text

LEMMA Concat ==
  ASSUME NEW s \in Text, NEW u \in Text
  PROVE  /\ s \o u \in Text /\ Len(s \o u) = Len(s) + Len(u)
         /\ \A i \in 1..(Len(s) + Len(u)) : (s \o u)[i] = IF i <= Len(s) THEN s[i] ELSE u[i - Len(s)]
  BY ConcatProperties DEF Text

LEMMA Assoc ==
  ASSUME NEW s \in Text, NEW u \in Text, NEW v \in Text
  PROVE  (s \o u) \o v = s \o (u \o v)
  BY ConcatAssociative DEF Text

LEMMA Empty ==
  /\ <<>> \in Text /\ Len(<<>>) = 0
  /\ \A s \in Text : s \o <<>> = s /\ <<>> \o s = s
  BY EmptySeq, ConcatEmptySeq DEF Text

LEMMA OneOf ==
  ASSUME NEW S, NEW c \in S
  PROVE  <<c>> \in Seq(S)
  OBVIOUS

LEMMA ThreeOf ==
  ASSUME NEW S, NEW a \in S, NEW b \in S, NEW c \in S
  PROVE  <<a, b, c>> \in Seq(S)
  OBVIOUS

LEMMA One ==
  ASSUME NEW c \in Symbols
  PROVE  <<c>> \in Text /\ Len(<<c>>) = 1 /\ <<c>>[1] = c
  <1>1. <<c>> \in Seq(Symbols)
    BY OneOf
  <1>2. Len(<<c>>) = 1
    OBVIOUS
  <1>3. <<c>>[1] = c
    OBVIOUS
  <1> QED
    BY <1>1, <1>2, <1>3 DEF Text

\* The part of a text from i to j.
LEMMA Part ==
  ASSUME NEW s \in Text, NEW i \in 1..(Len(s) + 1), NEW j \in (i - 1)..Len(s)
  PROVE  /\ SubSeq(s, i, j) \in Text /\ Len(SubSeq(s, i, j)) = j - i + 1
         /\ \A m \in 1..(j - i + 1) : SubSeq(s, i, j)[m] = s[i + m - 1]
  <1>1. i \in Int /\ j \in Int /\ \A m \in i..j : s[m] \in Symbols
    BY TextIs
  <1> QED
    BY <1>1, SubSeqProperties DEF Text

\* A text is its part before i and its part from i on.
LEMMA Split ==
  ASSUME NEW s \in Text, NEW i \in 1..(Len(s) + 1)
  PROVE  SubSeq(s, 1, i - 1) \o SubSeq(s, i, Len(s)) = s
  <1> DEFINE a == SubSeq(s, 1, i - 1)
             b == SubSeq(s, i, Len(s))
  <1>0. Len(s) \in Nat
    BY TextIs
  <1>1. /\ a \in Text /\ Len(a) = i - 1 /\ \A m \in 1..(i - 1) : a[m] = s[m]
        /\ b \in Text /\ Len(b) = Len(s) - i + 1 /\ \A m \in 1..(Len(s) - i + 1) : b[m] = s[i + m - 1]
    BY <1>0, Part
  <1> HIDE DEF a, b
  <1>2. a \o b \in Text /\ Len(a \o b) = Len(s)
    BY <1>0, <1>1, Concat
  <1>3. ASSUME NEW m \in 1..Len(s) PROVE (a \o b)[m] = s[m]
    <2>1. (a \o b)[m] = IF m <= i - 1 THEN a[m] ELSE b[m - (i - 1)]
      BY <1>0, <1>1, Concat
    <2>2. CASE m <= i - 1
      BY <1>0, <1>1, <2>1, <2>2
    <2>3. CASE ~(m <= i - 1)
      <3>1. m - (i - 1) \in 1..(Len(s) - i + 1) /\ i + (m - (i - 1)) - 1 = m
        BY <1>0, <2>3
      <3>2. b[m - (i - 1)] = s[m]
        BY <1>1, <3>1
      <3> QED
        BY <2>1, <2>3, <3>2
    <2> QED
      BY <2>2, <2>3
  <1>4. a \o b = s
    BY <1>2, <1>3, TextEqual
  <1> QED
    BY <1>4 DEF a, b

-----------------------------------------------------------------------------
(* One pass over a text.                                                   *)

\* What ExpandSome makes of s from position i on, f being what it makes of the rest.
Piece(f, s, K, value, i) ==
  IF i > Len(s) THEN <<>>
  ELSE IF TokenAt(s, i, K) THEN value[s[i + 1]] \o f[i + 3]
  ELSE <<s[i]>> \o f[i + 1]

\* f is the recursive function that ExpandSome is defined with, from lo on.
IsPass(f, s, K, value, lo) == f = [i \in lo..(Len(s) + 1) |-> Piece(f, s, K, value, i)]

LEMMA PassAt ==
  ASSUME NEW s, NEW K, NEW value, NEW lo, NEW f, IsPass(f, s, K, value, lo), NEW i \in lo..(Len(s) + 1)
  PROVE  f[i] = Piece(f, s, K, value, i)
  BY Zenon DEF IsPass

LEMMA PassExists ==
  ASSUME NEW s \in Text, NEW K, NEW value
  PROVE  \E f : IsPass(f, s, K, value, 1)
  <1> DEFINE S == {n \in Nat : n <= Len(s) => \E f : IsPass(f, s, K, value, Len(s) + 1 - n)}
  <1>0. Len(s) \in Nat
    BY TextIs
  <1>1. 0 \in S
    <2> DEFINE f == [i \in (Len(s) + 1)..(Len(s) + 1) |-> <<>>]
    <2>1. \A i \in (Len(s) + 1)..(Len(s) + 1) : Piece(f, s, K, value, i) = <<>>
      BY <1>0 DEF Piece
    <2>2. IsPass(f, s, K, value, Len(s) + 1)
      BY <2>1 DEF IsPass
    <2> QED
      BY <1>0, <2>2
  <1>2. ASSUME NEW n \in Nat, n \in S PROVE n + 1 \in S
    <2> SUFFICES ASSUME n + 1 <= Len(s) PROVE \E f : IsPass(f, s, K, value, Len(s) + 1 - (n + 1))
      OBVIOUS
    <2> DEFINE lo == Len(s) - n
    <2>0. lo \in Nat /\ lo >= 1 /\ lo <= Len(s) /\ Len(s) + 1 - (n + 1) = lo /\ Len(s) + 1 - n = lo + 1
      BY <1>0
    <2> HIDE DEF lo
    <2>1. PICK f : IsPass(f, s, K, value, lo + 1)
      BY <1>0, <1>2, <2>0
    <2> DEFINE g == [i \in lo..(Len(s) + 1) |-> IF i = lo THEN Piece(f, s, K, value, lo) ELSE f[i]]
    <2>2. ASSUME NEW i \in lo..(Len(s) + 1) PROVE Piece(g, s, K, value, i) = Piece(f, s, K, value, i)
      <3>1. i <= Len(s) => g[i + 1] = f[i + 1]
        BY <1>0, <2>0
      <3>2. TokenAt(s, i, K) => g[i + 3] = f[i + 3]
        <4>1. SUFFICES ASSUME i + 2 <= Len(s) PROVE g[i + 3] = f[i + 3]
          BY DEF TokenAt
        <4>2. i + 3 \in lo..(Len(s) + 1) /\ i + 3 # lo
          BY <1>0, <2>0, <4>1
        <4> QED
          BY <4>2
      <3> QED
        BY <1>0, <2>0, <3>1, <3>2 DEF Piece
    <2>3. ASSUME NEW i \in lo..(Len(s) + 1) PROVE g[i] = Piece(f, s, K, value, i)
      BY <1>0, <2>0, <2>1 DEF IsPass
    <2> HIDE DEF g
    <2>4. g = [i \in lo..(Len(s) + 1) |-> Piece(g, s, K, value, i)]
      <3>1. g = [i \in lo..(Len(s) + 1) |-> g[i]]
        BY DEF g
      <3> QED
        BY <2>2, <2>3, <3>1
    <2> QED
      BY <2>0, <2>4 DEF IsPass
  <1> HIDE DEF S
  <1>3. Len(s) \in S
    BY <1>0, <1>1, <1>2, InductionOnSets
  <1> QED
    BY <1>0, <1>3 DEF S

LEMMA ExpandIsPass ==
  ASSUME NEW s \in Text, NEW K, NEW value
  PROVE  \E f : IsPass(f, s, K, value, 1) /\ ExpandSome(s, K, value) = f[1]
  <1> DEFINE f == CHOOSE f : IsPass(f, s, K, value, 1)
  <1>1. IsPass(f, s, K, value, 1)
    BY PassExists
  <1>2. ExpandSome(s, K, value) = f[1]
    BY DEF ExpandSome, IsPass, Piece
  <1> QED
    BY <1>1, <1>2

\* u is s without its first d symbols.
IsRest(u, s, d) == Len(s) = Len(u) + d /\ \A i \in 1..Len(u) : u[i] = s[i + d]

LEMMA PassOfRest ==
  ASSUME NEW s \in Text, NEW u \in Text, NEW d \in Nat, IsRest(u, s, d), NEW K, NEW value,
         NEW f, NEW g, IsPass(f, s, K, value, 1), IsPass(g, u, K, value, 1)
  PROVE  \A i \in 1..(Len(u) + 1) : g[i] = f[i + d]
  <1>0. Len(s) \in Nat /\ Len(u) \in Nat /\ Len(s) = Len(u) + d
    BY TextIs DEF IsRest
  <1> DEFINE S == {n \in Nat : n <= Len(u) => g[Len(u) + 1 - n] = f[Len(s) + 1 - n]}
  <1>1. ASSUME NEW n \in Nat, \A k \in Nat : k < n => k \in S PROVE n \in S
    <2> SUFFICES ASSUME n <= Len(u) PROVE g[Len(u) + 1 - n] = f[Len(s) + 1 - n]
      OBVIOUS
    <2>0. Len(u) + 1 - n \in 1..(Len(u) + 1) /\ (Len(u) + 1 - n) + d = Len(s) + 1 - n
      BY <1>0
    <2>1. PICK i \in 1..(Len(u) + 1) : i = Len(u) + 1 - n /\ i + d = Len(s) + 1 - n
      BY <2>0
    <2>2. g[i] = Piece(g, u, K, value, i) /\ f[i + d] = Piece(f, s, K, value, i + d)
      <3>1. i + d \in 1..(Len(s) + 1)
        BY <1>0
      <3> QED
        BY <3>1, PassAt
    <2>3. i <= Len(u) => u[i] = s[i + d] /\ g[i + 1] = f[i + d + 1]
      <3>1. SUFFICES ASSUME i <= Len(u) PROVE u[i] = s[i + d] /\ g[i + 1] = f[i + d + 1]
        OBVIOUS
      <3>2. n - 1 \in S /\ n - 1 \in Nat
        BY <1>0, <1>1, <2>1, <3>1
      <3> QED
        BY <1>0, <2>1, <3>1, <3>2 DEF IsRest
    <2>4. i + 2 <= Len(u) => u[i + 1] = s[i + d + 1] /\ u[i + 2] = s[i + d + 2] /\ g[i + 3] = f[i + d + 3]
      <3>1. SUFFICES ASSUME i + 2 <= Len(u)
                     PROVE  u[i + 1] = s[i + d + 1] /\ u[i + 2] = s[i + d + 2] /\ g[i + 3] = f[i + d + 3]
        OBVIOUS
      <3>2. n - 3 \in S /\ n - 3 \in Nat
        BY <1>0, <1>1, <2>1, <3>1
      <3>3. g[i + 3] = f[i + d + 3]
        BY <1>0, <2>1, <3>1, <3>2
      <3>4. u[i + 1] = s[(i + 1) + d] /\ u[i + 2] = s[(i + 2) + d]
        BY <1>0, <3>1 DEF IsRest
      <3> QED
        BY <1>0, <3>3, <3>4
    <2>5. TokenAt(u, i, K) <=> TokenAt(s, i + d, K)
      <3>1. i + 2 <= Len(u) <=> i + d + 2 <= Len(s)
        BY <1>0
      <3>2. CASE i + 2 <= Len(u)
        <4>1. i <= Len(u)
          BY <1>0, <3>2
        <4> QED
          BY <2>3, <2>4, <3>1, <3>2, <4>1 DEF TokenAt
      <3> QED
        BY <3>1, <3>2 DEF TokenAt
    <2>6. Piece(g, u, K, value, i) = Piece(f, s, K, value, i + d)
      <3>1. i > Len(u) <=> i + d > Len(s)
        BY <1>0
      <3>2. CASE i > Len(u)
        BY <3>1, <3>2 DEF Piece
      <3>3. CASE ~(i > Len(u)) /\ TokenAt(u, i, K)
        <4>1. value[u[i + 1]] \o g[i + 3] = value[s[i + d + 1]] \o f[i + d + 3]
          BY <2>4, <3>3 DEF TokenAt
        <4> QED
          BY <2>5, <3>1, <3>3, <4>1 DEF Piece
      <3>4. CASE ~(i > Len(u)) /\ ~TokenAt(u, i, K)
        <4>1. u[i] = s[i + d] /\ g[i + 1] = f[i + d + 1]
          BY <1>0, <2>3, <3>4
        <4> QED
          BY <2>5, <3>1, <3>4, <4>1 DEF Piece
      <3> QED
        BY <3>2, <3>3, <3>4
    <2> QED
      BY <2>1, <2>2, <2>6
  <1> HIDE DEF S
  <1>2. Nat \subseteq S
    BY <1>1, StrongInduction
  <1>3. ASSUME NEW i \in 1..(Len(u) + 1) PROVE g[i] = f[i + d]
    <2>1. PICK n \in Nat : n = Len(u) + 1 - i
      BY <1>0
    <2>2. n \in S /\ n <= Len(u) /\ Len(u) + 1 - n = i /\ Len(s) + 1 - n = i + d
      BY <1>0, <1>2, <2>1
    <2> QED
      BY <2>2 DEF S
  <1> QED
    BY <1>3

\* Every token of K has a text for a value.
Values(K, value) == \A k \in K : value[k] \in Text

LEMMA PassText ==
  ASSUME NEW s \in Text, NEW K, NEW value, Values(K, value), NEW f, IsPass(f, s, K, value, 1)
  PROVE  \A i \in 1..(Len(s) + 1) : f[i] \in Text
  <1>0. Len(s) \in Nat
    BY TextIs
  <1> DEFINE S == {n \in Nat : n <= Len(s) => f[Len(s) + 1 - n] \in Text}
  <1>1. ASSUME NEW n \in Nat, \A k \in Nat : k < n => k \in S PROVE n \in S
    <2> SUFFICES ASSUME n <= Len(s) PROVE f[Len(s) + 1 - n] \in Text
      OBVIOUS
    <2>0. Len(s) + 1 - n \in 1..(Len(s) + 1)
      BY <1>0
    <2>1. PICK i \in 1..(Len(s) + 1) : i = Len(s) + 1 - n
      BY <2>0
    <2>2. f[i] = Piece(f, s, K, value, i)
      BY PassAt
    <2>3. CASE i > Len(s)
      BY <2>1, <2>2, <2>3, Empty DEF Piece
    <2>4. CASE ~(i > Len(s)) /\ TokenAt(s, i, K)
      <3>0. i + 2 <= Len(s)
        BY <2>4 DEF TokenAt
      <3>1. n - 3 \in Nat /\ n - 3 < n /\ n - 3 <= Len(s) /\ i + 3 = Len(s) + 1 - (n - 3)
        BY <1>0, <2>1, <3>0
      <3>2. f[i + 3] \in Text
        BY <1>1, <3>1
      <3>3. value[s[i + 1]] \in Text
        BY <2>4 DEF TokenAt, Values
      <3> QED
        BY <2>1, <2>2, <2>4, <3>2, <3>3, Concat DEF Piece
    <2>5. CASE ~(i > Len(s)) /\ ~TokenAt(s, i, K)
      <3>1. n - 1 \in Nat /\ n - 1 < n /\ n - 1 <= Len(s) /\ i + 1 = Len(s) + 1 - (n - 1)
        BY <1>0, <2>1, <2>5
      <3>2. f[i + 1] \in Text
        BY <1>1, <3>1
      <3>3. <<s[i]>> \in Text
        BY <1>0, <2>5, TextIs, One
      <3> QED
        BY <2>1, <2>2, <2>5, <3>2, <3>3, Concat DEF Piece
    <2> QED
      BY <2>3, <2>4, <2>5
  <1> HIDE DEF S
  <1>2. Nat \subseteq S
    BY <1>1, StrongInduction
  <1>3. ASSUME NEW i \in 1..(Len(s) + 1) PROVE f[i] \in Text
    <2>1. PICK n \in Nat : n = Len(s) + 1 - i
      BY <1>0
    <2>2. n \in S /\ n <= Len(s) /\ Len(s) + 1 - n = i
      BY <1>0, <1>2, <2>1
    <2> QED
      BY <2>2 DEF S
  <1> QED
    BY <1>3

LEMMA ExpandText ==
  ASSUME NEW s \in Text, NEW K, NEW value, Values(K, value)
  PROVE  ExpandSome(s, K, value) \in Text
  <1>1. PICK f : IsPass(f, s, K, value, 1) /\ ExpandSome(s, K, value) = f[1]
    BY ExpandIsPass
  <1>2. 1 \in 1..(Len(s) + 1)
    BY TextIs
  <1> QED
    BY <1>1, <1>2, PassText

LEMMA ExpandEmpty ==
  ASSUME NEW K, NEW value
  PROVE  ExpandSome(<<>>, K, value) = <<>>
  <1>0. <<>> \in Text /\ Len(<<>>) = 0
    BY Empty
  <1>1. PICK f : IsPass(f, <<>>, K, value, 1) /\ ExpandSome(<<>>, K, value) = f[1]
    BY <1>0, ExpandIsPass
  <1>2. 1 \in 1..(Len(<<>>) + 1) /\ 1 > Len(<<>>)
    BY <1>0
  <1>3. f[1] = Piece(f, <<>>, K, value, 1)
    BY <1>1, <1>2, PassAt
  <1> QED
    BY <1>1, <1>2, <1>3 DEF Piece

\* w is v followed by u. (The provers work with an equation better when it has a name.)
Joins(w, v, u) == w = v \o u

LEMMA ExpandToken ==
  ASSUME NEW s \in Text, NEW u \in Text, NEW K, NEW value, TokenAt(s, 1, K), IsRest(u, s, 3)
  PROVE  Joins(ExpandSome(s, K, value), value[s[2]], ExpandSome(u, K, value))
  <1>0. Len(s) \in Nat /\ Len(u) \in Nat /\ Len(s) = Len(u) + 3 /\ 1 \in 1..(Len(s) + 1) /\ 1 \in 1..(Len(u) + 1)
    BY TextIs DEF IsRest
  <1>1. PICK f : IsPass(f, s, K, value, 1) /\ ExpandSome(s, K, value) = f[1]
    BY ExpandIsPass
  <1>2. PICK g : IsPass(g, u, K, value, 1) /\ ExpandSome(u, K, value) = g[1]
    BY ExpandIsPass
  <1>3. g[1] = f[1 + 3]
    BY <1>0, <1>1, <1>2, PassOfRest
  <1>4. f[1] = Piece(f, s, K, value, 1)
    BY <1>0, <1>1, PassAt
  <1>5. ~(1 > Len(s))
    BY <1>0
  <1>6. f[1] = value[s[1 + 1]] \o f[1 + 3]
    BY <1>4, <1>5, Zenon DEF Piece
  <1> QED
    BY <1>1, <1>2, <1>3, <1>6 DEF Joins

LEMMA ExpandOther ==
  ASSUME NEW s \in Text, NEW u \in Text, NEW K, NEW value, ~TokenAt(s, 1, K), IsRest(u, s, 1)
  PROVE  Joins(ExpandSome(s, K, value), <<s[1]>>, ExpandSome(u, K, value))
  <1>0. Len(s) \in Nat /\ Len(u) \in Nat /\ Len(s) = Len(u) + 1 /\ 1 \in 1..(Len(s) + 1) /\ 1 \in 1..(Len(u) + 1)
    BY TextIs DEF IsRest
  <1>1. PICK f : IsPass(f, s, K, value, 1) /\ ExpandSome(s, K, value) = f[1]
    BY ExpandIsPass
  <1>2. PICK g : IsPass(g, u, K, value, 1) /\ ExpandSome(u, K, value) = g[1]
    BY ExpandIsPass
  <1>3. g[1] = f[1 + 1]
    BY <1>0, <1>1, <1>2, PassOfRest
  <1>4. f[1] = Piece(f, s, K, value, 1)
    BY <1>0, <1>1, PassAt
  <1>5. f[1] = <<s[1]>> \o f[1 + 1]
    BY <1>0, <1>4 DEF Piece
  <1> QED
    BY <1>1, <1>2, <1>3, <1>5 DEF Joins

\* Two parts of a text, one after the other.
LEMMA Parts ==
  ASSUME NEW s \in Text, NEW q \in 1..(Len(s) + 1), NEW i \in q..(Len(s) + 1), NEW j \in (i - 1)..Len(s)
  PROVE  SubSeq(s, q, i - 1) \o SubSeq(s, i, j) = SubSeq(s, q, j)
  <1> DEFINE a == SubSeq(s, q, i - 1)
             b == SubSeq(s, i, j)
             c == SubSeq(s, q, j)
  <1>0. Len(s) \in Nat
    BY TextIs
  <1>1. a \in Text /\ Len(a) = i - q /\ \A m \in 1..(i - q) : a[m] = s[q + m - 1]
    <2>1. i - 1 \in (q - 1)..Len(s) /\ (i - 1) - q + 1 = i - q
      BY <1>0
    <2> QED
      BY <2>1, Part
  <1>2. b \in Text /\ Len(b) = j - i + 1 /\ \A m \in 1..(j - i + 1) : b[m] = s[i + m - 1]
    <2>1. i \in 1..(Len(s) + 1)
      BY <1>0
    <2> QED
      BY <2>1, Part
  <1>3. c \in Text /\ Len(c) = j - q + 1 /\ \A m \in 1..(j - q + 1) : c[m] = s[q + m - 1]
    <2>1. j \in (q - 1)..Len(s)
      BY <1>0
    <2> QED
      BY <2>1, Part
  <1> HIDE DEF a, b, c
  <1>4. a \o b \in Text /\ Len(a \o b) = j - q + 1
        /\ \A m \in 1..(j - q + 1) : (a \o b)[m] = IF m <= i - q THEN a[m] ELSE b[m - (i - q)]
    <2>1. /\ a \o b \in Text /\ Len(a \o b) = Len(a) + Len(b)
          /\ \A m \in 1..(Len(a) + Len(b)) : (a \o b)[m] = IF m <= Len(a) THEN a[m] ELSE b[m - Len(a)]
      BY <1>1, <1>2, Concat, Zenon
    <2>2. Len(a) + Len(b) = j - q + 1
      BY <1>0, <1>1, <1>2
    <2> QED
      BY <1>1, <2>1, <2>2, Zenon
  <1>5. ASSUME NEW m \in 1..(j - q + 1) PROVE (a \o b)[m] = c[m]
    <2>1. (a \o b)[m] = IF m <= i - q THEN a[m] ELSE b[m - (i - q)]
      BY <1>4
    <2>2. CASE m <= i - q
      BY <1>0, <1>1, <1>3, <2>1, <2>2
    <2>3. CASE ~(m <= i - q)
      <3>1. m - (i - q) \in 1..(j - i + 1) /\ i + (m - (i - q)) - 1 = q + m - 1
        BY <1>0, <2>3
      <3>2. b[m - (i - q)] = s[q + m - 1]
        BY <1>2, <3>1
      <3> QED
        BY <1>3, <2>1, <2>3, <3>2
    <2> QED
      BY <2>2, <2>3
  <1>6. a \o b = c
    BY <1>3, <1>4, <1>5, TextEqual
  <1> QED
    BY <1>6 DEF a, b, c

LEMMA PartOne ==
  ASSUME NEW s \in Text, NEW i \in 1..Len(s)
  PROVE  SubSeq(s, i, i) = <<s[i]>>
  <1>0. Len(s) \in Nat /\ s[i] \in Symbols
    BY TextIs
  <1>1. i \in 1..(Len(s) + 1) /\ i \in (i - 1)..Len(s) /\ i - i + 1 = 1 /\ i + 1 - 1 = i
    BY <1>0
  <1>2. SubSeq(s, i, i) \in Text /\ Len(SubSeq(s, i, i)) = 1 /\ SubSeq(s, i, i)[1] = s[i]
    BY <1>0, <1>1, Part
  <1>3. <<s[i]>> \in Text /\ Len(<<s[i]>>) = 1 /\ <<s[i]>>[1] = s[i]
    BY <1>0, One
  <1> DEFINE a == SubSeq(s, i, i)
             b == <<s[i]>>
  <1>4. a \in Text /\ b \in Text /\ Len(a) = Len(b) /\ Len(a) = 1 /\ a[1] = b[1]
    BY <1>2, <1>3
  <1> HIDE DEF a, b
  <1>5. \A m \in 1..Len(a) : a[m] = b[m]
    BY <1>4
  <1>6. a = b
    BY <1>4, <1>5, TextEqual
  <1> QED
    BY <1>6 DEF a, b

LEMMA PartNone ==
  ASSUME NEW s \in Text, NEW i \in 1..(Len(s) + 1)
  PROVE  SubSeq(s, i, i - 1) = <<>>
  <1>0. Len(s) \in Nat
    BY TextIs
  <1>1. i - 1 \in (i - 1)..Len(s) /\ (i - 1) - i + 1 = 0
    BY <1>0
  <1>2. SubSeq(s, i, i - 1) \in Text /\ Len(SubSeq(s, i, i - 1)) = 0
    BY <1>1, Part
  <1> QED
    BY <1>2, TextIs

LEMMA PartAll ==
  ASSUME NEW s \in Text
  PROVE  SubSeq(s, 1, Len(s)) = s
  <1>0. Len(s) \in Nat
    BY TextIs
  <1>1. 1 \in 1..(Len(s) + 1) /\ 1 - 1 = 0
    BY <1>0
  <1>2. SubSeq(s, 1, 1 - 1) \o SubSeq(s, 1, Len(s)) = s
    BY <1>1, Split
  <1>3. SubSeq(s, 1, 1 - 1) = <<>>
    BY <1>1, PartNone
  <1>4. SubSeq(s, 1, Len(s)) \in Text
    <2>1. Len(s) \in (1 - 1)..Len(s)
      BY <1>0
    <2> QED
      BY <1>1, <2>1, Part
  <1> QED
    BY <1>2, <1>3, <1>4, Empty

\* No token of K begins in s from q to before i.
Clear(s, q, i, K) == \A j \in q..(i - 1) : ~TokenAt(s, j, K)

\* From q to before i the pass copies.
Copies(f, s, q, i) == f[q] = SubSeq(s, q, i - 1) \o f[i]

\* Where no token begins, the text is copied.
LEMMA SkipPass ==
  ASSUME NEW s \in Text, NEW K, NEW value, Values(K, value), NEW f, IsPass(f, s, K, value, 1),
         NEW q \in 1..(Len(s) + 1), NEW i \in q..(Len(s) + 1), Clear(s, q, i, K)
  PROVE  Copies(f, s, q, i)
  <1>0. Len(s) \in Nat
    BY TextIs
  <1> DEFINE S == {n \in Nat : n <= i - q => f[q] = SubSeq(s, q, (q + n) - 1) \o f[q + n]}
  <1>1. 0 \in S
    <2>1. SubSeq(s, q, q - 1) = <<>>
      BY PartNone
    <2>2. f[q] \in Text
      BY PassText
    <2>3. q + 0 = q
      OBVIOUS
    <2> QED
      BY <2>1, <2>2, <2>3, Empty
  <1>2. ASSUME NEW n \in Nat, n \in S PROVE n + 1 \in S
    <2>0. n + 1 \in Nat
      OBVIOUS
    <2> SUFFICES ASSUME n + 1 <= i - q PROVE f[q] = SubSeq(s, q, (q + (n + 1)) - 1) \o f[q + (n + 1)]
      BY <2>0, Zenon
    <2>1. /\ q + n \in q..(i - 1) /\ q + n \in 1..Len(s) /\ q + n \in 1..(Len(s) + 1) /\ q + n \in q..(Len(s) + 1)
          /\ q + n \in ((q + n) - 1)..Len(s)
          /\ q + n + 1 \in 1..(Len(s) + 1) /\ q + (n + 1) = q + n + 1 /\ (q + n + 1) - 1 = q + n
      BY <1>0
    <2>2. PICK m \in 1..Len(s) : m = q + n
      BY <2>1
    <2>3. f[q] = SubSeq(s, q, m - 1) \o f[m]
      <3>1. n <= i - q
        BY <1>0
      <3>2. f[q] = SubSeq(s, q, (q + n) - 1) \o f[q + n]
        BY <1>2, <3>1, Zenon
      <3> QED
        BY <2>2, <3>2
    <2>4. f[m] = <<s[m]>> \o f[m + 1]
      <3>1. f[m] = Piece(f, s, K, value, m)
        BY <2>1, <2>2, PassAt
      <3>2. ~(m > Len(s)) /\ ~TokenAt(s, m, K)
        BY <1>0, <2>1, <2>2 DEF Clear
      <3> QED
        BY <3>1, <3>2, Zenon DEF Piece
    <2>5. /\ SubSeq(s, q, m - 1) \in Text /\ <<s[m]>> \in Text /\ f[m + 1] \in Text
      <3>1. m - 1 \in (q - 1)..Len(s)
        BY <1>0, <2>1, <2>2
      <3> QED
        BY <2>1, <2>2, <3>1, Part, PassText, TextIs, One
    <2>6. SubSeq(s, q, m) = SubSeq(s, q, m - 1) \o <<s[m]>>
      BY <2>1, <2>2, Parts, PartOne
    <2>7. f[q] = SubSeq(s, q, m) \o f[m + 1]
      <3>1. (SubSeq(s, q, m - 1) \o <<s[m]>>) \o f[m + 1] = SubSeq(s, q, m - 1) \o (<<s[m]>> \o f[m + 1])
        BY <2>5, Assoc, Zenon
      <3> QED
        BY <2>3, <2>4, <2>6, <3>1, Zenon
    <2> QED
      BY <2>1, <2>2, <2>7
  <1> HIDE DEF S
  <1>3. i - q \in Nat /\ q + (i - q) = i
    BY <1>0
  <1>4. i - q \in S
    BY <1>1, <1>2, <1>3, InductionOnSets
  <1>5. i - q <= i - q
    BY <1>3
  <1>6. f[q] = SubSeq(s, q, (q + (i - q)) - 1) \o f[q + (i - q)]
    BY <1>3, <1>4, <1>5, Zenon DEF S
  <1> QED
    BY <1>3, <1>6 DEF Copies

LEMMA ExpandSkip ==
  ASSUME NEW v \in Text, NEW u \in Text, NEW s \in Text, Joins(s, v, u), NEW K, NEW value, Values(K, value),
         Clear(s, 1, Len(v) + 1, K)
  PROVE  Joins(ExpandSome(s, K, value), v, ExpandSome(u, K, value))
  <1>0. /\ Len(v) \in Nat /\ Len(u) \in Nat /\ Len(s) = Len(v) + Len(u)
        /\ \A i \in 1..(Len(v) + Len(u)) : s[i] = IF i <= Len(v) THEN v[i] ELSE u[i - Len(v)]
    BY TextIs, Concat DEF Joins
  <1>1. PICK f : IsPass(f, s, K, value, 1) /\ ExpandSome(s, K, value) = f[1]
    BY ExpandIsPass
  <1>2. PICK g : IsPass(g, u, K, value, 1) /\ ExpandSome(u, K, value) = g[1]
    BY ExpandIsPass
  <1>3. IsRest(u, s, Len(v))
    <2>1. ASSUME NEW i \in 1..Len(u) PROVE u[i] = s[i + Len(v)]
      <3>1. i + Len(v) \in 1..(Len(v) + Len(u)) /\ ~(i + Len(v) <= Len(v)) /\ (i + Len(v)) - Len(v) = i
        BY <1>0
      <3> QED
        BY <1>0, <3>1
    <2> QED
      BY <1>0, <2>1 DEF IsRest
  <1>4. g[1] = f[Len(v) + 1]
    <2>1. 1 \in 1..(Len(u) + 1) /\ 1 + Len(v) = Len(v) + 1
      BY <1>0
    <2> QED
      BY <1>0, <1>1, <1>2, <1>3, <2>1, PassOfRest
  <1>5. f[1] = SubSeq(s, 1, (Len(v) + 1) - 1) \o f[Len(v) + 1]
    <2>1. 1 \in 1..(Len(s) + 1) /\ Len(v) + 1 \in 1..(Len(s) + 1)
      BY <1>0
    <2>2. Copies(f, s, 1, Len(v) + 1)
      BY <1>1, <2>1, SkipPass
    <2> QED
      BY <2>2, Zenon DEF Copies
  <1>6. SubSeq(s, 1, (Len(v) + 1) - 1) = v
    <2>1. 1 \in 1..(Len(s) + 1) /\ Len(v) \in (1 - 1)..Len(s) /\ (Len(v) + 1) - 1 = Len(v) /\ Len(v) - 1 + 1 = Len(v)
      BY <1>0
    <2>2. SubSeq(s, 1, Len(v)) \in Text /\ Len(SubSeq(s, 1, Len(v))) = Len(v)
          /\ \A m \in 1..Len(v) : SubSeq(s, 1, Len(v))[m] = s[1 + m - 1]
      BY <1>0, <2>1, Part
    <2>3. \A m \in 1..Len(v) : SubSeq(s, 1, Len(v))[m] = v[m]
      BY <1>0, <2>2
    <2> QED
      BY <2>1, <2>2, <2>3, TextEqual
  <1> QED
    BY <1>1, <1>2, <1>4, <1>5, <1>6 DEF Joins

\* Nothing to replace: the text stays as it is.
LEMMA ExpandNothing ==
  ASSUME NEW s \in Text, NEW K, NEW value, Values(K, value), Clear(s, 1, Len(s) + 1, K)
  PROVE  ExpandSome(s, K, value) = s
  <1>1. <<>> \in Text /\ Joins(s, s, <<>>)
    BY Empty DEF Joins
  <1>2. Joins(ExpandSome(s, K, value), s, ExpandSome(<<>>, K, value))
    BY <1>1, ExpandSkip
  <1>3. ExpandSome(<<>>, K, value) = <<>>
    BY ExpandEmpty
  <1> QED
    BY <1>2, <1>3, Empty DEF Joins

-----------------------------------------------------------------------------
(* Functions defined by recursion on their argument.                       *)

IsIteration(t, a, lo, hi, step) == t = [n \in lo..hi |-> IF n = lo THEN a ELSE step[n][t[n - 1]]]

LEMMA Iterates ==
  ASSUME NEW A, NEW a \in A, NEW lo \in Int, NEW hi \in Int, lo <= hi, NEW step \in [Int -> [A -> A]]
  PROVE  \E t \in [lo..hi -> A] : IsIteration(t, a, lo, hi, step)
  <1> DEFINE Good(m, t) == t \in [lo..m -> A] /\ t[lo] = a /\ \A n \in (lo + 1)..m : t[n] = step[n][t[n - 1]]
             S == {n \in Nat : \E t : Good(lo + n, t)}
  <1>1. 0 \in S
    <2>1. Good(lo + 0, [n \in lo..(lo + 0) |-> a])
      OBVIOUS
    <2> QED
      BY <2>1
  <1>2. ASSUME NEW n \in Nat, n \in S PROVE n + 1 \in S
    <2>1. PICK t : Good(lo + n, t)
      BY <1>2
    <2> DEFINE m == lo + n
               u == [i \in lo..(m + 1) |-> IF i = m + 1 THEN step[m + 1][t[m]] ELSE t[i]]
    <2>2. m \in Int /\ m >= lo /\ lo + (n + 1) = m + 1 /\ Good(m, t)
      BY <2>1
    <2> HIDE DEF m
    <2>3. t[m] \in A
      BY <2>2
    <2>4. step[m + 1][t[m]] \in A
      BY <2>2, <2>3
    <2>5. u \in [lo..(m + 1) -> A]
      BY <2>2, <2>4
    <2>6. u[lo] = a
      BY <2>2
    <2>7. ASSUME NEW i \in (lo + 1)..(m + 1) PROVE u[i] = step[i][u[i - 1]]
      BY <2>2
    <2>8. Good(lo + (n + 1), u)
      BY <2>2, <2>5, <2>6, <2>7
    <2> HIDE DEF Good, u
    <2> QED
      BY <2>8
  <1>3. Nat \subseteq S
    BY <1>1, <1>2, InductionOnSets
  <1>4. PICK t : Good(hi, t)
    <2>1. hi - lo \in Nat /\ lo + (hi - lo) = hi
      OBVIOUS
    <2> HIDE DEF Good
    <2>2. hi - lo \in S
      BY <1>3, <2>1
    <2> QED
      BY <2>1, <2>2
  <1>5. t = [n \in lo..hi |-> IF n = lo THEN a ELSE step[n][t[n - 1]]]
    <2>1. \A n \in lo..hi : t[n] = IF n = lo THEN a ELSE step[n][t[n - 1]]
      BY <1>4
    <2>2. t = [n \in lo..hi |-> t[n]]
      BY <1>4
    <2> QED
      BY <2>1, <2>2
  <1>6. t \in [lo..hi -> A] /\ IsIteration(t, a, lo, hi, step)
    BY <1>4, <1>5 DEF IsIteration
  <1> QED
    BY <1>6

-----------------------------------------------------------------------------
(* Searching and replacing.                                                *)

Occurs(s, key, j) == SubSeq(s, j, j + Len(key) - 1) = key

LEMMA FindIs ==
  ASSUME NEW s \in Text, NEW key \in Text, NEW pos \in Nat \ {0}
  PROVE  \/ find(s, key, pos) = 0 /\ \A j \in pos..(Len(s) - Len(key) + 1) : ~Occurs(s, key, j)
         \/ /\ find(s, key, pos) \in pos..(Len(s) - Len(key) + 1)
            /\ Occurs(s, key, find(s, key, pos))
            /\ \A j \in pos..(find(s, key, pos) - 1) : ~Occurs(s, key, j)
  <1> DEFINE at == {i \in pos..(Len(s) - Len(key) + 1) : SubSeq(s, i, i + Len(key) - 1) = key}
             at2 == {i \in pos..(Len(s) - Len(key) + 1) : Occurs(s, key, i)}
  <1>0. Len(s) \in Nat /\ Len(key) \in Nat
    BY TextIs
  <1>1. at = at2
    BY DEF Occurs
  <1>2. find(s, key, pos) = IF at2 = {} THEN 0 ELSE Min(at2)
    BY <1>1 DEF find
  <1>3. CASE at2 = {}
    BY <1>2, <1>3
  <1>4. CASE at2 # {}
    <2>1. at2 \subseteq Nat
      BY <1>0
    <2>2. \E m \in at2 : \A k \in at2 : m <= k
      BY <1>4, <2>1, LeastNat
    <2>3. Min(at2) \in at2 /\ \A k \in at2 : Min(at2) <= k
      BY <2>2 DEF Min
    <2>4. find(s, key, pos) = Min(at2)
      BY <1>2, <1>4
    <2>5. PICK m : m = find(s, key, pos)
      OBVIOUS
    <2>6. m \in pos..(Len(s) - Len(key) + 1) /\ Occurs(s, key, m) /\ \A k \in at2 : m <= k
      BY <2>3, <2>4, <2>5
    <2>7. ASSUME NEW j \in pos..(m - 1) PROVE ~Occurs(s, key, j)
      <3>1. j \in pos..(Len(s) - Len(key) + 1) /\ ~(m <= j)
        BY <1>0, <2>6
      <3> QED
        BY <2>6, <3>1
    <2> HIDE DEF at2
    <2> QED
      BY <2>5, <2>6, <2>7
  <1> QED
    BY <1>3, <1>4

LEMMA TokenText ==
  ASSUME NEW k \in Symbols
  PROVE  Token(k) \in Text /\ Len(Token(k)) = 3 /\ Token(k)[1] = LBRACE /\ Token(k)[2] = k /\ Token(k)[3] = RBRACE
  <1> DEFINE t == <<LBRACE, k, RBRACE>>
  <1>0. LBRACE \in Symbols /\ RBRACE \in Symbols
    BY RenderAssumption, Zenon DEF OwnSymbols
  <1>1. t \in Seq(Symbols)
    BY <1>0, ThreeOf, Zenon
  <1>2. Len(t) = 3 /\ t[1] = LBRACE /\ t[2] = k /\ t[3] = RBRACE
    OBVIOUS
  <1> QED
    BY <1>1, <1>2, Zenon DEF Token, Text

LEMMA TokenOccurs ==
  ASSUME NEW s \in Text, NEW k \in Symbols, NEW j \in 1..(Len(s) - 2)
  PROVE  Occurs(s, Token(k), j) <=> TokenAt(s, j, {k})
  <1>0. Len(s) \in Nat
    BY TextIs
  <1>1. j \in 1..(Len(s) + 1) /\ j + 2 \in (j - 1)..Len(s) /\ (j + 2) - j + 1 = 3 /\ j + 3 - 1 = j + 2
    BY <1>0
  <1> DEFINE a == SubSeq(s, j, j + 2)
  <1>2. a \in Text /\ Len(a) = 3 /\ \A m \in 1..3 : a[m] = s[j + m - 1]
    BY <1>1, Part
  <1>3. a[1] = s[j] /\ a[2] = s[j + 1] /\ a[3] = s[j + 2]
    <2>1. j + 1 - 1 = j /\ j + 2 - 1 = j + 1 /\ j + 3 - 1 = j + 2 /\ 1 \in 1..3 /\ 2 \in 1..3 /\ 3 \in 1..3
      BY <1>0
    <2> HIDE DEF a
    <2>2. a[1] = s[j + 1 - 1] /\ a[2] = s[j + 2 - 1] /\ a[3] = s[j + 3 - 1]
      BY <1>2, <2>1, Zenon
    <2> QED
      BY <2>1, <2>2
  <1>4. Occurs(s, Token(k), j) <=> a = Token(k)
    BY <1>1, TokenText DEF Occurs
  <1> HIDE DEF a
  <1>5. a = Token(k) <=> (s[j] = LBRACE /\ s[j + 1] = k /\ s[j + 2] = RBRACE)
    <2>1. ASSUME s[j] = LBRACE, s[j + 1] = k, s[j + 2] = RBRACE PROVE a = Token(k)
      <3>1. \A m \in 1..3 : m = 1 \/ m = 2 \/ m = 3
        OBVIOUS
      <3>2. \A m \in 1..3 : a[m] = Token(k)[m]
        BY <1>3, <2>1, <3>1, TokenText, Zenon
      <3>3. Token(k) \in Text /\ Len(Token(k)) = Len(a) /\ \A m \in 1..Len(a) : a[m] = Token(k)[m]
        BY <1>2, <3>2, TokenText, Zenon
      <3> QED
        BY <1>2, <3>3, TextEqual
    <2> QED
      BY <1>3, <2>1, TokenText
  <1>6. j + 2 <= Len(s)
    BY <1>0
  <1> QED
    BY <1>4, <1>5, <1>6 DEF TokenAt

\* w is d and then s from q on, so that its tokens after d are those of s.
TailOf(w, d, s, q) == w = d \o SubSeq(s, q, Len(s))

LEMMA TailIs ==
  ASSUME NEW d \in Text, NEW s \in Text, NEW q \in 1..(Len(s) + 1), NEW w, TailOf(w, d, s, q)
  PROVE  /\ w \in Text /\ Len(w) = Len(d) + Len(s) + 1 - q
         /\ \A m \in q..Len(s) : w[m - q + Len(d) + 1] = s[m]
         /\ \A m \in 1..Len(d) : w[m] = d[m]
  <1> DEFINE a == SubSeq(s, q, Len(s))
  <1>0. Len(s) \in Nat /\ Len(d) \in Nat
    BY TextIs
  <1>1. a \in Text /\ Len(a) = Len(s) - q + 1 /\ \A m \in 1..(Len(s) - q + 1) : a[m] = s[q + m - 1]
    <2>1. Len(s) \in (q - 1)..Len(s)
      BY <1>0
    <2> QED
      BY <2>1, Part
  <1>2. w = d \o a
    BY DEF TailOf
  <1> HIDE DEF a
  <1>3. /\ w \in Text /\ Len(w) = Len(d) + Len(a)
        /\ \A i \in 1..(Len(d) + Len(a)) : w[i] = IF i <= Len(d) THEN d[i] ELSE a[i - Len(d)]
    BY <1>1, <1>2, Concat
  <1>4. ASSUME NEW m \in q..Len(s) PROVE w[m - q + Len(d) + 1] = s[m]
    <2>1. PICK i \in Int : i = m - q + Len(d) + 1
      BY <1>0
    <2>2. /\ i \in 1..(Len(d) + Len(a)) /\ ~(i <= Len(d)) /\ i - Len(d) = m - q + 1
          /\ m - q + 1 \in 1..(Len(s) - q + 1) /\ q + (m - q + 1) - 1 = m
      BY <1>0, <1>1, <2>1
    <2>3. w[i] = a[m - q + 1]
      BY <1>3, <2>2
    <2>4. a[m - q + 1] = s[m]
      BY <1>1, <2>2
    <2> QED
      BY <2>1, <2>3, <2>4
  <1>5. ASSUME NEW m \in 1..Len(d) PROVE w[m] = d[m]
    <2>1. m \in 1..(Len(d) + Len(a)) /\ m <= Len(d)
      BY <1>0, <1>1
    <2> QED
      BY <1>3, <2>1
  <1> QED
    BY <1>0, <1>1, <1>3, <1>4, <1>5

LEMMA TailToken ==
  ASSUME NEW d \in Text, NEW s \in Text, NEW q \in 1..(Len(s) + 1), NEW w, TailOf(w, d, s, q), NEW K,
         NEW m \in q..Len(s)
  PROVE  TokenAt(w, m - q + Len(d) + 1, K) <=> TokenAt(s, m, K)
  <1>0. Len(s) \in Nat /\ Len(d) \in Nat /\ Len(w) = Len(d) + Len(s) + 1 - q
        /\ \A j \in q..Len(s) : w[j - q + Len(d) + 1] = s[j]
    <2>1. Len(s) \in Nat /\ Len(d) \in Nat
      BY TextIs
    <2> QED
      BY <2>1, TailIs, SMTT(20)
  <1>1. PICK i \in Int : i = m - q + Len(d) + 1
    <2>1. Len(d) \in Nat /\ m - q + Len(d) + 1 \in Int
      BY TextIs
    <2> QED
      BY <2>1
  <1>2. i + 2 <= Len(w) <=> m + 2 <= Len(s)
    BY <1>0, <1>1
  <1>3. CASE m + 2 <= Len(s)
    <2>1. m + 1 \in q..Len(s) /\ m + 2 \in q..Len(s)
      BY <1>0, <1>3
    <2>2. (m + 1) - q + Len(d) + 1 = i + 1 /\ (m + 2) - q + Len(d) + 1 = i + 2
      BY <1>0, <1>1
    <2>3. w[i] = s[m] /\ w[i + 1] = s[m + 1] /\ w[i + 2] = s[m + 2]
      BY <1>0, <1>1, <2>1, <2>2
    <2>4. TokenAt(w, i, K) <=> TokenAt(s, m, K)
      BY <1>2, <2>3 DEF TokenAt
    <2> QED
      BY <1>1, <2>4
  <1>4. CASE ~(m + 2 <= Len(s))
    BY <1>1, <1>2, <1>4 DEF TokenAt
  <1> QED
    BY <1>3, <1>4

\* The text before a position that stands for position m of s, and the one after it.
LEMMA TailCut ==
  ASSUME NEW d \in Text, NEW s \in Text, NEW q \in 1..(Len(s) + 1), NEW w, TailOf(w, d, s, q),
         NEW m \in q..(Len(s) + 1)
  PROVE  /\ SubSeq(w, 1, m - q + Len(d)) = d \o SubSeq(s, q, m - 1)
         /\ SubSeq(w, m - q + Len(d) + 1, Len(w)) = SubSeq(s, m, Len(s))
  <1>0. /\ Len(s) \in Nat /\ Len(d) \in Nat /\ w \in Text /\ Len(w) = Len(d) + Len(s) + 1 - q
        /\ \A j \in q..Len(s) : w[j - q + Len(d) + 1] = s[j]
        /\ \A j \in 1..Len(d) : w[j] = d[j]
    BY TailIs, TextIs
  <1>1. PICK i \in Int : i = m - q + Len(d)
    <2>1. Len(d) \in Nat /\ m - q + Len(d) \in Int
      BY TextIs
    <2> QED
      BY <2>1
  <1>2. SubSeq(w, 1, i) = d \o SubSeq(s, q, m - 1)
    <2> DEFINE a == SubSeq(w, 1, i)
               b == SubSeq(s, q, m - 1)
    <2>1. a \in Text /\ Len(a) = i /\ \A j \in 1..i : a[j] = w[j]
      <3>1. 1 \in 1..(Len(w) + 1) /\ i \in (1 - 1)..Len(w) /\ i - 1 + 1 = i
        BY <1>0, <1>1
      <3>2. a \in Text /\ Len(a) = i /\ \A j \in 1..i : a[j] = w[1 + j - 1]
        BY <1>0, <3>1, Part
      <3> QED
        BY <3>2
    <2>2. b \in Text /\ Len(b) = m - q /\ \A j \in 1..(m - q) : b[j] = s[q + j - 1]
      <3>1. m - 1 \in (q - 1)..Len(s) /\ (m - 1) - q + 1 = m - q
        BY <1>0
      <3> QED
        BY <3>1, Part
    <2> HIDE DEF a, b
    <2>3. /\ d \o b \in Text /\ Len(d \o b) = Len(d) + Len(b)
          /\ \A j \in 1..(Len(d) + Len(b)) : (d \o b)[j] = IF j <= Len(d) THEN d[j] ELSE b[j - Len(d)]
      BY <2>2, Concat
    <2>4. ASSUME NEW j \in 1..i PROVE a[j] = (d \o b)[j]
      <3>1. j \in 1..(Len(d) + Len(b))
        BY <1>0, <1>1, <2>2
      <3>2. CASE j <= Len(d)
        <4>1. j \in 1..Len(d)
          BY <1>0, <1>1, <3>2
        <4> QED
          BY <1>0, <2>1, <2>3, <3>1, <3>2, <4>1
      <3>3. CASE ~(j <= Len(d))
        <4>1. /\ j - Len(d) \in 1..(m - q) /\ q + (j - Len(d)) - 1 \in q..Len(s)
              /\ (q + (j - Len(d)) - 1) - q + Len(d) + 1 = j
          BY <1>0, <1>1, <3>3
        <4>2. w[j] = s[q + (j - Len(d)) - 1]
          BY <1>0, <4>1
        <4>3. b[j - Len(d)] = s[q + (j - Len(d)) - 1]
          BY <2>2, <4>1
        <4> QED
          BY <2>1, <2>3, <3>1, <3>3, <4>2, <4>3
      <3> QED
        BY <3>2, <3>3
    <2>5. Len(a) = Len(d \o b)
      BY <1>0, <1>1, <2>1, <2>2, <2>3
    <2>6. a = d \o b
      BY <2>1, <2>3, <2>4, <2>5, TextEqual
    <2> QED
      BY <2>6 DEF a, b
  <1>3. SubSeq(w, i + 1, Len(w)) = SubSeq(s, m, Len(s))
    <2> DEFINE a == SubSeq(w, i + 1, Len(w))
               b == SubSeq(s, m, Len(s))
               n == Len(s) - m + 1
    <2>0. n \in Nat
      BY <1>0
    <2>1. a \in Text /\ Len(a) = n /\ \A j \in 1..n : a[j] = w[i + j]
      <3>1. i + 1 \in 1..(Len(w) + 1) /\ Len(w) \in ((i + 1) - 1)..Len(w) /\ Len(w) - (i + 1) + 1 = n
        BY <1>0, <1>1
      <3>2. a \in Text /\ Len(a) = n /\ \A j \in 1..n : a[j] = w[(i + 1) + j - 1]
        BY <1>0, <3>1, Part
      <3>3. \A j \in 1..n : (i + 1) + j - 1 = i + j
        OBVIOUS
      <3> HIDE DEF a, n
      <3> QED
        BY <3>2, <3>3
    <2>2. b \in Text /\ Len(b) = n /\ \A j \in 1..n : b[j] = s[m + j - 1]
      <3>1. m \in 1..(Len(s) + 1) /\ Len(s) \in (m - 1)..Len(s)
        BY <1>0
      <3> QED
        BY <3>1, Part
    <2> HIDE DEF a, b
    <2>3. ASSUME NEW j \in 1..n PROVE a[j] = b[j]
      <3>1. m + j - 1 \in q..Len(s) /\ (m + j - 1) - q + Len(d) + 1 = i + j
        BY <1>0, <1>1
      <3>2. w[i + j] = s[m + j - 1]
        BY <1>0, <3>1
      <3> QED
        BY <2>1, <2>2, <3>2
    <2> HIDE DEF n
    <2>4. a = b
      BY <2>1, <2>2, <2>3, TextEqual
    <2> QED
      BY <2>4 DEF a, b
  <1> QED
    BY <1>1, <1>2, <1>3

\* One turn of replace_all's loop.
Turn(last, key, val) ==
  LET i == find(last.out, key, last.pos)
  IN IF i = 0 THEN last
     ELSE [out |-> ReplaceSubSeqAt(i, val, key, last.out), pos |-> i + Len(val)]

LoopState == [out : Text, pos : Nat \ {0}]

\* After n turns a part d of the result is final, the rest is s from q on, and s is used
\* up, or nothing is left to replace.
LoopInv(s, f, k, n, x) ==
  \E d \in Text : \E q \in 1..(Len(s) + 1) :
    /\ TailOf(x.out, d, s, q) /\ x.pos = Len(d) + 1 /\ Joins(f[1], d, f[q])
    /\ q > n \/ Clear(s, q, Len(s) + 1, {k})

\* The end of s from a position after q where the key is found on.
LEMMA TurnFinds ==
  ASSUME NEW s \in Text, NEW k \in Symbols, NEW d \in Text, NEW q \in 1..(Len(s) + 1), NEW w, TailOf(w, d, s, q)
  PROVE  \/ find(w, Token(k), Len(d) + 1) = 0 /\ Clear(s, q, Len(s) + 1, {k})
         \/ \E m \in q..(Len(s) - 2) : /\ find(w, Token(k), Len(d) + 1) = m - q + Len(d) + 1
                                       /\ TokenAt(s, m, {k}) /\ Clear(s, q, m, {k})
  <1>0. Len(s) \in Nat /\ Len(d) \in Nat /\ w \in Text /\ Len(w) = Len(d) + Len(s) + 1 - q
    BY TailIs, TextIs
  <1>1. Token(k) \in Text /\ Len(Token(k)) = 3
    BY TokenText
  <1>2. PICK i : i = find(w, Token(k), Len(d) + 1)
    OBVIOUS
  <1>3. PICK pos \in Nat \ {0} : pos = Len(d) + 1
    BY <1>0
  <1>4. \/ i = 0 /\ \A j \in pos..(Len(w) - 3 + 1) : ~Occurs(w, Token(k), j)
        \/ i \in pos..(Len(w) - 3 + 1) /\ Occurs(w, Token(k), i) /\ \A j \in pos..(i - 1) : ~Occurs(w, Token(k), j)
    BY <1>0, <1>1, <1>2, <1>3, FindIs
  <1>5. ASSUME NEW m \in q..Len(s), NEW j \in Int, j = m - q + Len(d) + 1, j \in pos..(Len(w) - 3 + 1)
        PROVE  Occurs(w, Token(k), j) <=> TokenAt(s, m, {k})
    <2>1. j \in 1..(Len(w) - 2)
      BY <1>0, <1>3, <1>5
    <2>2. Occurs(w, Token(k), j) <=> TokenAt(w, j, {k})
      BY <1>0, <2>1, TokenOccurs
    <2>3. TokenAt(w, j, {k}) <=> TokenAt(s, m, {k})
      BY <1>5, TailToken
    <2> QED
      BY <2>2, <2>3
  <1>6. CASE i = 0 /\ \A j \in pos..(Len(w) - 3 + 1) : ~Occurs(w, Token(k), j)
    <2>1. ASSUME NEW m \in q..((Len(s) + 1) - 1) PROVE ~TokenAt(s, m, {k})
      <3>0. m \in q..Len(s)
        BY <1>0
      <3>1. CASE m + 2 <= Len(s)
        <4>1. m - q + Len(d) + 1 \in pos..(Len(w) - 3 + 1) /\ m - q + Len(d) + 1 \in Int
          BY <1>0, <1>3, <3>1
        <4> QED
          BY <1>5, <1>6, <3>0, <4>1
      <3>2. CASE ~(m + 2 <= Len(s))
        BY <3>2 DEF TokenAt
      <3> QED
        BY <3>1, <3>2
    <2> QED
      BY <1>2, <1>6, <2>1 DEF Clear
  <1>7. CASE i \in pos..(Len(w) - 3 + 1) /\ Occurs(w, Token(k), i) /\ \A j \in pos..(i - 1) : ~Occurs(w, Token(k), j)
    <2>0. i \in Int /\ i - Len(d) - 1 + q \in q..(Len(s) - 2)
      BY <1>0, <1>3, <1>7
    <2>1. PICK m \in q..(Len(s) - 2) : m = i - Len(d) - 1 + q
      BY <2>0
    <2>2. m \in q..Len(s) /\ i = m - q + Len(d) + 1
      BY <1>0, <2>0, <2>1
    <2>3. TokenAt(s, m, {k})
      BY <1>5, <1>7, <2>0, <2>2
    <2>4. ASSUME NEW j \in q..(m - 1) PROVE ~TokenAt(s, j, {k})
      <3>1. /\ j - q + Len(d) + 1 \in pos..(i - 1) /\ j - q + Len(d) + 1 \in pos..(Len(w) - 3 + 1)
            /\ j - q + Len(d) + 1 \in Int /\ j \in q..Len(s)
        BY <1>0, <1>3, <1>7, <2>2
      <3> QED
        BY <1>5, <1>7, <3>1
    <2> QED
      BY <1>2, <2>2, <2>3, <2>4 DEF Clear
  <1> QED
    BY <1>4, <1>6, <1>7

LEMMA JoinFour ==
  ASSUME NEW a \in Text, NEW b \in Text, NEW c \in Text, NEW e \in Text, NEW x, NEW y, NEW z,
         Joins(x, a, y), Joins(y, b, z), Joins(z, c, e)
  PROVE  Joins(x, (a \o b) \o c, e)
  <1>1. z = c \o e /\ y = b \o z /\ x = a \o y
    BY Zenon DEF Joins
  <1>2. y \in Text /\ z \in Text /\ a \o b \in Text /\ b \o c \in Text
    BY <1>1, Concat
  <1>3. PICK ab \in Text : ab = a \o b
    BY <1>2
  <1>4. (ab \o c) \o e = ab \o (c \o e)
    BY Assoc, Zenon
  <1>5. (a \o b) \o z = a \o (b \o z)
    <2>1. PICK zz \in Text : zz = z
      BY <1>2
    <2>2. (a \o b) \o zz = a \o (b \o zz)
      BY Assoc, ZenonT(40)
    <2> QED
      BY <2>1, <2>2, Zenon
  <1> QED
    BY <1>1, <1>3, <1>4, <1>5, Zenon DEF Joins

LEMMA TurnStep ==
  ASSUME NEW s \in Text, NEW k \in Symbols, NEW value, value[k] \in Text, NEW f, IsPass(f, s, {k}, value, 1),
         NEW n \in Nat, NEW x \in LoopState, LoopInv(s, f, k, n, x)
  PROVE  /\ Turn(x, Token(k), value[k]) \in LoopState
         /\ LoopInv(s, f, k, n + 1, Turn(x, Token(k), value[k]))
  <1>1. PICK d \in Text, q \in 1..(Len(s) + 1) :
          /\ TailOf(x.out, d, s, q) /\ x.pos = Len(d) + 1 /\ Joins(f[1], d, f[q])
          /\ q > n \/ Clear(s, q, Len(s) + 1, {k})
    BY DEF LoopInv
  <1> DEFINE w == x.out
             val == value[k]
             i == find(w, Token(k), Len(d) + 1)
             y == Turn(x, Token(k), val)
  <1>0. /\ Len(s) \in Nat /\ Len(d) \in Nat /\ w \in Text /\ Len(w) = Len(d) + Len(s) + 1 - q
        /\ val \in Text /\ Len(val) \in Nat /\ Values({k}, value)
    <2>1. TailOf(w, d, s, q)
      BY <1>1
    <2>2. w \in Text /\ Len(w) = Len(d) + Len(s) + 1 - q
      BY <2>1, TailIs
    <2>3. Len(s) \in Nat /\ Len(d) \in Nat /\ val \in Text /\ Len(val) \in Nat
      BY TextIs
    <2> QED
      BY <2>2, <2>3 DEF Values
  <1>2. TailOf(w, d, s, q)
    BY <1>1
  <1>3. y = IF i = 0 THEN x ELSE [out |-> ReplaceSubSeqAt(i, val, Token(k), w), pos |-> i + Len(val)]
    BY <1>1 DEF Turn
  <1> HIDE DEF i, y, val, w
  <1>4. \/ i = 0 /\ Clear(s, q, Len(s) + 1, {k})
        \/ \E m \in q..(Len(s) - 2) : i = m - q + Len(d) + 1 /\ TokenAt(s, m, {k}) /\ Clear(s, q, m, {k})
    BY <1>2, TurnFinds DEF i
  <1>5. CASE i = 0 /\ Clear(s, q, Len(s) + 1, {k})
    <2>1. y = x
      BY <1>3, <1>5
    <2>2. LoopInv(s, f, k, n + 1, x)
      BY <1>1, <1>5, Zenon DEF LoopInv
    <2> QED
      BY <2>1, <2>2 DEF y, val
  <1>6. CASE \E m \in q..(Len(s) - 2) : i = m - q + Len(d) + 1 /\ TokenAt(s, m, {k}) /\ Clear(s, q, m, {k})
    <2>1. PICK m \in q..(Len(s) - 2) : i = m - q + Len(d) + 1 /\ TokenAt(s, m, {k}) /\ Clear(s, q, m, {k})
      BY <1>6
    <2> DEFINE c == SubSeq(s, q, m - 1)
               rest == SubSeq(s, m + 3, Len(s))
               g == f[m + 3]
               e == (d \o c) \o val
    <2>2. /\ m \in Int /\ i \in Int /\ i # 0 /\ i >= 1
          /\ m \in q..(Len(s) + 1) /\ m \in 1..(Len(s) + 1) /\ m + 3 \in q..(Len(s) + 1) /\ m + 3 \in 1..(Len(s) + 1)
          /\ i - 1 = m - q + Len(d) /\ i + 3 = (m + 3) - q + Len(d) + 1 /\ m <= Len(s) /\ m - 1 \in (q - 1)..Len(s)
          /\ Len(s) \in ((m + 3) - 1)..Len(s) /\ m \in q..((Len(s) + 1) - 1)
      <3>1. i = m - q + Len(d) + 1 /\ Len(s) \in Nat /\ Len(d) \in Nat /\ m \in Int /\ q >= 1 /\ q <= m /\ m + 2 <= Len(s)
        BY <1>0, <2>1
      <3>2. i \in Int /\ i >= 1 /\ i - 1 = m - q + Len(d) /\ i + 3 = (m + 3) - q + Len(d) + 1
        BY <3>1
      <3>3. /\ m \in q..(Len(s) + 1) /\ m \in 1..(Len(s) + 1) /\ m + 3 \in q..(Len(s) + 1) /\ m + 3 \in 1..(Len(s) + 1)
            /\ m <= Len(s) /\ m - 1 \in (q - 1)..Len(s)
        BY <3>1
      <3>4. Len(s) \in ((m + 3) - 1)..Len(s) /\ m \in q..((Len(s) + 1) - 1)
        BY <3>1
      <3> QED
        BY <3>1, <3>2, <3>3, <3>4
    <2>3. /\ c \in Text /\ Len(c) = m - q /\ rest \in Text /\ g \in Text
      <3>1. c \in Text /\ Len(c) = (m - 1) - q + 1
        BY <2>2, Part
      <3>2. rest \in Text
        BY <2>2, Part
      <3>3. g \in Text
        BY <1>0, <2>2, PassText
      <3> QED
        BY <2>2, <3>1, <3>2, <3>3
    <2>4. SubSeq(w, 1, i - 1) = d \o c
      <3>1. SubSeq(w, 1, m - q + Len(d)) = d \o SubSeq(s, q, m - 1)
        BY <1>2, <2>2, TailCut, ZenonT(40)
      <3> QED
        BY <2>2, <3>1
    <2>5. SubSeq(w, i + 3, Len(w)) = rest
      <3>1. PICK j \in q..(Len(s) + 1) : j = m + 3
        BY <2>2
      <3>2. SubSeq(w, j - q + Len(d) + 1, Len(w)) = SubSeq(s, j, Len(s))
        BY <1>2, TailCut, ZenonT(40)
      <3> QED
        BY <2>2, <3>1, <3>2
    <2>6. y = [out |-> (SubSeq(w, 1, i - 1) \o val) \o SubSeq(w, i + Len(Token(k)), Len(w)), pos |-> i + Len(val)]
      BY <1>3, <2>2 DEF ReplaceSubSeqAt
    <2>7. y.out = e \o rest /\ y.pos = i + Len(val) /\ y = [out |-> y.out, pos |-> y.pos]
      <3>1. Len(Token(k)) = 3
        BY TokenText
      <3> HIDE DEF rest, c
      <3> QED
        BY <2>4, <2>5, <2>6, <3>1
    <2>8. f[m] = val \o g
      <3>1. f[m] = Piece(f, s, {k}, value, m)
        BY <2>2, PassAt
      <3>2. ~(m > Len(s)) /\ s[m + 1] = k
        <4>1. s[m + 1] = k
          BY <2>1, Zenon DEF TokenAt
        <4> QED
          BY <1>0, <2>2, <4>1
      <3> QED
        BY <2>1, <3>1, <3>2, Zenon DEF Piece, val
    <2>9. f[q] = c \o f[m]
      <3>1. Copies(f, s, q, m)
        BY <1>0, <2>1, <2>2, SkipPass
      <3> QED
        BY <3>1 DEF Copies
    <2>10. e \in Text /\ Len(e) = i - 1 + Len(val)
      <3> HIDE DEF c
      <3>1. d \o c \in Text /\ Len(d \o c) = Len(d) + Len(c)
        BY <2>3, Concat
      <3>2. e \in Text /\ Len(e) = Len(d \o c) + Len(val)
        BY <1>0, <3>1, Concat
      <3> HIDE DEF e
      <3> QED
        BY <1>0, <2>2, <2>3, <3>1, <3>2
    <2>11. Joins(f[1], e, f[m + 3])
      <3> HIDE DEF c, g
      <3>1. Joins(f[1], d, f[q]) /\ Joins(f[q], c, f[m]) /\ Joins(f[m], val, g)
        BY <1>1, <2>8, <2>9, Zenon DEF Joins
      <3>2. Joins(f[1], e, g)
        BY <1>0, <2>3, <3>1, JoinFour
      <3> QED
        BY <3>2 DEF g
    <2> HIDE DEF c, e, g
    <2>12. TailOf(y.out, e, s, m + 3)
      BY <2>7 DEF TailOf
    <2>13. m + 3 > n + 1
      <3>1. CASE q > n
        BY <2>2, <3>1
      <3>2. CASE Clear(s, q, Len(s) + 1, {k})
        BY <2>1, <2>2, <3>2, Zenon DEF Clear
      <3> QED
        BY <1>1, <3>1, <3>2
    <2>14. y.pos = Len(e) + 1 /\ y.pos \in Nat \ {0}
      <3>1. y.pos = i + Len(val)
        BY <2>7
      <3>2. Len(e) = i - 1 + Len(val) /\ Len(val) \in Nat
        BY <1>0, <2>10
      <3> QED
        BY <2>2, <3>1, <3>2
    <2>15. y.out \in Text
      BY <2>3, <2>7, <2>10, Concat
    <2>16. y \in LoopState
      BY <2>7, <2>14, <2>15 DEF LoopState
    <2>17. LoopInv(s, f, k, n + 1, y)
      BY <2>2, <2>10, <2>11, <2>12, <2>13, <2>14, Zenon DEF LoopInv
    <2> QED
      BY <2>16, <2>17 DEF y, val
  <1> QED
    BY <1>4, <1>5, <1>6

LEMMA TurnState ==
  ASSUME NEW k \in Symbols, NEW val \in Text, NEW x \in LoopState
  PROVE  Turn(x, Token(k), val) \in LoopState
  <1> DEFINE w == x.out
             i == find(w, Token(k), x.pos)
             a == SubSeq(w, 1, i - 1)
             b == SubSeq(w, i + 3, Len(w))
  <1>0. /\ w \in Text /\ x.pos \in Nat \ {0} /\ Len(w) \in Nat /\ Token(k) \in Text /\ Len(Token(k)) = 3 /\ Len(val) \in Nat
    BY TextIs, TokenText DEF LoopState
  <1>1. i = 0 \/ i \in (x.pos)..(Len(w) - 3 + 1)
    BY <1>0, FindIs
  <1>2. CASE i = 0
    BY <1>2 DEF Turn
  <1>3. CASE i # 0
    <2>1. /\ 1 \in 1..(Len(w) + 1) /\ i - 1 \in (1 - 1)..Len(w) /\ i + 3 \in 1..(Len(w) + 1)
          /\ Len(w) \in ((i + 3) - 1)..Len(w) /\ i + Len(val) \in Nat \ {0}
      <3> HIDE DEF i, w
      <3>1. i \in Int /\ i >= 1 /\ i <= Len(w) - 2
        BY <1>0, <1>1, <1>3
      <3> QED
        BY <1>0, <3>1
    <2>2. a \in Text /\ b \in Text
      BY <1>0, <2>1, Part
    <2>3. Turn(x, Token(k), val) = [out |-> (a \o val) \o b, pos |-> i + Len(val)]
      BY <1>0, <1>3 DEF Turn, ReplaceSubSeqAt
    <2> HIDE DEF a, b, i
    <2>4. a \o val \in Text
      BY <2>2, Concat
    <2>5. (a \o val) \o b \in Text
      BY <2>2, <2>4, Concat
    <2> QED
      BY <2>1, <2>3, <2>5 DEF LoopState
  <1> QED
    BY <1>2, <1>3

\* The loop of replace_all replaces the token wherever the text has it, once.
LEMMA ReplaceAllExpands ==
  ASSUME NEW s \in Text, NEW k \in Symbols, NEW value, value[k] \in Text
  PROVE  replace_all(s, Token(k), value[k]) = ExpandSome(s, {k}, value)
  <1> DEFINE val == value[k]
             key == Token(k)
             x0 == [out |-> s, pos |-> 1]
             IsTurns(t) == t = [n \in 0..Len(s) |-> IF n = 0 THEN x0 ELSE Turn(t[n - 1], key, val)]
             turn == CHOOSE t : IsTurns(t)
  <1>0. Len(s) \in Nat /\ Values({k}, value) /\ x0 \in LoopState
    BY TextIs DEF Values, LoopState
  <1>1. PICK f : IsPass(f, s, {k}, value, 1) /\ ExpandSome(s, {k}, value) = f[1]
    BY ExpandIsPass
  <1>2. LoopInv(s, f, k, 0, x0)
    <2> DEFINE none == <<>>
    <2>1. none \in Text /\ Len(none) = 0 /\ \A u \in Text : none \o u = u
      BY Empty
    <2> HIDE DEF none
    <2>2. PICK q \in 1..(Len(s) + 1) : q = 1
      BY <1>0
    <2>3. TailOf(s, none, s, q)
      BY <2>1, <2>2, PartAll DEF TailOf
    <2>4. f[q] \in Text
      BY <1>0, <1>1, PassText
    <2>5. Joins(f[1], none, f[q])
      BY <2>1, <2>2, <2>4 DEF Joins
    <2>6. x0.out = s /\ x0.pos = Len(none) + 1 /\ q > 0
      BY <2>1, <2>2
    <2> QED
      BY <2>1, <2>3, <2>5, <2>6 DEF LoopInv
  <1>3. ASSUME NEW n \in Nat, NEW x \in LoopState, LoopInv(s, f, k, n, x)
        PROVE  Turn(x, key, val) \in LoopState /\ LoopInv(s, f, k, n + 1, Turn(x, key, val))
    BY <1>1, <1>3, TurnStep
  <1>a. ASSUME NEW x \in LoopState PROVE Turn(x, key, val) \in LoopState
    BY <1>a, TurnState
  <1> HIDE DEF x0, key, val
  <1>4. \E t \in [0..Len(s) -> LoopState] : IsTurns(t)
    <2> DEFINE step == [n \in Int |-> [x \in LoopState |-> Turn(x, key, val)]]
    <2>1. step \in [Int -> [LoopState -> LoopState]]
      BY <1>a
    <2>2. PICK t \in [0..Len(s) -> LoopState] : IsIteration(t, x0, 0, Len(s), step)
      <3> HIDE DEF step
      <3>1. 0 <= Len(s) /\ 0 \in Int /\ Len(s) \in Int
        BY <1>0
      <3> QED
        BY <1>0, <2>1, <3>1, Iterates
    <2>3. ASSUME NEW n \in 0..Len(s), n # 0 PROVE step[n][t[n - 1]] = Turn(t[n - 1], key, val)
      <3>1. n - 1 \in 0..Len(s) /\ n \in Int
        BY <1>0, <2>3
      <3>2. t[n - 1] \in LoopState
        BY <3>1
      <3> QED
        BY <3>1, <3>2
    <2> HIDE DEF step
    <2>4. IsTurns(t)
      BY <2>2, <2>3 DEF IsIteration
    <2> HIDE DEF IsTurns
    <2> QED
      BY <2>4
  <1>5. IsTurns(turn)
    <2> HIDE DEF IsTurns
    <2> QED
      BY <1>4
  <1>6. replace_all(s, key, val) = turn[Len(s)].out
    BY DEF replace_all, Turn, x0
  <1> HIDE DEF turn
  <1> DEFINE S == {n \in Nat : n <= Len(s) => turn[n] \in LoopState /\ LoopInv(s, f, k, n, turn[n])}
  <1>7. 0 \in S
    <2>1. turn[0] = x0
      BY <1>0, <1>5
    <2> QED
      BY <1>0, <1>2, <2>1
  <1>8. ASSUME NEW n \in Nat, n \in S PROVE n + 1 \in S
    <2> SUFFICES ASSUME n + 1 <= Len(s) PROVE turn[n + 1] \in LoopState /\ LoopInv(s, f, k, n + 1, turn[n + 1])
      OBVIOUS
    <2>1. turn[n] \in LoopState /\ LoopInv(s, f, k, n, turn[n])
      BY <1>0, <1>8
    <2>2. n + 1 \in 0..Len(s) /\ n + 1 # 0 /\ (n + 1) - 1 = n
      BY <1>0
    <2>3. turn[n + 1] = Turn(turn[n], key, val)
      BY <1>5, <2>2
    <2> QED
      BY <1>3, <2>1, <2>3
  <1>9. Len(s) \in S
    <2> HIDE DEF S
    <2> QED
      BY <1>0, <1>7, <1>8, InductionOnSets
  <1>10. LoopInv(s, f, k, Len(s), turn[Len(s)])
    BY <1>0, <1>9
  <1>11. turn[Len(s)].out = f[1]
    <2> DEFINE out == turn[Len(s)].out
    <2>1. PICK d \in Text, q \in 1..(Len(s) + 1) :
            TailOf(out, d, s, q) /\ Joins(f[1], d, f[q]) /\ (q > Len(s) \/ Clear(s, q, Len(s) + 1, {k}))
      BY <1>10 DEF LoopInv
    <2> HIDE DEF out
    <2>2. PICK e \in q..(Len(s) + 1) : e = Len(s) + 1
      BY <1>0
    <2>3. Clear(s, q, e, {k})
      <3>1. CASE q > Len(s)
        <4>1. \A j \in q..(e - 1) : FALSE
          BY <1>0, <2>2, <3>1
        <4> QED
          BY <4>1 DEF Clear
      <3>2. CASE Clear(s, q, Len(s) + 1, {k})
        BY <2>2, <3>2
      <3> QED
        BY <2>1, <3>1, <3>2
    <2>4. Copies(f, s, q, e)
      BY <1>0, <1>1, <2>3, SkipPass
    <2>5. f[e] = <<>>
      <3>1. e \in 1..(Len(s) + 1) /\ e > Len(s)
        BY <1>0, <2>2
      <3>2. f[e] = Piece(f, s, {k}, value, e)
        BY <1>1, <3>1, PassAt
      <3> QED
        BY <3>1, <3>2, Zenon DEF Piece
    <2>6. SubSeq(s, q, Len(s)) \in Text
      <3>1. Len(s) \in (q - 1)..Len(s)
        BY <1>0
      <3> QED
        BY <3>1, Part
    <2>7. f[q] = SubSeq(s, q, Len(s)) \o <<>>
      <3>1. e - 1 = Len(s)
        BY <1>0, <2>2
      <3> QED
        BY <2>4, <2>5, <3>1, Zenon DEF Copies
    <2>8. f[q] = SubSeq(s, q, Len(s))
      BY <2>6, <2>7, Empty, Zenon
    <2>9. out = f[1]
      BY <2>1, <2>8, Zenon DEF TailOf, Joins
    <2> QED
      BY <2>9 DEF out
  <1> QED
    BY <1>1, <1>6, <1>11 DEF key, val

-----------------------------------------------------------------------------
(* Replacing the tokens of K and then those with name k replaces both.     *)

LEMMA RestExists ==
  ASSUME NEW s \in Text, NEW d \in 0..Len(s)
  PROVE  \E u \in Text : IsRest(u, s, d)
  <1>0. Len(s) \in Nat
    BY TextIs
  <1> DEFINE u == SubSeq(s, d + 1, Len(s))
  <1>1. d + 1 \in 1..(Len(s) + 1) /\ Len(s) \in ((d + 1) - 1)..Len(s) /\ Len(s) - (d + 1) + 1 = Len(s) - d
    BY <1>0
  <1>2. u \in Text /\ Len(u) = Len(s) - d /\ \A m \in 1..(Len(s) - d) : u[m] = s[(d + 1) + m - 1]
    BY <1>1, Part
  <1> HIDE DEF u
  <1>3. \A m \in 1..Len(u) : (d + 1) + m - 1 = m + d
    BY <1>0, <1>2
  <1>4. Len(s) = Len(u) + d
    BY <1>0, <1>2
  <1>5. \A m \in 1..Len(u) : u[m] = s[m + d]
    BY <1>2, <1>3
  <1> QED
    BY <1>2, <1>4, <1>5 DEF IsRest

\* A symbol before a text.
LEMMA Pushed ==
  ASSUME NEW c \in Symbols, NEW y \in Text, NEW w, Joins(w, <<c>>, y)
  PROVE  w \in Text /\ Len(w) = Len(y) + 1 /\ w[1] = c /\ IsRest(y, w, 1)
  <1>0. <<c>> \in Text /\ Len(<<c>>) = 1 /\ <<c>>[1] = c /\ Len(y) \in Nat
    BY One, TextIs
  <1> DEFINE a == <<c>>
  <1>1. a \in Text /\ Len(a) = 1 /\ a[1] = c /\ w = a \o y
    BY <1>0 DEF Joins
  <1> HIDE DEF a
  <1>2. /\ w \in Text /\ Len(w) = Len(a) + Len(y)
        /\ \A i \in 1..(Len(a) + Len(y)) : w[i] = IF i <= Len(a) THEN a[i] ELSE y[i - Len(a)]
    BY <1>1, Concat
  <1>3. w[1] = c
    BY <1>0, <1>1, <1>2
  <1>4. ASSUME NEW i \in 1..Len(y) PROVE y[i] = w[i + 1]
    <2>1. i + 1 \in 1..(1 + Len(y)) /\ ~(i + 1 <= 1) /\ (i + 1) - 1 = i
      BY <1>0
    <2> QED
      BY <1>1, <1>2, <2>1
  <1> QED
    BY <1>0, <1>1, <1>2, <1>3, <1>4 DEF IsRest

\* The first symbols of a text that follows another.
LEMMA Prefixed ==
  ASSUME NEW v \in Text, NEW y \in Text, NEW w, Joins(w, v, y)
  PROVE  w \in Text /\ Len(w) = Len(v) + Len(y) /\ \A i \in 1..Len(v) : w[i] = v[i]
  <1>0. Len(v) \in Nat /\ Len(y) \in Nat
    BY TextIs
  <1>1. w = v \o y
    BY DEF Joins
  <1>2. /\ w \in Text /\ Len(w) = Len(v) + Len(y)
        /\ \A i \in 1..(Len(v) + Len(y)) : w[i] = IF i <= Len(v) THEN v[i] ELSE y[i - Len(v)]
    BY <1>1, Concat
  <1>3. ASSUME NEW i \in 1..Len(v) PROVE w[i] = v[i]
    <2>1. i \in 1..(Len(v) + Len(y)) /\ i <= Len(v)
      BY <1>0
    <2> QED
      BY <1>2, <2>1
  <1> QED
    BY <1>2, <1>3

LEMMA TokenFirst ==
  ASSUME NEW p \in Text, NEW K
  PROVE  TokenAt(p, 1, K) <=> (Len(p) >= 3 /\ p[1] = LBRACE /\ p[2] \in K /\ p[3] = RBRACE)
  <1>1. Len(p) \in Nat /\ 1 + 1 = 2 /\ 1 + 2 = 3
    BY TextIs
  <1>2. 1 + 2 <= Len(p) <=> Len(p) >= 3
    BY <1>1
  <1> QED
    BY <1>1, <1>2 DEF TokenAt

\* No token {k} begins in v, whatever follows it.
Keeps(v, k) == \A j \in 1..Len(v) : v[j] = LBRACE => j + 2 <= Len(v) /\ v[j + 1] # k

\* v cannot complete a token {k} whose beginning precedes it.
Guards(v, k) == v # <<>> /\ v[1] # k /\ v[1] # RBRACE

AllGuard(K, k, value) == \A i \in K : Guards(value[i], k)

\* The values of K allow the token {k} to be replaced after those of K.
Fusable(K, k, value) ==
  /\ k \in Symbols /\ k # LBRACE /\ k # RBRACE /\ k \notin K
  /\ Values(K, value) /\ value[k] \in Text
  /\ \A i \in K : Keeps(value[i], k)

Fuses(p, K, k, value) ==
  ExpandSome(ExpandSome(p, K, value), {k}, value) = ExpandSome(p, K \cup {k}, value)

LEMMA FuseToken ==
  ASSUME NEW K, NEW k, NEW value, Fusable(K, k, value), NEW p \in Text, NEW u \in Text, TokenAt(p, 1, K),
         IsRest(u, p, 3), Fuses(u, K, k, value)
  PROVE  Fuses(p, K, k, value)
  <1> DEFINE v == value[p[2]]
             w == ExpandSome(p, K, value)
             y == ExpandSome(u, K, value)
  <1>0. /\ Values(K, value) /\ Values({k}, value) /\ p[1] = LBRACE /\ p[2] \in K /\ p[2] \in K \cup {k}
        /\ TokenAt(p, 1, K \cup {k})
    <2>1. p[1] = LBRACE /\ p[2] \in K /\ p[2] \in K \cup {k} /\ TokenAt(p, 1, K \cup {k})
      BY TokenFirst
    <2> QED
      BY <2>1 DEF Fusable, Values
  <1>1. v \in Text /\ Keeps(v, k) /\ y \in Text /\ Len(v) \in Nat
    BY <1>0, ExpandText, TextIs DEF Fusable, Values
  <1>2. Joins(w, v, y)
    BY ExpandToken
  <1> HIDE DEF v, w, y
  <1>3. w \in Text /\ \A i \in 1..Len(v) : w[i] = v[i]
    BY <1>1, <1>2, Prefixed
  <1>4. Clear(w, 1, Len(v) + 1, {k})
    <2>1. ASSUME NEW j \in 1..((Len(v) + 1) - 1), TokenAt(w, j, {k}) PROVE FALSE
      <3>0. j \in 1..Len(v)
        BY <1>1
      <3>1. w[j] = LBRACE /\ w[j + 1] = k
        BY <2>1, Zenon DEF TokenAt
      <3>2. j + 2 <= Len(v) /\ v[j + 1] # k
        BY <1>1, <1>3, <3>0, <3>1 DEF Keeps
      <3>3. j + 1 \in 1..Len(v)
        BY <1>1, <3>0, <3>2
      <3> QED
        BY <1>3, <3>1, <3>2, <3>3
    <2> QED
      BY <2>1 DEF Clear
  <1>5. Joins(ExpandSome(w, {k}, value), v, ExpandSome(y, {k}, value))
    BY <1>0, <1>1, <1>2, <1>3, <1>4, ExpandSkip
  <1>6. Joins(ExpandSome(p, K \cup {k}, value), v, ExpandSome(u, K \cup {k}, value))
    BY <1>0, ExpandToken DEF v
  <1> QED
    BY <1>5, <1>6, Zenon DEF Fuses, Joins, w, y

LEMMA FuseLast ==
  ASSUME NEW K, NEW k, NEW value, Fusable(K, k, value), NEW p \in Text, NEW u \in Text, TokenAt(p, 1, {k}),
         IsRest(u, p, 3), Fuses(u, K, k, value)
  PROVE  Fuses(p, K, k, value)
  <1>0. /\ Values(K, value) /\ Values({k}, value) /\ p[1] = LBRACE /\ p[2] = k /\ p[3] = RBRACE /\ k \in Symbols
        /\ TokenAt(p, 1, K \cup {k}) /\ ~TokenAt(p, 1, K) /\ LBRACE # RBRACE /\ k # LBRACE /\ Len(p) >= 3
    <2>1. Values(K, value) /\ Values({k}, value) /\ k \in Symbols /\ LBRACE # RBRACE /\ k # LBRACE /\ k \notin K
      BY Braces DEF Fusable, Values
    <2>2. p[1] = LBRACE /\ p[2] = k /\ p[3] = RBRACE /\ Len(p) >= 3
      <3>1. p[1] = LBRACE /\ p[2] \in {k} /\ p[3] = RBRACE /\ Len(p) >= 3
        BY TokenFirst, Zenon
      <3> QED
        BY <3>1
    <2>3. TokenAt(p, 1, K \cup {k}) /\ ~TokenAt(p, 1, K)
      BY <2>1, <2>2, TokenFirst
    <2> QED
      BY <2>1, <2>2, <2>3
  <1>s. LBRACE \in Symbols /\ RBRACE \in Symbols
    BY RenderAssumption, Zenon DEF OwnSymbols
  <1>1. Len(p) \in Nat /\ Len(p) >= 3 /\ Len(u) \in Nat /\ Len(p) = Len(u) + 3 /\ 1 \in 0..Len(p) /\ 2 \in 0..Len(p)
    <2>1. Len(p) = Len(u) + 3
      BY DEF IsRest
    <2>2. Len(p) \in Nat /\ Len(u) \in Nat /\ Len(p) >= 3
      BY <1>0, TextIs
    <2> QED
      BY <2>1, <2>2
  <1>2. PICK u1 \in Text : IsRest(u1, p, 1)
    BY <1>1, RestExists
  <1>3. PICK u2 \in Text : IsRest(u2, p, 2)
    BY <1>1, RestExists
  <1>4. /\ Len(u1) = Len(p) - 1 /\ Len(u2) = Len(p) - 2 /\ Len(u1) \in Nat /\ Len(u2) \in Nat
    BY <1>2, <1>3, TextIs DEF IsRest
  <1>5. IsRest(u2, u1, 1)
    <2>1. ASSUME NEW i \in 1..Len(u2) PROVE u2[i] = u1[i + 1]
      <3>1. i + 1 \in 1..Len(u1) /\ (i + 1) + 1 = i + 2
        BY <1>1, <1>4
      <3> QED
        BY <1>2, <1>3, <3>1 DEF IsRest
    <2> QED
      BY <1>1, <1>4, <2>1 DEF IsRest
  <1>6. IsRest(u, u2, 1)
    <2>1. ASSUME NEW i \in 1..Len(u) PROVE u[i] = u2[i + 1]
      <3>1. i + 1 \in 1..Len(u2) /\ (i + 1) + 2 = i + 3
        BY <1>1, <1>4
      <3> QED
        BY <1>3, <3>1 DEF IsRest
    <2> QED
      BY <1>1, <1>4, <2>1 DEF IsRest
  <1>7. u1[1] = k /\ u2[1] = RBRACE
    <2>1. 1 \in 1..Len(u1) /\ 1 \in 1..Len(u2) /\ 1 + 1 = 2 /\ 1 + 2 = 3
      BY <1>1, <1>4
    <2> QED
      BY <1>0, <1>2, <1>3, <2>1 DEF IsRest
  <1>8. ~TokenAt(u1, 1, K) /\ ~TokenAt(u2, 1, K)
    BY <1>0, <1>7, Zenon DEF TokenAt
  <1> DEFINE X(s) == ExpandSome(s, K, value)
  <1>9. /\ Joins(X(p), <<LBRACE>>, X(u1)) /\ Joins(X(u1), <<k>>, X(u2)) /\ Joins(X(u2), <<RBRACE>>, X(u))
    <2>1. Joins(X(p), <<p[1]>>, X(u1))
      BY <1>0, <1>2, ExpandOther
    <2>2. Joins(X(u1), <<u1[1]>>, X(u2))
      BY <1>5, <1>8, ExpandOther
    <2>3. Joins(X(u2), <<u2[1]>>, X(u))
      BY <1>6, <1>8, ExpandOther
    <2> QED
      BY <1>0, <1>7, <2>1, <2>2, <2>3, Zenon
  <1>10. X(p) \in Text /\ X(u1) \in Text /\ X(u2) \in Text /\ X(u) \in Text
    BY <1>0, ExpandText
  <1>x. PICK w \in Text, y1 \in Text, y2 \in Text, y \in Text : w = X(p) /\ y1 = X(u1) /\ y2 = X(u2) /\ y = X(u)
    BY <1>10
  <1> HIDE DEF X
  <1>b. Joins(w, <<LBRACE>>, y1) /\ Joins(y1, <<k>>, y2) /\ Joins(y2, <<RBRACE>>, y)
    BY <1>9, <1>x
  <1>11. /\ w[1] = LBRACE /\ IsRest(y1, w, 1) /\ Len(w) = Len(y1) + 1
         /\ y1[1] = k /\ IsRest(y2, y1, 1) /\ Len(y1) = Len(y2) + 1
         /\ y2[1] = RBRACE /\ IsRest(y, y2, 1) /\ Len(y2) = Len(y) + 1
    <2>1. w[1] = LBRACE /\ IsRest(y1, w, 1) /\ Len(w) = Len(y1) + 1
      BY <1>s, <1>b, Pushed
    <2>2. y1[1] = k /\ IsRest(y2, y1, 1) /\ Len(y1) = Len(y2) + 1
      <3>1. k \in Symbols /\ Joins(y1, <<k>>, y2)
        BY <1>0, <1>b, Zenon
      <3> QED
        BY <3>1, Pushed, Zenon
    <2>3. y2[1] = RBRACE /\ IsRest(y, y2, 1) /\ Len(y2) = Len(y) + 1
      BY <1>s, <1>b, Pushed
    <2> QED
      BY <2>1, <2>2, <2>3
  <1>12. Len(y) \in Nat /\ Len(y2) = Len(y) + 1 /\ Len(y1) = Len(y) + 2 /\ Len(w) = Len(y) + 3
    <2>1. Len(y) \in Nat
      BY TextIs
    <2>2. Len(y2) = Len(y) + 1 /\ Len(y1) = Len(y2) + 1 /\ Len(w) = Len(y1) + 1
      BY <1>11
    <2> QED
      BY <2>1, <2>2
  <1>13. w[1] = LBRACE /\ w[2] = k /\ w[3] = RBRACE
    <2>1. 1 \in 1..Len(y1) /\ 1 \in 1..Len(y2) /\ 2 \in 1..Len(y1) /\ 1 + 1 = 2 /\ 2 + 1 = 3
      BY <1>12
    <2>2. w[2] = y1[1] /\ w[3] = y1[2] /\ y1[2] = y2[1]
      BY <1>11, <2>1 DEF IsRest
    <2> QED
      BY <1>11, <2>2
  <1>14. IsRest(y, w, 3)
    <2>1. ASSUME NEW i \in 1..Len(y) PROVE y[i] = w[i + 3]
      <3>1. i + 1 \in 1..Len(y2) /\ i + 2 \in 1..Len(y1) /\ (i + 1) + 1 = i + 2 /\ (i + 2) + 1 = i + 3
        BY <1>12
      <3>2. y[i] = y2[i + 1] /\ y2[i + 1] = y1[i + 2] /\ y1[i + 2] = w[i + 3]
        BY <1>11, <3>1 DEF IsRest
      <3> QED
        BY <3>2
    <2> QED
      BY <1>12, <2>1 DEF IsRest
  <1>15. TokenAt(w, 1, {k})
    <2>1. Len(w) >= 3
      <3>1. Len(y) \in Nat /\ Len(w) = Len(y) + 3
        BY <1>12
      <3> QED
        BY <3>1
    <2>2. w[2] \in {k}
      BY <1>13, Zenon
    <2> QED
      BY <1>13, <2>1, <2>2, TokenFirst, Zenon
  <1>17. Joins(ExpandSome(w, {k}, value), value[w[2]], ExpandSome(y, {k}, value))
    BY <1>14, <1>15, ExpandToken
  <1>18. Joins(ExpandSome(p, K \cup {k}, value), value[p[2]], ExpandSome(u, K \cup {k}, value))
    BY <1>0, ExpandToken
  <1> QED
    BY <1>0, <1>x, <1>13, <1>17, <1>18, Zenon DEF Fuses, Joins, X

\* Every "{" of p begins a token of N.
BracesOpen(p, N) == \A i \in 1..Len(p) : p[i] = LBRACE => TokenAt(p, i, N)

\* With values that guard, a k or a "}" at the beginning was there before.
LEMMA FirstWas ==
  ASSUME NEW K, NEW k, NEW value, Fusable(K, k, value), AllGuard(K, k, value), NEW u \in Text,
         NEW y, y = ExpandSome(u, K, value), Len(y) >= 1, y[1] = k \/ y[1] = RBRACE
  PROVE  Len(u) >= 1 /\ u[1] = y[1] /\ ~TokenAt(u, 1, K)
  <1>0. Len(u) \in Nat /\ Values(K, value) /\ k # LBRACE /\ LBRACE # RBRACE
    BY TextIs, Braces DEF Fusable
  <1>1. Len(u) # 0
    <2>1. ASSUME Len(u) = 0 PROVE FALSE
      <3>1. u = <<>>
        BY <2>1, TextIs
      <3>2. y = <<>>
        BY <3>1, ExpandEmpty
      <3>3. Len(y) = 0
        BY <3>2, Empty
      <3> QED
        BY <3>3
    <2> QED
      BY <2>1
  <1>2. ~TokenAt(u, 1, K)
    <2>1. ASSUME TokenAt(u, 1, K) PROVE FALSE
      <3>1. u[2] \in K /\ Len(u) >= 3
        BY <2>1, TokenFirst, Zenon
      <3>2. 3 \in 0..Len(u)
        BY <1>0, <3>1
      <3>3. PICK u3 \in Text : IsRest(u3, u, 3)
        BY <3>2, RestExists
      <3>4. PICK v \in Text : v = value[u[2]]
        BY <1>0, <3>1, Zenon DEF Values
      <3>5. PICK z \in Text : z = ExpandSome(u3, K, value)
        BY <1>0, ExpandText
      <3>6. Joins(y, v, z)
        <4>1. Joins(ExpandSome(u, K, value), value[u[2]], ExpandSome(u3, K, value))
          BY <2>1, <3>3, ExpandToken
        <4> QED
          BY <3>4, <3>5, <4>1
      <3>7. v # <<>> /\ v[1] # k /\ v[1] # RBRACE
        BY <3>1, <3>4, Zenon DEF AllGuard, Guards
      <3>8. 1 \in 1..Len(v)
        BY <3>7, TextIs
      <3>9. y[1] = v[1]
        BY <3>6, <3>8, Prefixed
      <3> QED
        BY <3>7, <3>9
    <2> QED
      BY <2>1
  <1>3. 1 \in 0..Len(u) /\ 1 \in 1..Len(u) /\ Len(u) >= 1
    BY <1>0, <1>1
  <1>5. u[1] = y[1]
    <2>1. PICK u2 \in Text : IsRest(u2, u, 1)
      BY <1>3, RestExists
    <2>2. u[1] \in Symbols
      BY <1>3, TextIs
    <2>3. PICK z \in Text : z = ExpandSome(u2, K, value)
      BY <1>0, ExpandText
    <2>4. Joins(y, <<u[1]>>, z)
      BY <1>2, <2>1, <2>3, ExpandOther
    <2> QED
      BY <2>2, <2>4, Pushed
  <1> QED
    BY <1>2, <1>3, <1>5

LEMMA FuseOther ==
  ASSUME NEW K, NEW k, NEW value, Fusable(K, k, value), NEW N, N \subseteq Symbols \ {LBRACE, RBRACE},
         NEW p \in Text, NEW u \in Text, ~TokenAt(p, 1, K), ~TokenAt(p, 1, {k}), IsRest(u, p, 1),
         BracesOpen(p, N) \/ AllGuard(K, k, value), Fuses(u, K, k, value)
  PROVE  Fuses(p, K, k, value)
  <1>0. /\ Values(K, value) /\ Len(p) \in Nat /\ Len(u) \in Nat /\ Len(p) = Len(u) + 1 /\ k # LBRACE /\ LBRACE # RBRACE
        /\ 1 \in 1..Len(p)
    <2>1. Len(p) = Len(u) + 1
      BY DEF IsRest
    <2>2. Len(p) \in Nat /\ Len(u) \in Nat
      BY TextIs
    <2>3. Values(K, value) /\ k # LBRACE /\ LBRACE # RBRACE
      BY Braces DEF Fusable
    <2>4. 1 \in 1..Len(p)
      BY <2>1, <2>2
    <2> QED
      BY <2>1, <2>2, <2>3, <2>4
  <1>1. p[1] \in Symbols
    BY <1>0, TextIs
  <1>2. PICK w \in Text, y \in Text : w = ExpandSome(p, K, value) /\ y = ExpandSome(u, K, value)
    BY <1>0, ExpandText
  <1>3. Joins(w, <<p[1]>>, y)
    <2>1. Joins(ExpandSome(p, K, value), <<p[1]>>, ExpandSome(u, K, value))
      BY ExpandOther
    <2> QED
      BY <1>2, <2>1
  <1>4. w[1] = p[1] /\ IsRest(y, w, 1) /\ Len(w) = Len(y) + 1 /\ Len(y) \in Nat
    BY <1>1, <1>3, Pushed, TextIs
  <1>5. ~TokenAt(w, 1, {k})
    <2> SUFFICES ASSUME TokenAt(w, 1, {k}) PROVE FALSE
      OBVIOUS
    <2>1. w[1] = LBRACE /\ w[2] = k /\ w[3] = RBRACE /\ Len(w) >= 3
      <3>1. w[1] = LBRACE /\ w[2] \in {k} /\ w[3] = RBRACE /\ Len(w) >= 3
        BY TokenFirst, Zenon
      <3> QED
        BY <3>1
    <2>2. Len(y) >= 2 /\ y[1] = k /\ y[2] = RBRACE
      <3>1. Len(y) >= 2 /\ 1 \in 1..Len(y) /\ 2 \in 1..Len(y) /\ 1 + 1 = 2 /\ 2 + 1 = 3
        BY <1>4, <2>1
      <3> QED
        BY <1>4, <2>1, <3>1 DEF IsRest
    <2>3. CASE BracesOpen(p, N)
      <3>1. TokenAt(p, 1, N)
        BY <1>0, <1>4, <2>1, <2>3 DEF BracesOpen
      <3>2. p[2] \in N /\ p[3] = RBRACE /\ p[1] = LBRACE /\ Len(p) >= 3
        BY <3>1, TokenFirst, Zenon
      <3>3. p[2] \notin {k}
        BY <3>2, TokenFirst, Zenon
      <3>4. u[1] = p[2] /\ 1 \in 0..Len(u) /\ 1 \in 1..Len(u)
        <4>1. 1 \in 0..Len(u) /\ 1 \in 1..Len(u) /\ 1 + 1 = 2
          BY <1>0, <3>2
        <4> QED
          BY <4>1 DEF IsRest
      <3>5. ~TokenAt(u, 1, K)
        <4>1. u[1] # LBRACE
          BY <3>2, <3>4
        <4> QED
          BY <4>1, TokenFirst, Zenon
      <3>6. PICK u2 \in Text : IsRest(u2, u, 1)
        BY <3>4, RestExists
      <3>7. PICK z \in Text : z = ExpandSome(u2, K, value)
        BY <1>0, ExpandText
      <3>8. Joins(y, <<u[1]>>, z)
        <4>1. Joins(ExpandSome(u, K, value), <<u[1]>>, ExpandSome(u2, K, value))
          BY <3>5, <3>6, ExpandOther
        <4> QED
          BY <1>2, <3>7, <4>1
      <3>9. u[1] \in Symbols
        BY <3>4, TextIs
      <3>10. y[1] = u[1]
        BY <3>8, <3>9, Pushed
      <3> QED
        BY <2>2, <3>3, <3>4, <3>10
    <2>4. CASE AllGuard(K, k, value)
      <3>0. Len(y) >= 1
        BY <1>4, <2>2
      <3>1. Len(u) >= 1 /\ u[1] = k /\ ~TokenAt(u, 1, K)
        BY <1>2, <2>2, <2>4, <3>0, FirstWas
      <3>2. 1 \in 0..Len(u) /\ 1 \in 1..Len(u) /\ 1 + 1 = 2
        BY <1>0, <3>1
      <3>3. PICK u2 \in Text : IsRest(u2, u, 1)
        BY <3>2, RestExists
      <3>4. PICK z \in Text : z = ExpandSome(u2, K, value)
        BY <1>0, ExpandText
      <3>5. u[1] \in Symbols /\ Joins(y, <<u[1]>>, z)
        BY <1>2, <3>1, <3>2, <3>3, <3>4, TextIs, ExpandOther
      <3>6. IsRest(z, y, 1) /\ Len(y) = Len(z) + 1
        BY <3>5, Pushed
      <3>7. Len(z) >= 1 /\ z[1] = RBRACE
        <4>1. Len(z) >= 1 /\ 1 \in 1..Len(z) /\ 1 + 1 = 2
          BY <2>2, <3>6, TextIs
        <4> QED
          BY <2>2, <3>6, <4>1 DEF IsRest
      <3>8. Len(u2) >= 1 /\ u2[1] = RBRACE
        <4>1. Len(u2) >= 1 /\ u2[1] = z[1]
          <5>1. z = ExpandSome(u2, K, value) /\ Len(z) >= 1 /\ (z[1] = k \/ z[1] = RBRACE)
            BY <3>4, <3>7
          <5> QED
            BY <2>4, <5>1, FirstWas
        <4> QED
          BY <3>7, <4>1
      <3>9. p[1] = LBRACE /\ p[2] = k /\ p[3] = RBRACE /\ Len(p) >= 3
        <4>1. Len(u2) \in Nat /\ Len(u) = Len(u2) + 1
          BY <3>3, TextIs DEF IsRest
        <4>2. 1 \in 1..Len(u2) /\ 2 \in 1..Len(u) /\ 1 \in 1..Len(u) /\ 1 + 1 = 2 /\ 2 + 1 = 3 /\ Len(p) >= 3
          BY <1>0, <3>8, <4>1
        <4>3. u2[1] = u[2] /\ u[1] = p[2] /\ u[2] = p[3]
          BY <3>3, <4>2 DEF IsRest
        <4> QED
          BY <1>4, <2>1, <3>1, <3>8, <4>2, <4>3
      <3>10. p[2] \in {k}
        BY <3>9
      <3> QED
        BY <3>9, <3>10, TokenFirst, Zenon
    <2> QED
      BY <2>3, <2>4
  <1>6. Joins(ExpandSome(w, {k}, value), <<w[1]>>, ExpandSome(y, {k}, value))
    BY <1>4, <1>5, ExpandOther
  <1>7. ~TokenAt(p, 1, K \cup {k})
    BY TokenFirst
  <1>8. Joins(ExpandSome(p, K \cup {k}, value), <<p[1]>>, ExpandSome(u, K \cup {k}, value))
    BY <1>7, ExpandOther
  <1> QED
    BY <1>2, <1>4, <1>6, <1>8, Zenon DEF Fuses, Joins

LEMMA Fusion ==
  ASSUME NEW K, NEW k, NEW value, Fusable(K, k, value), NEW N, N \subseteq Symbols \ {LBRACE, RBRACE},
         NEW p \in Text, BracesOpen(p, N) \/ AllGuard(K, k, value)
  PROVE  Fuses(p, K, k, value)
  <1> DEFINE Ok(s) == BracesOpen(s, N) \/ AllGuard(K, k, value)
             S == {n \in Nat : \A s \in Text : Len(s) = n /\ Ok(s) => Fuses(s, K, k, value)}
  <1>0. ASSUME NEW s \in Text, NEW u \in Text, NEW d \in Nat, IsRest(u, s, d), Ok(s) PROVE Ok(u)
    <2>1. CASE AllGuard(K, k, value)
      BY <2>1
    <2>2. CASE BracesOpen(s, N)
      <3>1. Len(s) \in Nat /\ Len(u) \in Nat /\ Len(s) = Len(u) + d
        BY <1>0, TextIs DEF IsRest
      <3>2. ASSUME NEW i \in 1..Len(u), u[i] = LBRACE PROVE TokenAt(u, i, N)
        <4>1. i + d \in 1..Len(s) /\ s[i + d] = LBRACE
          BY <1>0, <3>1, <3>2 DEF IsRest
        <4>2. TokenAt(s, i + d, N)
          BY <2>2, <4>1 DEF BracesOpen
        <4>3. (i + d) + 2 <= Len(s) /\ s[(i + d) + 1] \in N /\ s[(i + d) + 2] = RBRACE
          BY <4>2, Zenon DEF TokenAt
        <4>4. i + 1 \in 1..Len(u) /\ i + 2 \in 1..Len(u) /\ (i + d) + 1 = (i + 1) + d /\ (i + d) + 2 = (i + 2) + d
              /\ i + 2 <= Len(u)
          BY <3>1, <4>3
        <4>5. u[i + 1] = s[(i + 1) + d] /\ u[i + 2] = s[(i + 2) + d]
          BY <1>0, <4>4 DEF IsRest
        <4> QED
          BY <3>2, <4>3, <4>4, <4>5 DEF TokenAt
      <3> QED
        BY <3>2 DEF BracesOpen
    <2> QED
      BY <1>0, <2>1, <2>2
  <1> HIDE DEF Ok
  <1>1. ASSUME NEW n \in Nat, \A m \in Nat : m < n => m \in S PROVE n \in S
    <2> SUFFICES ASSUME NEW s \in Text, Len(s) = n, Ok(s) PROVE Fuses(s, K, k, value)
      OBVIOUS
    <2>1. ASSUME NEW u \in Text, NEW d \in 1..Len(s), IsRest(u, s, d) PROVE Fuses(u, K, k, value)
      <3>1. Len(u) \in Nat /\ Len(s) = Len(u) + d /\ d \in Nat
        BY <2>1, TextIs DEF IsRest
      <3>2. Len(u) < n
        BY <3>1
      <3>3. Ok(u)
        BY <1>0, <2>1, <3>1
      <3>4. Len(u) \in S
        BY <1>1, <3>1, <3>2
      <3> QED
        BY <3>3, <3>4
    <2> HIDE DEF S
    <2>2. CASE n = 0
      <3>1. s = <<>>
        BY <2>2, TextIs
      <3> QED
        BY <3>1, ExpandEmpty DEF Fuses
    <2>3. CASE TokenAt(s, 1, K)
      <3>1. Len(s) >= 3
        BY <2>3, TokenFirst
      <3>2. 3 \in 0..Len(s) /\ 3 \in 1..Len(s)
        BY <3>1
      <3>3. PICK u \in Text : IsRest(u, s, 3)
        BY <3>2, RestExists
      <3> QED
        BY <2>1, <2>3, <3>2, <3>3, FuseToken
    <2>4. CASE TokenAt(s, 1, {k})
      <3>1. Len(s) >= 3
        BY <2>4, TokenFirst
      <3>2. 3 \in 0..Len(s) /\ 3 \in 1..Len(s)
        BY <3>1
      <3>3. PICK u \in Text : IsRest(u, s, 3)
        BY <3>2, RestExists
      <3> QED
        BY <2>1, <2>4, <3>2, <3>3, FuseLast
    <2>5. CASE n # 0 /\ ~TokenAt(s, 1, K) /\ ~TokenAt(s, 1, {k})
      <3>2. 1 \in 0..Len(s) /\ 1 \in 1..Len(s)
        BY <2>5
      <3>3. PICK u \in Text : IsRest(u, s, 1)
        BY <3>2, RestExists
      <3>4. Fuses(u, K, k, value)
        BY <2>1, <3>2, <3>3
      <3> QED
        BY <2>5, <3>3, <3>4, FuseOther DEF Ok
    <2> QED
      BY <2>2, <2>3, <2>4, <2>5
  <1>2. Nat \subseteq S
    <2> HIDE DEF S
    <2> QED
      BY <1>1, StrongInduction
  <1>3. Len(p) \in S /\ Ok(p)
    BY <1>2, TextIs DEF Ok
  <1> QED
    BY <1>3

-----------------------------------------------------------------------------
(* The tokens one after the other.                                         *)

LEMMA TokensAre ==
  /\ Len(Tokens) = 9 /\ DOMAIN Tokens = 1..9 /\ Last(Tokens) = "tid"
  /\ \A i, j \in 1..9 : Tokens[i] = Tokens[j] => i = j
  /\ \A i \in 1..9 : Tokens[i] \in Symbols /\ Tokens[i] # LBRACE /\ Tokens[i] # RBRACE
  /\ ToSet(Tokens) = {Tokens[i] : i \in 1..9}
  <1>1. Len(Tokens) = 9 /\ DOMAIN Tokens = 1..9 /\ Tokens[9] = "tid"
    BY DEF Tokens
  <1>2. \A i, j \in 1..9 : Tokens[i] = Tokens[j] => i = j
    BY DEF Tokens
  <1>3. {Tokens[i] : i \in 1..9} \subseteq OwnSymbols
    BY DEF Tokens, OwnSymbols
  <1>4. /\ \A x \in {"time", "severity", "severity_priority", "endpoint", "message", "file", "line", "func", "tid"} :
             x # LBRACE /\ x # RBRACE
    BY Zenon DEF LBRACE, RBRACE
  <1>5. \A i \in 1..9 : Tokens[i] \in {"time", "severity", "severity_priority", "endpoint", "message", "file",
                                       "line", "func", "tid"}
    BY DEF Tokens
  <1>6. \A i \in 1..9 : Tokens[i] \in Symbols
    BY <1>3, RenderAssumption
  <1> QED
    BY <1>1, <1>2, <1>4, <1>5, <1>6 DEF Last, ToSet

Names == ToSet(Tokens)
ValuesOf(e) == [k \in Names |-> ValueOf(e, k)]
Firsts(j) == {Tokens[i] : i \in 1..j}

\* The steps of ReplaceTokens.
LEMMA ReplaceSteps ==
  ASSUME NEW pattern \in Text, NEW e, \A k \in Names : ValueOf(e, k) \in Text
  PROVE  \E a \in [0..9 -> Text] :
           /\ a[0] = pattern /\ ReplaceTokens(Tokens, pattern, e) = a[9]
           /\ \A j \in 1..9 : a[j] = ExpandSome(a[j - 1], {Tokens[j]}, ValuesOf(e))
  <1> DEFINE Step(s, j) == replace_all(s, Token(Tokens[j]), ValueOf(e, Tokens[j]))
             Is(t) == t = [j \in 0..9 |-> IF j = 0 THEN pattern ELSE Step(t[j - 1], j)]
             Out(s, j) == ExpandSome(s, {Tokens[j]}, ValuesOf(e))
             after == CHOOSE t : Is(t)
  <1>1. ASSUME NEW s \in Text, NEW j \in 1..9 PROVE Step(s, j) = Out(s, j) /\ Out(s, j) \in Text
    <2>1. Tokens[j] \in Symbols /\ Tokens[j] \in Names
      BY TokensAre DEF Names
    <2>2. ValuesOf(e)[Tokens[j]] = ValueOf(e, Tokens[j]) /\ ValuesOf(e)[Tokens[j]] \in Text
      BY <2>1 DEF ValuesOf
    <2>3. Values({Tokens[j]}, ValuesOf(e))
      BY <2>2 DEF Values
    <2>4. replace_all(s, Token(Tokens[j]), ValuesOf(e)[Tokens[j]]) = Out(s, j)
      BY <2>1, <2>2, ReplaceAllExpands
    <2> QED
      BY <2>2, <2>3, <2>4, ExpandText
  <1>2. ReplaceTokens(Tokens, pattern, e) = after[9]
    BY TokensAre DEF ReplaceTokens
  <1> HIDE DEF Step, Out
  <1>3. \E t \in [0..9 -> Text] : Is(t)
    <2> DEFINE step == [j \in Int |-> [s \in Text |-> IF j \in 1..9 THEN Step(s, j) ELSE s]]
    <2>1. step \in [Int -> [Text -> Text]]
      BY <1>1
    <2>2. \A j \in 1..9 : \A s \in Text : step[j][s] = Step(s, j)
      OBVIOUS
    <2> HIDE DEF step
    <2>3. PICK t \in [0..9 -> Text] : IsIteration(t, pattern, 0, 9, step)
      <3>1. 0 \in Int /\ 9 \in Int /\ 0 <= 9
        OBVIOUS
      <3> QED
        BY <2>1, <3>1, Iterates, Zenon
    <2>4. ASSUME NEW j \in 0..9, j # 0 PROVE step[j][t[j - 1]] = Step(t[j - 1], j)
      <3>1. j \in 1..9 /\ j - 1 \in 0..9
        BY <2>4
      <3> QED
        BY <2>2, <3>1
    <2>5. Is(t)
      BY <2>3, <2>4 DEF IsIteration
    <2> HIDE DEF Is
    <2> QED
      BY <2>5
  <1>4. Is(after)
    <2> HIDE DEF Is
    <2> QED
      BY <1>3
  <1> HIDE DEF after
  <1>5. after[0] = pattern /\ \A j \in 1..9 : after[j] = Step(after[j - 1], j)
    BY <1>4
  <1>6. DOMAIN after = 0..9 /\ after = [j \in 0..9 |-> after[j]]
    BY <1>4
  <1>7. \A j \in 0..9 : after[j] \in Text
    <2> DEFINE S == {n \in Nat : n <= 9 => after[n] \in Text}
    <2>1. 0 \in S
      BY <1>5
    <2>2. ASSUME NEW n \in Nat, n \in S PROVE n + 1 \in S
      <3> SUFFICES ASSUME n + 1 <= 9 PROVE after[n + 1] \in Text
        OBVIOUS
      <3>1. n + 1 \in 1..9 /\ (n + 1) - 1 = n /\ after[n] \in Text
        BY <2>2
      <3> QED
        BY <1>1, <1>5, <3>1
    <2> HIDE DEF S
    <2>3. Nat \subseteq S
      BY <2>1, <2>2, InductionOnSets
    <2> QED
      BY <2>3 DEF S
  <1>8. \A j \in 1..9 : after[j] = Out(after[j - 1], j)
    BY <1>1, <1>5, <1>7
  <1>9. after \in [0..9 -> Text]
    BY <1>6, <1>7
  <1> QED
    BY <1>2, <1>5, <1>8, <1>9 DEF Out

\* The condition of PatternExpands.
Harmless(pattern, e) ==
  /\ \A k \in Names : Settled(ValueOf(e, k), k)
  /\ Settled(pattern, Last(Tokens)) \/ \A k \in Names : Separates(ValueOf(e, k))

LEMMA LaterFuses ==
  ASSUME NEW pattern \in Text, NEW e, \A k \in Names : ValueOf(e, k) \in Text, Harmless(pattern, e), NEW j \in 1..9
  PROVE  Fuses(pattern, Firsts(j - 1), Tokens[j], ValuesOf(e))
  <1> DEFINE K == Firsts(j - 1)
             k == Tokens[j]
             value == ValuesOf(e)
  <1>0. \A i \in 1..9 : Tokens[i] \in Names /\ value[Tokens[i]] = ValueOf(e, Tokens[i])
    BY TokensAre DEF Names, ValuesOf
  <1>1. ASSUME NEW x \in K
        PROVE  \E m \in 1..9 : m < j /\ x = Tokens[m] /\ x \in Names /\ value[x] = ValueOf(e, x) /\ value[x] \in Text
    <2>1. PICK m \in 1..(j - 1) : x = Tokens[m]
      BY DEF Firsts
    <2>2. m \in 1..9 /\ m < j
      OBVIOUS
    <2> QED
      BY <1>0, <2>1, <2>2
  <1>2. k \in Symbols /\ k # LBRACE /\ k # RBRACE /\ k \in Names /\ value[k] \in Text
    BY <1>0, TokensAre
  <1>3. k \notin K
    <2>1. ASSUME k \in K PROVE FALSE
      <3>1. PICK m \in 1..9 : m < j /\ k = Tokens[m]
        BY <1>1, <2>1
      <3> QED
        BY <3>1, TokensAre
    <2> QED
      BY <2>1
  <1>4. ASSUME NEW x \in K PROVE Keeps(value[x], k)
    <2>1. PICK m \in 1..9 : m < j /\ x = Tokens[m] /\ x \in Names /\ value[x] = ValueOf(e, x) /\ value[x] \in Text
      BY <1>1
    <2>2. PICK v \in Text : v = value[x]
      BY <2>1
    <2>3. Settled(v, x)
      BY <2>1, <2>2 DEF Harmless
    <2>4. ASSUME NEW i \in 1..Len(v), v[i] = LBRACE PROVE i + 2 <= Len(v) /\ v[i + 1] # k
      <3>1. i \in DOMAIN v
        BY TextIs
      <3>2. PICK n \in DOMAIN Tokens : TokenAt(v, i, {Tokens[n]}) /\ \A q \in 1..(n - 1) : Tokens[q] # x
        BY <2>3, <2>4, <3>1, Zenon DEF Settled
      <3>3. i + 2 <= Len(v) /\ v[i + 1] = Tokens[n]
        BY <3>2 DEF TokenAt
      <3>4. n \in 1..9
        BY <3>2, TokensAre
      <3>5. ~(m \in 1..(n - 1))
        BY <2>1, <3>2
      <3>6. n # j
        BY <2>1, <3>4, <3>5
      <3>7. Tokens[n] # k
        BY <3>4, <3>6, TokensAre
      <3> QED
        BY <3>3, <3>7
    <2> QED
      BY <2>2, <2>4 DEF Keeps
  <1>5. Fusable(K, k, value)
    <2>1. Values(K, value)
      BY <1>1 DEF Values
    <2> HIDE DEF K, k, value
    <2> QED
      BY <1>2, <1>3, <1>4, <2>1 DEF Fusable
  <1>6. Names \subseteq Symbols \ {LBRACE, RBRACE}
    BY TokensAre DEF Names
  <1>7. BracesOpen(pattern, Names) \/ AllGuard(K, k, value)
    <2>1. CASE Settled(pattern, Last(Tokens))
      <3>1. ASSUME NEW i \in 1..Len(pattern), pattern[i] = LBRACE PROVE TokenAt(pattern, i, Names)
        <4>1. i \in DOMAIN pattern
          BY TextIs
        <4>2. PICK n \in DOMAIN Tokens : TokenAt(pattern, i, {Tokens[n]})
          BY <2>1, <3>1, <4>1, Zenon DEF Settled
        <4>3. Tokens[n] \in Names
          BY <1>0, <4>2, TokensAre
        <4> QED
          BY <4>2, <4>3 DEF TokenAt
      <3> QED
        BY <3>1 DEF BracesOpen
    <2>2. CASE \A x \in Names : Separates(ValueOf(e, x))
      <3>1. ASSUME NEW x \in K PROVE Guards(value[x], k)
        <4>1. Separates(value[x])
          BY <1>1, <2>2
        <4>2. k \in Names
          BY <1>2
        <4> QED
          BY <4>1, <4>2 DEF Separates, Guards, Names
      <3> QED
        BY <3>1 DEF AllGuard
    <2> QED
      BY <2>1, <2>2 DEF Harmless
  <1> HIDE DEF K, k, value
  <1>8. Fuses(pattern, K, k, value)
    BY <1>5, <1>6, <1>7, Fusion
  <1> QED
    BY <1>8 DEF K, k, value

\* Replacing the tokens one after the other is expanding the pattern in one pass.
LEMMA ReplaceTokensExpands ==
  ASSUME NEW pattern \in Text, NEW e, \A k \in Names : ValueOf(e, k) \in Text, Harmless(pattern, e)
  PROVE  ReplaceTokens(Tokens, pattern, e) = Expand(pattern, e)
  <1>1. PICK a \in [0..9 -> Text] :
           /\ a[0] = pattern /\ ReplaceTokens(Tokens, pattern, e) = a[9]
           /\ \A j \in 1..9 : a[j] = ExpandSome(a[j - 1], {Tokens[j]}, ValuesOf(e))
    BY ReplaceSteps
  <1> DEFINE S == {n \in Nat : n <= 9 => a[n] = ExpandSome(pattern, Firsts(n), ValuesOf(e))}
  <1>2. 0 \in S
    <2>1. Firsts(0) = {}
      BY DEF Firsts
    <2>2. Clear(pattern, 1, Len(pattern) + 1, {}) /\ Values({}, ValuesOf(e))
      BY DEF Clear, Values, TokenAt
    <2>3. ExpandSome(pattern, {}, ValuesOf(e)) = pattern
      BY <2>2, ExpandNothing
    <2> QED
      BY <1>1, <2>1, <2>3
  <1>3. ASSUME NEW n \in Nat, n \in S PROVE n + 1 \in S
    <2> SUFFICES ASSUME n + 1 <= 9 PROVE a[n + 1] = ExpandSome(pattern, Firsts(n + 1), ValuesOf(e))
      OBVIOUS
    <2>1. n + 1 \in 1..9 /\ (n + 1) - 1 = n /\ n <= 9
      OBVIOUS
    <2>2. a[n] = ExpandSome(pattern, Firsts(n), ValuesOf(e))
      BY <1>3, <2>1
    <2>3. a[n + 1] = ExpandSome(a[n], {Tokens[n + 1]}, ValuesOf(e))
      BY <1>1, <2>1
    <2>4. Fuses(pattern, Firsts(n), Tokens[n + 1], ValuesOf(e))
      BY <2>1, LaterFuses
    <2>5. Firsts(n + 1) = Firsts(n) \cup {Tokens[n + 1]}
      <3>1. \A i : i \in 1..(n + 1) <=> (i \in 1..n \/ i = n + 1)
        OBVIOUS
      <3> QED
        BY <3>1, Zenon DEF Firsts
    <2> QED
      BY <2>2, <2>3, <2>4, <2>5 DEF Fuses
  <1>4. 9 \in S
    <2> HIDE DEF S
    <2> QED
      BY <1>2, <1>3, InductionOnSets
  <1>5. a[9] = ExpandSome(pattern, Firsts(9), ValuesOf(e))
    BY <1>4
  <1>6. Firsts(9) = Names
    BY TokensAre DEF Names, Firsts
  <1> QED
    BY <1>1, <1>5, <1>6 DEF Expand, ValuesOf, Names

-----------------------------------------------------------------------------
(* The state.                                                              *)

\* An event that a renderer may be given.
EventOk(e) == e \in Event /\ ToString(e.priority) \in Symbols

\* buffer is what the route's renderer makes of ev.
RenderInv ==
  \E r \in RendererChoices :
    /\ renderer = r
    /\ ev = DefaultEvent \/ \E e \in EventsFor(r) : ev = e /\ buffer = Render(e)

LEMMA RenderInvariant == Spec => []RenderInv
  <1>1. Init => RenderInv
    BY DEF Init, RenderInv
  <1>2. RenderInv /\ [Next]_vars => RenderInv'
    <2> SUFFICES ASSUME RenderInv, [Next]_vars PROVE RenderInv'
      OBVIOUS
    <2>1. PICK r \in RendererChoices : /\ renderer = r
                                       /\ ev = DefaultEvent \/ \E e \in EventsFor(r) : ev = e /\ buffer = Render(e)
      BY DEF RenderInv
    <2>2. CASE UNCHANGED vars
      BY <2>1, <2>2 DEF vars, RenderInv, Render
    <2>3. CASE Next
      <3>1. PICK e \in EventsFor(r) : process(e)
        BY <2>1, <2>3 DEF Next
      <3>2. renderer' = r /\ ev' = e /\ buffer' = Render(e)
        BY <2>1, <3>1 DEF process
      <3>3. buffer' = Render(e)'
        BY <2>1, <3>2 DEF Render
      <3> QED
        BY <3>2, <3>3 DEF RenderInv
    <2> QED
      BY <2>2, <2>3
  <1> QED
    BY <1>1, <1>2, PTL DEF Spec

\* What RenderInv gives of a rendered event.
LEMMA RenderedIs ==
  ASSUME RenderInv, NEW kind, Rendered(kind)
  PROVE  \E r \in Renderer, e \in Event : renderer = r /\ ev = e /\ EventOk(e) /\ buffer = Render(e) /\ r.kind = kind
  <1>1. PICK r \in RendererChoices : renderer = r /\ \E e \in EventsFor(r) : ev = e /\ buffer = Render(e)
    BY DEF RenderInv, Rendered
  <1>2. PICK e \in EventsFor(r) : ev = e /\ buffer = Render(e)
    BY <1>1
  <1>3. r \in Renderer /\ e \in Event /\ EventOk(e)
    BY RenderAssumption DEF EventOk
  <1> QED
    BY <1>1, <1>2, <1>3 DEF Rendered

LEMMA ValuesText ==
  ASSUME NEW e, EventOk(e)
  PROVE  \A k \in Names : ValueOf(e, k) \in Text
  <1>0. Digits \subseteq Text
    BY RenderAssumption, One DEF Digits
  <1>1. /\ e.time \in Text /\ e.severity \in Text /\ e.endpoint \in Text /\ e.message \in Text
        /\ e.file \in Text /\ e.line \in Text /\ e.func \in Text /\ e.tid \in Text
    BY <1>0 DEF EventOk, Event
  <1>2. <<ToString(e.priority)>> \in Text
    BY One DEF EventOk
  <1>3. \A k \in Names : \/ k = "time" \/ k = "severity" \/ k = "severity_priority" \/ k = "endpoint" \/ k = "message"
                         \/ k = "file" \/ k = "line" \/ k = "func" \/ k = "tid"
    BY TokensAre DEF Names, Tokens
  <1> QED
    BY <1>1, <1>2, <1>3 DEF ValueOf

\* PatternRenderer::render replaces the tokens one after the other in the text it has so
\* far, but means the pattern: for patterns, values and texts of any length, the result is
\* the pattern expanded in one pass, under the condition that PatternExpands states.
THEOREM PatternSafety == Spec => []PatternExpands
  <1>1. RenderInv => PatternExpands
    <2> SUFFICES ASSUME RenderInv, Rendered("pattern"), Harmless(renderer.pattern, ev)
                 PROVE  buffer = EndLine(Expand(renderer.pattern, ev))
      BY DEF PatternExpands, Harmless, Names
    <2>1. PICK r \in Renderer, e \in Event : renderer = r /\ ev = e /\ EventOk(e) /\ buffer = Render(e) /\ r.kind = "pattern"
      BY RenderedIs
    <2>2. r.pattern \in Text
      BY <2>1 DEF Renderer, PatternRenderers, JsonRenderers
    <2>3. buffer = PatternRender(r.pattern, e)
      BY <2>1 DEF Render
    <2>4. ReplaceTokens(Tokens, r.pattern, e) = Expand(r.pattern, e)
      BY <2>1, <2>2, ValuesText, ReplaceTokensExpands
    <2> QED
      BY <2>1, <2>3, <2>4 DEF PatternRender
  <1> QED
    BY <1>1, RenderInvariant, PTL

-----------------------------------------------------------------------------
(* Colours.                                                                *)

Colour == [trace |-> "grey", debug |-> "cyan", info |-> "green",
           warn |-> "yellow", error |-> "red", fatal |-> "magenta"]
Reached(p) == {s \in DOMAIN severity : severity[s] <= p}
Highest(p) == {s \in Reached(p) : \A q \in Reached(p) : severity[q] <= severity[s]}
CodeFor(p) == IF Reached(p) = {} THEN {"grey"} ELSE {Colour[s] : s \in Highest(p)}

LEMMA SeverityIs ==
  /\ DOMAIN severity = {"trace", "debug", "info", "warn", "error", "fatal"}
  /\ severity["trace"] = 100 /\ severity["debug"] = 200 /\ severity["info"] = 300
  /\ severity["warn"] = 400 /\ severity["error"] = 500 /\ severity["fatal"] = 600
  /\ Colour["trace"] = "grey" /\ Colour["debug"] = "cyan" /\ Colour["info"] = "green"
  /\ Colour["warn"] = "yellow" /\ Colour["error"] = "red" /\ Colour["fatal"] = "magenta"
  BY DEF severity, Colour

\* The rules, as ansi_for tries them.
LEMMA RulesAre ==
  /\ DOMAIN AnsiRules = 1..5
  /\ AnsiRules[1][1] = 600 /\ AnsiRules[2][1] = 500 /\ AnsiRules[3][1] = 400 /\ AnsiRules[4][1] = 300
  /\ AnsiRules[5][1] = 200
  /\ AnsiRules[1][2] = "magenta" /\ AnsiRules[2][2] = "red" /\ AnsiRules[3][2] = "yellow"
  /\ AnsiRules[4][2] = "green" /\ AnsiRules[5][2] = "cyan"
  BY DEF AnsiRules, severity

\* ansi_for takes the first rule that applies.
LEMMA FirstRule ==
  ASSUME NEW p \in Nat, NEW m \in 1..5, p >= AnsiRules[m][1], \A i \in 1..5 : i < m => ~(p >= AnsiRules[i][1])
  PROVE  ansi_for(p) = AnsiRules[m][2]
  <1> DEFINE hits == {i \in DOMAIN AnsiRules : p >= AnsiRules[i][1]}
  <1>1. hits = {i \in 1..5 : p >= AnsiRules[i][1]}
    BY RulesAre
  <1>2. m \in hits /\ \A y \in hits : m <= y
    BY <1>1
  <1>3. hits \subseteq 1..5
    BY <1>1
  <1>4. ansi_for(p) = IF hits = {} THEN "grey" ELSE AnsiRules[Min(hits)][2]
    BY DEF ansi_for
  <1> HIDE DEF hits
  <1>5. Min(hits) \in hits /\ \A y \in hits : Min(hits) <= y
    BY <1>2 DEF Min
  <1>6. Min(hits) = m
    BY <1>2, <1>3, <1>5
  <1> QED
    BY <1>2, <1>4, <1>6

LEMMA HighestIs ==
  ASSUME NEW p \in Nat, NEW s \in DOMAIN severity, severity[s] <= p,
         \A q \in DOMAIN severity : severity[q] <= p => severity[q] <= severity[s]
  PROVE  Colour[s] \in CodeFor(p)
  <1>1. s \in Highest(p) /\ Reached(p) # {}
    BY DEF Highest, Reached
  <1> QED
    BY <1>1 DEF CodeFor

LEMMA AnsiForCode ==
  ASSUME NEW p \in Nat
  PROVE  ansi_for(p) \in CodeFor(p) /\ ansi_for(p) \in Symbols
  <1>0. \A c \in {"grey", "cyan", "green", "yellow", "red", "magenta"} : c \in Symbols
    BY RenderAssumption, Zenon DEF OwnSymbols
  <1>1. CASE p >= 600
    <2>1. ansi_for(p) = AnsiRules[1][2]
      BY <1>1, RulesAre, FirstRule
    <2>2. Colour["fatal"] \in CodeFor(p)
      BY <1>1, SeverityIs, HighestIs
    <2> QED
      BY <1>0, <2>1, <2>2, RulesAre, SeverityIs
  <1>2. CASE 500 <= p /\ p < 600
    <2>1. ansi_for(p) = AnsiRules[2][2]
      BY <1>2, RulesAre, FirstRule
    <2>2. Colour["error"] \in CodeFor(p)
      BY <1>2, SeverityIs, HighestIs
    <2> QED
      BY <1>0, <2>1, <2>2, RulesAre, SeverityIs
  <1>3. CASE 400 <= p /\ p < 500
    <2>1. ansi_for(p) = AnsiRules[3][2]
      BY <1>3, RulesAre, FirstRule
    <2>2. Colour["warn"] \in CodeFor(p)
      BY <1>3, SeverityIs, HighestIs
    <2> QED
      BY <1>0, <2>1, <2>2, RulesAre, SeverityIs
  <1>4. CASE 300 <= p /\ p < 400
    <2>1. ansi_for(p) = AnsiRules[4][2]
      BY <1>4, RulesAre, FirstRule
    <2>2. Colour["info"] \in CodeFor(p)
      BY <1>4, SeverityIs, HighestIs
    <2> QED
      BY <1>0, <2>1, <2>2, RulesAre, SeverityIs
  <1>5. CASE 200 <= p /\ p < 300
    <2>1. ansi_for(p) = AnsiRules[5][2]
      BY <1>5, RulesAre, FirstRule
    <2>2. Colour["debug"] \in CodeFor(p)
      BY <1>5, SeverityIs, HighestIs
    <2> QED
      BY <1>0, <2>1, <2>2, RulesAre, SeverityIs
  <1>6. CASE p < 200
    <2> DEFINE hits == {i \in DOMAIN AnsiRules : p >= AnsiRules[i][1]}
    <2>1. \A i \in 1..5 : i = 1 \/ i = 2 \/ i = 3 \/ i = 4 \/ i = 5
      OBVIOUS
    <2>2. hits = {}
      BY <1>6, <2>1, RulesAre
    <2>3. ansi_for(p) = "grey"
      BY <2>2 DEF ansi_for
    <2>4. "grey" \in CodeFor(p)
      <3>1. CASE p >= 100
        <4>1. Colour["trace"] \in CodeFor(p)
          BY <1>6, <3>1, SeverityIs, HighestIs
        <4> QED
          BY <4>1, SeverityIs
      <3>2. CASE p < 100
        <4>1. Reached(p) = {}
          BY <3>2, SeverityIs DEF Reached
        <4> QED
          BY <4>1 DEF CodeFor
      <3> QED
        BY <3>1, <3>2
    <2> QED
      BY <1>0, <2>3, <2>4
  <1> QED
    BY <1>1, <1>2, <1>3, <1>4, <1>5, <1>6

LEMMA RemoveAtIs ==
  ASSUME NEW s \in Text, NEW i \in 1..Len(s)
  PROVE  /\ RemoveAt(s, i) \in Text /\ Len(RemoveAt(s, i)) = Len(s) - 1
         /\ \A x \in 1..(Len(s) - 1) : RemoveAt(s, i)[x] = IF x < i THEN s[x] ELSE s[x + 1]
  <1> DEFINE a == SubSeq(s, 1, i - 1)
             b == SubSeq(s, i + 1, Len(s))
  <1>0. Len(s) \in Nat
    BY TextIs
  <1>1. a \in Text /\ Len(a) = i - 1 /\ \A m \in 1..(i - 1) : a[m] = s[m]
    <2>1. 1 \in 1..(Len(s) + 1) /\ i - 1 \in (1 - 1)..Len(s) /\ (i - 1) - 1 + 1 = i - 1
      BY <1>0
    <2>2. a \in Text /\ Len(a) = i - 1 /\ \A m \in 1..(i - 1) : a[m] = s[1 + m - 1]
      BY <2>1, Part
    <2> HIDE DEF a
    <2> QED
      BY <2>2
  <1>2. b \in Text /\ Len(b) = Len(s) - i /\ \A m \in 1..(Len(s) - i) : b[m] = s[m + i]
    <2>1. i + 1 \in 1..(Len(s) + 1) /\ Len(s) \in ((i + 1) - 1)..Len(s) /\ Len(s) - (i + 1) + 1 = Len(s) - i
      BY <1>0
    <2>2. b \in Text /\ Len(b) = Len(s) - i /\ \A m \in 1..(Len(s) - i) : b[m] = s[(i + 1) + m - 1]
      BY <2>1, Part
    <2>3. \A m \in 1..(Len(s) - i) : (i + 1) + m - 1 = m + i
      BY <1>0
    <2> HIDE DEF b
    <2> QED
      BY <2>2, <2>3
  <1>3. RemoveAt(s, i) = a \o b
    BY DEF RemoveAt
  <1> HIDE DEF a, b
  <1>4. /\ a \o b \in Text /\ Len(a \o b) = Len(a) + Len(b)
        /\ \A x \in 1..(Len(a) + Len(b)) : (a \o b)[x] = IF x <= Len(a) THEN a[x] ELSE b[x - Len(a)]
    BY <1>1, <1>2, Concat
  <1>5. ASSUME NEW x \in 1..(Len(s) - 1) PROVE (a \o b)[x] = IF x < i THEN s[x] ELSE s[x + 1]
    <2>0. x \in 1..(Len(a) + Len(b))
      BY <1>0, <1>1, <1>2
    <2>1. CASE x < i
      <3>1. x \in 1..(i - 1) /\ x <= Len(a)
        BY <1>0, <1>1, <2>1
      <3> QED
        BY <1>1, <1>4, <2>0, <2>1, <3>1
    <2>2. CASE ~(x < i)
      <3>1. ~(x <= Len(a)) /\ x - Len(a) = x - (i - 1) /\ x - (i - 1) \in 1..(Len(s) - i) /\ (x - (i - 1)) + i = x + 1
        BY <1>0, <1>1, <2>2
      <3>2. (a \o b)[x] = b[x - (i - 1)]
        BY <1>4, <2>0, <3>1
      <3>3. b[x - (i - 1)] = s[x + 1]
        BY <1>2, <3>1
      <3> QED
        BY <2>2, <3>2, <3>3
    <2> QED
      BY <2>1, <2>2
  <1>6. Len(a) + Len(b) = Len(s) - 1
    BY <1>0, <1>1, <1>2
  <1> QED
    BY <1>3, <1>4, <1>5, <1>6

\* The name between a colour and a reset.
Painted(out, pos, c, name) == ReplaceSubSeqAt(pos, <<c>> \o name \o <<"reset">>, name, out)

LEMMA PaintedIs ==
  ASSUME NEW out \in Text, NEW name \in Text, NEW c \in Symbols, NEW pos \in 1..(Len(out) - Len(name) + 1),
         Occurs(out, name, pos)
  PROVE  LET w == Painted(out, pos, c, name)  L == Len(name) IN
         /\ w \in Text /\ Len(w) = Len(out) + 2 /\ w[pos] = c /\ w[pos + L + 1] = "reset"
         /\ \A x \in 1..(pos - 1) : w[x] = out[x]
         /\ \A x \in 1..L : w[pos + x] = out[pos + x - 1] /\ w[pos + x] = name[x]
         /\ \A x \in (pos + L)..Len(out) : w[x + 2] = out[x]
  <1> DEFINE w == Painted(out, pos, c, name)
             L == Len(name)
             a == SubSeq(out, 1, pos - 1)
             b == SubSeq(out, pos + L, Len(out))
             n == SubSeq(out, pos, pos + L - 1)
             d == <<c>>
             z == <<"reset">>
             m == (d \o name) \o z
  <1>0. Len(out) \in Nat /\ L \in Nat
    BY TextIs
  <1>b. pos \in Nat /\ 1 <= pos /\ pos + L <= Len(out) + 1
    BY <1>0
  <1>1. /\ d \in Text /\ Len(d) = 1 /\ d[1] = c /\ z \in Text /\ Len(z) = 1 /\ z[1] = "reset"
    <2>1. "reset" \in Symbols
      BY RenderAssumption, Zenon DEF OwnSymbols
    <2> QED
      BY <2>1, One
  <1>2. w = (a \o m) \o b
    BY DEF Painted, ReplaceSubSeqAt
  <1>3. a \in Text /\ Len(a) = pos - 1 /\ \A x \in 1..(pos - 1) : a[x] = out[x]
    <2>1. 1 \in 1..(Len(out) + 1) /\ pos - 1 \in (1 - 1)..Len(out) /\ (pos - 1) - 1 + 1 = pos - 1
      BY <1>0
    <2>2. a \in Text /\ Len(a) = pos - 1 /\ \A x \in 1..(pos - 1) : a[x] = out[1 + x - 1]
      BY <2>1, Part
    <2> HIDE DEF a
    <2> QED
      BY <2>2
  <1>4. b \in Text /\ Len(b) = Len(out) - pos - L + 1 /\ \A x \in (pos + L)..Len(out) : b[x - pos - L + 1] = out[x]
    <2>1. pos + L \in 1..(Len(out) + 1) /\ Len(out) \in ((pos + L) - 1)..Len(out)
          /\ Len(out) - (pos + L) + 1 = Len(out) - pos - L + 1
      BY <1>0
    <2>2. b \in Text /\ Len(b) = Len(out) - (pos + L) + 1
          /\ \A x \in 1..(Len(out) - (pos + L) + 1) : b[x] = out[(pos + L) + x - 1]
      BY <2>1, Part
    <2> HIDE DEF b
    <2>3. ASSUME NEW x \in (pos + L)..Len(out) PROVE b[x - pos - L + 1] = out[x]
      <3>1. x - pos - L + 1 \in 1..(Len(out) - (pos + L) + 1) /\ (pos + L) + (x - pos - L + 1) - 1 = x
        BY <1>0
      <3> QED
        BY <2>2, <3>1
    <2> QED
      BY <2>1, <2>2, <2>3
  <1>5. \A x \in 1..L : name[x] = out[pos + x - 1]
    <2>1. n = name
      BY DEF Occurs
    <2>2. pos \in 1..(Len(out) + 1) /\ pos + L - 1 \in (pos - 1)..Len(out) /\ (pos + L - 1) - pos + 1 = L
      BY <1>0
    <2>3. \A x \in 1..L : n[x] = out[pos + x - 1]
      BY <2>2, Part
    <2> QED
      BY <2>1, <2>3
  <1> HIDE DEF a, b, d, z, w, L
  <1>6. m \in Text /\ Len(m) = L + 2 /\ m[1] = c /\ m[L + 2] = "reset" /\ \A x \in 1..L : m[x + 1] = name[x]
    <2> DEFINE e == d \o name
    <2>1. e \in Text /\ Len(e) = L + 1 /\ \A x \in 1..(L + 1) : e[x] = IF x <= 1 THEN d[x] ELSE name[x - 1]
      <3>1. e \in Text /\ Len(e) = Len(d) + Len(name)
            /\ \A x \in 1..(Len(d) + Len(name)) : e[x] = IF x <= Len(d) THEN d[x] ELSE name[x - Len(d)]
        BY <1>1, Concat
      <3>2. Len(d) + Len(name) = L + 1
        BY <1>0, <1>1 DEF L
      <3> HIDE DEF e
      <3> QED
        BY <1>1, <3>1, <3>2
    <2> HIDE DEF e
    <2>2. e \o z \in Text /\ Len(e \o z) = Len(e) + Len(z)
          /\ \A x \in 1..(Len(e) + Len(z)) : (e \o z)[x] = IF x <= Len(e) THEN e[x] ELSE z[x - Len(e)]
      BY <1>1, <2>1, Concat
    <2>3. m = e \o z
      BY DEF e
    <2> HIDE DEF m
    <2>4. m \in Text /\ Len(m) = L + 2
          /\ \A x \in 1..(L + 2) : m[x] = IF x <= L + 1 THEN e[x] ELSE z[x - (L + 1)]
      <3>1. Len(e) + Len(z) = L + 2 /\ Len(e) = L + 1
        BY <1>0, <1>1, <2>1
      <3> QED
        BY <2>2, <2>3, <3>1
    <2>5. m[1] = c
      <3>1. 1 \in 1..(L + 2) /\ 1 <= L + 1 /\ 1 \in 1..(L + 1) /\ 1 <= 1
        BY <1>0
      <3> QED
        BY <1>1, <2>1, <2>4, <3>1
    <2>6. m[L + 2] = "reset"
      <3>1. L + 2 \in 1..(L + 2) /\ ~(L + 2 <= L + 1) /\ (L + 2) - (L + 1) = 1
        BY <1>0
      <3> QED
        BY <1>1, <2>4, <3>1
    <2>7. ASSUME NEW x \in 1..L PROVE m[x + 1] = name[x]
      <3>1. x + 1 \in 1..(L + 2) /\ x + 1 <= L + 1 /\ x + 1 \in 1..(L + 1) /\ ~(x + 1 <= 1) /\ (x + 1) - 1 = x
        BY <1>0
      <3> QED
        BY <2>1, <2>4, <3>1
    <2> QED
      BY <2>4, <2>5, <2>6, <2>7
  <1> HIDE DEF m
  <1>7. a \o m \in Text /\ Len(a \o m) = pos + L + 1
        /\ \A x \in 1..(pos + L + 1) : (a \o m)[x] = IF x <= pos - 1 THEN a[x] ELSE m[x - (pos - 1)]
    <2>1. a \o m \in Text /\ Len(a \o m) = Len(a) + Len(m)
          /\ \A x \in 1..(Len(a) + Len(m)) : (a \o m)[x] = IF x <= Len(a) THEN a[x] ELSE m[x - Len(a)]
      BY <1>3, <1>6, Concat
    <2>2. Len(a) + Len(m) = pos + L + 1
      BY <1>0, <1>3, <1>6
    <2> QED
      BY <1>3, <2>1, <2>2
  <1> DEFINE h == a \o m
  <1>8. w \in Text /\ Len(w) = Len(out) + 2
        /\ \A x \in 1..(Len(out) + 2) : w[x] = IF x <= pos + L + 1 THEN h[x] ELSE b[x - (pos + L + 1)]
    <2> HIDE DEF h
    <2>0. h \in Text /\ Len(h) = pos + L + 1
      BY <1>7 DEF h
    <2>1. h \o b \in Text /\ Len(h \o b) = Len(h) + Len(b)
          /\ \A x \in 1..(Len(h) + Len(b)) : (h \o b)[x] = IF x <= Len(h) THEN h[x] ELSE b[x - Len(h)]
      BY <1>4, <2>0, Concat
    <2>2. Len(h) + Len(b) = Len(out) + 2
      BY <1>0, <1>4, <2>0
    <2>3. w = h \o b
      BY <1>2 DEF h
    <2> QED
      BY <2>0, <2>1, <2>2, <2>3
  <1>9. \A x \in 1..(pos + L + 1) : h[x] = IF x <= pos - 1 THEN a[x] ELSE m[x - (pos - 1)]
    BY <1>7
  <1> HIDE DEF h
  <1>10. w[pos] = c
    <2>1. pos \in 1..(Len(out) + 2) /\ pos <= pos + L + 1 /\ pos \in 1..(pos + L + 1) /\ ~(pos <= pos - 1)
          /\ pos - (pos - 1) = 1
      BY <1>0
    <2> QED
      BY <1>6, <1>8, <1>9, <2>1
  <1>11. w[pos + L + 1] = "reset"
    <2>1. pos + L + 1 \in 1..(Len(out) + 2) /\ pos + L + 1 <= pos + L + 1 /\ pos + L + 1 \in 1..(pos + L + 1)
          /\ ~(pos + L + 1 <= pos - 1) /\ (pos + L + 1) - (pos - 1) = L + 2
      BY <1>0, <1>b
    <2> QED
      BY <1>6, <1>8, <1>9, <2>1
  <1>12. ASSUME NEW x \in 1..(pos - 1) PROVE w[x] = out[x]
    <2>1. x \in 1..(Len(out) + 2) /\ x <= pos + L + 1 /\ x \in 1..(pos + L + 1) /\ x <= pos - 1
      BY <1>0
    <2> QED
      BY <1>3, <1>8, <1>9, <2>1
  <1>13. ASSUME NEW x \in 1..L PROVE w[pos + x] = name[x]
    <2>1. pos + x \in 1..(Len(out) + 2) /\ pos + x <= pos + L + 1 /\ pos + x \in 1..(pos + L + 1)
          /\ ~(pos + x <= pos - 1) /\ (pos + x) - (pos - 1) = x + 1
      BY <1>0, <1>b
    <2> QED
      BY <1>6, <1>8, <1>9, <2>1
  <1>14. ASSUME NEW x \in (pos + L)..Len(out) PROVE w[x + 2] = out[x]
    <2>1. x + 2 \in 1..(Len(out) + 2) /\ ~(x + 2 <= pos + L + 1) /\ (x + 2) - (pos + L + 1) = x - pos - L + 1
      BY <1>0
    <2> QED
      BY <1>4, <1>8, <2>1
  <1>15. /\ w \in Text /\ Len(w) = Len(out) + 2 /\ w[pos] = c /\ w[pos + L + 1] = "reset"
         /\ \A x \in 1..(pos - 1) : w[x] = out[x]
         /\ \A x \in 1..L : w[pos + x] = out[pos + x - 1] /\ w[pos + x] = name[x]
         /\ \A x \in (pos + L)..Len(out) : w[x + 2] = out[x]
    BY <1>5, <1>8, <1>10, <1>11, <1>12, <1>13, <1>14
  <1> QED
    BY <1>15 DEF w, L

\* Without the colour and the reset, the text is what it was.
LEMMA Unpainted ==
  ASSUME NEW out \in Text, NEW name \in Text, NEW c \in Symbols, NEW pos \in 1..(Len(out) - Len(name) + 1),
         Occurs(out, name, pos)
  PROVE  LET w == Painted(out, pos, c, name)  j == pos + Len(name) + 1 IN
         /\ pos \in DOMAIN w /\ j \in DOMAIN w /\ w[pos] = c /\ w[j] = "reset"
         /\ SubSeq(w, pos + 1, j - 1) = name
         /\ RemoveAt(RemoveAt(w, j), pos) = out
  <1>0. PICK L \in Nat : L = Len(name)
    BY TextIs
  <1>1. PICK w \in Text :
         /\ w = Painted(out, pos, c, name)
         /\ Len(w) = Len(out) + 2 /\ w[pos] = c /\ w[pos + L + 1] = "reset"
         /\ \A x \in 1..(pos - 1) : w[x] = out[x]
         /\ \A x \in 1..L : w[pos + x] = out[pos + x - 1] /\ w[pos + x] = name[x]
         /\ \A x \in (pos + L)..Len(out) : w[x + 2] = out[x]
    BY <1>0, PaintedIs
  <1>2. PICK N \in Nat : N = Len(out)
    BY TextIs
  <1>3. pos \in Nat /\ 1 <= pos /\ pos + L <= N + 1 /\ Len(w) = N + 2
    BY <1>0, <1>1, <1>2
  <1>4. PICK j \in Nat : j = pos + L + 1
    BY <1>3
  <1>5. j \in 1..Len(w) /\ pos \in 1..Len(w) /\ DOMAIN w = 1..Len(w)
    BY <1>3, <1>4, TextIs
  <1>6. SubSeq(w, pos + 1, j - 1) = name
    <2>1. pos + 1 \in 1..(Len(w) + 1) /\ j - 1 \in ((pos + 1) - 1)..Len(w) /\ (j - 1) - (pos + 1) + 1 = L
      BY <1>3, <1>4
    <2>2. PICK n \in Text : n = SubSeq(w, pos + 1, j - 1) /\ Len(n) = L /\ \A m \in 1..L : n[m] = w[(pos + 1) + m - 1]
      BY <2>1, Part
    <2>3. ASSUME NEW m \in 1..L PROVE n[m] = name[m]
      <3>1. (pos + 1) + m - 1 = pos + m
        BY <1>3
      <3> QED
        BY <1>1, <2>2, <3>1
    <2>4. n = name
      BY <1>0, <2>2, <2>3, TextEqual
    <2> QED
      BY <2>2, <2>4
  <1>7. PICK u \in Text : /\ u = RemoveAt(w, j) /\ Len(u) = N + 1
                          /\ \A x \in 1..(N + 1) : u[x] = IF x < j THEN w[x] ELSE w[x + 1]
    <2>1. Len(w) - 1 = N + 1
      BY <1>3
    <2> QED
      BY <1>5, <2>1, RemoveAtIs
  <1>8. PICK v \in Text : /\ v = RemoveAt(u, pos) /\ Len(v) = N
                          /\ \A x \in 1..N : v[x] = IF x < pos THEN u[x] ELSE u[x + 1]
    <2>1. Len(u) - 1 = N /\ pos \in 1..Len(u)
      BY <1>3, <1>7
    <2> QED
      BY <2>1, RemoveAtIs
  <1>9. ASSUME NEW x \in 1..N PROVE v[x] = out[x]
    <2>1. CASE x < pos
      <3>1. x \in 1..(N + 1) /\ x < j /\ x \in 1..(pos - 1)
        BY <1>3, <1>4, <2>1
      <3> QED
        BY <1>1, <1>7, <1>8, <2>1, <3>1
    <2>2. CASE pos <= x /\ x < pos + L
      <3>1. x + 1 \in 1..(N + 1) /\ x + 1 < j /\ ~(x < pos)
        BY <1>3, <1>4, <2>2
      <3>2. x - pos + 1 \in 1..L /\ pos + (x - pos + 1) = x + 1 /\ pos + (x - pos + 1) - 1 = x
        BY <1>3, <2>2
      <3>3. w[x + 1] = out[x]
        BY <1>1, <3>2
      <3>4. u[x + 1] = w[x + 1]
        BY <1>7, <3>1
      <3> QED
        BY <1>8, <3>1, <3>3, <3>4
    <2>3. CASE pos + L <= x
      <3>1. x + 1 \in 1..(N + 1) /\ ~(x + 1 < j) /\ ~(x < pos) /\ (x + 1) + 1 = x + 2
        BY <1>3, <1>4, <2>3
      <3>2. x \in (pos + L)..Len(out)
        BY <1>2, <1>3, <2>3
      <3>3. w[x + 2] = out[x]
        BY <1>1, <3>2
      <3>4. u[x + 1] = w[x + 2]
        BY <1>7, <3>1
      <3> QED
        BY <1>8, <3>1, <3>3, <3>4
    <2> QED
      BY <1>3, <2>1, <2>2, <2>3
  <1>10. v = out
    BY <1>2, <1>8, <1>9, TextEqual
  <1>11. /\ pos \in DOMAIN w /\ j \in DOMAIN w /\ w[pos] = c /\ w[j] = "reset"
         /\ SubSeq(w, pos + 1, j - 1) = name /\ RemoveAt(RemoveAt(w, j), pos) = out
    BY <1>1, <1>4, <1>5, <1>6, <1>7, <1>8, <1>10
  <1>12. j = pos + Len(name) + 1
    BY <1>0, <1>4
  <1> QED
    BY <1>1, <1>11, <1>12

\* What the pattern renderer writes is a text.
LEMMA PatternText ==
  ASSUME NEW pattern \in Text, NEW e, EventOk(e)
  PROVE  PatternRender(pattern, e) \in Text
  <1>1. PICK s \in Text : s = ReplaceTokens(Tokens, pattern, e)
    <2>1. PICK a \in [0..9 -> Text] : ReplaceTokens(Tokens, pattern, e) = a[9]
      BY ValuesText, ReplaceSteps
    <2> QED
      BY <2>1
  <1>2. NL \in Symbols
    BY RenderAssumption, Zenon DEF OwnSymbols
  <1>3. Append(s, NL) \in Text
    BY <1>2, AppendProperties DEF Text
  <1>4. EndLine(s) \in Text
    BY <1>3 DEF EndLine
  <1> QED
    BY <1>1, <1>4 DEF PatternRender

Coloured(w, plain, name, p) ==
  \/ w = plain /\ find(plain, name, 1) = 0
  \/ \E i \in DOMAIN w :
       LET j == i + Len(name) + 1 IN
       /\ w[i] \in CodeFor(p)
       /\ j \in DOMAIN w /\ w[j] = "reset"
       /\ SubSeq(w, i + 1, j - 1) = name
       /\ RemoveAt(RemoveAt(w, j), i) = plain

LEMMA AnsiColours ==
  ASSUME NEW pattern \in Text, NEW e, EventOk(e)
  PROVE  Coloured(AnsiRender(pattern, e), PatternRender(pattern, e), e.severity, e.priority)
  <1>1. PICK out \in Text : out = PatternRender(pattern, e)
    BY PatternText
  <1>2. PICK name \in Text : name = e.severity
    BY DEF EventOk, Event
  <1>3. PICK p \in Nat : p = e.priority
    BY DEF EventOk, Event
  <1>4. PICK c \in Symbols : c = ansi_for(p) /\ c \in CodeFor(p)
    BY AnsiForCode
  <1>5. PICK pos : pos = find(out, name, 1)
    OBVIOUS
  <1>6. CASE pos = 0
    <2>1. AnsiRender(pattern, e) = out
      BY <1>1, <1>2, <1>5, <1>6 DEF AnsiRender
    <2> QED
      BY <1>1, <1>2, <1>5, <1>6, <2>1 DEF Coloured
  <1>7. CASE pos # 0
    <2>1. pos \in 1..(Len(out) - Len(name) + 1) /\ Occurs(out, name, pos)
      BY <1>5, <1>7, FindIs
    <2>2. PICK w : w = Painted(out, pos, c, name)
      OBVIOUS
    <2>3. AnsiRender(pattern, e) = w
      BY <1>1, <1>2, <1>3, <1>4, <1>5, <1>7, <2>2 DEF AnsiRender, Painted
    <2>4. PICK j : j = pos + Len(name) + 1
      OBVIOUS
    <2>5. /\ pos \in DOMAIN w /\ j \in DOMAIN w /\ w[pos] = c /\ w[j] = "reset"
          /\ SubSeq(w, pos + 1, j - 1) = name
          /\ RemoveAt(RemoveAt(w, j), pos) = out
      BY <2>1, <2>2, <2>4, Unpainted
    <2>6. Coloured(w, out, name, p)
      BY <1>4, <2>4, <2>5 DEF Coloured
    <2> QED
      BY <1>1, <1>2, <1>3, <2>3, <2>6
  <1> QED
    BY <1>6, <1>7

\* For every pattern, severity name and priority, AnsiConsoleRenderer only inserts a colour
\* and a reset around the first occurrence of the name in what PatternRenderer writes, and
\* the colour is that of the highest built-in severity that the priority reaches.
THEOREM ColourSafety == Spec => []AnsiOnlyColours
  <1>1. RenderInv => AnsiOnlyColours
    <2> SUFFICES ASSUME RenderInv, Rendered("ansi")
                 PROVE  Coloured(buffer, PatternRender(renderer.pattern, ev), ev.severity, ev.priority)
      BY DEF AnsiOnlyColours, Coloured, CodeFor, Highest, Reached, Colour
    <2>1. PICK r \in Renderer, e \in Event : renderer = r /\ ev = e /\ EventOk(e) /\ buffer = Render(e) /\ r.kind = "ansi"
      BY RenderedIs
    <2>2. r.pattern \in Text
      BY <2>1 DEF Renderer, PatternRenderers, JsonRenderers
    <2>3. buffer = AnsiRender(r.pattern, e)
      BY <2>1 DEF Render
    <2> QED
      BY <2>1, <2>2, <2>3, AnsiColours
  <1> QED
    BY <1>1, RenderInvariant, PTL
=============================================================================
