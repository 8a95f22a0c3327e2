------------------------- MODULE JsonRendererProofs -------------------------
(***************************************************************************)
(* Machine-checked: what JsonRenderer writes parses back to the event, for *)
(* texts of any symbols and any length, and any number of fields.          *)
(***************************************************************************)
EXTENDS RenderersProofs

-----------------------------------------------------------------------------
(* Where a text stands in a longer one.                                    *)

\* s stands in t from i up to, not including, n.
Stands(t, i, s, n) ==
  /\ i \in Nat /\ n \in Nat /\ 1 <= i /\ i <= n /\ n <= Len(t) + 1
  /\ Len(s) = n - i
  /\ \A x \in 1..Len(s) : t[i + x - 1] = s[x]

LEMMA StandsAll ==
  ASSUME NEW t \in Text
  PROVE  Stands(t, 1, t, Len(t) + 1)
  <1>1. Len(t) \in Nat
    BY TextIs
  <1>2. \A x \in 1..Len(t) : 1 + x - 1 = x
    BY <1>1
  <1> QED
    BY <1>1, <1>2 DEF Stands

LEMMA StandsSplit ==
  ASSUME NEW t \in Text, NEW a \in Text, NEW b \in Text, NEW i, NEW n, Stands(t, i, a \o b, n)
  PROVE  \E m \in Nat : Stands(t, i, a, m) /\ Stands(t, m, b, n)
  <1>0. PICK A \in Nat, B \in Nat : A = Len(a) /\ B = Len(b)
    BY TextIs
  <1>1. /\ i \in Nat /\ n \in Nat /\ 1 <= i /\ i <= n /\ n <= Len(t) + 1
        /\ A + B = n - i
        /\ \A x \in 1..(A + B) : t[i + x - 1] = IF x <= A THEN a[x] ELSE b[x - A]
    BY <1>0, Concat DEF Stands
  <1>2. Stands(t, i, a, i + A)
    <2>1. ASSUME NEW x \in 1..A PROVE t[i + x - 1] = a[x]
      <3>1. x \in 1..(A + B) /\ x <= A
        BY <1>0
      <3> QED
        BY <1>1, <3>1
    <2>2. i + A \in Nat /\ i <= i + A /\ i + A <= n /\ A = (i + A) - i
      BY <1>1
    <2> QED
      BY <1>0, <1>1, <2>1, <2>2 DEF Stands
  <1>3. Stands(t, i + A, b, n)
    <2>1. ASSUME NEW x \in 1..B PROVE t[(i + A) + x - 1] = b[x]
      <3>1. x + A \in 1..(A + B) /\ ~(x + A <= A) /\ (x + A) - A = x /\ i + (x + A) - 1 = (i + A) + x - 1
        BY <1>0, <1>1
      <3> QED
        BY <1>1, <3>1
    <2>2. i + A \in Nat /\ 1 <= i + A /\ i + A <= n /\ B = n - (i + A)
      BY <1>1
    <2> QED
      BY <1>0, <1>1, <2>1, <2>2 DEF Stands
  <1>4. i + A \in Nat
    BY <1>1
  <1> QED
    BY <1>2, <1>3, <1>4

LEMMA StandsOne ==
  ASSUME NEW t \in Text, NEW c \in Symbols, NEW i, NEW n, Stands(t, i, <<c>>, n)
  PROVE  i \in 1..Len(t) /\ t[i] = c /\ n = i + 1
  <1>0. Len(t) \in Nat
    BY TextIs
  <1>1. /\ i \in Nat /\ n \in Nat /\ 1 <= i /\ i <= n /\ n <= Len(t) + 1
        /\ 1 = n - i
        /\ \A x \in 1..1 : t[i + x - 1] = <<c>>[x]
    BY One DEF Stands
  <1>2. t[i + 1 - 1] = c
    BY <1>1, One
  <1>3. i + 1 - 1 = i
    BY <1>1
  <1> QED
    BY <1>0, <1>1, <1>2, <1>3

LEMMA StandsNone ==
  ASSUME NEW t \in Text, NEW i, NEW n, Stands(t, i, <<>>, n)
  PROVE  n = i /\ i \in 1..(Len(t) + 1)
  <1>0. Len(t) \in Nat
    BY TextIs
  <1>1. i \in Nat /\ n \in Nat /\ 1 <= i /\ n <= Len(t) + 1 /\ 0 = n - i
    BY Empty DEF Stands
  <1> QED
    BY <1>0, <1>1

-----------------------------------------------------------------------------
(* A flattened sequence of texts.                                          *)

LEMMA Flattened ==
  ASSUME NEW n \in Nat, NEW ss \in [1..n -> Text]
  PROVE  \E f \in [0..n -> Text] :
           /\ f[0] = <<>> /\ FlattenSeq(ss) = f[n]
           /\ \A k \in 1..n : f[k] = f[k - 1] \o ss[k]
  <1>0. ss \in Seq(Text) /\ Len(ss) = n
    OBVIOUS
  <1>1. CASE n = 0
    <2>1. ss = <<>>
      BY <1>0, <1>1, EmptySeq
    <2>2. FlattenSeq(ss) = <<>>
      BY <1>0, <1>1, <2>1 DEF FlattenSeq
    <2> DEFINE f == [k \in 0..n |-> <<>>]
    <2>3. f \in [0..n -> Text]
      BY Empty
    <2>4. f[0] = <<>> /\ FlattenSeq(ss) = f[n]
      BY <1>1, <2>2
    <2>5. \A k \in 1..n : FALSE
      BY <1>1
    <2> HIDE DEF f
    <2> QED
      BY <2>3, <2>4, <2>5
  <1>2. CASE n >= 1
    <2> DEFINE Is(h) == h = [k \in 1..n |-> IF k = 1 THEN ss[k] ELSE h[k - 1] \o ss[k]]
               h == CHOOSE h : Is(h)
               step == [k \in Int |-> [x \in Text |-> IF k \in 1..n THEN x \o ss[k] ELSE x]]
    <2>1. step \in [Int -> [Text -> Text]]
      <3>1. \A k \in 1..n : \A x \in Text : x \o ss[k] \in Text
        BY Concat
      <3> QED
        BY <3>1
    <2>2. PICK g \in [1..n -> Text] : IsIteration(g, ss[1], 1, n, step)
      <3>1. ss[1] \in Text /\ 1 \in Int /\ n \in Int /\ 1 <= n
        BY <1>2
      <3> HIDE DEF step
      <3> QED
        BY <2>1, <3>1, Iterates
    <2>3. Is(g)
      <3>1. \A k \in 1..n : g[k] = IF k = 1 THEN ss[1] ELSE step[k][g[k - 1]]
        BY <2>2, Zenon DEF IsIteration
      <3>2. ASSUME NEW k \in 1..n PROVE g[k] = IF k = 1 THEN ss[k] ELSE g[k - 1] \o ss[k]
        <4>1. CASE k = 1
          BY <3>1, <4>1
        <4>2. CASE k # 1
          <5>1. k - 1 \in 1..n /\ k \in Int
            BY <4>2
          <5>2. g[k - 1] \in Text
            BY <5>1
          <5>3. step[k][g[k - 1]] = g[k - 1] \o ss[k]
            BY <5>1, <5>2
          <5> QED
            BY <3>1, <4>2, <5>3
        <4> QED
          BY <4>1, <4>2
      <3>3. g = [k \in 1..n |-> g[k]]
        OBVIOUS
      <3> QED
        BY <3>2, <3>3
    <2>4. Is(h)
      BY <2>3
    <2>5. FlattenSeq(ss) = h[n]
      BY <1>0, <1>2 DEF FlattenSeq
    <2>6. \A k \in 1..n : h[k] = IF k = 1 THEN ss[k] ELSE h[k - 1] \o ss[k]
      BY <2>4
    <2>7. DOMAIN h = 1..n
      BY <2>4
    <2> HIDE DEF h, Is, step
    <2> DEFINE S == {k \in Nat : k \in 1..n => h[k] \in Text}
    <2>8. \A k \in Nat : k \in S
      <3>1. 0 \in S
        OBVIOUS
      <3>2. ASSUME NEW m \in Nat, m \in S PROVE m + 1 \in S
        <4> SUFFICES ASSUME m + 1 \in 1..n PROVE h[m + 1] \in Text
          OBVIOUS
        <4>1. CASE m = 0
          BY <2>6, <4>1
        <4>2. CASE m # 0
          <5>1. m \in 1..n /\ (m + 1) - 1 = m /\ m + 1 # 1
            BY <4>2
          <5>2. h[m] \in Text
            BY <3>2, <5>1
          <5>3. h[m + 1] = h[m] \o ss[m + 1]
            BY <2>6, <5>1
          <5> QED
            BY <5>2, <5>3, Concat
        <4> QED
          BY <4>1, <4>2
      <3> HIDE DEF S
      <3> QED
        BY <3>1, <3>2, InductionOnSets
    <2>9. \A k \in 1..n : h[k] \in Text
      BY <2>8
    <2> DEFINE f == [k \in 0..n |-> IF k = 0 THEN <<>> ELSE h[k]]
    <2>10. f \in [0..n -> Text]
      BY <2>9, Empty
    <2>11. f[0] = <<>> /\ f[n] = h[n]
      BY <1>2
    <2>12. ASSUME NEW k \in 1..n PROVE f[k] = f[k - 1] \o ss[k]
      <3>1. CASE k = 1
        <4>1. f[k] = ss[k] /\ f[k - 1] = <<>>
          BY <2>6, <3>1
        <4> QED
          BY <4>1, Empty
      <3>2. CASE k # 1
        <4>1. k - 1 \in 1..n /\ k - 1 \in 0..n /\ k \in 0..n /\ k # 0 /\ k - 1 # 0
          BY <3>2
        <4>2. f[k] = h[k] /\ f[k - 1] = h[k - 1]
          BY <4>1
        <4>3. h[k] = h[k - 1] \o ss[k]
          BY <2>6, <3>2
        <4> QED
          BY <4>2, <4>3
      <3> QED
        BY <3>1, <3>2
    <2>13. \A k \in 1..n : f[k] = f[k - 1] \o ss[k]
      BY <2>12
    <2>14. f[0] = <<>> /\ FlattenSeq(ss) = f[n]
      BY <2>5, <2>11
    <2> HIDE DEF f
    <2> WITNESS f \in [0..n -> Text]
    <2> QED
      BY <2>13, <2>14
  <1>3. n = 0 \/ n >= 1
    OBVIOUS
  <1> QED
    BY <1>1, <1>2, <1>3, Zenon

LEMMA FlattenText ==
  ASSUME NEW n \in Nat, NEW ss \in [1..n -> Text]
  PROVE  FlattenSeq(ss) \in Text
  <1>1. PICK f \in [0..n -> Text] : FlattenSeq(ss) = f[n]
    BY Flattened
  <1> QED
    BY <1>1

\* The n texts of ss stand in t one after the other, the k-th from pos[k] on.
InRow(t, ss, n, pos, i, q) ==
  /\ pos \in [1..(n + 1) -> Nat] /\ pos[1] = i /\ pos[n + 1] = q
  /\ \A k \in 1..n : Stands(t, pos[k], ss[k], pos[k + 1])

LEMMA FlattenStands ==
  ASSUME NEW t \in Text, NEW n \in Nat, NEW ss \in [1..n -> Text], NEW i, NEW q, Stands(t, i, FlattenSeq(ss), q)
  PROVE  \E pos : InRow(t, ss, n, pos, i, q)
  <1>1. PICK f \in [0..n -> Text] :
           /\ f[0] = <<>> /\ FlattenSeq(ss) = f[n]
           /\ \A k \in 1..n : f[k] = f[k - 1] \o ss[k]
    BY Flattened
  <1>2. \A k \in 0..n : Len(f[k]) \in Nat
    BY TextIs
  <1>3. i \in Nat /\ q = i + Len(f[n])
    <2>1. i \in Nat /\ q \in Nat /\ Len(f[n]) = q - i
      BY <1>1 DEF Stands
    <2> QED
      BY <2>1
  <1>4. ASSUME NEW k \in 1..n, Stands(t, i, f[k], i + Len(f[k]))
        PROVE  /\ Stands(t, i, f[k - 1], i + Len(f[k - 1]))
               /\ Stands(t, i + Len(f[k - 1]), ss[k], i + Len(f[k]))
    <2>0. k - 1 \in 0..n
      OBVIOUS
    <2>1. f[k] = f[k - 1] \o ss[k] /\ f[k - 1] \in Text /\ ss[k] \in Text
      BY <1>1, <2>0
    <2>2. PICK m \in Nat : Stands(t, i, f[k - 1], m) /\ Stands(t, m, ss[k], i + Len(f[k]))
      <3>1. Stands(t, i, f[k - 1] \o ss[k], i + Len(f[k]))
        BY <1>4, <2>1
      <3> QED
        BY <2>1, <3>1, StandsSplit
    <2>3. m = i + Len(f[k - 1])
      <3>1. Len(f[k - 1]) = m - i
        BY <2>2 DEF Stands
      <3> QED
        BY <1>3, <3>1
    <2> QED
      BY <2>2, <2>3
  <1> DEFINE S == {m \in Nat : m <= n => Stands(t, i, f[n - m], i + Len(f[n - m]))}
  <1>5. 0 \in S
    <2>1. n - 0 = n
      OBVIOUS
    <2> QED
      BY <1>1, <1>3, <2>1
  <1>6. ASSUME NEW m \in Nat, m \in S PROVE m + 1 \in S
    <2> SUFFICES ASSUME m + 1 <= n PROVE Stands(t, i, f[n - (m + 1)], i + Len(f[n - (m + 1)]))
      OBVIOUS
    <2>1. n - m \in 1..n /\ (n - m) - 1 = n - (m + 1) /\ m <= n
      OBVIOUS
    <2>2. Stands(t, i, f[n - m], i + Len(f[n - m]))
      BY <1>6, <2>1
    <2>3. Stands(t, i, f[(n - m) - 1], i + Len(f[(n - m) - 1]))
      BY <1>4, <2>1, <2>2
    <2> QED
      BY <2>1, <2>3
  <1>7. ASSUME NEW k \in 0..n PROVE Stands(t, i, f[k], i + Len(f[k]))
    <2> HIDE DEF S
    <2>1. Nat \subseteq S
      BY <1>5, <1>6, InductionOnSets
    <2>2. n - k \in Nat /\ n - k <= n /\ n - (n - k) = k
      OBVIOUS
    <2>3. n - k \in S
      BY <2>1, <2>2
    <2> QED
      BY <2>2, <2>3 DEF S
  <1> DEFINE pos == [k \in 1..(n + 1) |-> i + Len(f[k - 1])]
  <1>8. pos \in [1..(n + 1) -> Nat]
    <2>1. \A k \in 1..(n + 1) : k - 1 \in 0..n
      OBVIOUS
    <2>2. \A k \in 1..(n + 1) : i + Len(f[k - 1]) \in Nat
      BY <1>2, <1>3, <2>1
    <2> QED
      BY <2>2
  <1>9. pos[1] = i /\ pos[n + 1] = q
    <2>1. 1 \in 1..(n + 1) /\ n + 1 \in 1..(n + 1) /\ 1 - 1 = 0 /\ (n + 1) - 1 = n /\ i + 0 = i
      BY <1>3
    <2>2. pos[1] = i + Len(f[0]) /\ pos[n + 1] = i + Len(f[n])
      BY <2>1
    <2> QED
      BY <1>1, <1>3, <2>1, <2>2, Empty
  <1>10. ASSUME NEW k \in 1..n PROVE Stands(t, pos[k], ss[k], pos[k + 1])
    <2>1. k \in 1..(n + 1) /\ k + 1 \in 1..(n + 1) /\ (k + 1) - 1 = k /\ k \in 0..n
      OBVIOUS
    <2>2. pos[k] = i + Len(f[k - 1]) /\ pos[k + 1] = i + Len(f[k])
      BY <2>1
    <2>3. Stands(t, i, f[k], i + Len(f[k]))
      BY <1>7, <2>1
    <2> QED
      BY <1>4, <2>2, <2>3
  <1> HIDE DEF pos
  <1>11. InRow(t, ss, n, pos, i, q)
    BY <1>8, <1>9, <1>10 DEF InRow
  <1> QED
    BY <1>11

-----------------------------------------------------------------------------
(* Escaped characters.                                                     *)

LEMMA Distinct ==
  /\ QUOTE # BACKSLASH /\ QUOTE # NL /\ QUOTE # CR /\ QUOTE # TAB /\ BACKSLASH # NL /\ BACKSLASH # CR
  /\ BACKSLASH # TAB /\ NL # CR /\ NL # TAB /\ CR # TAB
  /\ QUOTE # "n" /\ QUOTE # "r" /\ QUOTE # "t" /\ QUOTE # "u" /\ BACKSLASH # "n" /\ BACKSLASH # "r"
  /\ BACKSLASH # "t" /\ BACKSLASH # "u"
  BY Zenon DEF QUOTE, BACKSLASH, NL, CR, TAB

LEMMA ShortIs ==
  /\ DOMAIN ShortEscape = {QUOTE, BACKSLASH, NL, CR, TAB}
  /\ ShortEscape[QUOTE] = QUOTE /\ ShortEscape[BACKSLASH] = BACKSLASH
  /\ ShortEscape[NL] = "n" /\ ShortEscape[CR] = "r" /\ ShortEscape[TAB] = "t"
  BY Distinct DEF ShortEscape

LEMMA ShortUnique ==
  /\ \A c \in DOMAIN ShortEscape : ShortEscape[c] # "u" /\ ShortEscape[c] \in Symbols
  /\ \A c, d \in DOMAIN ShortEscape : ShortEscape[c] = ShortEscape[d] => c = d
  <1>1. /\ QUOTE \in Symbols /\ BACKSLASH \in Symbols /\ "n" \in Symbols /\ "r" \in Symbols /\ "t" \in Symbols
    BY RenderAssumption, Zenon DEF OwnSymbols
  <1>2. \A c \in DOMAIN ShortEscape : ShortEscape[c] # "u" /\ ShortEscape[c] \in Symbols
    BY <1>1, ShortIs, Distinct
  <1>3. ASSUME NEW c \in DOMAIN ShortEscape, NEW d \in DOMAIN ShortEscape, ShortEscape[c] = ShortEscape[d]
        PROVE  c = d
    BY <1>3, ShortIs, Distinct
  <1> QED
    BY <1>2, <1>3

\* The character that a short escape stands for.
Unescape(y) == CHOOSE x \in DOMAIN ShortEscape : ShortEscape[x] = y

LEMMA UnescapeIs ==
  ASSUME NEW c \in DOMAIN ShortEscape
  PROVE  Unescape(ShortEscape[c]) = c
  <1>1. Unescape(ShortEscape[c]) \in DOMAIN ShortEscape /\ ShortEscape[Unescape(ShortEscape[c])] = ShortEscape[c]
    BY DEF Unescape
  <1> QED
    BY <1>1, ShortUnique

LEMMA Pairs ==
  ASSUME NEW a \in Symbols, NEW b \in Symbols, NEW c \in Symbols
  PROVE  /\ <<a, b>> \in Text /\ Len(<<a, b>>) = 2 /\ <<a, b>>[1] = a /\ <<a, b>>[2] = b
         /\ <<a, b, c>> \in Text /\ Len(<<a, b, c>>) = 3
         /\ <<a, b, c>>[1] = a /\ <<a, b, c>>[2] = b /\ <<a, b, c>>[3] = c
  <1>1. <<a, b>> \in Text
    BY DEF Text
  <1>2. <<a, b, c>> \in Text
    BY DEF Text
  <1>3. Len(<<a, b>>) = 2 /\ <<a, b>>[1] = a /\ <<a, b>>[2] = b
    OBVIOUS
  <1>4. Len(<<a, b, c>>) = 3 /\ <<a, b, c>>[1] = a /\ <<a, b, c>>[2] = b /\ <<a, b, c>>[3] = c
    OBVIOUS
  <1> QED
    BY <1>1, <1>2, <1>3, <1>4

LEMMA EscapeText ==
  ASSUME NEW c \in Symbols
  PROVE  EscapeChar(c) \in Text /\ EscapeChar(c) # <<>>
  <1>0. BACKSLASH \in Symbols /\ "u" \in Symbols /\ "0001" \in Symbols
    BY RenderAssumption, Zenon DEF OwnSymbols
  <1>1. CASE c \in DOMAIN ShortEscape
    <2>1. EscapeChar(c) = <<BACKSLASH, ShortEscape[c]>>
      BY <1>1 DEF EscapeChar
    <2>2. ShortEscape[c] \in Symbols
      BY <1>1, ShortUnique
    <2>3. <<BACKSLASH, ShortEscape[c]>> \in Text /\ Len(<<BACKSLASH, ShortEscape[c]>>) = 2
      BY <1>0, <2>2, Pairs
    <2> QED
      BY <2>1, <2>3, Empty
  <1>2. CASE c \notin DOMAIN ShortEscape /\ c = "SOH"
    <2>1. EscapeChar(c) = <<BACKSLASH, "u", "0001">>
      BY <1>2 DEF EscapeChar
    <2>2. <<BACKSLASH, "u", "0001">> \in Text /\ Len(<<BACKSLASH, "u", "0001">>) = 3
      BY <1>0, Pairs
    <2> QED
      BY <2>1, <2>2, Empty
  <1>3. CASE c \notin DOMAIN ShortEscape /\ c # "SOH"
    <2>1. EscapeChar(c) = <<c>>
      BY <1>3 DEF EscapeChar
    <2>2. <<c>> \in Text /\ Len(<<c>>) = 1
      BY One
    <2> QED
      BY <2>1, <2>2, Empty
  <1> QED
    BY <1>1, <1>2, <1>3

-----------------------------------------------------------------------------
(* Strings read back.                                                      *)

\* Character c, then what f reads from j on.
StrThen(t, f, c, j) ==
  LET rest == IF j > Len(t) THEN Fail ELSE f[j]
  IN IF rest.next = 0 THEN Fail ELSE [next |-> rest.next, value |-> <<c>> \o rest.value]

IsShort(t, i) == t[i] = BACKSLASH /\ i < Len(t) /\ \E x \in DOMAIN ShortEscape : ShortEscape[x] = t[i + 1]
IsLong(t, i) == t[i] = BACKSLASH /\ i + 1 < Len(t) /\ t[i + 1] = "u" /\ t[i + 2] = "0001"

StrStep(t, f, i) ==
  IF i > Len(t) THEN Fail
  ELSE IF t[i] = QUOTE THEN [next |-> i + 1, value |-> <<>>]
  ELSE IF IsShort(t, i) THEN StrThen(t, f, Unescape(t[i + 1]), i + 2)
  ELSE IF IsLong(t, i) THEN StrThen(t, f, "SOH", i + 3)
  ELSE IF t[i] \in {BACKSLASH, NL, CR, TAB, "SOH"} THEN Fail
  ELSE StrThen(t, f, t[i], i + 1)

\* f is the recursive function Strings is defined as, from lo on.
IsStrings(f, t, lo) == f = [i \in lo..(Len(t) + 1) |-> StrStep(t, f, i)]

LEMMA StepLocal ==
  ASSUME NEW t \in Text, NEW f, NEW g, NEW i \in Nat, \A j \in (i + 1)..Len(t) : f[j] = g[j]
  PROVE  StrStep(t, f, i) = StrStep(t, g, i)
  <1>0. Len(t) \in Nat
    BY TextIs
  <1>1. ASSUME NEW c, NEW j \in Nat, j > i PROVE StrThen(t, f, c, j) = StrThen(t, g, c, j)
    <2>1. CASE j > Len(t)
      BY <2>1 DEF StrThen
    <2>2. CASE ~(j > Len(t))
      <3>1. j \in (i + 1)..Len(t)
        BY <1>0, <1>1, <2>2
      <3>2. f[j] = g[j]
        BY <3>1
      <3> QED
        BY <3>2 DEF StrThen
    <2> QED
      BY <2>1, <2>2
  <1>2. /\ StrThen(t, f, Unescape(t[i + 1]), i + 2) = StrThen(t, g, Unescape(t[i + 1]), i + 2)
        /\ StrThen(t, f, "SOH", i + 3) = StrThen(t, g, "SOH", i + 3)
        /\ StrThen(t, f, t[i], i + 1) = StrThen(t, g, t[i], i + 1)
    <2>1. i + 1 \in Nat /\ i + 1 > i /\ i + 2 \in Nat /\ i + 2 > i /\ i + 3 \in Nat /\ i + 3 > i
      OBVIOUS
    <2> QED
      BY <1>1, <2>1
  <1> QED
    BY <1>2, Zenon DEF StrStep

LEMMA StringsExist ==
  ASSUME NEW t \in Text
  PROVE  \E f : IsStrings(f, t, 1)
  <1> DEFINE S == {n \in Nat : n <= Len(t) => \E f : IsStrings(f, t, Len(t) + 1 - n)}
  <1>0. Len(t) \in Nat
    BY TextIs
  <1>1. 0 \in S
    <2> DEFINE f == [i \in (Len(t) + 1)..(Len(t) + 1) |-> Fail]
    <2>1. \A i \in (Len(t) + 1)..(Len(t) + 1) : StrStep(t, f, i) = Fail
      BY <1>0 DEF StrStep
    <2>2. IsStrings(f, t, Len(t) + 1)
      BY <2>1 DEF IsStrings
    <2>3. Len(t) + 1 - 0 = Len(t) + 1
      BY <1>0
    <2> HIDE DEF f
    <2> QED
      BY <2>2, <2>3
  <1>2. ASSUME NEW n \in Nat, n \in S PROVE n + 1 \in S
    <2> SUFFICES ASSUME n + 1 <= Len(t) PROVE \E f : IsStrings(f, t, Len(t) + 1 - (n + 1))
      OBVIOUS
    <2> DEFINE lo == Len(t) - n
    <2>0. lo \in Nat /\ lo >= 1 /\ lo <= Len(t) /\ Len(t) + 1 - (n + 1) = lo /\ Len(t) + 1 - n = lo + 1 /\ n <= Len(t)
      BY <1>0
    <2> HIDE DEF lo
    <2>1. PICK f : IsStrings(f, t, lo + 1)
      BY <1>2, <2>0
    <2> DEFINE g == [i \in lo..(Len(t) + 1) |-> IF i = lo THEN StrStep(t, f, lo) ELSE f[i]]
    <2>2. ASSUME NEW i \in lo..(Len(t) + 1) PROVE StrStep(t, g, i) = StrStep(t, f, i)
      <3>1. ASSUME NEW j \in (i + 1)..Len(t) PROVE g[j] = f[j]
        <4>1. j \in lo..(Len(t) + 1) /\ j # lo
          BY <1>0, <2>0
        <4> QED
          BY <4>1
      <3>2. i \in Nat
        BY <2>0
      <3> HIDE DEF g
      <3> QED
        BY <3>1, <3>2, StepLocal
    <2>3. ASSUME NEW i \in lo..(Len(t) + 1) PROVE g[i] = StrStep(t, f, i)
      <3>1. CASE i = lo
        BY <3>1
      <3>2. CASE i # lo
        <4>1. i \in (lo + 1)..(Len(t) + 1)
          BY <1>0, <2>0, <3>2
        <4>2. f[i] = StrStep(t, f, i)
          BY <2>1, <4>1, Zenon DEF IsStrings
        <4> QED
          BY <3>2, <4>2
      <3> QED
        BY <3>1, <3>2
    <2>4. g = [i \in lo..(Len(t) + 1) |-> g[i]]
      OBVIOUS
    <2> HIDE DEF g
    <2>5. IsStrings(g, t, lo)
      BY <2>2, <2>3, <2>4 DEF IsStrings
    <2> QED
      BY <2>0, <2>5
  <1> HIDE DEF S
  <1>3. Len(t) \in S
    BY <1>0, <1>1, <1>2, InductionOnSets
  <1>4. Len(t) + 1 - Len(t) = 1 /\ Len(t) <= Len(t)
    BY <1>0
  <1> QED
    BY <1>3, <1>4 DEF S

LEMMA StringsAt ==
  ASSUME NEW t \in Text, NEW i \in 1..(Len(t) + 1)
  PROVE  Strings(t)[i] = StrStep(t, Strings(t), i)
  <1> DEFINE f == CHOOSE f : IsStrings(f, t, 1)
  <1>1. IsStrings(f, t, 1)
    BY StringsExist
  <1>2. Strings(t) = f
    BY Zenon DEF Strings, IsStrings, StrStep, StrThen, IsShort, IsLong, Unescape
  <1> HIDE DEF f
  <1> QED
    BY <1>1, <1>2, Zenon DEF IsStrings

LEMMA StandsTwo ==
  ASSUME NEW t \in Text, NEW a \in Symbols, NEW b \in Symbols, NEW i, NEW n, Stands(t, i, <<a, b>>, n)
  PROVE  i \in Nat /\ 1 <= i /\ n = i + 2 /\ n <= Len(t) + 1 /\ t[i] = a /\ t[i + 1] = b
  <1>1. /\ i \in Nat /\ n \in Nat /\ 1 <= i /\ n <= Len(t) + 1 /\ 2 = n - i
        /\ \A x \in 1..2 : t[i + x - 1] = <<a, b>>[x]
    BY Pairs DEF Stands
  <1>2. i + 1 - 1 = i /\ i + 2 - 1 = i + 1 /\ n = i + 2 /\ 1 \in 1..2 /\ 2 \in 1..2
    BY <1>1
  <1>3. t[i + 1 - 1] = a /\ t[i + 2 - 1] = b
    BY <1>1, <1>2, Pairs
  <1> QED
    BY <1>1, <1>2, <1>3

LEMMA StandsThree ==
  ASSUME NEW t \in Text, NEW a \in Symbols, NEW b \in Symbols, NEW c \in Symbols, NEW i, NEW n,
         Stands(t, i, <<a, b, c>>, n)
  PROVE  i \in Nat /\ 1 <= i /\ n = i + 3 /\ n <= Len(t) + 1 /\ t[i] = a /\ t[i + 1] = b /\ t[i + 2] = c
  <1>1. /\ i \in Nat /\ n \in Nat /\ 1 <= i /\ n <= Len(t) + 1 /\ 3 = n - i
        /\ \A x \in 1..3 : t[i + x - 1] = <<a, b, c>>[x]
    BY Pairs DEF Stands
  <1>2. i + 1 - 1 = i /\ i + 2 - 1 = i + 1 /\ i + 3 - 1 = i + 2 /\ n = i + 3 /\ 1 \in 1..3 /\ 2 \in 1..3 /\ 3 \in 1..3
    BY <1>1
  <1>3. t[i + 1 - 1] = a /\ t[i + 2 - 1] = b /\ t[i + 3 - 1] = c
    BY <1>1, <1>2, Pairs
  <1> QED
    BY <1>1, <1>2, <1>3

\* From j on, a string is read up to n, with content v.
ReadsString(t, j, n, v) == Strings(t)[j] = [next |-> n, value |-> v]

\* An escaped character is read as itself.
LEMMA CharRead ==
  ASSUME NEW t \in Text, NEW c \in Symbols, NEW i, NEW m, Stands(t, i, EscapeChar(c), m), m <= Len(t),
         NEW n \in Nat \ {0}, NEW v, ReadsString(t, m, n, v)
  PROVE  ReadsString(t, i, n, <<c>> \o v)
  <1> DEFINE f == Strings(t)
             res == [next |-> n, value |-> <<c>> \o v]
  <1>0. BACKSLASH \in Symbols /\ "u" \in Symbols /\ "0001" \in Symbols
    BY RenderAssumption, Zenon DEF OwnSymbols
  <1>1. Len(t) \in Nat /\ i \in Nat /\ m \in Nat /\ 1 <= i /\ i <= m
    BY TextIs DEF Stands
  <1>2. StrThen(t, f, c, m) = res
    <2>1. ~(m > Len(t)) /\ n # 0
      BY <1>1
    <2>2. f[m].next = n /\ f[m].value = v
      BY DEF ReadsString
    <2> QED
      BY <2>1, <2>2 DEF StrThen
  <1>3. f[i] = StrStep(t, f, i) /\ ~(i > Len(t))
    <2>1. i \in 1..(Len(t) + 1) /\ ~(i > Len(t))
      BY <1>1
    <2> QED
      BY <2>1, StringsAt
  <1> HIDE DEF f, res
  <1>4. CASE c \in DOMAIN ShortEscape
    <2>1. PICK y \in Symbols : y = ShortEscape[c]
      BY <1>4, ShortUnique
    <2>2. Stands(t, i, <<BACKSLASH, y>>, m)
      BY <1>4, <2>1 DEF EscapeChar
    <2>3. m = i + 2 /\ t[i] = BACKSLASH /\ t[i + 1] = y
      BY <1>0, <2>2, StandsTwo
    <2>4. IsShort(t, i)
      <3>1. i < Len(t)
        BY <1>1, <2>3
      <3> QED
        BY <1>4, <2>1, <2>3, <3>1 DEF IsShort
    <2>5. t[i] # QUOTE /\ Unescape(t[i + 1]) = c
      BY <1>4, <2>1, <2>3, Distinct, UnescapeIs
    <2>6. StrStep(t, f, i) = StrThen(t, f, c, i + 2)
      BY <1>3, <2>4, <2>5 DEF StrStep
    <2> QED
      BY <1>2, <1>3, <2>3, <2>6 DEF ReadsString, f, res
  <1>5. CASE c \notin DOMAIN ShortEscape /\ c = "SOH"
    <2>1. Stands(t, i, <<BACKSLASH, "u", "0001">>, m)
      BY <1>5 DEF EscapeChar
    <2>2. m = i + 3 /\ t[i] = BACKSLASH /\ t[i + 1] = "u" /\ t[i + 2] = "0001"
      BY <1>0, <2>1, StandsThree
    <2>3. i + 1 < Len(t)
      BY <1>1, <2>2
    <2>4. IsLong(t, i) /\ ~IsShort(t, i) /\ t[i] # QUOTE
      BY <2>2, <2>3, ShortUnique, Distinct DEF IsLong, IsShort
    <2>5. StrStep(t, f, i) = StrThen(t, f, c, i + 3)
      BY <1>3, <1>5, <2>4 DEF StrStep
    <2> QED
      BY <1>2, <1>3, <2>2, <2>5 DEF ReadsString, f, res
  <1>6. CASE c \notin DOMAIN ShortEscape /\ c # "SOH"
    <2>1. Stands(t, i, <<c>>, m)
      BY <1>6 DEF EscapeChar
    <2>2. m = i + 1 /\ t[i] = c
      BY <2>1, StandsOne
    <2>3. c \notin {BACKSLASH, NL, CR, TAB, "SOH"} /\ c # QUOTE /\ c # BACKSLASH
      BY <1>6, ShortIs
    <2>4. ~IsShort(t, i) /\ ~IsLong(t, i)
      BY <2>2, <2>3 DEF IsShort, IsLong
    <2>5. StrStep(t, f, i) = StrThen(t, f, c, i + 1)
      BY <1>3, <2>2, <2>3, <2>4 DEF StrStep
    <2> QED
      BY <1>2, <1>3, <2>2, <2>5 DEF ReadsString, f, res
  <1> QED
    BY <1>4, <1>5, <1>6

\* A string stands in t from i up to n, and its content is s.
StringAt(t, i, n, s) ==
  /\ i \in 1..Len(t) /\ t[i] = QUOTE
  /\ n \in Nat /\ i < n /\ n <= Len(t) + 1
  /\ ReadsString(t, i + 1, n, s)

\* The escapes of the characters of s, in a row.
Escapes(s) == [k \in DOMAIN s |-> EscapeChar(s[k])]

LEMMA EscapesText ==
  ASSUME NEW s \in Text
  PROVE  /\ Escapes(s) \in [1..Len(s) -> Text] /\ Len(s) \in Nat
         /\ FlattenSeq(Escapes(s)) \in Text /\ json_escape(s) \in Text
  <1>1. Len(s) \in Nat /\ DOMAIN s = 1..Len(s) /\ \A k \in 1..Len(s) : s[k] \in Symbols
    BY TextIs
  <1>2. Escapes(s) \in [1..Len(s) -> Text]
    BY <1>1, EscapeText DEF Escapes
  <1>3. PICK F \in Text : F = FlattenSeq(Escapes(s))
    BY <1>1, <1>2, FlattenText
  <1>4. QUOTE \in Symbols
    BY RenderAssumption, Zenon DEF OwnSymbols
  <1>5. PICK q \in Text : q = <<QUOTE>>
    BY <1>4, One
  <1>6. q \o F \in Text
    BY Concat
  <1>7. (q \o F) \o q \in Text
    BY <1>6, Concat
  <1>8. json_escape(s) = (q \o F) \o q
    BY <1>3, <1>5 DEF json_escape, Escapes
  <1> QED
    BY <1>1, <1>2, <1>3, <1>7, <1>8

\* json_escape_append undone: whatever the text, its string ends at its own closing quote
\* and holds exactly the text.
LEMMA StringRead ==
  ASSUME NEW t \in Text, NEW s \in Text, NEW i, NEW n, Stands(t, i, json_escape(s), n)
  PROVE  StringAt(t, i, n, s)
  <1>a. PICK L \in Nat : L = Len(s)
    BY EscapesText
  <1>0. PICK ss \in [1..L -> Text] :
          /\ DOMAIN s = 1..L /\ ss = Escapes(s) /\ FlattenSeq(ss) \in Text
          /\ \A k \in 1..L : s[k] \in Symbols /\ ss[k] = EscapeChar(s[k])
    <2>1. DOMAIN s = 1..Len(s) /\ \A k \in 1..Len(s) : s[k] \in Symbols
      BY TextIs
    <2>2. \A k \in 1..Len(s) : Escapes(s)[k] = EscapeChar(s[k])
      BY <2>1 DEF Escapes
    <2> QED
      BY <1>a, <2>1, <2>2, EscapesText
  <1>1. QUOTE \in Symbols
    BY RenderAssumption, Zenon DEF OwnSymbols
  <1>2. PICK q \in Text, F \in Text : q = <<QUOTE>> /\ F = FlattenSeq(ss)
    BY <1>0, <1>1, One
  <1>3. Stands(t, i, (q \o F) \o q, n)
    BY <1>0, <1>2 DEF json_escape, Escapes
  <1>4. PICK i2 \in Nat : Stands(t, i, q \o F, i2) /\ Stands(t, i2, q, n)
    <2>1. PICK a \in Text : a = q \o F
      BY Concat
    <2>2. PICK i2 \in Nat : Stands(t, i, a, i2) /\ Stands(t, i2, q, n)
      BY <1>3, <2>1, StandsSplit
    <2> QED
      BY <2>1, <2>2
  <1>5. PICK i1 \in Nat : Stands(t, i, q, i1) /\ Stands(t, i1, F, i2)
    BY <1>4, StandsSplit
  <1>6. i \in 1..Len(t) /\ t[i] = QUOTE /\ i1 = i + 1 /\ i2 \in 1..Len(t) /\ t[i2] = QUOTE /\ n = i2 + 1
    BY <1>1, <1>2, <1>4, <1>5, StandsOne
  <1>7. Len(t) \in Nat /\ i1 <= i2
    BY <1>5, TextIs DEF Stands
  <1>8. PICK pos \in [1..(L + 1) -> Nat] :
           /\ pos[1] = i1 /\ pos[L + 1] = i2
           /\ \A k \in 1..L : Stands(t, pos[k], ss[k], pos[k + 1])
    <2>1. Stands(t, i1, FlattenSeq(ss), i2)
      BY <1>2, <1>5
    <2>2. \E pos : InRow(t, ss, L, pos, i1, i2)
      BY <2>1, FlattenStands, Zenon
    <2> QED
      BY <2>2 DEF InRow
  <1> DEFINE Good(k) == pos[k] <= Len(t) /\ ReadsString(t, pos[k], n, SubSeq(s, k, L))
             S == {m \in Nat : m <= L => Good((L + 1) - m)}
  <1>9. n \in Nat \ {0}
    BY <1>6
  <1>10. Good(L + 1)
    <2>1. i2 <= Len(t) /\ i2 \in 1..(Len(t) + 1) /\ ~(i2 > Len(t))
      BY <1>6, <1>7
    <2>2. Strings(t)[i2] = StrStep(t, Strings(t), i2)
      BY <2>1, StringsAt
    <2>3. Strings(t)[i2] = [next |-> n, value |-> <<>>]
      BY <1>6, <2>1, <2>2 DEF StrStep
    <2>4. SubSeq(s, L + 1, L) = <<>>
      BY SubSeqEmpty
    <2> QED
      BY <1>8, <2>1, <2>3, <2>4 DEF ReadsString
  <1>11. ASSUME NEW k \in 1..L, Good(k + 1) PROVE Good(k)
    <2>1. Stands(t, pos[k], EscapeChar(s[k]), pos[k + 1]) /\ s[k] \in Symbols
      BY <1>0, <1>8
    <2>2. pos[k] <= Len(t)
      <3>1. pos[k] \in Nat /\ pos[k + 1] \in Nat /\ pos[k] <= pos[k + 1]
        BY <2>1 DEF Stands
      <3> QED
        BY <1>7, <1>11, <3>1
    <2>3. PICK v : v = SubSeq(s, k + 1, L)
      OBVIOUS
    <2>4. ReadsString(t, pos[k], n, <<s[k]>> \o v)
      BY <1>9, <1>11, <2>1, <2>3, CharRead
    <2>5. SubSeq(s, k, L) = <<s[k]>> \o v
      <3>1. k \in 1..Len(s) /\ L \in k..Len(s)
        BY <1>a
      <3>2. s \in Seq(Symbols)
        BY DEF Text
      <3> QED
        BY <2>3, <3>1, <3>2, SubSeqRecursiveFirst
    <2> QED
      BY <2>2, <2>4, <2>5
  <1> HIDE DEF Good
  <1>12. L \in S
    <2>1. 0 \in S
      <3>1. (L + 1) - 0 = L + 1
        OBVIOUS
      <3> QED
        BY <1>10, <3>1
    <2>2. ASSUME NEW m \in Nat, m \in S PROVE m + 1 \in S
      <3> SUFFICES ASSUME m + 1 <= L PROVE Good((L + 1) - (m + 1))
        OBVIOUS
      <3>1. L - m \in 1..L /\ (L + 1) - (m + 1) = L - m /\ (L + 1) - m = (L - m) + 1 /\ m <= L
        OBVIOUS
      <3>2. Good((L - m) + 1)
        BY <2>2, <3>1
      <3> QED
        BY <1>11, <3>1, <3>2
    <2> HIDE DEF S
    <2> QED
      BY <2>1, <2>2, InductionOnSets
  <1>13. Good(1)
    <2>1. (L + 1) - L = 1 /\ L <= L
      OBVIOUS
    <2> QED
      BY <1>12, <2>1
  <1>14. SubSeq(s, 1, L) = s
    BY <1>a, SubSeqFull DEF Text
  <1>15. ReadsString(t, i + 1, n, s)
    BY <1>6, <1>8, <1>13, <1>14 DEF Good
  <1>16. n \in Nat /\ i < n /\ n <= Len(t) + 1
    BY <1>6, <1>7
  <1> QED
    BY <1>6, <1>15, <1>16 DEF StringAt

-----------------------------------------------------------------------------
(* Values and members read back.                                           *)

\* The definitions inside Parsed, with the function g that it defines as a parameter.
SymbolIn(t, i) == IF i \in 1..Len(t) THEN t[i] ELSE NL
LaterIn(t, g, i, w, j) == IF j \in (i + 1)..(Len(t) + 1) THEN g[<<w, j>>] ELSE Fail
OfKind(kind, r) == IF r.next = 0 THEN Fail ELSE [next |-> r.next, value |-> <<kind, r.value>>]
KeyIn(t, i) == IF SymbolIn(t, i) = QUOTE THEN Strings(t)[i + 1] ELSE Fail
ValIn(t, g, i) == IF SymbolIn(t, KeyIn(t, i).next) = COLON THEN LaterIn(t, g, i, "value", KeyIn(t, i).next + 1) ELSE Fail
MoreIn(t, g, i) ==
  IF SymbolIn(t, ValIn(t, g, i).next) = COMMA THEN LaterIn(t, g, i, "members", ValIn(t, g, i).next + 1) ELSE Fail

MembersStep(t, i, val, more) ==
  IF SymbolIn(t, val.next) = RBRACE THEN [next |-> val.next + 1, value |-> << <<KeyIn(t, i).value, val.value>> >>]
  ELSE IF more.next = 0 THEN Fail
  ELSE [next |-> more.next, value |-> << <<KeyIn(t, i).value, val.value>> >> \o more.value]

ValueStep(t, i, members) ==
  IF SymbolIn(t, i) = QUOTE THEN OfKind("string", KeyIn(t, i))
  ELSE IF SymbolIn(t, i) = LBRACE THEN OfKind("object", members)
  ELSE IF SymbolIn(t, i) \in Atoms
  THEN [next |-> i + 1, value |-> <<"atom", <<SymbolIn(t, i)>> >>]
  ELSE Fail

ParseStep(t, g, p) ==
  CASE p[1] = "members" -> MembersStep(t, p[2], ValIn(t, g, p[2]), MoreIn(t, g, p[2]))
    [] p[1] = "value" -> ValueStep(t, p[2], LaterIn(t, g, p[2], "members", p[2] + 1))

Phrases == {"value", "members"}

\* g is the recursive function Parsed is defined as, from lo on.
IsParser(g, t, lo) == g = [p \in Phrases \X (lo..(Len(t) + 1)) |-> ParseStep(t, g, p)]

LEMMA ParseLocal ==
  ASSUME NEW t \in Text, NEW f, NEW g, NEW w, NEW i \in Nat,
         \A v \in Phrases : \A j \in (i + 1)..(Len(t) + 1) : f[<<v, j>>] = g[<<v, j>>]
  PROVE  ParseStep(t, f, <<w, i>>) = ParseStep(t, g, <<w, i>>)
  <1>1. ASSUME NEW v \in Phrases, NEW j PROVE LaterIn(t, f, i, v, j) = LaterIn(t, g, i, v, j)
    BY DEF LaterIn
  <1>2. "value" \in Phrases /\ "members" \in Phrases
    BY DEF Phrases
  <1>3. ValIn(t, f, i) = ValIn(t, g, i)
    BY <1>1, <1>2 DEF ValIn
  <1>4. MoreIn(t, f, i) = MoreIn(t, g, i)
    BY <1>1, <1>2, <1>3 DEF MoreIn
  <1>5. LaterIn(t, f, i, "members", i + 1) = LaterIn(t, g, i, "members", i + 1)
    BY <1>1, <1>2
  <1>6. <<w, i>>[1] = w /\ <<w, i>>[2] = i
    OBVIOUS
  <1> QED
    BY <1>3, <1>4, <1>5, <1>6 DEF ParseStep

LEMMA ParserExists ==
  ASSUME NEW t \in Text
  PROVE  \E g : IsParser(g, t, 1)
  <1>0. PICK N \in Nat : N = Len(t)
    BY TextIs
  <1> DEFINE S == {n \in Nat : n <= N + 1 => \E g : IsParser(g, t, (N + 2) - n)}
  <1>1. 0 \in S
    <2>0. (N + 2) - 0 = N + 2 /\ Phrases \X ((N + 2)..(N + 1)) = {}
      BY <1>0
    <2> DEFINE g == [p \in Phrases \X ((N + 2)..(N + 1)) |-> Fail]
    <2>1. IsParser(g, t, N + 2)
      BY <1>0, <2>0 DEF IsParser
    <2> HIDE DEF g
    <2> QED
      BY <2>0, <2>1
  <1>2. ASSUME NEW n \in Nat, n \in S PROVE n + 1 \in S
    <2> SUFFICES ASSUME n + 1 <= N + 1 PROVE \E g : IsParser(g, t, (N + 2) - (n + 1))
      OBVIOUS
    <2>0. PICK lo \in Nat : lo >= 1 /\ lo <= N + 1 /\ (N + 2) - (n + 1) = lo /\ (N + 2) - n = lo + 1 /\ n <= N + 1
      <3>1. (N + 1) - n \in Nat /\ (N + 1) - n >= 1 /\ (N + 1) - n <= N + 1 /\ (N + 2) - (n + 1) = (N + 1) - n
            /\ (N + 2) - n = ((N + 1) - n) + 1 /\ n <= N + 1
        OBVIOUS
      <3> QED
        BY <3>1
    <2>1. PICK f : IsParser(f, t, lo + 1)
      BY <1>2, <2>0
    <2> DEFINE D == Phrases \X (lo..(N + 1))
               g == [p \in D |-> IF p[2] = lo THEN ParseStep(t, f, p) ELSE f[p]]
    <2>2. ASSUME NEW w \in Phrases, NEW i \in lo..(N + 1)
          PROVE  ParseStep(t, g, <<w, i>>) = ParseStep(t, f, <<w, i>>)
      <3>1. ASSUME NEW v \in Phrases, NEW j \in (i + 1)..(Len(t) + 1) PROVE g[<<v, j>>] = f[<<v, j>>]
        <4>1. j \in lo..(N + 1) /\ j # lo
          BY <1>0, <2>0
        <4>2. <<v, j>> \in D /\ <<v, j>>[2] # lo
          BY <4>1
        <4> QED
          BY <4>2
      <3>2. i \in Nat
        BY <2>0
      <3> HIDE DEF g
      <3> QED
        BY <3>1, <3>2, ParseLocal
    <2>3. ASSUME NEW w \in Phrases, NEW i \in lo..(N + 1) PROVE g[<<w, i>>] = ParseStep(t, f, <<w, i>>)
      <3>0. <<w, i>> \in D /\ <<w, i>>[2] = i
        OBVIOUS
      <3>1. CASE i = lo
        BY <3>0, <3>1
      <3>2. CASE i # lo
        <4>1. i \in (lo + 1)..(Len(t) + 1)
          BY <1>0, <2>0, <3>2
        <4>2. <<w, i>> \in Phrases \X ((lo + 1)..(Len(t) + 1))
          BY <4>1
        <4>3. f[<<w, i>>] = ParseStep(t, f, <<w, i>>)
          BY <2>1, <4>2, Zenon DEF IsParser
        <4> QED
          BY <3>0, <3>2, <4>3
      <3> QED
        BY <3>1, <3>2
    <2>4. g = [p \in D |-> g[p]]
      OBVIOUS
    <2>5. ASSUME NEW p \in D PROVE g[p] = ParseStep(t, g, p)
      <3>1. PICK w \in Phrases, i \in lo..(N + 1) : p = <<w, i>>
        OBVIOUS
      <3> HIDE DEF g, D
      <3> QED
        BY <2>2, <2>3, <3>1
    <2> HIDE DEF g
    <2>6. IsParser(g, t, lo)
      <3>1. D = Phrases \X (lo..(Len(t) + 1))
        BY <1>0
      <3> HIDE DEF D
      <3>2. g = [p \in D |-> ParseStep(t, g, p)]
        BY <2>4, <2>5
      <3> QED
        BY <3>1, <3>2 DEF IsParser
    <2> QED
      BY <2>0, <2>6
  <1> HIDE DEF S
  <1>3. N + 1 \in S
    BY <1>1, <1>2, InductionOnSets
  <1>4. (N + 2) - (N + 1) = 1 /\ N + 1 <= N + 1
    OBVIOUS
  <1> QED
    BY <1>3, <1>4 DEF S

LEMMA ParsedAt ==
  ASSUME NEW t \in Text, NEW w \in Phrases, NEW i \in 1..(Len(t) + 1)
  PROVE  Parsed(t)[<<w, i>>] = ParseStep(t, Parsed(t), <<w, i>>)
  <1> DEFINE g == CHOOSE g : IsParser(g, t, 1)
  <1>1. IsParser(g, t, 1)
    BY ParserExists
  <1>2. Parsed(t) = g
    BY Zenon DEF Parsed, IsParser, ParseStep, Phrases, MembersStep, ValueStep, ValIn, MoreIn, KeyIn, OfKind, LaterIn, SymbolIn
  <1> HIDE DEF g
  <1>3. <<w, i>> \in Phrases \X (1..(Len(t) + 1))
    OBVIOUS
  <1> QED
    BY <1>1, <1>2, <1>3, Zenon DEF IsParser

LEMMA Punctuation ==
  /\ RBRACE # COMMA /\ QUOTE # LBRACE
  /\ "null" # QUOTE /\ "true" # QUOTE /\ "false" # QUOTE
  /\ "null" # LBRACE /\ "true" # LBRACE /\ "false" # LBRACE
  BY Zenon DEF RBRACE, COMMA, QUOTE, LBRACE

\* A value, or the members of an object up to its closing brace, stand in t from i up to n.
ValueAt(t, i, n, v) ==
  /\ i \in 1..Len(t) /\ n \in Nat /\ i < n /\ n <= Len(t) + 1
  /\ Parsed(t)[<<"value", i>>] = [next |-> n, value |-> v]

MembersAt(t, i, n, ms) ==
  /\ i \in 1..Len(t) /\ n \in Nat /\ i < n /\ n <= Len(t) + 1
  /\ Parsed(t)[<<"members", i>>] = [next |-> n, value |-> ms]

\* A member with key k and value v.
MemberAt(t, i, n, k, v) ==
  \E c \in 1..Len(t) : StringAt(t, i, c, k) /\ t[c] = COLON /\ ValueAt(t, c + 1, n, v)

\* What follows a member: the closing brace, or a comma and the members ms.
RestAt(t, i, n, ms) ==
  /\ i \in 1..Len(t)
  /\ \/ t[i] = RBRACE /\ n = i + 1 /\ ms = <<>>
     \/ t[i] = COMMA /\ MembersAt(t, i + 1, n, ms)

LEMMA KeyRead ==
  ASSUME NEW t \in Text, NEW i, NEW n, NEW s, StringAt(t, i, n, s)
  PROVE  SymbolIn(t, i) = QUOTE /\ KeyIn(t, i) = [next |-> n, value |-> s]
  <1>1. SymbolIn(t, i) = QUOTE
    BY DEF StringAt, SymbolIn
  <1> QED
    BY <1>1 DEF KeyIn, StringAt, ReadsString

LEMMA StringValue ==
  ASSUME NEW t \in Text, NEW i, NEW n, NEW s, StringAt(t, i, n, s)
  PROVE  ValueAt(t, i, n, <<"string", s>>)
  <1>0. Len(t) \in Nat
    BY TextIs
  <1>1. i \in 1..Len(t) /\ n \in Nat /\ i < n /\ n <= Len(t) + 1 /\ i \in 1..(Len(t) + 1) /\ n # 0
    BY <1>0 DEF StringAt
  <1>2. Parsed(t)[<<"value", i>>] = ValueStep(t, i, LaterIn(t, Parsed(t), i, "members", i + 1))
    BY <1>1, ParsedAt DEF ParseStep, Phrases
  <1>3. OfKind("string", [next |-> n, value |-> s]) = [next |-> n, value |-> <<"string", s>>]
    BY <1>1 DEF OfKind
  <1> QED
    BY <1>1, <1>2, <1>3, KeyRead DEF ValueStep, ValueAt

LEMMA AtomValue ==
  ASSUME NEW t \in Text, NEW i \in 1..Len(t), NEW a \in Atoms, t[i] = a
  PROVE  ValueAt(t, i, i + 1, <<"atom", <<a>> >>)
  <1>0. Len(t) \in Nat
    BY TextIs
  <1>1. i \in 1..(Len(t) + 1) /\ i + 1 \in Nat /\ i < i + 1 /\ i + 1 <= Len(t) + 1
    BY <1>0
  <1>2. Parsed(t)[<<"value", i>>] = ValueStep(t, i, LaterIn(t, Parsed(t), i, "members", i + 1))
    BY <1>1, ParsedAt DEF ParseStep, Phrases
  <1>3. SymbolIn(t, i) = a
    BY DEF SymbolIn
  <1>4. a # QUOTE /\ a # LBRACE
    BY RenderAssumption, Punctuation DEF Atoms
  <1> QED
    BY <1>1, <1>2, <1>3, <1>4 DEF ValueStep, ValueAt

LEMMA ObjectValue ==
  ASSUME NEW t \in Text, NEW i \in 1..Len(t), t[i] = LBRACE, NEW n, NEW ms, MembersAt(t, i + 1, n, ms)
  PROVE  ValueAt(t, i, n, <<"object", ms>>)
  <1>0. Len(t) \in Nat
    BY TextIs
  <1>1. i \in 1..(Len(t) + 1) /\ n \in Nat /\ i < n /\ n <= Len(t) + 1 /\ n # 0 /\ i + 1 \in (i + 1)..(Len(t) + 1)
    BY <1>0 DEF MembersAt
  <1>2. Parsed(t)[<<"value", i>>] = ValueStep(t, i, LaterIn(t, Parsed(t), i, "members", i + 1))
    BY <1>1, ParsedAt DEF ParseStep, Phrases
  <1>3. SymbolIn(t, i) = LBRACE
    BY DEF SymbolIn
  <1>4. LaterIn(t, Parsed(t), i, "members", i + 1) = [next |-> n, value |-> ms]
    BY <1>1 DEF LaterIn, MembersAt
  <1>5. OfKind("object", [next |-> n, value |-> ms]) = [next |-> n, value |-> <<"object", ms>>]
    BY <1>1 DEF OfKind
  <1> QED
    BY <1>1, <1>2, <1>3, <1>4, <1>5, Punctuation DEF ValueStep, ValueAt

\* A member and what follows it are the members from there on.
LEMMA MembersRead ==
  ASSUME NEW t \in Text, NEW i, NEW m, NEW k, NEW v, MemberAt(t, i, m, k, v), NEW n, NEW ms, RestAt(t, m, n, ms)
  PROVE  MembersAt(t, i, n, << <<k, v>> >> \o ms)
  <1> DEFINE g == Parsed(t)
             mem == << <<k, v>> >>
  <1>0. Len(t) \in Nat
    BY TextIs
  <1>1. PICK c \in 1..Len(t) : StringAt(t, i, c, k) /\ t[c] = COLON /\ ValueAt(t, c + 1, m, v)
    BY DEF MemberAt
  <1>2. i \in 1..Len(t) /\ c \in Nat /\ i < c
    BY <1>1 DEF StringAt
  <1>3. m \in Nat /\ c + 1 < m /\ m \in 1..Len(t)
    BY <1>1 DEF ValueAt, RestAt
  <1>4. KeyIn(t, i) = [next |-> c, value |-> k]
    BY <1>1, KeyRead
  <1>5. ValIn(t, g, i) = [next |-> m, value |-> v]
    <2>1. SymbolIn(t, c) = COLON
      BY <1>1 DEF SymbolIn
    <2>2. c + 1 \in (i + 1)..(Len(t) + 1)
      BY <1>0, <1>2
    <2>3. LaterIn(t, g, i, "value", c + 1) = [next |-> m, value |-> v]
      BY <1>1, <2>2 DEF LaterIn, ValueAt
    <2> QED
      BY <1>4, <2>1, <2>3 DEF ValIn
  <1>6. g[<<"members", i>>] = MembersStep(t, i, ValIn(t, g, i), MoreIn(t, g, i))
    <2>1. i \in 1..(Len(t) + 1)
      BY <1>0, <1>2
    <2> QED
      BY <2>1, ParsedAt DEF ParseStep, Phrases
  <1>7. SymbolIn(t, m) = t[m]
    BY <1>3 DEF SymbolIn
  <1> HIDE DEF g, mem
  <1>8. CASE t[m] = RBRACE /\ n = m + 1 /\ ms = <<>>
    <2>1. MembersStep(t, i, ValIn(t, g, i), MoreIn(t, g, i)) = [next |-> n, value |-> mem]
      BY <1>4, <1>5, <1>7, <1>8 DEF MembersStep, mem
    <2>2. mem \o <<>> = mem
      <3>1. mem \in Seq({<<k, v>>})
        BY DEF mem
      <3> QED
        BY <3>1, ConcatEmptySeq
    <2>3. n \in Nat /\ i < n /\ n <= Len(t) + 1
      BY <1>0, <1>2, <1>3, <1>8
    <2>4. g[<<"members", i>>] = [next |-> n, value |-> mem \o ms]
      BY <1>6, <1>8, <2>1, <2>2
    <2> QED
      BY <1>2, <2>3, <2>4 DEF MembersAt, g, mem
  <1>9. CASE t[m] = COMMA /\ MembersAt(t, m + 1, n, ms)
    <2>1. n \in Nat /\ m + 1 < n /\ n <= Len(t) + 1 /\ g[<<"members", m + 1>>] = [next |-> n, value |-> ms]
      BY <1>9 DEF MembersAt, g
    <2>2. m + 1 \in (i + 1)..(Len(t) + 1) /\ n # 0 /\ i < n
      BY <1>0, <1>2, <1>3, <2>1
    <2>3. LaterIn(t, g, i, "members", m + 1) = [next |-> n, value |-> ms]
      BY <2>1, <2>2 DEF LaterIn
    <2>4. MoreIn(t, g, i) = [next |-> n, value |-> ms]
      BY <1>5, <1>7, <1>9, <2>3 DEF MoreIn
    <2>5. t[m] # RBRACE
      BY <1>9, Punctuation
    <2>6. MembersStep(t, i, ValIn(t, g, i), MoreIn(t, g, i)) = [next |-> n, value |-> mem \o ms]
      BY <1>4, <1>5, <1>7, <2>2, <2>4, <2>5 DEF MembersStep, mem
    <2>7. g[<<"members", i>>] = [next |-> n, value |-> mem \o ms]
      BY <1>6, <2>6
    <2> QED
      BY <1>2, <2>1, <2>2, <2>7 DEF MembersAt, g, mem
  <1> QED
    BY <1>8, <1>9 DEF RestAt

\* A comma before them makes members the rest of what precedes it.
LEMMA RestRead ==
  ASSUME NEW t \in Text, NEW i, NEW j, Stands(t, i, <<COMMA>>, j), NEW n, NEW ms, MembersAt(t, j, n, ms)
  PROVE  RestAt(t, i, n, ms)
  <1>1. COMMA \in Symbols
    BY RenderAssumption, Zenon DEF OwnSymbols
  <1>2. i \in 1..Len(t) /\ t[i] = COMMA /\ j = i + 1
    BY <1>1, StandsOne
  <1> QED
    BY <1>2 DEF RestAt

-----------------------------------------------------------------------------
(* The members that JsonRenderer writes.                                   *)

LEMMA Marks ==
  /\ QUOTE \in Symbols /\ LBRACE \in Symbols /\ RBRACE \in Symbols /\ COMMA \in Symbols /\ COLON \in Symbols
  /\ NL \in Symbols
  /\ <<QUOTE>> \in Text /\ <<LBRACE>> \in Text /\ <<RBRACE>> \in Text /\ <<COMMA>> \in Text /\ <<COLON>> \in Text
  <1>1. /\ QUOTE \in Symbols /\ LBRACE \in Symbols /\ RBRACE \in Symbols /\ COMMA \in Symbols /\ COLON \in Symbols
        /\ NL \in Symbols
    BY RenderAssumption, Zenon DEF OwnSymbols
  <1> QED
    BY <1>1, One

MemberNames == {"time", "level", "endpoint", "message", "tid", "source", "file", "line", "func", "fields"}

LEMMA NamesPlain ==
  ASSUME NEW name \in MemberNames
  PROVE  name \in Symbols /\ EscapeChar(name) = <<name>>
  <1>1. name \in Symbols
    BY RenderAssumption, Zenon DEF OwnSymbols, MemberNames
  <1>2. name # QUOTE /\ name # BACKSLASH /\ name # NL /\ name # CR /\ name # TAB
    BY Zenon DEF MemberNames, QUOTE, BACKSLASH, NL, CR, TAB
  <1>3. name # "SOH"
    BY DEF MemberNames
  <1> QED
    BY <1>1, <1>2, <1>3, ShortIs DEF EscapeChar

LEMMA Four ==
  ASSUME NEW a \in Symbols, NEW b \in Symbols, NEW c \in Symbols, NEW d \in Symbols
  PROVE  /\ <<a, b, c, d>> \in Text /\ Len(<<a, b, c, d>>) = 4
         /\ <<a, b, c, d>>[1] = a /\ <<a, b, c, d>>[2] = b /\ <<a, b, c, d>>[3] = c /\ <<a, b, c, d>>[4] = d
  <1>1. <<a, b, c, d>> \in Text
    BY DEF Text
  <1> QED
    BY <1>1

LEMMA MemberText ==
  ASSUME NEW name \in MemberNames, NEW value \in Text
  PROVE  Member(name, value) \in Text
  <1>1. PICK h \in Text : h = <<QUOTE, name, QUOTE, COLON>>
    BY Marks, NamesPlain, Four
  <1> QED
    BY <1>1, Concat DEF Member

LEMMA MakesMember ==
  ASSUME NEW t \in Text, NEW i, NEW c, NEW k, StringAt(t, i, c, k), NEW d, Stands(t, c, <<COLON>>, d),
         NEW n, NEW v, ValueAt(t, d, n, v)
  PROVE  MemberAt(t, i, n, k, v)
  <1>1. c \in 1..Len(t) /\ t[c] = COLON /\ d = c + 1
    BY Marks, StandsOne
  <1> QED
    BY <1>1 DEF MemberAt

\* A member name is read as itself, and its value follows.
LEMMA NameRead ==
  ASSUME NEW t \in Text, NEW name \in MemberNames, NEW value \in Text, NEW i, NEW n, Stands(t, i, Member(name, value), n)
  PROVE  \E d \in Nat : /\ Stands(t, d, value, n)
                        /\ \A q, v : ValueAt(t, d, q, v) => MemberAt(t, i, q, <<name>>, v)
  <1>1. PICK h \in Text : h = <<QUOTE, name, QUOTE, COLON>> /\ Len(h) = 4
                          /\ h[1] = QUOTE /\ h[2] = name /\ h[3] = QUOTE /\ h[4] = COLON
    <2>1. QUOTE \in Symbols /\ name \in Symbols /\ COLON \in Symbols
      BY Marks, NamesPlain
    <2>2. PICK h : h = <<QUOTE, name, QUOTE, COLON>>
      OBVIOUS
    <2>3. h \in Text /\ Len(h) = 4 /\ h[1] = QUOTE /\ h[2] = name /\ h[3] = QUOTE /\ h[4] = COLON
      BY <2>1, <2>2, Four
    <2> QED
      BY <2>2, <2>3
  <1>2. PICK d \in Nat : Stands(t, i, h, d) /\ Stands(t, d, value, n)
    BY <1>1, StandsSplit DEF Member
  <1>3. Len(t) \in Nat
    BY TextIs
  <1>4. /\ i \in Nat /\ 1 <= i /\ d <= Len(t) + 1 /\ 4 = d - i
        /\ \A x \in 1..4 : t[i + x - 1] = h[x]
    BY <1>1, <1>2 DEF Stands
  <1>5. d = i + 4 /\ i + 3 <= Len(t)
    BY <1>3, <1>4
  <1>6. t[i] = QUOTE /\ t[i + 1] = name /\ t[i + 2] = QUOTE /\ t[i + 3] = COLON
    <2>1. i + 1 - 1 = i /\ i + 2 - 1 = i + 1 /\ i + 3 - 1 = i + 2 /\ i + 4 - 1 = i + 3
          /\ 1 \in 1..4 /\ 2 \in 1..4 /\ 3 \in 1..4 /\ 4 \in 1..4
      BY <1>4
    <2>2. t[i + 1 - 1] = h[1] /\ t[i + 2 - 1] = h[2] /\ t[i + 3 - 1] = h[3] /\ t[i + 4 - 1] = h[4]
      BY <1>4, <2>1
    <2> QED
      BY <1>1, <2>1, <2>2
  <1>7. ReadsString(t, i + 2, i + 3, <<>>)
    <2>1. i + 2 \in 1..(Len(t) + 1) /\ ~(i + 2 > Len(t)) /\ (i + 2) + 1 = i + 3
      BY <1>3, <1>4, <1>5
    <2>2. Strings(t)[i + 2] = StrStep(t, Strings(t), i + 2)
      BY <2>1, StringsAt
    <2>3. Strings(t)[i + 2] = [next |-> i + 3, value |-> <<>>]
      BY <1>6, <2>1, <2>2 DEF StrStep
    <2> QED
      BY <2>3 DEF ReadsString
  <1>8. ReadsString(t, i + 1, i + 3, <<name>>)
    <2>1. Stands(t, i + 1, <<name>>, i + 2)
      <3>1. i + 1 \in Nat /\ i + 2 \in Nat /\ 1 <= i + 1 /\ i + 1 <= i + 2 /\ i + 2 <= Len(t) + 1
            /\ 1 = (i + 2) - (i + 1) /\ (i + 1) + 1 - 1 = i + 1
        BY <1>3, <1>4, <1>5
      <3>2. Len(<<name>>) = 1 /\ <<name>>[1] = name
        OBVIOUS
      <3>3. \A x \in 1..1 : t[(i + 1) + x - 1] = <<name>>[x]
        BY <1>6, <3>1, <3>2
      <3> QED
        BY <3>1, <3>2, <3>3 DEF Stands
    <2>2. i + 3 \in Nat \ {0} /\ i + 2 <= Len(t)
      BY <1>3, <1>4, <1>5
    <2>3. Stands(t, i + 1, EscapeChar(name), i + 2) /\ name \in Symbols
      BY <2>1, NamesPlain
    <2>4. PICK v : v = <<>>
      OBVIOUS
    <2>5. ReadsString(t, i + 1, i + 3, <<name>> \o v)
      BY <1>7, <2>2, <2>3, <2>4, CharRead
    <2>6. <<name>> \o v = <<name>>
      BY <2>3, <2>4, One, Empty
    <2> QED
      BY <2>5, <2>6
  <1>9. StringAt(t, i, i + 3, <<name>>)
    <2>1. i \in 1..Len(t) /\ i + 3 \in Nat /\ i < i + 3 /\ i + 3 <= Len(t) + 1
      BY <1>3, <1>4, <1>5
    <2> QED
      BY <1>6, <1>8, <2>1 DEF StringAt
  <1>10. ASSUME NEW q, NEW v, ValueAt(t, d, q, v) PROVE MemberAt(t, i, q, <<name>>, v)
    <2>1. i + 3 \in 1..Len(t) /\ d = (i + 3) + 1
      BY <1>3, <1>4, <1>5
    <2> QED
      BY <1>6, <1>9, <1>10, <2>1 DEF MemberAt
  <1> QED
    BY <1>2, <1>10

LEMMA StringMember ==
  ASSUME NEW t \in Text, NEW name \in MemberNames, NEW s \in Text, NEW i, NEW n,
         Stands(t, i, Member(name, json_escape(s)), n)
  PROVE  MemberAt(t, i, n, <<name>>, <<"string", s>>)
  <1>1. PICK w \in Text : w = json_escape(s)
    BY EscapesText
  <1>2. PICK d \in Nat : Stands(t, d, w, n) /\ \A q, v : ValueAt(t, d, q, v) => MemberAt(t, i, q, <<name>>, v)
    BY <1>1, NameRead
  <1>3. StringAt(t, d, n, s)
    BY <1>1, <1>2, StringRead
  <1> QED
    BY <1>2, <1>3, StringValue

LEMMA NumberMember ==
  ASSUME NEW t \in Text, NEW name \in MemberNames, NEW a \in Digits, NEW i, NEW n, Stands(t, i, Member(name, a), n)
  PROVE  MemberAt(t, i, n, <<name>>, <<"atom", a>>)
  <1>1. PICK x \in Numerals : a = <<x>>
    BY DEF Digits
  <1>2. x \in Symbols /\ a \in Text
    BY <1>1, RenderAssumption, One
  <1>3. PICK d \in Nat : Stands(t, d, a, n) /\ \A q, v : ValueAt(t, d, q, v) => MemberAt(t, i, q, <<name>>, v)
    BY <1>2, NameRead
  <1>4. d \in 1..Len(t) /\ t[d] = x /\ n = d + 1
    BY <1>1, <1>2, <1>3, StandsOne
  <1>5. ValueAt(t, d, n, <<"atom", <<x>> >>)
    BY <1>4, AtomValue DEF Atoms
  <1> QED
    BY <1>1, <1>3, <1>5

LEMMA ObjectMember ==
  ASSUME NEW t \in Text, NEW name \in MemberNames, NEW i, NEW j, Stands(t, i, Member(name, <<LBRACE>>), j),
         NEW n, NEW ms, MembersAt(t, j, n, ms)
  PROVE  MemberAt(t, i, n, <<name>>, <<"object", ms>>)
  <1>1. PICK d \in Nat : Stands(t, d, <<LBRACE>>, j) /\ \A q, v : ValueAt(t, d, q, v) => MemberAt(t, i, q, <<name>>, v)
    BY Marks, NameRead
  <1>2. d \in 1..Len(t) /\ t[d] = LBRACE /\ j = d + 1
    BY <1>1, Marks, StandsOne
  <1>3. ValueAt(t, d, n, <<"object", ms>>)
    BY <1>2, ObjectValue
  <1> QED
    BY <1>1, <1>3

\* What a parser makes of a field's value.
Meaning(v) == <<IF v.type = "string" THEN "string" ELSE "atom", v.text>>

LEMMA ValueShape ==
  ASSUME NEW v \in FieldValue
  PROVE  \/ v.type = "string" /\ v.text \in Text
         \/ v.type # "string" /\ \E a \in Atoms : v.text = <<a>>
  <1>1. CASE v \in [type : {"null"}, text : {<<"null">>}]
    BY <1>1 DEF Atoms
  <1>2. CASE v \in [type : {"bool"}, text : {<<"true">>, <<"false">>}]
    BY <1>2 DEF Atoms
  <1>3. CASE v \in [type : {"int"}, text : Digits]
    BY <1>3 DEF Digits, Atoms
  <1>4. CASE v \in [type : {"double"}, text : Doubles]
    BY <1>4 DEF Doubles, Atoms
  <1>5. CASE v \in [type : {"string"}, text : Text]
    BY <1>5
  <1> QED
    BY <1>1, <1>2, <1>3, <1>4, <1>5 DEF FieldValue

LEMMA AtomText ==
  ASSUME NEW a \in Atoms
  PROVE  a \in Symbols /\ <<a>> \in Text
  <1>1. "null" \in Symbols /\ "true" \in Symbols /\ "false" \in Symbols
    BY RenderAssumption, Zenon DEF OwnSymbols
  <1>2. a \in Symbols
    BY <1>1, RenderAssumption DEF Atoms
  <1> QED
    BY <1>2, One

LEMMA ValueRead ==
  ASSUME NEW v \in FieldValue
  PROVE  /\ json_value(v) \in Text
         /\ \A t \in Text : \A i, n : Stands(t, i, json_value(v), n) => ValueAt(t, i, n, Meaning(v))
  <1>1. CASE v.type = "string" /\ v.text \in Text
    <2>1. json_value(v) = json_escape(v.text) /\ json_escape(v.text) \in Text
      BY <1>1, EscapesText DEF json_value
    <2>2. ASSUME NEW t \in Text, NEW i, NEW n, Stands(t, i, json_escape(v.text), n)
          PROVE  ValueAt(t, i, n, <<"string", v.text>>)
      <3>1. StringAt(t, i, n, v.text)
        BY <1>1, <2>2, StringRead
      <3> QED
        BY <3>1, StringValue
    <2>3. Meaning(v) = <<"string", v.text>>
      BY <1>1 DEF Meaning
    <2> QED
      BY <2>1, <2>2, <2>3
  <1>2. CASE v.type # "string" /\ \E a \in Atoms : v.text = <<a>>
    <2>1. PICK a \in Atoms : v.text = <<a>>
      BY <1>2
    <2>2. json_value(v) = <<a>> /\ <<a>> \in Text /\ a \in Symbols
      BY <1>2, <2>1, AtomText DEF json_value
    <2>3. ASSUME NEW t \in Text, NEW i, NEW n, Stands(t, i, <<a>>, n)
          PROVE  ValueAt(t, i, n, <<"atom", <<a>> >>)
      <3>1. i \in 1..Len(t) /\ t[i] = a /\ n = i + 1
        BY <2>2, <2>3, StandsOne
      <3> QED
        BY <3>1, AtomValue
    <2>4. Meaning(v) = <<"atom", <<a>> >>
      BY <1>2, <2>1 DEF Meaning
    <2> QED
      BY <2>2, <2>3, <2>4
  <1> QED
    BY <1>1, <1>2, ValueShape

Field == [key : Text, value : FieldValue]

\* The k-th field as JsonFields writes it.
FieldText(f, k) ==
  (IF k > 1 THEN <<COMMA>> ELSE <<>>) \o json_escape(f.key) \o <<COLON>> \o json_value(f.value)

FieldMember(f) == <<f.key, Meaning(f.value)>>

LEMMA FieldIsText ==
  ASSUME NEW f \in Field, NEW k \in Nat
  PROVE  FieldText(f, k) \in Text
  <1>1. PICK p \in Text, s \in Text, c \in Text, v \in Text :
          p = (IF k > 1 THEN <<COMMA>> ELSE <<>>) /\ s = json_escape(f.key) /\ c = <<COLON>> /\ v = json_value(f.value)
    BY Marks, Empty, EscapesText, ValueRead DEF Field
  <1>2. p \o s \in Text
    BY Concat
  <1>3. (p \o s) \o c \in Text
    BY <1>2, Concat
  <1>4. ((p \o s) \o c) \o v \in Text
    BY <1>3, Concat
  <1> QED
    BY <1>1, <1>4 DEF FieldText

LEMMA FieldRead ==
  ASSUME NEW t \in Text, NEW f \in Field, NEW k \in Nat, NEW i, NEW n, Stands(t, i, FieldText(f, k), n)
  PROVE  \E j \in Nat : /\ MemberAt(t, j, n, f.key, Meaning(f.value))
                        /\ IF k > 1 THEN Stands(t, i, <<COMMA>>, j) ELSE j = i
  <1>1. PICK p \in Text, s \in Text, c \in Text, v \in Text :
          p = (IF k > 1 THEN <<COMMA>> ELSE <<>>) /\ s = json_escape(f.key) /\ c = <<COLON>> /\ v = json_value(f.value)
    BY Marks, Empty, EscapesText, ValueRead DEF Field
  <1>2. PICK a \in Text, b \in Text : a = p \o s /\ b = a \o c
    BY Concat
  <1>3. Stands(t, i, b \o v, n)
    BY <1>1, <1>2 DEF FieldText
  <1>4. PICK m3 \in Nat : Stands(t, i, b, m3) /\ Stands(t, m3, v, n)
    BY <1>3, StandsSplit
  <1>5. PICK m2 \in Nat : Stands(t, i, a, m2) /\ Stands(t, m2, c, m3)
    BY <1>2, <1>4, StandsSplit
  <1>6. PICK m1 \in Nat : Stands(t, i, p, m1) /\ Stands(t, m1, s, m2)
    BY <1>2, <1>5, StandsSplit
  <1>7. f.key \in Text /\ f.value \in FieldValue
    BY DEF Field
  <1>8. StringAt(t, m1, m2, f.key)
    BY <1>1, <1>6, <1>7, StringRead
  <1>9. ValueAt(t, m3, n, Meaning(f.value))
    BY <1>1, <1>4, <1>7, ValueRead
  <1>10. MemberAt(t, m1, n, f.key, Meaning(f.value))
    BY <1>1, <1>5, <1>8, <1>9, MakesMember
  <1>11. IF k > 1 THEN Stands(t, i, <<COMMA>>, m1) ELSE m1 = i
    BY <1>1, <1>6, StandsNone
  <1> QED
    BY <1>10, <1>11

\* Any number of fields, up to the closing brace.
LEMMA FieldsRead ==
  ASSUME NEW t \in Text, NEW N \in Nat \ {0}, NEW fields \in [1..N -> Field],
         NEW ss, ss = [k \in 1..N |-> FieldText(fields[k], k)], NEW i, NEW m, Stands(t, i, FlattenSeq(ss), m),
         NEW n, Stands(t, m, <<RBRACE>>, n)
  PROVE  MembersAt(t, i, n, [k \in 1..N |-> FieldMember(fields[k])])
  <1>0. PICK fm : fm = [k \in 1..N |-> FieldMember(fields[k])]
    OBVIOUS
  <1>1. fm \in Seq({fm[k] : k \in 1..N}) /\ Len(fm) = N
    <2>1. PICK S : S = {fm[k] : k \in 1..N}
      OBVIOUS
    <2>2. fm \in [1..N -> S]
      BY <1>0, <2>1
    <2>3. fm \in Seq(S) /\ Len(fm) = N
      BY <2>2, SMTT(20)
    <2> QED
      BY <2>1, <2>3
  <1>2. ss \in [1..N -> Text] /\ \A k \in 1..N : ss[k] = FieldText(fields[k], k)
    BY FieldIsText
  <1>3. PICK pos : InRow(t, ss, N, pos, i, m)
    BY <1>2, FlattenStands, Zenon
  <1>4. /\ pos \in [1..(N + 1) -> Nat] /\ pos[1] = i /\ pos[N + 1] = m
        /\ \A k \in 1..N : Stands(t, pos[k], FieldText(fields[k], k), pos[k + 1])
    BY <1>2, <1>3 DEF InRow
  <1> DEFINE Good(k) == RestAt(t, pos[k], n, SubSeq(fm, k, N))
             S == {x \in Nat : x < N => Good((N + 1) - x)}
  <1>5. Good(N + 1)
    <2>1. SubSeq(fm, N + 1, N) = <<>>
      BY SubSeqEmpty
    <2>2. m \in 1..Len(t) /\ t[m] = RBRACE /\ n = m + 1
      BY Marks, StandsOne
    <2> QED
      BY <1>4, <2>1, <2>2 DEF RestAt
  <1>6. ASSUME NEW k \in 1..N, Good(k + 1)
        PROVE  \E j \in Nat : /\ MembersAt(t, j, n, SubSeq(fm, k, N))
                              /\ IF k > 1 THEN Stands(t, pos[k], <<COMMA>>, j) ELSE j = pos[k]
    <2>0. PICK f \in Field : f = fields[k]
      OBVIOUS
    <2>1. PICK j \in Nat : /\ MemberAt(t, j, pos[k + 1], f.key, Meaning(f.value))
                           /\ IF k > 1 THEN Stands(t, pos[k], <<COMMA>>, j) ELSE j = pos[k]
      <3>1. Stands(t, pos[k], FieldText(f, k), pos[k + 1]) /\ k \in Nat
        BY <1>4, <2>0
      <3> QED
        BY <2>0, <3>1, FieldRead
    <2>2. PICK ms : ms = SubSeq(fm, k + 1, N)
      OBVIOUS
    <2>3. MembersAt(t, j, n, << <<f.key, Meaning(f.value)>> >> \o ms)
      BY <1>6, <2>1, <2>2, MembersRead
    <2>4. SubSeq(fm, k, N) = <<fm[k]>> \o ms
      <3>1. k \in 1..Len(fm) /\ N \in k..Len(fm)
        BY <1>1
      <3> QED
        BY <1>1, <2>2, <3>1, SubSeqRecursiveFirst
    <2>5. fm[k] = <<f.key, Meaning(f.value)>>
      BY <1>0, <2>0 DEF FieldMember
    <2>6. MembersAt(t, j, n, SubSeq(fm, k, N))
      BY <2>3, <2>4, <2>5
    <2> QED
      BY <2>1, <2>6
  <1> HIDE DEF Good
  <1>7. N - 1 \in S
    <2>1. 0 \in S
      <3>1. (N + 1) - 0 = N + 1
        OBVIOUS
      <3> QED
        BY <1>5, <3>1
    <2>2. ASSUME NEW x \in Nat, x \in S PROVE x + 1 \in S
      <3> SUFFICES ASSUME x + 1 < N PROVE Good((N + 1) - (x + 1))
        OBVIOUS
      <3>1. N - x \in 1..N /\ N - x > 1 /\ (N + 1) - (x + 1) = N - x /\ (N + 1) - x = (N - x) + 1 /\ x < N
        OBVIOUS
      <3>2. Good((N - x) + 1)
        BY <2>2, <3>1
      <3>3. PICK j \in Nat : MembersAt(t, j, n, SubSeq(fm, N - x, N)) /\ Stands(t, pos[N - x], <<COMMA>>, j)
        BY <1>6, <3>1, <3>2
      <3>4. RestAt(t, pos[N - x], n, SubSeq(fm, N - x, N))
        BY <3>3, RestRead
      <3> QED
        BY <3>1, <3>4 DEF Good
    <2> HIDE DEF S
    <2>3. Nat \subseteq S
      BY <2>1, <2>2, InductionOnSets
    <2> QED
      BY <2>3
  <1>8. Good(2)
    <2>1. (N + 1) - (N - 1) = 2 /\ N - 1 < N
      OBVIOUS
    <2> QED
      BY <1>7, <2>1
  <1>9. 1 \in 1..N /\ 1 + 1 = 2 /\ ~(1 > 1)
    OBVIOUS
  <1>10. MembersAt(t, pos[1], n, SubSeq(fm, 1, N))
    BY <1>6, <1>8, <1>9
  <1>11. SubSeq(fm, 1, N) = fm
    BY <1>1, SubSeqFull
  <1> QED
    BY <1>0, <1>4, <1>10, <1>11

-----------------------------------------------------------------------------
(* The whole object.                                                       *)

LEMMA Braced ==
  ASSUME NEW t \in Text, NEW i, NEW n, Stands(t, i, <<RBRACE>>, n)
  PROVE  RestAt(t, i, n, <<>>)
  <1>1. i \in 1..Len(t) /\ t[i] = RBRACE /\ n = i + 1
    BY Marks, StandsOne
  <1> QED
    BY <1>1 DEF RestAt

\* A comma and a member, before what follows.
LEMMA RestMember ==
  ASSUME NEW t \in Text, NEW i, NEW j, Stands(t, i, <<COMMA>>, j), NEW m, NEW k, NEW v, MemberAt(t, j, m, k, v),
         NEW n, NEW ms, RestAt(t, m, n, ms)
  PROVE  RestAt(t, i, n, << <<k, v>> >> \o ms)
  <1>1. PICK all : all = << <<k, v>> >> \o ms
    OBVIOUS
  <1>2. MembersAt(t, j, n, all)
    BY <1>1, MembersRead
  <1> QED
    BY <1>1, <1>2, RestRead

SourceMember(e) ==
  << <<"source">>, <<"object", << << <<"file">>, <<"string", e.file>> >>, << <<"line">>, <<"atom", e.line>> >>,
                                  << <<"func">>, <<"string", e.func>> >> >> >> >>

FieldsMember(e) ==
  << <<"fields">>, <<"object", [i \in DOMAIN e.fields |-> FieldMember(e.fields[i])]>> >>

TidMember(e) == << <<"tid">>, <<"atom", e.tid>> >>

LEMMA PushedFront ==
  ASSUME NEW S, NEW a \in S, NEW u \in Seq(S), NEW w \in Seq(S), Len(w) = Len(u) + 1, w[1] = a,
         \A x \in 1..Len(u) : w[x + 1] = u[x]
  PROVE  <<a>> \o u = w
  <1>1. PICK v : v = <<a>>
    OBVIOUS
  <1>2. v \in Seq(S) /\ Len(v) = 1 /\ v[1] = a
    BY <1>1
  <1>3. PICK y : y = v \o u
    OBVIOUS
  <1>4. /\ y \in Seq(S) /\ Len(y) = 1 + Len(u)
        /\ \A x \in 1..(1 + Len(u)) : y[x] = IF x <= 1 THEN v[x] ELSE u[x - 1]
    <2>1. /\ v \o u \in Seq(S) /\ Len(v \o u) = Len(v) + Len(u)
          /\ \A x \in 1..(Len(v) + Len(u)) : (v \o u)[x] = IF x <= Len(v) THEN v[x] ELSE u[x - Len(v)]
      BY <1>2, ConcatProperties
    <2> QED
      BY <1>2, <1>3, <2>1
  <1>5. Len(u) \in Nat
    BY LenProperties
  <1>6. ASSUME NEW x \in 1..Len(y) PROVE y[x] = w[x]
    <2>0. x \in 1..(1 + Len(u))
      BY <1>4
    <2>1. CASE x = 1
      BY <1>2, <1>4, <2>0, <2>1
    <2>2. CASE x # 1
      <3>1. x - 1 \in 1..Len(u) /\ (x - 1) + 1 = x /\ ~(x <= 1)
        BY <1>5, <2>0, <2>2
      <3> QED
        BY <1>4, <2>0, <3>1
    <2> QED
      BY <2>1, <2>2
  <1>7. Len(y) = Len(w)
    BY <1>4, <1>5
  <1>8. y = w
    BY <1>4, <1>6, <1>7, SeqEqual
  <1> QED
    BY <1>1, <1>3, <1>8

LEMMA Tuple3 ==
  ASSUME NEW a, NEW b, NEW c
  PROVE  <<a>> \o (<<b>> \o (<<c>> \o <<>>)) = <<a, b, c>>
  <1>1. <<c>> \o <<>> = <<c>>
    <2>1. <<c>> \in Seq({c})
      OBVIOUS
    <2> QED
      BY <2>1, ConcatEmptySeq
  <1>2. <<b>> \o <<c>> = <<b, c>>
    <2>1. PICK S : S = {a, b, c}
      OBVIOUS
    <2>2. PICK u, w : u = <<c>> /\ w = <<b, c>>
      OBVIOUS
    <2>3. b \in S /\ u \in Seq(S) /\ w \in Seq(S)
      BY <2>1, <2>2
    <2>4. Len(w) = Len(u) + 1 /\ w[1] = b /\ \A x \in 1..Len(u) : w[x + 1] = u[x]
      BY <2>2
    <2>5. <<b>> \o u = w
      BY <2>3, <2>4, PushedFront
    <2> QED
      BY <2>2, <2>5
  <1>3. <<a>> \o <<b, c>> = <<a, b, c>>
    <2>1. PICK S : S = {a, b, c}
      OBVIOUS
    <2>2. PICK u, w : u = <<b, c>> /\ w = <<a, b, c>>
      OBVIOUS
    <2>3. a \in S /\ u \in Seq(S) /\ w \in Seq(S)
      BY <2>1, <2>2
    <2>4. Len(w) = Len(u) + 1 /\ w[1] = a /\ \A x \in 1..Len(u) : w[x + 1] = u[x]
      BY <2>2
    <2>5. <<a>> \o u = w
      BY <2>3, <2>4, PushedFront
    <2> QED
      BY <2>2, <2>5
  <1> QED
    BY <1>1, <1>2, <1>3

LEMMA TidRead ==
  ASSUME NEW e \in Event
  PROVE  /\ <<COMMA>> \o Member("tid", e.tid) \in Text
         /\ \A t \in Text : \A i, m, n, ms :
              Stands(t, i, <<COMMA>> \o Member("tid", e.tid), m) /\ RestAt(t, m, n, ms)
              => RestAt(t, i, n, <<TidMember(e)>> \o ms)
  <1>1. e.tid \in Digits /\ e.tid \in Text /\ "tid" \in MemberNames
    BY RenderAssumption, One DEF Event, Digits, MemberNames
  <1>2. PICK c \in Text, d \in Text : c = <<COMMA>> /\ d = Member("tid", e.tid)
    BY <1>1, Marks, MemberText
  <1>3. ASSUME NEW t \in Text, NEW i, NEW m, NEW n, NEW ms, Stands(t, i, c \o d, m), RestAt(t, m, n, ms)
        PROVE  RestAt(t, i, n, <<TidMember(e)>> \o ms)
    <2>1. PICK j \in Nat : Stands(t, i, c, j) /\ Stands(t, j, d, m)
      BY <1>3, StandsSplit
    <2>2. MemberAt(t, j, m, <<"tid">>, <<"atom", e.tid>>)
      BY <1>1, <1>2, <2>1, NumberMember
    <2>3. RestAt(t, i, n, << << <<"tid">>, <<"atom", e.tid>> >> >> \o ms)
      BY <1>2, <1>3, <2>1, <2>2, RestMember
    <2> QED
      BY <2>3 DEF TidMember
  <1>4. c \o d \in Text
    BY Concat
  <1> QED
    BY <1>2, <1>3, <1>4

LEMMA SourceRead ==
  ASSUME NEW e \in Event
  PROVE  /\ JsonSource(e) \in Text
         /\ \A t \in Text : \A i, m, n, ms :
              Stands(t, i, JsonSource(e), m) /\ RestAt(t, m, n, ms) => RestAt(t, i, n, <<SourceMember(e)>> \o ms)
  <1>1. /\ e.line \in Digits /\ e.line \in Text /\ e.file \in Text /\ e.func \in Text
        /\ "source" \in MemberNames /\ "file" \in MemberNames /\ "line" \in MemberNames /\ "func" \in MemberNames
    BY RenderAssumption, One DEF Event, Digits, MemberNames
  <1>2. PICK c \in Text, z \in Text, s \in Text, f \in Text, l \in Text, g \in Text :
          /\ c = <<COMMA>> /\ z = <<RBRACE>> /\ s = Member("source", <<LBRACE>>)
          /\ f = Member("file", json_escape(e.file)) /\ l = Member("line", e.line)
          /\ g = Member("func", json_escape(e.func))
    <2>1. json_escape(e.file) \in Text /\ json_escape(e.func) \in Text
      BY <1>1, EscapesText
    <2>2. Member("source", <<LBRACE>>) \in Text
      BY <1>1, Marks, MemberText
    <2>3. Member("file", json_escape(e.file)) \in Text /\ Member("func", json_escape(e.func)) \in Text
      BY <1>1, <2>1, MemberText
    <2>4. Member("line", e.line) \in Text
      BY <1>1, MemberText
    <2> QED
      BY <2>2, <2>3, <2>4, Marks
  <1>3. PICK w1 \in Text : w1 = c \o s
    BY Concat
  <1>4. PICK w2 \in Text : w2 = w1 \o f
    BY Concat
  <1>5. PICK w3 \in Text : w3 = w2 \o c
    BY Concat
  <1>6. PICK w4 \in Text : w4 = w3 \o l
    BY Concat
  <1>7. PICK w5 \in Text : w5 = w4 \o c
    BY Concat
  <1>8. PICK w6 \in Text : w6 = w5 \o g
    BY Concat
  <1>9. PICK w7 \in Text : w7 = w6 \o z
    BY Concat
  <1>10. JsonSource(e) = w7
    BY <1>2, <1>3, <1>4, <1>5, <1>6, <1>7, <1>8, <1>9, Zenon DEF JsonSource
  <1>11. ASSUME NEW t \in Text, NEW i, NEW m, NEW n, NEW ms, Stands(t, i, w7, m), RestAt(t, m, n, ms)
         PROVE  RestAt(t, i, n, <<SourceMember(e)>> \o ms)
    <2>1. PICK p7 \in Nat : Stands(t, i, w6, p7) /\ Stands(t, p7, z, m)
      BY <1>9, <1>11, StandsSplit
    <2>2. PICK p6 \in Nat : Stands(t, i, w5, p6) /\ Stands(t, p6, g, p7)
      BY <1>8, <2>1, StandsSplit
    <2>3. PICK p5 \in Nat : Stands(t, i, w4, p5) /\ Stands(t, p5, c, p6)
      BY <1>7, <2>2, StandsSplit
    <2>4. PICK p4 \in Nat : Stands(t, i, w3, p4) /\ Stands(t, p4, l, p5)
      BY <1>6, <2>3, StandsSplit
    <2>5. PICK p3 \in Nat : Stands(t, i, w2, p3) /\ Stands(t, p3, c, p4)
      BY <1>5, <2>4, StandsSplit
    <2>6. PICK p2 \in Nat : Stands(t, i, w1, p2) /\ Stands(t, p2, f, p3)
      BY <1>4, <2>5, StandsSplit
    <2>7. PICK p1 \in Nat : Stands(t, i, c, p1) /\ Stands(t, p1, s, p2)
      BY <1>3, <2>6, StandsSplit
    <2>8. /\ MemberAt(t, p6, p7, <<"func">>, <<"string", e.func>>)
          /\ MemberAt(t, p4, p5, <<"line">>, <<"atom", e.line>>)
          /\ MemberAt(t, p2, p3, <<"file">>, <<"string", e.file>>)
      <3>1. MemberAt(t, p6, p7, <<"func">>, <<"string", e.func>>)
        BY <1>1, <1>2, <2>2, StringMember
      <3>2. MemberAt(t, p4, p5, <<"line">>, <<"atom", e.line>>)
        BY <1>1, <1>2, <2>4, NumberMember
      <3>3. MemberAt(t, p2, p3, <<"file">>, <<"string", e.file>>)
        BY <1>1, <1>2, <2>6, StringMember
      <3> QED
        BY <3>1, <3>2, <3>3
    <2>9. PICK ff, fl, fg : ff = << <<"file">>, <<"string", e.file>> >> /\ fl = << <<"line">>, <<"atom", e.line>> >>
                            /\ fg = << <<"func">>, <<"string", e.func>> >>
      OBVIOUS
    <2>10. RestAt(t, p7, m, <<>>)
      BY <1>2, <2>1, Braced
    <2>11. PICK r1 : r1 = <<fg>> \o <<>> /\ RestAt(t, p5, m, r1)
      <3>1. PICK r0 : r0 = <<>>
        OBVIOUS
      <3>2. RestAt(t, p5, m, << << <<"func">>, <<"string", e.func>> >> >> \o r0)
        BY <1>2, <2>3, <2>8, <2>10, <3>1, RestMember
      <3> QED
        BY <2>9, <3>1, <3>2
    <2>12. PICK r2 : r2 = <<fl>> \o r1 /\ RestAt(t, p3, m, r2)
      <3>1. RestAt(t, p3, m, << << <<"line">>, <<"atom", e.line>> >> >> \o r1)
        BY <1>2, <2>5, <2>8, <2>11, RestMember
      <3> QED
        BY <2>9, <3>1
    <2>13. PICK r3 : r3 = <<ff>> \o r2 /\ MembersAt(t, p2, m, r3)
      <3>1. MembersAt(t, p2, m, << << <<"file">>, <<"string", e.file>> >> >> \o r2)
        BY <2>8, <2>12, MembersRead
      <3> QED
        BY <2>9, <3>1
    <2>14. r3 = <<ff, fl, fg>>
      BY <2>11, <2>12, <2>13, Tuple3
    <2>15. MemberAt(t, p1, m, <<"source">>, <<"object", r3>>)
      BY <1>1, <1>2, <2>7, <2>13, ObjectMember
    <2>16. RestAt(t, i, n, << << <<"source">>, <<"object", r3>> >> >> \o ms)
      BY <1>2, <1>11, <2>7, <2>15, RestMember
    <2> QED
      BY <2>9, <2>14, <2>16 DEF SourceMember
  <1> QED
    BY <1>10, <1>11

LEMMA FieldsPart ==
  ASSUME NEW e \in Event, e.fields # <<>>
  PROVE  /\ JsonFields(e) \in Text
         /\ \A t \in Text : \A i, m, n, ms :
              Stands(t, i, JsonFields(e), m) /\ RestAt(t, m, n, ms) => RestAt(t, i, n, <<FieldsMember(e)>> \o ms)
  <1>1. PICK fields : fields = e.fields /\ fields \in Seq(Field) /\ fields # <<>>
    BY DEF Event, Field
  <1>2. PICK N \in Nat \ {0} : N = Len(fields) /\ DOMAIN fields = 1..N /\ fields \in [1..N -> Field]
    BY <1>1, LenProperties, EmptySeq
  <1>4. PICK ss : ss = [k \in 1..N |-> FieldText(fields[k], k)]
    OBVIOUS
  <1>5. ss \in [1..N -> Text]
    BY <1>2, <1>4, FieldIsText
  <1>6. FlattenSeq(ss) \in Text
    BY <1>5, FlattenText
  <1>7. "fields" \in MemberNames
    BY DEF MemberNames
  <1>8. PICK c \in Text, z \in Text, s \in Text, f \in Text :
          c = <<COMMA>> /\ z = <<RBRACE>> /\ s = Member("fields", <<LBRACE>>) /\ f = FlattenSeq(ss)
    BY <1>6, <1>7, Marks, MemberText
  <1>9. PICK w1 \in Text : w1 = c \o s
    BY Concat
  <1>10. PICK w2 \in Text : w2 = w1 \o f
    BY Concat
  <1>11. PICK w3 \in Text : w3 = w2 \o z
    BY Concat
  <1>12. JsonFields(e) = w3
    <2>1. ss = [k \in DOMAIN e.fields |->
                 (IF k > 1 THEN <<COMMA>> ELSE <<>>)
                 \o json_escape(e.fields[k].key) \o <<COLON>> \o json_value(e.fields[k].value)]
      BY <1>1, <1>2, <1>4 DEF FieldText
    <2> QED
      BY <1>8, <1>9, <1>10, <1>11, <2>1, Zenon DEF JsonFields
  <1>13. PICK fm : fm = [k \in 1..N |-> FieldMember(fields[k])]
    OBVIOUS
  <1>14. FieldsMember(e) = << <<"fields">>, <<"object", fm>> >>
    BY <1>1, <1>2, <1>13 DEF FieldsMember
  <1>15. ASSUME NEW t \in Text, NEW i, NEW m, NEW n, NEW ms, Stands(t, i, w3, m), RestAt(t, m, n, ms)
         PROVE  RestAt(t, i, n, <<FieldsMember(e)>> \o ms)
    <2>1. PICK p3 \in Nat : Stands(t, i, w2, p3) /\ Stands(t, p3, z, m)
      BY <1>11, <1>15, StandsSplit
    <2>2. PICK p2 \in Nat : Stands(t, i, w1, p2) /\ Stands(t, p2, f, p3)
      BY <1>10, <2>1, StandsSplit
    <2>3. PICK p1 \in Nat : Stands(t, i, c, p1) /\ Stands(t, p1, s, p2)
      BY <1>9, <2>2, StandsSplit
    <2>4. MembersAt(t, p2, m, fm)
      <3>1. Stands(t, p2, FlattenSeq(ss), p3) /\ Stands(t, p3, <<RBRACE>>, m)
        BY <1>8, <2>1, <2>2
      <3>2. MembersAt(t, p2, m, [k \in 1..N |-> FieldMember(fields[k])])
        BY <1>2, <1>4, <3>1, FieldsRead, Zenon
      <3> QED
        BY <1>13, <3>2
    <2>5. MemberAt(t, p1, m, <<"fields">>, <<"object", fm>>)
      BY <1>7, <1>8, <2>3, <2>4, ObjectMember
    <2>6. RestAt(t, i, n, << << <<"fields">>, <<"object", fm>> >> >> \o ms)
      BY <1>8, <1>15, <2>3, <2>5, RestMember
    <2> QED
      BY <1>14, <2>6
  <1> QED
    BY <1>12, <1>15

\* An optional member: the text and what it stands for, or neither.
IsOption(text, member) ==
  /\ text \in Text
  /\ \A t \in Text : \A i, m, n, S : \A ms \in Seq(S) :
       Stands(t, i, text, m) /\ RestAt(t, m, n, ms) => RestAt(t, i, n, member \o ms)

LEMMA NoOption ==
  IsOption(<<>>, <<>>)
  <1>1. ASSUME NEW t \in Text, NEW i, NEW m, NEW n, NEW S, NEW ms \in Seq(S), Stands(t, i, <<>>, m), RestAt(t, m, n, ms)
        PROVE  RestAt(t, i, n, <<>> \o ms)
    <2>1. m = i
      BY <1>1, StandsNone
    <2>2. <<>> \o ms = ms
      BY ConcatEmptySeq
    <2> QED
      BY <1>1, <2>1, <2>2
  <1> QED
    BY <1>1, Empty DEF IsOption

LEMMA Options ==
  ASSUME NEW e \in Event, NEW r \in JsonRenderers
  PROVE  /\ IsOption(IF r.include_thread THEN <<COMMA>> \o Member("tid", e.tid) ELSE <<>>,
                     IF r.include_thread THEN <<TidMember(e)>> ELSE <<>>)
         /\ IsOption(IF r.include_source THEN JsonSource(e) ELSE <<>>,
                     IF r.include_source THEN <<SourceMember(e)>> ELSE <<>>)
         /\ IsOption(IF r.include_fields /\ e.fields # <<>> THEN JsonFields(e) ELSE <<>>,
                     IF r.include_fields /\ e.fields # <<>> THEN <<FieldsMember(e)>> ELSE <<>>)
  <1>1. IsOption(<<COMMA>> \o Member("tid", e.tid), <<TidMember(e)>>)
    BY TidRead DEF IsOption
  <1>2. IsOption(JsonSource(e), <<SourceMember(e)>>)
    BY SourceRead DEF IsOption
  <1>3. e.fields # <<>> => IsOption(JsonFields(e), <<FieldsMember(e)>>)
    BY FieldsPart DEF IsOption
  <1> QED
    BY <1>1, <1>2, <1>3, NoOption

Regroups(s, u, v) == (s \o u) \o v = s \o (u \o v)

LEMMA Regrouped ==
  ASSUME NEW S, NEW s \in Seq(S), NEW u \in Seq(S), NEW v \in Seq(S)
  PROVE  Regroups(s, u, v)
  BY ConcatAssociative DEF Regroups

MembersJoin(a, b, c, d, x, y, z) ==
  <<a>> \o (<<b>> \o (<<c>> \o (<<d>> \o (x \o (y \o (z \o <<>>)))))) = ((<<a, b, c, d>> \o x) \o y) \o z

LEMMA JoinMembers ==
  ASSUME NEW S, NEW a \in S, NEW b \in S, NEW c \in S, NEW d \in S,
         NEW x \in Seq(S), NEW y \in Seq(S), NEW z \in Seq(S)
  PROVE  MembersJoin(a, b, c, d, x, y, z)
  <1>1. PICK u1 \in Seq(S), u2 \in Seq(S), u3 \in Seq(S), u4 \in Seq(S) :
           u1 = <<d>> /\ u2 = <<c, d>> /\ u3 = <<b, c, d>> /\ u4 = <<a, b, c, d>>
    <2>1. <<d>> \in Seq(S) /\ <<c, d>> \in Seq(S)
      OBVIOUS
    <2>2. <<b, c, d>> \in Seq(S) /\ <<a, b, c, d>> \in Seq(S)
      OBVIOUS
    <2> QED
      BY <2>1, <2>2, Zenon
  <1>2. <<a>> \in Seq(S) /\ <<b>> \in Seq(S) /\ <<c>> \in Seq(S)
    OBVIOUS
  <1>3. <<c>> \o u1 = u2
    <2>1. Len(u2) = Len(u1) + 1 /\ u2[1] = c /\ \A i \in 1..Len(u1) : u2[i + 1] = u1[i]
      BY <1>1
    <2> QED
      BY <2>1, PushedFront
  <1>4. <<b>> \o u2 = u3
    <2>1. Len(u3) = Len(u2) + 1 /\ u3[1] = b /\ \A i \in 1..Len(u2) : u3[i + 1] = u2[i]
      BY <1>1
    <2> QED
      BY <2>1, PushedFront
  <1>5. <<a>> \o u3 = u4
    <2>1. Len(u4) = Len(u3) + 1 /\ u4[1] = a /\ \A i \in 1..Len(u3) : u4[i + 1] = u3[i]
      BY <1>1
    <2> QED
      BY <2>1, PushedFront
  <1>6. z \o <<>> = z
    BY ConcatEmptySeq
  <1>7. PICK p \in Seq(S), q \in Seq(S) : p = y \o z /\ q = x \o p
    <2>1. y \o z \in Seq(S)
      BY ConcatProperties
    <2>2. x \o (y \o z) \in Seq(S)
      BY <2>1, ConcatProperties
    <2> QED
      BY <2>1, <2>2
  <1>8. <<c>> \o (u1 \o q) = u2 \o q
    <2>1. PICK s \in Seq(S) : s = <<c>>
      BY <1>2
    <2>2. (s \o u1) \o q = s \o (u1 \o q)
      <3>1. Regroups(s, u1, q)
        BY Regrouped
      <3> QED
        BY <3>1 DEF Regroups
    <2> QED
      BY <1>3, <2>1, <2>2
  <1>9. <<b>> \o (u2 \o q) = u3 \o q
    <2>1. PICK s \in Seq(S) : s = <<b>>
      BY <1>2
    <2>2. (s \o u2) \o q = s \o (u2 \o q)
      <3>1. Regroups(s, u2, q)
        BY Regrouped
      <3> QED
        BY <3>1 DEF Regroups
    <2> QED
      BY <1>4, <2>1, <2>2
  <1>10. <<a>> \o (u3 \o q) = u4 \o q
    <2>1. PICK s \in Seq(S) : s = <<a>>
      BY <1>2
    <2>2. (s \o u3) \o q = s \o (u3 \o q)
      <3>1. Regroups(s, u3, q)
        BY Regrouped
      <3> QED
        BY <3>1 DEF Regroups
    <2> QED
      BY <1>5, <2>1, <2>2
  <1>11. u4 \o q = (u4 \o x) \o p
    <2>1. (u4 \o x) \o p = u4 \o (x \o p)
      <3>1. Regroups(u4, x, p)
        BY Regrouped
      <3> QED
        BY <3>1 DEF Regroups
    <2> QED
      BY <1>7, <2>1
  <1>12. (u4 \o x) \o p = ((u4 \o x) \o y) \o z
    <2>1. PICK v \in Seq(S) : v = u4 \o x
      BY ConcatProperties
    <2>2. (v \o y) \o z = v \o (y \o z)
      <3>1. Regroups(v, y, z)
        BY Regrouped
      <3> QED
        BY <3>1 DEF Regroups
    <2> QED
      BY <1>7, <2>1, <2>2
  <1> QED
    BY <1>1, <1>6, <1>7, <1>8, <1>9, <1>10, <1>11, <1>12 DEF MembersJoin

\* What JsonRenderer writes is one line that reads back as exactly the object for the event.
LEMMA JsonReads ==
  ASSUME NEW e \in Event, NEW r \in JsonRenderers, NEW t, t = JsonRender(r, e)
  PROVE  Parsed(t)[<<"value", 1>>] = [next |-> Len(t), value |-> <<"object", ObjectFor(r, e)>>]
  <1>1. /\ e.time \in Text /\ e.severity \in Text /\ e.endpoint \in Text /\ e.message \in Text
        /\ "time" \in MemberNames /\ "level" \in MemberNames /\ "endpoint" \in MemberNames /\ "message" \in MemberNames
    BY DEF Event, MemberNames
  <1>2. PICK b \in Text, c \in Text, a1 \in Text, a2 \in Text, a3 \in Text, a4 \in Text, z \in Text :
          /\ b = <<LBRACE>> /\ c = <<COMMA>> /\ z = <<RBRACE, NL>>
          /\ a1 = Member("time", json_escape(e.time)) /\ a2 = Member("level", json_escape(e.severity))
          /\ a3 = Member("endpoint", json_escape(e.endpoint)) /\ a4 = Member("message", json_escape(e.message))
    <2>1. /\ json_escape(e.time) \in Text /\ json_escape(e.severity) \in Text
          /\ json_escape(e.endpoint) \in Text /\ json_escape(e.message) \in Text
      BY <1>1, EscapesText
    <2>2. Member("time", json_escape(e.time)) \in Text /\ Member("level", json_escape(e.severity)) \in Text
      BY <1>1, <2>1, MemberText
    <2>3. Member("endpoint", json_escape(e.endpoint)) \in Text /\ Member("message", json_escape(e.message)) \in Text
      BY <1>1, <2>1, MemberText
    <2>4. <<RBRACE, NL>> \in Text
      BY Marks, Pairs
    <2> QED
      BY <2>2, <2>3, <2>4, Marks, Zenon
  <1>3. PICK o1, o2, o3, m5, m6, m7 :
          /\ o1 = (IF r.include_thread THEN <<COMMA>> \o Member("tid", e.tid) ELSE <<>>)
          /\ o2 = (IF r.include_source THEN JsonSource(e) ELSE <<>>)
          /\ o3 = (IF r.include_fields /\ e.fields # <<>> THEN JsonFields(e) ELSE <<>>)
          /\ m5 = (IF r.include_thread THEN <<TidMember(e)>> ELSE <<>>)
          /\ m6 = (IF r.include_source THEN <<SourceMember(e)>> ELSE <<>>)
          /\ m7 = (IF r.include_fields /\ e.fields # <<>> THEN <<FieldsMember(e)>> ELSE <<>>)
    OBVIOUS
  <1>4. IsOption(o1, m5) /\ IsOption(o2, m6) /\ IsOption(o3, m7)
    BY <1>3, Options
  <1>5. o1 \in Text /\ o2 \in Text /\ o3 \in Text
    BY <1>4 DEF IsOption
  <1>6. PICK w1 \in Text : w1 = b \o a1
    BY Concat
  <1>7. PICK w2 \in Text : w2 = w1 \o c
    BY Concat
  <1>8. PICK w3 \in Text : w3 = w2 \o a2
    BY Concat
  <1>9. PICK w4 \in Text : w4 = w3 \o c
    BY Concat
  <1>10. PICK w5 \in Text : w5 = w4 \o a3
    BY Concat
  <1>11. PICK w6 \in Text : w6 = w5 \o c
    BY Concat
  <1>12. PICK w7 \in Text : w7 = w6 \o a4
    BY Concat
  <1>13. PICK w8 \in Text : w8 = w7 \o o1
    BY <1>5, Concat
  <1>14. PICK w9 \in Text : w9 = w8 \o o2
    BY <1>5, Concat
  <1>15. PICK w10 \in Text : w10 = w9 \o o3
    BY <1>5, Concat
  <1>16. PICK w11 \in Text : w11 = w10 \o z
    BY Concat
  <1>17. t = w11
    BY <1>2, <1>3, <1>6, <1>7, <1>8, <1>9, <1>10, <1>11, <1>12, <1>13, <1>14, <1>15, <1>16, Zenon DEF JsonRender
  <1>18. t \in Text /\ Len(t) \in Nat
    BY <1>17, TextIs
  <1>19. PICK n \in Nat : n = Len(t) + 1
    BY <1>18
  <1>20. Stands(t, 1, w11, n)
    BY <1>17, <1>18, <1>19, StandsAll
  <1>21. PICK q11 \in Nat : Stands(t, 1, w10, q11) /\ Stands(t, q11, z, n)
    BY <1>16, <1>18, <1>20, StandsSplit
  <1>22. PICK q10 \in Nat : Stands(t, 1, w9, q10) /\ Stands(t, q10, o3, q11)
    BY <1>5, <1>15, <1>18, <1>21, StandsSplit
  <1>23. PICK q9 \in Nat : Stands(t, 1, w8, q9) /\ Stands(t, q9, o2, q10)
    BY <1>5, <1>14, <1>18, <1>22, StandsSplit
  <1>24. PICK q8 \in Nat : Stands(t, 1, w7, q8) /\ Stands(t, q8, o1, q9)
    BY <1>5, <1>13, <1>18, <1>23, StandsSplit
  <1>25. PICK q7 \in Nat : Stands(t, 1, w6, q7) /\ Stands(t, q7, a4, q8)
    BY <1>12, <1>18, <1>24, StandsSplit
  <1>26. PICK q6 \in Nat : Stands(t, 1, w5, q6) /\ Stands(t, q6, c, q7)
    BY <1>11, <1>18, <1>25, StandsSplit
  <1>27. PICK q5 \in Nat : Stands(t, 1, w4, q5) /\ Stands(t, q5, a3, q6)
    BY <1>10, <1>18, <1>26, StandsSplit
  <1>28. PICK q4 \in Nat : Stands(t, 1, w3, q4) /\ Stands(t, q4, c, q5)
    BY <1>9, <1>18, <1>27, StandsSplit
  <1>29. PICK q3 \in Nat : Stands(t, 1, w2, q3) /\ Stands(t, q3, a2, q4)
    BY <1>8, <1>18, <1>28, StandsSplit
  <1>30. PICK q2 \in Nat : Stands(t, 1, w1, q2) /\ Stands(t, q2, c, q3)
    BY <1>7, <1>18, <1>29, StandsSplit
  <1>31. PICK q1 \in Nat : Stands(t, 1, b, q1) /\ Stands(t, q1, a1, q2)
    BY <1>6, <1>18, <1>30, StandsSplit
  <1>32. MemberAt(t, q1, q2, <<"time">>, <<"string", e.time>>)
    BY <1>1, <1>2, <1>18, <1>31, StringMember
  <1>33. MemberAt(t, q3, q4, <<"level">>, <<"string", e.severity>>)
    BY <1>1, <1>2, <1>18, <1>29, StringMember
  <1>34. MemberAt(t, q5, q6, <<"endpoint">>, <<"string", e.endpoint>>)
    BY <1>1, <1>2, <1>18, <1>27, StringMember
  <1>35. MemberAt(t, q7, q8, <<"message">>, <<"string", e.message>>)
    BY <1>1, <1>2, <1>18, <1>25, StringMember
  <1>36. PICK m1, m2, m3, m4 :
           /\ m1 = << <<"time">>, <<"string", e.time>> >> /\ m2 = << <<"level">>, <<"string", e.severity>> >>
           /\ m3 = << <<"endpoint">>, <<"string", e.endpoint>> >> /\ m4 = << <<"message">>, <<"string", e.message>> >>
    OBVIOUS
  <1>37. PICK S : S = {m1, m2, m3, m4, TidMember(e), SourceMember(e), FieldsMember(e)}
    OBVIOUS
  <1>38. m5 \in Seq(S) /\ m6 \in Seq(S) /\ m7 \in Seq(S)
    <2>1. TidMember(e) \in S /\ SourceMember(e) \in S /\ FieldsMember(e) \in S
      BY <1>37
    <2>2. <<TidMember(e)>> \in Seq(S) /\ <<SourceMember(e)>> \in Seq(S) /\ <<FieldsMember(e)>> \in Seq(S)
      BY <2>1, OneOf
    <2> QED
      BY <1>3, <2>2, EmptySeq, Zenon
  <1>39. PICK x0 \in Seq(S) : x0 = <<>>
    BY EmptySeq
  <1>40. PICK x1 \in Seq(S) : x1 = m7 \o x0
    BY <1>38, ConcatProperties
  <1>41. PICK x2 \in Seq(S) : x2 = m6 \o x1
    BY <1>38, ConcatProperties
  <1>42. PICK x3 \in Seq(S) : x3 = m5 \o x2
    BY <1>38, ConcatProperties
  <1>43. RestAt(t, q11, Len(t), x0) /\ q11 + 1 = Len(t)
    <2>1. q11 \in Nat /\ 1 <= q11 /\ n = q11 + 2 /\ t[q11] = RBRACE
      BY <1>2, <1>18, <1>21, Marks, StandsTwo
    <2>2. q11 \in 1..Len(t) /\ Len(t) = q11 + 1
      BY <1>18, <1>19, <2>1
    <2> QED
      BY <1>39, <2>1, <2>2 DEF RestAt
  <1>44. RestAt(t, q10, Len(t), x1)
    BY <1>4, <1>18, <1>22, <1>40, <1>43 DEF IsOption
  <1>45. RestAt(t, q9, Len(t), x2)
    BY <1>4, <1>18, <1>23, <1>41, <1>44 DEF IsOption
  <1>46. RestAt(t, q8, Len(t), x3)
    BY <1>4, <1>18, <1>24, <1>42, <1>45 DEF IsOption
  <1>47. RestAt(t, q6, Len(t), <<m4>> \o x3)
    BY <1>2, <1>18, <1>26, <1>35, <1>36, <1>46, RestMember
  <1>48. RestAt(t, q4, Len(t), <<m3>> \o (<<m4>> \o x3))
    <2>1. PICK y : y = <<m4>> \o x3
      OBVIOUS
    <2>2. RestAt(t, q4, Len(t), << << <<"endpoint">>, <<"string", e.endpoint>> >> >> \o y)
      BY <1>2, <1>18, <1>28, <1>34, <1>47, <2>1, RestMember
    <2> QED
      BY <1>36, <2>1, <2>2
  <1>49. RestAt(t, q2, Len(t), <<m2>> \o (<<m3>> \o (<<m4>> \o x3)))
    <2>1. PICK y : y = <<m3>> \o (<<m4>> \o x3)
      OBVIOUS
    <2>2. RestAt(t, q2, Len(t), << << <<"level">>, <<"string", e.severity>> >> >> \o y)
      BY <1>2, <1>18, <1>30, <1>33, <1>48, <2>1, RestMember
    <2> QED
      BY <1>36, <2>1, <2>2
  <1>50. MembersAt(t, q1, Len(t), <<m1>> \o (<<m2>> \o (<<m3>> \o (<<m4>> \o x3))))
    <2>1. PICK y : y = <<m2>> \o (<<m3>> \o (<<m4>> \o x3))
      OBVIOUS
    <2>2. MembersAt(t, q1, Len(t), << << <<"time">>, <<"string", e.time>> >> >> \o y)
      BY <1>18, <1>32, <1>49, <2>1, MembersRead
    <2> QED
      BY <1>36, <2>1, <2>2
  <1>51. <<m1>> \o (<<m2>> \o (<<m3>> \o (<<m4>> \o x3))) = ((<<m1, m2, m3, m4>> \o m5) \o m6) \o m7
    <2>1. m1 \in S /\ m2 \in S /\ m3 \in S /\ m4 \in S
      BY <1>37
    <2>2. MembersJoin(m1, m2, m3, m4, m5, m6, m7)
      BY <1>38, <2>1, JoinMembers
    <2> QED
      BY <1>39, <1>40, <1>41, <1>42, <2>2 DEF MembersJoin
  <1>52. ObjectFor(r, e) = ((<<m1, m2, m3, m4>> \o m5) \o m6) \o m7
    BY <1>3, <1>36, Zenon DEF ObjectFor, TidMember, SourceMember, FieldsMember, FieldMember, Meaning
  <1>53. MembersAt(t, q1, Len(t), ObjectFor(r, e))
    BY <1>50, <1>51, <1>52
  <1>54. 1 \in 1..Len(t) /\ t[1] = LBRACE /\ q1 = 1 + 1
    BY <1>2, <1>18, <1>31, Marks, StandsOne
  <1>55. ValueAt(t, 1, Len(t), <<"object", ObjectFor(r, e)>>)
    BY <1>18, <1>53, <1>54, ObjectValue
  <1> QED
    BY <1>55 DEF ValueAt

\* JsonRenderer for every event: whatever its texts contain, the line parses as an object with
\* exactly the members asked for, decoded to exactly the event's texts, and a double that JSON
\* cannot express spoils no more than its own value.
THEOREM JsonSafety == Spec => []JsonRoundTrip
  <1>1. RenderInv => JsonRoundTrip
    <2> SUFFICES ASSUME RenderInv, Rendered("json")
                 PROVE  Parsed(buffer)[<<"value", 1>>]
                        = [next |-> Len(buffer), value |-> <<"object", ObjectFor(renderer, ev)>>]
      BY DEF JsonRoundTrip
    <2>1. PICK r \in Renderer, e \in Event : renderer = r /\ ev = e /\ EventOk(e) /\ buffer = Render(e) /\ r.kind = "json"
      BY RenderedIs
    <2>2. r \in JsonRenderers
      BY <2>1 DEF Renderer, PatternRenderers, JsonRenderers
    <2>4. PICK t : t = buffer /\ t = JsonRender(r, e)
      BY <2>1 DEF Render
    <2>5. Parsed(t)[<<"value", 1>>] = [next |-> Len(t), value |-> <<"object", ObjectFor(r, e)>>]
      BY <2>1, <2>2, <2>4, JsonReads
    <2> QED
      BY <2>1, <2>4, <2>5
  <1> QED
    BY <1>1, RenderInvariant, PTL
=============================================================================
