----------------------- MODULE RotatingFileSinkProofs -----------------------
(***************************************************************************)
(* Machine-checked theorems about RotatingFileSink, for any rotation modes,*)
(* numbers of archives, limits and record sizes, and any number of writes, *)
(* midnights, crashes and failures.                                        *)
(***************************************************************************)
EXTENDS RotatingFileSink, TLAPS, SequenceTheorems, WellFoundedInduction

-----------------------------------------------------------------------------
(* Induction over the natural numbers, with the predicate as a set: the    *)
(* library's form has an operator as parameter, but WFMin has not.         *)

LEMMA LeastNat ==
  ASSUME NEW T, T \subseteq Nat, T # {}
  PROVE  \E m \in T : \A k \in T : m <= k
  <1> DEFINE R == {ss \in Nat \X Nat : ss[1] < ss[2]}
  <1>1. IsWellFoundedOn(R, Nat)
    BY NatLessThanWellFounded, Zenon DEF OpToRel
  <1>2. \A x, y \in Nat : x < y => <<x, y>> \in R
    OBVIOUS
  <1>3. PICK m \in T : \A k \in T : ~ (<<k, m>> \in R)
    BY <1>1, WFMin, Zenon
  <1> HIDE DEF R
  <1>4. ASSUME NEW k \in T PROVE m <= k
    <2>1. m \in Nat /\ k \in Nat
      BY Zenon
    <2>2. ~ (k < m)
      BY <1>2, <1>3, <2>1, Zenon
    <2> QED
      BY <2>1, <2>2
  <1> QED
    BY <1>4

LEMMA InductionOnSets ==
  ASSUME NEW S, 0 \in S, \A m \in Nat : m \in S => m + 1 \in S
  PROVE  Nat \subseteq S
  <1> SUFFICES ASSUME Nat \ S # {} PROVE FALSE
    OBVIOUS
  <1>1. PICK m \in Nat \ S : \A k \in Nat \ S : m <= k
    BY LeastNat
  <1>2. m - 1 \in Nat /\ m - 1 \notin S
    BY <1>1
  <1> QED
    BY <1>1, <1>2

-----------------------------------------------------------------------------
(* The size of a file.                                                     *)

\* f is the recursive function that Bytes(s) is defined with, up to k.
IsSum(f, s, k) == f = [j \in 0..k |-> IF j = 0 THEN 0 ELSE f[j - 1] + s[j].size]

LEMMA SumExists ==
  ASSUME NEW s
  PROVE  \A k \in Nat : \E f : IsSum(f, s, k)
  <1> DEFINE S == {k \in Nat : \E f : IsSum(f, s, k)}
  <1>1. 0 \in S
    <2>1. IsSum([j \in 0..0 |-> 0], s, 0)
      BY DEF IsSum
    <2> QED
      BY <2>1
  <1>2. ASSUME NEW k \in Nat, k \in S PROVE k + 1 \in S
    <2>1. PICK f : IsSum(f, s, k)
      BY <1>2
    <2> DEFINE g == [j \in 0..(k + 1) |-> IF j = k + 1 THEN f[k] + s[k + 1].size ELSE f[j]]
    <2>2. IsSum(g, s, k + 1)
      BY <2>1 DEF IsSum
    <2> QED
      BY <2>2
  <1> HIDE DEF S
  <1>3. Nat \subseteq S
    BY <1>1, <1>2, InductionOnSets
  <1> QED
    BY <1>3 DEF S

LEMMA BytesIsSum ==
  ASSUME NEW s, Len(s) \in Nat
  PROVE  \E f : IsSum(f, s, Len(s)) /\ Bytes(s) = f[Len(s)]
  <1> DEFINE f == CHOOSE f : IsSum(f, s, Len(s))
  <1>1. IsSum(f, s, Len(s))
    BY SumExists
  <1>2. Bytes(s) = f[Len(s)]
    BY DEF Bytes, IsSum
  <1> QED
    BY <1>1, <1>2

\* The first k records of s and t have the same sizes.
SameSizes(s, t, k) == \A j \in 1..k : s[j].size = t[j].size

\* The sums of two sequences agree as far as the sequences do.
LEMMA SumsAgree ==
  ASSUME NEW s, NEW t, NEW k \in Nat, NEW m \in Nat, k <= m,
         NEW f, NEW g, IsSum(f, s, k), IsSum(g, t, m),
         SameSizes(s, t, k)
  PROVE  \A j \in 0..k : f[j] = g[j]
  <1> DEFINE S == {j \in Nat : j <= k => f[j] = g[j]}
  <1>1. 0 \in S
    BY DEF IsSum
  <1>2. ASSUME NEW j \in Nat, j \in S PROVE j + 1 \in S
    <2> SUFFICES ASSUME j + 1 <= k PROVE f[j + 1] = g[j + 1]
      OBVIOUS
    <2>1. f[j + 1] = f[j] + s[j + 1].size
      BY DEF IsSum
    <2>2. g[j + 1] = g[j] + t[j + 1].size
      BY SMTT(20) DEF IsSum
    <2> QED
      BY <1>2, <2>1, <2>2 DEF SameSizes
  <1> HIDE DEF S
  <1>3. Nat \subseteq S
    BY <1>1, <1>2, InductionOnSets
  <1> QED
    BY <1>3 DEF S

LEMMA SizeNat ==
  ASSUME NEW r \in Record
  PROVE  r.size \in Nat /\ r.id \in 1..MaxWrites /\ r.day \in 0..MaxDays
  BY SinkAssumption DEF Record

\* Partial sums are numbers that do not decrease.
LEMMA SumsGrow ==
  ASSUME NEW s \in Seq(Record), NEW f, IsSum(f, s, Len(s))
  PROVE  /\ \A j \in 0..Len(s) : f[j] \in Nat
         /\ \A k \in 0..Len(s) : f[k] <= f[Len(s)]
  <1>0. Len(s) \in Nat /\ \A j \in 1..Len(s) : s[j].size \in Nat
    BY SizeNat
  <1> DEFINE S == {j \in Nat : j <= Len(s) => \A k \in 0..j : f[k] \in Nat /\ f[k] <= f[j]}
  <1>1. 0 \in S
    BY <1>0 DEF IsSum
  <1>2. ASSUME NEW j \in Nat, j \in S PROVE j + 1 \in S
    <2> SUFFICES ASSUME j + 1 <= Len(s)
                 PROVE  \A k \in 0..(j + 1) : f[k] \in Nat /\ f[k] <= f[j + 1]
      OBVIOUS
    <2>1. f[j + 1] = f[j] + s[j + 1].size
      BY <1>0 DEF IsSum
    <2>2. \A k \in 0..j : f[k] \in Nat /\ f[k] <= f[j]
      BY <1>0, <1>2
    <2>3. s[j + 1].size \in Nat
      BY <1>0
    <2>4. f[j + 1] \in Nat /\ f[j] <= f[j + 1]
      BY <2>1, <2>2, <2>3
    <2> QED
      BY <2>2, <2>4
  <1> HIDE DEF S
  <1>3. Nat \subseteq S
    BY <1>1, <1>2, InductionOnSets
  <1> QED
    BY <1>0, <1>3 DEF S

LEMMA BytesNat ==
  ASSUME NEW s \in Seq(Record)
  PROVE  Bytes(s) \in Nat
  BY BytesIsSum, SumsGrow

LEMMA BytesEmpty == Bytes(<<>>) = 0
  BY BytesIsSum DEF IsSum

\* The bytes of a beginning of t are a partial sum of t.
LEMMA BytesPartial ==
  ASSUME NEW s, NEW t, Len(s) \in Nat, Len(t) \in Nat, Len(s) <= Len(t),
         SameSizes(s, t, Len(s))
  PROVE  \E g : /\ IsSum(g, t, Len(t))
               /\ Bytes(t) = g[Len(t)] /\ Bytes(s) = g[Len(s)]
  <1>1. PICK f : IsSum(f, s, Len(s)) /\ Bytes(s) = f[Len(s)]
    BY BytesIsSum
  <1>2. PICK g : IsSum(g, t, Len(t)) /\ Bytes(t) = g[Len(t)]
    BY BytesIsSum
  <1>3. \A j \in 0..Len(s) : f[j] = g[j]
    BY <1>1, <1>2, SumsAgree
  <1>4. f[Len(s)] = g[Len(s)]
    BY <1>3
  <1> QED
    BY <1>1, <1>2, <1>4

LEMMA BytesAppend ==
  ASSUME NEW s \in Seq(Record), NEW r \in Record
  PROVE  Bytes(Append(s, r)) = Bytes(s) + r.size
  <1> DEFINE t == Append(s, r)
  <1>1. /\ Len(s) \in Nat /\ Len(t) \in Nat /\ Len(t) = Len(s) + 1 /\ t[Len(s) + 1] = r
        /\ SameSizes(s, t, Len(s))
    BY DEF SameSizes
  <1> HIDE DEF t
  <1>2. Len(s) <= Len(t)
    BY <1>1
  <1>3. PICK g : IsSum(g, t, Len(t)) /\ Bytes(t) = g[Len(t)] /\ Bytes(s) = g[Len(s)]
    BY <1>1, <1>2, BytesPartial
  <1>4. g[Len(t)] = g[Len(s)] + r.size
    BY <1>1, <1>3 DEF IsSum
  <1> QED
    BY <1>3, <1>4 DEF t

\* s is a beginning of t.
IsPrefixOf(s, t) == Len(s) <= Len(t) /\ \A j \in 1..Len(s) : s[j] = t[j]

LEMMA BytesPrefix ==
  ASSUME NEW s \in Seq(Record), NEW t \in Seq(Record), IsPrefixOf(s, t)
  PROVE  Bytes(s) <= Bytes(t)
  <1>1. /\ Len(s) \in Nat /\ Len(t) \in Nat /\ Len(s) <= Len(t)
        /\ SameSizes(s, t, Len(s))
    BY DEF IsPrefixOf, SameSizes
  <1>2. PICK g : IsSum(g, t, Len(t)) /\ Bytes(t) = g[Len(t)] /\ Bytes(s) = g[Len(s)]
    BY <1>1, BytesPartial
  <1> QED
    BY <1>1, <1>2, SumsGrow

-----------------------------------------------------------------------------
(* The inductive invariant.                                                *)

\* rotate_files shifts archives that keep allows.
LoopIndex == i \in Int /\ (pc = "shift" => i \in 0..(keep - 1))

\* The stream at each point of a call. Only a usable stream buffers anything.
Streams ==
  /\ ~is_open \/ ~good => buffer = <<>>
  /\ pc = "rotate?" => is_open /\ good
  /\ pc \in {"down", "open", "shift", "truncate"} => ~is_open
  /\ pc = "put" => (is_open <=> good)
  /\ failures = 0 /\ pc \in {"idle", "open", "rotate?", "put"} => is_open /\ good

\* The records whose write() has been decided.
Decided == IF InFlight THEN 1..(n - 1) ELSE 1..n

\* The call in progress is the latest, and only earlier records are stored.
Known ==
  /\ InFlight => rec.id = n /\ n >= 1
  /\ rec.day \in 0..today
  /\ \A j \in DOMAIN files : Ids(files[j]) \subseteq Decided
  /\ Ids(buffer) \subseteq Decided
  /\ crashes \in Nat /\ failures \in Nat

SinkInv == TypeOK /\ LoopIndex /\ Streams /\ Known

-----------------------------------------------------------------------------
(* Files.                                                                  *)

LEMMA ContentSeq ==
  ASSUME TypeOK, NEW j
  PROVE  Content(j) \in Seq(Record)
  BY EmptySeq DEF TypeOK, Content

LEMMA IdsConcat ==
  ASSUME NEW s \in Seq(Record), NEW t \in Seq(Record)
  PROVE  Ids(s \o t) = Ids(s) \cup Ids(t)
  <1>1. \A j \in DOMAIN s : j \in DOMAIN (s \o t) /\ (s \o t)[j] = s[j]
    BY ConcatProperties
  <1>2. \A j \in DOMAIN t : Len(s) + j \in DOMAIN (s \o t) /\ (s \o t)[Len(s) + j] = t[j]
    BY ConcatProperties
  <1>3. ASSUME NEW j \in DOMAIN (s \o t)
        PROVE  \/ j \in DOMAIN s /\ (s \o t)[j] = s[j]
               \/ j - Len(s) \in DOMAIN t /\ (s \o t)[j] = t[j - Len(s)]
    BY ConcatProperties
  <1> DEFINE u == s \o t
  <1> HIDE DEF u
  <1>4. ASSUME NEW x \in Ids(u) PROVE x \in Ids(s) \cup Ids(t)
    <2>1. PICK j \in DOMAIN u : x = u[j].id
      BY DEF Ids
    <2> QED
      BY <1>3, <2>1 DEF Ids, u
  <1>5. ASSUME NEW x \in Ids(s) PROVE x \in Ids(u)
    BY <1>1 DEF Ids, u
  <1>6. ASSUME NEW x \in Ids(t) PROVE x \in Ids(u)
    <2>1. PICK j \in DOMAIN t : x = t[j].id
      BY DEF Ids
    <2>2. Len(s) + j \in DOMAIN u /\ u[Len(s) + j] = t[j]
      BY <1>2 DEF u
    <2> QED
      BY <2>1, <2>2 DEF Ids
  <1>7. Ids(u) = Ids(s) \cup Ids(t)
    BY <1>4, <1>5, <1>6
  <1> QED
    BY <1>7 DEF u

LEMMA IdsAppend ==
  ASSUME NEW s \in Seq(Record), NEW r \in Record
  PROVE  Append(s, r) \in Seq(Record) /\ Ids(Append(s, r)) = Ids(s) \cup {r.id}
  <1>1. /\ Append(s, r) \in Seq(Record) /\ Len(Append(s, r)) = Len(s) + 1
        /\ Append(s, r)[Len(s) + 1] = r
        /\ \A j \in 1..Len(s) : Append(s, r)[j] = s[j]
    OBVIOUS
  <1> QED
    BY <1>1 DEF Ids

LEMMA IdsEmpty == Ids(<<>>) = {}
  BY DEF Ids

LEMMA IdsSubSeq ==
  ASSUME NEW s \in Seq(Record), NEW j \in 0..Len(s)
  PROVE  /\ SubSeq(s, 1, j) \in Seq(Record) /\ Len(SubSeq(s, 1, j)) = j
         /\ \A k \in 1..j : SubSeq(s, 1, j)[k] = s[k]
         /\ Ids(SubSeq(s, 1, j)) \subseteq Ids(s)
         /\ Ids(SubSeq(s, j + 1, Len(s))) \subseteq Ids(s)
  <1>1. /\ SubSeq(s, 1, j) \in Seq(Record) /\ Len(SubSeq(s, 1, j)) = j
        /\ \A k \in 1..j : SubSeq(s, 1, j)[k] = s[k]
    OBVIOUS
  <1>2. /\ SubSeq(s, j + 1, Len(s)) \in Seq(Record)
        /\ Len(SubSeq(s, j + 1, Len(s))) = Len(s) - j
        /\ \A k \in 1..(Len(s) - j) : SubSeq(s, j + 1, Len(s))[k] = s[j + k]
    OBVIOUS
  <1> QED
    BY <1>1, <1>2 DEF Ids

\* What handing s over does: some beginning of s is appended to the active file,
\* all of it unless the operation fails.
Appends(s, t) ==
  /\ t \in Seq(Record) /\ IsPrefixOf(t, s) /\ Ids(t) \subseteq Ids(s)
  /\ files' = With(files, 0, Content(0) \o t)
  /\ lost \subseteq lost' /\ lost' \subseteq lost \cup Ids(s)
  /\ \/ t = s /\ UNCHANGED <<lost, failures>>
     \/ failures' = failures + 1

LEMMA HandsOver ==
  ASSUME TypeOK, NEW s \in Seq(Record), HandOver(s) \/ HandOverFails(s)
  PROVE  \E t : Appends(s, t)
  <1>1. CASE HandOver(s)
    <2>1. Appends(s, s)
      BY <1>1 DEF HandOver, Appends, IsPrefixOf
    <2> QED
      BY <2>1
  <1>2. CASE HandOverFails(s)
    <2>1. PICK j \in 0..Len(s) :
            /\ files' = With(files, 0, Content(0) \o SubSeq(s, 1, j))
            /\ lost' = lost \cup Ids(SubSeq(s, j + 1, Len(s)))
      BY <1>2 DEF HandOverFails
    <2>2. Appends(s, SubSeq(s, 1, j))
      BY <1>2, <2>1, IdsSubSeq DEF HandOverFails, Fail, Appends, IsPrefixOf
    <2> QED
      BY <2>2
  <1> QED
    BY <1>1, <1>2

\* A file written as path 0.
LEMMA WithFiles ==
  ASSUME TypeOK, NEW s \in Seq(Record), files' = With(files, 0, s)
  PROVE  /\ DOMAIN files' = DOMAIN files \cup {0}
         /\ files'[0] = s
         /\ \A j \in DOMAIN files' : j # 0 => files'[j] = files[j]
         /\ \A j \in DOMAIN files' : j = 0 \/ j \in 1..keep
         /\ \A j \in DOMAIN files' : files'[j] \in Seq(Record)
  BY DEF TypeOK, With

\* A rename moves one file or does nothing.
Moves(from, to) ==
  /\ from \in DOMAIN files
  /\ DOMAIN files' = (DOMAIN files \ {from}) \cup {to}
  /\ files'[to] = files[from]
  /\ \A j \in DOMAIN files' : j # to => files'[j] = files[j]
  /\ UNCHANGED failures

LEMMA Renames ==
  ASSUME NEW from, NEW to, Rename(from, to)
  PROVE  \/ Moves(from, to)
         \/ UNCHANGED files /\ failures' = failures + 1
         \/ from \notin DOMAIN files /\ UNCHANGED <<files, failures>>
  BY DEF Rename, Fail, Moves

\* What stays true of the files: the names are allowed, the records typed and known.
FilesOK ==
  /\ \A j \in DOMAIN files : j = 0 \/ j \in 1..keep
  /\ \A j \in DOMAIN files : files[j] \in Seq(Record)
  /\ \A j \in DOMAIN files : Ids(files[j]) \subseteq Decided

LEMMA FilesAreOK ==
  ASSUME SinkInv
  PROVE  FilesOK /\ Content(0) \in Seq(Record) /\ Ids(Content(0)) \subseteq Decided
         /\ keep \in Int
  BY ContentSeq, IdsEmpty, SinkAssumption DEF SinkInv, TypeOK, Known, FilesOK, Content

LEMMA AppendsOK ==
  ASSUME SinkInv, NEW s \in Seq(Record), NEW t, Appends(s, t),
         Ids(s) \subseteq Decided', Decided \subseteq Decided', UNCHANGED keep
  PROVE  FilesOK'
  <1>1. /\ Content(0) \o t \in Seq(Record)
        /\ Ids(Content(0) \o t) = Ids(Content(0)) \cup Ids(t)
    BY FilesAreOK, IdsConcat, ConcatProperties DEF Appends
  <1>2. Ids(Content(0) \o t) \subseteq Decided'
    BY <1>1, FilesAreOK DEF Appends
  <1> QED
    BY <1>1, <1>2, WithFiles, FilesAreOK DEF Appends, FilesOK, SinkInv

LEMMA OpensOK ==
  ASSUME SinkInv, open_if_needed, Decided \subseteq Decided'
  PROVE  /\ FilesOK' /\ UNCHANGED <<mode, keep>>
         /\ opened_day' \in 0..today /\ current_size' \in Nat /\ unseen' \in Nat
         /\ is_open' \in BOOLEAN /\ good' \in BOOLEAN
         /\ failures' \in Nat /\ (is_open' <=> good')
         /\ failures' = 0 => is_open' /\ good'
  <1>1. PICK opens \in BOOLEAN, measured \in BOOLEAN :
          /\ IF opens /\ measured THEN UNCHANGED failures ELSE Fail
          /\ files' = IF opens THEN With(files, 0, Content(0)) ELSE files
          /\ is_open' = opens /\ good' = opens
          /\ current_size' = file_size_or_zero(measured)
          /\ unseen' = IF measured THEN 0 ELSE Bytes(Content(0))
    BY Zenon DEF open_if_needed
  <1>2. opened_day' \in 0..today /\ UNCHANGED <<mode, keep>>
    BY DEF open_if_needed, SinkInv, TypeOK
  <1>3. FilesOK'
    <2>1. CASE opens
      BY <1>1, <1>2, <2>1, FilesAreOK, WithFiles DEF SinkInv, FilesOK
    <2>2. CASE ~opens
      BY <1>1, <1>2, <2>2, FilesAreOK DEF FilesOK
    <2> QED
      BY <2>1, <2>2
  <1>4. current_size' \in Nat /\ unseen' \in Nat
    BY <1>1, FilesAreOK, BytesNat DEF file_size_or_zero
  <1>5. failures' \in Nat /\ (failures' = 0 => opens)
    <2>1. failures \in Nat
      BY DEF SinkInv, Known
    <2> QED
      BY <1>1, <2>1 DEF Fail
  <1> QED
    BY <1>1, <1>2, <1>3, <1>4, <1>5

LEMMA MovesOK ==
  ASSUME SinkInv, NEW from \in 0..(keep - 1), Rename(from, from + 1),
         Decided \subseteq Decided', UNCHANGED keep
  PROVE  FilesOK' /\ failures' \in Nat /\ (failures' = 0 => failures = 0)
  <1>1. CASE Moves(from, from + 1)
    BY <1>1, FilesAreOK DEF Moves, FilesOK, SinkInv, Known
  <1>2. CASE UNCHANGED files /\ (failures' = failures + 1 \/ UNCHANGED failures)
    <2>1. FilesOK'
      BY <1>2, FilesAreOK DEF FilesOK
    <2>2. failures \in Nat
      BY DEF SinkInv, Known
    <2> QED
      BY <1>2, <2>1, <2>2
  <1> QED
    BY <1>1, <1>2, Renames

LEMMA RestOfInv ==
  ASSUME FilesOK'
  PROVE  /\ \A j \in DOMAIN files' : j = 0 \/ j \in 1..keep'
         /\ \A j \in DOMAIN files' : files'[j] \in Seq(Record)
         /\ \A j \in DOMAIN files' : Ids(files'[j]) \subseteq Decided'
  BY DEF FilesOK

LEMMA FilesUntouched ==
  ASSUME SinkInv, UNCHANGED <<files, keep>>, Decided \subseteq Decided'
  PROVE  FilesOK'
  BY FilesAreOK DEF FilesOK

-----------------------------------------------------------------------------
(* SinkInv is inductive.                                                   *)

LEMMA SinkInit == Init => SinkInv
  <1> SUFFICES ASSUME Init PROVE SinkInv
    OBVIOUS
  <1>1. rec \in Record
    BY SinkAssumption DEF Init, Record
  <1>2. DOMAIN files = {}
    BY DEF Init
  <1>3. /\ today \in 0..MaxDays /\ opened_day \in 0..today
        /\ n \in 0..MaxWrites /\ since \in 0..n /\ current_size \in Nat /\ lost \subseteq 1..n
        /\ unseen \in Nat
    BY SinkAssumption DEF Init
  <1>4. TypeOK
    BY <1>1, <1>2, <1>3, EmptySeq DEF Init, TypeOK
  <1>5. rec.day \in 0..today
    BY DEF Init
  <1> QED
    BY <1>2, <1>4, <1>5, IdsEmpty DEF Init, SinkInv, LoopIndex, Streams, Known, InFlight

LEMMA SinkStep ==
  ASSUME SinkInv, [Next]_vars
  PROVE  SinkInv'
  <1> USE DEF SinkInv
  <1>k. keep \in Int /\ n \in Nat /\ failures \in Nat /\ crashes \in Nat
    BY FilesAreOK DEF TypeOK, Known
  <1>1. CASE Construct
    <2>1. Decided' = Decided
      BY <1>1 DEF Construct, Decided, InFlight, callVars
    <2>2. FilesOK'
      BY <1>1, <2>1, OpensOK DEF Construct
    <2>3. TypeOK'
      BY <1>1, <2>2, OpensOK, <2>1, RestOfInv, EmptySeq DEF Construct, TypeOK, callVars
    <2>4. LoopIndex' /\ Streams'
      BY <1>1, <2>1, OpensOK DEF Construct, LoopIndex, Streams, callVars
    <2>5. Known'
      BY <1>1, <2>1, <2>2, OpensOK, RestOfInv, IdsEmpty DEF Construct, Known, InFlight, callVars
    <2> QED
      BY <2>3, <2>4, <2>5
  <1>2. ASSUME NEW size \in Sizes, Write(size) PROVE SinkInv'
    <2>1. Decided \subseteq Decided'
      BY <1>2, <1>k DEF Write, Decided, InFlight
    <2>2. FilesOK'
      BY <1>2, <2>1, FilesUntouched DEF Write, sinkVars
    <2>3. rec' \in Record
      BY <1>2, <1>k, SinkAssumption DEF Write, Record, TypeOK
    <2>7. n' \in 0..MaxWrites /\ since \in 0..n' /\ lost' \subseteq 1..n'
      <3>1. n' = n + 1 /\ n < MaxWrites /\ lost' \subseteq lost \cup {n + 1}
        BY <1>2 DEF Write
      <3>2. n \in 0..MaxWrites /\ since \in 0..n /\ lost \subseteq 1..n /\ MaxWrites \in Nat
        BY SinkAssumption DEF TypeOK
      <3> QED
        BY <3>1, <3>2
    <2>8. rec'.id = n' /\ rec'.day = today /\ today \in 0..today
      BY <1>2 DEF Write, TypeOK
    <2>4. TypeOK'
      BY <1>2, <2>2, <2>3, <2>7, RestOfInv DEF Write, TypeOK, sinkVars, streamVars
    <2>5. LoopIndex' /\ Streams'
      BY <1>2 DEF Write, LoopIndex, Streams, sinkVars, streamVars
    <2>6. Known'
      BY <1>2, <1>k, <2>1, <2>2, <2>8, RestOfInv DEF Write, Known, InFlight, sinkVars, streamVars
    <2> QED
      BY <2>4, <2>5, <2>6
  <1>3. CASE Reopen
    <2>1. Decided \subseteq Decided'
      BY <1>3, <1>k DEF Reopen, Decided, InFlight, callVars
    <2>2. FilesOK'
      BY <1>3, <2>1, OpensOK DEF Reopen
    <2>3. rec.id = n /\ n >= 1
      BY <1>3 DEF Reopen, Known, InFlight
    <2>4. TypeOK'
      BY <1>3, <2>1, <2>2, <2>3, OpensOK, RestOfInv DEF Reopen, TypeOK, callVars
    <2>5. LoopIndex' /\ Streams'
      BY <1>3, <2>1, OpensOK DEF Reopen, LoopIndex, Streams, callVars
    <2>6. Known'
      BY <1>3, <2>1, <2>2, <2>3, OpensOK, RestOfInv DEF Reopen, Known, InFlight, callVars
    <2> QED
      BY <2>4, <2>5, <2>6
  <1>4. CASE RotateIfNeeded
    <2>1. Decided' = Decided
      BY <1>4 DEF RotateIfNeeded, Decided, InFlight
    <2>2. /\ rec' \in Record /\ rec'.id = rec.id
          /\ rec'.day = today /\ today \in 0..today
      <3>1. rec' = [rec EXCEPT !.day = today]
        BY <1>4 DEF RotateIfNeeded
      <3>2. today \in 0..MaxDays /\ rec \in [id : 1..MaxWrites, size : Sizes, day : 0..MaxDays]
        BY DEF TypeOK, Record
      <3>3. rec' \in Record
        BY <3>1, <3>2 DEF Record
      <3>4. rec'.id = rec.id /\ rec'.day = today
        BY <3>1, <3>2
      <3> QED
        BY <3>2, <3>3, <3>4, SinkAssumption
    <2>3. CASE ~should_rotate(rec.size, today)
      <3>1. FilesOK' /\ UNCHANGED <<streamVars, files, i, lost, failures, sinkVars, n, today, since, unseen, crashes>>
            /\ pc' = "put"
        BY <1>4, <2>1, <2>3, FilesUntouched DEF RotateIfNeeded, sinkVars
      <3>2. TypeOK'
        BY <2>2, <3>1, RestOfInv DEF TypeOK, sinkVars, streamVars
      <3>3. LoopIndex' /\ Streams'
        BY <1>4, <3>1 DEF RotateIfNeeded, LoopIndex, Streams, sinkVars, streamVars
      <3>4. Known'
        BY <1>4, <2>1, <2>2, <3>1, RestOfInv DEF RotateIfNeeded, Known, InFlight, sinkVars, streamVars
      <3> QED
        BY <3>2, <3>3, <3>4
    <2>4. CASE should_rotate(rec.size, today)
      <3>0. HandOver(buffer) \/ HandOverFails(buffer)
        BY <1>4, <2>4 DEF RotateIfNeeded
      <3>1. PICK t : Appends(buffer, t)
        BY <3>0, HandsOver DEF TypeOK
      <3>2. FilesOK'
        BY <1>4, <2>1, <3>1, AppendsOK DEF RotateIfNeeded, Known, TypeOK, sinkVars
      <3>3. lost' \subseteq 1..n /\ failures' \in Nat /\ (failures' = 0 => failures = 0)
        BY <1>k, <3>1 DEF Appends, TypeOK, Known, Decided
      <3>4. TypeOK'
        BY <1>4, <2>2, <2>4, <3>2, <3>3, RestOfInv, EmptySeq DEF RotateIfNeeded, TypeOK, sinkVars
      <3>5. LoopIndex' /\ Streams'
        BY <1>k, <1>4, <2>4, <3>3 DEF RotateIfNeeded, LoopIndex, Streams, sinkVars, FirstShift
      <3>6. Known'
        BY <1>4, <2>1, <2>2, <2>4, <3>2, <3>3, RestOfInv, IdsEmpty DEF RotateIfNeeded, Known, InFlight, sinkVars
      <3> QED
        BY <3>4, <3>5, <3>6
    <2> QED
      BY <2>3, <2>4
  <1>5. CASE ShiftArchive \/ ArchiveActive
    <2>1. Decided' = Decided
      BY <1>5 DEF ShiftArchive, ArchiveActive, Decided, InFlight, callVars
    <2>2. i \in 0..(keep - 1) /\ Rename(i, i + 1)
      BY <1>5, <1>k DEF ShiftArchive, ArchiveActive, LoopIndex
    <2>3. UNCHANGED <<sinkVars, streamVars, rec, n, today, lost, since, unseen, crashes>>
          /\ pc = "shift" /\ i' \in Int
          /\ \/ pc' = "shift" /\ i' \in 0..(keep - 1)
             \/ pc' = "truncate"
      BY <1>5, <1>k, <2>2 DEF ShiftArchive, ArchiveActive, callVars
    <2>4. FilesOK' /\ failures' \in Nat /\ (failures' = 0 => failures = 0)
      BY <2>1, <2>2, <2>3, MovesOK DEF sinkVars
    <2>5. TypeOK'
      BY <2>3, <2>4, RestOfInv DEF TypeOK, sinkVars, streamVars
    <2>6. LoopIndex' /\ Streams'
      BY <2>3, <2>4 DEF LoopIndex, Streams, sinkVars, streamVars
    <2>7. Known'
      BY <2>1, <2>3, <2>4, RestOfInv DEF Known, InFlight, sinkVars, streamVars
    <2> QED
      BY <2>5, <2>6, <2>7
  <1>6. CASE Truncate
    <2>1. Decided' = Decided
      BY <1>6 DEF Truncate, Decided, InFlight, callVars
    <2>2. FilesOK'
      <3>1. CASE files' = With(files, 0, <<>>)
        BY <1>6, <2>1, <3>1, WithFiles, FilesAreOK, EmptySeq, IdsEmpty DEF Truncate, FilesOK
      <3>2. CASE UNCHANGED files
        BY <1>6, <2>1, <3>2, FilesUntouched DEF Truncate
      <3> QED
        BY <1>6, <3>1, <3>2 DEF Truncate
    <2>3. /\ failures' \in Nat /\ (failures' = 0 => is_open' /\ good')
          /\ is_open' \in BOOLEAN /\ good' \in BOOLEAN /\ (is_open' <=> good')
      <3>1. CASE is_open' = TRUE /\ good' = TRUE /\ UNCHANGED failures
        BY <3>1, <1>k
      <3>2. CASE is_open' = FALSE /\ good' = FALSE /\ Fail
        <4>1. failures' \in Nat /\ failures' # 0
          BY <1>k, <3>2 DEF Fail
        <4> QED
          BY <3>2, <4>1
      <3> QED
        BY <1>6, <3>1, <3>2 DEF Truncate
    <2>4. rec.day \in 0..today
      BY DEF Known
    <2>5. TypeOK'
      BY <1>6, <2>2, <2>3, <2>4, RestOfInv DEF Truncate, TypeOK, callVars
    <2>6. LoopIndex' /\ Streams'
      BY <1>6, <2>3 DEF Truncate, LoopIndex, Streams, callVars
    <2>7. Known'
      BY <1>6, <2>1, <2>2, <2>3, RestOfInv DEF Truncate, Known, InFlight, callVars
    <2> QED
      BY <2>5, <2>6, <2>7
  <1>7. CASE Put
    <2>1. Decided \subseteq Decided' /\ rec.id \in Decided' /\ rec.id = n /\ n >= 1
      BY <1>7, <1>k DEF Put, Decided, InFlight, Known, callVars
    <2> DEFINE s == Append(buffer, rec)
    <2>2. s \in Seq(Record) /\ Ids(s) = Ids(buffer) \cup {rec.id}
      BY IdsAppend DEF TypeOK
    <2> HIDE DEF s
    <2>3. Ids(s) \subseteq Decided' /\ Ids(s) \subseteq 1..n
      BY <1>k, <2>1, <2>2 DEF Known, Decided
    <2>4. current_size' \in Nat
      BY <1>7, SizeNat DEF Put, TypeOK
    <2>5. CASE good /\ buffer' = s /\ UNCHANGED <<files, good, lost, failures>>
      <3>1. FilesOK'
        BY <1>7, <2>1, <2>5, FilesUntouched DEF Put
      <3>2. TypeOK'
        BY <1>7, <2>2, <2>4, <2>5, <3>1, RestOfInv DEF Put, TypeOK, callVars
      <3>3. LoopIndex' /\ Streams'
        BY <1>7, <2>5 DEF Put, LoopIndex, Streams, callVars
      <3>4. Known'
        BY <1>7, <2>3, <2>5, <3>1, RestOfInv DEF Put, Known, InFlight, callVars
      <3> QED
        BY <3>2, <3>3, <3>4
    <2>6. CASE good /\ buffer' = <<>> /\ ((HandOver(s) /\ UNCHANGED good) \/ (HandOverFails(s) /\ good' = FALSE))
      <3>1. PICK t : Appends(s, t)
        BY <2>2, <2>6, HandsOver
      <3>2. FilesOK'
        BY <1>7, <2>1, <2>2, <2>3, <3>1, AppendsOK DEF Put
      <3>3. lost' \subseteq 1..n /\ failures' \in Nat
        BY <1>k, <2>3, <3>1 DEF Appends, TypeOK
      <3>4. good' \in BOOLEAN /\ (failures' = 0 => failures = 0 /\ good')
        <4>1. CASE HandOver(s) /\ UNCHANGED good
          BY <2>6, <4>1 DEF HandOver, TypeOK
        <4>2. CASE HandOverFails(s) /\ good' = FALSE
          <5>1. failures' # 0
            BY <1>k, <4>2 DEF HandOverFails, Fail
          <5> QED
            BY <4>2, <5>1
        <4> QED
          BY <2>6, <4>1, <4>2
      <3>5. TypeOK'
        BY <1>7, <2>4, <2>6, <3>2, <3>3, <3>4, RestOfInv, EmptySeq DEF Put, TypeOK, callVars
      <3>6. LoopIndex' /\ Streams'
        BY <1>7, <2>6, <3>4 DEF Put, LoopIndex, Streams, callVars
      <3>7. Known'
        BY <1>7, <2>6, <3>2, <3>3, RestOfInv, IdsEmpty DEF Put, Known, InFlight, callVars
      <3> QED
        BY <3>5, <3>6, <3>7
    <2>7. CASE ~good /\ lost' = lost \cup {rec.id} /\ UNCHANGED <<files, good, buffer, failures>>
      <3>1. FilesOK'
        BY <1>7, <2>1, <2>7, FilesUntouched DEF Put
      <3>2. TypeOK'
        BY <1>7, <1>k, <2>1, <2>4, <2>7, <3>1, RestOfInv DEF Put, TypeOK, callVars
      <3>3. LoopIndex' /\ Streams'
        BY <1>7, <2>7 DEF Put, LoopIndex, Streams, callVars
      <3>4. Known'
        BY <1>7, <2>1, <2>7, <3>1, RestOfInv DEF Put, Known, InFlight, callVars
      <3> QED
        BY <3>2, <3>3, <3>4
    <2>8. \/ good /\ buffer' = s /\ UNCHANGED <<files, good, lost, failures>>
          \/ good /\ buffer' = <<>> /\ ((HandOver(s) /\ UNCHANGED good) \/ (HandOverFails(s) /\ good' = FALSE))
          \/ ~good /\ lost' = lost \cup {rec.id} /\ UNCHANGED <<files, good, buffer, failures>>
      BY <1>7, Zenon DEF Put, s
    <2> QED
      BY <2>5, <2>6, <2>7, <2>8, Zenon
  <1>8. CASE flush
    <2>1. Decided' = Decided
      BY <1>8 DEF flush, Decided, InFlight, callVars
    <2>2. HandOver(buffer) \/ HandOverFails(buffer)
      BY <1>8 DEF flush
    <2>3. PICK t : Appends(buffer, t)
      BY <2>2, HandsOver DEF TypeOK
    <2>4. FilesOK'
      BY <1>8, <2>1, <2>3, AppendsOK DEF flush, Known, TypeOK, sinkVars
    <2>5. lost' \subseteq 1..n /\ failures' \in Nat
      BY <1>k, <2>3 DEF Appends, TypeOK, Known, Decided
    <2>6. good' \in BOOLEAN /\ (failures' = 0 => failures = 0 /\ good')
      <3>1. CASE HandOver(buffer) /\ UNCHANGED good
        BY <1>8, <3>1 DEF flush, HandOver, TypeOK
      <3>2. CASE HandOverFails(buffer) /\ good' = FALSE
        <4>1. failures' # 0
          BY <1>k, <3>2 DEF HandOverFails, Fail
        <4> QED
          BY <3>2, <4>1
      <3> QED
        BY <1>8, <3>1, <3>2 DEF flush
    <2>7. TypeOK'
      BY <1>8, <2>4, <2>5, <2>6, RestOfInv, EmptySeq DEF flush, TypeOK, callVars, sinkVars
    <2>8. LoopIndex' /\ Streams'
      BY <1>8, <2>6 DEF flush, LoopIndex, Streams, callVars, sinkVars
    <2>9. Known'
      BY <1>8, <2>1, <2>4, <2>5, RestOfInv, IdsEmpty DEF flush, Known, InFlight, callVars, sinkVars
    <2> QED
      BY <2>7, <2>8, <2>9
  <1>9. CASE Destroy
    <2>1. Decided' = Decided
      BY <1>9 DEF Destroy, Decided, InFlight, callVars
    <2>2. FilesOK' /\ lost' \subseteq 1..n /\ failures' \in Nat
      <3>1. CASE HandOver(buffer) \/ HandOverFails(buffer)
        <4>1. PICK t : Appends(buffer, t)
          BY <3>1, HandsOver DEF TypeOK
        <4>2. FilesOK'
          BY <1>9, <2>1, <4>1, AppendsOK DEF Destroy, Known, TypeOK, sinkVars
        <4>3. lost' \subseteq 1..n /\ failures' \in Nat
          BY <1>k, <4>1 DEF Appends, TypeOK, Known, Decided
        <4> QED
          BY <4>2, <4>3
      <3>2. CASE UNCHANGED <<files, lost, failures>>
        BY <1>9, <1>k, <2>1, <3>2, FilesUntouched DEF Destroy, sinkVars, TypeOK
      <3> QED
        BY <1>9, <3>1, <3>2 DEF Destroy
    <2>3. TypeOK'
      BY <1>9, <2>2, RestOfInv, EmptySeq DEF Destroy, TypeOK, callVars, sinkVars
    <2>4. LoopIndex' /\ Streams'
      BY <1>9 DEF Destroy, LoopIndex, Streams, callVars, sinkVars
    <2>5. Known'
      BY <1>9, <2>1, <2>2, RestOfInv, IdsEmpty DEF Destroy, Known, InFlight, callVars, sinkVars
    <2> QED
      BY <2>3, <2>4, <2>5
  <1>10. CASE Crash
    <2>1. Decided \subseteq Decided' /\ Decided' = 1..n
      BY <1>10, <1>k DEF Crash, Decided, InFlight, callVars
    <2>2. FilesOK'
      BY <1>10, <2>1, FilesUntouched DEF Crash, sinkVars
    <2>3. lost' \subseteq 1..n
      <3>1. lost \subseteq 1..n /\ Ids(buffer) \subseteq 1..n
        BY <2>1 DEF TypeOK, Known
      <3>2. pc # "idle" => rec.id \in 1..n
        BY <1>10, <1>k DEF Crash, Known, InFlight
      <3> QED
        BY <1>10, <3>1, <3>2 DEF Crash
    <2>4. TypeOK'
      BY <1>10, <2>2, <2>3, RestOfInv, EmptySeq DEF Crash, TypeOK, callVars, sinkVars
    <2>5. LoopIndex' /\ Streams'
      BY <1>10 DEF Crash, LoopIndex, Streams, callVars, sinkVars
    <2>6. Known'
      BY <1>10, <1>k, <2>1, <2>2, RestOfInv, IdsEmpty DEF Crash, Known, InFlight, callVars, sinkVars
    <2> QED
      BY <2>4, <2>5, <2>6
  <1>11. CASE Midnight
    <2>1. Decided' = Decided
      BY <1>11 DEF Midnight, Decided, InFlight, callVars
    <2>2. FilesOK'
      BY <1>11, <2>1, FilesUntouched DEF Midnight, sinkVars
    <2>3. today' \in 0..MaxDays /\ opened_day \in 0..today' /\ rec.day \in 0..today'
      BY <1>11, SinkAssumption DEF Midnight, TypeOK, Known
    <2>4. TypeOK'
      BY <1>11, <2>2, <2>3, RestOfInv DEF Midnight, TypeOK, callVars, sinkVars, streamVars
    <2>5. LoopIndex' /\ Streams'
      BY <1>11 DEF Midnight, LoopIndex, Streams, callVars, sinkVars, streamVars
    <2>6. Known'
      BY <1>11, <2>1, <2>2, <2>3, RestOfInv DEF Midnight, Known, InFlight, callVars, sinkVars, streamVars
    <2> QED
      BY <2>4, <2>5, <2>6
  <1>12. CASE UNCHANGED vars
    BY <1>12 DEF vars, sinkVars, streamVars, callVars, envVars, TypeOK, LoopIndex, Streams,
                 Known, Decided, InFlight
  <1> QED
    BY <1>1, <1>2, <1>3, <1>4, <1>5, <1>6, <1>7, <1>8, <1>9, <1>10, <1>11, <1>12 DEF Next

LEMMA SinkInvariant == Spec => []SinkInv
  <1>1. SinkInv /\ [Next]_vars => SinkInv'
    BY SinkStep
  <1> QED
    BY <1>1, SinkInit, PTL DEF Spec

\* The sink keeps its types; no file has a name beyond path.keep, whatever rotations,
\* crashes and failed renames happen (rotate_files' loop bounds).
THEOREM SinkTypesHold == Spec => []TypeOK
  BY SinkInvariant, PTL DEF SinkInv

-----------------------------------------------------------------------------
(* What a step does to the active file and the buffer.                     *)

LEMMA ActiveSeq ==
  ASSUME SinkInv
  PROVE  /\ Content(0) \in Seq(Record) /\ buffer \in Seq(Record) /\ rec \in Record
         /\ Active \in Seq(Record)
  <1>1. Content(0) \in Seq(Record) /\ buffer \in Seq(Record) /\ rec \in Record
    BY ContentSeq DEF SinkInv, TypeOK
  <1> QED
    BY <1>1, ConcatProperties DEF Active

LEMMA ConcatAppend ==
  ASSUME NEW s \in Seq(Record), NEW t \in Seq(Record), NEW r \in Record
  PROVE  s \o Append(t, r) = Append(s \o t, r)
  <1>1. <<r>> \in Seq(Record) /\ s \o t \in Seq(Record)
    BY ConcatProperties
  <1>2. Append(t, r) = t \o <<r>> /\ Append(s \o t, r) = (s \o t) \o <<r>>
    BY <1>1, AppendIsConcat
  <1> QED
    BY <1>1, <1>2, ConcatAssociative

LEMMA ConcatPrefix ==
  ASSUME NEW c \in Seq(Record), NEW s \in Seq(Record), NEW t \in Seq(Record), IsPrefixOf(t, s)
  PROVE  IsPrefixOf(c \o t, c \o s)
  <1>1. /\ Len(c \o t) = Len(c) + Len(t) /\ Len(c \o s) = Len(c) + Len(s)
        /\ \A j \in 1..(Len(c) + Len(t)) : (c \o t)[j] = IF j <= Len(c) THEN c[j] ELSE t[j - Len(c)]
        /\ \A j \in 1..(Len(c) + Len(s)) : (c \o s)[j] = IF j <= Len(c) THEN c[j] ELSE s[j - Len(c)]
        /\ Len(c) \in Nat /\ Len(t) \in Nat /\ Len(s) \in Nat
    BY ConcatProperties
  <1>2. Len(t) <= Len(s) /\ \A j \in 1..Len(t) : t[j] = s[j]
    BY DEF IsPrefixOf
  <1>3. ASSUME NEW j \in 1..(Len(c) + Len(t)) PROVE (c \o t)[j] = (c \o s)[j]
    <2>1. j \in 1..(Len(c) + Len(s))
      BY <1>1, <1>2
    <2>2. CASE j <= Len(c)
      BY <1>1, <2>1, <2>2
    <2>3. CASE ~ (j <= Len(c))
      <3>1. j - Len(c) \in 1..Len(t)
        BY <1>1, <2>3
      <3> QED
        BY <1>1, <1>2, <2>1, <2>3, <3>1
    <2> QED
      BY <2>2, <2>3
  <1> QED
    BY <1>1, <1>2, <1>3 DEF IsPrefixOf

\* Handing over leaves the active file with the buffer as it was, or tears off its end.
LEMMA AppendsActive ==
  ASSUME SinkInv, SinkInv', NEW s \in Seq(Record), NEW t, Appends(s, t), buffer' = <<>>
  PROVE  /\ IsPrefixOf(Active', Content(0) \o s)
         /\ UNCHANGED failures => Active' = Content(0) \o s /\ UNCHANGED lost
  <1>1. Content(0) \in Seq(Record) /\ t \in Seq(Record)
    BY ActiveSeq DEF Appends
  <1>2. Content(0) \o t \in Seq(Record)
    BY <1>1, ConcatProperties
  <1>3. Content(0)' = Content(0) \o t
    BY <1>2, WithFiles DEF Appends, SinkInv, Content
  <1>4. Active' = Content(0) \o t
    BY <1>2, <1>3, ConcatEmptySeq DEF Active
  <1>5. UNCHANGED failures => t = s /\ UNCHANGED lost
    BY DEF Appends, SinkInv, Known
  <1> QED
    BY <1>1, <1>4, <1>5, ConcatPrefix DEF Appends

\* Nothing changes in the active file; a stream that becomes usable has just been opened.
Keeps ==
  /\ Active' = Active
  /\ is_open' /\ good' =>
       \/ /\ is_open /\ good
          /\ UNCHANGED <<current_size, unseen, opened_day, since>>
          /\ pc' = "idle" => pc = "idle" /\ UNCHANGED n
       \/ /\ current_size' + unseen' = Bytes(Active') /\ UNCHANGED n
          /\ since' = n \/ (failures' # 0 /\ pc' # "idle")

\* The active file is archived or truncated.
Empties ==
  /\ pc \in {"shift", "truncate"} /\ pc' # "idle"
  /\ Active' = <<>>
  /\ is_open' => current_size' = 0 /\ unseen' = 0

\* The current record goes to the buffer or to the file.
Records ==
  /\ pc = "put" /\ is_open /\ good
  /\ Active' = Append(Active, rec)
  /\ current_size' = current_size + rec.size
  /\ UNCHANGED <<opened_day, since, n, unseen>>

\* A crash or a failed operation loses the end.
Tears ==
  /\ ~is_open' \/ ~good'
  /\ \/ IsPrefixOf(Active', Active)
     \/ /\ pc = "put" /\ good /\ UNCHANGED unseen
        /\ IsPrefixOf(Active', Append(Active, rec))

LEMMA ActiveMoves ==
  ASSUME SinkInv, SinkInv', [Next]_vars
  PROVE  Keeps \/ Empties \/ Records \/ Tears
  <1>a. /\ Content(0) \in Seq(Record) /\ buffer \in Seq(Record) /\ rec \in Record
        /\ Active \in Seq(Record)
    BY ActiveSeq
  <1>b. buffer = <<>> => Active = Content(0)
    BY <1>a, ConcatEmptySeq DEF Active
  <1>c. Content(0)' \in Seq(Record) /\ (buffer' = <<>> => Active' = Content(0)')
    <2>1. Content(0)' \in Seq(Record)
      BY EmptySeq DEF SinkInv, TypeOK, Content
    <2> QED
      BY <2>1, ConcatEmptySeq DEF Active
  <1>d. UNCHANGED <<files, buffer>> => Active' = Active
    BY DEF Active, Content
  <1>o. ASSUME open_if_needed, buffer = <<>>, buffer' = <<>>
        PROVE  /\ Active' = Active
               /\ current_size' + unseen' = Bytes(Active')
    <2>1. Content(0)' = Content(0)
      BY <1>o, <1>a, WithFiles DEF open_if_needed, SinkInv, Content
    <2>2. current_size' + unseen' = Bytes(Content(0))
      BY <1>o, <1>a, BytesNat DEF open_if_needed, file_size_or_zero
    <2> QED
      BY <1>o, <1>b, <1>c, <2>1, <2>2
  <1>1. CASE Construct
    <2>1. buffer = <<>> /\ buffer' = <<>> /\ open_if_needed
      BY <1>1 DEF Construct, SinkInv, Streams
    <2>2. Active' = Active /\ current_size' + unseen' = Bytes(Active')
      BY <1>o, <2>1
    <2>3. since' = n /\ UNCHANGED n
      BY <1>1 DEF Construct, callVars
    <2> QED
      BY <2>2, <2>3 DEF Keeps
  <1>2. ASSUME NEW size \in Sizes, Write(size) PROVE Keeps
    BY <1>2, <1>d DEF Write, Keeps, SinkInv, Streams, sinkVars, streamVars
  <1>3. CASE Reopen
    <2>1. buffer = <<>> /\ buffer' = <<>> /\ open_if_needed /\ UNCHANGED n
      BY <1>3 DEF Reopen, SinkInv, Streams, callVars
    <2>2. Active' = Active /\ current_size' + unseen' = Bytes(Active')
      BY <1>o, <2>1
    <2>3. ASSUME is_open' PROVE failures' # 0 /\ pc' # "idle"
      <3>1. failures # 0 /\ failures \in Nat
        BY <1>3 DEF Reopen, SinkInv, Streams, Known
      <3> QED
        BY <1>3, <2>1, <2>3, <3>1 DEF Reopen, open_if_needed, Fail
    <2> QED
      BY <2>1, <2>2, <2>3 DEF Keeps
  <1>4. CASE RotateIfNeeded
    <2>1. CASE ~should_rotate(rec.size, today)
      BY <1>4, <1>d, <2>1 DEF RotateIfNeeded, Keeps, sinkVars, streamVars
    <2>2. CASE should_rotate(rec.size, today)
      <3>1. HandOver(buffer) \/ HandOverFails(buffer)
        BY <1>4, <2>2 DEF RotateIfNeeded
      <3>2. PICK t : Appends(buffer, t)
        BY <1>a, <3>1, HandsOver DEF SinkInv
      <3>3. IsPrefixOf(Active', Active)
        BY <1>a, <1>4, <2>2, <3>2, AppendsActive DEF RotateIfNeeded, Active
      <3> QED
        BY <1>4, <2>2, <3>3 DEF RotateIfNeeded, Tears
    <2> QED
      BY <2>1, <2>2
  <1>5. CASE ShiftArchive \/ ArchiveActive
    <2>1. ~is_open' /\ buffer = <<>> /\ buffer' = <<>> /\ pc = "shift" /\ pc' # "idle"
      BY <1>5 DEF ShiftArchive, ArchiveActive, SinkInv, Streams, streamVars
    <2>2. i \in 0..(keep - 1) /\ Rename(i, i + 1) /\ keep \in Int
      BY <1>5, FilesAreOK DEF ShiftArchive, ArchiveActive, LoopIndex, SinkInv
    <2>3. CASE Moves(i, i + 1)
      <3>1. CASE i = 0
        <4>1. 0 \notin DOMAIN files'
          BY <2>3, <3>1 DEF Moves
        <4>2. Active' = <<>>
          BY <1>c, <2>1, <4>1 DEF Content
        <4> QED
          BY <2>1, <4>2 DEF Empties
      <3>2. CASE i # 0
        <4>1. Content(0)' = Content(0)
          BY <2>2, <2>3, <3>2 DEF Moves, Content
        <4>2. Active' = Active
          BY <1>b, <1>c, <2>1, <4>1
        <4> QED
          BY <2>1, <4>2 DEF Keeps
      <3> QED
        BY <3>1, <3>2
    <2>4. CASE UNCHANGED files
      BY <1>d, <2>1, <2>4 DEF Keeps
    <2> QED
      BY <2>2, <2>3, <2>4, Renames
  <1>6. CASE Truncate
    <2>1. buffer = <<>> /\ buffer' = <<>>
      BY <1>6 DEF Truncate, SinkInv, Streams
    <2>2. CASE files' = With(files, 0, <<>>)
      <3>1. Content(0)' = <<>>
        BY <2>2, WithFiles, EmptySeq DEF SinkInv, Content
      <3> QED
        BY <1>6, <1>c, <2>1, <3>1 DEF Truncate, Empties
    <2>3. CASE UNCHANGED files /\ is_open' = FALSE
      BY <1>d, <2>1, <2>3 DEF Keeps
    <2> QED
      BY <1>6, <2>2, <2>3 DEF Truncate
  <1>7. CASE Put
    <2> DEFINE s == Append(buffer, rec)
    <2>1. s \in Seq(Record) /\ Content(0) \o s = Append(Active, rec)
      BY <1>a, IdsAppend, ConcatAppend DEF Active
    <2>2. pc = "put" /\ pc' = "idle" /\ (is_open <=> good) /\ current_size' = current_size + rec.size
          /\ UNCHANGED <<opened_day, since, n, unseen, is_open>>
      BY <1>7 DEF Put, SinkInv, Streams, callVars
    <2>3. CASE good /\ buffer' = s /\ UNCHANGED files
      <3>1. Active' = Content(0) \o s
        BY <2>3 DEF Active, Content
      <3> QED
        BY <2>1, <2>2, <2>3, <3>1 DEF Records
    <2>4. CASE good /\ buffer' = <<>> /\ HandOver(s)
      <3>1. PICK t : Appends(s, t)
        BY <2>1, <2>4, HandsOver DEF SinkInv
      <3>2. Active' = Content(0) \o s
        BY <2>1, <2>4, <3>1, AppendsActive DEF HandOver
      <3> QED
        BY <2>1, <2>2, <2>4, <3>2 DEF Records
    <2>5. CASE good /\ buffer' = <<>> /\ HandOverFails(s) /\ good' = FALSE
      <3>1. PICK t : Appends(s, t)
        BY <2>1, <2>5, HandsOver DEF SinkInv
      <3>2. IsPrefixOf(Active', Append(Active, rec))
        BY <2>1, <2>5, <3>1, AppendsActive
      <3> QED
        BY <2>2, <2>5, <3>2 DEF Tears
    <2>6. CASE ~good /\ UNCHANGED <<files, good, buffer>>
      BY <1>d, <2>6 DEF Keeps
    <2> QED
      BY <1>7, <2>3, <2>4, <2>5, <2>6 DEF Put
  <1>8. CASE flush
    <2>1. buffer' = <<>> /\ (is_open' <=> is_open) /\ pc = "idle" /\ good
          /\ UNCHANGED <<current_size, unseen, opened_day, since, n>>
      BY <1>8 DEF flush, sinkVars, callVars
    <2>2. PICK t : Appends(buffer, t)
      BY <1>8, <1>a, HandsOver DEF flush, SinkInv
    <2>3. CASE HandOver(buffer)
      <3>1. Active' = Active
        BY <1>a, <2>1, <2>2, <2>3, AppendsActive DEF HandOver, Active
      <3> QED
        BY <2>1, <3>1 DEF Keeps
    <2>4. CASE good' = FALSE
      <3>1. IsPrefixOf(Active', Active)
        BY <1>a, <2>1, <2>2, AppendsActive DEF Active
      <3> QED
        BY <2>4, <3>1 DEF Tears
    <2> QED
      BY <1>8, <2>3, <2>4 DEF flush
  <1>9. CASE Destroy
    <2>1. CASE HandOver(buffer) \/ HandOverFails(buffer)
      <3>1. PICK t : Appends(buffer, t)
        BY <1>a, <2>1, HandsOver DEF SinkInv
      <3>2. IsPrefixOf(Active', Active)
        BY <1>9, <1>a, <3>1, AppendsActive DEF Destroy, Active
      <3> QED
        BY <1>9, <3>2 DEF Destroy, Tears
    <2>2. CASE ~is_open /\ UNCHANGED files
      <3>1. buffer = <<>> /\ buffer' = <<>> /\ ~is_open'
        BY <1>9, <2>2 DEF Destroy, SinkInv, Streams
      <3> QED
        BY <1>d, <2>2, <3>1 DEF Keeps
    <2> QED
      BY <1>9, <2>1, <2>2 DEF Destroy
  <1>10. CASE Crash
    <2>1. Content(0)' = Content(0) /\ buffer' = <<>> /\ ~is_open'
      BY <1>10 DEF Crash, Content
    <2>2. IsPrefixOf(<<>>, buffer)
      BY <1>a DEF IsPrefixOf
    <2>3. IsPrefixOf(Content(0) \o <<>>, Active)
      BY <1>a, <2>2, ConcatPrefix, EmptySeq DEF Active
    <2>4. Content(0) \o <<>> = Content(0)
      BY <1>a, ConcatEmptySeq
    <2> QED
      BY <1>c, <2>1, <2>3, <2>4 DEF Tears
  <1>11. CASE Midnight
    BY <1>11, <1>d DEF Midnight, Keeps, sinkVars, streamVars, callVars
  <1>12. CASE UNCHANGED vars
    BY <1>12, <1>d DEF vars, envVars, Keeps, sinkVars, streamVars, callVars
  <1> QED
    BY <1>1, <1>2, <1>3, <1>4, <1>5, <1>6, <1>7, <1>8, <1>9, <1>10, <1>11, <1>12 DEF Next

-----------------------------------------------------------------------------
(* The size count, the limit, the day and ok().                            *)

LEMMA SizeTracksStep ==
  ASSUME SinkInv, SinkInv', SizeTracks, [Next]_vars
  PROVE  SizeTracks'
  <1>1. CASE Keeps
    BY <1>1 DEF Keeps, SizeTracks
  <1>2. CASE Empties
    BY <1>2, BytesEmpty DEF Empties, SizeTracks
  <1>3. CASE Records
    <2>1. current_size \in Nat /\ unseen \in Nat /\ rec.size \in Nat
      BY ActiveSeq, SizeNat DEF SinkInv, TypeOK
    <2>2. Bytes(Active') = Bytes(Active) + rec.size
      BY <1>3, ActiveSeq, BytesAppend DEF Records
    <2> QED
      BY <1>3, <2>1, <2>2 DEF Records, SizeTracks
  <1>4. CASE Tears
    BY <1>4 DEF Tears, SizeTracks
  <1> QED
    BY <1>1, <1>2, <1>3, <1>4, ActiveMoves

\* The sink's own count agrees with the active file and the buffer while the stream is
\* usable: open_if_needed, rotate_if_needed and write() keep current_size right through
\* any rotations, restarts and failures. After an open_if_needed whose file_size failed
\* it is short by exactly the bytes the file had then, until the next rotation or open.
THEOREM SizeIsTracked == Spec => []SizeTracks
  <1>1. Init => SizeTracks
    BY DEF Init, SizeTracks
  <1>2. SinkInv /\ SinkInv' /\ SizeTracks /\ [Next]_vars => SizeTracks'
    BY SizeTracksStep
  <1> QED
    BY <1>1, <1>2, SinkInvariant, PTL DEF Spec

Sized == mode \in {"file_size_exceeds", "size_or_day"}
Daily == mode \in {"new_day_begins", "size_or_day"}

\* A record that is about to be written fits, as far as the sink can see, or has the
\* file to itself.
Fits ==
  pc = "put" /\ good /\ Sized =>
    Active = <<>> \/ Bytes(Active) + rec.size <= MaxBytes + unseen

\* A record that is about to be written is of the active file's day.
SameDay == pc = "put" /\ failures = 0 /\ Daily => rec.day = opened_day

\* How a call reaches ofs.write(): without a rotation, after one, or already there.
LEMMA ReachesPut ==
  ASSUME SinkInv, SinkInv', [Next]_vars, pc' = "put"
  PROVE  /\ UNCHANGED mode
         /\ failures' = 0 => failures = 0
         /\ \/ /\ pc = "put" /\ UNCHANGED <<rec, opened_day, good, unseen>> /\ Active' = Active
            \/ /\ is_open /\ good /\ ~should_rotate(rec.size, today) /\ Active' = Active
               /\ rec'.size = rec.size /\ rec'.day = today /\ UNCHANGED <<opened_day, unseen>>
            \/ /\ opened_day' = rec.day /\ UNCHANGED rec
               /\ good' => Active' = <<>>
  <1>a. failures \in Nat
    BY DEF SinkInv, Known
  <1>d. UNCHANGED <<files, buffer>> => Active' = Active
    BY DEF Active, Content
  <1>1. CASE RotateIfNeeded
    <2>1. ~should_rotate(rec.size, today) /\ UNCHANGED <<streamVars, files, failures, unseen, sinkVars>>
          /\ rec' = [rec EXCEPT !.day = today] /\ pc = "rotate?"
      BY <1>1 DEF RotateIfNeeded
    <2>2. rec'.size = rec.size /\ rec'.day = today
      BY <2>1, ActiveSeq DEF Record
    <2> QED
      BY <1>d, <2>1, <2>2 DEF streamVars, sinkVars, SinkInv, Streams
  <1>2. CASE Truncate
    <2>1. opened_day' = rec.day /\ UNCHANGED <<rec, mode, buffer>> /\ buffer = <<>>
      BY <1>2 DEF Truncate, callVars, SinkInv, Streams
    <2>2. failures' = 0 => failures = 0
      BY <1>2, <1>a DEF Truncate, Fail
    <2>3. good' => Active' = <<>>
      <3> SUFFICES ASSUME good' PROVE Active' = <<>>
        OBVIOUS
      <3>1. files' = With(files, 0, <<>>)
        BY <1>2 DEF Truncate
      <3>2. Content(0)' = <<>>
        BY <3>1, WithFiles, EmptySeq DEF SinkInv, Content
      <3> QED
        BY <2>1, <3>2, ConcatEmptySeq, EmptySeq DEF Active
    <2> QED
      BY <2>1, <2>2, <2>3
  <1>3. CASE Midnight
    BY <1>3, <1>d DEF Midnight, sinkVars, streamVars, callVars
  <1>4. CASE UNCHANGED vars
    BY <1>4, <1>d DEF vars, envVars, sinkVars, streamVars, callVars
  <1> QED
    BY <1>1, <1>2, <1>3, <1>4
       DEF Next, Construct, Write, Reopen, ShiftArchive, ArchiveActive, Put, flush, Destroy, Crash

LEMMA FitsStep ==
  ASSUME SinkInv, SinkInv', SizeTracks, Fits, [Next]_vars
  PROVE  Fits'
  <1> SUFFICES ASSUME pc' = "put", good', Sized'
               PROVE  Active' = <<>> \/ Bytes(Active') + rec'.size <= MaxBytes + unseen'
    BY DEF Fits
  <1>1. Sized
    BY ReachesPut DEF Sized
  <1>2. CASE pc = "put" /\ UNCHANGED <<rec, opened_day, good, unseen>> /\ Active' = Active
    BY <1>1, <1>2 DEF Fits
  <1>3. CASE /\ is_open /\ good /\ ~should_rotate(rec.size, today) /\ Active' = Active
             /\ rec'.size = rec.size /\ UNCHANGED unseen
    <2>1. ~(current_size + rec.size > MaxBytes) /\ current_size + unseen = Bytes(Active)
      BY <1>1, <1>3 DEF should_rotate, BySize, Sized, SizeTracks
    <2>2. /\ rec.size \in Nat /\ Bytes(Active) \in Nat /\ MaxBytes \in Nat
          /\ current_size \in Nat /\ unseen \in Nat
      BY ActiveSeq, SizeNat, BytesNat, SinkAssumption DEF SinkInv, TypeOK
    <2>3. Bytes(Active) + rec.size <= MaxBytes + unseen
      BY <2>1, <2>2
    <2> QED
      BY <1>3, <2>3
  <1>4. CASE Active' = <<>>
    BY <1>4
  <1> QED
    BY <1>2, <1>3, <1>4, ReachesPut

\* What ActiveBounded says of a step.
GrowsWithinLimit ==
  Sized /\ Bytes(Active') > Bytes(Active)
    => Len(Active') = 1 \/ Bytes(Active') <= MaxBytes + unseen'

LEMMA BoundedStep ==
  ASSUME SinkInv, SinkInv', Fits, [Next]_vars
  PROVE  GrowsWithinLimit
  <1> SUFFICES ASSUME Sized, Bytes(Active') > Bytes(Active)
               PROVE  Len(Active') = 1 \/ Bytes(Active') <= MaxBytes + unseen'
    BY DEF GrowsWithinLimit
  <1>1. /\ Active \in Seq(Record) /\ rec \in Record /\ rec.size \in Nat
        /\ MaxBytes \in Nat /\ unseen \in Nat /\ Bytes(Active) \in Nat
    BY ActiveSeq, SizeNat, BytesNat, SinkAssumption DEF SinkInv, TypeOK
  <1>2. Active' \in Seq(Record) /\ Bytes(Active') \in Nat
    <2>1. Content(0)' \in Seq(Record) /\ buffer' \in Seq(Record)
      BY EmptySeq DEF SinkInv, TypeOK, Content
    <2>2. Active' \in Seq(Record)
      BY <2>1, ConcatProperties DEF Active
    <2> QED
      BY <2>2, BytesNat
  <1>3. ASSUME IsPrefixOf(Active', Active) PROVE FALSE
    <2>1. Bytes(Active') <= Bytes(Active)
      BY <1>1, <1>2, <1>3, BytesPrefix
    <2> QED
      BY <1>1, <1>2, <2>1
  <1>4. ASSUME pc = "put", good, UNCHANGED unseen, IsPrefixOf(Active', Append(Active, rec))
        PROVE  Len(Active') = 1 \/ Bytes(Active') <= MaxBytes + unseen'
    <2>1. /\ Append(Active, rec) \in Seq(Record) /\ Len(Append(Active, rec)) = Len(Active) + 1
          /\ Bytes(Append(Active, rec)) = Bytes(Active) + rec.size
      BY <1>1, BytesAppend
    <2>2. Bytes(Active') <= Bytes(Active) + rec.size
      BY <1>2, <1>4, <2>1, BytesPrefix
    <2>3. CASE Active = <<>>
      <3>1. Len(Active') <= 1 /\ Len(Active') \in Nat
        BY <1>2, <1>4, <2>1, <2>3 DEF IsPrefixOf
      <3>2. CASE Len(Active') = 0
        <4>1. Active' = <<>>
          BY <1>2, <3>2, EmptySeq
        <4> QED
          BY <2>3, <4>1, BytesEmpty
      <3>3. \A k \in Nat : k <= 1 => k = 0 \/ k = 1
        OBVIOUS
      <3> QED
        BY <3>1, <3>2, <3>3, Zenon
    <2>4. CASE Bytes(Active) + rec.size <= MaxBytes + unseen
      BY <1>1, <1>2, <1>4, <2>2, <2>4
    <2> QED
      BY <1>4, <2>3, <2>4 DEF Fits
  <1>5. IsPrefixOf(Append(Active, rec), Append(Active, rec)) /\ IsPrefixOf(Active, Active)
    BY <1>1 DEF IsPrefixOf
  <1>6. CASE Keeps
    BY <1>3, <1>5, <1>6 DEF Keeps
  <1>7. CASE Empties
    BY <1>1, <1>7, BytesEmpty DEF Empties
  <1>8. CASE Records
    BY <1>4, <1>5, <1>8 DEF Records
  <1>9. CASE Tears
    BY <1>3, <1>4, <1>9 DEF Tears
  <1> QED
    BY <1>6, <1>7, <1>8, <1>9, ActiveMoves

LEMMA ModeFixed ==
  ASSUME [Next]_vars
  PROVE  UNCHANGED <<mode, keep>>
  BY DEF Next, Construct, Write, Reopen, RotateIfNeeded, ShiftArchive, ArchiveActive, Truncate,
         Put, flush, Destroy, Crash, Midnight, open_if_needed, vars, sinkVars

\* With a size limit, no step of a write() lets the active file grow past MaxBytes unless
\* it holds a single record that is too long by itself (should_rotate counts the incoming
\* bytes). After an open_if_needed whose file_size failed the limit is passed by at most
\* the bytes the file had then.
THEOREM ActiveIsBounded == Spec => ActiveBounded
  <1>1. Init => Fits
    BY DEF Init, Fits
  <1>2. SinkInv /\ SinkInv' /\ SizeTracks /\ Fits /\ [Next]_vars => Fits'
    BY FitsStep
  <1>3. SinkInv /\ SinkInv' /\ Fits /\ [Next]_vars => GrowsWithinLimit
    BY BoundedStep
  <1> QED
    BY <1>1, <1>2, <1>3, SinkInvariant, SizeIsTracked, PTL
       DEF Spec, ActiveBounded, GrowsWithinLimit, Sized

LEMMA OneDayStep ==
  ASSUME SinkInv, SinkInv', SameDay, OneDay, [Next]_vars
  PROVE  SameDay' /\ OneDay'
  <1>0. UNCHANGED mode /\ (failures' = 0 => failures = 0)
    <2>1. failures \in Nat
      BY DEF SinkInv, Known
    <2>2. failures' = failures \/ failures' = failures + 1
      BY DEF Next, Construct, Write, Reopen, RotateIfNeeded, ShiftArchive, ArchiveActive,
             Truncate, Put, flush, Destroy, Crash, Midnight, open_if_needed, HandOver,
             HandOverFails, Rename, Fail, vars, envVars
    <2> QED
      BY <2>1, <2>2, ModeFixed
  <1>1. SameDay'
    <2> SUFFICES ASSUME pc' = "put", failures' = 0, Daily' PROVE rec'.day = opened_day'
      BY DEF SameDay
    <2>1. Daily /\ failures = 0
      BY <1>0 DEF Daily
    <2> QED
      BY <2>1, ReachesPut DEF SameDay, should_rotate, ByDay, Daily
  <1>2. OneDay'
    <2> SUFFICES ASSUME failures' = 0, Daily, is_open', good', NEW j \in DOMAIN Active',
                        Active'[j].id > since'
                 PROVE  Active'[j].day = opened_day'
      BY <1>0 DEF OneDay, Daily
    <2>0. failures = 0 /\ Active \in Seq(Record) /\ rec \in Record
      BY <1>0, ActiveSeq
    <2>1. CASE Keeps
      <3>1. CASE is_open /\ good /\ UNCHANGED <<current_size, opened_day, since>>
        BY <2>0, <2>1, <3>1 DEF Keeps, OneDay, Daily
      <3>2. CASE since' = n
        <4>1. Ids(Active) \subseteq 1..n /\ n \in Nat
          <5>1. Ids(Active) = Ids(Content(0)) \cup Ids(buffer)
            BY ActiveSeq, IdsConcat DEF Active
          <5>2. Decided \subseteq 1..n /\ n \in Nat
            BY DEF SinkInv, TypeOK, Decided
          <5> QED
            BY <5>1, <5>2, FilesAreOK DEF SinkInv, Known
        <4>2. Active[j].id \in 1..n
          BY <2>1, <4>1 DEF Keeps, Ids
        <4> QED
          BY <2>1, <3>2, <4>1, <4>2 DEF Keeps
      <3> QED
        BY <2>1, <3>1, <3>2 DEF Keeps
    <2>2. CASE Empties
      BY <2>2 DEF Empties
    <2>3. CASE Records
      <3>1. UNCHANGED <<opened_day, since>> /\ Active' = Append(Active, rec)
            /\ is_open /\ good /\ pc = "put"
        BY <2>3 DEF Records
      <3>2. CASE j \in DOMAIN Active
        <4>1. Active'[j] = Active[j]
          BY <2>0, <3>1, <3>2
        <4> QED
          BY <2>0, <3>1, <3>2, <4>1 DEF OneDay, Daily
      <3>3. CASE j \notin DOMAIN Active
        <4>1. Active'[j] = rec
          BY <2>0, <3>1, <3>3
        <4> QED
          BY <2>0, <3>1, <4>1 DEF SameDay
      <3> QED
        BY <3>2, <3>3
    <2>4. CASE Tears
      BY <2>4 DEF Tears
    <2> QED
      BY <2>1, <2>2, <2>3, <2>4, ActiveMoves
  <1> QED
    BY <1>1, <1>2

\* With daily rotation and no failures, what a sink object wrote to the active file is
\* all of one day, wherever midnight falls within write() (rotate_if_needed).
THEOREM DaysAreKeptApart == Spec => []OneDay
  <1>1. Init => SameDay /\ OneDay
    BY DEF Init, SameDay, OneDay
  <1>2. SinkInv /\ SinkInv' /\ SameDay /\ OneDay /\ [Next]_vars => SameDay' /\ OneDay'
    BY OneDayStep
  <1> QED
    BY <1>1, <1>2, SinkInvariant, PTL DEF Spec

LEMMA OkStep ==
  ASSUME SinkInv, SinkInv', OkMeansRecorded, [Next]_vars
  PROVE  OkMeansRecorded'
  <1> SUFFICES ASSUME pc' = "idle", is_open', good', n' > since' PROVE n' \in Ids(Active')
    BY DEF OkMeansRecorded
  <1>1. CASE Keeps
    <2>1. n \in Int
      BY DEF SinkInv, TypeOK
    <2> QED
      BY <1>1, <2>1 DEF Keeps, OkMeansRecorded
  <1>2. CASE Empties
    BY <1>2 DEF Empties
  <1>3. CASE Records
    <2>1. Ids(Active') = Ids(Active) \cup {rec.id}
      BY <1>3, ActiveSeq, IdsAppend DEF Records
    <2>2. rec.id = n /\ UNCHANGED n
      BY <1>3 DEF Records, SinkInv, Known, InFlight
    <2> QED
      BY <2>1, <2>2
  <1>4. CASE Tears
    BY <1>4 DEF Tears
  <1> QED
    BY <1>1, <1>2, <1>3, <1>4, ActiveMoves

\* When write() returns with a usable stream, its record is in the active file or the
\* buffer: ok() can be trusted, whichever operations failed before.
THEOREM OkIsTruthful == Spec => []OkMeansRecorded
  <1>1. Init => OkMeansRecorded
    BY DEF Init, OkMeansRecorded
  <1>2. SinkInv /\ SinkInv' /\ OkMeansRecorded /\ [Next]_vars => OkMeansRecorded'
    BY OkStep
  <1> QED
    BY <1>1, <1>2, SinkInvariant, PTL DEF Spec

-----------------------------------------------------------------------------
(* The retained log.                                                       *)

\* Until an operation fails, the shift of the archives moves a hole down to the active
\* file, so that only path.keep is ever overwritten.
Hole ==
  failures = 0 =>
    /\ pc = "shift" /\ i < keep - 1 => i + 1 \notin DOMAIN files
    /\ pc = "truncate" /\ keep >= 1 => 0 \notin DOMAIN files
    /\ InFlight => n \notin lost

\* The records that only a rotation may forget.
Owed == Decided \ lost

LEMMA FailuresGrow ==
  ASSUME SinkInv, [Next]_vars, failures' = 0
  PROVE  failures = 0
  <1>1. failures \in Nat
    BY DEF SinkInv, Known
  <1>2. failures' = failures \/ failures' = failures + 1
    BY DEF Next, Construct, Write, Reopen, RotateIfNeeded, ShiftArchive, ArchiveActive,
           Truncate, Put, flush, Destroy, Crash, Midnight, open_if_needed, HandOver,
           HandOverFails, Rename, Fail, vars, envVars
  <1> QED
    BY <1>1, <1>2

\* Without failures a rename moves the file if there is one.
LEMMA ShiftMoves ==
  ASSUME SinkInv, failures' = 0, ShiftArchive \/ ArchiveActive
  PROVE  /\ i \in 0..(keep - 1) /\ keep \in Int
         /\ Moves(i, i + 1) \/ (i \notin DOMAIN files /\ UNCHANGED files)
  <1>1. i \in 0..(keep - 1) /\ Rename(i, i + 1) /\ keep \in Int /\ failures \in Nat
    BY FilesAreOK DEF ShiftArchive, ArchiveActive, LoopIndex, SinkInv, Known
  <1>2. failures' # failures + 1
    BY <1>1
  <1> QED
    BY <1>1, <1>2, Renames

LEMMA HoleStep ==
  ASSUME SinkInv, SinkInv', Hole, [Next]_vars
  PROVE  Hole'
  <1> SUFFICES ASSUME failures' = 0
               PROVE  /\ pc' = "shift" /\ i' < keep' - 1 => i' + 1 \notin DOMAIN files'
                      /\ pc' = "truncate" /\ keep' >= 1 => 0 \notin DOMAIN files'
                      /\ InFlight' => n' \notin lost'
    BY DEF Hole
  <1>0. failures = 0 /\ UNCHANGED keep /\ keep \in Int /\ n \in Nat /\ lost \subseteq 1..n
    BY FailuresGrow, ModeFixed, FilesAreOK DEF SinkInv, TypeOK
  <1>1. InFlight' => n' \notin lost'
    <2>1. ASSUME NEW size \in Sizes, Write(size), InFlight' PROVE n' \notin lost'
      <3>1. n' = n + 1 /\ lost' = lost
        BY <2>1 DEF Write, InFlight
      <3> QED
        BY <1>0, <3>1
    <2>2. CASE RotateIfNeeded
      <3>1. UNCHANGED <<lost, n>> /\ InFlight
        <4>1. failures' # failures + 1
          BY <1>0
        <4> QED
          BY <2>2, <4>1 DEF RotateIfNeeded, HandOver, HandOverFails, Fail, InFlight
      <3> QED
        BY <1>0, <3>1 DEF Hole
    <2>3. CASE Reopen
      BY <1>0, <2>3 DEF Reopen, SinkInv, Streams
    <2>4. CASE ShiftArchive \/ ArchiveActive \/ Truncate \/ Midnight \/ UNCHANGED vars
      <3>1. UNCHANGED <<lost, n>> /\ (InFlight' <=> InFlight)
        BY <2>4 DEF ShiftArchive, ArchiveActive, Truncate, Midnight, vars, callVars, envVars, InFlight
      <3> QED
        BY <1>0, <3>1 DEF Hole
    <2>5. CASE Construct \/ Put \/ flush \/ Destroy \/ Crash
      BY <2>5 DEF Construct, Put, flush, Destroy, Crash, InFlight
    <2> QED
      BY <2>1, <2>2, <2>3, <2>4, <2>5 DEF Next
  <1>2. CASE ShiftArchive \/ ArchiveActive
    <2>1. /\ pc = "shift" /\ i \in 0..(keep - 1)
          /\ Moves(i, i + 1) \/ (i \notin DOMAIN files /\ UNCHANGED files)
      BY <1>2, ShiftMoves DEF ShiftArchive, ArchiveActive
    <2>2. i \notin DOMAIN files'
      BY <2>1 DEF Moves
    <2>3. CASE ShiftArchive
      BY <1>0, <1>1, <2>1, <2>2, <2>3 DEF ShiftArchive
    <2>4. CASE ArchiveActive
      BY <1>0, <1>1, <2>1, <2>2, <2>4 DEF ArchiveActive
    <2> QED
      BY <1>2, <2>3, <2>4
  <1>3. CASE RotateIfNeeded
    BY <1>0, <1>1, <1>3 DEF RotateIfNeeded, FirstShift
  <1>4. CASE Midnight \/ UNCHANGED vars
    BY <1>0, <1>1, <1>4 DEF Midnight, vars, callVars, Hole
  <1> QED
    BY <1>1, <1>2, <1>3, <1>4
       DEF Next, Construct, Write, Reopen, Truncate, Put, flush, Destroy, Crash

\* The parts after a step, until an operation fails. Nothing happens to the log, ...
SameLog == (\A j \in Parts : Part(j)' = Part(j)) /\ Owed' = Owed /\ n' \in Nat /\ n <= n'

\* ... the current record is added, ...
Gains ==
  /\ InFlight /\ ~InFlight' /\ UNCHANGED n
  /\ Part(0)' = Append(Part(0), rec) /\ rec.id = n
  /\ \A j \in Parts \ {0} : Part(j)' = Part(j)
  /\ Owed' = Owed \cup {n}

\* ... one part takes the place of the next, which is the last or empty, ...
Shifts ==
  /\ UNCHANGED n /\ Owed' = Owed
  /\ ShiftArchive \/ ArchiveActive
  /\ \E j \in 0..(keep - 1) :
       /\ j = i
       /\ Part(j + 1)' = Part(j) /\ Part(j)' = <<>>
       /\ \A k \in Parts \ {j, j + 1} : Part(k)' = Part(k)
       /\ j + 1 = keep \/ Part(j + 1) = <<>>

\* ... without archives the active file is emptied, ...
Discards == keep <= 0 /\ Part(0)' = <<>> /\ UNCHANGED n /\ Owed' = Owed

\* ... or a crash loses the buffer.
LosesBuffer ==
  /\ UNCHANGED n /\ crashes' = crashes + 1
  /\ Part(0) = Part(0)' \o buffer /\ Part(0)' \in Seq(Record)
  /\ \A j \in Parts \ {0} : Part(j)' = Part(j)
  /\ Owed' = Owed \ Ids(buffer)

LEMMA LogMoves ==
  ASSUME SinkInv, SinkInv', Hole, [Next]_vars, failures' = 0
  PROVE  SameLog \/ Gains \/ Shifts \/ Discards \/ LosesBuffer
  <1>0. /\ failures = 0 /\ failures' # failures + 1 /\ UNCHANGED keep /\ keep \in Int
        /\ n \in Nat /\ lost \subseteq 1..n
    BY FailuresGrow, ModeFixed, FilesAreOK DEF SinkInv, TypeOK
  <1>a. /\ Content(0) \in Seq(Record) /\ buffer \in Seq(Record) /\ rec \in Record
        /\ Active \in Seq(Record)
    BY ActiveSeq
  <1>b. Content(0)' \in Seq(Record) /\ (buffer' = <<>> => Active' = Content(0)')
    <2>1. Content(0)' \in Seq(Record)
      BY EmptySeq DEF SinkInv, TypeOK, Content
    <2> QED
      BY <2>1, ConcatEmptySeq DEF Active
  <1>c. buffer = <<>> => Active = Content(0)
    BY <1>a, ConcatEmptySeq DEF Active
  <1>d. UNCHANGED <<files, buffer>> => \A j \in Parts : Part(j)' = Part(j)
    BY DEF Part, Active, Content
  <1>e. ASSUME NEW s \in Seq(Record), files' = With(files, 0, s)
        PROVE  (\A j \in Parts \ {0} : Part(j)' = Part(j)) /\ Content(0)' = s
    BY <1>e, WithFiles DEF SinkInv, Part, Content, Parts
  <1>f. ASSUME NEW s \in Seq(Record), HandOver(s), buffer' = <<>>
        PROVE  (\A j \in Parts \ {0} : Part(j)' = Part(j)) /\ Active' = Content(0) \o s
    <2>1. files' = With(files, 0, Content(0) \o s) /\ Content(0) \o s \in Seq(Record)
      BY <1>a, <1>f, ConcatProperties DEF HandOver
    <2> QED
      BY <1>b, <1>e, <1>f, <2>1
  <1>g. ASSUME NEW s, HandOver(s) \/ HandOverFails(s) PROVE HandOver(s) /\ UNCHANGED lost
    BY <1>0, <1>g DEF HandOverFails, HandOver, Fail
  <1>h. ASSUME UNCHANGED <<n, lost>>, Decided' = Decided PROVE Owed' = Owed
    BY <1>h DEF Owed
  <1>1. CASE Construct
    <2>1. Owed' = Owed /\ UNCHANGED n
      BY <1>1 DEF Construct, Owed, Decided, InFlight, callVars
    <2>2. files' = With(files, 0, Content(0)) /\ buffer = <<>> /\ buffer' = <<>>
      BY <1>0, <1>1 DEF Construct, open_if_needed, Fail, SinkInv, Streams
    <2>3. \A j \in Parts : Part(j)' = Part(j)
      BY <1>a, <1>b, <1>c, <1>e, <2>2 DEF Part
    <2> QED
      BY <1>0, <2>1, <2>3 DEF SameLog
  <1>2. ASSUME NEW size \in Sizes, Write(size) PROVE SameLog
    <2>1. n' = n + 1 /\ UNCHANGED <<files, buffer, lost>> /\ pc = "idle"
          /\ pc' \in {"rotate?", "open"}
      BY <1>0, <1>2 DEF Write, SinkInv, Streams, streamVars
    <2>2. Decided' = Decided
      BY <1>0, <2>1 DEF Decided, InFlight
    <2> QED
      BY <1>0, <1>d, <2>1, <2>2 DEF SameLog, Owed
  <1>3. CASE Reopen
    BY <1>0, <1>3 DEF Reopen, SinkInv, Streams
  <1>4. CASE RotateIfNeeded
    <2>1. Decided' = Decided /\ UNCHANGED n
      BY <1>4 DEF RotateIfNeeded, Decided, InFlight
    <2>2. CASE ~should_rotate(rec.size, today)
      BY <1>0, <1>4, <1>d, <1>h, <2>1, <2>2 DEF RotateIfNeeded, SameLog, streamVars
    <2>3. CASE should_rotate(rec.size, today)
      <3>1. HandOver(buffer) /\ UNCHANGED lost /\ buffer' = <<>>
        BY <1>4, <1>g, <2>3 DEF RotateIfNeeded
      <3>2. (\A j \in Parts \ {0} : Part(j)' = Part(j)) /\ Active' = Active
        BY <1>a, <1>f, <3>1 DEF Active
      <3>3. \A j \in Parts : Part(j)' = Part(j)
        BY <3>2 DEF Part
      <3> QED
        BY <1>0, <1>h, <2>1, <3>1, <3>3 DEF SameLog
    <2> QED
      BY <2>2, <2>3
  <1>5. CASE ShiftArchive \/ ArchiveActive
    <2>1. Decided' = Decided /\ UNCHANGED <<n, lost, buffer>> /\ buffer = <<>> /\ pc = "shift"
      BY <1>5 DEF ShiftArchive, ArchiveActive, Decided, InFlight, callVars, streamVars, SinkInv, Streams
    <2>2. PICK j \in 0..(keep - 1) :
            j = i /\ (Moves(j, j + 1) \/ (j \notin DOMAIN files /\ UNCHANGED files))
      BY <1>5, ShiftMoves
    <2>3. CASE UNCHANGED files
      BY <1>0, <1>d, <1>h, <2>1, <2>3 DEF SameLog
    <2>4. CASE Moves(j, j + 1)
      <3>1. /\ \A k : Part(k) = Content(k)
            /\ \A k : Part(k)' = Content(k)'
        BY <1>b, <1>c, <2>1 DEF Part
      <3>2. /\ Content(j + 1)' = Content(j) /\ Content(j)' = <<>>
            /\ \A k \in Parts \ {j, j + 1} : Content(k)' = Content(k)
        BY <1>0, <2>2, <2>4 DEF Moves, Content
      <3>3. j + 1 = keep \/ Content(j + 1) = <<>>
        BY <1>0, <2>1, <2>2 DEF Hole, Content
      <3>4. Shifts
        BY <1>5, <1>h, <2>1, <2>2, <3>1, <3>2, <3>3 DEF Shifts
      <3> QED
        BY <3>4
    <2> QED
      BY <2>2, <2>3, <2>4
  <1>6. CASE Truncate
    <2>1. Decided' = Decided /\ UNCHANGED <<n, lost, buffer>> /\ buffer = <<>> /\ pc = "truncate"
          /\ files' = With(files, 0, <<>>)
      BY <1>0, <1>6 DEF Truncate, Fail, Decided, InFlight, callVars, SinkInv, Streams
    <2>2. (\A j \in Parts \ {0} : Part(j)' = Part(j)) /\ Part(0)' = <<>>
      BY <1>b, <1>e, <2>1, EmptySeq DEF Part
    <2>3. CASE keep <= 0
      BY <1>h, <2>1, <2>2, <2>3 DEF Discards
    <2>4. CASE keep >= 1
      <3>1. Part(0) = <<>>
        BY <1>0, <1>c, <2>1, <2>4 DEF Hole, Part, Content
      <3>2. \A j \in Parts : Part(j)' = Part(j)
        BY <2>2, <3>1
      <3> QED
        BY <1>0, <1>h, <2>1, <3>2 DEF SameLog
    <2> QED
      BY <1>0, <2>3, <2>4
  <1>7. CASE Put
    <2> DEFINE s == Append(buffer, rec)
    <2>1. s \in Seq(Record) /\ Content(0) \o s = Append(Active, rec)
      BY <1>a, IdsAppend, ConcatAppend DEF Active
    <2>2. pc = "put" /\ pc' = "idle" /\ good /\ UNCHANGED n /\ InFlight /\ ~InFlight'
      BY <1>0, <1>7 DEF Put, SinkInv, Streams, callVars, InFlight
    <2>a. ASSUME UNCHANGED lost, \A j \in Parts \ {0} : Part(j)' = Part(j), Active' = Content(0) \o s
          PROVE  Gains
      <3>1. rec.id = n /\ n \notin lost /\ n >= 1
        BY <1>0, <2>2 DEF SinkInv, Known, Hole
      <3>2. Decided = 1..(n - 1) /\ Decided' = 1..n
        BY <2>2 DEF Decided
      <3>3. 1..n = (1..(n - 1)) \cup {n}
        BY <1>0, <3>1
      <3>4. Owed' = Owed \cup {n}
        BY <2>a, <3>1, <3>2, <3>3 DEF Owed
      <3>5. Part(0)' = Append(Part(0), rec)
        BY <2>1, <2>a DEF Part
      <3> QED
        BY <2>2, <2>a, <3>1, <3>4, <3>5 DEF Gains
    <2>3. CASE buffer' = s /\ UNCHANGED <<files, lost>>
      <3>1. (\A j \in Parts \ {0} : Part(j)' = Part(j)) /\ Active' = Content(0) \o s
        BY <2>3 DEF Part, Active, Content, Parts
      <3> QED
        BY <2>3, <2>a, <3>1
    <2>4. CASE buffer' = <<>> /\ (HandOver(s) \/ HandOverFails(s))
      <3>1. HandOver(s) /\ UNCHANGED lost
        BY <1>g, <2>4
      <3>2. (\A j \in Parts \ {0} : Part(j)' = Part(j)) /\ Active' = Content(0) \o s
        BY <1>f, <2>1, <2>4, <3>1
      <3> QED
        BY <2>a, <3>1, <3>2
    <2> QED
      BY <1>7, <2>2, <2>3, <2>4 DEF Put
  <1>8. CASE flush \/ Destroy
    <2>1. Decided' = Decided /\ UNCHANGED n /\ buffer' = <<>>
      BY <1>8 DEF flush, Destroy, Decided, InFlight, callVars
    <2>2. HandOver(buffer) \/ HandOverFails(buffer)
      BY <1>0, <1>8 DEF flush, Destroy, SinkInv, Streams
    <2>3. HandOver(buffer) /\ UNCHANGED lost
      BY <1>g, <2>2
    <2>4. (\A j \in Parts \ {0} : Part(j)' = Part(j)) /\ Active' = Active
      BY <1>a, <1>f, <2>1, <2>3 DEF Active
    <2>5. \A j \in Parts : Part(j)' = Part(j)
      BY <2>4 DEF Part
    <2> QED
      BY <1>0, <1>h, <2>1, <2>3, <2>5 DEF SameLog
  <1>9. CASE Crash
    <2>1. UNCHANGED <<n, files>> /\ buffer' = <<>> /\ pc' = "down" /\ pc # "down"
          /\ crashes' = crashes + 1
          /\ lost' = lost \cup Ids(buffer) \cup (IF pc = "idle" THEN {} ELSE {rec.id})
      BY <1>9 DEF Crash, callVars
    <2>2. Owed' = Owed \ Ids(buffer)
      <3>1. Decided' = 1..n
        BY <2>1 DEF Decided, InFlight
      <3>2. CASE pc = "idle"
        BY <2>1, <3>1, <3>2 DEF Owed, Decided, InFlight
      <3>3. CASE pc # "idle"
        <4>1. rec.id = n /\ Decided = 1..(n - 1)
          BY <2>1, <3>3 DEF Decided, InFlight, SinkInv, Known
        <4>2. (1..n) \ {n} = 1..(n - 1)
          BY <1>0
        <4> QED
          BY <2>1, <3>1, <3>3, <4>1, <4>2 DEF Owed
      <3> QED
        BY <3>2, <3>3
    <2>3. Part(0)' = Content(0) /\ Part(0) = Content(0) \o buffer
      BY <1>b, <2>1 DEF Part, Active, Content
    <2>4. \A j \in Parts \ {0} : Part(j)' = Part(j)
      BY <2>1 DEF Part, Content
    <2> QED
      BY <1>a, <2>1, <2>2, <2>3, <2>4 DEF LosesBuffer
  <1>10. CASE Midnight \/ UNCHANGED vars
    <2>1. UNCHANGED <<n, lost, files, buffer>> /\ Decided' = Decided
      BY <1>10 DEF Midnight, vars, sinkVars, streamVars, callVars, envVars, Decided, InFlight
    <2> QED
      BY <1>0, <1>d, <1>h, <2>1 DEF SameLog
  <1> QED
    BY <1>1, <1>2, <1>3, <1>4, <1>5, <1>6, <1>7, <1>8, <1>9, <1>10 DEF Next

KeptFrom(cut) == \A r : r \in Retained <=> r \in Owed /\ r > cut

LEMMA NewestUnfolded ==
  n \in Nat =>
    (NewestKept <=> (failures = 0 => LogInOrder /\ \E cut \in 0..n : KeptFrom(cut)))
  <1> HAVE n \in Nat
  <1>1. ASSUME NEW cut \in 0..n
        PROVE  KeptFrom(cut) <=>
                 Retained = {r \in 1..n : r > cut /\ r \notin lost /\ ~(InFlight /\ r = n)}
    <2>1. \A r : r \in Owed <=> r \in 1..n /\ r \notin lost /\ ~(InFlight /\ r = n)
      BY DEF Owed, Decided
    <2> QED
      BY <2>1 DEF KeptFrom
  <1> QED
    BY <1>1 DEF NewestKept

LEMMA PartsOK ==
  ASSUME SinkInv
  PROVE  /\ \A j \in Parts : Part(j) \in Seq(Record) /\ Ids(Part(j)) \subseteq Decided
         /\ Decided \subseteq 1..n /\ n \in Nat /\ keep \in Int
  <1>1. Decided \subseteq 1..n /\ n \in Nat /\ keep \in Int
    BY FilesAreOK DEF Decided, SinkInv, TypeOK
  <1>2. ASSUME NEW j \in Parts PROVE Part(j) \in Seq(Record) /\ Ids(Part(j)) \subseteq Decided
    <2>1. CASE j = 0
      <3>1. Ids(Active) = Ids(Content(0)) \cup Ids(buffer)
        BY ActiveSeq, IdsConcat DEF Active
      <3> QED
        BY <2>1, <3>1, ActiveSeq, FilesAreOK DEF Part, SinkInv, Known
    <2>2. CASE j # 0
      BY <2>2, ContentSeq, IdsEmpty DEF Part, Content, SinkInv, Known
    <2> QED
      BY <2>1, <2>2
  <1> QED
    BY <1>1, <1>2

LEMMA RetainedMember ==
  /\ \A r : r \in Retained <=> \E j \in Parts : r \in Ids(Part(j))
  /\ \A r : r \in Retained' <=> \E j \in Parts' : r \in Ids(Part(j)')
  BY DEF Retained

LEMMA AppendInOrder ==
  ASSUME NEW s \in Seq(Record), NEW r \in Record, InOrder(s), \A x \in Ids(s) : x < r.id
  PROVE  InOrder(Append(s, r))
  <1> DEFINE t == Append(s, r)
  <1>1. /\ DOMAIN t = 1..(Len(s) + 1) /\ DOMAIN s = 1..Len(s) /\ Len(s) \in Nat
        /\ t[Len(s) + 1] = r /\ \A j \in 1..Len(s) : t[j] = s[j]
    OBVIOUS
  <1> HIDE DEF t
  <1>2. ASSUME NEW j \in DOMAIN t, NEW k \in DOMAIN t, j < k PROVE t[j].id < t[k].id
    <2>1. j \in 1..Len(s) /\ t[j] = s[j]
      BY <1>1, <1>2
    <2>2. CASE k \in 1..Len(s)
      BY <1>1, <1>2, <2>1, <2>2 DEF InOrder
    <2>3. CASE k = Len(s) + 1
      BY <1>1, <2>1, <2>3 DEF Ids
    <2> QED
      BY <1>1, <2>2, <2>3
  <1>3. InOrder(t)
    BY <1>2 DEF InOrder
  <1> QED
    BY <1>3 DEF t

\* In a sequence of records in order, the first part precedes the second.
LEMMA ConcatInOrder ==
  ASSUME NEW s \in Seq(Record), NEW t \in Seq(Record), InOrder(s \o t)
  PROVE  /\ InOrder(s)
         /\ \A x \in Ids(s), y \in Ids(t) : x < y
  <1>1. /\ DOMAIN (s \o t) = 1..(Len(s) + Len(t)) /\ Len(s) \in Nat /\ Len(t) \in Nat
        /\ DOMAIN s = 1..Len(s) /\ DOMAIN t = 1..Len(t)
        /\ \A j \in 1..Len(s) : (s \o t)[j] = s[j]
        /\ \A j \in 1..Len(t) : (s \o t)[Len(s) + j] = t[j]
    BY ConcatProperties
  <1> DEFINE u == s \o t
  <1> HIDE DEF u
  <1>2. InOrder(s)
    BY <1>1 DEF InOrder, u
  <1>3. ASSUME NEW x \in Ids(s), NEW y \in Ids(t) PROVE x < y
    <2>1. PICK j \in DOMAIN s : x = s[j].id
      BY DEF Ids
    <2>2. PICK k \in DOMAIN t : y = t[k].id
      BY DEF Ids
    <2>3. j \in DOMAIN u /\ Len(s) + k \in DOMAIN u /\ j < Len(s) + k
      BY <1>1 DEF u
    <2>4. u[j].id < u[Len(s) + k].id
      BY <2>3 DEF InOrder, u
    <2>5. u[j] = s[j] /\ u[Len(s) + k] = t[k]
      BY <1>1 DEF u
    <2> QED
      BY <2>1, <2>2, <2>4, <2>5
  <1> QED
    BY <1>2, <1>3

\* The newest record of a nonempty part.
LEMMA LastIsNewest ==
  ASSUME NEW s \in Seq(Record), s # <<>>, InOrder(s)
  PROVE  \E m \in Ids(s) : \A x \in Ids(s) : x <= m
  <1>1. Len(s) \in DOMAIN s /\ Len(s) \in Nat /\ DOMAIN s = 1..Len(s)
    BY EmptySeq
  <1>2. \A j \in DOMAIN s : s[j].id \in Nat
    BY SizeNat
  <1>3. \A j \in DOMAIN s : s[j].id <= s[Len(s)].id
    BY <1>1, <1>2 DEF InOrder
  <1>4. s[Len(s)].id \in Ids(s)
    BY <1>1 DEF Ids
  <1>5. \A x \in Ids(s) : x <= s[Len(s)].id
    BY <1>3 DEF Ids
  <1> QED
    BY <1>4, <1>5

-----------------------------------------------------------------------------
(* The order of the retained log.                                          *)

\* The parts after a step, whatever fails. Some part loses its end, ...
Shortens == \A j \in Parts : IsPrefixOf(Part(j)', Part(j))

\* ... the current record is added to the active file, unless it is torn off again, ...
Grows ==
  /\ InFlight /\ IsPrefixOf(Part(0)', Append(Part(0), rec))
  /\ \A j \in Parts \ {0} : Part(j)' = Part(j)

\* ... or one part takes the place of the next, destroying it.
Replaces(j) ==
  /\ Part(j + 1)' = Part(j) /\ Part(j)' = <<>>
  /\ \A k \in Parts \ {j, j + 1} : Part(k)' = Part(k)

LEMMA PrefixSelf ==
  ASSUME NEW s \in Seq(Record)
  PROVE  IsPrefixOf(s, s) /\ IsPrefixOf(<<>>, s)
  <1>1. Len(s) \in Nat /\ Len(<<>>) = 0
    BY EmptySeq
  <1> QED
    BY <1>1 DEF IsPrefixOf

LEMMA PrefixInOrder ==
  ASSUME NEW s \in Seq(Record), NEW t \in Seq(Record), IsPrefixOf(s, t)
  PROVE  Ids(s) \subseteq Ids(t) /\ (InOrder(t) => InOrder(s))
  <1>1. /\ DOMAIN s = 1..Len(s) /\ DOMAIN t = 1..Len(t) /\ Len(s) \in Nat /\ Len(t) \in Nat
        /\ Len(s) <= Len(t)
    BY DEF IsPrefixOf
  <1>2. \A j \in DOMAIN s : j \in DOMAIN t /\ s[j] = t[j]
    BY <1>1 DEF IsPrefixOf
  <1>3. Ids(s) \subseteq Ids(t)
    BY <1>2 DEF Ids
  <1>4. InOrder(t) => InOrder(s)
    BY <1>2 DEF InOrder
  <1> QED
    BY <1>3, <1>4

\* Only a rename touches the archives.
LEMMA ArchivesStay ==
  ASSUME SinkInv, [Next]_vars, ~ShiftArchive, ~ArchiveActive, NEW j \in Parts \ {0}
  PROVE  Part(j)' = Part(j)
  <1>1. ASSUME NEW s, files' = With(files, 0, s) PROVE Part(j)' = Part(j)
    BY <1>1 DEF With, Part, Content
  <1>2. ASSUME UNCHANGED files PROVE Part(j)' = Part(j)
    BY <1>2 DEF Part, Content
  <1>3. UNCHANGED files \/ \E s : files' = With(files, 0, s)
    <2>1. ASSUME NEW s, HandOver(s) \/ HandOverFails(s) PROVE \E t : files' = With(files, 0, t)
      BY <2>1 DEF HandOver, HandOverFails
    <2>2. CASE Construct \/ Reopen \/ Truncate
      BY <2>2 DEF Construct, Reopen, Truncate, open_if_needed
    <2>3. CASE RotateIfNeeded
      BY <2>1, <2>3 DEF RotateIfNeeded
    <2>4. CASE Put
      BY <2>1, <2>4 DEF Put
    <2>5. CASE flush \/ Destroy
      BY <2>1, <2>5 DEF flush, Destroy
    <2>6. CASE (\E size \in Sizes : Write(size)) \/ Crash \/ Midnight \/ UNCHANGED vars
      BY <2>6 DEF Write, Crash, Midnight, vars
    <2> QED
      BY <2>2, <2>3, <2>4, <2>5, <2>6 DEF Next
  <1> QED
    BY <1>1, <1>2, <1>3

LEMMA PartsMove ==
  ASSUME SinkInv, SinkInv', [Next]_vars
  PROVE  Shortens \/ Grows \/ \E j \in 0..(keep - 1) : Replaces(j)
  <1>0. \A j \in Parts : Part(j) \in Seq(Record)
    BY PartsOK
  <1>p. 0 \in Parts /\ Part(0) = Active /\ Part(0)' = Active'
    BY DEF Parts, Part
  <1>s. ASSUME \A j \in Parts : Part(j)' = Part(j) PROVE Shortens
    BY <1>0, <1>s, PrefixSelf DEF Shortens
  <1>1. CASE ShiftArchive \/ ArchiveActive
    <2>1. i \in 0..(keep - 1) /\ Rename(i, i + 1) /\ keep \in Int
      BY <1>1, FilesAreOK DEF ShiftArchive, ArchiveActive, LoopIndex, SinkInv
    <2>2. UNCHANGED buffer /\ buffer = <<>>
      BY <1>1 DEF ShiftArchive, ArchiveActive, streamVars, SinkInv, Streams
    <2>3. CASE UNCHANGED files
      <3>1. \A j \in Parts : Part(j)' = Part(j)
        BY <2>2, <2>3 DEF Part, Active, Content
      <3> QED
        BY <1>s, <3>1
    <2>4. CASE Moves(i, i + 1)
      <3>1. PICK j \in 0..(keep - 1) : j = i /\ Moves(j, j + 1)
        BY <2>1, <2>4
      <3>2. (\A k : Part(k) = Content(k)) /\ (\A k : Part(k)' = Content(k)')
        <4>1. Content(0) \in Seq(Record) /\ Content(0)' \in Seq(Record)
          BY ActiveSeq, EmptySeq DEF SinkInv, TypeOK, Content
        <4>2. Active = Content(0) /\ Active' = Content(0)'
          BY <2>2, <4>1, ConcatEmptySeq DEF Active
        <4> QED
          BY <4>2 DEF Part
      <3>3. /\ Content(j + 1)' = Content(j) /\ Content(j)' = <<>>
            /\ \A k \in Parts \ {j, j + 1} : Content(k)' = Content(k)
        BY <2>1, <3>1 DEF Moves, Content
      <3>4. Replaces(j)
        BY <3>2, <3>3 DEF Replaces
      <3> QED
        BY <3>4
    <2> QED
      BY <2>1, <2>3, <2>4, Renames
  <1>2. CASE ~ShiftArchive /\ ~ArchiveActive
    <2>1. \A j \in Parts \ {0} : Part(j)' = Part(j)
      BY <1>2, ArchivesStay
    <2>2. ASSUME IsPrefixOf(Active', Active) PROVE Shortens
      <3>1. ASSUME NEW j \in Parts PROVE IsPrefixOf(Part(j)', Part(j))
        <4>1. CASE j = 0
          BY <1>p, <2>2, <4>1
        <4>2. CASE j # 0
          BY <1>0, <2>1, <4>2, PrefixSelf
        <4> QED
          BY <4>1, <4>2
      <3> QED
        BY <3>1 DEF Shortens
    <2>3. CASE Keeps \/ Empties
      <3>1. IsPrefixOf(Active', Active)
        BY <1>0, <1>p, <2>3, PrefixSelf DEF Keeps, Empties
      <3> QED
        BY <2>2, <3>1
    <2>4. CASE Records \/ Tears
      <3>1. CASE IsPrefixOf(Active', Active)
        BY <2>2, <3>1
      <3>2. CASE pc = "put" /\ Active' = Append(Active, rec)
        <4>1. Append(Active, rec) \in Seq(Record)
          BY ActiveSeq
        <4>2. IsPrefixOf(Active', Append(Active, rec))
          BY <3>2, <4>1, PrefixSelf
        <4> QED
          BY <1>p, <2>1, <3>2, <4>2 DEF Grows, InFlight
      <3>3. CASE pc = "put" /\ IsPrefixOf(Active', Append(Active, rec))
        BY <1>p, <2>1, <3>3 DEF Grows, InFlight
      <3> QED
        BY <2>4, <3>1, <3>2, <3>3 DEF Records, Tears
    <2> QED
      BY <2>3, <2>4, ActiveMoves
  <1> QED
    BY <1>1, <1>2

LEMMA PartsAreTyped == SinkInv => \A j \in Parts : Part(j) \in Seq(Record)
  BY PartsOK

LEMMA OrderStep ==
  ASSUME SinkInv, SinkInv', [Next]_vars, LogInOrder
  PROVE  LogInOrder'
  <1>0. /\ \A j \in Parts : Part(j) \in Seq(Record) /\ Ids(Part(j)) \subseteq Decided
        /\ Decided \subseteq 1..n /\ n \in Nat /\ keep \in Int
    BY PartsOK
  <1>p. Parts' = Parts /\ 0 \in Parts /\ \A j \in Parts : j \in Int
    BY <1>0, ModeFixed DEF Parts
  <1>q. \A j \in Parts : Part(j)' \in Seq(Record)
    <2>1. (SinkInv => \A j \in Parts : Part(j) \in Seq(Record))'
      BY PartsAreTyped, PTL
    <2> QED
      BY <1>p, <2>1
  <1>1. CASE Shortens
    <2>1. \A j \in Parts : InOrder(Part(j)') /\ Ids(Part(j)') \subseteq Ids(Part(j))
      BY <1>0, <1>1, <1>q, PrefixInOrder DEF Shortens, LogInOrder
    <2> QED
      BY <1>p, <2>1 DEF LogInOrder
  <1>2. CASE Grows
    <2> DEFINE t == Append(Part(0), rec)
    <2>1. rec \in Record /\ rec.id = n /\ Decided = 1..(n - 1)
      BY <1>2, ActiveSeq DEF Grows, SinkInv, Known, Decided
    <2>2. \A j \in Parts : \A x \in Ids(Part(j)) : x < n
      BY <1>0, <2>1
    <2>3. t \in Seq(Record) /\ Ids(t) = Ids(Part(0)) \cup {n} /\ InOrder(t)
      BY <1>0, <1>p, <2>1, <2>2, IdsAppend, AppendInOrder DEF LogInOrder
    <2> HIDE DEF t
    <2>4. InOrder(Part(0)') /\ Ids(Part(0)') \subseteq Ids(Part(0)) \cup {n}
      <3>1. IsPrefixOf(Part(0)', t)
        BY <1>2 DEF Grows, t
      <3> QED
        BY <1>p, <1>q, <2>3, <3>1, PrefixInOrder
    <2>5. \A j \in Parts : InOrder(Part(j)')
      BY <1>2, <2>4 DEF Grows, LogInOrder
    <2>6. ASSUME NEW j \in Parts, NEW k \in Parts, j < k,
                 NEW old \in Ids(Part(k)'), NEW new \in Ids(Part(j)')
          PROVE  old < new
      <3>1. k # 0
        BY <1>p, <2>6 DEF Parts
      <3>2. old \in Ids(Part(k))
        BY <1>2, <2>6, <3>1 DEF Grows
      <3>3. new \in Ids(Part(j)) \/ new = n
        BY <1>2, <2>4, <2>6 DEF Grows
      <3> QED
        BY <2>2, <2>6, <3>2, <3>3 DEF LogInOrder
    <2> QED
      BY <1>p, <2>5, <2>6 DEF LogInOrder
  <1>3. ASSUME NEW j \in 0..(keep - 1), Replaces(j) PROVE LogInOrder'
    <2>1. /\ Part(j + 1)' = Part(j) /\ Part(j)' = <<>>
          /\ \A k \in Parts \ {j, j + 1} : Part(k)' = Part(k)
      BY <1>3 DEF Replaces
    <2>2. j \in Parts /\ j + 1 \in Parts /\ j \in Int
      BY <1>0 DEF Parts
    <2>3. ASSUME NEW k \in Parts PROVE InOrder(Part(k)')
      BY <2>1, <2>2 DEF LogInOrder, InOrder
    <2>4. ASSUME NEW k \in Parts, NEW l \in Parts, k < l,
                 NEW old \in Ids(Part(l)'), NEW new \in Ids(Part(k)')
          PROVE  old < new
      <3>1. k # j /\ l # j
        BY <2>1, <2>4, IdsEmpty
      <3>2. CASE l = j + 1
        <4>1. k < j /\ k \in Parts \ {j, j + 1}
          BY <1>p, <2>2, <2>4, <3>1, <3>2
        <4>2. Part(k)' = Part(k) /\ Part(l)' = Part(j)
          BY <2>1, <3>2, <4>1
        <4> QED
          BY <2>2, <2>4, <4>1, <4>2 DEF LogInOrder
      <3>3. CASE k = j + 1
        <4>1. j < l /\ l \in Parts \ {j, j + 1}
          BY <1>p, <2>2, <2>4, <3>3
        <4>2. Part(l)' = Part(l) /\ Part(k)' = Part(j)
          BY <2>1, <3>3, <4>1
        <4> QED
          BY <2>2, <2>4, <4>1, <4>2 DEF LogInOrder
      <3>4. CASE l # j + 1 /\ k # j + 1
        <4>1. Part(k)' = Part(k) /\ Part(l)' = Part(l)
          BY <2>1, <3>1, <3>4
        <4> QED
          BY <2>4, <4>1 DEF LogInOrder
      <3> QED
        BY <3>2, <3>3, <3>4
    <2> QED
      BY <1>p, <2>3, <2>4 DEF LogInOrder
  <1> QED
    BY <1>1, <1>2, <1>3, PartsMove

\* Whatever file operations fail and wherever the process crashes, the archives and the
\* active file can be read in order, without duplicates (rotate_files, write, the
\* constructor).
THEOREM LogStaysInOrder == Spec => []LogInOrder
  <1>1. Init => LogInOrder
    <2> SUFFICES ASSUME Init PROVE LogInOrder
      OBVIOUS
    <2>1. Content(0) = <<>> /\ \A j : Content(j) = <<>>
      BY DEF Init, Content
    <2>2. Active = <<>>
      BY <2>1, ConcatEmptySeq, EmptySeq DEF Init, Active
    <2>3. \A j : Part(j) = <<>>
      BY <2>1, <2>2 DEF Part
    <2> QED
      BY <2>3, IdsEmpty DEF LogInOrder, InOrder
  <1>2. SinkInv /\ SinkInv' /\ LogInOrder /\ [Next]_vars => LogInOrder'
    BY OrderStep
  <1> QED
    BY <1>1, <1>2, SinkInvariant, PTL DEF Spec

-----------------------------------------------------------------------------
(* What the log retains.                                                   *)

LEMMA NewestStep ==
  ASSUME SinkInv, SinkInv', Hole, [Next]_vars, failures' = 0,
         LogInOrder, NEW cut \in 0..n, KeptFrom(cut)
  PROVE  \E c \in 0..n' : KeptFrom(c)'
  <1>0. /\ \A j \in Parts : Part(j) \in Seq(Record) /\ Ids(Part(j)) \subseteq Decided
        /\ Decided \subseteq 1..n /\ n \in Nat /\ keep \in Int
    BY PartsOK
  <1>p. Parts' = Parts /\ 0 \in Parts /\ \A j \in Parts : j \in Int
    BY <1>0, ModeFixed DEF Parts
  <1>1. CASE SameLog
    <2>2. KeptFrom(cut)'
      BY <1>1, <1>p, RetainedMember DEF SameLog, KeptFrom
    <2>3. cut \in 0..n'
      BY <1>0, <1>1 DEF SameLog
    <2> QED
      BY <2>2, <2>3
  <1>2. CASE Gains
    <2>1. /\ Part(0)' = Append(Part(0), rec) /\ rec.id = n /\ UNCHANGED n
          /\ \A j \in Parts \ {0} : Part(j)' = Part(j)
          /\ Owed' = Owed \cup {n} /\ rec \in Record /\ Decided = 1..(n - 1)
      BY <1>2, ActiveSeq DEF Gains, Decided
    <2>2. Ids(Part(0)') = Ids(Part(0)) \cup {n}
      BY <1>0, <1>p, <2>1, IdsAppend
    <2>6. n >= 1
      BY <1>2 DEF Gains, SinkInv, Known
    <2>7. PICK c \in 0..n' : c < n /\ c = IF cut = n THEN n - 1 ELSE cut
      BY <1>0, <2>1, <2>6
    <2>8. \A r : r \in Retained' <=> r \in Retained \/ r = n
      BY <1>p, <2>1, <2>2, RetainedMember
    <2>9. \A r \in Owed : r \in 1..(n - 1)
      BY <2>1 DEF Owed
    <2>10. \A r \in Owed : r > cut <=> r > c
      BY <1>0, <2>6, <2>7, <2>9
    <2>11. KeptFrom(c)'
      BY <2>1, <2>7, <2>8, <2>10 DEF KeptFrom
    <2> QED
      BY <2>7, <2>11
  <1>3. CASE Shifts
    <2>1. PICK j \in 0..(keep - 1) :
            /\ Part(j + 1)' = Part(j) /\ Part(j)' = <<>>
            /\ \A k \in Parts \ {j, j + 1} : Part(k)' = Part(k)
            /\ j + 1 = keep \/ Part(j + 1) = <<>>
      BY <1>3 DEF Shifts
    <2>2. j \in Parts /\ j + 1 \in Parts /\ j \in Int
      BY <1>0 DEF Parts
    <2>3. UNCHANGED n /\ Owed' = Owed
      BY <1>3 DEF Shifts
    <2>5. ASSUME NEW r PROVE r \in Retained' <=> \E k \in Parts \ {j + 1} : r \in Ids(Part(k))
      <3>1. ASSUME r \in Retained' PROVE \E k \in Parts \ {j + 1} : r \in Ids(Part(k))
        <4>1. PICK k \in Parts : r \in Ids(Part(k)')
          BY <1>p, <3>1, RetainedMember
        <4>2. k # j
          BY <2>1, <4>1, IdsEmpty
        <4>3. CASE k = j + 1
          <5>1. r \in Ids(Part(j)) /\ j \in Parts \ {j + 1}
            BY <2>1, <2>2, <4>1, <4>3
          <5> QED
            BY <5>1
        <4>4. CASE k # j + 1
          BY <2>1, <4>1, <4>2, <4>4
        <4> QED
          BY <4>3, <4>4
      <3>2. ASSUME NEW k \in Parts \ {j + 1}, r \in Ids(Part(k)) PROVE r \in Retained'
        <4>1. CASE k = j
          <5>1. r \in Ids(Part(j + 1)')
            BY <2>1, <3>2, <4>1
          <5> QED
            BY <1>p, <2>2, <5>1, RetainedMember
        <4>2. CASE k # j
          <5>1. r \in Ids(Part(k)')
            BY <2>1, <3>2, <4>2
          <5> QED
            BY <1>p, <5>1, RetainedMember
        <4> QED
          BY <4>1, <4>2
      <3> QED
        BY <3>1, <3>2
    <2>6. CASE Part(j + 1) = <<>>
      <3>1. \A r : r \in Retained' <=> r \in Retained
        BY <2>5, <2>6, IdsEmpty, RetainedMember
      <3>2. KeptFrom(cut)'
        BY <2>3, <3>1 DEF KeptFrom
      <3> QED
        BY <2>3, <3>2
    <2>7. CASE j + 1 = keep /\ Part(j + 1) # <<>>
      <3>1. PICK m \in Ids(Part(keep)) : \A x \in Ids(Part(keep)) : x <= m
        BY <1>0, <2>2, <2>7, LastIsNewest DEF LogInOrder
      <3>2. m \in Retained /\ m > cut /\ m \in 1..n
        BY <1>0, <2>2, <2>7, <3>1, RetainedMember DEF KeptFrom
      <3>3. \A k \in Parts \ {keep} : \A x \in Ids(Part(k)) : m < x
        <4>1. ASSUME NEW k \in Parts \ {keep} PROVE k < keep
          BY <1>0, <2>7 DEF Parts
        <4> QED
          BY <2>2, <2>7, <3>1, <4>1 DEF LogInOrder
      <3>4. ASSUME NEW r PROVE r \in Retained' <=> r \in Owed /\ r > m
        <4>1. r \in Retained <=> r \in Owed /\ r > cut
          BY DEF KeptFrom
        <4>3. r \in Owed => r \in Nat
          BY <1>0 DEF Owed
        <4>2. r \in Retained => r \in Nat
          BY <4>1, <4>3
        <4>4. r \in Retained' => r \in Retained /\ m < r
          BY <2>5, <2>7, <3>3, RetainedMember
        <4>5. r \in Retained /\ r > m => r \in Retained'
          <5> SUFFICES ASSUME r \in Retained, r > m PROVE r \in Retained'
            OBVIOUS
          <5>1. PICK k \in Parts : r \in Ids(Part(k))
            BY RetainedMember
          <5>2. k # keep
            BY <1>0, <3>1, <3>2, <4>2, <5>1
          <5> QED
            BY <2>5, <2>7, <5>1, <5>2
        <4>6. r \in Owed /\ r > m => r > cut
          BY <3>2, <4>3
        <4> QED
          BY <3>2, <4>1, <4>2, <4>3, <4>4, <4>5, <4>6
      <3>5. KeptFrom(m)'
        BY <2>3, <3>4 DEF KeptFrom
      <3>6. m \in 0..n'
        BY <2>3, <3>2
      <3> QED
        BY <3>5, <3>6
    <2> QED
      BY <2>1, <2>6, <2>7
  <1>4. CASE Discards
    <2>1. Parts = {0} /\ Part(0)' = <<>> /\ UNCHANGED n /\ Owed' = Owed
      BY <1>0, <1>4 DEF Discards, Parts
    <2>3. \A r : r \notin Retained'
      BY <1>p, <2>1, IdsEmpty, RetainedMember
    <2>4. \A r \in Owed : ~(r > n)
      BY <1>0 DEF Owed
    <2>5. KeptFrom(n)' /\ n \in 0..n'
      BY <1>0, <2>1, <2>3, <2>4 DEF KeptFrom
    <2> QED
      BY <2>1, <2>5
  <1>5. CASE LosesBuffer
    <2>1. /\ Part(0) = Part(0)' \o buffer /\ Part(0)' \in Seq(Record) /\ buffer \in Seq(Record)
          /\ \A j \in Parts \ {0} : Part(j)' = Part(j)
          /\ Owed' = Owed \ Ids(buffer) /\ UNCHANGED n
      BY <1>5, ActiveSeq DEF LosesBuffer
    <2>2. InOrder(Part(0)') /\ \A x \in Ids(Part(0)'), y \in Ids(buffer) : x < y
      BY <1>p, <2>1, ConcatInOrder DEF LogInOrder
    <2>3. Ids(Part(0)) = Ids(Part(0)') \cup Ids(buffer)
      BY <2>1, IdsConcat
    <2>5. ASSUME NEW j \in Parts PROVE Ids(Part(j)') \cap Ids(buffer) = {}
      <3>1. Ids(buffer) \subseteq Nat /\ \A k \in Parts : Ids(Part(k)) \subseteq Nat
        <4>1. Decided \subseteq Nat
          BY <1>0
        <4> QED
          BY <1>0, <1>p, <2>3, <4>1
      <3>2. CASE j = 0
        BY <1>0, <2>2, <2>3, <3>1, <3>2
      <3>3. CASE j # 0
        <4>1. 0 < j /\ Part(j)' = Part(j)
          BY <1>p, <2>1, <3>3 DEF Parts
        <4>2. \A x \in Ids(Part(j)), y \in Ids(buffer) : x < y
          BY <1>p, <2>3, <4>1 DEF LogInOrder
        <4> QED
          BY <3>1, <4>1, <4>2
      <3> QED
        BY <3>2, <3>3
    <2>6. ASSUME NEW r PROVE r \in Retained' <=> r \in Retained /\ r \notin Ids(buffer)
      <3>1. ASSUME r \in Retained' PROVE r \in Retained /\ r \notin Ids(buffer)
        BY <1>p, <2>1, <2>3, <2>5, <3>1, RetainedMember
      <3>2. ASSUME r \in Retained, r \notin Ids(buffer) PROVE r \in Retained'
        BY <1>p, <2>1, <2>3, <3>2, RetainedMember
      <3> QED
        BY <3>1, <3>2
    <2>7. KeptFrom(cut)'
      BY <2>1, <2>6 DEF KeptFrom
    <2> QED
      BY <2>1, <2>7
  <1> QED
    BY <1>1, <1>2, <1>3, <1>4, <1>5, LogMoves

\* Until a file operation fails, rotation only forgets the oldest end of the log, for any
\* number of archives and crashes between any two renames (rotate_files).
THEOREM NewestIsKept == Spec => []NewestKept
  <1>1. Init => Hole /\ NewestKept
    <2> SUFFICES ASSUME Init PROVE Hole /\ NewestKept
      OBVIOUS
    <2>1. Content(0) = <<>> /\ \A j : Content(j) = <<>>
      BY DEF Init, Content
    <2>2. Active = <<>>
      BY <2>1, ConcatEmptySeq, EmptySeq DEF Init, Active
    <2>3. \A j : Part(j) = <<>>
      BY <2>1, <2>2 DEF Part
    <2>4. LogInOrder
      BY <2>3, IdsEmpty DEF LogInOrder, InOrder
    <2>5. KeptFrom(0)
      BY <2>3, IdsEmpty, RetainedMember DEF Init, KeptFrom, Owed, Decided, InFlight
    <2>6. NewestKept
      BY <2>4, <2>5, NewestUnfolded DEF Init
    <2> QED
      BY <2>6 DEF Init, Hole, InFlight
  <1>2. SinkInv /\ SinkInv' /\ Hole /\ NewestKept /\ [Next]_vars => Hole' /\ NewestKept'
    <2> SUFFICES ASSUME SinkInv, SinkInv', Hole, NewestKept, [Next]_vars
                 PROVE  Hole' /\ NewestKept'
      OBVIOUS
    <2>1. Hole'
      BY HoleStep
    <2>2. n \in Nat /\ n' \in Nat
      BY DEF SinkInv, TypeOK
    <2>3. NewestKept'
      <3>1. failures' = 0 => LogInOrder' /\ \E c \in 0..n' : KeptFrom(c)'
        BY <2>2, NewestStep, OrderStep, NewestUnfolded, FailuresGrow
      <3>2. (n \in Nat)' =>
              (NewestKept' <=>
                (failures = 0 => LogInOrder /\ \E cut \in 0..n : KeptFrom(cut))')
        BY NewestUnfolded, PTL
      <3> QED
        BY <2>2, <3>1, <3>2
    <2> QED
      BY <2>1, <2>3
  <1> QED
    BY <1>1, <1>2, SinkInvariant, PTL DEF Spec

-----------------------------------------------------------------------------
(* What an undisturbed sink forgets.                                       *)

Quiet == crashes = 0 /\ failures = 0

\* The name a rotation in progress has vacated.
Vacated(k) == (pc = "shift" /\ k = i + 1) \/ (pc = "truncate" /\ k = 0)

\* Without crashes and failures the archives are numbered without a gap, ...
Gapless ==
  Quiet =>
    /\ lost = {}
    /\ \A j \in DOMAIN files : \A k \in 0..j : k \in DOMAIN files \/ Vacated(k)
    /\ pc \notin {"down", "truncate"} => 0 \in DOMAIN files

\* ... and once a record has been forgotten there are keep of them.
Full ==
  Quiet /\ Decided # Retained => \A k \in 1..keep : k \in DOMAIN files \/ Vacated(k)

LEMMA QuietBefore ==
  ASSUME SinkInv, [Next]_vars, Quiet'
  PROVE  Quiet /\ ~Crash
  <1>1. failures = 0
    BY FailuresGrow DEF Quiet
  <1>2. crashes \in Nat
    BY DEF SinkInv, Known
  <1>3. crashes' = crashes \/ (Crash /\ crashes' = crashes + 1)
    BY DEF Next, Construct, Write, Reopen, RotateIfNeeded, ShiftArchive, ArchiveActive,
           Truncate, Put, flush, Destroy, Crash, Midnight, vars, envVars
  <1>4. ~Crash
    BY <1>2 DEF Crash, Quiet
  <1> QED
    BY <1>1, <1>3, <1>4 DEF Quiet

\* Every other step of an undisturbed sink adds the active file, if anything.
LEMMA NamesStay ==
  ASSUME SinkInv, [Next]_vars, Quiet', ~ShiftArchive, ~ArchiveActive
  PROVE  /\ UNCHANGED lost
         /\ \/ UNCHANGED <<files, pc, i>>
            \/ pc \notin {"shift", "truncate", "down"} /\ UNCHANGED files
            \/ pc # "shift" /\ DOMAIN files' = DOMAIN files \cup {0}
  <1>0. failures = 0 /\ failures' = 0 /\ failures' # failures + 1 /\ ~Crash
    BY QuietBefore DEF Quiet
  <1>1. ASSUME NEW s, HandOver(s) \/ HandOverFails(s)
        PROVE  UNCHANGED lost /\ DOMAIN files' = DOMAIN files \cup {0}
    BY <1>0, <1>1 DEF HandOver, HandOverFails, Fail, With
  <1>2. CASE Construct
    BY <1>0, <1>2 DEF Construct, open_if_needed, Fail, With
  <1>3. ASSUME NEW size \in Sizes, Write(size)
        PROVE  UNCHANGED <<lost, files>> /\ pc = "idle"
    BY <1>0, <1>3 DEF Write, SinkInv, Streams
  <1>4. CASE Reopen
    BY <1>0, <1>4 DEF Reopen, SinkInv, Streams
  <1>5. CASE RotateIfNeeded
    BY <1>1, <1>5 DEF RotateIfNeeded
  <1>6. CASE Truncate
    BY <1>0, <1>6 DEF Truncate, Fail, With
  <1>7. CASE Put
    <2>1. good /\ pc = "put"
      BY <1>0, <1>7 DEF Put, SinkInv, Streams
    <2>2. \/ HandOver(Append(buffer, rec)) \/ HandOverFails(Append(buffer, rec))
          \/ UNCHANGED <<files, lost>>
      BY <1>7, <2>1 DEF Put
    <2> QED
      BY <1>1, <2>1, <2>2
  <1>8. CASE flush
    BY <1>1, <1>8 DEF flush
  <1>9. CASE Destroy
    BY <1>1, <1>9 DEF Destroy
  <1>10. CASE Midnight \/ UNCHANGED vars
    BY <1>10 DEF Midnight, vars, callVars, envVars
  <1> QED
    BY <1>0, <1>2, <1>3, <1>4, <1>5, <1>6, <1>7, <1>8, <1>9, <1>10 DEF Next

LEMMA GaplessStep ==
  ASSUME SinkInv, SinkInv', Gapless, [Next]_vars
  PROVE  Gapless'
  <1> SUFFICES ASSUME Quiet'
               PROVE  /\ lost' = {}
                      /\ \A j \in DOMAIN files' : \A k \in 0..j : k \in DOMAIN files' \/ Vacated(k)'
                      /\ pc' \notin {"down", "truncate"} => 0 \in DOMAIN files'
    BY DEF Gapless
  <1>0. /\ lost = {}
        /\ \A j \in DOMAIN files : \A k \in 0..j : k \in DOMAIN files \/ Vacated(k)
        /\ pc \notin {"down", "truncate"} => 0 \in DOMAIN files
        /\ failures' = 0 /\ \A j \in DOMAIN files : j \in Nat
    BY QuietBefore, FilesAreOK DEF Gapless, Quiet, FilesOK
  <1>1. CASE ~ShiftArchive /\ ~ArchiveActive
    <2>1. lost' = {}
      BY <1>0, <1>1, NamesStay
    <2>2. CASE UNCHANGED <<files, pc, i>>
      BY <1>0, <2>1, <2>2 DEF Vacated
    <2>3. CASE pc \notin {"shift", "truncate", "down"} /\ UNCHANGED files
      BY <1>0, <2>1, <2>3 DEF Vacated
    <2>4. CASE pc # "shift" /\ DOMAIN files' = DOMAIN files \cup {0}
      BY <1>0, <2>1, <2>4 DEF Vacated
    <2> QED
      BY <1>1, <2>2, <2>3, <2>4, NamesStay
  <1>2. CASE ShiftArchive \/ ArchiveActive
    <2>1. PICK m \in 0..(keep - 1) :
            /\ m = i /\ pc = "shift" /\ UNCHANGED lost
            /\ Moves(m, m + 1) \/ (m \notin DOMAIN files /\ UNCHANGED files)
            /\ \/ pc' = "shift" /\ i' = m - 1 /\ m # 0
               \/ pc' = "truncate" /\ m = 0
      BY <1>0, <1>2, ShiftMoves DEF ShiftArchive, ArchiveActive
    <2>2. m \in Nat /\ \A k : Vacated(k)' <=> k = m
      BY <2>1, FilesAreOK DEF Vacated
    <2>3. \A k : Vacated(k) <=> k = m + 1
      BY <2>1 DEF Vacated
    <2>4. ASSUME NEW j \in DOMAIN files', NEW k \in 0..j, k # m PROVE k \in DOMAIN files'
      <3>1. CASE UNCHANGED files /\ m \notin DOMAIN files
        <4>1. j < m
          BY <1>0, <2>2, <2>3, <3>1
        <4> QED
          BY <1>0, <2>2, <2>3, <3>1, <4>1
      <3>2. CASE Moves(m, m + 1)
        <4>1. DOMAIN files' = (DOMAIN files \ {m}) \cup {m + 1} /\ m \in DOMAIN files
          BY <3>2 DEF Moves
        <4> QED
          BY <1>0, <2>2, <2>3, <2>4, <4>1
      <3> QED
        BY <2>1, <3>1, <3>2
    <2>5. pc' # "truncate" => 0 \in DOMAIN files'
      BY <1>0, <2>1 DEF Moves
    <2> QED
      BY <1>0, <2>1, <2>2, <2>4, <2>5
  <1> QED
    BY <1>1, <1>2

LEMMA FullStep ==
  ASSUME SinkInv, SinkInv', Hole, Gapless, Gapless', Full, [Next]_vars
  PROVE  Full'
  <1> SUFFICES ASSUME Quiet', Decided' # Retained'
               PROVE  \A k \in 1..keep' : k \in DOMAIN files' \/ Vacated(k)'
    BY DEF Full
  <1>0. /\ Quiet /\ failures' = 0 /\ crashes' = 0 /\ crashes' # crashes + 1 /\ UNCHANGED keep
        /\ keep \in Int /\ Owed = Decided /\ Owed' = Decided'
        /\ \A j \in DOMAIN files : j \in Nat
    BY QuietBefore, ModeFixed, FilesAreOK DEF Gapless, Quiet, Owed, FilesOK
  <1>p. Parts' = Parts /\ 0 \in Parts
    BY <1>0 DEF Parts
  <1>1. \/ Decided # Retained
        \/ keep <= 0
        \/ (ShiftArchive \/ ArchiveActive) /\ keep \in DOMAIN files /\ i + 1 = keep
    <2>1. CASE SameLog
      <3>1. Retained' = Retained
        BY <1>p, <2>1, RetainedMember DEF SameLog
      <3> QED
        BY <1>0, <2>1, <3>1 DEF SameLog
    <2>2. CASE Gains
      <3>1. Ids(Part(0)') = Ids(Part(0)) \cup {n}
        BY <1>p, <2>2, PartsOK, ActiveSeq, IdsAppend DEF Gains
      <3>2. \A r : r \in Retained' <=> r \in Retained \/ r = n
        BY <1>p, <2>2, <3>1, RetainedMember DEF Gains
      <3> QED
        BY <1>0, <2>2, <3>2 DEF Gains
    <2>3. CASE Shifts
      <3>1. PICK j \in 0..(keep - 1) :
              /\ j = i
              /\ Part(j + 1)' = Part(j) /\ Part(j)' = <<>>
              /\ \A k \in Parts \ {j, j + 1} : Part(k)' = Part(k)
              /\ j + 1 = keep \/ Part(j + 1) = <<>>
        BY <2>3 DEF Shifts
      <3>2. j \in Parts /\ j + 1 \in Parts
        BY <1>0 DEF Parts
      <3>3. CASE Part(j + 1) = <<>>
        <4>1. \A r : r \in Retained' <=> r \in Retained
          BY <1>p, <3>1, <3>2, <3>3, RetainedMember, IdsEmpty
        <4> QED
          BY <1>0, <2>3, <4>1 DEF Shifts
      <3>4. CASE Part(j + 1) # <<>>
        BY <1>0, <2>3, <3>1, <3>4 DEF Shifts, Part, Content
      <3> QED
        BY <3>3, <3>4
    <2>4. CASE Discards
      BY <2>4 DEF Discards
    <2>5. CASE LosesBuffer
      BY <1>0, <2>5 DEF LosesBuffer
    <2> QED
      BY <1>0, <2>1, <2>2, <2>3, <2>4, <2>5, LogMoves
  <1>2. keep <= 0 \/ \A k \in 1..keep : k \in DOMAIN files \/ Vacated(k)
    BY <1>0, <1>1 DEF Full, Gapless
  <1>3. CASE ~ShiftArchive /\ ~ArchiveActive
    <2>1. \/ UNCHANGED <<files, pc, i>>
          \/ pc \notin {"shift", "truncate", "down"} /\ UNCHANGED files
          \/ pc # "shift" /\ DOMAIN files' = DOMAIN files \cup {0}
      BY <1>3, NamesStay
    <2> QED
      BY <1>0, <1>2, <2>1 DEF Vacated
  <1>4. CASE ShiftArchive \/ ArchiveActive
    <2>1. PICK m \in 0..(keep - 1) :
            /\ m = i /\ pc = "shift"
            /\ Moves(m, m + 1) \/ (m \notin DOMAIN files /\ UNCHANGED files)
            /\ \/ pc' = "shift" /\ i' = m - 1
               \/ pc' = "truncate" /\ m = 0
      BY <1>0, <1>4, ShiftMoves DEF ShiftArchive, ArchiveActive
    <2>2. /\ m \in Nat
          /\ \A k : Vacated(k)' <=> k = m
          /\ \A k : Vacated(k) <=> k = m + 1
      BY <2>1, FilesAreOK DEF Vacated
    <2>3. m \in DOMAIN files
      BY <1>0, <1>2, <2>1, <2>2 DEF Gapless
    <2>4. DOMAIN files' = (DOMAIN files \ {m}) \cup {m + 1}
      BY <2>1, <2>3 DEF Moves
    <2> QED
      BY <1>0, <1>2, <2>2, <2>4
  <1> QED
    BY <1>3, <1>4

\* An undisturbed sink forgets a record only when all keep archives exist (rotate_files
\* starts at path.(keep - 1)), for any keep.
THEOREM ForgetsOnlyWhenFull == Spec => []ForgetsWhenFull
  <1>1. Init => Hole /\ Gapless /\ Full
    <2> SUFFICES ASSUME Init PROVE Hole /\ Gapless /\ Full
      OBVIOUS
    <2>1. DOMAIN files = {}
      BY DEF Init
    <2>2. \A j : Content(j) = <<>>
      BY <2>1 DEF Content
    <2>3. \A j : Part(j) = <<>>
      BY <2>2, ConcatEmptySeq, EmptySeq DEF Init, Part, Active
    <2>4. Retained = {}
      BY <2>3, IdsEmpty, RetainedMember
    <2>5. Decided = {}
      BY DEF Init, Decided, InFlight
    <2> QED
      BY <2>1, <2>4, <2>5 DEF Init, Hole, Gapless, Full, InFlight
  <1>2. SinkInv /\ SinkInv' /\ Hole /\ Gapless /\ Full /\ [Next]_vars
          => Hole' /\ Gapless' /\ Full'
    BY HoleStep, GaplessStep, FullStep
  <1>3. Full => ForgetsWhenFull
    BY DEF Full, ForgetsWhenFull, Quiet, Decided, InFlight, Vacated
  <1> QED
    BY <1>1, <1>2, <1>3, SinkInvariant, PTL DEF Spec
=============================================================================
