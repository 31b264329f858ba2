-------------------------- MODULE FeaturePipelineProofs --------------------------
(***************************************************************************)
(* Theorems about FeaturePipeline, for any context, batches, history and   *)
(* files.                                                                  *)
(*                                                                         *)
(* Holds says at which place of the history each feature is, and ReadyFor  *)
(* which rows of the window each frame is: both are kept by one feature    *)
(* (Cached, Slid) and so, by induction, by those of a batch (AllCached,    *)
(* AllSlid).                                                               *)
(***************************************************************************)
EXTENDS FeaturePipeline, SequenceTheorems, WellFoundedInduction, TLAPS

-----------------------------------------------------------------------------
(* Arithmetic, and induction.                                              *)

LEMMA IntegerDivision ==
  ASSUME NEW a \in Int, NEW m \in Nat \ {0}
  PROVE  \E q \in Int, r \in 0 .. m - 1 :
            a = m * q + r /\ a % m = r /\ a \div m = q /\ (a \in Nat => q \in Nat)
<1>1. \A x \in Int, y \in Nat \ {0} :
        /\ x \div y \in Int /\ x % y = x - y * (x \div y) /\ x % y \in 0 .. y - 1
        /\ x \in Nat => x \div y \in Nat
  OBVIOUS
<1>2. /\ a \div m \in Int /\ a % m = a - m * (a \div m) /\ a % m \in 0 .. m - 1
      /\ a \in Nat => a \div m \in Nat
  BY <1>1, Zenon
<1>3. PICK q \in Int, r \in 0 .. m - 1 :
        q = a \div m /\ r = a % m /\ r = a - m * q /\ (a \in Nat => q \in Nat)
  BY <1>2, Zenon
<1>4. a = m * q + r
  BY <1>3
<1> QED
  BY <1>3, <1>4, Zenon

\* Quotient and remainder are unique.
LEMMA DivisionUnique ==
  ASSUME NEW m \in Nat \ {0}, NEW q \in Int, NEW r \in 0 .. m - 1,
         NEW p \in Int, NEW s \in 0 .. m - 1, m * q + r = m * p + s
  PROVE  q = p /\ r = s
<1>1. ASSUME NEW x \in Int, NEW y \in Int, x < y PROVE m * x + m <= m * y
  <2>1. m * (x + 1) <= m * y
    BY <1>1
  <2>2. m * (x + 1) = m * x + m
    OBVIOUS
  <2> QED
    BY <2>1, <2>2
<1>2. ~(q < p) /\ ~(p < q)
  BY <1>1
<1> QED
  BY <1>2

LEMMA TheLarger ==
  ASSUME NEW a \in Int, NEW b \in Int
  PROVE  Max({a, b}) = IF a >= b THEN a ELSE b
<1>1. \E x \in {a, b} : \A y \in {a, b} : x >= y
  OBVIOUS
<1> QED
  BY <1>1 DEF Max

\* The order of the natural numbers is well founded.
LEMMA NatOrder ==
  \E R : IsWellFoundedOn(R, Nat) /\ \A x, y \in Nat : y < x => <<y, x>> \in R
<1> DEFINE R == OpToRel(<, Nat)
<1>1. IsWellFoundedOn(R, Nat)
  BY NatLessThanWellFounded
<1>2. \A x, y \in Nat : y < x => <<y, x>> \in R
  BY DEF OpToRel
<1> HIDE DEF R
<1> QED
  BY <1>1, <1>2, Zenon

\* A set of natural numbers has a least element.
LEMMA Least ==
  ASSUME NEW T \in SUBSET Nat, T # {}
  PROVE  \E x \in T : \A y \in T : x <= y
<1>1. PICK R : IsWellFoundedOn(R, Nat) /\ \A x, y \in Nat : y < x => <<y, x>> \in R
  BY NatOrder, Zenon
<1>2. PICK x \in T : \A y \in T : ~(<<y, x>> \in R)
  BY <1>1, WFMin
<1>3. ASSUME NEW y \in T PROVE x <= y
  <2>1. x \in Nat /\ y \in Nat
    OBVIOUS
  <2>2. ~(y < x)
    BY <1>1, <1>2, <2>1, Zenon
  <2> QED
    BY <2>1, <2>2
<1> QED
  BY <1>3

\* Induction up to n, for the numbers of which something is true.
LEMMA UpTo ==
  ASSUME NEW n \in Nat, NEW S, 0 \in S,
         \A i \in 1 .. n : i - 1 \in S => i \in S
  PROVE  0 .. n \subseteq S
<1> DEFINE T == (0 .. n) \ S
<1> SUFFICES ASSUME T # {} PROVE FALSE
  OBVIOUS
<1>1. T \in SUBSET Nat
  OBVIOUS
<1>2. PICK x \in T : \A y \in T : x <= y
  BY <1>1, Least
<1> QED
  BY <1>2

\* Once round.
LEMMA Round ==
  ASSUME NEW m \in Nat \ {0}, NEW a \in 0 .. 2 * m - 1
  PROVE  a % m = IF a < m THEN a ELSE a - m
<1>1. a \in Int
  OBVIOUS
<1>2. PICK q \in Int, r \in 0 .. m - 1 : a = m * q + r /\ a % m = r
  BY <1>1, IntegerDivision, Zenon
<1>3. CASE a < m
  <2>1. a \in 0 .. m - 1 /\ 0 \in Int /\ m * q + r = m * 0 + a
    BY <1>2, <1>3
  <2>2. r = a
    BY <2>1, <1>2, DivisionUnique
  <2> QED
    BY <1>2, <1>3, <2>2
<1>4. CASE ~(a < m)
  <2>1. a - m \in 0 .. m - 1 /\ 1 \in Int /\ m * q + r = m * 1 + (a - m)
    BY <1>2, <1>4
  <2>2. r = a - m
    BY <2>1, <1>2, DivisionUnique
  <2> QED
    BY <1>2, <1>4, <2>2
<1> QED
  BY <1>3, <1>4

-----------------------------------------------------------------------------
(* The history of OnlineCMN.                                               *)

\* The places of n features in the history: it fills in order, and then the
\* features of the round that is going on lie before the oldest row, those of
\* the round before behind it.
Placed(stats, oldest_row, n) ==
    /\ stats \in Seq(Nat) /\ Len(stats) = IF n < History THEN n ELSE History
    /\ oldest_row \in 0 .. History - 1
    /\ n < History => oldest_row = 0
    /\ \A i \in 1 .. Len(stats) :
        /\ n < History => stats[i] = i
        /\ n >= History /\ i <= oldest_row => stats[i] = n - oldest_row + i
        /\ n >= History /\ i > oldest_row => stats[i] = n - History - oldest_row + i

Holds(cmn, n) ==
    /\ cmn = [stats |-> cmn.stats, oldest_row |-> cmn.oldest_row]
    /\ Placed(cmn.stats, cmn.oldest_row, n)

LEMMA HoldsPlaced ==
  ASSUME NEW n, NEW s, NEW o, Placed(s, o, n)
  PROVE  Holds([stats |-> s, oldest_row |-> o], n)
BY DEF Holds

LEMMA Cached ==
  ASSUME NEW n \in Nat, NEW cmn, Holds(cmn, n)
  PROVE  Holds(Cache(cmn, n + 1), n + 1)
<1>1. History \in Nat /\ History > 0
  BY PipelineAssumption
<1>2. PICK s \in Seq(Nat), o \in 0 .. History - 1 :
        cmn = [stats |-> s, oldest_row |-> o] /\ Placed(s, o, n)
  BY DEF Holds, Placed
<1>3. Len(s) \in Nat /\ Len(s) = IF n < History THEN n ELSE History
  BY <1>1, <1>2 DEF Placed
<1>4. CASE n < History
  <2>1. Cache(cmn, n + 1) = [stats |-> Append(s, n + 1), oldest_row |-> o]
    BY <1>2, <1>3, <1>4 DEF Cache
  <2>2. PICK t \in Seq(Nat) :
          /\ t = Append(s, n + 1) /\ Len(t) = n + 1
          /\ \A i \in 1 .. n : t[i] = s[i]
          /\ t[n + 1] = n + 1
    <3>1. n + 1 \in Nat /\ Len(s) = n
      BY <1>3, <1>4
    <3> QED
      BY <3>1, AppendProperties
  <2>3. o = 0 /\ \A i \in 1 .. n : s[i] = i
    BY <1>2, <1>3, <1>4 DEF Placed
  <2>4. \A i \in 1 .. n + 1 : t[i] = i
    BY <2>2, <2>3
  <2>5. Placed(t, 0, n + 1)
    BY <1>1, <1>4, <2>2, <2>4 DEF Placed
  <2>6. Cache(cmn, n + 1) = [stats |-> t, oldest_row |-> 0]
    BY <2>1, <2>2, <2>3, Zenon
  <2> QED
    BY <2>5, <2>6, HoldsPlaced
<1>5. CASE ~(n < History)
  <2>1. /\ Cache(cmn, n + 1)
             = [stats |-> [s EXCEPT ![o + 1] = n + 1], oldest_row |-> (o + 1) % History]
        /\ Len(s) = History
    BY <1>2, <1>3, <1>5 DEF Cache
  <2>2. PICK t \in Seq(Nat) :
          /\ t = [s EXCEPT ![o + 1] = n + 1] /\ Len(t) = History
          /\ \A i \in 1 .. History : t[i] = IF i = o + 1 THEN n + 1 ELSE s[i]
    <3>1. o + 1 \in 1 .. Len(s) /\ n + 1 \in Nat
      BY <1>1, <2>1
    <3>2. /\ [s EXCEPT ![o + 1] = n + 1] \in Seq(Nat)
          /\ Len([s EXCEPT ![o + 1] = n + 1]) = Len(s)
          /\ \A i \in 1 .. Len(s) :
                [s EXCEPT ![o + 1] = n + 1][i] = IF i = o + 1 THEN n + 1 ELSE s[i]
      BY <3>1, ExceptSeq
    <3> QED
      BY <2>1, <3>2, Zenon
  <2>3. PICK p : p = (o + 1) % History
    OBVIOUS
  <2>4. p = IF o + 1 < History THEN o + 1 ELSE 0
    <3>1. o + 1 \in 0 .. 2 * History - 1 /\ History \in Nat \ {0}
      BY <1>1
    <3>2. (o + 1) % History = IF o + 1 < History THEN o + 1 ELSE (o + 1) - History
      BY <3>1, Round, Zenon
    <3>3. ~(o + 1 < History) => (o + 1) - History = 0
      BY <1>1
    <3> QED
      BY <2>3, <3>2, <3>3, Zenon
  <2>5. p \in 0 .. History - 1
    BY <1>1, <2>4
  <2>6. ASSUME NEW i \in 1 .. History
        PROVE  /\ i <= o => s[i] = n - o + i
               /\ i > o => s[i] = n - History - o + i
    BY <1>1, <1>2, <1>5, <2>1 DEF Placed
  <2>7. ASSUME NEW i \in 1 .. History
        PROVE  /\ i <= p => t[i] = n + 1 - p + i
               /\ i > p => t[i] = n + 1 - History - p + i
    <3>1. CASE i = o + 1
      BY <1>1, <2>2, <2>4, <3>1
    <3>2. CASE i # o + 1
      <4>1. t[i] = s[i]
        BY <2>2, <3>2
      <4>2. CASE o + 1 < History
        BY <1>1, <2>4, <2>6, <3>2, <4>1, <4>2
      <4>3. CASE ~(o + 1 < History)
        <5>1. p = 0 /\ o = History - 1 /\ i <= o
          BY <1>1, <2>4, <3>2, <4>3
        <5> QED
          BY <1>1, <2>6, <4>1, <5>1
      <4> QED
        BY <4>2, <4>3
    <3> QED
      BY <3>1, <3>2
  <2>8. Placed(t, p, n + 1)
    BY <1>1, <1>5, <2>2, <2>5, <2>7 DEF Placed
  <2> QED
    BY <2>1, <2>2, <2>3, <2>8, HoldsPlaced
<1> QED
  BY <1>4, <1>5

\* The recursion over the features of a batch.
LEMMA UpdatedIs ==
  ASSUME NEW cmn, NEW frames, Len(frames) \in Nat
  PROVE  \E f : /\ f = [i \in 0 .. Len(frames) |->
                           IF i > 0 THEN Cache(f[i - 1], frames[i]) ELSE cmn]
                /\ Updated(cmn, frames) = f[Len(frames)]
<1> DEFINE N == Len(frames)
           Is(f, n) == f = [i \in 0 .. n |->
                              IF i > 0 THEN Cache(f[i - 1], frames[i]) ELSE cmn]
           S == {n \in Nat : \E f : Is(f, n)}
<1>1. N \in Nat
  OBVIOUS
<1> HIDE DEF N
<1>2. 0 \in S
  <2> DEFINE g == [i \in 0 .. 0 |-> cmn]
  <2>1. Is(g, 0)
    OBVIOUS
  <2> QED
    BY <2>1
<1>3. ASSUME NEW n \in 1 .. N, n - 1 \in S PROVE n \in S
  <2>1. PICK f : Is(f, n - 1)
    BY <1>3
  <2> DEFINE g == [i \in 0 .. n |-> IF i = n THEN Cache(f[n - 1], frames[n]) ELSE f[i]]
  <2>2. Is(g, n)
    <3>1. ASSUME NEW i \in 0 .. n
          PROVE  g[i] = IF i > 0 THEN Cache(g[i - 1], frames[i]) ELSE cmn
      BY <1>1, <2>1
    <3> QED
      BY <3>1
  <2>3. \E h : Is(h, n)
    <3> HIDE DEF g, Is
    <3> QED
      BY <2>2
  <2> QED
    BY <1>1, <2>3
<1>4. \E f : Is(f, N)
  <2>1. N \in S
    <3> HIDE DEF S
    <3> QED
      BY <1>1, <1>2, <1>3, UpTo
  <2> QED
    BY <2>1
<1> QED
  BY <1>4 DEF Updated, N

\* The frames of a batch behind n others.
Following(n, k) == [i \in 1 .. k |-> n + i]

LEMMA AllCached ==
  ASSUME NEW n \in Nat, NEW k \in Nat, NEW cmn, Holds(cmn, n)
  PROVE  Holds(Updated(cmn, Following(n, k)), n + k)
<1> DEFINE frames == Following(n, k)
<1>1. Len(frames) = k /\ \A i \in 1 .. k : frames[i] = n + i
  BY DEF Following
<1> HIDE DEF frames
<1>2. PICK f : /\ f = [i \in 0 .. k |-> IF i > 0 THEN Cache(f[i - 1], frames[i]) ELSE cmn]
               /\ Updated(cmn, frames) = f[k]
  <2>1. Len(frames) \in Nat
    BY <1>1
  <2>2. PICK f : /\ f = [i \in 0 .. Len(frames) |->
                            IF i > 0 THEN Cache(f[i - 1], frames[i]) ELSE cmn]
                 /\ Updated(cmn, frames) = f[Len(frames)]
    BY <2>1, UpdatedIs
  <2> QED
    BY <1>1, <2>2
<1> DEFINE S == {i \in 0 .. k : Holds(f[i], n + i)}
<1>3. 0 \in S
  BY <1>2
<1>4. ASSUME NEW i \in 1 .. k, i - 1 \in S PROVE i \in S
  <2>1. f[i] = Cache(f[i - 1], n + i)
    BY <1>1, <1>2
  <2>2. PICK m \in Nat : m = n + (i - 1) /\ m + 1 = n + i
    OBVIOUS
  <2>3. Holds(f[i - 1], m)
    BY <1>4, <2>2
  <2>4. Holds(Cache(f[i - 1], m + 1), m + 1)
    BY <2>2, <2>3, Cached
  <2>5. Holds(f[i], n + i)
    BY <2>1, <2>2, <2>4
  <2> QED
    BY <2>5
<1>5. 0 .. k \subseteq S
  <2> HIDE DEF S
  <2> QED
    BY <1>3, <1>4, UpTo
<1> QED
  BY <1>2, <1>5 DEF frames

\* What it holds are the latest features, once each.
LEMMA LatestHeld ==
  ASSUME NEW n \in Nat, NEW cmn, Holds(cmn, n)
  PROVE  ToSet(cmn.stats) = Latest(n) /\ IsInjective(cmn.stats)
<1>1. PICK s \in Seq(Nat), o \in 0 .. History - 1, l \in Nat :
        /\ s = cmn.stats /\ o = cmn.oldest_row /\ l = Len(s) /\ DOMAIN s = 1 .. l
        /\ Placed(s, o, n)
  BY LenProperties DEF Holds, Placed
<1>2. History \in Nat /\ History > 0
  BY PipelineAssumption
<1>3. l = IF n < History THEN n ELSE History
  BY <1>1 DEF Placed
<1>4. ASSUME NEW i \in 1 .. l
      PROVE  /\ n < History => s[i] = i
             /\ ~(n < History) /\ i <= o => s[i] = n - o + i
             /\ ~(n < History) /\ ~(i <= o) => s[i] = n - History - o + i
  BY <1>1, <1>2 DEF Placed
<1>5. Latest(n) = (n - l) + 1 .. n
  <2>1. n - History + 1 \in Int /\ 1 \in Int
    BY <1>2
  <2>2. Max({1, n - History + 1}) = IF 1 >= n - History + 1 THEN 1 ELSE n - History + 1
    BY <2>1, TheLarger
  <2>3. Max({1, n - History + 1}) = (n - l) + 1
    BY <1>2, <1>3, <2>2
  <2> QED
    BY <2>3 DEF Latest
<1>6. ASSUME NEW i \in 1 .. l PROVE s[i] \in (n - l) + 1 .. n
  <2>1. CASE n < History
    BY <1>2, <1>3, <1>4, <2>1
  <2>2. CASE ~(n < History) /\ i <= o
    BY <1>2, <1>3, <1>4, <2>2
  <2>3. CASE ~(n < History) /\ ~(i <= o)
    BY <1>2, <1>3, <1>4, <2>3
  <2> QED
    BY <2>1, <2>2, <2>3
<1>7. ASSUME NEW f \in (n - l) + 1 .. n PROVE \E i \in 1 .. l : s[i] = f
  <2>1. CASE n < History
    <3>1. f \in 1 .. l
      BY <1>2, <1>3, <2>1
    <3> QED
      BY <1>4, <2>1, <3>1
  <2>2. CASE ~(n < History) /\ f > n - o
    <3>1. PICK i \in 1 .. l : i = f - n + o /\ i <= o
      BY <1>2, <1>3, <2>2
    <3>2. s[i] = f
      BY <1>2, <1>4, <2>2, <3>1
    <3> QED
      BY <3>2
  <2>3. CASE ~(n < History) /\ ~(f > n - o)
    <3>1. PICK i \in 1 .. l : i = f - n + History + o /\ ~(i <= o)
      BY <1>2, <1>3, <2>3
    <3>2. s[i] = f
      BY <1>2, <1>4, <2>3, <3>1
    <3> QED
      BY <3>2
  <2> QED
    BY <2>1, <2>2, <2>3
<1>8. ToSet(s) = Latest(n)
  <2> DEFINE latest == (n - l) + 1 .. n
  <2>1. /\ Latest(n) = latest
        /\ \A i \in 1 .. l : s[i] \in latest
        /\ \A f \in latest : \E i \in 1 .. l : s[i] = f
    BY <1>5, <1>6, <1>7
  <2> HIDE DEF latest
  <2> QED
    BY <1>1, <2>1 DEF ToSet
<1>9. ASSUME NEW i \in 1 .. l, NEW j \in 1 .. l, s[i] = s[j] PROVE i = j
  <2>1. CASE n < History
    BY <1>4, <1>9, <2>1
  <2>2. CASE ~(n < History)
    BY <1>2, <1>3, <1>4, <1>9, <2>2
  <2> QED
    BY <2>1, <2>2
<1> QED
  BY <1>1, <1>8, <1>9 DEF IsInjective

-----------------------------------------------------------------------------
(* The window of OnlineLdaInput.                                           *)

\* What frame f is spliced with, of the features g that begin with first.
Context(g, f, first) ==
    [i \in 1 .. WindowSize |-> g[Max({first, f - LeftContext + i - 1})]]

\* The rows of the n frames behind f.
Rows(g, f, first, n) == [i \in 1 .. n |-> Context(g, f + i, first)]

\* feats are the n features behind k.
IsBatch(feats, g, k, n) == Len(feats) = n /\ \A i \in 1 .. n : feats[i] = g[k + i]

\* The window from which frame f is spliced.
ReadyFor(window, g, f, first) ==
    /\ window.rows = [i \in 1 .. WindowSize |-> window.rows[i]]
    /\ window.pos \in 0 .. WindowSize - 1
    /\ SplicedRow(window) = Context(g, f, first)

LEMMA Sizes ==
  /\ LeftContext \in Nat /\ RightContext \in Nat /\ WindowSize \in Nat /\ WindowSize > 0
  /\ WindowSize = LeftContext + RightContext + 1
BY PipelineAssumption DEF WindowSize

\* Where the i-th oldest row is.
LEMMA RowPlace ==
  ASSUME NEW p \in 0 .. WindowSize - 1, NEW i \in 1 .. WindowSize
  PROVE  /\ ((p + i - 1) % WindowSize) + 1
              = IF p + i <= WindowSize THEN p + i ELSE p + i - WindowSize
         /\ ((p + i - 1) % WindowSize) + 1 \in 1 .. WindowSize
<1>1. p + i - 1 \in 0 .. 2 * WindowSize - 1 /\ WindowSize \in Nat \ {0}
  BY Sizes
<1>2. PICK a \in Int : a = p + i - 1
  BY Sizes
<1>3. a % WindowSize = IF a < WindowSize THEN a ELSE a - WindowSize
  BY <1>1, <1>2, Round
<1>4. PICK b : b = a % WindowSize
  OBVIOUS
<1>5. b = IF a < WindowSize THEN a ELSE a - WindowSize
  BY <1>3, <1>4, Zenon
<1>6. /\ b + 1 = IF p + i <= WindowSize THEN p + i ELSE p + i - WindowSize
      /\ b + 1 \in 1 .. WindowSize
  BY <1>2, <1>5, Sizes
<1> QED
  BY <1>2, <1>4, <1>6, Zenon

LEMMA Slid ==
  ASSUME NEW window, NEW g, NEW f \in Int, NEW first \in Int, f + 1 + RightContext >= first,
         ReadyFor(window, g, f, first)
  PROVE  ReadyFor(Slide(window, g[f + 1 + RightContext]), g, f + 1, first)
<1> DEFINE W == WindowSize
           feat == g[f + 1 + RightContext]
           At(p, i) == ((p + i - 1) % WindowSize) + 1
<1>1. PICK p \in 0 .. W - 1 : p = window.pos
  BY DEF ReadyFor
<1>2. PICK q : q = (p + 1) % W
  OBVIOUS
<1>3. PICK new : new = Slide(window, feat)
  OBVIOUS
<1>4. PICK rows : rows = [i \in 1 .. W |-> IF i = p + 1 THEN feat ELSE window.rows[i]]
  OBVIOUS
<1>5. new.rows = rows /\ new.pos = q
  <2>1. p + 1 \in 1 .. W
    BY <1>1, Sizes
  <2>2. [window.rows EXCEPT ![p + 1] = feat] = rows
    BY <1>4, <2>1 DEF ReadyFor
  <2> HIDE DEF feat, W
  <2>3. new = [rows |-> [window.rows EXCEPT ![p + 1] = feat], pos |-> q]
    BY <1>1, <1>2, <1>3 DEF Slide, W
  <2> QED
    BY <2>2, <2>3
<1>6. q = IF p + 1 < W THEN p + 1 ELSE 0
  <2>1. p + 1 \in 1 .. W /\ 1 \in 1 .. W /\ 0 \in 0 .. W - 1
    BY <1>1, Sizes
  <2>2. p + 1 \in 0 .. 2 * W - 1 /\ W \in Nat \ {0}
    BY <1>1, Sizes
  <2>3. (p + 1) % W = IF p + 1 < W THEN p + 1 ELSE (p + 1) - W
    BY <2>2, Round, Zenon
  <2>4. ~(p + 1 < W) => (p + 1) - W = 0
    BY <1>1, Sizes
  <2> QED
    BY <1>2, <2>3, <2>4, Zenon
<1>7. q \in 0 .. W - 1
  BY <1>1, <1>6, Sizes
<1> HIDE DEF At, feat, W
<1>8. \A x \in 0 .. W - 1, i \in 1 .. W :
        At(x, i) = (IF x + i <= W THEN x + i ELSE x + i - W) /\ At(x, i) \in 1 .. W
  BY RowPlace, Zenon DEF At, W
<1>9. \A w : SplicedRow(w) = [i \in 1 .. W |-> w.rows[At(w.pos, i)]]
  BY Zenon DEF SplicedRow, At, W
<1>10. ASSUME NEW i \in 1 .. W
       PROVE  SplicedRow(new)[i] = Context(g, f + 1, first)[i]
  <2>1. SplicedRow(new)[i] = rows[At(q, i)]
    BY <1>5, <1>9
  <2>2. At(q, i) \in 1 .. W
    BY <1>7, <1>8
  <2>3. Context(g, f + 1, first)[i] = g[Max({first, f + 1 - LeftContext + i - 1})]
    BY Sizes DEF Context, W
  <2>4. CASE i = W
    <3>1. At(q, i) = p + 1
      BY <1>1, <1>6, <1>7, <1>8, <2>4
    <3>2. rows[At(q, i)] = feat
      BY <1>4, <2>2, <3>1
    <3>3. f + 1 - LeftContext + i - 1 = f + 1 + RightContext
      BY <2>4, Sizes DEF W
    <3>4. Max({first, f + 1 + RightContext}) = f + 1 + RightContext
      <4>1. f + 1 + RightContext \in Int
        BY Sizes
      <4>2. Max({first, f + 1 + RightContext})
              = IF first >= f + 1 + RightContext THEN first ELSE f + 1 + RightContext
        BY <4>1, TheLarger
      <4> QED
        BY <4>1, <4>2
    <3> QED
      BY <2>1, <2>3, <3>2, <3>3, <3>4, Zenon DEF feat
  <2>5. CASE i # W
    <3>1. i + 1 \in 1 .. W
      BY <2>5, Sizes DEF W
    <3>2. At(q, i) = At(p, i + 1) /\ At(q, i) # p + 1
      <4>1. W \in Nat
        BY Sizes DEF W
      <4>2. /\ At(q, i) = IF q + i <= W THEN q + i ELSE q + i - W
            /\ At(p, i + 1) = IF p + (i + 1) <= W THEN p + (i + 1) ELSE p + (i + 1) - W
        BY <1>1, <1>7, <1>8, <3>1, Zenon
      <4>3. CASE p + 1 < W
        BY <1>1, <1>6, <2>5, <4>1, <4>2, <4>3
      <4>4. CASE ~(p + 1 < W)
        <5>1. q = 0 /\ p = W - 1
          BY <1>1, <1>6, <4>1, <4>4
        <5> QED
          BY <2>5, <4>1, <4>2, <5>1
      <4> QED
        BY <4>3, <4>4
    <3>3. rows[At(q, i)] = window.rows[At(p, i + 1)]
      BY <1>4, <2>2, <3>2
    <3>4. SplicedRow(window)[i + 1] = window.rows[At(p, i + 1)]
      BY <1>1, <1>9, <3>1
    <3>5. SplicedRow(window)[i + 1] = g[Max({first, f - LeftContext + (i + 1) - 1})]
      BY <3>1 DEF ReadyFor, Context, W
    <3>6. f - LeftContext + (i + 1) - 1 = f + 1 - LeftContext + i - 1
      BY Sizes
    <3> QED
      BY <2>1, <2>3, <3>3, <3>4, <3>5, <3>6, Zenon
  <2> QED
    BY <2>4, <2>5
<1>11. SplicedRow(new) = Context(g, f + 1, first)
  <2>1. SplicedRow(new) = [i \in 1 .. W |-> SplicedRow(new)[i]]
    BY <1>9, Zenon
  <2>2. Context(g, f + 1, first) = [i \in 1 .. W |-> Context(g, f + 1, first)[i]]
    BY DEF Context, W
  <2> QED
    BY <1>10, <2>1, <2>2, Zenon
<1>12. new.rows = [i \in 1 .. W |-> new.rows[i]]
  BY <1>4, <1>5
<1> QED
  BY <1>3, <1>5, <1>7, <1>11, <1>12 DEF ReadyFor, W, feat

\* The window before the first frame.
LEMMA WindowStarted ==
  ASSUME NEW feats, NEW g, NEW first \in Int,
         \A i \in 1 .. RightContext + 1 : feats[i] = g[first - 1 + i]
  PROVE  ReadyFor(InitFeatWindow(feats), g, first - 1, first)
<1> DEFINE window == InitFeatWindow(feats)
<1>1. PICK rows : rows = [i \in 1 .. WindowSize |->
                            IF i - 1 <= LeftContext THEN feats[1]
                            ELSE feats[i - LeftContext - 1]]
  OBVIOUS
<1>2. window.rows = rows /\ window.pos = 0
  BY <1>1 DEF InitFeatWindow
<1>3. ASSUME NEW i \in 1 .. WindowSize
      PROVE  /\ ((0 + i - 1) % WindowSize) + 1 = i
             /\ rows[i] = g[Max({first, first - 1 - LeftContext + i - 1})]
  <2>1. ((0 + i - 1) % WindowSize) + 1 = i
    <3>1. 0 \in 0 .. WindowSize - 1
      BY Sizes
    <3>2. PICK r : r = ((0 + i - 1) % WindowSize) + 1
      OBVIOUS
    <3>3. r = IF 0 + i <= WindowSize THEN 0 + i ELSE 0 + i - WindowSize
      BY <3>1, <3>2, RowPlace, Zenon
    <3>4. r = i
      BY <3>3, Sizes
    <3> QED
      BY <3>2, <3>4
  <2>2. PICK m \in Int : m = first - 1 - LeftContext + i - 1
    BY Sizes
  <2>3. Max({first, m}) = IF first >= m THEN first ELSE m
    BY TheLarger
  <2>4. CASE i - 1 <= LeftContext
    <3>1. rows[i] = feats[1]
      BY <1>1, <2>4
    <3>2. feats[1] = g[first]
      <4>1. 1 \in 1 .. RightContext + 1 /\ first - 1 + 1 = first
        BY Sizes
      <4> QED
        BY <4>1
    <3>3. Max({first, m}) = first
      BY <2>2, <2>3, <2>4, Sizes
    <3> QED
      BY <2>1, <2>2, <3>1, <3>2, <3>3, Zenon
  <2>5. CASE ~(i - 1 <= LeftContext)
    <3>1. rows[i] = feats[i - LeftContext - 1]
      BY <1>1, <2>5
    <3>2. PICK j \in 1 .. RightContext + 1 : j = i - LeftContext - 1 /\ first - 1 + j = m
      BY <2>2, <2>5, Sizes
    <3>3. Max({first, m}) = m
      BY <2>2, <2>3, <2>5, Sizes
    <3> QED
      BY <2>1, <2>2, <3>1, <3>2, <3>3
  <2> QED
    BY <2>4, <2>5
<1> HIDE DEF window
<1>4. SplicedRow(window) = Context(g, first - 1, first)
  <2>1. SplicedRow(window)
          = [i \in 1 .. WindowSize |-> rows[((0 + i - 1) % WindowSize) + 1]]
    BY <1>2 DEF SplicedRow
  <2> QED
    BY <1>3, <2>1 DEF Context
<1>5. window.rows = [i \in 1 .. WindowSize |-> window.rows[i]] /\ 0 \in 0 .. WindowSize - 1
  BY <1>1, <1>2, Sizes
<1> QED
  BY <1>2, <1>4, <1>5 DEF ReadyFor, window

\* The recursion over the features of a batch defines a function.
LEMMA WindowsAre ==
  ASSUME NEW window, NEW feats, Len(feats) \in Nat
  PROVE  \E f : /\ f = [i \in 0 .. Len(feats) |->
                           IF i > 0 THEN Slide(f[i - 1], feats[i]) ELSE window]
                /\ Windows(window, feats) = f
<1> DEFINE N == Len(feats)
           Is(f, n) == f = [i \in 0 .. n |->
                              IF i > 0 THEN Slide(f[i - 1], feats[i]) ELSE window]
           S == {n \in Nat : \E f : Is(f, n)}
<1>1. N \in Nat
  OBVIOUS
<1> HIDE DEF N
<1>2. 0 \in S
  <2> DEFINE g == [i \in 0 .. 0 |-> window]
  <2>1. Is(g, 0)
    OBVIOUS
  <2> QED
    BY <2>1
<1>3. ASSUME NEW n \in 1 .. N, n - 1 \in S PROVE n \in S
  <2>1. PICK f : Is(f, n - 1)
    BY <1>3
  <2> DEFINE g == [i \in 0 .. n |-> IF i = n THEN Slide(f[n - 1], feats[n]) ELSE f[i]]
  <2>2. Is(g, n)
    <3>1. ASSUME NEW i \in 0 .. n
          PROVE  g[i] = IF i > 0 THEN Slide(g[i - 1], feats[i]) ELSE window
      BY <1>1, <2>1
    <3> QED
      BY <3>1
  <2>3. \E h : Is(h, n)
    <3> HIDE DEF g, Is
    <3> QED
      BY <2>2
  <2> QED
    BY <1>1, <2>3
<1>4. \E f : Is(f, N)
  <2>1. N \in S
    <3> HIDE DEF S
    <3> QED
      BY <1>1, <1>2, <1>3, UpTo
  <2> QED
    BY <2>1
<1> QED
  BY <1>4 DEF Windows, N

\* All rows of a batch: they are those of the frames behind f.
LEMMA AllSlid ==
  ASSUME NEW window, NEW feats, NEW g, NEW f \in Int, NEW first \in Int, NEW n \in Nat,
         f + 1 + RightContext >= first,
         IsBatch(feats, g, f + RightContext, n), ReadyFor(window, g, f, first)
  PROVE  /\ SpliceAll(window, feats).rows = Rows(g, f, first, n)
         /\ ReadyFor(SpliceAll(window, feats).window, g, f + n, first)
<1>0. Len(feats) = n /\ \A i \in 1 .. n : feats[i] = g[f + RightContext + i]
  BY DEF IsBatch
<1>1. PICK w : /\ w = [i \in 0 .. n |-> IF i > 0 THEN Slide(w[i - 1], feats[i]) ELSE window]
               /\ Windows(window, feats) = w
  <2>1. Len(feats) \in Nat
    BY <1>0
  <2>2. PICK w : /\ w = [i \in 0 .. Len(feats) |->
                            IF i > 0 THEN Slide(w[i - 1], feats[i]) ELSE window]
                 /\ Windows(window, feats) = w
    BY <2>1, WindowsAre
  <2> QED
    BY <1>0, <2>2
<1> DEFINE S == {i \in 0 .. n : ReadyFor(w[i], g, f + i, first)}
<1>2. 0 \in S
  <2>1. w[0] = window /\ f + 0 = f
    BY <1>1
  <2>2. ReadyFor(w[0], g, f + 0, first)
    BY <2>1, Zenon
  <2> QED
    BY <2>2
<1>3. ASSUME NEW i \in 1 .. n, i - 1 \in S PROVE i \in S
  <2>1. PICK k \in Int : k = f + (i - 1)
    OBVIOUS
  <2>2. k + 1 = f + i /\ k + 1 + RightContext = f + RightContext + i
        /\ k + 1 + RightContext >= first
    BY <2>1, Sizes
  <2>3. w[i] = Slide(w[i - 1], g[k + 1 + RightContext])
    BY <1>0, <1>1, <2>2
  <2>4. ReadyFor(w[i - 1], g, k, first)
    BY <1>3, <2>1
  <2>5. ReadyFor(w[i], g, f + i, first)
    BY <2>2, <2>3, <2>4, Slid
  <2> QED
    BY <2>5
<1>4. 0 .. n \subseteq S
  <2> HIDE DEF S
  <2> QED
    BY <1>2, <1>3, UpTo
<1>5. ASSUME NEW i \in 1 .. n PROVE SplicedRow(w[i]) = Context(g, f + i, first)
  <2>1. i \in S
    <3> HIDE DEF S
    <3> QED
      BY <1>4
  <2>2. ReadyFor(w[i], g, f + i, first)
    BY <2>1
  <2> QED
    BY <2>2, Zenon DEF ReadyFor
<1>6. ReadyFor(w[n], g, f + n, first)
  <2>1. n \in S
    <3> HIDE DEF S
    <3> QED
      BY <1>4
  <2> QED
    BY <2>1
<1>7. /\ SpliceAll(window, feats).rows = [i \in 1 .. n |-> SplicedRow(w[i])]
      /\ SpliceAll(window, feats).window = w[n]
  BY <1>0, <1>1 DEF SpliceAll
<1>8. SpliceAll(window, feats).rows = Rows(g, f, first, n)
  BY <1>5, <1>7 DEF Rows
<1> QED
  BY <1>6, <1>7, <1>8

\* A batch behind k frames, when the window is in use.
LEMMA SplicedLater ==
  ASSUME NEW window, NEW feats, NEW g, NEW k \in Nat, NEW first \in Int, NEW n \in Nat,
         k + 1 >= first, IsBatch(feats, g, k, n),
         ReadyFor(window, g, k - RightContext, first)
  PROVE  /\ Splice(window, feats).rows = Rows(g, k - RightContext, first, n)
         /\ ReadyFor(Splice(window, feats).window, g, k + n - RightContext, first)
<1>1. window.rows # <<>>
  <2>1. 1 \in DOMAIN window.rows
    BY Sizes DEF ReadyFor
  <2> QED
    BY <2>1
<1>2. Splice(window, feats) = SpliceAll(window, feats)
  BY <1>1 DEF Splice
<1>3. PICK f \in Int : f = k - RightContext
  BY Sizes
<1>4. /\ f + 1 + RightContext >= first /\ f + RightContext = k
      /\ f + n = k + n - RightContext
  BY <1>3, Sizes
<1>5. IsBatch(feats, g, f + RightContext, n) /\ ReadyFor(window, g, f, first)
  BY <1>3, <1>4, Zenon
<1>6. /\ SpliceAll(window, feats).rows = Rows(g, f, first, n)
      /\ ReadyFor(SpliceAll(window, feats).window, g, f + n, first)
  BY <1>4, <1>5, AllSlid
<1> QED
  BY <1>2, <1>3, <1>4, <1>6, Zenon

\* The first batch, which completes the right context of its first frames.
LEMMA SplicedFirst ==
  ASSUME NEW feats, NEW g, NEW k \in Nat, NEW n \in Nat, n > RightContext,
         NEW T, feats \in Seq(T), IsBatch(feats, g, k, n)
  PROVE  /\ Splice(NoWindow, feats).rows = Rows(g, k, k + 1, n - RightContext)
         /\ ReadyFor(Splice(NoWindow, feats).window, g, k + n - RightContext, k + 1)
<1> DEFINE rest == SubSeq(feats, RightContext + 1, n)
           window == InitFeatWindow(feats)
<1>0. Len(feats) = n /\ \A i \in 1 .. n : feats[i] = g[k + i]
  BY DEF IsBatch
<1>1. Splice(NoWindow, feats) = SpliceAll(window, rest)
  BY <1>0 DEF Splice, NoWindow
<1>2. PICK m \in Nat : m = n - RightContext
  BY Sizes
<1>3. IsBatch(rest, g, k + RightContext, m)
  <2>1. /\ RightContext + 1 \in Int /\ n \in Int /\ RightContext + 1 <= n
        /\ n - (RightContext + 1) + 1 = m
    BY <1>2, Sizes
  <2>2. \A i \in RightContext + 1 .. n : feats[i] \in T
    BY <1>0, Sizes, ElementOfSeq
  <2>3. /\ Len(rest) = m
        /\ \A i \in 1 .. m : rest[i] = feats[RightContext + 1 + i - 1]
    BY <2>1, <2>2, SubSeqProperties
  <2>4. ASSUME NEW i \in 1 .. m
        PROVE  /\ RightContext + 1 + i - 1 \in 1 .. n
               /\ k + (RightContext + 1 + i - 1) = k + RightContext + i
    BY <1>2, Sizes
  <2> HIDE DEF rest
  <2> QED
    BY <1>0, <2>3, <2>4 DEF IsBatch
<1>4. ReadyFor(window, g, k, k + 1)
  <2>1. PICK first \in Int : first = k + 1 /\ first - 1 = k
    OBVIOUS
  <2>2. \A i \in 1 .. RightContext + 1 : feats[i] = g[first - 1 + i]
    BY <1>0, <2>1, Sizes
  <2>3. ReadyFor(window, g, first - 1, first)
    BY <2>2, WindowStarted
  <2> QED
    BY <2>1, <2>3, Zenon
<1> HIDE DEF rest, window
<1>5. k + 1 + RightContext >= k + 1 /\ k \in Int /\ k + 1 \in Int
  BY Sizes
<1>6. /\ SpliceAll(window, rest).rows = Rows(g, k, k + 1, m)
      /\ ReadyFor(SpliceAll(window, rest).window, g, k + m, k + 1)
  BY <1>3, <1>4, <1>5, AllSlid
<1>7. k + m = k + n - RightContext
  BY <1>2, Sizes
<1> QED
  BY <1>1, <1>2, <1>6, <1>7

\* The rows of one batch behind those of the batches before it.
LEMMA RowsJoined ==
  ASSUME NEW g, NEW f \in Int, NEW first \in Int, NEW m \in Nat, NEW n \in Nat
  PROVE  Rows(g, f, first, m) \o Rows(g, f + m, first, n) = Rows(g, f, first, m + n)
<1> DEFINE T == {Context(g, f + i, first) : i \in 1 .. m + n}
           s == Rows(g, f, first, m)
           t == Rows(g, f + m, first, n)
           u == Rows(g, f, first, m + n)
<1>1. \A i \in 1 .. m + n : Context(g, f + i, first) \in T
  OBVIOUS
<1> HIDE DEF T
<1>2. s \in Seq(T) /\ Len(s) = m /\ \A i \in 1 .. m : s[i] = Context(g, f + i, first)
  BY <1>1 DEF Rows
<1>3. t \in Seq(T) /\ Len(t) = n /\ \A i \in 1 .. n : t[i] = Context(g, f + (m + i), first)
  <2>1. ASSUME NEW i \in 1 .. n
        PROVE  f + m + i = f + (m + i) /\ m + i \in 1 .. m + n
    OBVIOUS
  <2>2. t = [i \in 1 .. n |-> Context(g, f + (m + i), first)]
    BY <2>1 DEF Rows
  <2>3. \A i \in 1 .. n : Context(g, f + (m + i), first) \in T
    BY <1>1, <2>1
  <2> HIDE DEF t
  <2> QED
    BY <2>2, <2>3
<1>4. u \in Seq(T) /\ Len(u) = m + n
      /\ \A i \in 1 .. m + n : u[i] = Context(g, f + i, first)
  BY <1>1 DEF Rows
<1> HIDE DEF s, t, u
<1>5. /\ s \o t \in Seq(T) /\ Len(s \o t) = Len(s) + Len(t)
      /\ \A i \in 1 .. Len(s) + Len(t) : (s \o t)[i] = IF i <= Len(s) THEN s[i] ELSE t[i - Len(s)]
  BY <1>2, <1>3, ConcatProperties, Zenon
<1>6. ASSUME NEW i \in 1 .. m + n PROVE (s \o t)[i] = u[i]
  <2>1. CASE i <= m
    BY <1>2, <1>3, <1>4, <1>5, <2>1
  <2>2. CASE ~(i <= m)
    <3>1. i - m \in 1 .. n /\ m + (i - m) = i
      BY <2>2
    <3>2. t[i - m] = Context(g, f + i, first)
      BY <1>3, <3>1
    <3> QED
      BY <1>2, <1>3, <1>4, <1>5, <2>2, <3>2
  <2> QED
    BY <2>1, <2>2
<1>7. s \o t = u
  BY <1>2, <1>3, <1>4, <1>5, <1>6, SeqEqual
<1> QED
  BY <1>7 DEF s, t, u

-----------------------------------------------------------------------------
(* The inductive invariant.                                                *)

\* The last frame of the batch that an online frame is in.
OnlineBatchEnd(f) == ((f + BatchSize - 1) \div BatchSize) * BatchSize

\* The normalized features of an online session.
OnlineFeatures == [f \in Int |-> [frame |-> f, over |-> Latest(OnlineBatchEnd(f))]]

\* Those of a file.
FileFeatures(last) == [f \in Int |-> [frame |-> f, over |-> Latest(last)]]

Counts ==
    /\ heard \in Nat /\ fileHeard \in Nat /\ fileFirst \in Nat
    /\ \E q \in Nat : heard = BatchSize * q

Histories == Holds(cmvn, fileHeard) /\ Holds(onlineCmvn, heard)

\* From the first batch on, the window waits for the first frame whose right
\* context has not come.
OnlineWindow ==
    mode = "online" =>
        IF heard = 0 THEN featWindow = NoWindow /\ spliced = <<>>
        ELSE /\ ReadyFor(featWindow, OnlineFeatures, heard - RightContext, 1)
             /\ heard > RightContext
             /\ spliced = Rows(OnlineFeatures, 0, 1, heard - RightContext)

FileRows ==
    mode = "file" =>
        spliced = Rows(FileFeatures(fileHeard), fileFirst - 1, fileFirst,
                       fileHeard - fileFirst + 1 - RightContext)

PipelineInv == Counts /\ Histories /\ OnlineWindow /\ FileRows

LEMMA NewHolds == Holds(NewCMN, 0)
<1>1. 0 < History /\ History \in Nat
  BY PipelineAssumption
<1>2. Placed(<<>>, 0, 0)
  <2>1. <<>> \in Seq(Nat) /\ Len(<<>>) = 0
    BY EmptySeq
  <2> QED
    BY <1>1, <2>1 DEF Placed
<1> QED
  BY <1>2, HoldsPlaced DEF NewCMN

LEMMA InitInv == Init => PipelineInv
<1> SUFFICES ASSUME Init PROVE PipelineInv
  OBVIOUS
<1>1. Counts
  <2>1. 0 \in Nat /\ 1 \in Nat /\ 0 = BatchSize * 0
    BY PipelineAssumption
  <2> QED
    BY <2>1 DEF Init, Counts
<1>2. Histories
  BY NewHolds DEF Init, Histories
<1>3. OnlineWindow /\ FileRows
  BY DEF Init, OnlineWindow, FileRows
<1> QED
  BY <1>1, <1>2, <1>3 DEF PipelineInv

\* A normalized batch.
LEMMA BatchNormalized ==
  ASSUME NEW n \in Nat, NEW k \in Nat, NEW cmn, Holds(cmn, n + k)
  PROVE  LET feats == Normalized(cmn, Following(n, k))
         IN  /\ feats \in Seq({feats[i] : i \in 1 .. k}) /\ Len(feats) = k
             /\ \A i \in 1 .. k : feats[i] = [frame |-> n + i, over |-> Latest(n + k)]
<1> DEFINE feats == Normalized(cmn, Following(n, k))
<1>1. ToSet(cmn.stats) = Latest(n + k)
  <2>1. n + k \in Nat
    OBVIOUS
  <2> QED
    BY <2>1, LatestHeld
<1>2. feats = [i \in 1 .. k |-> [frame |-> n + i, over |-> Latest(n + k)]]
  BY <1>1 DEF Normalized, Following
<1> HIDE DEF feats
<1>3. Len(feats) = k /\ \A i \in 1 .. k : feats[i] = [frame |-> n + i, over |-> Latest(n + k)]
  BY <1>2
<1>4. feats \in Seq({feats[i] : i \in 1 .. k})
  <2>1. feats = [i \in 1 .. k |-> feats[i]]
    BY <1>2
  <2> DEFINE T == {feats[i] : i \in 1 .. k}
  <2>2. \A i \in 1 .. k : feats[i] \in T
    OBVIOUS
  <2> HIDE DEF T
  <2>3. feats \in [1 .. k -> T]
    BY <2>1, <2>2
  <2>4. feats \in Seq(T)
    BY <2>3
  <2> QED
    BY <2>4 DEF T
<1> QED
  BY <1>3, <1>4 DEF feats

\* The frames of one batch have its last frame in common.
LEMMA SameBatch ==
  ASSUME NEW q \in Nat, NEW i \in 1 .. BatchSize
  PROVE  OnlineBatchEnd(BatchSize * q + i) = BatchSize * q + BatchSize
<1> DEFINE B == BatchSize
<1>1. B \in Nat \ {0}
  BY PipelineAssumption
<1>2. PICK m \in Nat : m = B * q
  BY <1>1
<1>3. PICK a \in Int : a = m + i + B - 1
  BY <1>1
<1>4. PICK p \in Int, r \in 0 .. B - 1 : a = B * p + r /\ a \div B = p
  BY <1>1, IntegerDivision, Zenon
<1>5. a = B * (q + 1) + (i - 1) /\ q + 1 \in Int /\ i - 1 \in 0 .. B - 1
  <2>1. B * (q + 1) = B * q + B
    BY <1>1
  <2> QED
    BY <1>1, <1>2, <1>3, <2>1
<1>6. p = q + 1
  BY <1>1, <1>4, <1>5, DivisionUnique
<1>7. (a \div B) * B = m + B
  <2>1. (q + 1) * B = B * q + B
    BY <1>1
  <2> QED
    BY <1>2, <1>4, <1>6, <2>1
<1> QED
  BY <1>2, <1>3, <1>7 DEF OnlineBatchEnd

\* The features of an online batch.
LEMMA OnlineBatch ==
  ASSUME NEW cmn, Counts, Holds(cmn, heard + BatchSize)
  PROVE  LET feats == Normalized(cmn, Following(heard, BatchSize))
         IN  /\ feats \in Seq({feats[i] : i \in 1 .. BatchSize})
             /\ IsBatch(feats, OnlineFeatures, heard, BatchSize)
<1> DEFINE feats == Normalized(cmn, Following(heard, BatchSize))
<1>1. BatchSize \in Nat /\ heard \in Nat
  BY PipelineAssumption DEF Counts
<1>2. PICK q \in Nat : heard = BatchSize * q
  BY DEF Counts
<1>3. /\ feats \in Seq({feats[i] : i \in 1 .. BatchSize}) /\ Len(feats) = BatchSize
      /\ \A i \in 1 .. BatchSize :
            feats[i] = [frame |-> heard + i, over |-> Latest(heard + BatchSize)]
  BY <1>1, BatchNormalized
<1>4. ASSUME NEW i \in 1 .. BatchSize
      PROVE  OnlineFeatures[heard + i] = [frame |-> heard + i, over |-> Latest(heard + BatchSize)]
  <2>1. OnlineBatchEnd(heard + i) = heard + BatchSize
    BY <1>2, SameBatch
  <2>2. heard + i \in Int
    BY <1>1
  <2> QED
    BY <2>1, <2>2 DEF OnlineFeatures
<1> HIDE DEF feats
<1> QED
  BY <1>3, <1>4 DEF feats, IsBatch

LEMMA BatchCounts ==
  ASSUME Counts
  PROVE  /\ heard + BatchSize \in Nat /\ heard + BatchSize > 0
         /\ \E q \in Nat : heard + BatchSize = BatchSize * q
         /\ BatchSize > RightContext
<1>1. BatchSize \in Nat /\ BatchSize > RightContext /\ RightContext \in Nat /\ heard \in Nat
  BY PipelineAssumption DEF Counts
<1>2. PICK q \in Nat : heard = BatchSize * q
  BY DEF Counts
<1>3. q + 1 \in Nat /\ BatchSize * (q + 1) = BatchSize * q + BatchSize
  BY <1>1
<1> QED
  BY <1>1, <1>2, <1>3

LEMMA ComputeBatchKeeps == PipelineInv /\ ComputeBatch => PipelineInv'
<1> SUFFICES ASSUME PipelineInv, ComputeBatch PROVE PipelineInv'
  OBVIOUS
<1> DEFINE cmn == Updated(onlineCmvn, Following(heard, BatchSize))
           feats == Normalized(cmn, Following(heard, BatchSize))
           result == Splice(featWindow, feats)
           g == OnlineFeatures
           B == BatchSize
           R == RightContext
<1>1. /\ mode = "online" /\ onlineCmvn' = cmn /\ featWindow' = result.window
      /\ spliced' = spliced \o result.rows /\ heard' = heard + B
      /\ UNCHANGED <<mode, cmvn, fileHeard, fileFirst>>
  BY DEF ComputeBatch, Following
<1>2. /\ B \in Nat /\ R \in Nat /\ B > R /\ heard \in Nat /\ heard + B > 0
      /\ \E q \in Nat : heard + B = B * q
  BY BatchCounts, Sizes, PipelineAssumption DEF PipelineInv, Counts
<1>3. Counts'
  <2>1. heard + B \in Nat
    BY <1>2
  <2> QED
    BY <1>1, <1>2, <2>1, Zenon DEF PipelineInv, Counts
<1>4. Holds(cmn, heard + B)
  BY <1>2, AllCached DEF PipelineInv, Histories
<1>5. Histories'
  BY <1>1, <1>4 DEF PipelineInv, Histories
<1>6. feats \in Seq({feats[i] : i \in 1 .. B}) /\ IsBatch(feats, g, heard, B)
  BY <1>4, OnlineBatch DEF PipelineInv
<1> HIDE DEF cmn, feats, g
<1>7. /\ ReadyFor(result.window, g, heard + B - R, 1)
      /\ heard + B > R
      /\ spliced' = Rows(g, 0, 1, heard + B - R)
  <2>1. CASE heard = 0
    <3>1. featWindow = NoWindow /\ spliced = <<>>
      BY <1>1, <2>1 DEF PipelineInv, OnlineWindow
    <3>2. /\ result.rows = Rows(g, 0, 0 + 1, B - R)
          /\ ReadyFor(result.window, g, 0 + B - R, 0 + 1)
      <4>1. 0 \in Nat /\ B > RightContext /\ IsBatch(feats, g, 0, B)
        BY <1>2, <1>6, <2>1
      <4>2. \A T : feats \in Seq(T) =>
              /\ Splice(NoWindow, feats).rows = Rows(g, 0, 0 + 1, B - RightContext)
              /\ ReadyFor(Splice(NoWindow, feats).window, g, 0 + B - RightContext, 0 + 1)
        BY <1>2, <4>1, SplicedFirst
      <4> QED
        BY <1>6, <3>1, <4>2, Zenon
    <3>3. PICK m \in Nat : m = B - R /\ m = heard + B - R /\ m = 0 + B - R /\ heard + B > R
      BY <1>2, <2>1
    <3>4. 0 + 1 = 1 /\ 0 + 0 = 0 /\ 0 + m = m
      BY <3>3
    <3>5. Rows(g, 0, 1, 0) \o Rows(g, 0 + 0, 1, m) = Rows(g, 0, 1, 0 + m)
      <4>1. 0 \in Int /\ 1 \in Int /\ 0 \in Nat
        OBVIOUS
      <4> QED
        BY <4>1, RowsJoined, Zenon
    <3>6. Rows(g, 0, 1, 0) = <<>>
      BY DEF Rows
    <3> HIDE DEF result
    <3>7. spliced' = Rows(g, 0, 1, m)
      BY <1>1, <3>1, <3>2, <3>3, <3>4, <3>5, <3>6, Zenon
    <3> QED
      BY <3>2, <3>3, <3>4, <3>7, Zenon
  <2>2. CASE heard # 0
    <3>1. /\ ReadyFor(featWindow, g, heard - R, 1) /\ heard > R
          /\ spliced = Rows(g, 0, 1, heard - R)
      BY <1>1, <2>2 DEF PipelineInv, OnlineWindow, g
    <3>2. /\ result.rows = Rows(g, heard - R, 1, B)
          /\ ReadyFor(result.window, g, heard + B - R, 1)
      <4>1. heard + 1 >= 1 /\ 1 \in Int
        BY <1>2
      <4> QED
        BY <1>2, <1>6, <3>1, <4>1, SplicedLater, Zenon
    <3>3. PICK m \in Nat : m = heard - R /\ 0 + m = m /\ m + B = heard + B - R /\ heard + B > R
      BY <1>2, <3>1
    <3>4. Rows(g, 0, 1, m) \o Rows(g, 0 + m, 1, B) = Rows(g, 0, 1, m + B)
      <4>1. 0 \in Int /\ 1 \in Int
        OBVIOUS
      <4> QED
        BY <1>2, <4>1, RowsJoined, Zenon
    <3> HIDE DEF result
    <3> QED
      BY <1>1, <3>1, <3>2, <3>3, <3>4, Zenon
  <2> QED
    BY <2>1, <2>2
<1>8. OnlineWindow'
  <2> HIDE DEF result
  <2> QED
    BY <1>1, <1>2, <1>7 DEF OnlineWindow, g
<1>9. FileRows'
  BY <1>1 DEF FileRows
<1> QED
  BY <1>3, <1>5, <1>8, <1>9 DEF PipelineInv

LEMMA StartOnlineKeeps == PipelineInv /\ StartOnline => PipelineInv'
<1> SUFFICES ASSUME PipelineInv, StartOnline PROVE PipelineInv'
  OBVIOUS
<1>1. /\ mode' = "online" /\ onlineCmvn' = NewCMN /\ featWindow' = NoWindow
      /\ heard' = 0 /\ spliced' = <<>>
      /\ UNCHANGED <<cmvn, fileHeard, fileFirst>>
  BY DEF StartOnline
<1>2. Counts'
  <2>1. 0 \in Nat /\ 0 = BatchSize * 0
    BY PipelineAssumption
  <2> QED
    BY <1>1, <2>1 DEF PipelineInv, Counts
<1>3. Histories'
  BY <1>1, NewHolds DEF PipelineInv, Histories
<1>4. OnlineWindow' /\ FileRows'
  BY <1>1 DEF OnlineWindow, FileRows
<1> QED
  BY <1>2, <1>3, <1>4 DEF PipelineInv

LEMMA DecodeFileKeeps == PipelineInv /\ DecodeFile => PipelineInv'
<1> SUFFICES ASSUME PipelineInv, DecodeFile PROVE PipelineInv'
  OBVIOUS
<1>1. PICK n \in FileLengths :
        /\ fileFirst' = fileHeard + 1 /\ fileHeard' = fileHeard + n
        /\ cmvn' = Updated(cmvn, Following(fileHeard, n))
        /\ IF n > RightContext
             THEN /\ mode' = "file"
                  /\ spliced' = LdaTransform(Normalized(cmvn', Following(fileHeard, n)))
             ELSE mode' = "aborted" /\ UNCHANGED spliced
        /\ UNCHANGED <<onlineCmvn, featWindow, heard>>
  BY DEF DecodeFile, Following
<1>2. n \in Nat /\ fileHeard \in Nat /\ RightContext \in Nat /\ fileHeard + n \in Nat
      /\ fileHeard + 1 \in Nat
  BY PipelineAssumption DEF PipelineInv, Counts
<1>3. Counts'
  BY <1>1, <1>2, Zenon DEF PipelineInv, Counts
<1>4. Holds(cmvn', fileHeard + n)
  BY <1>1, <1>2, AllCached DEF PipelineInv, Histories
<1>5. Histories'
  BY <1>1, <1>4, Zenon DEF PipelineInv, Histories
<1>6. OnlineWindow'
  BY <1>1 DEF OnlineWindow
<1>7. CASE n > RightContext
  <2> DEFINE feats == Normalized(cmvn', Following(fileHeard, n))
             g == FileFeatures(fileHeard + n)
  <2>1. /\ feats \in Seq({feats[i] : i \in 1 .. n}) /\ Len(feats) = n
        /\ \A i \in 1 .. n : feats[i] = [frame |-> fileHeard + i, over |-> Latest(fileHeard + n)]
    BY <1>2, <1>4, BatchNormalized
  <2> HIDE DEF feats
  <2>2. IsBatch(feats, g, fileHeard, n)
    <3>1. \A i \in 1 .. n : fileHeard + i \in Int
      BY <1>2
    <3> QED
      BY <2>1, <3>1 DEF IsBatch, FileFeatures
  <2>3. \A T : feats \in Seq(T) =>
          Splice(NoWindow, feats).rows = Rows(g, fileHeard, fileHeard + 1, n - RightContext)
    <3> HIDE DEF g
    <3> QED
      BY <1>2, <1>7, <2>2, SplicedFirst
  <2>4. spliced' = Rows(g, fileHeard, fileHeard + 1, n - RightContext)
    BY <1>1, <1>7, <2>1, <2>3, Zenon DEF LdaTransform, feats
  <2>5. /\ fileHeard' - fileFirst' + 1 - RightContext = n - RightContext
        /\ fileFirst' - 1 = fileHeard
    BY <1>1, <1>2
  <2>6. FileRows'
    BY <1>1, <2>4, <2>5, Zenon DEF FileRows, g
  <2> QED
    BY <1>3, <1>5, <1>6, <2>6 DEF PipelineInv
<1>8. CASE ~(n > RightContext)
  <2>1. FileRows'
    BY <1>1, <1>8 DEF FileRows
  <2> QED
    BY <1>3, <1>5, <1>6, <2>1 DEF PipelineInv
<1> QED
  BY <1>7, <1>8

LEMMA NextInv == PipelineInv /\ [Next]_vars => PipelineInv'
<1> SUFFICES ASSUME PipelineInv, [Next]_vars PROVE PipelineInv'
  OBVIOUS
<1>1. ASSUME UNCHANGED <<cmvn, onlineCmvn, featWindow, heard, fileHeard, fileFirst, spliced>>,
             mode' = mode \/ mode' = "idle"
      PROVE  PipelineInv'
  <2>1. Counts' /\ Histories'
    BY <1>1, Zenon DEF PipelineInv, Counts, Histories
  <2>2. OnlineWindow' /\ FileRows'
    BY <1>1 DEF PipelineInv, OnlineWindow, FileRows
  <2> QED
    BY <2>1, <2>2 DEF PipelineInv
<1>2. CASE EndOnline \/ EndFile \/ Aborted \/ UNCHANGED vars
  BY <1>1, <1>2 DEF EndOnline, EndFile, Aborted, vars
<1> QED
  BY <1>2, StartOnlineKeeps, ComputeBatchKeeps, DecodeFileKeeps DEF Next

LEMMA Invariance == Spec => []PipelineInv
BY InitInv, NextInv, PTL DEF Spec

-----------------------------------------------------------------------------
(* The theorems.                                                           *)

\* online-feat-input.h:71-72: for any History and any batches and files, the
\* mean and the variance are taken over the latest features, each once.
THEOREM NormalizationIsOverLatest == Spec => []HistoryIsLatest
<1>1. PipelineInv => HistoryIsLatest
  BY LatestHeld DEF PipelineInv, Histories, Counts, HistoryIsLatest
<1> QED
  BY <1>1, Invariance, PTL

\* online-feat-input.cc:84-137: for any context and any batch longer than the
\* right one, each online frame has one row, with its own neighbours.
THEOREM OnlineFramesHaveContext == Spec => []OnlineRowsInContext
<1>1. PipelineInv => OnlineRowsInContext
  <2> SUFFICES ASSUME PipelineInv, mode = "online" PROVE OnlineRowsInContext
    BY DEF OnlineRowsInContext
  <2>1. heard \in Nat /\ RightContext \in Nat /\ heard - RightContext \in Int /\ 0 \in Int
    BY Sizes DEF PipelineInv, Counts
  <2>2. PICK n \in Nat : n = Max({0, heard - RightContext}) /\ spliced = Rows(OnlineFeatures, 0, 1, n)
    <3>1. Max({0, heard - RightContext})
            = IF 0 >= heard - RightContext THEN 0 ELSE heard - RightContext
      BY <2>1, TheLarger
    <3>2. CASE heard = 0
      <4>1. spliced = <<>> /\ Max({0, heard - RightContext}) = 0
        BY <2>1, <3>1, <3>2 DEF PipelineInv, OnlineWindow
      <4>2. Rows(OnlineFeatures, 0, 1, 0) = <<>>
        BY DEF Rows
      <4> QED
        BY <4>1, <4>2
    <3>3. CASE heard # 0
      <4>1. /\ spliced = Rows(OnlineFeatures, 0, 1, heard - RightContext)
            /\ heard > RightContext
        BY <3>3 DEF PipelineInv, OnlineWindow
      <4>2. Max({0, heard - RightContext}) = heard - RightContext /\ heard - RightContext \in Nat
        BY <2>1, <3>1, <4>1
      <4> QED
        BY <4>1, <4>2
    <3> QED
      BY <3>2, <3>3
  <2>3. ASSUME NEW k \in 1 .. n
        PROVE  Context(OnlineFeatures, 0 + k, 1) = Neighbours(k, 1, OnlineBatchEnd)
    <3>1. ASSUME NEW i \in 1 .. WindowSize
          PROVE  /\ Max({1, k - LeftContext + i - 1}) \in Int
                 /\ 0 + k = k
      <4>1. k - LeftContext + i - 1 \in Int /\ 1 \in Int /\ 0 + k = k
        BY Sizes
      <4> QED
        BY <4>1, TheLarger
    <3> QED
      BY <3>1 DEF Context, Neighbours, OnlineFeatures
  <2>4. spliced = [k \in 1 .. n |-> Neighbours(k, 1, OnlineBatchEnd)]
    BY <2>2, <2>3 DEF Rows
  <2> QED
    BY <2>2, <2>4, Zenon DEF OnlineRowsInContext, Neighbours, OnlineBatchEnd
<1> QED
  BY <1>1, Invariance, PTL

\* DecodeWorker.cc:68-111: for files of any length, in any order, the rows of a
\* file are those of its own frames.
THEOREM FileFramesHaveContext == Spec => []FileRowsInContext
<1>1. PipelineInv => FileRowsInContext
  <2> SUFFICES ASSUME PipelineInv, mode = "file" PROVE FileRowsInContext
    BY DEF FileRowsInContext
  <2>1. fileHeard \in Nat /\ fileFirst \in Nat
    BY DEF PipelineInv, Counts
  <2> DEFINE n == fileHeard - fileFirst + 1 - RightContext
             BatchEnd(f) == fileHeard
  <2>2. spliced = Rows(FileFeatures(fileHeard), fileFirst - 1, fileFirst, n)
    BY DEF PipelineInv, FileRows
  <2>3. n \in Int
    BY <2>1, Sizes
  <2> HIDE DEF n
  <2>4. ASSUME NEW k \in 1 .. n
        PROVE  Context(FileFeatures(fileHeard), fileFirst - 1 + k, fileFirst)
                 = Neighbours(fileFirst + k - 1, fileFirst, BatchEnd)
    <3>1. PICK f \in Int : f = fileFirst - 1 + k /\ f = fileFirst + k - 1
      BY <2>1, <2>3
    <3>2. ASSUME NEW i \in 1 .. WindowSize
          PROVE  Max({fileFirst, f - LeftContext + i - 1}) \in Int
      <4>1. f - LeftContext + i - 1 \in Int /\ fileFirst \in Int
        BY <2>1, <3>1, Sizes
      <4> QED
        BY <4>1, TheLarger
    <3>3. Context(FileFeatures(fileHeard), f, fileFirst) = Neighbours(f, fileFirst, BatchEnd)
      BY <3>2 DEF Context, Neighbours, FileFeatures
    <3> QED
      BY <3>1, <3>3, Zenon
  <2>5. spliced = [k \in 1 .. n |-> Neighbours(fileFirst + k - 1, fileFirst, BatchEnd)]
    BY <2>2, <2>4 DEF Rows
  <2> QED
    BY <2>5, Zenon DEF FileRowsInContext, Neighbours, n
<1> QED
  BY <1>1, Invariance, PTL
==================================================================================
