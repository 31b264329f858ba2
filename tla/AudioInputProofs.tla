---------------------------- MODULE AudioInputProofs ----------------------------
(***************************************************************************)
(* Theorems about AudioInput, for any buffer, blocks, frames and requests. *)
(*                                                                         *)
(* AudioInv is the inductive invariant.  Stream says that the remainder of *)
(* the last batch and the ring buffer are, together, the samples from the  *)
(* next frame to the last one stored; a batch (ReturnKeeps) cuts its       *)
(* frames off their front, a callback adds to their end.  Reading and      *)
(* Warned say what one thread has found of the buffer, which the other may *)
(* change before it acts: the callback's room only grows meanwhile, and so *)
(* do the samples of the caller.                                           *)
(*                                                                         *)
(* DeltaInv, on top of it, says which features the window of the deltas    *)
(* holds between two batches (ReadyFor), the first of them excepted, which *)
(* the next one shifts out.  WindowsShifted is the induction over the      *)
(* features of a batch.                                                    *)
(***************************************************************************)
EXTENDS AudioInput, SequenceTheorems, NaturalsInduction, WellFoundedInduction, TLAPS

-----------------------------------------------------------------------------
(* Arithmetic.                                                             *)

LEMMA IntegerDivision ==
  ASSUME NEW a \in Int, NEW m \in Nat \ {0}
  PROVE  \E q \in Int, r \in 0 .. m - 1 :
            a = m * q + r /\ a % m = r /\ a \div m = q /\ (a \in Nat => q \in Nat)
<1>1. \A x \in Int, y \in Nat \ {0} :
        /\ x \div y \in Int /\ x % y = x - y * (x \div y) /\ x % y \in 0 .. y - 1
        /\ x \in Nat => x \div y \in Nat
  OBVIOUS
<1>2. /\ a \div m \in Int /\ a % m = a - m * (a \div m) /\ a % m \in 0 .. m - 1
      /\ a \in Nat => a \div m \in Nat
  BY <1>1, Zenon
<1>3. PICK q \in Int, r \in 0 .. m - 1 :
        q = a \div m /\ r = a % m /\ r = a - m * q /\ (a \in Nat => q \in Nat)
  BY <1>2, Zenon
<1>4. a = m * q + r
  BY <1>3
<1> QED
  BY <1>3, <1>4, Zenon

\* Quotient and remainder are unique.
LEMMA DivisionUnique ==
  ASSUME NEW m \in Nat \ {0}, NEW q \in Int, NEW r \in 0 .. m - 1,
         NEW p \in Int, NEW s \in 0 .. m - 1, m * q + r = m * p + s
  PROVE  q = p /\ r = s
<1>1. ASSUME NEW x \in Int, NEW y \in Int, x < y PROVE m * x + m <= m * y
  <2>1. m * (x + 1) <= m * y
    BY <1>1
  <2>2. m * (x + 1) = m * x + m
    OBVIOUS
  <2> QED
    BY <2>1, <2>2
<1>2. ~(q < p) /\ ~(p < q)
  BY <1>1
<1> QED
  BY <1>2

LEMMA IntegerModSum ==
  ASSUME NEW a \in Int, NEW b \in Int, NEW m \in Nat \ {0}
  PROVE  ((a % m) + b) % m = (a + b) % m /\ a % m \in Nat
<1>1. PICK q \in Int, r \in 0 .. m - 1 : a = m * q + r /\ a % m = r
  BY IntegerDivision, Zenon
<1>2. PICK x \in Int, y \in 0 .. m - 1 : r + b = m * x + y /\ (r + b) % m = y
  <2>1. r + b \in Int
    OBVIOUS
  <2> QED
    BY <2>1, IntegerDivision, Zenon
<1>3. PICK u \in Int, v \in 0 .. m - 1 : a + b = m * u + v /\ (a + b) % m = v
  <2>1. a + b \in Int
    OBVIOUS
  <2> QED
    BY <2>1, IntegerDivision, Zenon
<1>4. m * u + v = m * (q + x) + y
  <2>1. m * (q + x) = m * q + m * x
    OBVIOUS
  <2>2. m * q \in Int /\ m * x \in Int /\ m * u \in Int
    OBVIOUS
  <2> QED
    BY <2>1, <2>2, <1>1, <1>2, <1>3
<1>5. v = y
  BY <1>4, DivisionUnique
<1> QED
  BY <1>1, <1>2, <1>3, <1>5

LEMMA Division ==
  ASSUME NEW a \in Nat, NEW m \in Nat \ {0}
  PROVE  \E q \in Nat, r \in 0 .. m - 1 : a = m * q + r /\ a % m = r /\ a \div m = q
<1>1. a \in Int
  OBVIOUS
<1>2. PICK q \in Int, r \in 0 .. m - 1 :
        a = m * q + r /\ a % m = r /\ a \div m = q /\ (a \in Nat => q \in Nat)
  BY <1>1, IntegerDivision, Zenon
<1> QED
  BY <1>2, Zenon

LEMMA ModSum ==
  ASSUME NEW a \in Nat, NEW b \in Nat, NEW m \in Nat \ {0}
  PROVE  ((a % m) + b) % m = (a + b) % m /\ a % m \in Nat
<1>1. a \in Int /\ b \in Int
  OBVIOUS
<1> QED
  BY <1>1, IntegerModSum, Zenon

\* The order of the natural numbers is well founded.
LEMMA NatOrder ==
  \E R : IsWellFoundedOn(R, Nat) /\ \A x, y \in Nat : y < x => <<y, x>> \in R
<1> DEFINE R == OpToRel(<, Nat)
<1>1. IsWellFoundedOn(R, Nat)
  BY NatLessThanWellFounded
<1>2. \A x, y \in Nat : y < x => <<y, x>> \in R
  BY DEF OpToRel
<1> HIDE DEF R
<1> QED
  BY <1>1, <1>2, Zenon

\* A set of natural numbers has a least element.
LEMMA Least ==
  ASSUME NEW T \in SUBSET Nat, T # {}
  PROVE  \E x \in T : \A y \in T : x <= y
<1>1. PICK R : IsWellFoundedOn(R, Nat) /\ \A x, y \in Nat : y < x => <<y, x>> \in R
  BY NatOrder, Zenon
<1>2. PICK x \in T : \A y \in T : ~(<<y, x>> \in R)
  BY <1>1, WFMin
<1>3. ASSUME NEW y \in T PROVE x <= y
  <2>1. x \in Nat /\ y \in Nat
    OBVIOUS
  <2>2. ~(y < x)
    BY <1>1, <1>2, <2>1, Zenon
  <2> QED
    BY <2>1, <2>2
<1> QED
  BY <1>3

LEMMA TheSmaller ==
  ASSUME NEW a \in Int, NEW b \in Int
  PROVE  Min({a, b}) = IF a <= b THEN a ELSE b
<1>1. \E x \in {a, b} : \A y \in {a, b} : x <= y
  OBVIOUS
<1> QED
  BY <1>1 DEF Min

\* The ring buffer has room for samples.
LEMMA CapacityIsNumber == Capacity \in Nat \ {0}
<1> DEFINE S == {b \in {2^k : k \in 0 .. 30} : b >= RbSize}
<1>1. S \in SUBSET Nat
  BY AudioAssumption
<1>2. 2^30 \in S
  BY AudioAssumption
<1>3. \E x \in S : \A y \in S : x <= y
  <2> HIDE DEF S
  <2> QED
    BY <1>1, <1>2, Least
<1> HIDE DEF S
<1>4. Min(S) \in S
  BY <1>3 DEF Min
<1>5. Min(S) \in Nat /\ Min(S) >= 2
  BY <1>1, <1>4, AudioAssumption DEF S
<1>6. Min(S) \div 2 \in Nat \ {0}
  BY <1>5
<1> QED
  BY <1>6 DEF Capacity, S
-----------------------------------------------------------------------------
(* The samples of a stream.                                                *)

LEMMA Wraps ==
  \A a, b \in Nat : ((a % Modulus) + b) % Modulus = (a + b) % Modulus /\ a % Modulus \in Nat
<1>1. Modulus \in Nat \ {0}
  BY AudioAssumption
<1> QED
  BY <1>1, ModSum, Zenon

LEMMA NumberedIs ==
  ASSUME NEW s \in Nat, NEW n \in Nat
  PROVE  /\ Numbered(s, n) \in Seq(Nat) /\ Len(Numbered(s, n)) = n
         /\ \A i \in 1 .. n : Numbered(s, n)[i] = (s + i - 1) % Modulus
<1>1. \A i \in 1 .. n : (s + i - 1) % Modulus \in Nat
  <2> SUFFICES ASSUME NEW i \in 1 .. n PROVE (s + i - 1) % Modulus \in Nat
    OBVIOUS
  <2>1. s + i - 1 \in Nat
    OBVIOUS
  <2> QED
    BY <2>1, AudioAssumption, ModSum, Zenon
<1> QED
  BY <1>1 DEF Numbered

\* Samples that are numbered on from s are those that Numbered gives.
LEMMA NumberedOnly ==
  ASSUME NEW s \in Nat, NEW wave \in Seq(Nat),
         \A i \in 1 .. Len(wave) : wave[i] = (s + i - 1) % Modulus
  PROVE  wave = Numbered(s, Len(wave))
<1>1. Len(wave) \in Nat
  BY EmptySeq
<1>2. wave \in Seq(Nat)
  OBVIOUS
<1> QED
  BY <1>1, NumberedIs, SeqEqual

LEMMA NumberedLater ==
  ASSUME NEW s \in Nat, NEW a \in Nat, NEW i \in Nat \ {0}
  PROVE  (((s + a) % Modulus) + i - 1) % Modulus = (s + (a + i) - 1) % Modulus
<1>1. s + a \in Nat /\ i - 1 \in Nat /\ Modulus \in Nat \ {0}
  BY AudioAssumption
<1>2. (((s + a) % Modulus) + (i - 1)) % Modulus = ((s + a) + (i - 1)) % Modulus
      /\ (s + a) % Modulus \in Nat
  BY <1>1, ModSum
<1>3. /\ ((s + a) % Modulus) + i - 1 = ((s + a) % Modulus) + (i - 1)
      /\ s + (a + i) - 1 = (s + a) + (i - 1)
  BY <1>2
<1> QED
  BY <1>2, <1>3

LEMMA NumberedPart ==
  ASSUME NEW s \in Nat, NEW n \in Nat, NEW a \in Nat, NEW b \in Nat, a + b <= n
  PROVE  SubSeq(Numbered(s, n), a + 1, a + b) = Numbered((s + a) % Modulus, b)
<1> DEFINE part == SubSeq(Numbered(s, n), a + 1, a + b)
<1>1. \A i \in a + 1 .. a + b : Numbered(s, n)[i] \in Nat
  <2>1. Numbered(s, n) \in Seq(Nat) /\ Len(Numbered(s, n)) = n
    BY NumberedIs
  <2>2. \A i \in 1 .. n : Numbered(s, n)[i] \in Nat
    BY <2>1, LenProperties
  <2> QED
    BY <2>2
<1>2. /\ part \in Seq(Nat) /\ Len(part) = b
      /\ \A i \in 1 .. b : part[i] = Numbered(s, n)[a + i]
  <2>1. /\ part \in Seq(Nat)
        /\ Len(part) = IF a + 1 <= a + b THEN (a + b) - (a + 1) + 1 ELSE 0
        /\ \A i \in 1 .. (a + b) - (a + 1) + 1 : part[i] = Numbered(s, n)[(a + 1) + i - 1]
    BY <1>1, SubSeqProperties
  <2>2. \A i \in 1 .. b : (a + 1) + i - 1 = a + i
    OBVIOUS
  <2> HIDE DEF part
  <2> QED
    BY <2>1, <2>2
<1> HIDE DEF part
<1>3. \A i \in 1 .. b : part[i] = (((s + a) % Modulus) + i - 1) % Modulus
  <2> SUFFICES ASSUME NEW i \in 1 .. b
               PROVE  part[i] = (((s + a) % Modulus) + i - 1) % Modulus
    OBVIOUS
  <2>1. a + i \in 1 .. n /\ i \in Nat \ {0}
    OBVIOUS
  <2>2. part[i] = (s + (a + i) - 1) % Modulus
    BY <1>2, <2>1, NumberedIs
  <2> QED
    BY <2>1, <2>2, NumberedLater
<1>4. (s + a) % Modulus \in Nat
  BY AudioAssumption, ModSum
<1>5. part = Numbered((s + a) % Modulus, Len(part))
  BY <1>2, <1>3, <1>4, NumberedOnly
<1> QED
  BY <1>2, <1>5 DEF part

LEMMA NumberedJoined ==
  ASSUME NEW s \in Nat, NEW a \in Nat, NEW b \in Nat
  PROVE  Numbered(s, a) \o Numbered((s + a) % Modulus, b) = Numbered(s, a + b)
<1> DEFINE t == (s + a) % Modulus
           u == Numbered(s, a)
           v == Numbered(t, b)
<1>1. t \in Nat
  BY AudioAssumption, ModSum
<1>2. /\ u \in Seq(Nat) /\ Len(u) = a /\ \A i \in 1 .. a : u[i] = (s + i - 1) % Modulus
      /\ v \in Seq(Nat) /\ Len(v) = b /\ \A i \in 1 .. b : v[i] = (t + i - 1) % Modulus
  <2> HIDE DEF t
  <2> QED
    BY <1>1, NumberedIs
<1>3. \A i \in Nat \ {0} : (t + i - 1) % Modulus = (s + (a + i) - 1) % Modulus
  BY NumberedLater
<1> HIDE DEF t, u, v
<1>4. /\ u \o v \in Seq(Nat) /\ Len(u \o v) = a + b
      /\ \A i \in 1 .. a + b : (u \o v)[i] = IF i <= a THEN u[i] ELSE v[i - a]
  BY <1>2, ConcatProperties
<1>5. \A i \in 1 .. Len(u \o v) : (u \o v)[i] = (s + i - 1) % Modulus
  <2> SUFFICES ASSUME NEW i \in 1 .. a + b PROVE (u \o v)[i] = (s + i - 1) % Modulus
    BY <1>4
  <2>1. CASE i <= a
    BY <1>2, <1>4, <2>1
  <2>2. CASE i > a
    <3>1. PICK j \in 1 .. b : j = i - a /\ a + j = i /\ j \in Nat \ {0}
      BY <2>2
    <3>2. (u \o v)[i] = v[j]
      BY <1>4, <2>2, <3>1
    <3> QED
      BY <1>2, <1>3, <3>1, <3>2
  <2>3. i <= a \/ i > a
    OBVIOUS
  <2> QED
    BY <2>1, <2>2, <2>3, Zenon
<1>6. u \o v = Numbered(s, Len(u \o v))
  BY <1>4, <1>5, NumberedOnly
<1> QED
  BY <1>4, <1>6 DEF t, u, v
-----------------------------------------------------------------------------
(* The frames of a stream.                                                 *)

LEMMA NumFramesIs ==
  ASSUME NEW n \in Nat
  PROVE  /\ NumFrames(n) \in Nat
         /\ NumFrames(n) * FrameShift \in Nat
         /\ NumFrames(n) * FrameShift <= n
         /\ n - NumFrames(n) * FrameShift < FrameSize
         /\ \A i \in 1 .. NumFrames(n) :
               (i - 1) * FrameShift \in Nat /\ (i - 1) * FrameShift + FrameSize <= n
<1> USE AudioAssumption
<1>1. CASE n < FrameSize
  <2>1. NumFrames(n) = 0
    BY <1>1 DEF NumFrames
  <2> QED
    BY <1>1, <2>1
<1>2. CASE n >= FrameSize
  <2>1. PICK q \in Nat, r \in 0 .. FrameShift - 1 :
          n - FrameSize = FrameShift * q + r /\ (n - FrameSize) \div FrameShift = q
    <3>1. n - FrameSize \in Nat /\ FrameShift \in Nat \ {0}
      BY <1>2
    <3> QED
      BY <3>1, Division, Zenon
  <2>2. NumFrames(n) = q + 1
    BY <1>2, <2>1 DEF NumFrames
  <2>3. (q + 1) * FrameShift = FrameShift * q + FrameShift /\ FrameShift * q \in Nat
    OBVIOUS
  <2>4. ASSUME NEW i \in 1 .. q + 1
        PROVE  (i - 1) * FrameShift \in Nat /\ (i - 1) * FrameShift <= FrameShift * q
    OBVIOUS
  <2> QED
    BY <1>2, <2>1, <2>2, <2>3, <2>4
<1> QED
  BY <1>1, <1>2

\* The samples that Compute asks for are those of the frames it is asked for.
LEMMA FramesRequested ==
  ASSUME NEW k \in Nat \ {0}
  PROVE  NumFrames(FrameSize + (k - 1) * FrameShift) = k
<1> USE AudioAssumption
<1>1. (k - 1) * FrameShift \in Nat /\ FrameShift \in Nat \ {0}
  OBVIOUS
<1>2. PICK q \in Nat, r \in 0 .. FrameShift - 1 :
        /\ (k - 1) * FrameShift = FrameShift * q + r
        /\ ((k - 1) * FrameShift) \div FrameShift = q
  BY <1>1, Division, Zenon
<1>3. FrameShift * (k - 1) + 0 = FrameShift * q + r
  BY <1>2
<1>4. k - 1 = q
  BY <1>3, DivisionUnique
<1>5. /\ FrameSize + (k - 1) * FrameShift >= FrameSize
      /\ (FrameSize + (k - 1) * FrameShift) - FrameSize = (k - 1) * FrameShift
  BY <1>1
<1> QED
  BY <1>2, <1>4, <1>5 DEF NumFrames

LEMMA PlusIs ==
  ASSUME NEW s \in Nat, NEW k \in Nat
  PROVE  Plus(s, k) \in Nat /\ k * FrameShift \in Nat
<1>1. k * FrameShift \in Nat
  BY AudioAssumption
<1>2. s + k * FrameShift \in Nat
  BY <1>1
<1> QED
  BY <1>1, <1>2, AudioAssumption, ModSum DEF Plus

LEMMA FramesOfStream ==
  ASSUME NEW s \in Nat, NEW n \in Nat
  PROVE  /\ Frames(Numbered(s, n)) =
                [i \in 1 .. NumFrames(n) |-> Numbered(Plus(s, i - 1), FrameSize)]
         /\ Len(Frames(Numbered(s, n))) = NumFrames(n)
         /\ DOMAIN Frames(Numbered(s, n)) = 1 .. NumFrames(n)
<1>1. Len(Numbered(s, n)) = n /\ NumFrames(n) \in Nat
  BY NumberedIs, NumFramesIs
<1>2. ASSUME NEW i \in 1 .. NumFrames(n)
      PROVE  SubSeq(Numbered(s, n), (i - 1) * FrameShift + 1, (i - 1) * FrameShift + FrameSize)
               = Numbered(Plus(s, i - 1), FrameSize)
  <2>1. (i - 1) * FrameShift \in Nat /\ (i - 1) * FrameShift + FrameSize <= n
    BY NumFramesIs
  <2> DEFINE a == (i - 1) * FrameShift
  <2> HIDE DEF a
  <2>2. SubSeq(Numbered(s, n), a + 1, a + FrameSize) = Numbered((s + a) % Modulus, FrameSize)
    <3>1. a \in Nat /\ FrameSize \in Nat /\ a + FrameSize <= n
      BY <2>1, AudioAssumption DEF a
    <3> QED
      BY <3>1, NumberedPart, Zenon
  <2> QED
    BY <2>2 DEF a, Plus
<1>3. Frames(Numbered(s, n)) =
        [i \in 1 .. NumFrames(n) |-> Numbered(Plus(s, i - 1), FrameSize)]
  BY <1>1, <1>2 DEF Frames
<1> QED
  BY <1>1, <1>3

\* What the frames leave over goes on where the frame behind them would begin.
LEMMA LeftOver ==
  ASSUME NEW s \in Nat, NEW n \in Nat
  PROVE  LET k == NumFrames(n)
             rest == n - k * FrameShift
         IN  /\ rest \in Nat /\ rest < FrameSize
             /\ SubSeq(Numbered(s, n), k * FrameShift + 1, n) = Numbered(Plus(s, k), rest)
             /\ (Plus(s, k) + rest) % Modulus = (s + n) % Modulus
<1> DEFINE a == NumFrames(n) * FrameShift
           rest == n - a
<1>1. a \in Nat /\ a <= n /\ rest \in Nat /\ rest < FrameSize /\ a + rest = n
  BY NumFramesIs
<1>2. Plus(s, NumFrames(n)) = (s + a) % Modulus
  BY DEF Plus
<1> HIDE DEF a, rest
<1>3. SubSeq(Numbered(s, n), a + 1, a + rest) = Numbered((s + a) % Modulus, rest)
  <2>1. ASSUME NEW b \in Nat, NEW c \in Nat, b + c <= n
        PROVE  SubSeq(Numbered(s, n), b + 1, b + c) = Numbered((s + b) % Modulus, c)
    BY <2>1, NumberedPart
  <2>2. a + rest <= n
    BY <1>1
  <2> QED
    BY <1>1, <2>1, <2>2, Zenon
<1>4. (((s + a) % Modulus) + rest) % Modulus = ((s + a) + rest) % Modulus
  <2>1. s + a \in Nat
    BY <1>1
  <2> QED
    BY <1>1, <2>1, AudioAssumption, ModSum
<1>5. (s + a) + rest = s + n
  BY <1>1
<1> QED
  BY <1>1, <1>2, <1>3, <1>4, <1>5 DEF a, rest
-----------------------------------------------------------------------------
(* The inductive invariant.                                                *)

AudioTypes ==
    /\ source \in {"pa", "vector"} /\ cb \in {"stopped", "idle", "write"}
    /\ pc \in {"idle", "read", "take", "expired", "thrown"}
    /\ ring \in Seq(Nat) /\ Len(ring) <= Capacity
    /\ stored \in Nat /\ block \in Nat /\ left \in Nat /\ req \in Nat /\ asked \in Nat
    /\ overflow \in BOOLEAN
    /\ remainder \in Seq(Nat) /\ Len(remainder) < FrameSize
    /\ out.first \in Nat /\ out.more \in BOOLEAN /\ Len(out.rows) \in Nat

\* The first sample behind the frames that were given.
Start == Plus(out.first, Len(out.rows))

\* What is left over and what is in the buffer are the samples from there to the
\* last one stored.
Stream ==
    pc # "thrown" =>
        /\ remainder = Numbered(Start, Len(remainder))
        /\ ring = Numbered((Start + Len(remainder)) % Modulus, Len(ring))
        /\ stored = (Start + Len(remainder) + Len(ring)) % Modulus

\* Between Read's test and its read, the buffer may only grow.
Reading ==
    /\ pc \in {"read", "take"} => asked \in Nat \ {0} /\ req = SamplesReq(asked)
    /\ pc \in {"take", "expired"} => source = "pa" /\ req <= Len(ring)
    /\ source = "vector" => ring = <<>> /\ cb = "stopped"

\* Between the callback's test and its write, it may only shrink.
Warned ==
    /\ cb = "write" /\ block > Capacity - Len(ring) => overflow
    /\ cb = "stopped" => block = 0

AudioInv ==
    AudioTypes /\ Stream /\ Reading /\ Warned
        /\ RowsFollowStream /\ RowsAsAsked /\ LossWasCounted

LEMMA StartIs == AudioTypes => Start \in Nat
BY PlusIs DEF AudioTypes, Start

LEMMA InitInv == Init => AudioInv
<1> SUFFICES ASSUME Init PROVE AudioInv
  OBVIOUS
<1> USE DEF Init
<1>1. AudioTypes
  <2>1. <<>> \in Seq(Nat) /\ Len(<<>>) = 0
    BY EmptySeq
  <2>2. out.first = 0 /\ out.more = TRUE /\ out.rows = <<>>
    OBVIOUS
  <2>3. 0 <= Capacity /\ 0 < FrameSize /\ RecordingSize \in Nat /\ 0 \in Nat
    BY AudioAssumption, CapacityIsNumber
  <2>4. /\ ring = <<>> /\ remainder = <<>> /\ stored = 0 /\ block = 0 /\ req = 0 /\ asked = 0
        /\ left = RecordingSize /\ overflow = FALSE
        /\ source \in {"pa", "vector"} /\ cb = "stopped" /\ pc = "idle"
    OBVIOUS
  <2> QED
    BY <2>1, <2>2, <2>3, <2>4, Zenon DEF AudioTypes
<1>2. Start = 0
  BY AudioAssumption DEF Start, Plus
<1>3. Stream
  <2>1. \A s \in Nat : Numbered(s, 0) = <<>>
    BY NumberedIs, EmptySeq
  <2>2. Len(remainder) = 0 /\ Len(ring) = 0 /\ 0 % Modulus = 0
    BY AudioAssumption
  <2> QED
    BY <1>2, <2>1, <2>2 DEF Stream
<1>4. Reading /\ Warned /\ RowsAsAsked /\ LossWasCounted
  BY DEF Reading, Warned, RowsAsAsked, LossWasCounted
<1>5. RowsFollowStream
  BY DEF RowsFollowStream
<1> QED
  BY <1>1, <1>3, <1>4, <1>5 DEF AudioInv

\* Whatever Read gives, the frames of it follow those before.
LEMMA ReturnKeeps ==
  ASSUME AudioInv, pc # "thrown",
         NEW n \in Nat, NEW more \in BOOLEAN, NEW timedOut \in BOOLEAN,
         Return(Numbered((Start + Len(remainder)) % Modulus, n), more, timedOut)
  PROVE  /\ remainder' \in Seq(Nat) /\ Len(remainder') < FrameSize
         /\ remainder' = Numbered(Start', Len(remainder'))
         /\ (Start' + Len(remainder')) % Modulus = (Start + (Len(remainder) + n)) % Modulus
         /\ out'.first \in Nat /\ out'.more = more /\ out'.timedOut = timedOut
         /\ Len(out'.rows) = NumFrames(Len(remainder) + n) /\ Len(out'.rows) \in Nat
         /\ RowsFollowStream'
<1> DEFINE L == Len(remainder) + n
           samples == Numbered((Start + Len(remainder)) % Modulus, n)
           k == NumFrames(L)
<1>1. Start \in Nat /\ Len(remainder) \in Nat /\ L \in Nat
  BY StartIs, EmptySeq DEF AudioInv, AudioTypes
<1>2. Wave(samples) = Numbered(Start, L)
  <2>1. remainder = Numbered(Start, Len(remainder))
    BY DEF AudioInv, Stream
  <2>2. Numbered(Start, Len(remainder)) \o samples = Numbered(Start, L)
    BY <1>1, NumberedJoined
  <2> QED
    BY <2>1, <2>2 DEF Wave
<1>3. /\ remainder' = SubSeq(Wave(samples), Len(Frames(Wave(samples))) * FrameShift + 1,
                             Len(Wave(samples)))
      /\ out'.more = more /\ out'.timedOut = timedOut
      /\ out'.first = Start /\ out'.rows = Frames(Wave(samples))
  <2> HIDE DEF samples
  <2> QED
    BY DEF Return, Start, samples
<1> HIDE DEF L, samples
<1>4. /\ out'.rows = [i \in 1 .. k |-> Numbered(Plus(Start, i - 1), FrameSize)]
      /\ Len(out'.rows) = k /\ DOMAIN out'.rows = 1 .. k
  BY <1>1, <1>2, <1>3, FramesOfStream
<1>5. Start' = Plus(Start, k)
  BY <1>3, <1>4 DEF Start
<1>6. remainder' = SubSeq(Numbered(Start, L), k * FrameShift + 1, L)
  <2>1. Len(Numbered(Start, L)) = L
    BY <1>1, NumberedIs
  <2>2. Len(Frames(Wave(samples))) = k
    BY <1>3, <1>4
  <2> QED
    BY <1>2, <1>3, <2>1, <2>2
<1>7. PICK rest \in Nat :
        /\ rest < FrameSize
        /\ SubSeq(Numbered(Start, L), k * FrameShift + 1, L) = Numbered(Plus(Start, k), rest)
        /\ (Plus(Start, k) + rest) % Modulus = (Start + L) % Modulus
  BY <1>1, LeftOver
<1>8. Plus(Start, k) \in Nat /\ k \in Nat
  BY <1>1, PlusIs, NumFramesIs
<1>9. remainder' \in Seq(Nat) /\ Len(remainder') = rest
  <2>1. remainder' = Numbered(Plus(Start, k), rest)
    BY <1>6, <1>7
  <2> HIDE DEF k
  <2> QED
    BY <1>8, <2>1, NumberedIs
<1>10. RowsFollowStream'
  BY <1>3, <1>4 DEF RowsFollowStream
<1> QED
  BY <1>1, <1>3, <1>4, <1>5, <1>6, <1>7, <1>8, <1>9, <1>10 DEF L
-----------------------------------------------------------------------------
(* The steps.                                                              *)

\* The state that the invariant's parts about the caller depend on.
LEMMA SameStream ==
  ASSUME UNCHANGED <<out, remainder, ring, stored>>
  PROVE  /\ Start' = Start /\ RowsFollowStream' = RowsFollowStream
         /\ (pc' # "thrown" <=> pc # "thrown") => Stream' = Stream
BY DEF Start, RowsFollowStream, Stream, Numbered, Plus

LEMMA CheckKeeps == AudioInv /\ CallbackCheck => AudioInv'
<1> SUFFICES ASSUME AudioInv, CallbackCheck PROVE AudioInv'
  OBVIOUS
<1>1. PICK n \in Blocks : block' = n /\ overflow' = (n > Capacity - Len(ring))
  BY DEF CallbackCheck, Overflows
<1>2. cb = "idle" /\ cb' = "write" /\ UNCHANGED <<source, ring, stored, left, caller>>
  BY DEF CallbackCheck
<1>3. AudioTypes'
  <2>1. block' \in Nat
    BY <1>1, AudioAssumption
  <2>2. overflow' \in BOOLEAN
    <3>1. (n > Capacity - Len(ring)) \in BOOLEAN
      OBVIOUS
    <3> QED
      BY <1>1, <3>1
  <2> QED
    BY <1>2, <2>1, <2>2 DEF AudioInv, AudioTypes, caller
<1>4. Stream' /\ RowsFollowStream'
  BY <1>2, SameStream DEF AudioInv, caller
<1>5. Reading' /\ RowsAsAsked'
  BY <1>2 DEF AudioInv, Reading, RowsAsAsked, SamplesReq, caller
<1>6. Warned' /\ LossWasCounted'
  BY <1>1, <1>2 DEF Warned, LossWasCounted
<1> QED
  BY <1>3, <1>4, <1>5, <1>6 DEF AudioInv

LEMMA WriteKeeps == AudioInv /\ CallbackWrite => AudioInv'
<1> SUFFICES ASSUME AudioInv, CallbackWrite PROVE AudioInv'
  OBVIOUS
<1>1. cb = "write" /\ cb' = "idle" /\ UNCHANGED <<source, overflow, left, caller>>
  BY DEF CallbackWrite
<1>2. /\ block \in Nat /\ stored \in Nat /\ Len(ring) \in Nat /\ Len(ring) <= Capacity
      /\ ring \in Seq(Nat) /\ Capacity \in Nat
  BY CapacityIsNumber, EmptySeq DEF AudioInv, AudioTypes
<1>3. PICK w \in Nat :
        /\ w <= block /\ w <= Capacity - Len(ring)
        /\ w < block => block > Capacity - Len(ring)
        /\ ring' = ring \o Numbered(stored, w)
        /\ stored' = (stored + w) % Modulus /\ block' = block - w
  <2> DEFINE w == Min({block, Capacity - Len(ring)})
  <2>1. w = IF block <= Capacity - Len(ring) THEN block ELSE Capacity - Len(ring)
    BY <1>2, TheSmaller
  <2>2. /\ ring' = ring \o Numbered(stored, w)
        /\ stored' = (stored + w) % Modulus /\ block' = block - w
    BY DEF CallbackWrite
  <2> HIDE DEF w
  <2>3. /\ w \in Nat /\ w <= block /\ w <= Capacity - Len(ring)
        /\ w < block => block > Capacity - Len(ring)
    BY <1>2, <2>1
  <2> QED
    BY <2>2, <2>3, Zenon
<1>4. Numbered(stored, w) \in Seq(Nat) /\ Len(Numbered(stored, w)) = w
  BY <1>2, NumberedIs
<1>5. ring' \in Seq(Nat) /\ Len(ring') = Len(ring) + w
  BY <1>2, <1>3, <1>4, ConcatProperties
<1>6. stored' \in Nat
  <2>1. stored + w \in Nat
    BY <1>2
  <2> QED
    BY <1>3, <2>1, AudioAssumption, ModSum
<1>7. AudioTypes'
  BY <1>1, <1>2, <1>3, <1>5, <1>6 DEF AudioInv, AudioTypes, caller
<1>8. Stream'
  <2> SUFFICES ASSUME pc # "thrown"
               PROVE  /\ remainder = Numbered(Start, Len(remainder))
                      /\ ring' = Numbered((Start + Len(remainder)) % Modulus, Len(ring'))
                      /\ stored' = (Start + Len(remainder) + Len(ring')) % Modulus
    BY <1>1 DEF Stream, caller, Start, Plus, Numbered
  <2>1. /\ remainder = Numbered(Start, Len(remainder))
        /\ ring = Numbered((Start + Len(remainder)) % Modulus, Len(ring))
        /\ stored = (Start + Len(remainder) + Len(ring)) % Modulus
    BY DEF AudioInv, Stream
  <2>2. PICK b \in Nat : b = Start + Len(remainder)
    BY StartIs, EmptySeq DEF AudioInv, AudioTypes
  <2>3. b % Modulus \in Nat /\ ((b % Modulus) + Len(ring)) % Modulus = (b + Len(ring)) % Modulus
    BY <1>2, AudioAssumption, ModSum
  <2>4. Numbered(b % Modulus, Len(ring)) \o Numbered(((b % Modulus) + Len(ring)) % Modulus, w)
          = Numbered(b % Modulus, Len(ring) + w)
    BY <1>2, <2>3, NumberedJoined
  <2>5. stored = (b + Len(ring)) % Modulus
    BY <2>1, <2>2
  <2>6. ring' = Numbered(b % Modulus, Len(ring) + w)
    BY <1>3, <2>1, <2>2, <2>3, <2>4, <2>5, Zenon
  <2>7. stored' = ((b + Len(ring)) + w) % Modulus
    <3>1. b + Len(ring) \in Nat
      BY <1>2
    <3> QED
      BY <1>3, <2>5, <3>1, AudioAssumption, ModSum
  <2>8. (b + Len(ring)) + w = Start + Len(remainder) + Len(ring')
    BY <1>2, <1>5, <2>2
  <2> QED
    BY <1>5, <2>1, <2>2, <2>6, <2>7, <2>8
<1>9. RowsFollowStream' /\ RowsAsAsked'
  BY <1>1 DEF AudioInv, caller, RowsFollowStream, RowsAsAsked, Plus, Numbered
<1>10. Reading'
  BY <1>1, <1>2, <1>3, <1>5 DEF AudioInv, AudioTypes, Reading, SamplesReq, caller
<1>11. Warned' /\ LossWasCounted'
  BY <1>1, <1>2, <1>3 DEF AudioInv, Warned, LossWasCounted
<1> QED
  BY <1>7, <1>8, <1>9, <1>10, <1>11 DEF AudioInv

LEMMA CallKeeps == AudioInv /\ Call => AudioInv'
<1> SUFFICES ASSUME AudioInv, Call PROVE AudioInv'
  OBVIOUS
<1>1. /\ pc = "idle" /\ pc' = "read" /\ asked' \in Requests /\ req' = SamplesReq(asked')
      /\ cb' = (IF source = "pa" /\ cb = "stopped" THEN "idle" ELSE cb)
      /\ UNCHANGED <<source, ring, stored, block, overflow, left, remainder, window, out>>
  BY DEF Call
<1>2. asked' \in Nat \ {0}
  BY <1>1, AudioAssumption
<1>3. req' \in Nat
  <2>1. (asked' - 1) * FrameShift \in Nat
    <3>1. asked' - 1 \in Nat /\ FrameShift \in Nat
      <4>1. \A k \in Nat \ {0} : k - 1 \in Nat
        OBVIOUS
      <4>2. FrameShift \in Nat
        BY AudioAssumption
      <4> QED
        BY <1>2, <4>1, <4>2, Zenon
    <3> HIDE DEF SamplesReq
    <3>2. \A x, y \in Nat : x * y \in Nat
      OBVIOUS
    <3> QED
      BY <3>1, <3>2, Zenon
  <2>2. Len(remainder) \in Nat /\ Len(remainder) < FrameSize /\ FrameSize \in Nat
    BY AudioAssumption, EmptySeq DEF AudioInv, AudioTypes
  <2> QED
    BY <1>1, <2>1, <2>2 DEF SamplesReq
<1>4. AudioTypes'
  BY <1>1, <1>2, <1>3 DEF AudioInv, AudioTypes
<1>5. Stream' /\ RowsFollowStream'
  BY <1>1, SameStream DEF AudioInv
<1>6. Reading'
  BY <1>1, <1>2 DEF AudioInv, Reading, SamplesReq
<1>7. RowsAsAsked'
  BY <1>1 DEF RowsAsAsked
<1>8. Warned' /\ LossWasCounted'
  BY <1>1 DEF AudioInv, Warned, LossWasCounted
<1> QED
  BY <1>4, <1>5, <1>6, <1>7, <1>8 DEF AudioInv
LEMMA PollKeeps == AudioInv /\ Poll => AudioInv'
<1> SUFFICES ASSUME AudioInv, Poll PROVE AudioInv'
  OBVIOUS
<1>1. /\ pc = "read" /\ pc' = "take" /\ source = "pa" /\ Len(ring) >= req
      /\ UNCHANGED <<source, device, left, asked, timed, req, remainder, window, out>>
  BY DEF Poll, Enough
<1>2. AudioTypes' /\ Warned' /\ LossWasCounted'
  BY <1>1 DEF AudioInv, AudioTypes, Warned, LossWasCounted, device
<1>3. Stream' /\ RowsFollowStream'
  BY <1>1, SameStream DEF AudioInv, device
<1>4. Reading'
  BY <1>1 DEF AudioInv, AudioTypes, Reading, SamplesReq, device
<1>5. RowsAsAsked'
  BY <1>1 DEF RowsAsAsked
<1> QED
  BY <1>2, <1>3, <1>4, <1>5 DEF AudioInv

LEMMA TimeoutKeeps == AudioInv /\ Timeout => AudioInv'
<1> SUFFICES ASSUME AudioInv, Timeout PROVE AudioInv'
  OBVIOUS
<1>1. /\ pc = "read" /\ pc' = "expired" /\ source = "pa" /\ req' = Len(ring)
      /\ UNCHANGED <<source, device, left, asked, timed, remainder, window, out>>
  BY DEF Timeout
<1>2. Len(ring) \in Nat
  BY EmptySeq DEF AudioInv, AudioTypes
<1>3. AudioTypes' /\ Warned' /\ LossWasCounted'
  BY <1>1, <1>2 DEF AudioInv, AudioTypes, Warned, LossWasCounted, device
<1>4. Stream' /\ RowsFollowStream'
  BY <1>1, SameStream DEF AudioInv, device
<1>5. Reading'
  BY <1>1, <1>2 DEF AudioInv, AudioTypes, Reading, device
<1>6. RowsAsAsked'
  BY <1>1 DEF RowsAsAsked
<1> QED
  BY <1>3, <1>4, <1>5, <1>6 DEF AudioInv

\* Read takes the samples that follow the remainder.
LEMMA TakenAre ==
  ASSUME AudioInv, pc \in {"take", "expired"}
  PROVE  SubSeq(ring, 1, req) = Numbered((Start + Len(remainder)) % Modulus, req)
<1> DEFINE s == (Start + Len(remainder)) % Modulus
<1>1. /\ req \in Nat /\ Len(ring) \in Nat /\ req <= Len(ring)
      /\ Len(remainder) \in Nat /\ Start \in Nat
  BY StartIs, EmptySeq DEF AudioInv, AudioTypes, Reading
<1>2. ring = Numbered(s, Len(ring)) /\ s \in Nat
  <2>1. Start + Len(remainder) \in Nat
    BY <1>1
  <2>2. s \in Nat
    BY <2>1, AudioAssumption, ModSum
  <2> QED
    BY <2>2 DEF AudioInv, Stream
<1> HIDE DEF s
<1>3. SubSeq(Numbered(s, Len(ring)), 0 + 1, 0 + req) = Numbered((s + 0) % Modulus, req)
  <2>1. \A t, n, a, b \in Nat : a + b <= n =>
          SubSeq(Numbered(t, n), a + 1, a + b) = Numbered((t + a) % Modulus, b)
    BY NumberedPart
  <2>2. 0 \in Nat /\ 0 + req <= Len(ring) /\ req \in Nat /\ Len(ring) \in Nat /\ s \in Nat
    BY <1>1, <1>2
  <2> QED
    BY <2>1, <2>2, Zenon
<1>4. (s + 0) % Modulus = s
  <2>1. \A x \in Nat : ((x % Modulus) + 0) % Modulus = (x + 0) % Modulus /\ x + 0 = x
    <3>1. 0 \in Nat /\ \A x \in Nat : x + 0 = x
      OBVIOUS
    <3> QED
      BY <3>1, Wraps, Zenon
  <2>2. PICK x \in Nat : s = x % Modulus
    <3>1. Start + Len(remainder) \in Nat
      BY <1>1
    <3> QED
      BY <3>1 DEF s
  <2> QED
    BY <2>1, <2>2
<1>5. 0 + 1 = 1 /\ 0 + req = req
  BY <1>1
<1> QED
  BY <1>2, <1>3, <1>4, <1>5 DEF s

LEMMA TakeKeeps == AudioInv /\ Take => AudioInv'
<1> SUFFICES ASSUME AudioInv, Take PROVE AudioInv'
  OBVIOUS
<1> DEFINE s == (Start + Len(remainder)) % Modulus
           timedOut == (pc = "expired")
<1>1. /\ pc \in {"take", "expired"} /\ ring' = SubSeq(ring, req + 1, Len(ring))
      /\ Receive(SubSeq(ring, 1, req), TRUE, timedOut)
      /\ UNCHANGED <<source, stored, cb, block, overflow, left, asked, timed, req>>
  BY DEF Take
<1>2. /\ req \in Nat /\ Len(ring) \in Nat /\ req <= Len(ring) /\ source = "pa"
      /\ Len(remainder) \in Nat /\ Start \in Nat /\ pc # "thrown"
      /\ pc = "take" => asked \in Nat \ {0} /\ req = SamplesReq(asked)
      /\ Len(ring) <= Capacity /\ Capacity \in Nat
  BY <1>1, StartIs, EmptySeq, CapacityIsNumber DEF AudioInv, AudioTypes, Reading
<1>3. PICK rest \in Nat : Len(ring) = req + rest
  <2>1. Len(ring) - req \in Nat /\ Len(ring) = req + (Len(ring) - req)
    BY <1>2
  <2> QED
    BY <2>1, Zenon
<1>4. ring = Numbered(s, Len(ring)) /\ s \in Nat
      /\ stored = (Start + Len(remainder) + Len(ring)) % Modulus
  <2>1. Start + Len(remainder) \in Nat
    BY <1>2
  <2>2. s \in Nat
    BY <2>1, AudioAssumption, ModSum
  <2> QED
    BY <1>2, <2>2 DEF AudioInv, Stream
<1>5. (s + req) % Modulus = (Start + (Len(remainder) + req)) % Modulus
  <2>1. Start + Len(remainder) \in Nat /\ Start + (Len(remainder) + req) = (Start + Len(remainder)) + req
    BY <1>2
  <2> DEFINE b == Start + Len(remainder)
  <2> HIDE DEF b
  <2>2. ((b % Modulus) + req) % Modulus = (b + req) % Modulus
    BY <1>2, <2>1, Wraps DEF b
  <2> QED
    BY <2>1, <2>2 DEF b
<1> HIDE DEF s, timedOut
<1>6. SubSeq(ring, 1, req) = Numbered(s, req)
  BY <1>1, TakenAre DEF s
<1>7. ring' = Numbered((s + req) % Modulus, rest) /\ (s + req) % Modulus \in Nat
  <2>1. SubSeq(Numbered(s, Len(ring)), req + 1, req + rest) = Numbered((s + req) % Modulus, rest)
    <3>1. req + rest <= Len(ring)
      BY <1>2, <1>3
    <3>2. \A t, n, a, b \in Nat : a + b <= n =>
            SubSeq(Numbered(t, n), a + 1, a + b) = Numbered((t + a) % Modulus, b)
      BY NumberedPart
    <3>3. s \in Nat /\ req \in Nat /\ Len(ring) \in Nat
      BY <1>2, <1>4
    <3> QED
      BY <3>1, <3>2, <3>3, Zenon
  <2>2. s + req \in Nat
    BY <1>2, <1>4
  <2>3. (s + req) % Modulus \in Nat
    BY <2>2, AudioAssumption, ModSum
  <2> QED
    BY <1>1, <1>3, <1>4, <2>1, <2>3
<1>8. ring' \in Seq(Nat) /\ Len(ring') = rest
  BY <1>7, NumberedIs
<1>9. Warned' /\ LossWasCounted'
  BY <1>1, <1>2, <1>3, <1>8 DEF AudioInv, AudioTypes, Warned, LossWasCounted
<1>10. CASE pc' = "thrown" /\ UNCHANGED <<remainder, window, out>>
  <2>1. AudioTypes'
    BY <1>1, <1>2, <1>3, <1>8, <1>10 DEF AudioInv, AudioTypes
  <2>2. Stream' /\ Reading' /\ RowsAsAsked'
    BY <1>1, <1>2, <1>10 DEF Stream, Reading, RowsAsAsked
  <2>3. RowsFollowStream'
    BY <1>10 DEF AudioInv, RowsFollowStream, Plus, Numbered
  <2> QED
    BY <1>9, <2>1, <2>2, <2>3 DEF AudioInv
<1>11. CASE Return(Numbered(s, req), TRUE, timedOut) /\ pc' = "idle"
  <2>1. /\ remainder' \in Seq(Nat) /\ Len(remainder') < FrameSize
        /\ remainder' = Numbered(Start', Len(remainder'))
        /\ (Start' + Len(remainder')) % Modulus = (s + req) % Modulus
        /\ out'.first \in Nat /\ out'.more = TRUE /\ out'.timedOut = timedOut
        /\ Len(out'.rows) = NumFrames(Len(remainder) + req) /\ Len(out'.rows) \in Nat
        /\ RowsFollowStream'
    <3>1. timedOut \in BOOLEAN
      BY DEF timedOut
    <3> QED
      BY <1>2, <1>5, <1>11, <3>1, ReturnKeeps DEF s
  <2>2. AudioTypes'
    <3>1. Len(ring') <= Capacity
      BY <1>2, <1>3, <1>8
    <3>2. pc' \in {"idle", "read", "take", "expired", "thrown"} /\ out'.more \in BOOLEAN
      BY <1>11, <2>1
    <3> QED
      BY <1>1, <1>8, <2>1, <3>1, <3>2, Zenon DEF AudioInv, AudioTypes
  <2>3. Stream'
    <3>1. Start' + Len(remainder') \in Nat
      <4>1. Len(remainder') \in Nat
        BY <2>1, EmptySeq
      <4>2. Start' = Plus(out'.first, Len(out'.rows))
        BY DEF Start, Plus
      <4>3. Start' \in Nat
        BY <2>1, <4>2, PlusIs
      <4> QED
        BY <4>1, <4>3
    <3>2. stored = (((s + req) % Modulus) + rest) % Modulus
      <4>1. stored = (s + Len(ring)) % Modulus
        <5>1. Start + Len(remainder) \in Nat
          BY <1>2
        <5> QED
          BY <1>2, <1>4, <5>1, AudioAssumption, ModSum DEF s
      <4>2. s + req \in Nat /\ (s + req) + rest = s + Len(ring)
        BY <1>2, <1>3, <1>4
      <4> QED
        BY <4>1, <4>2, AudioAssumption, ModSum
    <3>3. stored = ((Start' + Len(remainder')) + rest) % Modulus
      BY <2>1, <3>1, <3>2, AudioAssumption, ModSum
    <3> QED
      BY <1>1, <1>7, <1>8, <2>1, <3>3 DEF Stream
  <2>4. Reading'
    BY <1>1, <1>2, <1>11 DEF Reading
  <2>5. RowsAsAsked'
    <3>1. CASE pc = "take"
      <4>1. Len(remainder) + req = FrameSize + (asked - 1) * FrameShift /\ asked \in Nat \ {0}
        <5>1. (asked - 1) * FrameShift \in Nat
          BY <1>2, <3>1, AudioAssumption
        <5> QED
          BY <1>2, <3>1, <5>1, AudioAssumption DEF SamplesReq
      <4>2. Len(out'.rows) = asked
        BY <2>1, <4>1, FramesRequested
      <4> QED
        BY <1>1, <2>1, <4>1, <4>2 DEF RowsAsAsked
    <3>2. CASE pc = "expired"
      BY <2>1, <3>2 DEF RowsAsAsked, timedOut
    <3> QED
      BY <1>1, <3>1, <3>2
  <2> QED
    BY <1>9, <2>1, <2>2, <2>3, <2>4, <2>5 DEF AudioInv
<1> QED
  BY <1>1, <1>6, <1>10, <1>11 DEF Receive
LEMMA VectorTaken ==
  ASSUME AudioInv, source = "vector", pc = "read"
  PROVE  /\ VectorTakes \in Nat /\ VectorTakes <= left /\ VectorTakes <= req
         /\ VectorTakes # req => VectorTakes = left
         /\ stored = (Start + Len(remainder)) % Modulus /\ stored \in Nat
<1>1. /\ req \in Nat /\ left \in Nat /\ Len(remainder) \in Nat /\ Start \in Nat
      /\ Len(ring) = 0
  BY StartIs, EmptySeq DEF AudioInv, AudioTypes, Reading
<1>2. VectorTakes = IF left <= req THEN left ELSE req
  BY <1>1, TheSmaller DEF VectorTakes
<1>3. stored = (Start + Len(remainder)) % Modulus /\ stored \in Nat
  <2>1. Start + Len(remainder) \in Nat
    BY <1>1
  <2>2. Start + Len(remainder) + Len(ring) = Start + Len(remainder)
    BY <1>1
  <2>3. stored = (Start + Len(remainder) + Len(ring)) % Modulus
    BY DEF AudioInv, Stream
  <2> QED
    BY <2>1, <2>2, <2>3, Wraps
<1> QED
  BY <1>1, <1>2, <1>3

LEMMA VectorKeeps == AudioInv /\ VectorRead => AudioInv'
<1> SUFFICES ASSUME AudioInv, VectorRead PROVE AudioInv'
  OBVIOUS
<1> DEFINE s == (Start + Len(remainder)) % Modulus
<1>1. /\ source = "vector" /\ pc = "read"
      /\ Receive(Numbered(stored, VectorTakes), VectorTakes = req, FALSE)
      /\ left' = left - VectorTakes
      /\ stored' = (stored + VectorTakes) % Modulus
      /\ UNCHANGED <<source, ring, cb, block, overflow, asked, timed, req>>
  BY DEF VectorRead
<1>2. /\ req \in Nat /\ left \in Nat /\ Len(remainder) \in Nat /\ Start \in Nat
      /\ ring = <<>> /\ Len(ring) = 0 /\ asked \in Nat \ {0} /\ req = SamplesReq(asked)
  BY <1>1, StartIs, EmptySeq DEF AudioInv, AudioTypes, Reading
<1>3. PICK n \in Nat : n = VectorTakes /\ n <= left /\ n <= req /\ (n # req => n = left)
  BY <1>1, VectorTaken, Zenon
<1>4. stored = s /\ s \in Nat
  BY <1>1, VectorTaken
<1>5. (s + n) % Modulus = (Start + (Len(remainder) + n)) % Modulus
  <2>1. Start + Len(remainder) \in Nat /\ Start + (Len(remainder) + n) = (Start + Len(remainder)) + n
    BY <1>2
  <2> DEFINE b == Start + Len(remainder)
  <2> HIDE DEF b
  <2>2. ((b % Modulus) + n) % Modulus = (b + n) % Modulus
    BY <1>2, <2>1, Wraps DEF b
  <2> QED
    BY <2>1, <2>2 DEF b
<1> HIDE DEF s
<1>6. stored' = (s + n) % Modulus /\ stored' \in Nat /\ left' \in Nat
  <2>1. s + n \in Nat
    BY <1>4
  <2> QED
    BY <1>1, <1>2, <1>3, <1>4, <2>1, Wraps
<1>7. Warned' /\ LossWasCounted'
  BY <1>1 DEF AudioInv, Warned, LossWasCounted
<1>8. CASE pc' = "thrown" /\ UNCHANGED <<remainder, window, out>>
  <2>1. AudioTypes'
    BY <1>1, <1>6, <1>8 DEF AudioInv, AudioTypes
  <2>2. Stream' /\ Reading' /\ RowsAsAsked'
    BY <1>1, <1>8 DEF AudioInv, Stream, Reading, RowsAsAsked
  <2>3. RowsFollowStream'
    BY <1>8 DEF AudioInv, RowsFollowStream, Plus, Numbered
  <2> QED
    BY <1>7, <2>1, <2>2, <2>3 DEF AudioInv
<1>9. CASE Return(Numbered(s, n), n = req, FALSE) /\ pc' = "idle"
  <2>1. /\ remainder' \in Seq(Nat) /\ Len(remainder') < FrameSize
        /\ remainder' = Numbered(Start', Len(remainder'))
        /\ (Start' + Len(remainder')) % Modulus = (s + n) % Modulus
        /\ out'.first \in Nat /\ out'.more = (n = req) /\ out'.timedOut = FALSE
        /\ Len(out'.rows) = NumFrames(Len(remainder) + n) /\ Len(out'.rows) \in Nat
        /\ RowsFollowStream'
    <3>1. PICK more \in BOOLEAN : more = (n = req)
      OBVIOUS
    <3>2. pc # "thrown"
      BY <1>1
    <3>3. Return(Numbered((Start + Len(remainder)) % Modulus, n), more, FALSE)
      BY <1>9, <3>1 DEF s
    <3>4. /\ remainder' \in Seq(Nat) /\ Len(remainder') < FrameSize
          /\ remainder' = Numbered(Start', Len(remainder'))
          /\ (Start' + Len(remainder')) % Modulus = (Start + (Len(remainder) + n)) % Modulus
          /\ out'.first \in Nat /\ out'.more = more /\ out'.timedOut = FALSE
          /\ Len(out'.rows) = NumFrames(Len(remainder) + n) /\ Len(out'.rows) \in Nat
          /\ RowsFollowStream'
      BY <3>2, <3>3, ReturnKeeps
    <3> QED
      BY <1>5, <3>1, <3>4, Zenon
  <2>2. out'.more \in BOOLEAN
    <3>1. (n = req) \in BOOLEAN
      OBVIOUS
    <3> QED
      BY <2>1, <3>1
  <2>3. AudioTypes'
    BY <1>1, <1>6, <1>9, <2>1, <2>2 DEF AudioInv, AudioTypes
  <2>4. Stream'
    <3>1. Start' + Len(remainder') \in Nat
      <4>1. Len(remainder') \in Nat
        BY <2>1, EmptySeq
      <4>2. Start' = Plus(out'.first, Len(out'.rows))
        BY DEF Start, Plus
      <4>3. Start' \in Nat
        BY <2>1, <4>2, PlusIs
      <4> QED
        BY <4>1, <4>3
    <3>2. ring' = <<>> /\ Len(ring') = 0
      BY <1>1, <1>2
    <3>3. (Start' + Len(remainder')) % Modulus \in Nat
      BY <3>1, Wraps
    <3>4. ring' = Numbered((Start' + Len(remainder')) % Modulus, Len(ring'))
      <4>1. \A t \in Nat : Numbered(t, 0) = <<>>
        BY NumberedIs, EmptySeq
      <4> QED
        BY <3>2, <3>3, <4>1
    <3>5. Start' + Len(remainder') + Len(ring') = Start' + Len(remainder')
      BY <3>1, <3>2
    <3> QED
      BY <1>6, <2>1, <3>4, <3>5 DEF Stream
  <2>5. Reading'
    BY <1>1, <1>9 DEF AudioInv, Reading
  <2>6. RowsAsAsked'
    <3>1. CASE n = req
      <4>1. Len(remainder) + n = FrameSize + (asked - 1) * FrameShift
        <5>1. (asked - 1) * FrameShift \in Nat
          BY <1>2, AudioAssumption
        <5> QED
          BY <1>2, <3>1, <5>1, AudioAssumption DEF SamplesReq
      <4>2. Len(out'.rows) = asked
        BY <1>2, <2>1, <4>1, FramesRequested
      <4>3. out'.more
        BY <2>1, <3>1, Zenon
      <4>4. asked' = asked /\ ~(Len(out'.rows) < asked')
        BY <1>1, <1>2, <4>2
      <4> QED
        BY <4>3, <4>4, Zenon DEF RowsAsAsked
    <3>2. CASE n # req
      <4>1. left' = 0
        BY <1>1, <1>2, <1>3, <3>2
      <4>2. ~out'.more
        BY <2>1, <3>2, Zenon
      <4>3. source' = "vector"
        BY <1>1
      <4> QED
        BY <4>1, <4>2, <4>3, Zenon DEF RowsAsAsked
    <3> QED
      BY <3>1, <3>2
  <2> QED
    BY <1>7, <2>1, <2>3, <2>4, <2>5, <2>6 DEF AudioInv
<1> QED
  BY <1>1, <1>3, <1>4, <1>8, <1>9 DEF Receive

LEMMA NextInv == AudioInv /\ [Next]_vars => AudioInv'
<1> SUFFICES ASSUME AudioInv, [Next]_vars PROVE AudioInv'
  OBVIOUS
<1>1. CASE UNCHANGED vars
  <2>1. UNCHANGED <<source, ring, stored, cb, block, overflow, left,
                    pc, asked, timed, req, remainder, window, out>>
    BY <1>1 DEF vars, device, caller
  <2>2. AudioTypes' /\ Reading' /\ RowsAsAsked' /\ Warned' /\ LossWasCounted'
    BY <2>1 DEF AudioInv, AudioTypes, Reading, RowsAsAsked, Warned, LossWasCounted, SamplesReq
  <2>3. Stream' /\ RowsFollowStream'
    BY <2>1, SameStream DEF AudioInv
  <2> QED
    BY <2>2, <2>3 DEF AudioInv
<1>2. CASE Next
  BY <1>1, <1>2, CallKeeps, PollKeeps, TimeoutKeeps, TakeKeeps, VectorKeeps,
     CheckKeeps, WriteKeeps DEF Next, Read, Callback, Ended
<1> QED
  BY <1>1, <1>2

LEMMA Invariance == Spec => []AudioInv
BY InitInv, NextInv, PTL DEF Spec

-----------------------------------------------------------------------------
(* The windows of OnlineDeltaInput.                                        *)

LEMMA TheLarger ==
  ASSUME NEW a \in Int, NEW b \in Int
  PROVE  Max({a, b}) = IF a >= b THEN a ELSE b
<1>1. \E x \in {a, b} : \A y \in {a, b} : x >= y
  OBVIOUS
<1> QED
  BY <1>1 DEF Max

LEMMA PlusPlus ==
  ASSUME NEW s \in Nat, NEW x \in Int, NEW y \in Int
  PROVE  Plus(s, x) \in Nat /\ Plus(Plus(s, x), y) = Plus(s, x + y)
<1>1. PICK a \in Int, b \in Int :
        a = x * FrameShift /\ b = y * FrameShift /\ a + b = (x + y) * FrameShift
  <2>1. \A f \in Nat : x * f \in Int /\ y * f \in Int /\ x * f + y * f = (x + y) * f
    OBVIOUS
  <2>2. FrameShift \in Nat
    BY AudioAssumption
  <2> QED
    BY <2>1, <2>2, Zenon
<1>2. s + a \in Int /\ Modulus \in Nat \ {0}
  BY AudioAssumption
<1>3. (((s + a) % Modulus) + b) % Modulus = ((s + a) + b) % Modulus /\ (s + a) % Modulus \in Nat
  BY <1>2, IntegerModSum, Zenon
<1>4. (s + a) + b = s + (a + b)
  OBVIOUS
<1> QED
  BY <1>1, <1>3, <1>4 DEF Plus

\* w holds the neighbours of f, of which there are k before it, but for the
\* last, which is still to be shifted in.
ReadyFor(w, f, k) ==
    /\ w \in Seq(Nat) /\ Len(w) = WindowSize
    /\ \A j \in 1 .. 2 * DeltaContext : w[j + 1] = Plus(f, Max({-k, j - 1 - DeltaContext}))

LEMMA WindowShifted ==
  ASSUME NEW f \in Nat, NEW k \in 0 .. DeltaContext, NEW w, ReadyFor(w, f, k)
  PROVE  /\ ShiftUp(w, Plus(f, DeltaContext)) = Around(f, k)
         /\ ReadyFor(Around(f, k), Plus(f, 1), Min({DeltaContext, k + 1}))
<1> DEFINE feat == Plus(f, DeltaContext)
           N == 2 * DeltaContext
           v == ShiftUp(w, feat)
<1>1. DeltaContext \in Nat /\ N \in Nat /\ WindowSize = N + 1
  BY AudioAssumption DEF WindowSize
<1>2. feat \in Nat
  BY <1>1, PlusPlus
<1>3. /\ Tail(w) \in Seq(Nat) /\ Len(Tail(w)) = N
      /\ \A j \in 1 .. N : Tail(w)[j] = w[j + 1]
  BY <1>1, HeadTailProperties, EmptySeq DEF ReadyFor
<1>4. /\ v \in Seq(Nat) /\ Len(v) = N + 1 /\ v[N + 1] = feat
      /\ \A j \in 1 .. N : v[j] = w[j + 1]
  <2> HIDE DEF feat, N
  <2> QED
    BY <1>1, <1>2, <1>3, AppendProperties DEF ShiftUp
<1>5. \A j \in 1 .. N + 1 : Around(f, k)[j] = Plus(f, Max({-k, j - 1 - DeltaContext}))
  BY <1>1 DEF Around
<1>6. Max({-k, (N + 1) - 1 - DeltaContext}) = DeltaContext
  <2>1. -k \in Int /\ (N + 1) - 1 - DeltaContext = DeltaContext /\ DeltaContext >= -k
    BY <1>1
  <2>2. Max({-k, DeltaContext}) = DeltaContext
    <3>1. Max({-k, DeltaContext}) = IF -k >= DeltaContext THEN -k ELSE DeltaContext
      BY <1>1, <2>1, TheLarger
    <3> QED
      BY <1>1, <2>1, <3>1
  <2> HIDE DEF N
  <2> QED
    BY <2>1, <2>2, Zenon
<1>7. v = Around(f, k)
  <2>1. Around(f, k) \in Seq(Nat) /\ Len(Around(f, k)) = N + 1
    <3>1. \A j \in 1 .. N + 1 : Plus(f, Max({-k, j - 1 - DeltaContext})) \in Nat
      <4> SUFFICES ASSUME NEW j \in 1 .. N + 1
                   PROVE  Plus(f, Max({-k, j - 1 - DeltaContext})) \in Nat
        OBVIOUS
      <4>1. -k \in Int /\ j - 1 - DeltaContext \in Int
        BY <1>1
      <4>2. Max({-k, j - 1 - DeltaContext}) \in Int
        BY <4>1, TheLarger
      <4> QED
        BY <4>2, PlusPlus
    <3>2. /\ Around(f, k) = [j \in 1 .. N + 1 |-> Around(f, k)[j]]
          /\ \A j \in 1 .. N + 1 : Around(f, k)[j] \in Nat
      BY <1>1, <1>5, <3>1 DEF Around
    <3> QED
      BY <1>1, <3>2
  <2>2. \A j \in 1 .. N + 1 : v[j] = Around(f, k)[j]
    <3> SUFFICES ASSUME NEW j \in 1 .. N + 1 PROVE v[j] = Around(f, k)[j]
      OBVIOUS
    <3>1. CASE j = N + 1
      BY <1>4, <1>5, <1>6, <3>1
    <3>2. CASE j # N + 1
      <4>1. j \in 1 .. N
        BY <1>1, <3>2
      <4> QED
        BY <1>4, <1>5, <4>1 DEF ReadyFor
    <3> QED
      BY <3>1, <3>2
  <2> HIDE DEF v
  <2> QED
    BY <1>1, <1>4, <2>1, <2>2, SeqEqual
<1>8. ASSUME NEW j \in 1 .. N
      PROVE  Around(f, k)[j + 1]
               = Plus(Plus(f, 1), Max({-Min({DeltaContext, k + 1}), j - 1 - DeltaContext}))
  <2> DEFINE m == Min({DeltaContext, k + 1})
  <2>1. m = IF DeltaContext <= k + 1 THEN DeltaContext ELSE k + 1
    BY <1>1, TheSmaller
  <2> HIDE DEF m
  <2>2. m \in Int /\ -m \in Int /\ -k \in Int /\ j - 1 - DeltaContext \in Int
        /\ (j + 1) - 1 - DeltaContext \in Int
    BY <1>1, <2>1
  <2>3. /\ Max({-m, j - 1 - DeltaContext})
             = IF -m >= j - 1 - DeltaContext THEN -m ELSE j - 1 - DeltaContext
        /\ Max({-k, (j + 1) - 1 - DeltaContext})
             = IF -k >= (j + 1) - 1 - DeltaContext THEN -k ELSE (j + 1) - 1 - DeltaContext
    BY <2>2, TheLarger
  <2>4. /\ Max({-k, (j + 1) - 1 - DeltaContext}) = 1 + Max({-m, j - 1 - DeltaContext})
        /\ Max({-m, j - 1 - DeltaContext}) \in Int
    BY <1>1, <2>1, <2>2, <2>3
  <2>5. Around(f, k)[j + 1] = Plus(f, Max({-k, (j + 1) - 1 - DeltaContext}))
    <3>1. j + 1 \in 1 .. N + 1
      BY <1>1
    <3> QED
      BY <1>5, <3>1
  <2> QED
    <3>1. \A y \in Int : Plus(Plus(f, 1), y) = Plus(f, 1 + y)
      <4>1. 1 \in Int
        OBVIOUS
      <4> QED
        BY <4>1, PlusPlus, Zenon
    <3> QED
      BY <2>4, <2>5, <3>1, Zenon DEF m
<1> HIDE DEF v, feat
<1>9. ReadyFor(Around(f, k), Plus(f, 1), Min({DeltaContext, k + 1}))
  <2>1. Around(f, k) \in Seq(Nat) /\ Len(Around(f, k)) = WindowSize
    BY <1>1, <1>4, <1>7
  <2> QED
    BY <1>8, <2>1 DEF ReadyFor
<1> QED
  BY <1>7, <1>9 DEF v, feat

\* Induction up to n, for the numbers of which something is true.
LEMMA UpTo ==
  ASSUME NEW n \in Nat, NEW S, 0 \in S,
         \A i \in 1 .. n : i - 1 \in S => i \in S
  PROVE  0 .. n \subseteq S
<1> DEFINE T == (0 .. n) \ S
<1> SUFFICES ASSUME T # {} PROVE FALSE
  OBVIOUS
<1>1. T \in SUBSET Nat
  OBVIOUS
<1>2. PICK x \in T : \A y \in T : x <= y
  BY <1>1, Least
<1> QED
  BY <1>2

FirstWindow(feats) ==
    IF window = <<>> /\ ~Dropped(feats) THEN InitFeatWindow(feats) ELSE window

\* The recursion over the rows of a batch defines a function.
LEMMA WindowsAre ==
  ASSUME NEW feats, RowsGiven(feats) \in Nat
  PROVE  \E f : /\ f = [i \in 0 .. RowsGiven(feats) |->
                           IF i > 0 THEN ShiftUp(f[i - 1], feats[CurFeat + i])
                                    ELSE FirstWindow(feats)]
                /\ Windows(feats) = f
<1> DEFINE N == RowsGiven(feats)
           Is(f, n) == f = [i \in 0 .. n |->
                              IF i > 0 THEN ShiftUp(f[i - 1], feats[CurFeat + i])
                                       ELSE FirstWindow(feats)]
           S == {n \in Nat : \E f : Is(f, n)}
<1>1. N \in Nat
  OBVIOUS
<1> HIDE DEF N
<1>2. 0 \in S
  <2> DEFINE g == [i \in 0 .. 0 |-> FirstWindow(feats)]
  <2>1. Is(g, 0)
    OBVIOUS
  <2> QED
    BY <2>1
<1>3. ASSUME NEW n \in 1 .. N, n - 1 \in S PROVE n \in S
  <2>1. PICK f : Is(f, n - 1)
    BY <1>3
  <2> DEFINE g == [i \in 0 .. n |->
                     IF i = n THEN ShiftUp(f[n - 1], feats[CurFeat + n]) ELSE f[i]]
  <2>2. Is(g, n)
    <3>1. ASSUME NEW i \in 0 .. n
          PROVE  g[i] = IF i > 0 THEN ShiftUp(g[i - 1], feats[CurFeat + i])
                                 ELSE FirstWindow(feats)
      BY <1>1, <2>1
    <3> QED
      BY <3>1
  <2>3. \E h : Is(h, n)
    <3> HIDE DEF g, Is
    <3> QED
      BY <2>2
  <2> QED
    BY <1>1, <2>3
<1>4. \E f : Is(f, N)
  <2>1. N \in S
    <3> HIDE DEF S
    <3> QED
      BY <1>1, <1>2, <1>3, UpTo
  <2> QED
    BY <2>1
<1> QED
  BY <1>4 DEF Windows, FirstWindow, N

\* Neighbours are counted up to DeltaContext.
LEMMA Capped ==
  ASSUME NEW x \in Nat, NEW y \in Nat
  PROVE  /\ Min({DeltaContext, x}) \in 0 .. DeltaContext
         /\ Min({DeltaContext, Min({DeltaContext, x}) + y}) = Min({DeltaContext, x + y})
<1>1. DeltaContext \in Nat
  BY AudioAssumption
<1>2. \A a \in Int : Min({DeltaContext, a}) = IF DeltaContext <= a THEN DeltaContext ELSE a
  BY <1>1, TheSmaller
<1> DEFINE m == Min({DeltaContext, x})
<1>3. m = IF DeltaContext <= x THEN DeltaContext ELSE x
  BY <1>2
<1> HIDE DEF m
<1>4. m + y \in Int /\ x + y \in Int
  BY <1>1, <1>3
<1>5. /\ Min({DeltaContext, m + y}) = IF DeltaContext <= m + y THEN DeltaContext ELSE m + y
      /\ Min({DeltaContext, x + y}) = IF DeltaContext <= x + y THEN DeltaContext ELSE x + y
  BY <1>2, <1>4
<1>6. m \in 0 .. DeltaContext /\ Min({DeltaContext, m + y}) = Min({DeltaContext, x + y})
  BY <1>1, <1>3, <1>5
<1> QED
  BY <1>6 DEF m

\* All rows of a batch.
LEMMA WindowsShifted ==
  ASSUME NEW feats, NEW c \in Nat, NEW b \in Nat, NEW n \in Nat, n = RowsGiven(feats),
         ReadyFor(FirstWindow(feats), Plus(c, 0), Min({DeltaContext, b + 0})),
         \A i \in 1 .. n : feats[CurFeat + i] = Plus(c, DeltaContext + (i - 1))
  PROVE  /\ \A i \in 1 .. n :
               Windows(feats)[i] = Around(Plus(c, i - 1), Min({DeltaContext, b + (i - 1)}))
         /\ ReadyFor(Windows(feats)[n], Plus(c, n), Min({DeltaContext, b + n}))
<1>1. PICK f : /\ f = [i \in 0 .. n |-> IF i > 0 THEN ShiftUp(f[i - 1], feats[CurFeat + i])
                                                ELSE FirstWindow(feats)]
               /\ Windows(feats) = f
  BY WindowsAre
<1> DEFINE k(i) == Min({DeltaContext, b + i})
           Good(i) == /\ ReadyFor(f[i], Plus(c, i), k(i))
                      /\ i > 0 => f[i] = Around(Plus(c, i - 1), k(i - 1))
           S == {i \in 0 .. n : Good(i)}
<1>2. 0 \in S
  BY <1>1
<1>3. ASSUME NEW i \in 1 .. n, i - 1 \in S PROVE i \in S
  <2>1. f[i] = ShiftUp(f[i - 1], feats[CurFeat + i])
    BY <1>1
  <2>2. PICK g \in Nat : g = Plus(c, i - 1)
    <3>1. i - 1 \in Int /\ 0 \in Int
      OBVIOUS
    <3> QED
      BY <3>1, PlusPlus
  <2>3. feats[CurFeat + i] = Plus(g, DeltaContext) /\ Plus(g, 1) = Plus(c, i)
    <3>1. DeltaContext \in Int /\ i - 1 \in Int /\ 1 \in Int
      BY AudioAssumption
    <3>2. /\ Plus(Plus(c, i - 1), DeltaContext) = Plus(c, (i - 1) + DeltaContext)
          /\ Plus(Plus(c, i - 1), 1) = Plus(c, (i - 1) + 1)
      BY <3>1, PlusPlus, Zenon
    <3>3. (i - 1) + DeltaContext = DeltaContext + (i - 1) /\ (i - 1) + 1 = i
      BY <3>1
    <3> QED
      BY <2>2, <3>2, <3>3
  <2>4. k(i - 1) \in 0 .. DeltaContext /\ Min({DeltaContext, k(i - 1) + 1}) = k(i)
    <3>1. b + (i - 1) \in Nat /\ 1 \in Nat /\ (b + (i - 1)) + 1 = b + i
      OBVIOUS
    <3>2. /\ Min({DeltaContext, b + (i - 1)}) \in 0 .. DeltaContext
          /\ Min({DeltaContext, Min({DeltaContext, b + (i - 1)}) + 1})
               = Min({DeltaContext, (b + (i - 1)) + 1})
      BY <3>1, Capped, Zenon
    <3> QED
      BY <3>1, <3>2
  <2>5. ReadyFor(f[i - 1], g, k(i - 1))
    BY <1>3, <2>2
  <2> HIDE DEF k
  <2>6. /\ f[i] = Around(g, k(i - 1))
        /\ ReadyFor(Around(g, k(i - 1)), Plus(g, 1), Min({DeltaContext, k(i - 1) + 1}))
    BY <2>1, <2>3, <2>4, <2>5, WindowShifted
  <2>7. Good(i)
    BY <2>2, <2>3, <2>4, <2>6
  <2> QED
    BY <2>7
<1>4. 0 .. n \subseteq S
  <2> HIDE DEF S
  <2> QED
    BY <1>2, <1>3, UpTo
<1>5. \A i \in 0 .. n : Good(i)
  <2> HIDE DEF Good
  <2> QED
    BY <1>4
<1>6. ASSUME NEW i \in 1 .. n PROVE f[i] = Around(Plus(c, i - 1), k(i - 1))
  <2>1. i \in 0 .. n /\ i > 0
    OBVIOUS
  <2> HIDE DEF k
  <2> QED
    BY <1>5, <2>1, Zenon
<1>7. ReadyFor(f[n], Plus(c, n), k(n))
  <2>1. n \in 0 .. n
    OBVIOUS
  <2> HIDE DEF k
  <2> QED
    BY <1>5, <2>1, Zenon
<1> QED
  BY <1>1, <1>6, <1>7, Zenon

NextCentre == Plus(out.centre, Len(out.deltas))

NextBefore == Min({DeltaContext, out.before + Len(out.deltas)})

\* Once there is a window, it is ready for the first feature that is still to
\* come.
WindowOfStream ==
    /\ out.centre \in Nat /\ out.before \in Nat /\ Len(out.deltas) \in Nat
    /\ window = <<>> => out.before = 0 /\ Len(out.deltas) = 0
    /\ window # <<>> =>
          /\ ReadyFor(window, NextCentre, NextBefore)
          /\ Plus(NextCentre, DeltaContext) = Start

DeltaInv ==
    /\ pc \in {"read", "take", "expired"} => asked \in Requests
    /\ WindowOfStream
    /\ DeltaRowsInContext

\* What OnlineDeltaInput makes of a batch.
LEMMA BatchGiven ==
  ASSUME AudioInv, pc # "thrown",
         NEW n \in Nat, NEW more \in BOOLEAN, NEW timedOut \in BOOLEAN,
         Return(Numbered((Start + Len(remainder)) % Modulus, n), more, timedOut)
  PROVE  \E k \in Nat, feats \in Seq(Nat) :
            /\ Len(feats) = k /\ \A i \in 1 .. k : feats[i] = Plus(Start, i - 1)
            /\ Start' = Plus(Start, k)
            /\ window' = Windows(feats)[RowsGiven(feats)]
            /\ out'.centre = IF window = <<>> /\ feats # <<>> THEN feats[1] ELSE NextCentre
            /\ out'.before = NextBefore
            /\ out'.deltas = [i \in 1 .. RowsGiven(feats) |-> Windows(feats)[i]]
<1> DEFINE L == Len(remainder) + n
           samples == Numbered((Start + Len(remainder)) % Modulus, n)
           rows == Frames(Wave(samples))
           feats == [i \in DOMAIN rows |-> rows[i][1]]
           k == NumFrames(L)
<1>1. Start \in Nat /\ Len(remainder) \in Nat /\ L \in Nat
  BY StartIs, EmptySeq DEF AudioInv, AudioTypes
<1>2. Wave(samples) = Numbered(Start, L)
  <2>1. remainder = Numbered(Start, Len(remainder))
    BY DEF AudioInv, Stream
  <2>2. Numbered(Start, Len(remainder)) \o samples = Numbered(Start, L)
    BY <1>1, NumberedJoined
  <2> QED
    BY <2>1, <2>2 DEF Wave
<1>3. /\ out'.first = Start /\ out'.rows = rows
      /\ window' = Windows(feats)[RowsGiven(feats)]
      /\ out'.centre = IF window = <<>> /\ feats # <<>> THEN feats[1] ELSE NextCentre
      /\ out'.before = NextBefore
      /\ out'.deltas = [i \in 1 .. RowsGiven(feats) |-> Windows(feats)[i]]
  <2> HIDE DEF samples
  <2> QED
    BY DEF Return, Start, NextCentre, NextBefore, samples
<1> HIDE DEF L, samples
<1>4. /\ k \in Nat
      /\ rows = [i \in 1 .. k |-> Numbered(Plus(Start, i - 1), FrameSize)]
      /\ Len(rows) = k
  BY <1>1, <1>2, FramesOfStream, NumFramesIs
<1> HIDE DEF k
<1>5. ASSUME NEW i \in 1 .. k
      PROVE  rows[i][1] = Plus(Start, i - 1) /\ Plus(Start, i - 1) \in Nat
  <2>1. PICK p \in Nat : p = Plus(Start, i - 1) /\ p % Modulus = p
    <3>1. i - 1 \in Int /\ 0 \in Int /\ (i - 1) + 0 = i - 1
      BY <1>4
    <3>2. /\ Plus(Start, i - 1) \in Nat
          /\ Plus(Plus(Start, i - 1), 0) = Plus(Start, (i - 1) + 0)
      BY <1>1, <3>1, PlusPlus, Zenon
    <3>3. \A p \in Nat : Plus(p, 0) = p % Modulus
      BY AudioAssumption DEF Plus
    <3>4. Plus(Start, i - 1) % Modulus = Plus(Start, i - 1)
      BY <3>1, <3>2, <3>3, Zenon
    <3> QED
      BY <3>2, <3>4, Zenon
  <2>2. rows[i] = Numbered(p, FrameSize)
    BY <1>4, <2>1
  <2>3. Numbered(p, FrameSize)[1] = (p + 1 - 1) % Modulus
    <3>1. 1 \in 1 .. FrameSize /\ FrameSize \in Nat
      BY AudioAssumption
    <3> QED
      BY <3>1, NumberedIs
  <2>4. p + 1 - 1 = p
    OBVIOUS
  <2> QED
    BY <2>1, <2>2, <2>3, <2>4
<1>6. feats \in Seq(Nat) /\ Len(feats) = k /\ \A i \in 1 .. k : feats[i] = Plus(Start, i - 1)
  <2>1. feats = [i \in 1 .. k |-> rows[i][1]]
    BY <1>4
  <2> HIDE DEF rows
  <2>2. \A i \in 1 .. k : rows[i][1] \in Nat
    BY <1>5
  <2> HIDE DEF feats
  <2> QED
    BY <1>4, <1>5, <2>1, <2>2
<1>7. Start' = Plus(Start, k)
  BY <1>3, <1>4 DEF Start, Plus
<1> HIDE DEF feats, rows
<1> QED
  BY <1>3, <1>4, <1>6, <1>7, Zenon

\* The first window begins with the first feature, as often as it has no
\* neighbours before it.
LEMMA FirstReady ==
  ASSUME NEW s \in Nat, NEW feats \in Seq(Nat), Len(feats) > DeltaContext,
         \A i \in 1 .. Len(feats) : feats[i] = Plus(s, i - 1),
         NEW before \in Nat, before <= 0
  PROVE  ReadyFor(InitFeatWindow(feats), Plus(s, 0), before)
<1> DEFINE N == 2 * DeltaContext
           w == InitFeatWindow(feats)
<1>1. DeltaContext \in Nat /\ N \in Nat /\ WindowSize = N + 1 /\ Len(feats) \in Nat
  BY AudioAssumption, EmptySeq DEF WindowSize
<1>2. w = [i \in 1 .. N + 1 |-> IF i - 1 <= DeltaContext THEN feats[1]
                                                        ELSE feats[i - DeltaContext - 1]]
  BY <1>1 DEF InitFeatWindow
<1>3. \A i \in 1 .. Len(feats) : feats[i] \in Nat
  BY LenProperties
<1>4. w \in Seq(Nat) /\ Len(w) = N + 1
  <2>1. ASSUME NEW i \in 1 .. N + 1
        PROVE  (IF i - 1 <= DeltaContext THEN feats[1] ELSE feats[i - DeltaContext - 1]) \in Nat
    <3>1. 1 \in 1 .. Len(feats) /\
          (~(i - 1 <= DeltaContext) => i - DeltaContext - 1 \in 1 .. Len(feats))
      BY <1>1
    <3> QED
      BY <1>3, <3>1
  <2> HIDE DEF w, N
  <2> QED
    BY <1>1, <1>2, <2>1
<1>5. ASSUME NEW j \in 1 .. N
      PROVE  w[j + 1] = Plus(Plus(s, 0), Max({-before, j - 1 - DeltaContext}))
  <2> DEFINE m == Max({-before, j - 1 - DeltaContext})
  <2>1. m = IF 0 >= j - 1 - DeltaContext THEN 0 ELSE j - 1 - DeltaContext
    <3>1. -before = 0 /\ -before \in Int /\ j - 1 - DeltaContext \in Int
      BY <1>1
    <3>2. m = IF -before >= j - 1 - DeltaContext THEN -before ELSE j - 1 - DeltaContext
      BY <3>1, TheLarger
    <3> QED
      BY <3>1, <3>2
  <2> HIDE DEF m
  <2>2. m \in Int /\ 0 \in Int /\ 0 + m = m
    BY <1>1, <2>1
  <2>3. Plus(Plus(s, 0), m) = Plus(s, 0 + m)
    BY <2>2, PlusPlus, Zenon
  <2>4. w[j + 1] = Plus(s, m)
    <3>1. j + 1 \in 1 .. N + 1
      BY <1>1
    <3>2. w[j + 1] = IF (j + 1) - 1 <= DeltaContext THEN feats[1]
                                                 ELSE feats[(j + 1) - DeltaContext - 1]
      <4> HIDE DEF w
      <4> QED
        BY <1>2, <3>1
    <3>3. CASE j <= DeltaContext
      <4>1. w[j + 1] = feats[1] /\ m = 1 - 1 /\ 1 \in 1 .. Len(feats)
        BY <1>1, <2>1, <3>2, <3>3
      <4> QED
        BY <4>1
    <3>4. CASE j > DeltaContext
      <4>1. PICK i \in 1 .. Len(feats) : i = j - DeltaContext /\ i = (j + 1) - DeltaContext - 1
        BY <1>1, <3>4
      <4>2. w[j + 1] = feats[i] /\ m = i - 1
        BY <1>1, <2>1, <3>2, <3>4, <4>1
      <4> QED
        BY <4>2
    <3> QED
      BY <1>1, <3>3, <3>4
  <2> QED
    BY <2>2, <2>3, <2>4 DEF m
<1> HIDE DEF w
<1> QED
  BY <1>1, <1>4, <1>5 DEF ReadyFor, w

LEMMA BatchInContext ==
  ASSUME AudioInv, WindowOfStream, pc # "thrown", asked \in Requests,
         NEW n \in Nat, NEW more \in BOOLEAN, NEW timedOut \in BOOLEAN,
         Return(Numbered((Start + Len(remainder)) % Modulus, n), more, timedOut)
  PROVE  WindowOfStream' /\ DeltaRowsInContext'
<1>1. PICK k \in Nat, feats \in Seq(Nat) :
        /\ Len(feats) = k /\ \A i \in 1 .. k : feats[i] = Plus(Start, i - 1)
        /\ Start' = Plus(Start, k)
        /\ window' = Windows(feats)[RowsGiven(feats)]
        /\ out'.centre = IF window = <<>> /\ feats # <<>> THEN feats[1] ELSE NextCentre
        /\ out'.before = NextBefore
        /\ out'.deltas = [i \in 1 .. RowsGiven(feats) |-> Windows(feats)[i]]
  BY BatchGiven
<1>2. /\ DeltaContext \in Nat /\ asked \in Nat /\ asked > DeltaContext
      /\ Start \in Nat /\ WindowSize = 2 * DeltaContext + 1
  BY AudioAssumption, StartIs DEF AudioInv, WindowSize
<1>3. NextCentre \in Nat /\ Plus(NextCentre, 0) = NextCentre
  <2>1. out.centre \in Nat /\ Len(out.deltas) \in Int /\ 0 \in Int
    BY DEF WindowOfStream
  <2>2. /\ Plus(out.centre, Len(out.deltas)) \in Nat
        /\ Plus(Plus(out.centre, Len(out.deltas)), 0) = Plus(out.centre, Len(out.deltas) + 0)
    BY <2>1, PlusPlus, Zenon
  <2> QED
    BY <2>1, <2>2 DEF NextCentre
<1>4. NextBefore \in 0 .. DeltaContext /\ Min({DeltaContext, NextBefore + 0}) = NextBefore
  <2>1. out.before + Len(out.deltas) \in Nat /\ 0 \in Nat
        /\ (out.before + Len(out.deltas)) + 0 = out.before + Len(out.deltas)
    BY DEF WindowOfStream
  <2>2. /\ Min({DeltaContext, out.before + Len(out.deltas)}) \in 0 .. DeltaContext
        /\ Min({DeltaContext, Min({DeltaContext, out.before + Len(out.deltas)}) + 0})
             = Min({DeltaContext, (out.before + Len(out.deltas)) + 0})
    BY <2>1, Capped, Zenon
  <2> QED
    BY <2>1, <2>2 DEF NextBefore
<1>5. window = <<>> => NextBefore = 0
  <2> SUFFICES ASSUME window = <<>> PROVE NextBefore = 0
    OBVIOUS
  <2>1. out.before + Len(out.deltas) = 0
    BY DEF WindowOfStream
  <2>2. Min({DeltaContext, 0}) = IF DeltaContext <= 0 THEN DeltaContext ELSE 0
    BY <1>2, TheSmaller
  <2>3. NextBefore = Min({DeltaContext, 0})
    BY <2>1, Zenon DEF NextBefore
  <2> QED
    BY <1>2, <2>2, <2>3
<1>6. CASE Dropped(feats)
  <2>1. RowsGiven(feats) = 0
    BY <1>6 DEF RowsGiven
  <2>2. window' = window
    <3>1. PICK f : /\ f = [i \in 0 .. RowsGiven(feats) |->
                              IF i > 0 THEN ShiftUp(f[i - 1], feats[CurFeat + i])
                                       ELSE FirstWindow(feats)]
                   /\ Windows(feats) = f
      <4>1. RowsGiven(feats) \in Nat
        BY <2>1
      <4> QED
        BY <4>1, WindowsAre, Zenon
    <3>2. f[0] = FirstWindow(feats)
      BY <2>1, <3>1
    <3>3. FirstWindow(feats) = window
      BY <1>6 DEF FirstWindow
    <3> QED
      BY <1>1, <2>1, <3>1, <3>2, <3>3
  <2>3. Len(out'.deltas) = 0 /\ DOMAIN out'.deltas = {}
    BY <1>1, <2>1
  <2>4. DeltaRowsInContext'
    BY <1>1, <2>1, <2>3 DEF DeltaRowsInContext
  <2>5. CASE window = <<>>
    <3>1. out'.centre \in Nat
      <4>1. CASE feats = <<>>
        BY <1>1, <1>3, <4>1
      <4>2. CASE feats # <<>>
        <5>1. 1 \in 1 .. Len(feats)
          BY <1>1, <4>2, EmptySeq
        <5>2. feats[1] \in Nat
          BY <5>1, LenProperties
        <5> QED
          BY <1>1, <2>5, <4>2, <5>2
      <4> QED
        BY <4>1, <4>2
    <3> QED
      BY <1>1, <1>4, <1>5, <2>2, <2>3, <2>4, <2>5, <3>1 DEF WindowOfStream
  <2>6. CASE window # <<>>
    <3>1. k = 0
      BY <1>1, <1>6, <2>6, EmptySeq DEF Dropped
    <3>2. out'.centre = NextCentre
      BY <1>1, <2>6
    <3>3. NextCentre' = NextCentre /\ NextBefore' = NextBefore
      BY <1>1, <1>3, <1>4, <2>3, <3>2 DEF NextCentre, NextBefore, Plus
    <3>4. Start' = Start
      <4>1. Start' = Plus(Plus(NextCentre, DeltaContext), 0)
        BY <1>1, <2>6, <3>1 DEF WindowOfStream
      <4>2. DeltaContext \in Int /\ 0 \in Int /\ DeltaContext + 0 = DeltaContext
        BY <1>2
      <4>3. Plus(Plus(NextCentre, DeltaContext), 0) = Plus(NextCentre, DeltaContext + 0)
        BY <1>3, <4>2, PlusPlus, Zenon
      <4> QED
        BY <2>6, <4>1, <4>2, <4>3 DEF WindowOfStream
    <3>5. ReadyFor(window', NextCentre', NextBefore') /\ Plus(NextCentre', DeltaContext) = Start'
      BY <2>2, <2>6, <3>3, <3>4 DEF WindowOfStream
    <3> HIDE DEF NextCentre, NextBefore
    <3>6. out'.centre \in Nat /\ out'.before \in Nat /\ Len(out'.deltas) \in Nat
      <4>1. out'.before = NextBefore
        BY <1>1
      <4> QED
        BY <1>2, <1>3, <1>4, <2>3, <3>2, <4>1
    <3>7. WindowOfStream'
      BY <2>2, <2>6, <3>5, <3>6, Zenon DEF WindowOfStream
    <3> QED
      BY <2>4, <3>7
  <2> QED
    BY <2>5, <2>6
<1>7. CASE ~Dropped(feats)
  <2>1. k # 0 /\ (window = <<>> => k > DeltaContext)
    <3>1. feats = <<>> => k = 0
      BY <1>1, EmptySeq
    <3>2. k = asked \/ (feats # <<>> /\ ~(k < WindowSize /\ window = <<>>))
      BY <1>1, <1>7 DEF Dropped
    <3>3. feats # <<>> => k # 0
      BY <1>1, EmptySeq
    <3> QED
      BY <1>2, <3>2, <3>3
  <2> DEFINE c == out'.centre
             b == out'.before
             g == RowsGiven(feats)
  <2>2. g = k - CurFeat /\ g \in Nat /\ CurFeat \in Nat /\ g > 0
    <3>1. g = k - CurFeat
      BY <1>1, <1>7 DEF RowsGiven
    <3> QED
      BY <1>2, <2>1, <3>1 DEF CurFeat
  <2>3. b \in 0 .. DeltaContext /\ Min({DeltaContext, b + 0}) = b
    BY <1>1, <1>4
  <2>4. /\ c \in Nat /\ ReadyFor(FirstWindow(feats), Plus(c, 0), b)
        /\ \A i \in 1 .. g : feats[CurFeat + i] = Plus(c, DeltaContext + (i - 1))
        /\ Start' = Plus(c, g + DeltaContext)
    <3>1. CASE window = <<>>
      <4>1. feats # <<>> /\ 1 \in 1 .. k
        BY <1>1, <2>1, EmptySeq
      <4>2. c = Plus(Start, 0)
        BY <1>1, <3>1, <4>1
      <4>3. \A y \in Int : Plus(Start, 0) \in Nat /\ Plus(Plus(Start, 0), y) = Plus(Start, y)
        <5>1. 0 \in Int /\ \A y \in Int : 0 + y = y
          OBVIOUS
        <5>2. \A y \in Int :
                Plus(Start, 0) \in Nat /\ Plus(Plus(Start, 0), y) = Plus(Start, 0 + y)
          BY <1>2, <5>1, PlusPlus, Zenon
        <5> QED
          BY <5>1, <5>2, Zenon
      <4>4. CurFeat = DeltaContext /\ g + DeltaContext = k
        BY <1>2, <2>2, <3>1 DEF CurFeat
      <4>5. ASSUME NEW i \in 1 .. g
            PROVE  feats[CurFeat + i] = Plus(c, DeltaContext + (i - 1))
        <5>1. PICK j \in 1 .. k : j = CurFeat + i /\ j - 1 = DeltaContext + (i - 1)
          BY <1>2, <2>2, <4>4
        <5>2. feats[j] = Plus(Start, j - 1) /\ j - 1 \in Int
          BY <1>1
        <5> HIDE DEF c, g
        <5> QED
          BY <4>2, <4>3, <5>1, <5>2, Zenon
      <4>6. ReadyFor(InitFeatWindow(feats), Plus(Start, 0), b)
        <5>1. b \in Nat /\ b <= 0 /\ Len(feats) > DeltaContext
              /\ \A i \in 1 .. Len(feats) : feats[i] = Plus(Start, i - 1)
          BY <1>1, <1>5, <2>1, <2>3, <3>1
        <5> HIDE DEF b
        <5> QED
          BY <1>2, <5>1, FirstReady
      <4>7. Plus(c, 0) = Plus(Start, 0) /\ c \in Nat
        <5>1. 0 \in Int
          OBVIOUS
        <5> QED
          BY <4>2, <4>3, <5>1, Zenon
      <4>8. Start' = Plus(c, g + DeltaContext)
        BY <1>1, <4>2, <4>3, <4>4
      <4>9. FirstWindow(feats) = InitFeatWindow(feats)
        BY <1>7, <3>1 DEF FirstWindow
      <4> HIDE DEF c, b, g
      <4> QED
        BY <4>5, <4>6, <4>7, <4>8, <4>9
    <3>2. CASE window # <<>>
      <4>1. c = NextCentre /\ b = NextBefore /\ CurFeat = 0 /\ g = k
        BY <1>1, <2>2, <3>2 DEF CurFeat
      <4>2. Plus(NextCentre, DeltaContext) = Start
            /\ ReadyFor(window, NextCentre, NextBefore)
        BY <3>2 DEF WindowOfStream
      <4>3. \A y \in Int : Plus(Start, y) = Plus(NextCentre, DeltaContext + y)
        <5>1. DeltaContext \in Int
          BY <1>2
        <5> QED
          BY <1>3, <4>2, <5>1, PlusPlus, Zenon
      <4>4. ASSUME NEW i \in 1 .. g
            PROVE  feats[CurFeat + i] = Plus(c, DeltaContext + (i - 1))
        <5>1. i \in 1 .. k /\ CurFeat + i = i /\ i - 1 \in Int
          BY <4>1
        <5>2. feats[i] = Plus(Start, i - 1)
          BY <1>1, <5>1
        <5> HIDE DEF c, g
        <5> QED
          BY <4>1, <4>3, <5>1, <5>2, Zenon
      <4>5. Start' = Plus(c, g + DeltaContext)
        <5>1. Start' = Plus(Start, k) /\ k \in Int /\ k + DeltaContext = DeltaContext + k
          BY <1>1, <1>2
        <5> HIDE DEF c, g
        <5> QED
          BY <4>1, <4>3, <5>1, Zenon
      <4>6. FirstWindow(feats) = window
        BY <3>2 DEF FirstWindow
      <4> HIDE DEF c, b, g
      <4> QED
        BY <1>3, <4>1, <4>2, <4>4, <4>5, <4>6
    <3> QED
      BY <3>1, <3>2
  <2> HIDE DEF c, b, g
  <2>5. /\ \A i \in 1 .. g :
              Windows(feats)[i] = Around(Plus(c, i - 1), Min({DeltaContext, b + (i - 1)}))
        /\ ReadyFor(Windows(feats)[g], Plus(c, g), Min({DeltaContext, b + g}))
    <3>1. b \in Nat /\ g = RowsGiven(feats)
      BY <2>3 DEF g
    <3> QED
      BY <2>2, <2>3, <2>4, <3>1, WindowsShifted
  <2>6. /\ out'.deltas = [i \in 1 .. g |-> Windows(feats)[i]]
        /\ Len(out'.deltas) = g /\ DOMAIN out'.deltas = 1 .. g
    BY <1>1, <2>2 DEF g
  <2>7. DeltaRowsInContext'
    <3>1. \A i \in 1 .. g : b + (i - 1) = b + i - 1
      BY <2>2, <2>3
    <3>2. \A i \in 1 .. g :
            out'.deltas[i] = Around(Plus(c, i - 1), Min({DeltaContext, b + i - 1}))
      BY <2>5, <2>6, <3>1
    <3> QED
      BY <2>6, <3>2 DEF DeltaRowsInContext, c, b, Around, Plus
  <2>8. WindowOfStream'
    <3>1. NextCentre' = Plus(c, g) /\ NextBefore' = Min({DeltaContext, b + g})
      BY <2>6 DEF NextCentre, NextBefore, Plus, c, b
    <3>2. window' = Windows(feats)[g]
      BY <1>1 DEF g
    <3>3. ReadyFor(window', NextCentre', NextBefore')
      BY <2>5, <3>1, <3>2
    <3>4. Plus(NextCentre', DeltaContext) = Start'
      <4>1. g \in Int /\ DeltaContext \in Int
        BY <1>2, <2>2
      <4>2. Plus(Plus(c, g), DeltaContext) = Plus(c, g + DeltaContext)
        BY <2>4, <4>1, PlusPlus, Zenon
      <4> QED
        BY <2>4, <3>1, <4>2
    <3>5. window' # <<>>
      <4>1. Len(window') = 2 * DeltaContext + 1
        BY <1>2, <3>3 DEF ReadyFor
      <4> QED
        BY <1>2, <4>1, EmptySeq
    <3>6. out'.centre \in Nat /\ out'.before \in Nat /\ Len(out'.deltas) \in Nat
      BY <2>2, <2>3, <2>4, <2>6 DEF c, b
    <3> QED
      BY <3>3, <3>4, <3>5, <3>6, Zenon DEF WindowOfStream
  <2> QED
    BY <2>7, <2>8
<1> QED
  BY <1>6, <1>7

LEMMA DeltaInit == Init => DeltaInv
<1> SUFFICES ASSUME Init PROVE DeltaInv
  OBVIOUS
<1>1. /\ pc = "idle" /\ window = <<>> /\ out.centre = 0 /\ out.before = 0
      /\ out.deltas = <<>> /\ Len(out.deltas) = 0 /\ DOMAIN out.deltas = {}
  BY EmptySeq DEF Init
<1>2. WindowOfStream
  BY <1>1 DEF WindowOfStream
<1>3. DeltaRowsInContext
  BY <1>1 DEF DeltaRowsInContext
<1> QED
  BY <1>1, <1>2, <1>3 DEF DeltaInv

\* Between two batches, nothing changes here.
LEMMA SameWindow ==
  ASSUME UNCHANGED <<out, window>>
  PROVE  WindowOfStream' = WindowOfStream /\ DeltaRowsInContext' = DeltaRowsInContext
BY DEF WindowOfStream, DeltaRowsInContext, ReadyFor, NextCentre, NextBefore, Start, Plus, Around

LEMMA DeltaNext == AudioInv /\ DeltaInv /\ [Next]_vars => DeltaInv'
<1> SUFFICES ASSUME AudioInv, DeltaInv, [Next]_vars PROVE DeltaInv'
  OBVIOUS
<1> USE DEF DeltaInv
<1>1. CASE Call
  BY <1>1, SameWindow DEF Call
<1>2. CASE Poll \/ Timeout
  BY <1>2, SameWindow DEF Poll, Timeout
<1>3. CASE Take
  <2>1. /\ pc \in {"take", "expired"} /\ asked \in Requests /\ req \in Nat /\ pc # "thrown"
        /\ Receive(SubSeq(ring, 1, req), TRUE, pc = "expired")
    BY <1>3 DEF Take, AudioInv, AudioTypes
  <2>2. CASE pc' = "thrown" /\ UNCHANGED <<remainder, window, out>>
    BY <2>2, SameWindow
  <2>3. CASE Return(SubSeq(ring, 1, req), TRUE, pc = "expired") /\ pc' = "idle"
    <3>1. PICK timedOut \in BOOLEAN : timedOut = (pc = "expired")
      OBVIOUS
    <3>2. Return(Numbered((Start + Len(remainder)) % Modulus, req), TRUE, timedOut)
      BY <2>1, <2>3, <3>1, TakenAre
    <3> QED
      BY <2>1, <2>3, <3>2, BatchInContext
  <2> QED
    BY <2>1, <2>2, <2>3 DEF Receive
<1>4. CASE VectorRead
  <2>1. /\ pc = "read" /\ source = "vector" /\ asked \in Requests /\ pc # "thrown"
        /\ Receive(Numbered(stored, VectorTakes), VectorTakes = req, FALSE)
    BY <1>4 DEF VectorRead
  <2>2. CASE pc' = "thrown" /\ UNCHANGED <<remainder, window, out>>
    BY <2>2, SameWindow
  <2>3. CASE Return(Numbered(stored, VectorTakes), VectorTakes = req, FALSE) /\ pc' = "idle"
    <3>1. PICK more \in BOOLEAN : more = (VectorTakes = req)
      OBVIOUS
    <3>2. Return(Numbered((Start + Len(remainder)) % Modulus, VectorTakes), more, FALSE)
          /\ VectorTakes \in Nat
      BY <2>1, <2>3, <3>1, VectorTaken
    <3> HIDE DEF VectorTakes
    <3> QED
      BY <2>1, <2>3, <3>2, BatchInContext
  <2> QED
    BY <2>1, <2>2, <2>3 DEF Receive
<1>5. CASE Callback
  BY <1>5, SameWindow DEF Callback, CallbackCheck, CallbackWrite, caller
<1>6. CASE UNCHANGED vars
  BY <1>6, SameWindow DEF vars, caller
<1> QED
  BY <1>1, <1>2, <1>3, <1>4, <1>5, <1>6 DEF Next, Read, Ended

LEMMA DeltaInvariance == Spec => []DeltaInv
BY DeltaInit, DeltaNext, Invariance, PTL DEF Spec

-----------------------------------------------------------------------------
(* The theorems.                                                           *)

\* Whatever the batches, the timeouts and the blocks of the device, OnlineFeInput
\* cuts the frames of the stream, none left out and none twice: the remainder that
\* Compute keeps is the one the next frame begins with.
THEOREM FramesFollowStream == Spec => []RowsFollowStream
<1>1. AudioInv => RowsFollowStream
  BY DEF AudioInv
<1> QED
  BY <1>1, Invariance, PTL

\* Compute gives as many rows as it was asked for, unless Read ran into its timeout
\* or into the end of the recording, and only that end makes it return FALSE.
THEOREM BatchesAreAsAsked == Spec => []RowsAsAsked
<1>1. AudioInv => RowsAsAsked
  BY DEF AudioInv
<1> QED
  BY <1>1, Invariance, PTL

\* The callback loses no sample that it has not counted, although Read empties the
\* buffer between the callback's test and its write.
THEOREM LossIsReported == Spec => []LossWasCounted
<1>1. AudioInv => LossWasCounted
  BY DEF AudioInv
<1> QED
  BY <1>1, Invariance, PTL

\* Once the first batches that do not fill a window are dropped, OnlineDeltaInput
\* gives one row for each feature, made with its neighbours in the batches before
\* and after, whatever the sizes of the batches.
THEOREM DeltaRowsHaveContext == Spec => []DeltaRowsInContext
<1>1. DeltaInv => DeltaRowsInContext
  BY DEF DeltaInv
<1> QED
  BY <1>1, DeltaInvariance, PTL
=================================================================================
