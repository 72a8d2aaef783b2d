---------------------------- MODULE GoFrameProofs ----------------------------
(***************************************************************************)
(* Proofs about the frames of Go for every radix of a byte, every ceiling  *)
(* and every sequence of bytes.  A number is split into a high and a low   *)
(* digit and joined from them (Split, Join); a word is this three times,   *)
(* with bytes, pairs and quadruples of bytes for digits.                   *)
(***************************************************************************)
EXTENDS GoFrameStream, SequenceTheorems, TLAPS

-----------------------------------------------------------------------------
(* Numbers of two digits                                                   *)

\* Division by the base splits a number into its two digits.
LEMMA Split ==
  ASSUME NEW B \in Nat \ {0}, NEW v \in 0 .. B * B - 1
  PROVE  /\ v % B \in 0 .. B - 1 /\ v \div B \in 0 .. B - 1
         /\ v = (v % B) + B * (v \div B)
<1>1. v % B \in 0 .. B - 1 /\ v \div B \in Nat /\ v = (v % B) + B * (v \div B)
  OBVIOUS
<1>2. v \div B < B
  BY <1>1
<1> QED
  BY <1>1, <1>2

\* Two digits make a number that division splits into them again.
LEMMA Join ==
  ASSUME NEW B \in Nat \ {0}, NEW lo \in 0 .. B - 1, NEW hi \in 0 .. B - 1
  PROVE  /\ lo + B * hi \in 0 .. B * B - 1
         /\ (lo + B * hi) % B = lo /\ (lo + B * hi) \div B = hi
<1>1. lo + B * hi \in 0 .. B * B - 1
  OBVIOUS
<1>2. (lo + B * hi) % B = lo /\ (lo + B * hi) \div B = hi
  OBVIOUS
<1> QED
  BY <1>1, <1>2

\* The bases are positive, and half of the words have the response bit.
LEMMA Bases ==
  /\ Radix \in Nat \ {0} /\ R2 \in Nat \ {0} /\ R4 \in Nat \ {0} /\ R8 \in Nat \ {0}
  /\ responseBit \in Nat \ {0} /\ R8 = 2 * responseBit
<1>1. Radix \in Nat \ {0} /\ R2 \in Nat \ {0}
  BY RadixAssumption DEF R2
<1>2. R4 \in Nat \ {0}
  BY <1>1 DEF R4
<1>3. R8 \in Nat \ {0}
  BY <1>2 DEF R8
<1>4. PICK k \in Nat : Radix = 2 * k
  <2>1. Radix = 2 * (Radix \div 2) /\ Radix \div 2 \in Nat
    BY RadixAssumption
  <2> QED
    BY <2>1
<1>5. R4 = 2 * (k * (Radix * R2))
  BY <1>1, <1>4 DEF R4, R2
<1>6. k * (Radix * R2) \in Nat
  BY <1>1, <1>4
<1>7. R4 \div 2 = k * (Radix * R2)
  BY <1>5, <1>6
<1>8. R4 \div 2 \in Nat \ {0} /\ R4 = 2 * (R4 \div 2)
  BY <1>2, <1>5, <1>6, <1>7
<1>9. responseBit \in Nat \ {0} /\ R8 = 2 * responseBit
  BY <1>2, <1>8 DEF responseBit, R8
<1> QED
  BY <1>1, <1>2, <1>3, <1>9

-----------------------------------------------------------------------------
(* Words                                                                   *)

\* The first N elements of a sequence, and the N behind the first M.
Low(w, N) == SubSeq(w, 1, N)
Part(w, M, N) == SubSeq(w, M + 1, M + N)

LEMMA PartOf ==
  ASSUME NEW M \in Nat, NEW N \in Nat, NEW w \in Seq(Byte), M + N <= Len(w)
  PROVE  /\ Part(w, M, N) \in Seq(Byte) /\ Len(Part(w, M, N)) = N
         /\ \A n \in 1 .. N : Part(w, M, N)[n] = w[M + n]
BY DEF Part

LEMMA ElementOf ==
  ASSUME NEW N \in Nat, NEW w \in Seq(Byte), Len(w) = N, NEW n \in 1 .. N
  PROVE  w[n] \in Byte
OBVIOUS

LEMMA SameElements ==
  ASSUME NEW N \in Nat, NEW w \in Seq(Byte), NEW t \in Seq(Byte), Len(w) = N, Len(t) = N,
         \A n \in 1 .. N : w[n] = t[n]
  PROVE  w = t
OBVIOUS

\* A concatenation is cut into what it was made of,
LEMMA Cut ==
  ASSUME NEW M \in Nat, NEW N \in Nat, NEW lo \in Seq(Byte), NEW hi \in Seq(Byte),
         Len(lo) = M, Len(hi) = N
  PROVE  /\ lo \o hi \in Seq(Byte) /\ Len(lo \o hi) = M + N
         /\ Low(lo \o hi, M) = lo /\ Part(lo \o hi, M, N) = hi
<1>1. lo \o hi \in Seq(Byte) /\ Len(lo \o hi) = M + N
  OBVIOUS
<1>2. Low(lo \o hi, M) = lo
  BY <1>1 DEF Low
<1>3. Part(lo \o hi, M, N) = hi
  <2>1. /\ Part(lo \o hi, M, N) \in Seq(Byte) /\ Len(Part(lo \o hi, M, N)) = N
        /\ \A n \in 1 .. N : Part(lo \o hi, M, N)[n] = (lo \o hi)[M + n]
    <3>1. M + N <= Len(lo \o hi)
      BY <1>1
    <3> QED
      BY <1>1, <3>1, PartOf, Zenon
  <2>2. \A n \in 1 .. N : (lo \o hi)[M + n] = hi[n]
    OBVIOUS
  <2>3. \A n \in 1 .. N : Part(lo \o hi, M, N)[n] = hi[n]
    BY <2>1, <2>2, Zenon
  <2> QED
    BY <2>1, <2>3, SameElements, Zenon
<1> QED
  BY <1>1, <1>2, <1>3

\* what is behind a part does not matter to it,
LEMMA Front ==
  ASSUME NEW M \in Nat, NEW N \in Nat, NEW w \in Seq(Byte), NEW t \in Seq(Byte), M + N <= Len(w)
  PROVE  Part(w \o t, M, N) = Part(w, M, N)
<1>1. w \o t \in Seq(Byte) /\ M + N <= Len(w \o t)
  <2>1. w \o t \in Seq(Byte) /\ Len(w \o t) = Len(w) + Len(t)
    BY Cut
  <2> QED
    BY <2>1
<1>2. \A n \in 1 .. N : (w \o t)[M + n] = w[M + n]
  OBVIOUS
<1>3. /\ Part(w \o t, M, N) \in Seq(Byte) /\ Len(Part(w \o t, M, N)) = N
      /\ \A n \in 1 .. N : Part(w \o t, M, N)[n] = (w \o t)[M + n]
  BY <1>1, PartOf, Zenon
<1>4. /\ Part(w, M, N) \in Seq(Byte) /\ Len(Part(w, M, N)) = N
      /\ \A n \in 1 .. N : Part(w, M, N)[n] = w[M + n]
  BY PartOf, Zenon
<1>5. \A n \in 1 .. N : Part(w \o t, M, N)[n] = Part(w, M, N)[n]
  BY <1>2, <1>3, <1>4, Zenon
<1> QED
  BY <1>3, <1>4, <1>5, SameElements, Zenon

\* and parts that meet make up a longer one.
LEMMA Adjacent ==
  ASSUME NEW M \in Nat, NEW N \in Nat, NEW w \in Seq(Byte), M + N <= Len(w)
  PROVE  Low(w, M) \o Part(w, M, N) = Low(w, M + N)
<1>1. 1 \in 1 .. Len(w) + 1 /\ M \in 1 - 1 .. Len(w) /\ M + N \in M .. Len(w)
  OBVIOUS
<1>2. SubSeq(w, 1, M) \o SubSeq(w, M + 1, M + N) = SubSeq(w, 1, M + N)
  BY <1>1, ConcatAdjacentSubSeq
<1> QED
  BY <1>2, Zenon DEF Low, Part

LEMMA All ==
  ASSUME NEW N \in Nat, NEW w \in Seq(Byte), Len(w) = N
  PROVE  Low(w, N) = w
BY DEF Low

\* Two halves.
High(w, N) == Part(w, N, N)

LEMMA Halves ==
  ASSUME NEW N \in Nat, NEW lo \in Seq(Byte), NEW hi \in Seq(Byte), Len(lo) = N, Len(hi) = N
  PROVE  /\ lo \o hi \in Seq(Byte) /\ Len(lo \o hi) = N + N
         /\ Low(lo \o hi, N) = lo /\ High(lo \o hi, N) = hi
BY Cut DEF High

LEMMA Halved ==
  ASSUME NEW N \in Nat, NEW w \in Seq(Byte), Len(w) = N + N
  PROVE  /\ Low(w, N) \in Seq(Byte) /\ Len(Low(w, N)) = N
         /\ High(w, N) \in Seq(Byte) /\ Len(High(w, N)) = N
         /\ w = Low(w, N) \o High(w, N)
<1>1. /\ Low(w, N) \in Seq(Byte) /\ Len(Low(w, N)) = N
      /\ Part(w, N, N) \in Seq(Byte) /\ Len(Part(w, N, N)) = N
  BY PartOf DEF Low
<1>2. Low(w, N) \o Part(w, N, N) = Low(w, N + N)
  <2>1. N + N <= Len(w)
    OBVIOUS
  <2> QED
    BY <2>1, Adjacent, Zenon
<1>3. Low(w, N + N) = w
  <2>1. N + N \in Nat
    OBVIOUS
  <2> QED
    BY <2>1, All, Zenon
<1> QED
  BY <1>1, <1>2, <1>3 DEF High

\* Two bytes.
LEMMA Put16 ==
  ASSUME NEW v \in 0 .. R2 - 1
  PROVE  /\ PutUint16(v) \in Seq(Byte) /\ Len(PutUint16(v)) = 2
         /\ Uint16(PutUint16(v)) = v
<1>1. /\ v % Radix \in Byte /\ v \div Radix \in Byte
      /\ v = (v % Radix) + Radix * (v \div Radix)
  BY Bases, Split DEF R2, Byte
<1> QED
  BY <1>1 DEF PutUint16, Uint16

LEMMA Get16 ==
  ASSUME NEW b \in Seq(Byte), Len(b) = 2
  PROVE  /\ Uint16(b) \in 0 .. R2 - 1
         /\ PutUint16(Uint16(b)) = b
<1>0. b[1] \in Byte /\ b[2] \in Byte
  BY ElementOf, 2 \in Nat, 1 \in 1 .. 2, 2 \in 1 .. 2, Zenon
<1>1. b[1] \in 0 .. Radix - 1 /\ b[2] \in 0 .. Radix - 1 /\ b = <<b[1], b[2]>>
  <2>1. b = <<b[1], b[2]>>
    OBVIOUS
  <2> QED
    BY <1>0, <2>1, Zenon DEF Byte
<1>2. /\ b[1] + Radix * b[2] \in 0 .. Radix * Radix - 1
      /\ (b[1] + Radix * b[2]) % Radix = b[1] /\ (b[1] + Radix * b[2]) \div Radix = b[2]
  BY <1>1, Join, Bases
<1> QED
  BY <1>1, <1>2 DEF PutUint16, Uint16, R2

\* Four bytes are two halves.
LEMMA Pair32 ==
  ASSUME NEW lo \in Seq(Byte), NEW hi \in Seq(Byte), Len(lo) = 2, Len(hi) = 2
  PROVE  /\ lo \o hi \in Seq(Byte) /\ Len(lo \o hi) = 4
         /\ Uint32(lo \o hi) = Uint16(lo) + R2 * Uint16(hi)
<1>1. 0 + 1 = 1 /\ 0 + 2 = 2 /\ 2 + 1 = 3 /\ 2 + 2 = 4
  OBVIOUS
<1>2. /\ lo \o hi \in Seq(Byte) /\ Len(lo \o hi) = 2 + 2
      /\ Low(lo \o hi, 2) = lo /\ High(lo \o hi, 2) = hi
  BY Halves, 2 \in Nat, Zenon
<1>3. Uint32(lo \o hi) = Uint16(Low(lo \o hi, 2)) + R2 * Uint16(High(lo \o hi, 2))
  BY <1>1, Zenon DEF Uint32, Low, High, Part
<1> QED
  BY <1>1, <1>2, <1>3, Zenon

LEMMA Put32 ==
  ASSUME NEW v \in 0 .. R4 - 1
  PROVE  /\ PutUint32(v) \in Seq(Byte) /\ Len(PutUint32(v)) = 4
         /\ Uint32(PutUint32(v)) = v
<1>1. /\ v % R2 \in 0 .. R2 - 1 /\ v \div R2 \in 0 .. R2 - 1
      /\ v = (v % R2) + R2 * (v \div R2)
  BY Bases, Split DEF R4
<1>2. /\ PutUint16(v % R2) \in Seq(Byte) /\ Len(PutUint16(v % R2)) = 2
      /\ PutUint16(v \div R2) \in Seq(Byte) /\ Len(PutUint16(v \div R2)) = 2
      /\ Uint16(PutUint16(v % R2)) = v % R2
      /\ Uint16(PutUint16(v \div R2)) = v \div R2
  BY <1>1, Put16
<1> QED
  BY <1>1, <1>2, Pair32 DEF PutUint32

LEMMA Get32 ==
  ASSUME NEW b \in Seq(Byte), Len(b) = 4
  PROVE  /\ Uint32(b) \in 0 .. R4 - 1
         /\ PutUint32(Uint32(b)) = b
<1>1. 0 + 1 = 1 /\ 0 + 2 = 2 /\ 2 + 1 = 3 /\ 2 + 2 = 4
  OBVIOUS
<1>2. /\ Low(b, 2) \in Seq(Byte) /\ Len(Low(b, 2)) = 2
      /\ High(b, 2) \in Seq(Byte) /\ Len(High(b, 2)) = 2
      /\ b = Low(b, 2) \o High(b, 2)
  BY <1>1, Halved, 2 \in Nat, Zenon
<1> DEFINE lo == Uint16(Low(b, 2))
           hi == Uint16(High(b, 2))
<1>3. /\ lo \in 0 .. R2 - 1 /\ hi \in 0 .. R2 - 1
      /\ PutUint16(lo) = Low(b, 2) /\ PutUint16(hi) = High(b, 2)
  BY <1>2, Get16, Zenon
<1>4. Uint32(b) = lo + R2 * hi
  BY <1>1, Zenon DEF Uint32, Low, High, Part
<1> HIDE DEF lo, hi
<1>5. /\ lo + R2 * hi \in 0 .. R2 * R2 - 1
      /\ (lo + R2 * hi) % R2 = lo /\ (lo + R2 * hi) \div R2 = hi
  BY <1>3, Join, Bases, Zenon
<1> QED
  BY <1>2, <1>3, <1>4, <1>5, Zenon DEF PutUint32, R4

\* A word is two halves.
LEMMA Pair64 ==
  ASSUME NEW lo \in Seq(Byte), NEW hi \in Seq(Byte), Len(lo) = 4, Len(hi) = 4
  PROVE  /\ lo \o hi \in Seq(Byte) /\ Len(lo \o hi) = 8
         /\ Uint64(lo \o hi) = Uint32(lo) + R4 * Uint32(hi)
<1>1. 0 + 1 = 1 /\ 0 + 4 = 4 /\ 4 + 1 = 5 /\ 4 + 4 = 8
  OBVIOUS
<1>2. /\ lo \o hi \in Seq(Byte) /\ Len(lo \o hi) = 4 + 4
      /\ Low(lo \o hi, 4) = lo /\ High(lo \o hi, 4) = hi
  BY Halves, 4 \in Nat, Zenon
<1>3. Uint64(lo \o hi) = Uint32(Low(lo \o hi, 4)) + R4 * Uint32(High(lo \o hi, 4))
  BY <1>1, Zenon DEF Uint64, Low, High, Part
<1> QED
  BY <1>1, <1>2, <1>3, Zenon

LEMMA Put64 ==
  ASSUME NEW v \in 0 .. R8 - 1
  PROVE  /\ PutUint64(v) \in Seq(Byte) /\ Len(PutUint64(v)) = 8
         /\ Uint64(PutUint64(v)) = v
<1>1. /\ v % R4 \in 0 .. R4 - 1 /\ v \div R4 \in 0 .. R4 - 1
      /\ v = (v % R4) + R4 * (v \div R4)
  BY Bases, Split DEF R8
<1>2. /\ PutUint32(v % R4) \in Seq(Byte) /\ Len(PutUint32(v % R4)) = 4
      /\ PutUint32(v \div R4) \in Seq(Byte) /\ Len(PutUint32(v \div R4)) = 4
      /\ Uint32(PutUint32(v % R4)) = v % R4
      /\ Uint32(PutUint32(v \div R4)) = v \div R4
  BY <1>1, Put32
<1> QED
  BY <1>1, <1>2, Pair64 DEF PutUint64

LEMMA Get64 ==
  ASSUME NEW b \in Seq(Byte), Len(b) = 8
  PROVE  /\ Uint64(b) \in 0 .. R8 - 1
         /\ PutUint64(Uint64(b)) = b
<1>1. 0 + 1 = 1 /\ 0 + 4 = 4 /\ 4 + 1 = 5 /\ 4 + 4 = 8
  OBVIOUS
<1>2. /\ Low(b, 4) \in Seq(Byte) /\ Len(Low(b, 4)) = 4
      /\ High(b, 4) \in Seq(Byte) /\ Len(High(b, 4)) = 4
      /\ b = Low(b, 4) \o High(b, 4)
  BY <1>1, Halved, 4 \in Nat, Zenon
<1> DEFINE lo == Uint32(Low(b, 4))
           hi == Uint32(High(b, 4))
<1>3. /\ lo \in 0 .. R4 - 1 /\ hi \in 0 .. R4 - 1
      /\ PutUint32(lo) = Low(b, 4) /\ PutUint32(hi) = High(b, 4)
  BY <1>2, Get32, Zenon
<1>4. Uint64(b) = lo + R4 * hi
  BY <1>1, Zenon DEF Uint64, Low, High, Part
<1> HIDE DEF lo, hi
<1>5. /\ lo + R4 * hi \in 0 .. R4 * R4 - 1
      /\ (lo + R4 * hi) % R4 = lo /\ (lo + R4 * hi) \div R4 = hi
  BY <1>3, Join, Bases, Zenon
<1> QED
  BY <1>2, <1>3, <1>4, <1>5, Zenon DEF PutUint64, R8

-----------------------------------------------------------------------------
(* Frames                                                                  *)

\* The provers reason about parts of long concatenations when the operators on
\* sequences are opaque.
Bytes == Seq(Byte)
Cat(w, t) == w \o t
Size(w) == Len(w)

\* What is added to a sequence moves nothing in it.
LEMMA Grow ==
  ASSUME NEW w \in Bytes, NEW t \in Bytes
  PROVE  /\ Cat(w, t) \in Bytes /\ Size(w) \in Nat /\ Size(t) \in Nat
         /\ Size(Cat(w, t)) = Size(w) + Size(t)
         /\ Low(Cat(w, t), Size(w)) = w /\ Part(Cat(w, t), Size(w), Size(t)) = t
         /\ \A B \in Nat : B <= Size(w) => Low(Cat(w, t), B) = Low(w, B)
         /\ \A A, B \in Nat : A + B <= Size(w) => Part(Cat(w, t), A, B) = Part(w, A, B)
<1>1. PICK M \in Nat, N \in Nat : M = Len(w) /\ N = Len(t)
  BY DEF Bytes
<1>2. w \in Seq(Byte) /\ t \in Seq(Byte)
  BY DEF Bytes
<1>3. /\ w \o t \in Seq(Byte) /\ Len(w \o t) = M + N
      /\ Low(w \o t, M) = w /\ Part(w \o t, M, N) = t
  BY <1>1, <1>2, Cut
<1>4. ASSUME NEW A \in Nat, NEW B \in Nat, A + B <= M
      PROVE  Part(w \o t, A, B) = Part(w, A, B)
  <2>1. A + B <= Len(w)
    BY <1>1, <1>4
  <2> QED
    BY <1>2, <2>1, Front, Zenon
<1>5. ASSUME NEW B \in Nat, B <= M
      PROVE  Low(w \o t, B) = Low(w, B)
  <2>1. 0 + B <= M
    BY <1>5
  <2>2. Part(w \o t, 0, B) = Part(w, 0, B)
    BY <1>4, <2>1, 0 \in Nat, Zenon
  <2>3. 0 + 1 = 1 /\ 0 + B = B
    OBVIOUS
  <2> QED
    BY <2>2, <2>3, Zenon DEF Low, Part
<1>6. Size(w) = M /\ Size(t) = N
  BY <1>1, Zenon DEF Size
<1> QED
  BY <1>2, <1>3, <1>4, <1>5, <1>6, Zenon DEF Bytes, Cat, Size

LEMMA SizeNat ==
  ASSUME NEW w \in Bytes
  PROVE  Size(w) \in Nat
BY DEF Bytes, Size

\* Five pieces, the first three of one length, lie where they were put.
LEMMA PiecesLie ==
  ASSUME NEW W \in Nat, NEW N \in Nat, NEW T \in Nat,
         NEW a \in Bytes, NEW k \in Bytes, NEW l \in Bytes, NEW p \in Bytes, NEW t \in Bytes,
         Size(a) = W, Size(k) = W, Size(l) = W, Size(p) = N, Size(t) = T,
         NEW s \in Bytes, s = Cat(Cat(Cat(Cat(a, k), l), p), t)
  PROVE  /\ Size(s) = W + W + W + N + T
         /\ Low(s, W) = a /\ Part(s, W, W) = k /\ Part(s, W + W, W) = l
         /\ Part(s, W + W + W, N) = p /\ Part(s, W + W + W + N, T) = t
<1>1. PICK s1 \in Bytes :
         /\ s1 = Cat(a, k) /\ Size(s1) = W + W
         /\ Low(s1, W) = a /\ Part(s1, W, W) = k
  BY Grow
<1>2. PICK s2 \in Bytes :
         /\ s2 = Cat(s1, l) /\ Size(s2) = W + W + W
         /\ Low(s2, W) = a /\ Part(s2, W, W) = k /\ Part(s2, W + W, W) = l
  <2>1. W <= Size(s1) /\ W + W <= Size(s1)
    BY <1>1
  <2>2. Low(Cat(s1, l), W) = Low(s1, W) /\ Part(Cat(s1, l), W, W) = Part(s1, W, W)
    BY <2>1, Grow
  <2>3. Cat(s1, l) \in Bytes /\ Size(Cat(s1, l)) = W + W + W /\ Part(Cat(s1, l), W + W, W) = l
    <3>1. Part(Cat(s1, l), Size(s1), Size(l)) = l
      BY Grow, Zenon
    <3> QED
      BY <1>1, <3>1, Grow
  <2> QED
    BY <1>1, <2>2, <2>3
<1>3. PICK s3 \in Bytes :
         /\ s3 = Cat(s2, p) /\ Size(s3) = W + W + W + N
         /\ Low(s3, W) = a /\ Part(s3, W, W) = k /\ Part(s3, W + W, W) = l
         /\ Part(s3, W + W + W, N) = p
  <2>1. W <= Size(s2) /\ W + W <= Size(s2) /\ W + W + W <= Size(s2) /\ W + W \in Nat
    BY <1>2
  <2>2. /\ Low(Cat(s2, p), W) = Low(s2, W) /\ Part(Cat(s2, p), W, W) = Part(s2, W, W)
        /\ Part(Cat(s2, p), W + W, W) = Part(s2, W + W, W)
    BY <2>1, Grow
  <2>3. /\ Cat(s2, p) \in Bytes /\ Size(Cat(s2, p)) = W + W + W + N
        /\ Part(Cat(s2, p), W + W + W, N) = p
    <3>1. Part(Cat(s2, p), Size(s2), Size(p)) = p
      BY Grow, Zenon
    <3> QED
      BY <1>2, <3>1, Grow
  <2> QED
    BY <1>2, <2>2, <2>3
<1>4. s = Cat(s3, t)
  BY <1>1, <1>2, <1>3
<1>5. /\ W <= Size(s3) /\ W + W <= Size(s3) /\ W + W + W <= Size(s3)
      /\ W + W + W + N <= Size(s3) /\ W + W \in Nat /\ W + W + W \in Nat
  BY <1>3
<1>6. /\ Low(Cat(s3, t), W) = Low(s3, W) /\ Part(Cat(s3, t), W, W) = Part(s3, W, W)
      /\ Part(Cat(s3, t), W + W, W) = Part(s3, W + W, W)
      /\ Part(Cat(s3, t), W + W + W, N) = Part(s3, W + W + W, N)
  BY <1>5, Grow
<1>7. /\ Cat(s3, t) \in Bytes /\ Size(Cat(s3, t)) = W + W + W + N + T
      /\ Part(Cat(s3, t), W + W + W + N, T) = t
  <2>1. Part(Cat(s3, t), Size(s3), Size(t)) = t
    BY Grow, Zenon
  <2> QED
    BY <1>3, <2>1, Grow
<1> QED
  BY <1>3, <1>4, <1>6, <1>7

\* A sequence is made of the pieces that lie in it.
LEMMA Take ==
  ASSUME NEW w \in Bytes, NEW M \in Nat, NEW N \in Nat, M + N <= Size(w)
  PROVE  /\ Low(w, M) \in Bytes /\ Size(Low(w, M)) = M
         /\ Part(w, M, N) \in Bytes /\ Size(Part(w, M, N)) = N
         /\ Cat(Low(w, M), Part(w, M, N)) = Low(w, M + N)
         /\ Low(w, Size(w)) = w
<1>1. w \in Seq(Byte) /\ M + N <= Len(w)
  BY Zenon DEF Bytes, Size
<1>2. Low(w, M) \in Seq(Byte) /\ Len(Low(w, M)) = M
  BY <1>1 DEF Low
<1>3. Part(w, M, N) \in Seq(Byte) /\ Len(Part(w, M, N)) = N
  BY <1>1, PartOf, Zenon
<1>4. Low(w, M) \o Part(w, M, N) = Low(w, M + N)
  BY <1>1, Adjacent, Zenon
<1>5. Low(w, Len(w)) = w
  BY <1>1, SubSeqFull DEF Low
<1> QED
  BY <1>2, <1>3, <1>4, <1>5, Zenon DEF Bytes, Cat, Size

LEMMA PiecesMake ==
  ASSUME NEW W \in Nat, NEW N \in Nat, NEW T \in Nat, NEW s \in Bytes,
         Size(s) = W + W + W + N + T
  PROVE  /\ Low(s, W) \in Bytes /\ Size(Low(s, W)) = W
         /\ Part(s, W, W) \in Bytes /\ Size(Part(s, W, W)) = W
         /\ Part(s, W + W, W) \in Bytes /\ Size(Part(s, W + W, W)) = W
         /\ Part(s, W + W + W, N) \in Bytes /\ Size(Part(s, W + W + W, N)) = N
         /\ Part(s, W + W + W + N, T) \in Bytes /\ Size(Part(s, W + W + W + N, T)) = T
         /\ s = Cat(Cat(Cat(Cat(Low(s, W), Part(s, W, W)), Part(s, W + W, W)),
                        Part(s, W + W + W, N)), Part(s, W + W + W + N, T))
<1>1. /\ W + W \in Nat /\ W + W + W \in Nat /\ W + W + W + N \in Nat
      /\ W + W <= Size(s) /\ W + W + W <= Size(s) /\ W + W + W + N <= Size(s)
      /\ W + W + W + N + T <= Size(s)
  OBVIOUS
<1>2. /\ Low(s, W) \in Bytes /\ Size(Low(s, W)) = W
      /\ Part(s, W, W) \in Bytes /\ Size(Part(s, W, W)) = W
      /\ Cat(Low(s, W), Part(s, W, W)) = Low(s, W + W)
  BY <1>1, Take
<1>3. /\ Part(s, W + W, W) \in Bytes /\ Size(Part(s, W + W, W)) = W
      /\ Cat(Low(s, W + W), Part(s, W + W, W)) = Low(s, W + W + W)
  BY <1>1, Take
<1>4. /\ Part(s, W + W + W, N) \in Bytes /\ Size(Part(s, W + W + W, N)) = N
      /\ Cat(Low(s, W + W + W), Part(s, W + W + W, N)) = Low(s, W + W + W + N)
  BY <1>1, Take
<1>5. /\ Part(s, W + W + W + N, T) \in Bytes /\ Size(Part(s, W + W + W + N, T)) = T
      /\ Cat(Low(s, W + W + W + N), Part(s, W + W + W + N, T)) = Low(s, W + W + W + N + T)
  BY <1>1, Take
<1>6. Low(s, W + W + W + N + T) = s
  BY Take, <1>1
<1> QED
  BY <1>2, <1>3, <1>4, <1>5, <1>6, Zenon

\* The words of a header are the pieces of eight bytes that it begins with.
LEMMA Words ==
  ASSUME NEW s
  PROVE  /\ Word(s, 0) = Uint64(Low(s, 8))
         /\ Word(s, 1) = Uint64(Part(s, 8, 8))
         /\ Word(s, 2) = Uint64(Part(s, 16, 8))
<1>1. /\ 8 * 0 + 1 = 1 /\ 8 * 0 + 8 = 8 /\ 8 * 1 + 1 = 8 + 1 /\ 8 * 1 + 8 = 8 + 8
      /\ 8 * 2 + 1 = 16 + 1 /\ 8 * 2 + 8 = 16 + 8
  OBVIOUS
<1> QED
  BY <1>1, Zenon DEF Word, Low, Part

\* What readFrame returns, in terms of the words and the pieces of the stream.
Accepted(raw, key, payload, rest) ==
    [err |-> "", alloc |-> Size(payload),
     kind |-> IF raw >= responseBit THEN "response" ELSE "request",
     id |-> raw % responseBit, key |-> key, payload |-> payload, rest |-> rest]

Result(raw, key, payload, rest) ==
    IF Size(payload) <= MaxFramePayload THEN Accepted(raw, key, payload, rest)
    ELSE [err |-> "protocol error", alloc |-> 0]

LEMMA Reads ==
  ASSUME NEW s \in Bytes, NEW n \in Nat, NEW T \in Nat, Word(s, 2) = n, Size(s) = 24 + n + T
  PROVE  readFrame(s) = Result(Word(s, 0), Word(s, 1), Part(s, 24, n), Part(s, 24 + n, T))
<1>1. Size(Part(s, 24, n)) = n
  BY Take, 24 + n <= Size(s)
<1>2. Len(s) = 24 + n + T
  BY Zenon DEF Size
<1>3. SubSeq(s, headerSize + 1, headerSize + n) = Part(s, 24, n)
  BY Zenon DEF headerSize, Part
<1>4. SubSeq(s, headerSize + n + 1, Len(s)) = Part(s, 24 + n, T)
  BY <1>2 DEF headerSize, Part
<1>5. ~(Len(s) < headerSize) /\ ~(Len(s) < headerSize + n)
  BY <1>2 DEF headerSize
<1> QED
  BY <1>1, <1>3, <1>4, <1>5, Zenon DEF readFrame, parseFrameHeader, Accepted, Result

\* What is read when three words, a payload and a rest lie before the reader.
EightBytes == {w \in Bytes : Size(w) = 8}

LEMMA HeaderRead ==
  ASSUME NEW a \in EightBytes, NEW k \in EightBytes, NEW l \in EightBytes,
         NEW p \in Bytes, NEW t \in Bytes, Uint64(l) = Size(p)
  PROVE  readFrame(Cat(Cat(Cat(Cat(a, k), l), p), t)) = Result(Uint64(a), Uint64(k), p, t)
<1>0. PICK n \in Nat, T \in Nat : n = Size(p) /\ T = Size(t)
  BY Grow
<1>00. /\ a \in Bytes /\ k \in Bytes /\ l \in Bytes
       /\ Size(a) = 8 /\ Size(k) = 8 /\ Size(l) = 8
  BY Zenon DEF EightBytes
<1> DEFINE s == Cat(Cat(Cat(Cat(a, k), l), p), t)
<1>1. s \in Bytes
  <2>1. Cat(a, k) \in Bytes
    BY <1>00, Grow
  <2>2. Cat(Cat(a, k), l) \in Bytes
    BY <1>00, <2>1, Grow
  <2>3. Cat(Cat(Cat(a, k), l), p) \in Bytes
    BY <2>2, Grow
  <2> QED
    BY <2>3, Grow
<1>2. PICK W \in Nat : W = 8
  OBVIOUS
<1>3. /\ Size(s) = W + W + W + n + T
      /\ Low(s, W) = a /\ Part(s, W, W) = k /\ Part(s, W + W, W) = l
      /\ Part(s, W + W + W, n) = p /\ Part(s, W + W + W + n, T) = t
  <2>1. Size(a) = W /\ Size(k) = W /\ Size(l) = W /\ Size(p) = n /\ Size(t) = T
    BY <1>0, <1>00, <1>2
  <2> HIDE DEF s
  <2>2. s = Cat(Cat(Cat(Cat(a, k), l), p), t)
    BY DEF s
  <2> QED
    BY <1>00, <1>1, <2>1, <2>2, PiecesLie
<1>4. /\ Size(s) = 24 + n + T
      /\ Low(s, 8) = a /\ Part(s, 8, 8) = k /\ Part(s, 16, 8) = l
      /\ Part(s, 24, n) = p /\ Part(s, 24 + n, T) = t
  BY <1>2, <1>3
<1> HIDE DEF s
<1>5. Word(s, 0) = Uint64(a) /\ Word(s, 1) = Uint64(k) /\ Word(s, 2) = n
  BY <1>0, <1>4, Words, Zenon
<1>6. readFrame(s) = Result(Uint64(a), Uint64(k), p, t)
  <2>1. readFrame(s) = Result(Word(s, 0), Word(s, 1), Part(s, 24, n), Part(s, 24 + n, T))
    BY <1>1, <1>4, <1>5, Reads
  <2> QED
    BY <1>4, <1>5, <2>1
<1> QED
  BY <1>6 DEF s

\* The first word of a frame: the kind and the request ID in one number.
Raw(kind, id) == IF kind = "response" THEN id + responseBit ELSE id

LEMMA RawSplits ==
  ASSUME NEW kind \in {"request", "response"}, NEW id \in 0 .. responseBit - 1
  PROVE  /\ Raw(kind, id) \in 0 .. R8 - 1
         /\ Raw(kind, id) % responseBit = id
         /\ (IF Raw(kind, id) >= responseBit THEN "response" ELSE "request") = kind
         /\ id % responseBit = id
<1>1. id % responseBit = id /\ (id + responseBit) % responseBit = id
  <2>1. 0 \in 0 .. 1 /\ 1 \in 0 .. 1
    OBVIOUS
  <2>2. responseBit \in Nat \ {0}
    BY Bases
  <2> QED
    BY <2>2
<1>2. Raw(kind, id) \in 0 .. R8 - 1
  BY Bases DEF Raw
<1>3. Raw(kind, id) % responseBit = id
  BY <1>1 DEF Raw
<1>4. (IF Raw(kind, id) >= responseBit THEN "response" ELSE "request") = kind
  BY Bases DEF Raw
<1> QED
  BY <1>1, <1>2, <1>3, <1>4

\* A frame is its three words and its payload.
LEMMA Built ==
  ASSUME NEW kind \in {"request", "response"}, NEW id \in 0 .. responseBit - 1, NEW key, NEW payload
  PROVE  buildFrame(kind, id, key, payload) =
            Cat(Cat(Cat(PutUint64(Raw(kind, id)), PutUint64(key)), PutUint64(Len(payload))), payload)
BY RawSplits, Zenon DEF buildFrame, Raw, Cat

\* What a frame may hold: a request ID below the response bit, a key of a word,
\* a payload whose length is a word.
Fits(kind, id, key, p) ==
    /\ kind \in {"request", "response"} /\ id \in 0 .. responseBit - 1 /\ key \in 0 .. R8 - 1
    /\ p \in Bytes /\ Size(p) < R8

Frame(kind, id, key, p, t) ==
    [err |-> "", alloc |-> Size(p), kind |-> kind, id |-> id, key |-> key, payload |-> p, rest |-> t]

TooLong == [err |-> "protocol error", alloc |-> 0]

LEMMA TooLongFails == TooLong.err # ""
BY DEF TooLong

LEMMA WordPut ==
  ASSUME NEW v \in 0 .. R8 - 1
  PROVE  PutUint64(v) \in EightBytes /\ Uint64(PutUint64(v)) = v
BY Put64, Zenon DEF EightBytes, Bytes, Size

LEMMA BuiltOf ==
  ASSUME NEW kind, NEW id, NEW key, NEW p, Fits(kind, id, key, p)
  PROVE  /\ Raw(kind, id) \in 0 .. R8 - 1 /\ key \in 0 .. R8 - 1 /\ Size(p) \in 0 .. R8 - 1
         /\ buildFrame(kind, id, key, p) =
              Cat(Cat(Cat(PutUint64(Raw(kind, id)), PutUint64(key)), PutUint64(Size(p))), p)
<1>1. /\ kind \in {"request", "response"} /\ id \in 0 .. responseBit - 1 /\ key \in 0 .. R8 - 1
      /\ p \in Bytes /\ Size(p) < R8
  BY Zenon DEF Fits
<1>2. Size(p) \in 0 .. R8 - 1 /\ Raw(kind, id) \in 0 .. R8 - 1
  <2>1. Size(p) \in Nat
    BY <1>1, SizeNat
  <2>2. Raw(kind, id) \in 0 .. R8 - 1
    BY <1>1, RawSplits
  <2> QED
    BY <1>1, <2>1, <2>2, Bases
<1>3. buildFrame(kind, id, key, p) =
        Cat(Cat(Cat(PutUint64(Raw(kind, id)), PutUint64(key)), PutUint64(Len(p))), p)
  BY <1>1, Built
<1> QED
  BY <1>1, <1>2, <1>3, Zenon DEF Size

LEMMA BuiltBytes ==
  ASSUME NEW kind, NEW id, NEW key, NEW p, Fits(kind, id, key, p)
  PROVE  buildFrame(kind, id, key, p) \in Bytes
<1> DEFINE a == PutUint64(Raw(kind, id))
           k == PutUint64(key)
           l == PutUint64(Size(p))
<1>1. a \in EightBytes /\ k \in EightBytes /\ l \in EightBytes
  BY BuiltOf, WordPut
<1>2. a \in Bytes /\ k \in Bytes /\ l \in Bytes /\ p \in Bytes
  BY <1>1, Zenon DEF EightBytes, Fits
<1>3. buildFrame(kind, id, key, p) = Cat(Cat(Cat(a, k), l), p)
  BY BuiltOf
<1> HIDE DEF a, k, l
<1>4. Cat(a, k) \in Bytes
  BY <1>2, Grow
<1>5. Cat(Cat(a, k), l) \in Bytes
  BY <1>2, <1>4, Grow
<1> QED
  BY <1>2, <1>3, <1>5, Grow

LEMMA RoundTrip ==
  ASSUME NEW kind, NEW id, NEW key, NEW p, Fits(kind, id, key, p), NEW t \in Bytes
  PROVE  readFrame(Cat(buildFrame(kind, id, key, p), t)) =
            IF Size(p) <= MaxFramePayload THEN Frame(kind, id, key, p, t) ELSE TooLong
<1> DEFINE a == PutUint64(Raw(kind, id))
           k == PutUint64(key)
           l == PutUint64(Size(p))
<1>1. /\ a \in EightBytes /\ k \in EightBytes /\ l \in EightBytes
      /\ Uint64(a) = Raw(kind, id) /\ Uint64(k) = key /\ Uint64(l) = Size(p)
  BY BuiltOf, WordPut
<1>2. buildFrame(kind, id, key, p) = Cat(Cat(Cat(a, k), l), p)
  BY BuiltOf
<1> HIDE DEF a, k, l
<1>3. p \in Bytes /\ kind \in {"request", "response"} /\ id \in 0 .. responseBit - 1
  BY Zenon DEF Fits
<1>4. readFrame(Cat(Cat(Cat(Cat(a, k), l), p), t)) = Result(Uint64(a), Uint64(k), p, t)
  BY <1>1, <1>3, HeaderRead
<1>5. readFrame(Cat(buildFrame(kind, id, key, p), t)) = Result(Raw(kind, id), key, p, t)
  BY <1>1, <1>2, <1>4
<1>6. Accepted(Raw(kind, id), key, p, t) = Frame(kind, id, key, p, t)
  BY <1>3, RawSplits, Zenon DEF Accepted, Frame
<1> QED
  BY <1>5, <1>6, Zenon DEF Result, TooLong

\* The reader returns what the sender put in, and leaves alone what comes
\* after it; it refuses a payload above its ceiling, and allocates nothing for
\* it.  (buildFrame and readFrame, for every kind, ID, key and payload.)
THEOREM ReadsWhatWasBuilt ==
  ASSUME NEW kind \in {"request", "response"}, NEW id \in 0 .. responseBit - 1,
         NEW key \in 0 .. R8 - 1, NEW payload \in Seq(Byte), Len(payload) < R8,
         NEW rest \in Seq(Byte)
  PROVE  readFrame(buildFrame(kind, id, key, payload) \o rest) =
            IF Len(payload) <= MaxFramePayload
            THEN [err |-> "", alloc |-> Len(payload), kind |-> kind, id |-> id, key |-> key,
                  payload |-> payload, rest |-> rest]
            ELSE [err |-> "protocol error", alloc |-> 0]
<1>1. Fits(kind, id, key, payload) /\ rest \in Bytes
  BY Zenon DEF Fits, Bytes, Size
<1>2. readFrame(Cat(buildFrame(kind, id, key, payload), rest)) =
        IF Size(payload) <= MaxFramePayload THEN Frame(kind, id, key, payload, rest) ELSE TooLong
  BY <1>1, RoundTrip, Zenon
<1> QED
  BY <1>2, Zenon DEF Cat, Size, Frame, TooLong

LEMMA RawJoins ==
  ASSUME NEW raw \in 0 .. R8 - 1
  PROVE  /\ raw % responseBit \in 0 .. responseBit - 1
         /\ Raw(IF raw >= responseBit THEN "response" ELSE "request", raw % responseBit) = raw
<1>1. responseBit \in Nat \ {0} /\ R8 = 2 * responseBit
  BY Bases
<1>2. raw % responseBit \in 0 .. responseBit - 1
  BY <1>1
<1>3. CASE raw >= responseBit
  <2>1. raw - responseBit \in 0 .. responseBit - 1 /\ raw = (raw - responseBit) + responseBit
    BY <1>1, <1>3
  <2>2. raw % responseBit = raw - responseBit
    BY <1>1, <2>1
  <2> QED
    BY <1>2, <1>3, <2>1, <2>2 DEF Raw
<1>4. CASE ~(raw >= responseBit)
  <2>1. raw % responseBit = raw
    BY <1>1, <1>4
  <2> QED
    BY <1>2, <1>4, <2>1 DEF Raw
<1> QED
  BY <1>3, <1>4

\* A stream that is too short, or whose header is refused, gives no frame.
LEMMA Refused ==
  ASSUME NEW s, \/ Len(s) < headerSize \/ ~(Word(s, 2) <= MaxFramePayload)
                \/ Len(s) < headerSize + Word(s, 2)
  PROVE  readFrame(s).err # "" /\ readFrame(s).alloc <= MaxFramePayload
<1>1. 0 <= MaxFramePayload
  BY CeilingAssumption
<1>2. CASE Len(s) < headerSize
  BY <1>1, <1>2 DEF readFrame
<1>3. CASE ~(Len(s) < headerSize) /\ ~(Word(s, 2) <= MaxFramePayload)
  BY <1>1, <1>3 DEF readFrame, parseFrameHeader
<1>4. CASE ~(Len(s) < headerSize) /\ Word(s, 2) <= MaxFramePayload /\ Len(s) < headerSize + Word(s, 2)
  BY <1>4 DEF readFrame, parseFrameHeader
<1> QED
  BY <1>2, <1>3, <1>4, Zenon

LEMMA HeaderCut ==
  ASSUME NEW s \in Bytes, NEW n \in Nat, NEW T \in Nat, Size(s) = 24 + n + T
  PROVE  /\ Low(s, 8) \in EightBytes /\ Part(s, 8, 8) \in EightBytes /\ Part(s, 16, 8) \in EightBytes
         /\ Part(s, 24, n) \in Bytes /\ Size(Part(s, 24, n)) = n /\ Part(s, 24 + n, T) \in Bytes
         /\ s = Cat(Cat(Cat(Cat(Low(s, 8), Part(s, 8, 8)), Part(s, 16, 8)),
                        Part(s, 24, n)), Part(s, 24 + n, T))
<1>1. PICK W \in Nat : W = 8
  OBVIOUS
<1>2. Size(s) = W + W + W + n + T
  BY <1>1
<1>3. /\ Low(s, W) \in Bytes /\ Size(Low(s, W)) = W
      /\ Part(s, W, W) \in Bytes /\ Size(Part(s, W, W)) = W
      /\ Part(s, W + W, W) \in Bytes /\ Size(Part(s, W + W, W)) = W
      /\ Part(s, W + W + W, n) \in Bytes /\ Size(Part(s, W + W + W, n)) = n
      /\ Part(s, W + W + W + n, T) \in Bytes
      /\ s = Cat(Cat(Cat(Cat(Low(s, W), Part(s, W, W)), Part(s, W + W, W)),
                     Part(s, W + W + W, n)), Part(s, W + W + W + n, T))
  BY <1>2, PiecesMake
<1>4. W + W = 16 /\ W + W + W = 24 /\ W + W + W + n = 24 + n
  BY <1>1
<1> QED
  BY <1>1, <1>3, <1>4, Zenon DEF EightBytes

LEMMA WordCut ==
  ASSUME NEW w \in EightBytes
  PROVE  Uint64(w) \in 0 .. R8 - 1 /\ PutUint64(Uint64(w)) = w
BY Get64, Zenon DEF EightBytes, Bytes, Size

\* A stream that begins with a whole frame is a frame that was built, and a
\* rest.
Exact(s) ==
    LET f == readFrame(s)
    IN  /\ Fits(f.kind, f.id, f.key, f.payload) /\ Size(f.payload) <= MaxFramePayload
        /\ f.rest \in Bytes /\ f.err = "" /\ f.alloc = Size(f.payload)
        /\ s = Cat(buildFrame(f.kind, f.id, f.key, f.payload), f.rest)

LEMMA ExactByParts ==
  ASSUME NEW s, NEW kind, NEW id, NEW key, NEW p, NEW t \in Bytes,
         Fits(kind, id, key, p), Size(p) <= MaxFramePayload,
         readFrame(s) = Frame(kind, id, key, p, t), s = Cat(buildFrame(kind, id, key, p), t)
  PROVE  Exact(s)
<1>1. /\ readFrame(s).kind = kind /\ readFrame(s).id = id /\ readFrame(s).key = key
      /\ readFrame(s).payload = p /\ readFrame(s).rest = t
      /\ readFrame(s).err = "" /\ readFrame(s).alloc = Size(p)
  <2>1. PICK f : f = readFrame(s)
    OBVIOUS
  <2>2. f = Frame(kind, id, key, p, t)
    BY <2>1, Zenon
  <2>3. /\ f.err = "" /\ f.alloc = Size(p) /\ f.kind = kind /\ f.id = id
        /\ f.key = key /\ f.payload = p /\ f.rest = t
    BY ONLY <2>2 DEF Frame
  <2> QED
    BY <2>1, <2>3, Zenon
<1> QED
  BY <1>1, Zenon DEF Exact

LEMMA Rebuilt ==
  ASSUME NEW s \in Bytes, NEW n \in Nat, NEW T \in Nat, Word(s, 2) = n, Size(s) = 24 + n + T,
         n <= MaxFramePayload
  PROVE  Exact(s)
<1>1. PICK a \in EightBytes, k \in EightBytes, l \in EightBytes, p \in Bytes, t \in Bytes :
         /\ a = Low(s, 8) /\ k = Part(s, 8, 8) /\ l = Part(s, 16, 8)
         /\ p = Part(s, 24, n) /\ t = Part(s, 24 + n, T) /\ Size(p) = n
         /\ s = Cat(Cat(Cat(Cat(a, k), l), p), t)
  BY HeaderCut
<1>2. /\ Uint64(a) \in 0 .. R8 - 1 /\ PutUint64(Uint64(a)) = a
      /\ Uint64(k) \in 0 .. R8 - 1 /\ PutUint64(Uint64(k)) = k
      /\ n \in 0 .. R8 - 1 /\ PutUint64(n) = l /\ Uint64(l) = n
  BY <1>1, WordCut, Words, Zenon
<1>3. PICK kind \in {"request", "response"}, id \in 0 .. responseBit - 1 : Raw(kind, id) = Uint64(a)
  BY <1>2, RawJoins
<1>4. Fits(kind, id, Uint64(k), p) /\ Size(p) <= MaxFramePayload
  <2>1. Size(p) < R8
    BY <1>1, <1>2, Bases
  <2> QED
    BY <1>1, <1>2, <2>1, Zenon DEF Fits
<1>5. s = Cat(buildFrame(kind, id, Uint64(k), p), t)
  <2>1. buildFrame(kind, id, Uint64(k), p) =
          Cat(Cat(Cat(PutUint64(Raw(kind, id)), PutUint64(Uint64(k))), PutUint64(Size(p))), p)
    BY <1>4, BuiltOf
  <2> QED
    BY <1>1, <1>2, <1>3, <2>1
<1>6. readFrame(s) = Frame(kind, id, Uint64(k), p, t)
  BY <1>4, <1>5, RoundTrip, Zenon
<1> QED
  BY <1>4, <1>5, <1>6, ExactByParts, Zenon

\* The length in a header is a word.
LEMMA LengthIsWord ==
  ASSUME NEW s \in Bytes, Size(s) >= 24
  PROVE  Word(s, 2) \in Nat
<1>1. PICK T \in Nat : Size(s) = 24 + 0 + T
  <2>1. Size(s) \in Nat
    BY SizeNat
  <2> QED
    BY <2>1, Size(s) - 24 \in Nat
<1>2. Part(s, 16, 8) \in EightBytes
  BY <1>1, HeaderCut, 0 \in Nat
<1>3. Word(s, 2) \in 0 .. R8 - 1
  BY <1>2, WordCut, Words, Zenon
<1> QED
  BY <1>3, Bases

\* Whatever is accepted begins with a whole frame below the ceiling,
Whole(s) == Size(s) >= 24 /\ Size(s) >= 24 + Word(s, 2)

LEMMA OnlyWhole ==
  ASSUME NEW s \in Bytes, ~(Whole(s) /\ Word(s, 2) <= MaxFramePayload)
  PROVE  readFrame(s).err # "" /\ readFrame(s).alloc <= MaxFramePayload
<1>1. Size(s) \in Nat
  BY SizeNat
<1>2. Size(s) < 24 \/ ~(Word(s, 2) <= MaxFramePayload) \/ Size(s) < 24 + Word(s, 2)
  <2>1. CASE Size(s) < 24
    BY <2>1
  <2>2. CASE ~(Size(s) < 24)
    <3>1. Size(s) >= 24
      BY <1>1, <2>2
    <3>2. Word(s, 2) \in Nat
      BY <3>1, LengthIsWord
    <3> QED
      BY <1>1, <3>1, <3>2 DEF Whole
  <2> QED
    BY <2>1, <2>2
<1>3. Len(s) < headerSize \/ ~(Word(s, 2) <= MaxFramePayload) \/ Len(s) < headerSize + Word(s, 2)
  BY <1>2, Zenon DEF Size, headerSize
<1> QED
  BY <1>3, Refused, Zenon

\* and was built.
LEMMA WholeWasBuilt ==
  ASSUME NEW s \in Bytes, Whole(s), Word(s, 2) <= MaxFramePayload
  PROVE  Exact(s) /\ readFrame(s).err = ""
<1>1. PICK n \in Nat : n = Word(s, 2)
  BY LengthIsWord DEF Whole
<1>2. Size(s) \in Nat
  BY SizeNat
<1>3. Size(s) - (24 + n) \in Nat
  BY <1>1, <1>2 DEF Whole
<1>4. PICK T \in Nat : Size(s) = 24 + n + T
  BY <1>2, <1>3
<1>5. Exact(s)
  BY <1>1, <1>4, Rebuilt, Zenon
<1> QED
  BY <1>5, Zenon DEF Exact

-----------------------------------------------------------------------------
(* The reader                                                              *)

\* The reader's invariant: bytes lie before it, and what it has read is what
\* they say.
ReadInv ==
    /\ stream \in Seq(Byte)
    /\ frame = Nothing \/ frame = readFrame(stream)

LEMMA ReadInvHolds == FrameSpec => []ReadInv
<1>1. FrameInit => ReadInv
  BY DEF FrameInit, ReadInv
<1>2. ReadInv /\ [FrameNext]_frameVars => ReadInv'
  <2> SUFFICES ASSUME ReadInv, [FrameNext]_frameVars PROVE ReadInv'
    OBVIOUS
  <2>1. CASE \E b \in Seq(Byte) : SendBytes(b)
    BY <2>1, Zenon DEF SendBytes, ReadInv
  <2>2. CASE ReadFrame
    BY <2>2, Zenon DEF ReadFrame, ReadInv
  <2>3. CASE UNCHANGED frameVars
    BY <2>3, Zenon DEF frameVars, ReadInv
  <2> QED
    BY <2>1, <2>2, <2>3 DEF FrameNext
<1> QED
  BY <1>1, <1>2, PTL DEF FrameSpec

\* What FramesExact says of one stream.
LEMMA ExactOf ==
  ASSUME NEW s \in Bytes
  PROVE  LET f == readFrame(s)
         IN  /\ (f.err = "") <=> Whole(s) /\ Word(s, 2) <= MaxFramePayload
             /\ f.err = "" =>
                  /\ Cat(buildFrame(f.kind, f.id, f.key, f.payload), f.rest) = s
                  /\ f.id \in 0 .. responseBit - 1
             /\ f.alloc <= MaxFramePayload
<1>1. CASE Whole(s) /\ Word(s, 2) <= MaxFramePayload
  <2>1. Exact(s) /\ readFrame(s).err = ""
    BY <1>1, WholeWasBuilt
  <2>2. /\ Fits(readFrame(s).kind, readFrame(s).id, readFrame(s).key, readFrame(s).payload)
        /\ Size(readFrame(s).payload) <= MaxFramePayload
        /\ readFrame(s).alloc = Size(readFrame(s).payload)
        /\ s = Cat(buildFrame(readFrame(s).kind, readFrame(s).id, readFrame(s).key,
                              readFrame(s).payload), readFrame(s).rest)
    BY <2>1, Zenon DEF Exact
  <2>3. readFrame(s).id \in 0 .. responseBit - 1
    BY <2>2, Zenon DEF Fits
  <2> QED
    BY <1>1, <2>1, <2>2, <2>3, Zenon
<1>2. CASE ~(Whole(s) /\ Word(s, 2) <= MaxFramePayload)
  <2>1. readFrame(s).err # "" /\ readFrame(s).alloc <= MaxFramePayload
    BY <1>2, OnlyWhole
  <2> QED
    BY <1>2, <2>1, Zenon
<1> QED
  BY <1>1, <1>2, Zenon

\* Whatever bytes arrive, a frame that readFrame accepts is exactly what the
\* bytes say, a whole frame below the ceiling is always accepted, and no header
\* makes readFrame allocate more than the ceiling.
THEOREM FramesAreExact == FrameSpec => []FramesExact
<1>1. ReadInv => FramesExact
  BY ExactOf, Zenon DEF ReadInv, FramesExact, Whole, Bytes, Size, Cat, headerSize
<1> QED
  BY <1>1, ReadInvHolds, PTL

-----------------------------------------------------------------------------
(* Streams of frames                                                       *)

LEMMA CatJoins ==
  ASSUME NEW a \in Bytes, NEW b \in Bytes, NEW c \in Bytes
  PROVE  Cat(Cat(a, b), c) = Cat(a, Cat(b, c)) /\ Cat(b, c) \in Bytes
<1>1. a \in Seq(Byte) /\ b \in Seq(Byte) /\ c \in Seq(Byte)
  BY Zenon DEF Bytes
<1>2. (a \o b) \o c = a \o (b \o c)
  BY <1>1, ConcatAssociative
<1>3. b \o c \in Seq(Byte)
  BY <1>1, ConcatProperties
<1> QED
  BY <1>2, <1>3, Zenon DEF Bytes, Cat

LEMMA CatProperties ==
  ASSUME NEW a \in Bytes, NEW b \in Bytes
  PROVE  /\ <<>> \in Bytes /\ Cat(a, <<>>) = a
         /\ Cat(a, b) = <<>> => b = <<>>
<1>1. a \in Seq(Byte) /\ b \in Seq(Byte)
  BY Zenon DEF Bytes
<1>2. <<>> \in Seq(Byte)
  OBVIOUS
<1>3. a \o <<>> = a
  BY <1>1, ConcatEmptySeq
<1>4. a \o b = <<>> => b = <<>>
  BY <1>1, ConcatEqualIffEmpty
<1> QED
  BY <1>2, <1>3, <1>4, Zenon DEF Bytes, Cat

LEMMA Later ==
  ASSUME NEW s \in Bytes, NEW more \in Bytes, readFrame(s).err = ""
  PROVE  /\ readFrame(Cat(s, more)).err = ""
         /\ readFrame(Cat(s, more)).kind = readFrame(s).kind
         /\ readFrame(Cat(s, more)).id = readFrame(s).id
         /\ readFrame(Cat(s, more)).key = readFrame(s).key
         /\ readFrame(Cat(s, more)).payload = readFrame(s).payload
         /\ readFrame(s).rest \in Bytes
         /\ readFrame(Cat(s, more)).rest = Cat(readFrame(s).rest, more)
<1>1. Exact(s)
  BY OnlyWhole, WholeWasBuilt
<1>2. PICK kind, id, key, p, t :
         /\ kind = readFrame(s).kind /\ id = readFrame(s).id /\ key = readFrame(s).key
         /\ p = readFrame(s).payload /\ t = readFrame(s).rest
  OBVIOUS
<1>3. /\ Fits(kind, id, key, p) /\ Size(p) <= MaxFramePayload
      /\ t \in Bytes /\ s = Cat(buildFrame(kind, id, key, p), t)
  BY <1>1, <1>2 DEF Exact
<1>4. PICK b \in Bytes : b = buildFrame(kind, id, key, p)
  BY <1>3, BuiltBytes
<1>5. Cat(s, more) = Cat(b, Cat(t, more)) /\ Cat(t, more) \in Bytes
  <2>1. Cat(Cat(b, t), more) = Cat(b, Cat(t, more)) /\ Cat(t, more) \in Bytes
    <3>1. b \in Bytes /\ t \in Bytes /\ more \in Bytes
      BY <1>3
    <3> QED
      BY ONLY <3>1, CatJoins
  <2> QED
    BY <1>3, <1>4, <2>1
<1>6. readFrame(Cat(s, more)) = Frame(kind, id, key, p, Cat(t, more))
  BY <1>3, <1>4, <1>5, RoundTrip
<1>7. PICK g : g = readFrame(Cat(s, more))
  OBVIOUS
<1>8. /\ g.err = "" /\ g.kind = kind /\ g.id = id /\ g.key = key
      /\ g.payload = p /\ g.rest = Cat(t, more)
  <2>1. PICK u : u = Cat(t, more)
    OBVIOUS
  <2>2. g = Frame(kind, id, key, p, u)
    BY <1>6, <1>7, <2>1, Zenon
  <2>3. /\ g.err = "" /\ g.kind = kind /\ g.id = id /\ g.key = key
        /\ g.payload = p /\ g.rest = u
    BY ONLY <2>2 DEF Frame
  <2> QED
    BY <2>1, <2>3, Zenon
<1> QED
  BY <1>2, <1>3, <1>7, <1>8, Zenon

\* The bytes behind a frame do not change it: once readFrame has a frame,
\* everything that comes later is the rest.
THEOREM LaterBytesAreRest ==
  ASSUME NEW s \in Seq(Byte), NEW more \in Seq(Byte), readFrame(s).err = ""
  PROVE  /\ readFrame(s \o more).err = ""
         /\ readFrame(s \o more).kind = readFrame(s).kind
         /\ readFrame(s \o more).id = readFrame(s).id
         /\ readFrame(s \o more).key = readFrame(s).key
         /\ readFrame(s \o more).payload = readFrame(s).payload
         /\ readFrame(s \o more).rest = readFrame(s).rest \o more
BY Later, Zenon DEF Bytes, Cat

LEMMA Torn ==
  ASSUME NEW kind, NEW id, NEW key, NEW p, Fits(kind, id, key, p),
         NEW s \in Bytes, NEW lost \in Bytes, lost # <<>>, Cat(s, lost) = buildFrame(kind, id, key, p)
  PROVE  readFrame(s).err # ""
<1> SUFFICES ASSUME readFrame(s).err = "" PROVE FALSE
  OBVIOUS
<1>1. /\ readFrame(s).rest \in Bytes /\ readFrame(Cat(s, lost)).err = ""
      /\ readFrame(Cat(s, lost)).rest = Cat(readFrame(s).rest, lost)
  BY Later, Zenon
<1>2. Cat(s, lost) = Cat(buildFrame(kind, id, key, p), <<>>) /\ <<>> \in Bytes
  <2>1. buildFrame(kind, id, key, p) \in Bytes
    BY BuiltBytes, Zenon
  <2> QED
    BY <2>1, CatProperties, Zenon
<1>3. readFrame(Cat(buildFrame(kind, id, key, p), <<>>)) =
        IF Size(p) <= MaxFramePayload THEN Frame(kind, id, key, p, <<>>) ELSE TooLong
  BY <1>2, RoundTrip, Zenon
<1>4. readFrame(Cat(s, lost)) = Frame(kind, id, key, p, <<>>)
  <2>1. CASE Size(p) <= MaxFramePayload
    BY <1>2, <1>3, <2>1, Zenon
  <2>2. CASE ~(Size(p) <= MaxFramePayload)
    BY <1>1, <1>2, <1>3, <2>2, TooLongFails, Zenon
  <2> QED
    BY <2>1, <2>2
<1>5. Cat(readFrame(s).rest, lost) = <<>>
  <2>1. PICK g, none : g = readFrame(Cat(s, lost)) /\ none = <<>>
    OBVIOUS
  <2>2. g = Frame(kind, id, key, p, none)
    BY <1>4, <2>1, Zenon
  <2>3. g.rest = none
    BY ONLY <2>2 DEF Frame
  <2> QED
    BY <1>1, <2>1, <2>3, Zenon
<1> QED
  BY <1>1, <1>5, CatProperties, Zenon

\* A frame that was cut short is never read as a frame, whatever its payload
\* looks like.
THEOREM TornNeverRead ==
  ASSUME NEW kind \in {"request", "response"}, NEW id \in 0 .. responseBit - 1,
         NEW key \in 0 .. R8 - 1, NEW payload \in Seq(Byte), Len(payload) < R8,
         NEW s \in Seq(Byte), NEW lost \in Seq(Byte), lost # <<>>,
         s \o lost = buildFrame(kind, id, key, payload)
  PROVE  readFrame(s).err # ""
<1>1. Fits(kind, id, key, payload) /\ s \in Bytes /\ lost \in Bytes
  BY Zenon DEF Fits, Bytes, Size
<1>2. Cat(s, lost) = buildFrame(kind, id, key, payload)
  BY Zenon DEF Cat
<1> QED
  BY <1>1, <1>2, Torn, Zenon

=============================================================================
