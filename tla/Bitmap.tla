------------------------------- MODULE Bitmap -------------------------------
(***************************************************************************)
(* The bitmaps of src/bitmap: nbits bits packed into bytes, bit 0 being    *)
(* the most significant bit of byte 0.  A byte is the set of its one bits, *)
(* numbered 0..7 from the most significant, so that a mask is a range, |   *)
(* is union and & is intersection.  The bits of the last byte beyond nbits *)
(* belong to nobody: operations may write them and no answer may show it.  *)
(***************************************************************************)
EXTENDS Integers, FiniteSets, Bitwise

CONSTANTS nbits,        \* the size the client passes
          Long,         \* sizeof(unsigned long), 8 in the build
          Points,       \* the starts and ends of ranges a client uses
          MaxOps        \* bound: operations in a behaviour

VARIABLES bitmap,       \* the bytes
          src,          \* a second bitmap, operand of or, and, xor, copy
          ones,         \* what the bitmap stands for: the bits that are set
          ops

vars == <<bitmap, src, ones, ops>>

BITS == 8
Bits == 0..BITS - 1
ToBytes(n) == (n + BITS - 1) \div BITS              \* BITS_TO_BYTES
Bytes == 0..ToBytes(nbits) - 1
MaskByte(n) == 0..n - 1                             \* BITS_MASK_BYTE: the first n
From(n) == n..BITS - 1                              \* (uint8_t)~0 >> n
XorSet(a, b) == (a \ b) \cup (b \ a)
Abs(b) == {i \in 0..nbits - 1 : (i % BITS) \in b[i \div BITS]}

\* bitmap_set: whole bytes up to the one the range ends in, then its head.
SetRange(b, start, len) ==
  LET end == start + len
      first == start \div BITS
      last == end \div BITS
      Mask(i) == IF i = first THEN From(start % BITS) ELSE Bits
  IN [i \in DOMAIN b |->
        CASE first <= i /\ i < last -> b[i] \cup Mask(i)
          [] i = last /\ end % BITS # 0 -> b[i] \cup (Mask(i) \cap MaskByte(end % BITS))
          [] OTHER -> b[i]]

\* The last byte keeps its bits from end on only when the range began before it.
ClearRange_Head(b, start, len) ==
  LET end == start + len
      first == start \div BITS
      last == end \div BITS
  IN [i \in DOMAIN b |->
        CASE first <= i /\ i < last -> b[i] \cap (IF i = first THEN MaskByte(start % BITS) ELSE {})
          [] i = last /\ end % BITS # 0 -> b[i] \cap From(end % BITS)
          [] OTHER -> b[i]]

\* bitmap_clear
ClearRange(b, start, len) ==
  LET end == start + len
      first == start \div BITS
      last == end \div BITS
      Mask(i) == IF i = first THEN MaskByte(start % BITS) ELSE {}
  IN [i \in DOMAIN b |->
        CASE first <= i /\ i < last -> b[i] \cap Mask(i)
          [] i = last /\ end % BITS # 0 -> b[i] \cap (Mask(i) \cup From(end % BITS))
          [] OTHER -> b[i]]

\* clz8: the number of zeros before the first one, by halving.
Clz8(v) ==
  LET Half(w, n, lo, hi) ==                  \* if (mask & v) { num -= n; v >>= n; }
        IF w.v \cap lo..hi # {} THEN [num |-> w.num - n, v |-> {i + n : i \in w.v} \cap Bits]
        ELSE w
      a == Half([num |-> BITS, v |-> v], 4, 0, 3)
      b == Half(a, 2, 4, 5)
      c == Half(b, 1, 6, 6)
  IN IF 7 \in c.v THEN c.num - 1 ELSE c.num
Ffz8(v) == Clz8(Bits \ v)

\* The scan of bitmap_count_leading_zero and bitmap_find_first_zero, from byte k
\* of a bitmap of n bits.
Leading(b, k, n, F(_)) ==
  LET m == ToBytes(n)
      hit == {i \in 0..m - 1 : F(b[k + i]) < BITS}
      i == IF hit = {} THEN m ELSE CHOOSE x \in hit : \A y \in hit : x <= y
      c == (IF hit # {} THEN F(b[k + i]) ELSE IF m = 0 THEN 0 ELSE BITS) + i * BITS
  IN IF c > n THEN n ELSE c

CountLeadingZero(b, k, n) == Leading(b, k, n, Clz8)
FindFirstZero(b, k, n) == Leading(b, k, n, Ffz8)

\* From start on: its own byte under a mask, then the scan of the rest.
Onward(c0, i, start, Rest(_, _)) ==
  LET c == (IF c0 = BITS /\ i + 1 < ToBytes(nbits)
            THEN c0 + Rest(i + 1, nbits - (i + 1) * BITS) ELSE c0) + i * BITS
  IN (IF c > nbits THEN nbits ELSE c) - start

CountNextZero(b, start) ==
  LET i == start \div BITS
      Rest(k, n) == CountLeadingZero(b, k, n)
  IN Onward(Clz8(b[i] \cap From(start % BITS)), i, start, Rest)

FindNextZero(b, start) ==
  LET i == start \div BITS
      Rest(k, n) == FindFirstZero(b, k, n)
  IN Onward(Ffz8(b[i] \cup MaskByte(start % BITS)), i, start, Rest)

\* hweight8, on the value of the byte
Value(v) == LET f[i \in -1..7] == IF i = -1 THEN 0
                                  ELSE 2 * f[i - 1] + (IF i \in v THEN 1 ELSE 0)
            IN f[7]
Hweight8(v) ==
  LET w0 == Value(v)
      w1 == w0 - ((w0 \div 2) & 85)                      \* 0x55
      w2 == (w1 & 51) + ((w1 \div 4) & 51)               \* 0x33
  IN (w2 + w2 \div 16) & 15

\* bitmap_weight: longs, then whole bytes, then the head of the last byte.
Weight(b) ==
  LET words == nbits \div (BITS * Long)
      whole == words * Long + (nbits % (BITS * Long)) \div BITS
      w[i \in 0..whole] == IF i = 0 THEN 0 ELSE w[i - 1] + Hweight8(b[i - 1])
  IN w[whole] + (IF nbits % BITS = 0 THEN 0 ELSE Hweight8(b[whole] \cap MaskByte(nbits % BITS)))

TestBit(b, i) == (i % BITS) \in b[i \div BITS]
-----------------------------------------------------------------------------
Init ==
  /\ bitmap = [i \in Bytes |-> {}]
  /\ src \in {[i \in Bytes |-> {1, 2, 5}], [i \in Bytes |-> IF i = 1 THEN Bits ELSE {7}]}
  /\ ones = {}
  /\ ops = 0

Op(b, s) == /\ ops < MaxOps
            /\ ops' = ops + 1 /\ bitmap' = b /\ ones' = s
            /\ UNCHANGED src

Zero == Op([i \in Bytes |-> {}], {})
Fill == Op([i \in Bytes |-> Bits], 0..nbits - 1)
Copy == Op(src, Abs(src))
Set(start, end) == Op(SetRange(bitmap, start, end - start), ones \cup start..end - 1)
Clear(start, end) == Op(ClearRange(bitmap, start, end - start), ones \ (start..end - 1))
OrWith == Op([i \in Bytes |-> bitmap[i] \cup src[i]], ones \cup Abs(src))
AndWith == Op([i \in Bytes |-> bitmap[i] \cap src[i]], ones \cap Abs(src))
XorWith == Op([i \in Bytes |-> XorSet(bitmap[i], src[i])], XorSet(ones, Abs(src)))

Next ==
  \/ Zero \/ Fill \/ Copy \/ OrWith \/ AndWith \/ XorWith
  \/ \E start, end \in Points : start <= end /\ (Set(start, end) \/ Clear(start, end))
Spec == Init /\ [][Next]_vars
-----------------------------------------------------------------------------
\* The next bit of the wanted kind from start on, as a distance.
Distance(S, start) ==
  LET T == {i \in start..nbits - 1 : i \in S}
  IN (IF T = {} THEN nbits ELSE CHOOSE i \in T : \A j \in T : i <= j) - start

\* The bytes stand for the set of bits the operations built, ranges that begin
\* or end inside a byte included, and every query answers from that set alone,
\* whatever the spare bits of the last byte hold.
AnswersExact ==
  /\ Abs(bitmap) = ones
  /\ Weight(bitmap) = Cardinality(ones)
  /\ CountLeadingZero(bitmap, 0, nbits) = Distance(ones, 0)
  /\ FindFirstZero(bitmap, 0, nbits) = Distance((0..nbits - 1) \ ones, 0)
  /\ \A start \in 0..nbits - 1 :
       /\ CountNextZero(bitmap, start) = Distance(ones, start)
       /\ FindNextZero(bitmap, start) = Distance((0..nbits - 1) \ ones, start)
       /\ TestBit(bitmap, start) <=> start \in ones
=============================================================================
