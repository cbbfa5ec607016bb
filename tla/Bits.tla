-------------------------------- MODULE Bits --------------------------------
(* bits: a buffer of octets written and read bit by bit.  A field is written *)
(* with bits_write_n or bit by bit, Exp-Golomb codes as the bits they are;   *)
(* then the reader starts over and reads the fields in the same order.  The  *)
(* buffer is zero at first, as the writer only sets bits of an octet it      *)
(* begins.                                                                   *)
EXTENDS Integers, Sequences, SequencesExt

CONSTANTS Size,       \* octets of the buffer
          Fields,     \* the fields that may be written: [kind, n, v]
          MaxFields

VARIABLES data, bits, error,   \* struct bits
          mode,                \* "write", then "read"
          written,             \* the fields that were accepted
          got                  \* what the reader was given

vars == <<data, bits, error, mode, written, got>>

Octet(b) == data[(b \div 8) + 1]
BitOf(o, i) == (o \div 2 ^ (7 - i)) % 2    \* the i-th from the left
EndOfData(n) == bits + n > Size * 8

(* The value of n bits from the cursor: what is left of the first octet,     *)
(* whole octets, the head of the last.  A slip: the last octet's low bits.   *)
LOCAL Middle(v, from, count) ==
    FoldLeft(LAMBDA a, i : (a * 256) + data[i], v, [k \in 1..count |-> from + k])
bits_next_n_Low(n) ==
    LET left == 8 - (bits % 8)
        v == Octet(bits) % 2 ^ left
        whole == (n - left) \div 8
        rest == (n - left) % 8
        w == Middle(v, (bits \div 8) + 1, whole)
    IN IF n <= left THEN v \div 2 ^ (left - n)
       ELSE IF rest = 0 THEN w
       ELSE (w * 2 ^ rest) + (data[(bits \div 8) + 2 + whole] % 2 ^ rest)
bits_next_n(n) ==
    LET left == 8 - (bits % 8)
        v == Octet(bits) % 2 ^ left
        whole == (n - left) \div 8
        rest == (n - left) % 8
        w == Middle(v, (bits \div 8) + 1, whole)
    IN IF n <= left THEN v \div 2 ^ (left - n)
       ELSE IF rest = 0 THEN w
       ELSE (w * 2 ^ rest) + (data[(bits \div 8) + 2 + whole] \div 2 ^ (8 - rest))

bits_next == BitOf(Octet(bits), bits % 8)

(* bits_read_ue: zeros up to the first one, and as many bits more.  At the   *)
(* end of the data bits_read gives zeros for ever; the reader then never     *)
(* returns.                                                                  *)
LeadingZeros ==
    LET ones == {i \in bits..(Size * 8 - 1) : BitOf(Octet(i), i % 8) = 1}
    IN IF ones = {} THEN -1 ELSE (CHOOSE i \in ones : \A j \in ones : i <= j) - bits
LOCAL Suffix(z) ==
    LET from == bits + z + 1
    IN FoldLeft(LAMBDA a, i : (2 * a) + BitOf(Octet(i), i % 8), 0, [k \in 1..z |-> from + k - 1])
bits_read_ue == LET z == LeadingZeros IN [v |-> 2 ^ z - 1 + Suffix(z), n |-> (2 * z) + 1]
bits_read_se(ue) == (IF ue % 2 = 0 THEN -1 ELSE 1) * ((ue + 1) \div 2)
(* Only a 1 is followed by one bit more, which stands for its opposite.      *)
bits_read_te(ue) == IF ue # 1 THEN ue ELSE 1 - BitOf(Octet(bits + 3), (bits + 3) % 8)

------------------------------------------------------------------------------
(* The writer: the head of v into what is left of the octet at the cursor,   *)
(* the rest into octets of their own.                                        *)
LOCAL Shifted(v, n, from) ==   \* v's n bits, seen from the octet of the cursor, cut to the octet at from
    LET total == ((bits % 8) + n + 7) \div 8
        wide == v * 2 ^ ((total * 8) - (bits % 8) - n)
    IN (wide \div 2 ^ (8 * (total - from))) % 256
bits_write_n(v, n) ==
    LET first == (bits \div 8) + 1
        total == ((bits % 8) + n + 7) \div 8
    IN IF EndOfData(n) THEN error' = -1 /\ UNCHANGED <<data, bits>>
       ELSE /\ data' = [i \in DOMAIN data |-> IF i < first \/ i >= first + total THEN data[i]
                                              ELSE (IF i = first THEN data[i] ELSE 0) + Shifted(v, n, i - first + 1)]
            /\ bits' = bits + n
            /\ UNCHANGED error

bits_write(v) ==
    IF EndOfData(1) THEN error' = -1 /\ UNCHANGED <<data, bits>>
    ELSE /\ data' = [data EXCEPT ![(bits \div 8) + 1] = IF v = 0 THEN @ ELSE @ + 2 ^ (7 - (bits % 8))]
         /\ bits' = bits + 1
         /\ UNCHANGED error

Write(f) ==
    /\ mode = "write" /\ Len(written) < MaxFields
    /\ IF f.n = 1 THEN bits_write(f.v) ELSE bits_write_n(f.v, f.n)
    /\ written' = IF EndOfData(f.n) THEN written ELSE Append(written, f)
    /\ UNCHANGED <<mode, got>>

bits_init ==
    /\ mode = "write" /\ mode' = "read"
    /\ bits' = 0 /\ error' = 0
    /\ UNCHANGED <<data, written, got>>

(* bits_read_n, bits_read and the Exp-Golomb codes: past the end the error   *)
(* is set and the cursor stays where it is, from then on.                    *)
bits_read_n(n, v) ==
    IF EndOfData(n) THEN error' = -1 /\ got' = Append(got, 0) /\ UNCHANGED bits
    ELSE got' = Append(got, v) /\ bits' = (IF error = 0 THEN bits + n ELSE bits) /\ UNCHANGED error

Read ==
    /\ mode = "read" /\ Len(got) < Len(written)
    /\ LET f == written[Len(got) + 1]
       IN \/ f.kind = "n" /\ f.n = 1 /\ bits_read_n(1, bits_next)
          \/ f.kind = "n" /\ f.n > 1 /\ bits_read_n(f.n, bits_next_n(f.n))
          \/ f.kind = "ue" /\ bits_read_n(bits_read_ue.n, bits_read_ue.v)
          \/ f.kind = "se" /\ bits_read_n(bits_read_ue.n, bits_read_se(bits_read_ue.v))
          \/ f.kind = "te" /\ LET u == bits_read_ue
                              IN bits_read_n(u.n + (IF u.v = 1 THEN 1 ELSE 0), bits_read_te(u.v))
    /\ UNCHANGED <<data, mode, written>>

(* One read more than there are fields.                                      *)
Overrun ==
    /\ mode = "read" /\ Len(got) = Len(written) /\ error = 0 /\ EndOfData(9)
    /\ bits_read_n(9, 0)
    /\ UNCHANGED <<data, mode, written>>

Init ==
    /\ data = [i \in 1..Size |-> 0] /\ bits = 0 /\ error = 0
    /\ mode = "write" /\ written = <<>> /\ got = <<>>

Next == (\E f \in Fields : Write(f)) \/ bits_init \/ Read \/ Overrun

Spec == Init /\ [][Next]_vars

------------------------------------------------------------------------------
TypeOK ==
    /\ data \in [1..Size -> 0..255] /\ bits \in 0..(Size * 8) /\ error \in {0, -1}
    /\ mode \in {"write", "read"}

(* The value a field of kind ue, se or te stands for: its bits are those of  *)
(* the code number plus one.                                                 *)
Meant(f) ==
    LET c == f.v - 1
    IN CASE f.kind = "n" -> f.v
         [] f.kind = "ue" -> c
         [] f.kind = "se" -> IF c % 2 = 1 THEN (c + 1) \div 2 ELSE -(c \div 2)
         [] f.kind = "te" -> f.te

(* Wherever fields begin and end in their octets, bits_read_n and the        *)
(* Exp-Golomb readers give back what bits_write and bits_write_n put there,  *)
(* and a write or read past the end sets error, changes nothing else and is  *)
(* never mistaken for a field.                                               *)
FieldsComeBack ==
    /\ \A i \in DOMAIN got : i <= Len(written) => got[i] = Meant(written[i])
    /\ Len(got) = Len(written) /\ mode = "read"
         => bits = FoldLeft(LAMBDA a, f : a + f.n, 0, written) /\ error = 0
==============================================================================
