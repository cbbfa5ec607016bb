------------------------------ MODULE Hashing -------------------------------
(***************************************************************************)
(* The digests.  A client of SHA, of HMAC (src/sha/hmac.c) or of HKDF      *)
(* (src/sha/hkdf.c), and the contexts they keep inside each other: HKDF    *)
(* holds an HMAC context, which holds a SHA context.  The memory of a      *)
(* context is uninitialised before its first Reset.                        *)
(***************************************************************************)
EXTENDS Integers, Sequences, SequencesExt

(***************************************************************************)
(* The SHA contexts of src/sha: how a message that comes in pieces is cut  *)
(* into blocks, how its length is counted in two words and how the last    *)
(* block is padded.  The compression function is out: Intermediate_Hash is *)
(* the sequence of the blocks it was applied to.                           *)
(*                                                                         *)
(* The three families (sha1, sha224-256, sha384-512) are the same code     *)
(* over another block size, another number of length octets and another    *)
(* width of the length words.  An octet is a tuple that says what it is.   *)
(***************************************************************************)
CONSTANTS Versions,     \* the SHAversion values used
          BlockSize,    \* [Versions -> Nat]: SHAxxx_Message_Block_Size
          HashSize,     \* [Versions -> Nat]: SHAxxxHashSize
          LenOctets,    \* [Versions -> Nat]: 8 or 16 octets of length
          WordMod       \* [Versions -> Nat]: 2^w, w the width of a length word

shaSuccess == 0
shaNull == 1
shaInputTooLong == 2
shaStateError == 3
shaBadParam == 4

Zero == <<"zero">>
Pad(bits) == <<"pad", bits>>            \* the last bits, then a one

\* SHAxxxReset
Reset(w) == [which |-> w, low |-> 0, high |-> 0, hash |-> <<>>, block |-> <<>>,
             Computed |-> FALSE, Corrupted |-> shaSuccess]
SHA1Reset == Reset("SHA1")
SHA224_256Reset == Reset("SHA256")
SHA384_512Reset == Reset("SHA512")

\* The carry into Length_High is forgotten.
AddLength_NoCarry(c, n) == [c EXCEPT !.low = (c.low + n) % WordMod[c.which]]
\* SHAxxxAddLength
AddLength(c, n) ==
  LET low   == (c.low + n) % WordMod[c.which]
      carry == low < c.low
      high  == IF carry THEN (c.high + 1) % WordMod[c.which] ELSE c.high
  IN [c EXCEPT !.low = low, !.high = high,
               !.Corrupted = IF carry /\ high = 0 THEN shaInputTooLong ELSE @]

\* SHAxxxProcessMessageBlock; what runs over the end of Message_Block is not hashed.
Process(c) == [c EXCEPT !.hash = Append(@, SubSeq(c.block, 1, BlockSize[c.which])), !.block = <<>>]
SHA1ProcessMessageBlock(c) == Process(c)
SHA224_256ProcessMessageBlock(c) == Process(c)
SHA384_512ProcessMessageBlock(c) == Process(c)
ProcessMessageBlock(c) ==
  CASE c.which = "SHA1" -> SHA1ProcessMessageBlock(c)
    [] c.which = "SHA256" -> SHA224_256ProcessMessageBlock(c)
    [] c.which = "SHA512" -> SHA384_512ProcessMessageBlock(c)

Zeros(n) == [i \in 1..n |-> Zero]
LengthOctets(c) == [i \in 1..LenOctets[c.which] |-> <<"len", i, c.high, c.low>>]
Fill(c, upto) == [c EXCEPT !.block = @ \o Zeros(upto - Len(@))]

\* A block with room for the mark alone is thought to have room for the length.
PadMessage_OneBlock(c, pad) ==
  LET room == BlockSize[c.which] - LenOctets[c.which]
      c1 == [c EXCEPT !.block = Append(@, pad)]
      c2 == IF Len(c.block) > room
            THEN ProcessMessageBlock(Fill(c1, BlockSize[c.which])) ELSE c1
  IN ProcessMessageBlock([Fill(c2, room) EXCEPT !.block = @ \o LengthOctets(c)])
\* SHAxxxPadMessage
PadMessage(c, pad) ==
  LET room == BlockSize[c.which] - LenOctets[c.which]
      c1 == [c EXCEPT !.block = Append(@, pad)]
      c2 == IF Len(c.block) >= room
            THEN ProcessMessageBlock(Fill(c1, BlockSize[c.which])) ELSE c1
  IN ProcessMessageBlock([Fill(c2, room) EXCEPT !.block = @ \o LengthOctets(c)])
SHA1PadMessage(c, pad) == PadMessage(c, pad)
SHA224_256PadMessage(c, pad) == PadMessage(c, pad)
SHA384_512PadMessage(c, pad) == PadMessage(c, pad)

\* SHAxxxFinalize
Finalized(c) == [c EXCEPT !.block = <<>>, !.low = 0, !.high = 0, !.Computed = TRUE]
SHA1Finalize(c, pad) == Finalized(SHA1PadMessage(c, pad))
SHA224_256Finalize(c, pad) == Finalized(SHA224_256PadMessage(c, pad))
SHA384_512Finalize(c, pad) == Finalized(SHA384_512PadMessage(c, pad))
Finalize(c, pad) ==
  CASE c.which = "SHA1" -> SHA1Finalize(c, pad)
    [] c.which = "SHA256" -> SHA224_256Finalize(c, pad)
    [] c.which = "SHA512" -> SHA384_512Finalize(c, pad)

-----------------------------------------------------------------------------
\* A call answers with the context after it and its return value.
Answer(c, rc) == [c |-> c, rc |-> rc]
Failed(c, rc) == Answer([c EXCEPT !.Corrupted = rc], rc)
Outcome(c) == Answer(c, c.Corrupted)

\* The loop of SHAxxxInput: an octet that made the length overflow is stored,
\* but no full block is processed from then on.
WhenFull(c) ==
  IF c.Corrupted = shaSuccess /\ Len(c.block) = BlockSize[c.which] THEN ProcessMessageBlock(c) ELSE c
TakeOctet(c, o) == WhenFull(AddLength([c EXCEPT !.block = Append(@, o)], 8))

\* SHAxxxInput
Input(c, s) ==
  IF s = <<>> THEN Answer(c, shaSuccess)
  ELSE IF c.Computed THEN Failed(c, shaStateError)
  ELSE IF c.Corrupted # shaSuccess THEN Outcome(c)
  ELSE Outcome(FoldLeft(TakeOctet, c, s))
SHA1Input(c, s) == Input(c, s)
SHA256Input(c, s) == Input(c, s)
SHA512Input(c, s) == Input(c, s)

\* SHAxxxFinalBits: the last n bits of the message
FinalBits(c, n) ==
  IF n = 0 THEN Answer(c, shaSuccess)
  ELSE IF c.Corrupted # shaSuccess THEN Outcome(c)
  ELSE IF c.Computed THEN Failed(c, shaStateError)
  ELSE IF n >= 8 THEN Failed(c, shaBadParam)
  ELSE Outcome(Finalize(AddLength(c, n), Pad(n)))
SHA1FinalBits(c, n) == FinalBits(c, n)
SHA256FinalBits(c, n) == FinalBits(c, n)
SHA512FinalBits(c, n) == FinalBits(c, n)

\* SHAxxxResult; the digest is <<>> where the code writes none.
DigestOf(c) == [i \in 1..HashSize[c.which] |-> <<"h", c.hash, i>>]
GiveOut(c) == [c |-> c, rc |-> shaSuccess, digest |-> DigestOf(c)]
Result(c) ==
  IF c.Corrupted # shaSuccess THEN [c |-> c, rc |-> c.Corrupted, digest |-> <<>>]
  ELSE GiveOut(IF c.Computed THEN c ELSE Finalize(c, Pad(0)))
SHA1Result(c) == Result(c)
SHA224_256ResultN(c) == Result(c)
SHA384_512ResultN(c) == Result(c)

-----------------------------------------------------------------------------
USHAReset(w) == CASE w = "SHA1" -> SHA1Reset [] w = "SHA256" -> SHA224_256Reset
                  [] w = "SHA512" -> SHA384_512Reset
USHAInput(c, s) == CASE c.which = "SHA1" -> SHA1Input(c, s) [] c.which = "SHA256" -> SHA256Input(c, s)
                     [] c.which = "SHA512" -> SHA512Input(c, s)
USHAFinalBits(c, n) == CASE c.which = "SHA1" -> SHA1FinalBits(c, n)
                         [] c.which = "SHA256" -> SHA256FinalBits(c, n)
                         [] c.which = "SHA512" -> SHA512FinalBits(c, n)
USHAResult(c) == CASE c.which = "SHA1" -> SHA1Result(c) [] c.which = "SHA256" -> SHA224_256ResultN(c)
                   [] c.which = "SHA512" -> SHA384_512ResultN(c)

-----------------------------------------------------------------------------
(* What FIPS 180-3 says, for comparison: the message and its last bits, a    *)
(* one, as many zeros as needed, the length in bits.                         *)
Padded(w, s, bits) ==
  LET B == BlockSize[w]
      L == LenOctets[w]
      n == Len(s) + 1 + L
      total == Len(s) * 8 + bits
  IN s \o <<Pad(bits)>> \o Zeros((B - (n % B)) % B)
       \o [i \in 1..L |-> <<"len", i, total \div WordMod[w], total % WordMod[w]>>]
Blocks(w, s) == [k \in 1..Len(s) \div BlockSize[w] |->
                   SubSeq(s, (k - 1) * BlockSize[w] + 1, k * BlockSize[w])]
Standard(w, s, bits) == [i \in 1..HashSize[w] |-> <<"h", Blocks(w, Padded(w, s, bits)), i>>]

-----------------------------------------------------------------------------
CONSTANTS Kinds,        \* which of "usha", "hmac", "hkdf" the client uses
          KeyLens,      \* the lengths of keys and salts
          Pieces,       \* the lengths of the pieces of a message
          LastBits,     \* the numbers of bits given to FinalBits
          OkmLens,      \* the lengths of key material asked for
          InfoLen,      \* the length of info
          MaxN,         \* 255: the blocks of key material at most
          MaxOctets,    \* bound: the octets given after a reset
          MaxResets     \* bound: the uses of a context

VARIABLES kind,
          sha,          \* the innermost context
          mac,          \* HMACContext: Computed, Corrupted and k_opad
          kdf,          \* HKDFContext: Computed and Corrupted
          key,          \* what the last reset was given
          given,        \* the octets accepted since then
          bits,         \* the bits accepted by FinalBits
          last,         \* the last answer: rc and what was written
          resets

vars == <<kind, sha, mac, kdf, key, given, bits, last, resets>>

Octets(tag, n) == [i \in 1..n |-> <<tag, i>>]
OrElse(rc) == IF rc = shaSuccess THEN shaSuccess ELSE shaNull     \* a || b is 0 or 1
Xor(pad, s) == [i \in 1..Len(s) |-> <<pad, s[i]>>]
Keyed(w, k) == k \o Zeros(BlockSize[w] - Len(k))

\* hmacReset: a key longer than a block is replaced by its digest, which does
\* not fail: the octets an int counts are fewer bits than the length words hold.
HmacBegun(k_opad, in) ==
  [sha |-> in.c, rc |-> OrElse(in.rc),
   mac |-> [Computed |-> FALSE, Corrupted |-> OrElse(in.rc), k_opad |-> k_opad]]
HmacKeyed(w, k) == HmacBegun(Xor("opad", Keyed(w, k)), USHAInput(USHAReset(w), Xor("ipad", Keyed(w, k))))
HmacDigestKeyed(w, d) == HmacKeyed(w, d.digest)
HmacReset(w, k) ==
  IF Len(k) > BlockSize[w] THEN HmacDigestKeyed(w, USHAResult(USHAInput(USHAReset(w), k).c))
  ELSE HmacKeyed(w, k)

\* hmacInput, hmacFinalBits: F is the call on the inner context.
HmacFollows(m, a) == [sha |-> a.c, mac |-> [m EXCEPT !.Corrupted = a.rc], rc |-> a.rc]
HmacGuarded(s, m, F(_)) ==
  IF m.Corrupted # shaSuccess THEN [sha |-> s, mac |-> m, rc |-> m.Corrupted]
  ELSE IF m.Computed
  THEN [sha |-> s, mac |-> [m EXCEPT !.Corrupted = shaStateError], rc |-> shaStateError]
  ELSE HmacFollows(m, F(s))
HmacInput(s, m, o) == LET F(c) == USHAInput(c, o) IN HmacGuarded(s, m, F)
HmacFinalBits(s, m, n) == LET F(c) == USHAFinalBits(c, n) IN HmacGuarded(s, m, F)

\* The outer hash: of the key with the outer pad and the inner digest.  The
\* context that is left is the one whose call failed, or the outer one.
HmacDone(m, c, rc, digest) ==
  [sha |-> c, rc |-> rc, mac |-> [m EXCEPT !.Computed = TRUE, !.Corrupted = rc],
   digest |-> IF rc = shaSuccess THEN digest ELSE <<>>]
HmacOuterDone(m, out) == HmacDone(m, out.c, OrElse(out.rc), out.digest)
\* The outer hash is fed the inner digest without the outer pad.
HmacOuter_NoPad(w, m, inner) ==
  HmacOuterDone(m, USHAResult(USHAInput(USHAReset(w), inner.digest).c))
HmacOuter(w, m, inner) ==
  IF inner.rc # shaSuccess THEN HmacDone(m, inner.c, OrElse(inner.rc), <<>>)
  ELSE HmacOuterDone(m, USHAResult(USHAInput(USHAInput(USHAReset(w), m.k_opad).c, inner.digest).c))
\* hmacResult
HmacResult(s, m) ==
  IF m.Corrupted # shaSuccess THEN [sha |-> s, mac |-> m, rc |-> m.Corrupted, digest |-> <<>>]
  ELSE IF m.Computed
  THEN [sha |-> s, mac |-> [m EXCEPT !.Corrupted = shaStateError], rc |-> shaStateError, digest |-> <<>>]
  ELSE HmacOuter(s.which, m, USHAResult(s))

\* hmac, the call on a whole message
ResultOf(h) == HmacResult(h.sha, h.mac)
InputTo(h, s) == HmacInput(h.sha, h.mac, s)
Hmac(w, k, s) == ResultOf(InputTo(HmacReset(w, k), s))

\* hkdfExpand: T(i) is the HMAC of T(i - 1), info and the counter octet.
HkdfExpand(w, prk, info, n) ==
  LET h == HashSize[w]
      N == n \div h + (IF n % h # 0 THEN 1 ELSE 0)
      T[i \in 0..N] == IF i = 0 THEN <<>> ELSE Hmac(w, prk, T[i - 1] \o info \o << <<"c", i>> >>).digest
      all == FoldLeft(LAMBDA a, i : a \o SubSeq(T[i], 1, IF i # N THEN h ELSE n - Len(a)),
                      <<>>, [i \in 1..N |-> i])
  IN IF n <= 0 \/ Len(prk) < h \/ N > MaxN THEN [rc |-> shaBadParam, okm |-> <<>>]
     ELSE [rc |-> shaSuccess, okm |-> all]

-----------------------------------------------------------------------------
Nothing == [rc |-> shaSuccess, out |-> <<>>, okm |-> 0]
Init ==
  /\ kind \in Kinds
  /\ sha \in {USHAReset(w) : w \in Versions}
  /\ mac = [Computed |-> FALSE, Corrupted |-> shaSuccess, k_opad |-> <<>>]
  /\ kdf \in [Computed : BOOLEAN, Corrupted : {shaSuccess, shaNull}]
  /\ kind # "hkdf" => kdf = [Computed |-> FALSE, Corrupted |-> shaSuccess]
  /\ key = <<>> /\ given = <<>> /\ bits = 0 /\ last = Nothing
  /\ resets = 0

\* USHAReset, hmacReset, hkdfReset.  hkdfReset leaves Computed and Corrupted of
\* its own context as they are.
HmacGives(h) == sha' = h.sha /\ mac' = h.mac /\ last' = [Nothing EXCEPT !.rc = h.rc]
StartAfresh(k) ==
  /\ resets < MaxResets
  /\ resets' = resets + 1 /\ given' = <<>> /\ bits' = 0 /\ key' = k
  /\ IF kind = "usha" THEN sha' = USHAReset(sha.which) /\ last' = Nothing /\ UNCHANGED mac
     ELSE HmacGives(HmacReset(sha.which, k))
  /\ UNCHANGED <<kind, kdf>>

KdfError == IF kdf.Corrupted # shaSuccess THEN kdf.Corrupted ELSE shaStateError
KdfOpen == kind = "hkdf" => kdf.Corrupted = shaSuccess /\ ~kdf.Computed
\* The early returns of hkdfInput, hkdfFinalBits and hkdfResult
KdfRefuses ==
  /\ resets > 0 /\ ~KdfOpen
  /\ kdf' = [kdf EXCEPT !.Corrupted = KdfError]
  /\ last' = [Nothing EXCEPT !.rc = KdfError]
  /\ UNCHANGED <<kind, sha, mac, key, given, bits, resets>>

\* What USHAInput and USHAFinalBits (a), hmacInput and hmacFinalBits (h) answer
ShaTakes(a) == sha' = a.c /\ last' = [Nothing EXCEPT !.rc = a.rc] /\ UNCHANGED mac
Taken == last'.rc = shaSuccess

InputPiece(n) ==
  LET s == [i \in 1..n |-> <<"m", Len(given) + i>>]
  IN /\ resets > 0 /\ KdfOpen /\ Len(given) + n <= MaxOctets
     /\ IF kind = "usha" THEN ShaTakes(USHAInput(sha, s)) ELSE HmacGives(HmacInput(sha, mac, s))
     /\ given' = IF Taken THEN given \o s ELSE given
     /\ UNCHANGED <<kind, kdf, key, bits, resets>>

InputBits(n) ==
  /\ resets > 0 /\ KdfOpen
  /\ IF kind = "usha" THEN ShaTakes(USHAFinalBits(sha, n)) ELSE HmacGives(HmacFinalBits(sha, mac, n))
  /\ bits' = IF Taken THEN bits + n ELSE bits
  /\ UNCHANGED <<kind, kdf, key, given, resets>>

\* USHAResult, hmacResult; hkdfResult expands what hmacResult gives.
ShaAnswers(a) ==
  /\ sha' = a.c /\ last' = [rc |-> a.rc, out |-> a.digest, okm |-> 0]
  /\ UNCHANGED <<mac, kdf>>
HmacAnswers(h) ==
  /\ sha' = h.sha /\ mac' = h.mac /\ last' = [rc |-> h.rc, out |-> h.digest, okm |-> 0]
  /\ UNCHANGED kdf
HkdfGives(n, rc, okm) ==
  /\ last' = [rc |-> rc, okm |-> n, out |-> IF rc = shaSuccess THEN okm ELSE <<>>]
  /\ kdf' = [Computed |-> TRUE, Corrupted |-> rc]
HkdfExpands(n, e) == HkdfGives(n, OrElse(e.rc), e.okm)
HkdfAnswers(n, h) ==
  /\ sha' = h.sha /\ mac' = h.mac
  /\ IF h.rc # shaSuccess THEN HkdfGives(n, OrElse(h.rc), <<>>)
     ELSE HkdfExpands(n, HkdfExpand(sha.which, h.digest, Octets("info", InfoLen), n))
AskResult(n) ==
  /\ resets > 0 /\ KdfOpen
  /\ CASE kind = "usha" -> ShaAnswers(USHAResult(sha))
       [] kind = "hmac" -> HmacAnswers(HmacResult(sha, mac))
       [] kind = "hkdf" -> HkdfAnswers(n, HmacResult(sha, mac))
  /\ UNCHANGED <<kind, key, given, bits, resets>>

Next ==
  \/ \E n \in KeyLens : StartAfresh(Octets("k", n))
  \/ \E n \in Pieces : InputPiece(n)
  \/ \E n \in LastBits : InputBits(n)
  \/ \E n \in OkmLens : AskResult(n)
  \/ KdfRefuses
Spec == Init /\ [][Next]_vars
-----------------------------------------------------------------------------
\* RFC 2104 and RFC 5869 over the digest of FIPS 180-3
RfcKey(w, k) == Keyed(w, IF Len(k) > BlockSize[w] THEN Standard(w, k, 0) ELSE k)
RfcHmac(w, k, s, b) ==
  Standard(w, Xor("opad", RfcKey(w, k)) \o Standard(w, Xor("ipad", RfcKey(w, k)) \o s, b), 0)
RfcOkm(w, prk, info, n) ==
  LET T[i \in 0..n] == IF i = 0 THEN <<>> ELSE RfcHmac(w, prk, T[i - 1] \o info \o << <<"c", i>> >>, 0)
  IN SubSeq(FlattenSeq([i \in 1..n |-> T[i]]), 1, n)

\* Whatever the pieces a message comes in, and wherever they end in a block, a
\* digest that is given out is the standard's digest of the octets and bits
\* accepted since the reset, padded and with their length (SHAxxxInput,
\* SHAxxxPadMessage); the same for the two hashes of HMAC with its key, and
\* for the chain of HKDF.
ResultIsStandard ==
  last.out # <<>> =>
    LET w == sha.which IN
    last.out = CASE kind = "usha" -> Standard(w, given, bits)
                 [] kind = "hmac" -> RfcHmac(w, key, given, bits)
                 [] kind = "hkdf" -> RfcOkm(w, RfcHmac(w, key, given, bits),
                                            Octets("info", InfoLen), last.okm)

\* Until the length overflows, a block never holds more octets than it has room
\* for, and the two length words count the bits of the octets in it and in the
\* blocks hashed.
LengthExact ==
  (sha.Corrupted = shaSuccess /\ ~sha.Computed) =>
    /\ Len(sha.block) < BlockSize[sha.which]
    /\ sha.high * WordMod[sha.which] + sha.low
         = 8 * (Len(sha.hash) * BlockSize[sha.which] + Len(sha.block))

-----------------------------------------------------------------------------
(***************************************************************************)
(* The MD5 context of src/md5: unlike the SHA contexts it hashes whole     *)
(* blocks straight from the input, buffers the rest, and finds its place   *)
(* in the buffer from the bit count, which wraps.  md5_transform is out:   *)
(* the state is the sequence of the blocks it was applied to.              *)
(***************************************************************************)
CONSTANTS Md5Block,     \* 64
          Md5Octets,    \* 8, the octets of the length
          Md5Mod        \* 2^32, of each word of the count; 8 * Md5Block divides it

VARIABLES state,        \* the blocks transformed
          count,        \* <<count[0], count[1]>>
          buffer,       \* the octets buffered, stale ones included
          taken,        \* how many octets were given
          digest        \* what md5_final wrote: the blocks, <<>> before

md5vars == <<state, count, buffer, taken, digest>>

Index(c) == (c[1] \div 8) % Md5Block

\* md5_memcpy into the buffer at index
Copied(b, index, s) == [i \in 1..Md5Block |-> IF index < i /\ i <= index + Len(s) THEN s[i - index] ELSE b[i]]

\* md5_update: m has the fields state, count and buffer.
Updated(m, s) ==
  LET n     == Len(s)
      index == Index(m.count)
      low   == (m.count[1] + 8 * n) % Md5Mod
      carry == IF low < (8 * n) % Md5Mod THEN 1 ELSE 0
      part  == Md5Block - index
      full  == Copied(m.buffer, index, SubSeq(s, 1, part))
      whole == (n - part) \div Md5Block               \* blocks straight from the input
      i     == IF n >= part THEN part + whole * Md5Block ELSE 0
  IN [count |-> <<low, (m.count[2] + carry + (8 * n) \div Md5Mod) % Md5Mod>>,
      state |-> IF n < part THEN m.state
                ELSE m.state \o <<full>> \o
                     [k \in 1..whole |-> SubSeq(s, part + (k - 1) * Md5Block + 1, part + k * Md5Block)],
      buffer |-> Copied(IF n >= part THEN full ELSE m.buffer,
                        IF n >= part THEN 0 ELSE index, SubSeq(s, i + 1, n))]

Md5LengthOctets(c) == [i \in 1..Md5Octets |-> <<"len", i, c[1], c[2]>>]
PADDING == [i \in 1..Md5Block |-> IF i = 1 THEN <<"mark">> ELSE Zero]
\* A buffer filled up to the place of the length gets no padding at all.
Final_Edge(m) ==
  LET index  == Index(m.count)
      room   == Md5Block - Md5Octets
      padLen == IF index <= room THEN room - index ELSE room + Md5Block - index
  IN Updated(Updated(m, SubSeq(PADDING, 1, padLen)), Md5LengthOctets(m.count))
\* md5_final
Final(m) ==
  LET index  == Index(m.count)
      room   == Md5Block - Md5Octets
      padLen == IF index < room THEN room - index ELSE room + Md5Block - index
  IN Updated(Updated(m, SubSeq(PADDING, 1, padLen)), Md5LengthOctets(m.count))

Memory == [state |-> state, count |-> count, buffer |-> buffer]
Becomes(m) == state' = m.state /\ count' = m.count /\ buffer' = m.buffer

\* md5_init leaves the buffer as it is.
md5_init ==
  /\ state = <<>> /\ count = <<0, 0>> /\ buffer = [i \in 1..Md5Block |-> <<"garbage">>]
  /\ taken = 0 /\ digest = <<>>

md5_update(n) ==
  /\ digest = <<>> /\ taken + n <= MaxOctets
  /\ Becomes(Updated(Memory, [i \in 1..n |-> <<"m", taken + i>>]))
  /\ taken' = taken + n
  /\ UNCHANGED digest

md5_final ==
  /\ digest = <<>>
  /\ digest' = Final(Memory).state
  /\ Becomes([state |-> <<>>, count |-> <<0, 0>>, buffer |-> [i \in 1..Md5Block |-> Zero]])
  /\ UNCHANGED taken

Md5Next == (\E n \in Pieces : md5_update(n)) \/ md5_final
Md5Spec == md5_init /\ [][Md5Next]_md5vars
-----------------------------------------------------------------------------
\* RFC 1321: the message, a one, zeros, the length in bits.
Md5Standard(n) ==
  LET body == n + 1 + Md5Octets
      zeros == (Md5Block - (body % Md5Block)) % Md5Block
      s == [i \in 1..n |-> <<"m", i>>] \o << <<"mark">> >> \o [i \in 1..zeros |-> Zero]
           \o Md5LengthOctets(<<(8 * n) % Md5Mod, ((8 * n) \div Md5Mod) % Md5Mod>>)
  IN [k \in 1..Len(s) \div Md5Block |-> SubSeq(s, (k - 1) * Md5Block + 1, k * Md5Block)]

\* However the octets were cut into calls of md5_update, md5_final hashes the
\* blocks RFC 1321 makes of them, the length counted in both words.
DigestIsStandard == digest # <<>> => digest = Md5Standard(taken)
=============================================================================
