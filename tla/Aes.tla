-------------------------------- MODULE Aes ---------------------------------
(***************************************************************************)
(* The modes of operation of src/aes: a sender encrypts a stream with CBC  *)
(* or CFB128 in calls of any length, a receiver decrypts it in calls of    *)
(* other lengths, each keeping its iv (and offset) between calls.          *)
(*                                                                         *)
(* An octet is a set of atoms and xor is the symmetric difference, so that *)
(* xoring twice cancels.  The block cipher is an unknown permutation: what *)
(* it makes of a block are new atoms, which only its inverse with the same *)
(* key turns back.                                                         *)
(***************************************************************************)
EXTENDS Integers, Sequences, SequencesExt

CONSTANTS Block,        \* 16
          KeySizes,     \* the key sizes tried, in bits
          Cuts,         \* the lengths of calls
          MaxOctets     \* bound: the octets of the stream

VARIABLES mode,         \* "cbc" or "cfb"
          nr,           \* the rounds of the sender's and the receiver's context
          size,         \* the key size both were given
          siv, soff,    \* the sender's iv and iv_off
          riv, roff,    \* the receiver's
          sent,         \* the octets encrypted so far
          wire,         \* what came out and was not decrypted yet
          got           \* what was decrypted

vars == <<mode, nr, size, siv, soff, riv, roff, sent, wire, got>>

Xor(a, b) == (a \ b) \cup (b \ a)
XorSeq(s, t) == [i \in 1..Len(s) |-> Xor(s[i], t[i])]

\* aes_setkey_enc, aes_setkey_dec: another size leaves the context as it is.
Rounds(old, keysize) == CASE keysize = 128 -> 10 [] keysize = 192 -> 12 [] keysize = 256 -> 14
                          [] OTHER -> old
SetKeyEnc(old, keysize) == [rounds |-> Rounds(old, keysize), tables |-> TRUE]
SetKeyDec(old, keysize) == Rounds(old, keysize)

\* aes_crypt_ecb
Encrypted(b) == [i \in 1..Block |-> {<<"E", b, i>>}]
Decrypted(b) ==
  LET cand == {a[2] : a \in b[1]}
      whole == {p \in cand : b = Encrypted(p)}
  IN IF whole # {} THEN CHOOSE p \in whole : TRUE ELSE [i \in 1..Block |-> {<<"D", b, i>>}]

\* aes_crypt_cbc over whole blocks: <<iv, output>> after one block each.
CbcEncrypt(a, b) == LET out == Encrypted(XorSeq(b, a[1])) IN <<out, a[2] \o out>>
\* The iv is copied from the output buffer, which already holds the plaintext.
CbcDecrypt_InPlace(a, b) == LET out == XorSeq(Decrypted(b), a[1]) IN <<out, a[2] \o out>>
CbcDecrypt(a, b) == <<b, a[2] \o XorSeq(Decrypted(b), a[1])>>
BlocksOf(s) == [k \in 1..Len(s) \div Block |-> SubSeq(s, (k - 1) * Block + 1, k * Block)]

\* aes_crypt_cfb128: <<iv, n, output>> after one octet each.
Turned(a) == IF a[2] = 0 THEN Encrypted(a[1]) ELSE a[1]
CfbEncrypt(a, c) ==
  LET iv == Turned(a)
      o == Xor(iv[a[2] + 1], c)
  IN <<[iv EXCEPT ![a[2] + 1] = o], (a[2] + 1) % Block, Append(a[3], o)>>
CfbDecrypt(a, c) ==
  LET iv == Turned(a)
  IN <<[iv EXCEPT ![a[2] + 1] = c], (a[2] + 1) % Block, Append(a[3], Xor(c, iv[a[2] + 1]))>>

Plain(i) == {<<"p", i>>}
IV == [i \in 1..Block |-> {<<"iv", i>>}]

Init ==
  /\ mode \in {"cbc", "cfb"} /\ size \in KeySizes
  /\ nr = <<SetKeyEnc(0, size).rounds, SetKeyDec(0, size)>>
  /\ siv = IV /\ soff = 0 /\ riv = IV /\ roff = 0
  /\ sent = 0 /\ wire = <<>> /\ got = <<>>

Usable == nr[1] # 0 /\ nr[2] # 0

Send(n) ==
  LET s == [i \in 1..n |-> Plain(sent + i)]
      b == FoldLeft(CbcEncrypt, <<siv, <<>>>>, BlocksOf(s))
      f == FoldLeft(CfbEncrypt, <<siv, soff, <<>>>>, s)
  IN /\ Usable /\ sent + n <= MaxOctets
     /\ mode = "cbc" => n % Block = 0
     /\ sent' = sent + n
     /\ siv' = IF mode = "cbc" THEN b[1] ELSE f[1]
     /\ soff' = IF mode = "cbc" THEN soff ELSE f[2]
     /\ wire' = wire \o (IF mode = "cbc" THEN b[2] ELSE f[3])
     /\ UNCHANGED <<mode, nr, size, riv, roff, got>>

Receive(n) ==
  LET s == SubSeq(wire, 1, n)
      b == FoldLeft(CbcDecrypt, <<riv, <<>>>>, BlocksOf(s))
      f == FoldLeft(CfbDecrypt, <<riv, roff, <<>>>>, s)
  IN /\ Usable /\ n <= Len(wire)
     /\ mode = "cbc" => n % Block = 0
     /\ wire' = SubSeq(wire, n + 1, Len(wire))
     /\ riv' = IF mode = "cbc" THEN b[1] ELSE f[1]
     /\ roff' = IF mode = "cbc" THEN roff ELSE f[2]
     /\ got' = got \o (IF mode = "cbc" THEN b[2] ELSE f[3])
     /\ UNCHANGED <<mode, nr, size, siv, soff, sent>>

Next == \E n \in Cuts : Send(n) \/ Receive(n)
Spec == Init /\ [][Next]_vars
-----------------------------------------------------------------------------
\* However sender and receiver cut the stream into calls, the receiver gets the
\* plaintext back, in order (the iv and iv_off that aes_crypt_cbc and
\* aes_crypt_cfb128 leave for the next call).
StreamComesBack ==
  /\ Len(got) + Len(wire) = sent
  /\ \A i \in 1..Len(got) : got[i] = Plain(i)
=============================================================================
