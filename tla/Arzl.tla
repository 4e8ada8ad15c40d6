-------------------------------- MODULE Arzl --------------------------------
(***************************************************************************)
(* unarzl: the decompressor of the "ARZL" format and the loop around it    *)
(* that doubles the output buffer until the decompressed data fit.         *)
(*                                                                         *)
(* The adaptive range coder turns the input into a sequence of bits; how   *)
(* it does that (v7, v10 and the probabilities in v109) is left out, and a *)
(* stream is the sequence of bits the coder yields.  What the bits mean,   *)
(* and what is done to the buffer, is kept.  Pointers are offsets into the *)
(* buffer.  The widths of the code are parameters.                         *)
(***************************************************************************)
EXTENDS Integers, Sequences

CONSTANTS LitBits,     \* the bits of a byte, 8 in the code
          LenClasses,  \* the largest class of lengths, 6 in the code
          ShortSlots,  \* the bits of a distance slot after a length up to 2 (3)
          LongSlots,   \* and after a longer one (5)
          StreamBits,  \* bound: the bits of a stream; zeros follow
          InSize,      \* the size of the compressed file
          MaxLen,      \* bound: the size the buffer may be doubled to
          MaxStored    \* bound: the length of data stored as they are

ASSUME ArzlAssumption ==
  /\ {LitBits, LenClasses, ShortSlots, LongSlots, StreamBits, InSize} \subseteq Nat
  /\ {MaxLen, MaxStored} \subseteq Nat

VARIABLES
  stored,   \* the length of data that are stored as they are, or -1
  stream,   \* the bits of the input
  pos,      \* how many of them have been used
  apc,      \* where the decompressor is
  max_len,  \* the size of the output buffer
  buffer,
  v8,       \* the bytes of output so far
  v9,       \* the byte that is written next
  v95,      \* where the copy of a match is, and where it ends
  v96,
  v97,      \* what is added to v95 for its source (the code's ~v66)
  tokens,   \* the literals and matches decoded in this attempt
  size      \* what unarzl returns in *size

arzlVars == <<stored, stream, pos, apc, max_len, buffer, v8, v9, v95, v96, v97,
              tokens, size>>

Unset == -1

(* The powers of two.                                                      *)
Pow2(n) == LET p[k \in 0 .. n] == IF k = 0 THEN 1 ELSE 2 * p[k - 1] IN p[n]

END_CODE == Pow2(LenClasses + 2) - 1

------------------------------------------------------------------------------
(* Reading bits: all of these return a value and the place after it.       *)

Bit(p) == IF p < StreamBits THEN stream[p + 1] ELSE 0

(* n bits below the leading bits `high', as in the trees of the code.      *)
Bits(p, n, high) ==
  LET v[k \in 0 .. n] == IF k = 0 THEN high ELSE 2 * v[k - 1] + Bit(p + k - 1)
  IN  [val |-> v[n], next |-> p + n]

(* The unary class of a length: -1, or up to LenClasses.                   *)
Class(p) ==
  LET ones == {k \in 0 .. (LenClasses + 1) : \A j \in 0 .. (k - 1) : Bit(p + j) = 1}
      n    == CHOOSE k \in ones : \A j \in ones : j <= k
  IN  [val |-> n - 1, next |-> p + n + (IF n = LenClasses + 1 THEN 0 ELSE 1)]

(* v35: one byte for class -1, else as many bits below a leading one.      *)
Length(p) ==
  LET c == Class(p)
  IN  IF c.val = -1 THEN [val |-> 1, next |-> c.next]
                    ELSE Bits(c.next, c.val + 1, 1)

(* v66: a slot, and below a leading one as many bits as the slot says.     *)
Distance(p, l) ==
  LET n == IF l <= 2 THEN ShortSlots ELSE LongSlots
      s == Bits(p, n, 0)
  IN  IF s.val = 0 THEN s
      ELSE LET d == Bits(s.next, s.val, 1) IN [d EXCEPT !.val = @ - 1]

------------------------------------------------------------------------------
(* unarzl's loop.                                                          *)

(* A larger buffer, with the bytes of the attempt before, and once more    *)
(* from the first bit.                                                     *)
Attempt ==
  /\ apc = "full" /\ 2 * max_len <= MaxLen
  /\ max_len' = 2 * max_len
  /\ buffer' = [b \in 0 .. (2 * max_len - 1) |->
                  IF b \in DOMAIN buffer THEN buffer[b] ELSE Unset]
  /\ apc' = IF stored >= 0 THEN "stored" ELSE "literal"
  /\ pos' = 0 /\ tokens' = <<>>
  /\ v8' = 0 /\ v9' = 0 /\ v95' = 0 /\ v96' = 0 /\ v97' = 0
  /\ UNCHANGED <<stored, stream, size>>

Return(len) == apc' = "done" /\ size' = len

(* The data are not compressed: memcpy.                                    *)
Stored ==
  /\ apc = "stored"
  /\ IF max_len < stored
       THEN apc' = "full" /\ UNCHANGED <<buffer, size, tokens>>
       ELSE /\ buffer' = [b \in DOMAIN buffer |->
                            IF b < stored THEN b % 2 ELSE buffer[b]]
            /\ tokens' = [b \in 1 .. stored |-> [len |-> 0, val |-> (b - 1) % 2]]
            /\ Return(stored)
  /\ UNCHANGED <<stored, stream, pos, max_len, v8, v9, v95, v96, v97>>

------------------------------------------------------------------------------
(* arzl_decompress.                                                        *)

DecoderOnly == UNCHANGED <<stored, stream, max_len>>

(* The outer loop ends when the buffer is full, before the byte is read.   *)
BufferFull ==
  /\ apc = "literal" /\ v8 = max_len
  /\ apc' = "full"
  /\ UNCHANGED <<pos, buffer, v8, v9, v95, v96, v97, tokens, size>>
  /\ DecoderOnly

(* A literal: the byte is decoded and written.                             *)
Literal ==
  /\ apc = "literal" /\ v8 # max_len
  /\ LET b == Bits(pos, LitBits, 0)
     IN  /\ v9' = b.val
         /\ pos' = b.next
         /\ buffer' = [buffer EXCEPT ![v8] = b.val]
         /\ tokens' = Append(tokens, [len |-> 0, val |-> b.val])
  /\ v8' = v8 + 1
  /\ apc' = "flag"
  /\ UNCHANGED <<v95, v96, v97, size>>
  /\ DecoderOnly

AnotherLiteral ==
  /\ apc = "flag" /\ Bit(pos) = 0
  /\ apc' = "literal" /\ pos' = pos + 1
  /\ UNCHANGED <<buffer, v8, v9, v95, v96, v97, tokens, size>>
  /\ DecoderOnly

EndCode ==
  /\ apc = "flag" /\ Bit(pos) = 1
  /\ LET l == Length(pos + 1)
     IN  l.val = END_CODE /\ pos' = l.next
  /\ Return(v8)
  /\ UNCHANGED <<buffer, v8, v9, v95, v96, v97, tokens>>
  /\ DecoderOnly

(* Faulty: a match may fill the buffer, and its last byte is not counted.  *)
FitsAlmost(end) == max_len >= end

(* v5 is above the end of the copy: there is room for the byte after it.   *)
Fits(end) == max_len > end

(* A match.  A distance beyond the output ends the decoding (0x80560200;   *)
(* unarzl takes that for a length, and what follows is not modelled).      *)
Match ==
  /\ apc = "flag" /\ Bit(pos) = 1
  /\ LET l == Length(pos + 1)
         d == Distance(l.next, l.val)
     IN  /\ l.val # END_CODE
         /\ pos' = d.next
         /\ IF v8 <= d.val
              THEN apc' = "corrupt" /\ UNCHANGED <<v9, v95, v96, v97, tokens>>
              ELSE /\ v95' = v8 /\ v96' = v8 + l.val
                   /\ v97' = -(d.val + 1)
                   /\ v9' = buffer[v8 - (d.val + 1)]
                   /\ IF Fits(v8 + l.val)
                        THEN apc' = "copy" /\ tokens' =
                               Append(tokens, [len |-> l.val, val |-> d.val])
                        ELSE apc' = "full" /\ UNCHANGED tokens
  /\ UNCHANGED <<buffer, v8, size>>
  /\ DecoderOnly

(* One round of the copy.  The source is read after the write, so a match  *)
(* may overlap itself.                                                     *)
CopyByte ==
  /\ apc = "copy" /\ v95 # v96
  /\ buffer' = [buffer EXCEPT ![v95] = v9]
  /\ v9' = buffer'[v95 + 1 + v97]
  /\ v95' = v95 + 1
  /\ UNCHANGED <<pos, apc, v8, v96, v97, tokens, size>>
  /\ DecoderOnly

(* The byte that was read last is written by the head of the loop.         *)
LastByte ==
  /\ apc = "copy" /\ v95 = v96
  /\ buffer' = [buffer EXCEPT ![v95] = v9]
  /\ v8' = v95 + 1
  /\ apc' = "flag"
  /\ UNCHANGED <<pos, v9, v95, v96, v97, tokens, size>>
  /\ DecoderOnly

------------------------------------------------------------------------------
ArzlInit ==
  /\ stored \in -1 .. MaxStored
  /\ stream \in [1 .. StreamBits -> {0, 1}]
  /\ stored >= 0 => stream = [b \in 1 .. StreamBits |-> 0]
  /\ pos = 0 /\ apc = "full" /\ max_len = InSize
  /\ buffer = [b \in {} |-> Unset]
  /\ v8 = 0 /\ v9 = 0 /\ v95 = 0 /\ v96 = 0 /\ v97 = 0
  /\ tokens = <<>> /\ size = 0

ArzlNext ==
  \/ Attempt \/ Stored \/ BufferFull \/ Literal \/ AnotherLiteral
  \/ EndCode \/ Match \/ CopyByte \/ LastByte

ArzlSpec == ArzlInit /\ [][ArzlNext]_arzlVars

------------------------------------------------------------------------------
(* The format, as an encoder would have it: the binary digits of a number  *)
(* below its leading one, and what a token stands for.                     *)
Log(n) == CHOOSE k \in 0 .. n : Pow2(k) <= n /\ n < Pow2(k + 1)
Digits(n, k) == [j \in 1 .. k |-> (n \div Pow2(k - j)) % 2]
Ones(k) == [j \in 1 .. k |-> 1]

CodeOfLength(l) ==
  IF l = 1 THEN <<0>>
  ELSE Ones(Log(l)) \o (IF Log(l) > LenClasses THEN <<>> ELSE <<0>>)
                    \o Digits(l, Log(l))

CodeOfDistance(l, d) ==
  Digits(Log(d + 1), IF l \in {1, 2} THEN ShortSlots ELSE LongSlots)
  \o Digits(d + 1, Log(d + 1))

(* A literal is preceded by a 0 unless it is the first.                    *)
CodeOf(t, k) ==
  IF t.len = 0 THEN (IF k = 1 THEN <<>> ELSE <<0>>) \o Digits(t.val, LitBits)
  ELSE <<1>> \o CodeOfLength(t.len) \o CodeOfDistance(t.len, t.val)

(* A match of length l stands for l + 1 bytes that repeat the last d + 1.  *)
Meaning(text, t) ==
  IF t.len = 0 THEN <<t.val>>
  ELSE [k \in 1 .. (t.len + 1) |->
          text[Len(text) - t.val + ((k - 1) % (t.val + 1))]]

(* What tokens stand for and how they are written, one token at a time.    *)
Coder(ts) ==
  LET c[k \in 0 .. Len(ts)] ==
        IF k = 0 THEN [text |-> <<>>, code |-> <<>>]
        ELSE LET s == c[k - 1]
             IN  [text |-> s.text \o Meaning(s.text, ts[k]),
                  code |-> s.code \o CodeOf(ts[k], k)]
  IN  c[Len(ts)]

Expand(ts) == Coder(ts).text
Encode(ts) == Coder(ts).code

Output == [k \in 1 .. v8 |-> buffer[k - 1]]

(* Between two tokens the buffer holds exactly what the tokens stand for,  *)
(* and the bits used so far are exactly their code: whatever is left in    *)
(* the buffer by an attempt that had too little room, and however a match  *)
(* overlaps the bytes it produces.  No byte is written behind the buffer.  *)
DecodedInPlace ==
  /\ v8 <= max_len
  /\ apc = "flag" =>
       /\ Output = Expand(tokens)
       /\ Len(Encode(tokens)) = pos
       /\ \A k \in 1 .. pos : Bit(k - 1) = Encode(tokens)[k]
  /\ apc = "done" => [k \in 1 .. size |-> buffer[k - 1]] = Expand(tokens)
=============================================================================
