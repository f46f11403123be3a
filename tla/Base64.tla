------------------------------ MODULE Base64 --------------------------------
(***************************************************************************)
(* base64_util.h, which carries the bytes of a token over the line based   *)
(* socket.  Characters are their index in the alphabet, and Pad is '='.    *)
(*                                                                         *)
(* Both loops push bits into an int that is never cleared, so it wraps     *)
(* after four bytes; it is kept here as its two 16-bit halves, because     *)
(* 2^32 is beyond TLC's integers.                                          *)
(***************************************************************************)
EXTENDS Integers, Sequences

CONSTANTS Bytes,   \* the bytes of the tokens to try
          MaxLen   \* bound: bytes in a token

ASSUME Base64Assumption == Bytes \subseteq 0 .. 255 /\ MaxLen \in Nat

Pad == 64

(* (val << s) + c modulo 2^32.                                             *)
Push(val, s, c) ==
  [hi |-> (val.hi * 2^s + val.lo \div 2^(16 - s)) % 2^16,
   lo |-> ((val.lo * 2^s) % 2^16) + c]

(* (val >> s) & (2^n - 1), where the sign of val does not reach.           *)
Bits(val, s, n) == (val.lo \div 2^s + (val.hi % 2^s) * 2^(16 - s)) % 2^n

Start(valb) == [val |-> [hi |-> 0, lo |-> 0], valb |-> valb, out |-> <<>>]

(* One byte into the encoder, and out of it all the sextets it completes.  *)
EncodeByte(st, c) ==
  LET val  == Push(st.val, 8, c)
      valb == st.valb + 8
      n    == IF valb >= 0 THEN valb \div 6 + 1 ELSE 0
  IN  [val |-> val, valb |-> valb - 6 * n,
       out |-> st.out \o [i \in 1 .. n |-> Bits(val, valb - 6 * (i - 1), 6)]]

(* Mutant of EncodeTail: two left-over bits are dropped.                   *)
EncodeTailShort(st) ==
  IF st.valb > -4 THEN Append(st.out, Bits(Push(st.val, 8, 0), st.valb + 8, 6)) ELSE st.out

EncodeTail(st) ==
  IF st.valb > -6 THEN Append(st.out, Bits(Push(st.val, 8, 0), st.valb + 8, 6)) ELSE st.out

Padded(out) == out \o [i \in 1 .. (-Len(out)) % 4 |-> Pad]

base64Encode(in) ==
  LET st[i \in 0 .. Len(in)] ==
        IF i = 0 THEN Start(-6) ELSE EncodeByte(st[i - 1], in[i])
  IN  Padded(EncodeTail(st[Len(in)]))

(* Mutant of DecodeChar: padding is not skipped.                           *)
DecodeCharPads(st, c) ==
  LET val  == Push(st.val, 6, c % 64)
      valb == st.valb + 6
  IN  [val |-> val,
       valb |-> IF valb >= 0 THEN valb - 8 ELSE valb,
       out |-> IF valb >= 0 THEN Append(st.out, Bits(val, valb, 8)) ELSE st.out]

(* One character into the decoder; one outside the alphabet is skipped.    *)
DecodeChar(st, c) ==
  LET val  == Push(st.val, 6, c)
      valb == st.valb + 6
  IN  IF c = Pad THEN st
      ELSE [val |-> val,
            valb |-> IF valb >= 0 THEN valb - 8 ELSE valb,
            out |-> IF valb >= 0 THEN Append(st.out, Bits(val, valb, 8)) ELSE st.out]

base64Decode(in) ==
  LET st[i \in 0 .. Len(in)] ==
        IF i = 0 THEN Start(-8) ELSE DecodeChar(st[i - 1], in[i])
  IN  st[Len(in)].out

-----------------------------------------------------------------------------
(* Every token over Bytes up to MaxLen is tried.                           *)
VARIABLE token

Base64Init == token = <<>>
Base64Next ==
  \/ Len(token) < MaxLen /\ \E c \in Bytes : token' = Append(token, c)
  \/ Len(token) = MaxLen /\ token' = <<>>
Base64Spec == Base64Init /\ [][Base64Next]_token

(* The reference, from the definition of base64: the input as one string   *)
(* of bits, cut into sextets, the last filled with zero bits, and padded   *)
(* to whole groups of four.                                                *)
BitOf(in, k) ==
  IF k < 8 * Len(in) THEN (in[k \div 8 + 1] \div 2^(7 - (k % 8))) % 2 ELSE 0

Sextet(in, i) ==
  32 * BitOf(in, 6*i) + 16 * BitOf(in, 6*i + 1) + 8 * BitOf(in, 6*i + 2)
    + 4 * BitOf(in, 6*i + 3) + 2 * BitOf(in, 6*i + 4) + BitOf(in, 6*i + 5)

Reference(in) ==
  [i \in 1 .. 4 * ((Len(in) + 2) \div 3) |->
     IF 6 * (i - 1) < 8 * Len(in) THEN Sextet(in, i - 1) ELSE Pad]

(* base64Encode is base64, whatever bits the accumulator has shifted out,  *)
(* and so has the length that its reserve computes.                        *)
EncodeIsBase64 == base64Encode(token) = Reference(token)

(* The client prints the bytes that the engine produced: decoding undoes   *)
(* encoding for every token, long after the accumulator has wrapped.       *)
RoundTrip == base64Decode(base64Encode(token)) = token

=============================================================================
