----------------------------- MODULE ScaleCompact -----------------------------
(***************************************************************************)
(* EncodeUintCompact and DecodeUintCompact of scale/codec.go, on bytes.    *)
(*                                                                         *)
(* A big.Int is given by its digits in base 256, least significant first   *)
(* and without trailing zeros: big.Int.Bytes() after Reverse.  Numbers     *)
(* below 2^30 are also handled as integers, as the code does with uint64.  *)
(***************************************************************************)
EXTENDS Integers, Sequences

Byte == 0..255

\* The modes in the two lowest bits of the first byte, and their bounds.
Mode0 == 64
Mode1 == 16384
Mode2 == 1073741824

\* The four smallest bytes of a number as a number (below 2^30: no overflow).
Value(b0, b1, b2, b3) == b0 + 256 * b1 + 65536 * b2 + 16777216 * b3

-----------------------------------------------------------------------------

\* Mutant: 64 is still written in one byte.
EncodeSmallOffByOne(v) ==
  IF v <= Mode0 THEN << (v * 4) % 256 >>
  ELSE IF v < Mode1 THEN << (v % 64) * 4 + 1, v \div 64 >>
  ELSE << (v % 64) * 4 + 2, (v \div 64) % 256, (v \div 16384) % 256, v \div 4194304 >>

\* EncodeUintCompact below 2^30: byte(v << 2), or the bytes of the uint16
\* v << 2 + 1 or of the uint32 v << 2 + 2, least significant first.
EncodeSmall(v) ==
  IF v < Mode0 THEN << v * 4 >>
  ELSE IF v < Mode1 THEN << (v % 64) * 4 + 1, v \div 64 >>
  ELSE << (v % 64) * 4 + 2, (v \div 64) % 256, (v \div 16384) % 256, v \div 4194304 >>

\* DecodeUintCompact in the modes 0, 1 and 2, when the bytes are there.
DecodeSmall(w) ==
  IF w[1] % 4 = 0 THEN w[1] \div 4
  ELSE IF w[1] % 4 = 1 THEN w[2] * 64 + w[1] \div 4
  ELSE w[1] \div 4 + 64 * Value(w[2], w[3], w[4], 0)

\* How many bytes DecodeUintCompact takes, by the first one.
CompactLen(b) ==
  IF b % 4 = 3 THEN b \div 4 + 5 ELSE <<1, 2, 4>>[(b % 4) + 1]

-----------------------------------------------------------------------------

\* v.IsUint64() and v < 1 << 30.
IsSmall(d) == Len(d) < 4 \/ (Len(d) = 4 /\ d[4] < 64)

Digit(d, i) == IF i <= Len(d) THEN d[i] ELSE 0

\* big.Int.Uint64 of a number below 2^30, and big.Int.SetUint64.
ToUint(d) == Value(Digit(d, 1), Digit(d, 2), Digit(d, 3), Digit(d, 4))

FromUint(v) ==
  IF v = 0 THEN <<>>
  ELSE IF v < 256 THEN <<v>>
  ELSE IF v < 65536 THEN <<v % 256, v \div 256>>
  ELSE IF v < 16777216 THEN <<v % 256, (v \div 256) % 256, v \div 65536>>
  ELSE <<v % 256, (v \div 256) % 256, (v \div 65536) % 256, v \div 16777216>>

\* big.Int.SetBytes of a reversed buffer: leading zeros of the number go.
Trim(w) == SubSeq(w, 1, CHOOSE n \in 0..Len(w) :
                          /\ \A i \in n + 1..Len(w) : w[i] = 0
                          /\ n > 0 => w[n] # 0)

\* A result of a decoder: the value and the bytes that are left, an error, or
\* a panic.
Ok(v, rest) == [st |-> "ok", v |-> v, rest |-> rest]
Fail == [st |-> "err"]
Panic == [st |-> "panic"]

\* EncodeUintCompact.  A number of more than 67 bytes is refused.
EncodeUintCompact(d) ==
  IF IsSmall(d) THEN Ok(EncodeSmall(ToUint(d)), <<>>)
  ELSE IF Len(d) > 67 THEN Fail
  ELSE Ok(<< (Len(d) - 4) * 4 + 3 >> \o d, <<>>)

\* DecodeUintCompact.  Decoder.Read fails when bytes are missing.
DecodeUintCompact(w) ==
  IF w = <<>> \/ Len(w) < CompactLen(w[1]) THEN Fail
  ELSE LET n == CompactLen(w[1])
           rest == SubSeq(w, n + 1, Len(w))
       IN  IF w[1] % 4 = 3
             THEN Ok(Trim(SubSeq(w, 2, n)), rest)
             ELSE Ok(FromUint(DecodeSmall(w)), rest)

=============================================================================
