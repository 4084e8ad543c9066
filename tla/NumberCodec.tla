----------------------------- MODULE NumberCodec -----------------------------
(***************************************************************************)
(* Integers of arbitrary size on the wire: UCompact, and U128, U256, I128, *)
(* I256 of types/uint.go and types/int.go, which are big.Ints that are     *)
(* fitted into a number of bytes.  The code is the same for every number   *)
(* of bytes, so that a small one shows all of its limits.                  *)
(***************************************************************************)
EXTENDS ScaleCompact, SequencesExt

CONSTANTS Lengths,      \* numbers of bytes
          BigInts,    \* values of U128 and the others
          Digits        \* values of UCompact, as digits

VARIABLES kind, len, num, pc, enc, dec

vars == <<kind, len, num, pc, enc, dec>>

\* What follows in the stream.
Trailer == <<255>>

-----------------------------------------------------------------------------

Magnitude(i) == IF i < 0 THEN -i ELSE i

\* big.Int.Bytes: the magnitude, most significant byte first, no leading zero.
BigBytes[m \in Nat] ==
  IF m = 0 THEN <<>> ELSE Append(BigBytes[m \div 256], m % 256)

\* big.Int.SetBytes
SetBytes(b) == FoldLeft(LAMBDA m, x : m * 256 + x, 0, b)

\* copy(res[len(res)-len(bs):], bs) into bytelen zeros; the index must not be
\* negative.
CopyRight(bs, bytelen) ==
  IF Len(bs) > bytelen THEN Panic
  ELSE Ok([i \in 1..bytelen - Len(bs) |-> 0] \o bs, <<>>)

Not(b) == [i \in DOMAIN b |-> 255 - b[i]]

BigIntToUintBytes(i, bytelen) ==
  IF i < 0 \/ i > 256 ^ bytelen THEN Fail ELSE CopyRight(BigBytes[i], bytelen)

UintBytesToBigInt(b) == SetBytes(b)

\* Mutant: the limit of the positive numbers is that of the negative ones.
BigIntToIntBytesSymmetric(i, bytelen) ==
  IF Magnitude(i) > 256 ^ bytelen \div 2 THEN Fail
  ELSE IF i >= 0 THEN CopyRight(BigBytes[i], bytelen)
  ELSE Ok(Not(CopyRight(BigBytes[Magnitude(i + 1)], bytelen).v), <<>>)

\* Mutant: the two's complement is taken of the number itself.
BigIntToIntBytesOnes(i, bytelen) ==
  LET maxNeg == 256 ^ bytelen \div 2
  IN  IF i >= 0 THEN IF i > maxNeg - 1 THEN Fail ELSE CopyRight(BigBytes[i], bytelen)
      ELSE IF Magnitude(i) > maxNeg THEN Fail
      ELSE Ok(Not(CopyRight(BigBytes[Magnitude(i)], bytelen).v), <<>>)

BigIntToIntBytes(i, bytelen) ==
  LET maxNeg == 256 ^ bytelen \div 2
  IN  IF i >= 0 THEN IF i > maxNeg - 1 THEN Fail ELSE CopyRight(BigBytes[i], bytelen)
      ELSE IF Magnitude(i) > maxNeg THEN Fail
      ELSE Ok(Not(CopyRight(BigBytes[Magnitude(i + 1)], bytelen).v), <<>>)

IntBytesToBigInt(b) ==
  IF b[1] < 128 THEN SetBytes(b) ELSE -(SetBytes(Not(b)) + 1)

-----------------------------------------------------------------------------

Init ==
  /\ \/ kind \in {"uint", "int"} /\ len \in Lengths /\ num \in BigInts
     \/ kind = "compact" /\ len = 0 /\ num \in Digits
  /\ pc = "encode" /\ enc = Fail /\ dec = Fail

\* U128.Encode, I128.Encode (big endian bytes, reversed) and UCompact.Encode.
EncodeNumber ==
  /\ pc = "encode"
  /\ enc' = LET r == IF kind = "uint" THEN BigIntToUintBytes(num, len)
                     ELSE BigIntToIntBytes(num, len)
            IN  IF kind = "compact" THEN EncodeUintCompact(num)
                ELSE IF r.st = "ok" THEN Ok(Reverse(r.v), <<>>) ELSE r
  /\ pc' = IF enc'.st = "ok" THEN "decode" ELSE "done"
  /\ UNCHANGED <<kind, len, num, dec>>

\* U128.Decode, I128.Decode and UCompact.Decode.
DecodeNumber ==
  /\ pc = "decode"
  /\ dec' = LET w == enc.v \o Trailer
                b == Reverse(SubSeq(w, 1, len))
                rest == SubSeq(w, len + 1, Len(w))
            IN  IF kind = "compact" THEN DecodeUintCompact(w)
                ELSE IF kind = "uint" THEN Ok(UintBytesToBigInt(b), rest)
                ELSE Ok(IntBytesToBigInt(b), rest)
  /\ pc' = "done"
  /\ UNCHANGED <<kind, len, num, enc>>

Next == EncodeNumber \/ DecodeNumber

Spec == Init /\ [][Next]_vars

-----------------------------------------------------------------------------

\* The numbers a type has room for.
InRange ==
  IF kind = "compact" THEN Len(num) <= 67
  ELSE IF kind = "uint" THEN num >= 0 /\ num < 256 ^ len
  ELSE num >= -(256 ^ len \div 2) /\ num < 256 ^ len \div 2

\* A number that has room is encoded, and decoding gives it back and takes
\* exactly the bytes that were written: for the compact form at the limits of
\* its four modes, for the fixed ones at both ends of the range.
NumberRoundTrip ==
  (pc = "done" /\ InRange) => dec = Ok(num, Trailer)

\* The compact form is the shortest one: a longer one that has the same value
\* would give the same collection two encodings.
CompactShortest ==
  (pc = "done" /\ kind = "compact" /\ InRange) =>
    Len(enc.v) = IF Len(num) = 0 \/ (Len(num) = 1 /\ num[1] < 64) THEN 1
                 ELSE IF Len(num) = 1 \/ (Len(num) = 2 /\ num[2] < 64) THEN 2
                 ELSE IF Len(num) < 4 \/ (Len(num) = 4 /\ num[4] < 64) THEN 4
                 ELSE Len(num) + 1

\* A signed or a compact number that has no room is an error.
OutOfRangeRefused ==
  (pc = "done" /\ ~InRange /\ kind # "uint") => enc = Fail

\* An unsigned number that has no room is an error.
UnsignedOutOfRangeRefused ==
  (pc = "done" /\ ~InRange /\ kind = "uint") => enc = Fail

=============================================================================
