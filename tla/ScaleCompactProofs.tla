-------------------------- MODULE ScaleCompactProofs --------------------------
(***************************************************************************)
(* The compact encoding of every number below 2^30.                        *)
(***************************************************************************)
EXTENDS ScaleCompact, TLAPS

\* A number and a mode in one byte, and back.
LEMMA FirstByte ==
  ASSUME NEW q \in 0..63, NEW m \in 0..2
  PROVE  /\ q * 4 + m \in Byte
         /\ (q * 4 + m) % 4 = m
         /\ (q * 4 + m) \div 4 = q
BY SMT DEF Byte

\* What EncodeSmall splits off a number: six bits, then bytes.
LEMMA Split ==
  ASSUME NEW v \in Nat
  PROVE  /\ v % 64 \in 0..63
         /\ v = (v % 64) + 64 * (v \div 64)
         /\ (v \div 64) % 256 \in Byte
         /\ (v \div 16384) % 256 \in Byte
         /\ v \div 64 = ((v \div 64) % 256) + 256 * ((v \div 16384) % 256) + 65536 * (v \div 4194304)
         /\ v < Mode1 => v \div 64 \in Byte
         /\ v < Mode2 => v \div 4194304 \in Byte
<1>1. v % 64 \in 0..63 /\ v = (v % 64) + 64 * (v \div 64)
  BY SMT
<1>2. (v \div 64) % 256 \in Byte /\ (v \div 16384) % 256 \in Byte
  BY SMT DEF Byte
<1>3. v \div 64 = ((v \div 64) % 256) + 256 * ((v \div 16384) % 256) + 65536 * (v \div 4194304)
  BY SMT
<1>4. v < Mode1 => v \div 64 \in Byte
  BY SMT DEF Byte, Mode1
<1>5. v < Mode2 => v \div 4194304 \in Byte
  BY SMT DEF Byte, Mode2
<1> QED
  BY <1>1, <1>2, <1>3, <1>4, <1>5

\* Every number below 2^30 is written as bytes, the first of which announces
\* how many there are.
THEOREM CompactSelfDelimiting ==
  ASSUME NEW v \in Nat, v < Mode2
  PROVE  /\ EncodeSmall(v) \in Seq(Byte)
         /\ Len(EncodeSmall(v)) = CompactLen(EncodeSmall(v)[1])
<1>1. CASE v < Mode0
  <2>1. v * 4 \in Byte /\ (v * 4) % 4 = 0
    BY <1>1, SMT DEF Mode0, Byte
  <2> QED
    BY <1>1, <2>1, SMT DEF EncodeSmall, CompactLen
<1>2. CASE ~(v < Mode0) /\ v < Mode1
  <2>1. /\ (v % 64) * 4 + 1 \in Byte /\ v \div 64 \in Byte
        /\ ((v % 64) * 4 + 1) % 4 = 1
    <3>1. v % 64 \in 0..63 /\ 1 \in 0..2
      BY Split, SMT
    <3>2. (v % 64) * 4 + 1 \in Byte /\ ((v % 64) * 4 + 1) % 4 = 1
      BY <3>1, FirstByte, Zenon
    <3> QED
      BY <1>2, <3>2, Split
  <2> QED
    BY <1>2, <2>1, SMT DEF EncodeSmall, CompactLen
<1>3. CASE ~(v < Mode0) /\ ~(v < Mode1)
  <2>1. /\ (v % 64) * 4 + 2 \in Byte /\ (v \div 64) % 256 \in Byte
        /\ (v \div 16384) % 256 \in Byte /\ v \div 4194304 \in Byte
        /\ ((v % 64) * 4 + 2) % 4 = 2
    <3>1. v % 64 \in 0..63 /\ 2 \in 0..2
      BY Split, SMT
    <3>2. (v % 64) * 4 + 2 \in Byte /\ ((v % 64) * 4 + 2) % 4 = 2
      BY <3>1, FirstByte, Zenon
    <3> QED
      BY <3>2, Split
  <2> QED
    BY <1>3, <2>1, SMT DEF EncodeSmall, CompactLen
<1> QED
  BY <1>1, <1>2, <1>3

\* DecodeUintCompact gives back every number below 2^30 that
\* EncodeUintCompact has written.
THEOREM CompactRoundTrip ==
  ASSUME NEW v \in Nat, v < Mode2
  PROVE  DecodeSmall(EncodeSmall(v)) = v
<1>1. CASE v < Mode0
  BY <1>1, SMT DEF EncodeSmall, DecodeSmall, Mode0
<1>2. CASE ~(v < Mode0) /\ v < Mode1
  BY <1>2, Split, FirstByte, SMT DEF EncodeSmall, DecodeSmall
<1>3. CASE ~(v < Mode0) /\ ~(v < Mode1)
  BY <1>3, Split, FirstByte, SMT DEF EncodeSmall, DecodeSmall, Value
<1> QED
  BY <1>1, <1>2, <1>3

=============================================================================
