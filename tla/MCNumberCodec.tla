---------------------------- MODULE MCNumberCodec ----------------------------
(***************************************************************************)
(* The limits of numbers of one and two bytes with their neighbours, and   *)
(* the limits of the modes of the compact form.                            *)
(***************************************************************************)
EXTENDS NumberCodec

Around(x) == x - 2..x + 2

MCBigInts ==
  -300..300 \cup Around(-65536) \cup Around(-32768) \cup Around(32768) \cup Around(65536)

Long(n) == [i \in 1..n |-> i]

MCDigits ==
  {FromUint(v) : v \in 0..70 \cup 250..260 \cup Around(16384) \cup Around(65536)
                       \cup Around(16777216) \cup 1073741820..1073741823}
  \cup {<<0, 0, 0, 64>>, <<255, 255, 255, 255>>}
  \cup {Long(n) : n \in {5, 8, 9, 16, 17, 32, 66, 67, 68, 100}}

=============================================================================
