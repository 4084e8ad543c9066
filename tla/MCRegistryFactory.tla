------------------------- MODULE MCRegistryFactory -------------------------
(* RegistryFactory for TLC: metadata in which the same lookup indices mean    *)
(* different types, some of which cannot be built.                            *)
EXTENDS RegistryMeaning, RuntimeTypes

Calls(call, error, event) == [call |-> call, error |-> error, event |-> event]
OnePallet == <<Pallet(0, Calls(11, 12, 10)), Pallet(1, Calls(None, None, 10))>>

\* An enum that contains itself, directly and in a slice, and a struct with it.
Recursive == Meta(
  (1 :> Primitive("u8")) @@ (2 :> SequenceOf(3)) @@ (4 :> Composite(<<3, 1>>))
  @@ (3 :> Variants(<<Case(0, <<>>), Case(1, <<2>>), Case(4, <<1, 3>>)>>))
  @@ (7 :> Primitive("u8"))
  @@ (10 :> Variants(<<Case(0, <<4>>), Case(1, <<2, 7>>)>>))
  @@ (11 :> Variants(<<Case(0, <<3, 7>>), Case(4, <<>>)>>))
  @@ (12 :> Variants(<<Case(0, <<2>>)>>)), OnePallet)

\* Two structs that contain each other, in an option and in a slice; tuples,
\* arrays, bit sequences and Compact.
Mutual == Meta(
  (1 :> Primitive("u16")) @@ (2 :> Composite(<<5, 4>>)) @@ (3 :> Composite(<<1, 6>>))
  @@ (4 :> SequenceOf(3)) @@ (5 :> CompactOf(8))
  @@ (6 :> Variants(<<Case(0, <<>>), Case(1, <<2>>)>>))
  @@ (7 :> BitSequence(9, 13)) @@ (8 :> Composite(<<1>>)) @@ (9 :> Primitive("u8"))
  @@ (13 :> OrderType("Lsb0")) @@ (14 :> TupleDef(<<9, 15>>)) @@ (15 :> ArrayOf(2, 16))
  @@ (16 :> TupleDef(<<>>)) @@ (17 :> BitSequence(9, 13)) @@ (18 :> CompactOf(16))
  @@ (10 :> Variants(<<Case(0, <<3>>), Case(1, <<14, 17>>)>>))
  @@ (11 :> Variants(<<Case(0, <<2>>), Case(1, <<7, 18>>)>>))
  @@ (12 :> Variants(<<Case(0, <<5, 14>>)>>)), OnePallet)

\* The types of Recursive, but events reach an index that is missing after a
\* recursion was begun, calls are not an enum, and errors have a bit sequence
\* without an order.
Broken == Meta(
  (1 :> Primitive("u8")) @@ (2 :> BitSequence(1, 1)) @@ (4 :> SequenceOf(3))
  @@ (3 :> Variants(<<Case(0, <<1>>), Case(1, <<3, 4, 99>>)>>))
  @@ (10 :> Variants(<<Case(0, <<3>>)>>)) @@ (11 :> Primitive("u8"))
  @@ (12 :> Variants(<<Case(0, <<1, 2>>)>>)), OnePallet)

\* Calls and errors of Recursive with a Compact of what has no compact form.
Half == Meta(
  (1 :> Primitive("u8")) @@ (2 :> CompactOf(3)) @@ (3 :> Variants(<<Case(1, <<3, 1>>)>>))
  @@ (10 :> Variants(<<Case(0, <<3>>)>>)) @@ (11 :> Variants(<<Case(0, <<3, 2>>)>>))
  @@ (12 :> Variants(<<Case(0, <<1>>), Case(1, <<3>>)>>)), OnePallet)

MCMetadata == {Recursive, Mutual, Broken, Half}

\* Lookup index 7 has an override, which is itself a RecursiveDecoder.
MCOverrides == 7 :> RecursiveDecoder(7)
MCTargets == 7 :> ValueDecoder(U16)

\* Tags, lengths of none and one, values; and longer streams with nested values.
MCStreams == UNION {[1..n -> {0, 1, 4}] : n \in 0..3} \cup
  { <<1, 8, 4, 9, 0, 0>>, <<1, 4, 1, 4, 4, 7, 0, 3>>, <<5, 0, 1, 4, 4, 2, 3, 0>> }

Block(meta, kind, calls) == [meta |-> meta, kind |-> kind, calls |-> calls]
Call(id, args) == [id |-> id, args |-> args]

MCBlocks ==
  { Block(Recursive, "event", <<Call(<<0, 0>>, <<1, 8, 0, 4, 9, 0, 3>>),
                                Call(<<1, 1>>, <<4, 0, 6, 7>>)>>),
    Block(Recursive, "call", <<Call(<<0, 4>>, <<>>), Call(<<0, 0>>, <<4, 5, 0, 1, 2>>)>>),
    Block(Mutual, "event", <<Call(<<1, 0>>, <<1, 2, 1, 8, 4, 3, 0, 0>>),
                             Call(<<0, 1>>, <<5, 40, 128, 1>>)>>),
    Block(Mutual, "call", <<Call(<<0, 0>>, <<4, 4, 2, 1, 0>>)>>) }

=============================================================================
