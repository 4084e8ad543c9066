--------------------------- MODULE RegistryMeaning ---------------------------
(***************************************************************************)
(* What metadata means, without any storage, and that the registries of    *)
(* RegistryFactory agree with it.  The nodes of the type graph are types   *)
(* as fields, as items of tuples, arrays and slices, and inside of a       *)
(* Compact.                                                                *)
(***************************************************************************)
EXTENDS RegistryFactory

CONSTANT Streams   \* bytes to decode

Node(t, mode) == [t |-> t, mode |-> mode]
NodesOf(ts, mode) == [i \in DOMAIN ts |-> Node(ts[i], mode)]

Children(meta, node) ==
  LET def == meta.types[node.t]
  IN  CASE node.t \notin DOMAIN meta.types -> {}
        [] node.mode = "field" /\ node.t \in DOMAIN Overrides -> {}
        [] def.kind = "composite" ->
             Range(NodesOf(def.fields, IF node.mode = "compact" THEN "compact" ELSE "field"))
        [] def.kind \in {"tuple", "array", "sequence"} ->
             Range(NodesOf(Inner(def), IF node.mode = "compact" THEN "compact" ELSE "item"))
        [] def.kind = "variant" ->
             UNION {Range(NodesOf(def.variants[v].fields, "field")) : v \in DOMAIN def.variants}
        [] def.kind = "compact" -> {Node(def.item, "compact")}
        [] OTHER -> {}

RECURSIVE Reachable(_, _)
Reachable(meta, S) ==
  LET T == S \cup UNION {Children(meta, node) : node \in S}
  IN  IF T = S THEN S ELSE Reachable(meta, T)

\* A type that a decoder can be built for.
Supported(meta, node) ==
  LET def == meta.types[node.t]
  IN  /\ node.t \in DOMAIN meta.types
      /\ \/ node.mode = "field" /\ node.t \in DOMAIN Overrides
         \/ node.mode = "compact" /\ def.kind \in {"primitive", "tuple", "composite"}
         \/ node.mode # "compact" /\ def.kind # "bits"
         \/ /\ node.mode # "compact" /\ def.kind = "bits"
            /\ {def.store, def.order} \subseteq DOMAIN meta.types
            /\ meta.types[def.store] = Primitive("u8")
            /\ meta.types[def.order] \in {OrderType("Lsb0"), OrderType("Msb0")}

\* The variants that a registry of the kind is about, by their ids.
PalletTypes(meta, kind) ==
  {p \in DOMAIN meta.pallets : meta.pallets[p].types[kind] # None}
VariantsOf(meta, p, kind) == meta.types[meta.pallets[p].types[kind]].variants
Described(meta, kind) ==
  /\ \A p \in PalletTypes(meta, kind) :
       LET t == meta.pallets[p].types[kind]
       IN  t \in DOMAIN meta.types /\ meta.types[t].kind = "variant"
  /\ \A p \in PalletTypes(meta, kind) : \A v \in DOMAIN VariantsOf(meta, p, kind) :
       \A node \in Reachable(meta, Range(NodesOf(VariantsOf(meta, p, kind)[v].fields, "field"))) :
         Supported(meta, node)

\* Values of types: of a primitive or overridden type, the items of a vector or an
\* array, the fields of a struct or a tuple, a variant with its fields, and a bit
\* sequence with its length and the bits of all its bytes in their order.
Leaf(v) == [k |-> "leaf", v |-> v]
Items(vs) == [k |-> "items", vs |-> vs]
Fields(ts, vs) == [k |-> "fields", ts |-> ts, vs |-> vs]
Variant(tag, of) == [k |-> "variant", tag |-> tag, of |-> of]
Bits(n, bits) == [k |-> "bits", n |-> n, bits |-> bits]

\* Encodings that are legal and that the code refuses: a bit sequence of length
\* zero and a Compact of the empty tuple.
Refused == [st |-> "refused"]

\* The bits of bytes: Lsb0 starts with the lowest bit of a byte, Msb0 with the highest.
BitsOf(order, bytes) ==
  [i \in 1..(8 * Len(bytes)) |->
     LET at == (i - 1) % 8
     IN  (bytes[1 + ((i - 1) \div 8)] \div 2^(IF order = "Lsb0" THEN at ELSE 7 - at)) % 2]

RECURSIVE Meaning(_, _, _), Meanings(_, _, _), AsFields(_, _, _, _)

\* The value of a type in a stream.
Meaning(meta, node, w) ==
  LET def == meta.types[node.t]
      compact == node.mode = "compact"
      type == IF compact THEN UCompact ELSE getPrimitiveDecoder(def.prim)
      mode == IF compact THEN "compact" ELSE IF def.kind = "composite" THEN "field" ELSE "item"
      cases == {v \in Range(def.variants) : w # <<>> /\ v.index = w[1]}
      leaf(r) == After(r, LAMBDA x : Ok(Leaf(x.v), x.rest))
      items(n, rest) ==
        After(Meanings(meta, [i \in 1..n |-> Node(def.item, "item")], rest), LAMBDA r :
          Ok(Items(r.v), r.rest))
  IN  CASE node.mode = "field" /\ node.t \in DOMAIN Overrides ->
             leaf(FieldDecode(Overrides[node.t], Targets, w))
        [] compact /\ def.kind = "tuple" /\ def.items = <<>> -> Refused
        [] def.kind = "primitive" -> leaf(Decode(type, w, Default(type)))
        [] def.kind = "compact" -> Meaning(meta, Node(def.item, "compact"), w)
        [] def.kind \in {"composite", "tuple"} -> AsFields(meta, Inner(def), mode, w)
        [] def.kind = "array" -> items(def.len, w)
        [] def.kind = "sequence" ->
             After(DecodeUintCompact(w), LAMBDA n : items(ToUint(n.v), n.rest))
        [] def.kind = "bits" ->
             After(DecodeUintCompact(w), LAMBDA n :
               IF ToUint(n.v) = 0 THEN Refused
               ELSE After(Read((ToUint(n.v) + 7) \div 8, n.rest), LAMBDA bytes :
                      Ok(Bits(ToUint(n.v), BitsOf(meta.types[def.order].path, bytes.v)), bytes.rest)))
        [] def.kind = "variant" ->
             IF cases = {} THEN Fail
             ELSE After(AsFields(meta, (CHOOSE v \in cases : TRUE).fields, "field", Tail(w)),
                        LAMBDA r : Ok(Variant(w[1], r.v), r.rest))

Meanings(meta, nodes, w) ==
  IF nodes = <<>> THEN Ok(<<>>, w)
  ELSE After(Meaning(meta, nodes[1], w), LAMBDA first :
         After(Meanings(meta, Tail(nodes), first.rest), LAMBDA rest :
           Ok(<<first.v>> \o rest.v, rest.rest)))

AsFields(meta, ts, mode, w) ==
  After(Meanings(meta, NodesOf(ts, mode), w), LAMBDA r : Ok(Fields(ts, r.v), r.rest))

\* What a decoder of the registry returns of a value.  It leaves out the tag of a
\* variant that has fields and the length of a bit sequence, whose bits it packs
\* into bytes with the first bit as the highest.
RECURSIVE Returned(_)
Returned(x) ==
  CASE x.k = "leaf" -> x.v
    [] x.k = "items" -> [i \in DOMAIN x.vs |-> Returned(x.vs[i])]
    [] x.k = "fields" -> [i \in DOMAIN x.ts |-> DecodedField(x.ts[i], Returned(x.vs[i]))]
    [] x.k = "variant" -> IF x.of.ts = <<>> THEN <<x.tag>> ELSE Returned(x.of)
    [] x.k = "bits" -> [j \in 1..(Len(x.bits) \div 8) |->
                          MapThenSumSet(LAMBDA i : x.bits[8 * (j - 1) + i] * 2^(8 - i), 1..8)]

\* The fields of a call, error or event in a stream.
VariantMeaning(meta, kind, id, w) ==
  LET p == CHOOSE p \in PalletTypes(meta, kind) : meta.pallets[p].index = id[1]
      v == CHOOSE v \in Range(VariantsOf(meta, p, kind)) : v.index = id[2]
  IN  AsFields(meta, v.fields, "field", w)

-----------------------------------------------------------------------------

\* Whatever was built before, and failed before, Create succeeds exactly when
\* every type that the calls, errors or events reach is there and supported;
\* recursive types are.
CreateSucceedsIffDescribed ==
  \A kind \in Kinds : LET reg == registry[kind] IN
    reg.meta # Nil => (reg.ok <=> Described(reg.meta, kind))

\* The RecursiveDecoders inside of a decoder.
RECURSIVE RecursiveIn(_)
RecursiveIn(d) ==
  CASE d.k = "rec" -> {d.to}
    [] d.k = "variant" -> UNION {RecursiveIn(d.map[i]) : i \in DOMAIN d.map}
    [] d.k \in {"array", "slice"} -> RecursiveIn(d.item)
    [] d.k = "composite" -> UNION {RecursiveIn(d.fields[i].d) : i \in DOMAIN d.fields}
    [] OTHER -> {}

\* The RecursiveDecoders in a registry point to decoders and not to each other:
\* decoding never ends at one that was left open, and never runs in a circle.
RecursionResolved ==
  \A kind \in Kinds :
    LET reg == registry[kind]
        inside == {CompositeDecoder(reg.entries[id]) : id \in DOMAIN reg.entries}
                    \cup Range(reg.heap)
    IN  \A t \in UNION {RecursiveIn(d) : d \in inside} : reg.heap[t].k \notin {"nil", "rec"}

\* What the code decoded is what the metadata says.
Agree(code, meaning) ==
  CASE meaning.st = "ok" -> code = Ok(Returned(meaning.v), meaning.rest)
    [] meaning.st = "refused" -> code = Fail
    [] OTHER -> code = meaning

\* Whatever was built before, the decoders of a registry take from every stream the
\* bytes that its own metadata says, and return the value, recursive types and
\* overridden fields included, but for the tags that Returned leaves out; they
\* fail where the metadata allows no value, and where it allows an empty bit
\* sequence or a Compact of the empty tuple.
RegistryDecodesAsMetadata ==
  \A kind \in Kinds :
    LET reg == registry[kind]
    IN  \A id \in DOMAIN reg.entries : \A w \in Streams :
          Agree(FieldsDecode(reg.entries[id], reg.heap, w, <<>>), VariantMeaning(reg.meta, kind, id, w))

\* All events or extrinsics of a block are parsed, in their order and with the
\* meaning that the block's metadata gives their bytes, when the registry was
\* created for that metadata.
BlockParsed ==
  LET calls == parsed.block.calls
      meaning(i) == VariantMeaning(parsed.meta, parsed.kind, calls[i].id, calls[i].args)
  IN  parsed.meta = parsed.block.meta /\ parsed.kind # "" /\ parsed.kind = parsed.block.kind =>
        /\ parsed.result.st = "ok"
        /\ parsed.result.v = [i \in DOMAIN calls |-> Event(calls[i].id, Returned(meaning(i).v))]

=============================================================================
