--------------------------- MODULE RegistryFactory ---------------------------
(***************************************************************************)
(* registry/factory.go: a factory builds decoders for the calls, errors    *)
(* and events that metadata describes, and registry/parser uses them.  The *)
(* types of metadata form a graph with cycles; pointers to a               *)
(* RecursiveDecoder are given by the lookup index they were created for.   *)
(***************************************************************************)
EXTENDS Scale, SequencesExt

CONSTANTS
  Metadata,    \* the metadata a registry can be asked for
  Overrides,   \* FieldOverride: [lookup index -> decoder]
  Targets,     \* what those of them that are RecursiveDecoders point to
  Blocks       \* blocks whose events or extrinsics are parsed

None == -1
Kinds == {"call", "error", "event"}

\* The type definitions of metadata (Si1TypeDef); path is the last part of the
\* type's path, which names a bit order.
Composite(fields) == [kind |-> "composite", fields |-> fields, path |-> ""]
OrderType(path) == [kind |-> "composite", fields |-> <<>>, path |-> path]
Variants(vs) == [kind |-> "variant", variants |-> vs]
Case(index, fields) == [index |-> index, fields |-> fields]
Primitive(p) == [kind |-> "primitive", prim |-> p]
ArrayOf(n, t) == [kind |-> "array", len |-> n, item |-> t]
SequenceOf(t) == [kind |-> "sequence", item |-> t]
TupleDef(items) == [kind |-> "tuple", items |-> items]
CompactOf(t) == [kind |-> "compact", item |-> t]
BitSequence(bitStore, order) == [kind |-> "bits", store |-> bitStore, order |-> order]

\* The types a struct, tuple, array or slice is made of.
Inner(def) ==
  CASE def.kind = "composite" -> def.fields
    [] def.kind = "tuple" -> def.items
    [] def.kind \in {"array", "sequence"} -> <<def.item>>

\* Pallets, by kind with the type of their calls, errors and events.
Pallet(index, types) == [index |-> index, types |-> types]
Meta(types, pallets) == [types |-> types, pallets |-> pallets]

\* The decoders.
Nil == [k |-> "nil"]
NoopDecoder == [k |-> "noop"]
ValueDecoder(type) == [k |-> "value", type |-> type]
AnyDecoder == [k |-> "any"]
VariantDecoder(map) == [k |-> "variant", map |-> map]
ArrayDecoder(n, item) == [k |-> "array", len |-> n, item |-> item]
SliceDecoder(item) == [k |-> "slice", item |-> item]
CompositeDecoder(fields) == [k |-> "composite", fields |-> fields]
RecursiveDecoder(t) == [k |-> "rec", to |-> t]
BitSequenceDecoder(order) == [k |-> "bits", order |-> order]
Field(t, d) == [lookup |-> t, d |-> d]

VARIABLES
  store,      \* the factory: its two maps and the RecursiveDecoders
  registry,   \* [Kinds -> what the last Create returned]
  parsed      \* what the last call returned, if a parser's

vars == <<store, registry, parsed>>

-----------------------------------------------------------------------------
(* Building decoders.  The storages are passed along; an error keeps them. *)

\* fs: fieldStorage; rs: the keys of recursiveFieldStorage; rc: what the
\* RecursiveDecoders point to.
Storage(fs, rs, rc) == [fs |-> fs, rs |-> rs, rc |-> rc]

\* Mutant: fieldStorage is not made anew.
resetStoragesKeepsFields(st) == Storage(Overrides @@ st.fs, {}, Targets @@ st.rc)

\* Mutant: recursiveFieldStorage is not made anew.
resetStoragesKeepsRecursive(st) == Storage(Overrides, st.rs, Targets @@ st.rc)

resetStorages(st) == Storage(Overrides, {}, Targets)

Built(d, st) == [ok |-> TRUE, d |-> d, st |-> st]
Err(st) == [ok |-> FALSE, d |-> Nil, st |-> st]

\* getPrimitiveDecoder
getPrimitiveDecoder(p) ==
  CASE p = "bool" -> Bool
    [] p \in {"char", "u8", "i8"} -> U8
    [] p \in {"u16", "i16"} -> U16
    [] p \in {"u32", "i32"} -> U32
    [] p \in {"u64", "i64"} -> U64
    [] p \in {"u128", "i128"} -> U128
    [] p \in {"u256", "i256"} -> Fixed(32)
    [] p = "str" -> Text

\* getBitSequenceDecoder; only composite types have a path here.
getBitSequenceDecoder(meta, def, st) ==
  LET types == meta.types
      order == IF def.order \in DOMAIN types /\ types[def.order].kind = "composite"
               THEN types[def.order].path ELSE ""
  IN  IF def.store \in DOMAIN types /\ types[def.store] = Primitive("u8") /\ order \in {"Lsb0", "Msb0"}
      THEN Built(BitSequenceDecoder(order), st) ELSE Err(st)

\* Go on with what was built, or return the error.
Then(r, next(_)) == IF r.ok THEN next(r) ELSE r
Wrapped(r, wrap(_)) == IF r.ok THEN Built(wrap(r.d), r.st) ELSE r

RECURSIVE getFieldDecoder(_, _, _), getTypeFields(_, _, _, _), getVariants(_, _, _, _),
          getItems(_, _, _, _), getCompactFieldDecoder(_, _, _), getCompactItems(_, _, _, _)

\* A field that is not stored, in getTypeFields: the RecursiveDecoder that
\* getStoredFieldDecoder stores is replaced by the decoder that was built.
NewField(meta, t, st) ==
  Then(getFieldDecoder(meta, meta.types[t],
         Storage((t :> RecursiveDecoder(t)) @@ st.fs, st.rs, (t :> Nil) @@ st.rc)),
       LAMBDA r : Built(r.d, [r.st EXCEPT !.fs[t] = r.d]))

\* getStoredFieldDecoder, when there is one.
StoredField(t, st) ==
  Built(st.fs[t], IF st.fs[t].k = "rec" THEN [st EXCEPT !.rs = @ \cup {t}] ELSE st)

\* The loops have in done what was built before.

\* getTypeFields
getTypeFields(meta, fields, st, done) ==
  IF fields = <<>> THEN Built(done, st)
  ELSE IF fields[1] \notin DOMAIN meta.types THEN Err(st)
  ELSE Then(IF fields[1] \in DOMAIN st.fs THEN StoredField(fields[1], st)
            ELSE NewField(meta, fields[1], st),
            LAMBDA r : getTypeFields(meta, Tail(fields), r.st, Append(done, Field(fields[1], r.d))))

\* The loop of getTupleFieldDecoder, and the items of arrays and slices: they are
\* not looked up in the storage.
getItems(meta, items, st, done) ==
  IF items = <<>> THEN Built(done, st)
  ELSE IF items[1] \notin DOMAIN meta.types THEN Err(st)
  ELSE Then(getFieldDecoder(meta, meta.types[items[1]], st),
            LAMBDA r : getItems(meta, Tail(items), r.st, Append(done, Field(items[1], r.d))))

\* Mutant: the decoders are stored by the position of their variant.
getVariantsByPosition(meta, vs, st, map) ==
  IF vs = <<>> THEN Built(VariantDecoder(map), st)
  ELSE Then(IF vs[1].fields = <<>> THEN Built(NoopDecoder, st)
            ELSE Wrapped(getTypeFields(meta, vs[1].fields, st, <<>>), CompositeDecoder),
            LAMBDA r : getVariants(meta, Tail(vs), r.st, (Cardinality(DOMAIN map) :> r.d) @@ map))

\* The loop of getVariantFieldDecoder over fieldDecoderMap.
getVariants(meta, vs, st, map) ==
  IF vs = <<>> THEN Built(VariantDecoder(map), st)
  ELSE Then(IF vs[1].fields = <<>> THEN Built(NoopDecoder, st)
            ELSE Wrapped(getTypeFields(meta, vs[1].fields, st, <<>>), CompositeDecoder),
            LAMBDA r : getVariants(meta, Tail(vs), r.st, (vs[1].index :> r.d) @@ map))

\* The loops of getCompactFieldDecoder: nothing is stored or looked up.
getCompactItems(meta, items, st, done) ==
  IF items = <<>> THEN Built(done, st)
  ELSE IF items[1] \notin DOMAIN meta.types THEN Err(st)
  ELSE Then(getCompactFieldDecoder(meta, meta.types[items[1]], st),
            LAMBDA r : getCompactItems(meta, Tail(items), r.st, Append(done, Field(items[1], r.d))))

getCompactFieldDecoder(meta, def, st) ==
  CASE def.kind = "primitive" -> Built(ValueDecoder(UCompact), st)
    [] def.kind = "tuple" /\ def.items = <<>> -> Built(AnyDecoder, st)
    [] def.kind \in {"tuple", "composite"} ->
         Wrapped(getCompactItems(meta, Inner(def), st, <<>>), CompositeDecoder)
    [] OTHER -> Err(st)

\* What getArrayFieldDecoder, getSliceFieldDecoder and getTupleFieldDecoder return.
Container(def, ds) ==
  CASE def.kind = "array" -> ArrayDecoder(def.len, ds[1].d)
    [] def.kind = "sequence" -> SliceDecoder(ds[1].d)
    [] def.kind = "tuple" -> IF ds = <<>> THEN NoopDecoder ELSE CompositeDecoder(ds)

\* getFieldDecoder
getFieldDecoder(meta, def, st) ==
  CASE def.kind = "compact" ->
         IF def.item \notin DOMAIN meta.types THEN Err(st)
         ELSE getCompactFieldDecoder(meta, meta.types[def.item], st)
    [] def.kind = "composite" ->
         Wrapped(getTypeFields(meta, def.fields, st, <<>>), CompositeDecoder)
    [] def.kind = "variant" -> getVariants(meta, def.variants, st, <<>>)
    [] def.kind = "primitive" -> Built(ValueDecoder(getPrimitiveDecoder(def.prim)), st)
    [] def.kind \in {"array", "sequence", "tuple"} ->
         Wrapped(getItems(meta, Inner(def), st, <<>>), LAMBDA ds : Container(def, ds))
    [] def.kind = "bits" -> getBitSequenceDecoder(meta, def, st)
    [] OTHER -> Err(st)

\* resolveRecursiveDecoders
resolveRecursiveDecoders(st) ==
  LET open == {t \in st.rs : st.rc[t] = Nil}
  IN  IF \E t \in open : t \notin DOMAIN st.fs \/ st.fs[t].k = "rec" THEN Err(st)
      ELSE Built(Nil, [st EXCEPT !.rc = [t \in open |-> st.fs[t]] @@ @])

-----------------------------------------------------------------------------
(* CreateCallRegistry, CreateErrorRegistry, CreateEventRegistry. *)

\* The body of the loop over the variants.
AddVariant(meta, pallet, r, v) ==
  Then(r, LAMBDA done :
    Then(getTypeFields(meta, v.fields, done.st, <<>>), LAMBDA fields :
      Built((<<pallet.index, v.index>> :> fields.d) @@ done.d, fields.st)))

\* The body of the loop over the pallets.
AddPallet(meta, kind, r, pallet) ==
  LET t == pallet.types[kind]
  IN  IF ~r.ok \/ t = None THEN r
      ELSE IF t \notin DOMAIN meta.types \/ meta.types[t].kind # "variant" THEN Err(r.st)
      ELSE FoldLeft(LAMBDA acc, v : AddVariant(meta, pallet, acc, v), r, meta.types[t].variants)

\* What a Create returned: for which metadata, the decoders by pallet and
\* variant, and what their RecursiveDecoders point to.
NoRegistry == [ok |-> FALSE, meta |-> Nil, entries |-> <<>>, heap |-> <<>>]
Registry(meta, r) ==
  IF r.ok THEN [ok |-> TRUE, meta |-> meta, entries |-> r.d, heap |-> r.st.rc]
  ELSE [NoRegistry EXCEPT !.meta = meta]

NothingParsed ==
  [block |-> [meta |-> Nil, kind |-> "", calls |-> <<>>], meta |-> Nil, kind |-> "",
   result |-> Fail]

\* All of a Create function after resetStorages.
Build(kind, meta, st) ==
  Then(FoldLeft(LAMBDA acc, p : AddPallet(meta, kind, acc, p), Built(<<>>, st), meta.pallets),
       LAMBDA loop : Then(resolveRecursiveDecoders(loop.st),
                          LAMBDA r : Built(loop.d, r.st)))

Create(kind, meta) ==
  LET r == Build(kind, meta, resetStorages(store))
  IN  /\ store' = r.st
      /\ registry' = [registry EXCEPT ![kind] = Registry(meta, r)]
      /\ parsed' = NothingParsed

-----------------------------------------------------------------------------
(* Decoding. *)

\* bits.Reverse8
Reverse8(b) == FoldLeft(LAMBDA r, i : (2 * r) + ((b \div 2^i) % 2), 0, <<0, 1, 2, 3, 4, 5, 6, 7>>)

\* BitVec.Decode
DecodeBits(order, w) ==
  LET n == DecodeUintCompact(w)
      bytes == IF n.st = "ok" /\ IsSmall(n.v) THEN Read((ToUint(n.v) + 7) \div 8, n.rest) ELSE Fail
  IN  IF bytes.st # "ok" \/ ToUint(n.v) = 0 THEN Fail
      ELSE Ok([i \in DOMAIN bytes.v |-> IF order = "Lsb0" THEN Reverse8(bytes.v[i])
                                         ELSE bytes.v[i]], bytes.rest)

RECURSIVE FieldDecode(_, _, _), FieldsDecode(_, _, _, _), ItemsDecode(_, _, _, _, _)

\* The Decode method of each decoder.
FieldDecode(d, heap, w) ==
  CASE d.k = "value" -> Decode(d.type, w, Default(d.type))
    [] d.k = "noop" -> Ok(<<>>, w)
    [] d.k = "variant" ->
         IF w = <<>> \/ w[1] \notin DOMAIN d.map THEN Fail
         ELSE IF d.map[w[1]] = NoopDecoder THEN Ok(<<w[1]>>, Tail(w))
         ELSE FieldDecode(d.map[w[1]], heap, Tail(w))
    [] d.k = "array" -> ItemsDecode(d.item, d.len, heap, w, <<>>)
    [] d.k = "slice" ->
         After(DecodeUintCompact(w), LAMBDA n :
           IF ~IsSmall(n.v) THEN Panic ELSE ItemsDecode(d.item, ToUint(n.v), heap, n.rest, <<>>))
    [] d.k = "composite" -> FieldsDecode(d.fields, heap, w, <<>>)
    [] d.k = "rec" -> IF heap[d.to] = Nil THEN Fail ELSE FieldDecode(heap[d.to], heap, w)
    [] d.k = "bits" -> DecodeBits(d.order, w)
    [] OTHER -> Fail

\* CompositeDecoder.Decode, and TypeDecoder.Decode with Field.Decode.
DecodedField(t, v) == [lookup |-> t, value |-> v]
FieldsDecode(fields, heap, w, done) ==
  IF fields = <<>> THEN Ok(done, w)
  ELSE After(FieldDecode(fields[1].d, heap, w), LAMBDA r :
         FieldsDecode(Tail(fields), heap, r.rest, Append(done, DecodedField(fields[1].lookup, r.v))))

\* The loops of ArrayDecoder.Decode and SliceDecoder.Decode.
ItemsDecode(d, n, heap, w, done) ==
  IF n = 0 THEN Ok(done, w)
  ELSE After(FieldDecode(d, heap, w), LAMBDA r :
         ItemsDecode(d, n - 1, heap, r.rest, Append(done, r.v)))

-----------------------------------------------------------------------------
(* The parsers. *)

Event(id, fields) == [id |-> id, fields |-> fields]

\* What an entry of the registry decodes.
Entry(reg, id, w) ==
  IF id \notin DOMAIN reg.entries THEN Fail
  ELSE After(FieldsDecode(reg.entries[id], reg.heap, w, <<>>), LAMBDA r :
         Ok(Event(id, r.v), r.rest))

\* Mutant: the topics of an event are left in the stream.
ParseEventNoTopics(reg, w) ==
  After(Decode(Named("Phase"), w, Default(Named("Phase"))), LAMBDA phase :
    After(Read(2, phase.rest), LAMBDA id : Entry(reg, id.v, id.rest)))

\* The body of the loop of ParseEvents: phase, event id, fields and topics.
ParseEvent(reg, w) ==
  After(Decode(Named("Phase"), w, Default(Named("Phase"))), LAMBDA phase :
    After(Read(2, phase.rest), LAMBDA id :
      After(Entry(reg, id.v, id.rest), LAMBDA event :
        After(Decode(Slice(Fixed(32)), event.rest, <<>>), LAMBDA topics :
          Ok(event.v, topics.rest)))))

RECURSIVE ParseLoop(_, _, _, _)
ParseLoop(reg, n, w, events) ==
  IF n = 0 THEN Ok(events, w)
  ELSE After(ParseEvent(reg, w), LAMBDA r : ParseLoop(reg, n - 1, r.rest, Append(events, r.v)))

ParseEvents(reg, w) ==
  After(DecodeUintCompact(w), LAMBDA n : ParseLoop(reg, ToUint(n.v), n.rest, <<>>))

\* ParseExtrinsics; what follows the fields in the arguments is not looked at.
ParseExtrinsics(reg, calls) ==
  FoldLeft(LAMBDA done, c : After(done, LAMBDA d :
             After(Entry(reg, c.id, c.args), LAMBDA r : Ok(Append(d.v, r.v), <<>>))),
           Ok(<<>>, <<>>), calls)

\* What a block's storage holds: its events as the runtime encodes them.
StorageData(calls) ==
  FoldLeft(LAMBDA w, c : w \o <<1>> \o c.id \o c.args \o <<0>>, <<4 * Len(calls)>>, calls)

\* A block is parsed with the registry of the kind, which need not have been
\* created for the block's metadata.
Parse(kind, block) ==
  LET reg == registry[kind]
  IN  /\ kind \in {"call", "event"} /\ reg.ok
      /\ parsed' = [block |-> block, meta |-> reg.meta, kind |-> kind,
                    result |-> IF kind = "call" THEN ParseExtrinsics(reg, block.calls)
                               ELSE ParseEvents(reg, StorageData(block.calls))]
      /\ UNCHANGED <<store, registry>>

Init ==
  /\ store = Storage(<<>>, {}, <<>>)
  /\ registry = [kind \in Kinds |-> NoRegistry]
  /\ parsed = NothingParsed

Next ==
  \/ \E kind \in Kinds, meta \in Metadata : Create(kind, meta)
  \/ \E kind \in Kinds, block \in Blocks : Parse(kind, block)

Spec == Init /\ [][Next]_vars

=============================================================================
