------------------------------ MODULE ScaleTypes ------------------------------
(***************************************************************************)
(* The Go types that scale/codec.go encodes and decodes, as far as the     *)
(* bytes depend on them.                                                   *)
(***************************************************************************)
EXTENDS Integers, Sequences, TLC

\* Integers, hashes and byte arrays are given by their bytes in the order of
\* the wire, whatever their Go type.
Fixed(n) == <<"fixed", n>>
Bool == <<"bool">>
UCompact == <<"compact">>
OneOf(S) == <<"oneof", S>>        \* a byte whose Decode method checks it
Array(n, t) == <<"array", n, t>>
Slice(t) == <<"slice", t>>
Option(t) == <<"option", t>>      \* hasValue and value, or HasX and X
Named(n) == <<"named", n>>        \* a struct; its table is looked up by name

U8 == Fixed(1)
U16 == Fixed(2)
U32 == Fixed(4)
U64 == Fixed(8)
U128 == Fixed(16)
Bytes == Slice(U8)
Text == Slice(U8)

\* The table of a struct that is coded field by field: its fields, in the
\* order in which Decode reads and in which Encode writes them.
Struct(fields, dec, enc) ==
  [kind |-> "struct", fields |-> fields, dec |-> dec, enc |-> enc, own |-> TRUE, drops |-> {}]

\* A struct without the two methods: reflection goes through the declaration.
Plain(fields, decl) ==
  [kind |-> "struct", fields |-> fields, dec |-> decl, enc |-> decl, own |-> FALSE, drops |-> {}]

\* The table of an enum.  By tag, the flag of a variant and then its fields,
\* as Decode sets and reads them and as Encode tests and writes them; whether
\* Decode ends in an error when it does not know the tag; and the fields whose
\* error Decode drops.
Enum(fields, dec, enc, strict) ==
  [kind |-> "enum", fields |-> fields, dec |-> dec, enc |-> enc,
   own |-> TRUE, strict |-> strict, drops |-> {}]

\* Variants that are numbered from 0.
From0(rows) == [t \in 0..Len(rows) - 1 |-> rows[t + 1]]

\* A value of a struct: the flags that are true and the fields that are set.
Obj(flags, fields) == [is |-> flags, as |-> fields]

=============================================================================
