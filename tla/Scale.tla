-------------------------------- MODULE Scale --------------------------------
(***************************************************************************)
(* Encoder.Encode and Decoder.Decode of scale/codec.go.  Both go by the    *)
(* type, or call the methods of a type that has its own: the tables.       *)
(***************************************************************************)
EXTENDS ScaleCompact, ScaleTypes

CONSTANT Table      \* the tables of the structs, by name

\* A new Go variable.  No flag of an enum is set.
RECURSIVE Default(_)
Default(t) ==
  CASE t[1] \in {"fixed", "oneof"} -> [i \in 1..(IF t[1] = "fixed" THEN t[2] ELSE 1) |-> 0]
    [] t[1] = "bool" -> FALSE
    [] t[1] \in {"compact", "slice", "option"} -> <<>>
    [] t[1] = "array" -> [i \in 1..t[2] |-> Default(t[3])]
    [] t[1] = "named" ->
         LET d == Table[t[2]]
         IN  Obj({}, IF d.kind = "enum" THEN <<>>
                     ELSE [f \in DOMAIN d.fields |-> Default(d.fields[f])])

-----------------------------------------------------------------------------

RECURSIVE Encode(_, _), EncodeAll(_, _), EncodeFields(_, _, _)

\* Encoder.EncodeOption
EncodeOption(t, v) == IF v = <<>> THEN <<0>> ELSE <<1>> \o Encode(t, v[1])

\* The Encode method of a struct.  One flag of an enum is set.
EncodeStruct(d, v) ==
  IF d.kind = "struct" THEN EncodeFields(d, d.enc, v.as)
  ELSE LET t == CHOOSE t \in DOMAIN d.enc : d.enc[t][1] \in v.is
       IN  <<t>> \o EncodeFields(d, Tail(d.enc[t]), v.as)

\* Encoder.Encode
Encode(t, v) ==
  CASE t[1] \in {"fixed", "oneof"} -> v
    [] t[1] = "bool" -> IF v THEN <<1>> ELSE <<0>>
    [] t[1] = "compact" -> EncodeUintCompact(v).v
    [] t[1] = "array" -> EncodeAll(t[3], v)
    [] t[1] = "slice" -> EncodeUintCompact(FromUint(Len(v))).v \o EncodeAll(t[2], v)
    [] t[1] = "option" -> EncodeOption(t[2], v)
    [] t[1] = "named" -> EncodeStruct(Table[t[2]], v)

EncodeAll(t, s) == IF s = <<>> THEN <<>> ELSE Encode(t, s[1]) \o EncodeAll(t, Tail(s))

EncodeFields(d, names, as) ==
  IF names = <<>> THEN <<>>
  ELSE Encode(d.fields[names[1]], as[names[1]]) \o EncodeFields(d, Tail(names), as)

-----------------------------------------------------------------------------

\* Decoding writes into a variable that may hold an earlier value, old.
RECURSIVE Decode(_, _, _), DecodeMany(_, _, _, _, _), DecodeFields(_, _, _, _)

\* Go on after what was decoded, or return the error.
After(r, next(_)) == IF r.st = "ok" THEN next(r) ELSE r

\* Mutant: missing bytes are zeros.
ReadLenient(n, w) ==
  Ok([i \in 1..n |-> IF i <= Len(w) THEN w[i] ELSE 0], SubSeq(w, n + 1, Len(w)))

\* Decoder.Read, and binary.Read of a number.
Read(n, w) ==
  IF Len(w) < n THEN Fail ELSE Ok(SubSeq(w, 1, n), SubSeq(w, n + 1, Len(w)))

\* Decoder.DecodeOption.  The error of ReadOneByte is dropped, and its byte is
\* zero then.
DecodeOption(t, w) ==
  CASE w = <<>> -> Ok(<<>>, w)
    [] w # <<>> /\ w[1] = 0 -> Ok(<<>>, Tail(w))
    [] w # <<>> /\ w[1] = 1 ->
         After(Decode(t, Tail(w), Default(t)), LAMBDA r : Ok(<<r.v>>, r.rest))
    [] OTHER -> Fail

\* A slice in DecodeIntoReflectValue.  The error of DecodeUintCompact is
\* dropped, and its result is a nil pointer then.  A length from 2^30 up to 2^64 - 1
\* is refused or exceeds the bytes; longer ones, of which the code uses the last 64
\* bits, are left out.  Elements of the old slice are reused unless the
\* new one is longer (a slice is made with the capacity of its length).
DecodeSlice(t, w, old) ==
  LET n == DecodeUintCompact(w)
  IN  IF n.st # "ok" THEN Panic
      ELSE IF ~IsSmall(n.v) THEN Fail
      ELSE DecodeMany(t, ToUint(n.v), n.rest, <<>>, IF ToUint(n.v) > Len(old) THEN <<>> ELSE old)

\* Mutant: the Decode method gets the variable itself.
HolderTarget(t, old) == old

\* What a struct is decoded into: a new value, which is copied afterwards, when
\* it has a Decode method.
Holder(t, old) == IF Table[t[2]].own THEN Default(t) ELSE old

\* A tag without a case: a Decode without a default case succeeds.
UnknownTag(d, was, rest) == IF d.strict THEN Fail ELSE Ok(was, rest)

\* The Decode method of a struct.
DecodeStruct(t, w, old) ==
  LET d == Table[t[2]]
      was == Holder(t, old)
      row == d.dec[w[1]]
  IN  IF d.kind = "struct" THEN DecodeFields(d, d.dec, w, was)
      ELSE IF w = <<>> THEN Fail
      ELSE IF w[1] \notin DOMAIN d.dec THEN UnknownTag(d, was, Tail(w))
      ELSE DecodeFields(d, Tail(row), Tail(w), Obj(was.is \cup {row[1]}, was.as))

\* What an element or a field holds: its old value, or that of a new one.
Held(old, x, t) == IF x \in DOMAIN old THEN old[x] ELSE Default(t)

\* Decoder.Decode
Decode(t, w, old) ==
  CASE t[1] = "fixed" -> Read(t[2], w)
    [] t[1] = "oneof" -> IF w # <<>> /\ w[1] \in t[2] THEN Read(1, w) ELSE Fail
    [] t[1] = "bool" -> IF w = <<>> THEN Fail ELSE Ok(w[1] # 0, Tail(w))
    [] t[1] = "compact" -> DecodeUintCompact(w)
    [] t[1] = "array" -> DecodeMany(t[3], t[2], w, <<>>, old)
    [] t[1] = "slice" -> DecodeSlice(t[2], w, old)
    [] t[1] = "option" -> DecodeOption(t[2], w)
    [] t[1] = "named" -> DecodeStruct(t, w, old)

DecodeMany(t, n, w, done, old) ==
  IF n = 0 THEN Ok(done, w)
  ELSE After(Decode(t, w, Held(old, Len(done) + 1, t)), LAMBDA r :
         DecodeMany(t, n - 1, r.rest, Append(done, r.v), old))

\* Where an error is dropped the stream has ended; what was there has been read.
DecodeFields(d, names, w, v) ==
  IF names = <<>> THEN Ok(v, w)
  ELSE LET field == Decode(d.fields[names[1]], w, Held(v.as, names[1], d.fields[names[1]]))
       IN  IF field = Fail /\ names[1] \in d.drops THEN Ok(v, <<>>)
           ELSE After(field, LAMBDA r :
                  DecodeFields(d, Tail(names), r.rest, Obj(v.is, (names[1] :> r.v) @@ v.as)))

=============================================================================
