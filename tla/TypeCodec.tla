------------------------------ MODULE TypeCodec ------------------------------
(***************************************************************************)
(* Values of a type go through Encode, a stream and Decode, one after the  *)
(* other and into the same variable, as in a loop over a subscription or   *)
(* over the elements of a slice.  The stream may end early.                *)
(***************************************************************************)
EXTENDS Scale

CONSTANTS Types,        \* names of structs
          Depth,        \* how deep a value differs from the simplest one
          MaxMessages,
          Faulty,       \* the types whose first message may go wrong
          MaxLost,      \* how many bytes the end of a stream may lack
          NewTags       \* tags that a newer sender may use

VARIABLES type, sends, pc,
          sent, wire,
          fault,                \* "none", "cut" or "newer"
          target, got           \* the variable; what Decode returned

vars == <<type, sends, pc, sent, wire, fault, target, got>>

\* What follows in the stream.
Trailer == <<255>>

-----------------------------------------------------------------------------

\* The simplest value: numbers are zero, enums are their first variant.
RECURSIVE First(_)
First(t) ==
  CASE t[1] = "array" -> [i \in 1..t[2] |-> First(t[3])]
    [] t[1] = "oneof" -> <<CHOOSE b \in t[2] : \A c \in t[2] : b <= c>>
    [] t[1] = "named" ->
         LET d == Table[t[2]]
             tag == CHOOSE k \in DOMAIN d.enc : \A j \in DOMAIN d.enc : k <= j
             row == d.enc[tag]
         IN  IF d.kind = "struct"
               THEN Obj({}, [f \in DOMAIN d.fields |-> First(d.fields[f])])
               ELSE Obj({row[1]}, [f \in {row[i] : i \in 2..Len(row)} |-> First(d.fields[f])])
    [] OTHER -> Default(t)

\* The flags and fields that a value of a struct can have set.
Rows(d) ==
  IF d.kind = "struct" THEN {[flags |-> {}, fields |-> DOMAIN d.fields]}
  ELSE {[flags |-> {d.enc[tag][1]}, fields |-> {d.enc[tag][i] : i \in 2..Len(d.enc[tag])}]
        : tag \in DOMAIN d.enc}

\* Values that differ from the simplest one in the variant, and in one field
\* to the depth k.  The bytes of a number differ from each other.
RECURSIVE Samples(_, _)
Samples(t, k) ==
  LET few(u) == IF k = 0 THEN {First(u)} ELSE Samples(u, k - 1)
      vary(d, row) ==
        LET base == [f \in row.fields |-> First(d.fields[f])]
        IN  {Obj(row.flags, as) : as \in {base} \cup
              UNION {{[base EXCEPT ![f] = v] : v \in few(d.fields[f])} : f \in row.fields}}
  IN  CASE t[1] = "fixed" -> {Default(t), [i \in 1..t[2] |-> i]}
        [] t[1] = "oneof" -> {<<b>> : b \in t[2]}
        [] t[1] = "bool" -> BOOLEAN
        [] t[1] = "compact" -> {<<>>, <<64>>, <<0, 64>>, <<0, 0, 0, 64>>}
        [] t[1] = "array" -> {First(t)}
        [] t[1] \in {"slice", "option"} ->
             {<<>>} \cup {IF t[1] = "slice" THEN <<v, First(t[2])>> ELSE <<v>> : v \in few(t[2])}
        [] t[1] = "named" -> UNION {vary(Table[t[2]], row) : row \in Rows(Table[t[2]])}

Values == [x \in Types |-> Samples(Named(x), Depth)]

-----------------------------------------------------------------------------

Init ==
  /\ type \in Types
  /\ sends = 0 /\ pc = "idle" /\ fault = "none"
  /\ sent = <<>> /\ wire = <<>>
  /\ target = Default(Named(type))
  /\ got = [st |-> "none"]

\* codec.Encode of a value, or one Encode of a stream.
Send ==
  /\ pc = "idle" /\ sends < MaxMessages
  /\ \E v \in Values[type] : sent' = v /\ wire' = Encode(Named(type), v)
  /\ sends' = sends + 1 /\ pc' = "sent"
  /\ UNCHANGED <<type, fault, target, got>>

\* The stream ends within the value.
EndEarly ==
  /\ pc = "sent" /\ fault = "none" /\ sends = 1 /\ type \in Faulty
  /\ \E k \in 1..MaxLost : k <= Len(wire) /\ wire' = SubSeq(wire, 1, Len(wire) - k)
  /\ fault' = "cut"
  /\ UNCHANGED <<type, sends, pc, sent, target, got>>

\* The node has a newer runtime, and an enum a variant that is not known here.
SendNewer ==
  /\ pc = "idle" /\ sends = 0 /\ type \in Faulty /\ Table[type].kind = "enum"
  /\ \E t \in NewTags \ DOMAIN Table[type].dec : wire' = <<t>>
  /\ sends' = sends + 1 /\ pc' = "sent" /\ fault' = "newer"
  /\ UNCHANGED <<type, sent, target, got>>

\* codec.Decode into the variable.
Receive ==
  /\ pc = "sent"
  /\ got' = Decode(Named(type), IF fault = "cut" THEN wire ELSE wire \o Trailer, target)
  /\ target' = IF got'.st = "ok" THEN got'.v ELSE target
  /\ pc' = IF got'.st = "ok" /\ fault = "none" THEN "idle" ELSE "over"
  /\ UNCHANGED <<type, sends, sent, wire, fault>>

Next == Send \/ EndEarly \/ SendNewer \/ Receive

Spec == Init /\ [][Next]_vars

-----------------------------------------------------------------------------

\* Decode gives the value that was encoded, whatever the variable held before,
\* and takes exactly the bytes that Encode wrote, so that the next value of the
\* stream is found.  The Decode and the Encode method of each type are written
\* separately, tag by tag and field by field.
RoundTrip ==
  (got.st # "none" /\ pc # "sent" /\ fault = "none") => got = Ok(sent, Trailer)

\* A stream that ends within a value is an error, and only that.
TruncationDetected ==
  (fault = "cut" /\ pc = "over") => got = Fail

\* A variant that is not known is an error: Decode has nothing to populate the
\* structure with.
UnknownVariantRefused ==
  (fault = "newer" /\ pc = "over") => got = Fail

=============================================================================
