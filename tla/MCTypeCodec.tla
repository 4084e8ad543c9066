----------------------------- MODULE MCTypeCodec -----------------------------
(***************************************************************************)
(* Instances of TypeCodec: which types, and how deep their values vary.    *)
(***************************************************************************)
EXTENDS TypeCodec, XcmTypes, MetadataTypes, RuntimeTypes

AllTables == XcmTable @@ MetadataTable @@ RuntimeTable

\* Types without an option or a slice, in which the error of the first read is
\* dropped, and without a field whose error is.
RECURSIVE DropsErrors(_)
DropsErrors(t) ==
  \/ t[1] \in {"option", "slice"}
  \/ t[1] = "array" /\ DropsErrors(t[3])
  \/ t[1] = "named" /\ AllTables[t[2]].drops # {}
  \/ t[1] = "named" /\ \E f \in DOMAIN AllTables[t[2]].fields :
                         DropsErrors(AllTables[t[2]].fields[f])

SolidTypes == {x \in DOMAIN AllTables : ~DropsErrors(Named(x))}

WithOption == {"ChainProperties"}
WithSlice == {"VersionedMultiAssets"}
WithDroppedError == {"JunctionV1"}
WithoutDefault == {"NetworkID"}
Version == {"RuntimeVersion"}

\* All but RuntimeVersion, for which RoundTrip does not hold.
AllTypes == DOMAIN AllTables \ {"RuntimeVersion"}

=============================================================================
