----------------------------- MODULE MetadataTypes -----------------------------
(*****************************************************************************)
(* The tables of the metadata types of types/, version by version.           *)
(*****************************************************************************)
EXTENDS ScaleTypes

-----------------------------------------------------------------------------
\* types/metadataV10.go

MetadataV10 ==
  Struct([Modules |-> Slice(Named("ModuleMetadataV10"))],
         <<"Modules">>,
         <<"Modules">>)

ModuleMetadataV10 ==
  Struct([Name |-> Text, Storage |-> Option(Named("StorageMetadataV10")),
          Calls |-> Option(Slice(Named("FunctionMetadataV4"))),
          Events |-> Option(Slice(Named("EventMetadataV4"))),
          Constants |-> Slice(Named("ModuleConstantMetadataV6")),
          Errors |-> Slice(Named("ErrorMetadataV8"))],
         <<"Name", "Storage", "Calls", "Events", "Constants", "Errors">>,
         <<"Name", "Storage", "Calls", "Events", "Constants", "Errors">>)

StorageMetadataV10 ==
  Plain([Prefix |-> Text, Items |-> Slice(Named("StorageFunctionMetadataV10"))],
        <<"Prefix", "Items">>)

StorageFunctionMetadataV10 ==
  Plain([Name |-> Text, Modifier |-> Named("StorageFunctionModifierV0"),
         Type |-> Named("StorageFunctionTypeV10"), Fallback |-> Bytes,
         Documentation |-> Slice(Text)],
        <<"Name", "Modifier", "Type", "Fallback", "Documentation">>)

StorageFunctionTypeV10 ==
  Enum([AsType |-> Text, AsMap |-> Named("MapTypeV10"),
        AsDoubleMap |-> Named("DoubleMapTypeV10")],
       From0(<< <<"IsType", "AsType">>, <<"IsMap", "AsMap">>,
                <<"IsDoubleMap", "AsDoubleMap">> >>),
       From0(<< <<"IsType", "AsType">>, <<"IsMap", "AsMap">>,
                <<"IsDoubleMap", "AsDoubleMap">> >>),
       TRUE)

MapTypeV10 ==
  Plain([Hasher |-> Named("StorageHasherV10"), Key |-> Text, Value |-> Text,
         Linked |-> Bool],
        <<"Hasher", "Key", "Value", "Linked">>)

DoubleMapTypeV10 ==
  Plain([Hasher |-> Named("StorageHasherV10"), Key1 |-> Text, Key2 |-> Text,
         Value |-> Text, Key2Hasher |-> Named("StorageHasherV10")],
        <<"Hasher", "Key1", "Key2", "Value", "Key2Hasher">>)

StorageHasherV10 ==
  Enum(<<>>,
       From0(<< <<"IsBlake2_128">>, <<"IsBlake2_256">>,
                <<"IsBlake2_128Concat">>, <<"IsTwox128">>, <<"IsTwox256">>,
                <<"IsTwox64Concat">>, <<"IsIdentity">> >>),
       From0(<< <<"IsBlake2_128">>, <<"IsBlake2_256">>,
                <<"IsBlake2_128Concat">>, <<"IsTwox128">>, <<"IsTwox256">>,
                <<"IsTwox64Concat">>, <<"IsIdentity">> >>),
       TRUE)

-----------------------------------------------------------------------------
\* types/metadataV11.go

MetadataV11 ==
  Struct([MetadataV10 |-> Named("MetadataV10"),
          Extrinsic |-> Named("ExtrinsicV11")],
         <<"MetadataV10", "Extrinsic">>,
         <<"MetadataV10", "Extrinsic">>)

ExtrinsicV11 ==
  Struct([Version |-> U8, SignedExtensions |-> Slice(Text)],
         <<"Version", "SignedExtensions">>,
         <<"Version", "SignedExtensions">>)

-----------------------------------------------------------------------------
\* types/metadataV12.go

MetadataV12 ==
  Struct([Modules |-> Slice(Named("ModuleMetadataV12")),
          Extrinsic |-> Named("ExtrinsicV11")],
         <<"Modules", "Extrinsic">>,
         <<"Modules", "Extrinsic">>)

ModuleMetadataV12 ==
  Struct([ModuleMetadataV10 |-> Named("ModuleMetadataV10"), Index |-> U8],
         <<"ModuleMetadataV10", "Index">>,
         <<"ModuleMetadataV10", "Index">>)

-----------------------------------------------------------------------------
\* types/metadataV13.go

MetadataV13 ==
  Struct([Modules |-> Slice(Named("ModuleMetadataV13")),
          Extrinsic |-> Named("ExtrinsicV11")],
         <<"Modules", "Extrinsic">>,
         <<"Modules", "Extrinsic">>)

ModuleMetadataV13 ==
  Struct([Name |-> Text, Storage |-> Option(Named("StorageMetadataV13")),
          Calls |-> Option(Slice(Named("FunctionMetadataV4"))),
          Events |-> Option(Slice(Named("EventMetadataV4"))),
          Constants |-> Slice(Named("ModuleConstantMetadataV6")),
          Errors |-> Slice(Named("ErrorMetadataV8")), Index |-> U8],
         <<"Name", "Storage", "Calls", "Events", "Constants", "Errors",
           "Index">>,
         <<"Name", "Storage", "Calls", "Events", "Constants", "Errors",
           "Index">>)

StorageMetadataV13 ==
  Plain([Prefix |-> Text, Items |-> Slice(Named("StorageFunctionMetadataV13"))],
        <<"Prefix", "Items">>)

StorageFunctionMetadataV13 ==
  Plain([Name |-> Text, Modifier |-> Named("StorageFunctionModifierV0"),
         Type |-> Named("StorageFunctionTypeV13"), Fallback |-> Bytes,
         Documentation |-> Slice(Text)],
        <<"Name", "Modifier", "Type", "Fallback", "Documentation">>)

StorageFunctionTypeV13 ==
  Enum([AsType |-> Text, AsMap |-> Named("MapTypeV10"),
        AsDoubleMap |-> Named("DoubleMapTypeV10"),
        AsNMap |-> Named("NMapTypeV13")],
       From0(<< <<"IsType", "AsType">>, <<"IsMap", "AsMap">>,
                <<"IsDoubleMap", "AsDoubleMap">>, <<"IsNMap", "AsNMap">> >>),
       From0(<< <<"IsType", "AsType">>, <<"IsMap", "AsMap">>,
                <<"IsDoubleMap", "AsDoubleMap">>, <<"IsNMap", "AsNMap">> >>),
       TRUE)

NMapTypeV13 ==
  Plain([Keys |-> Slice(Text), Hashers |-> Slice(Named("StorageHasherV10")),
         Value |-> Text],
        <<"Keys", "Hashers", "Value">>)

-----------------------------------------------------------------------------
\* types/metadataV14.go

MetadataV14 ==
  Struct([Lookup |-> Named("PortableRegistryV14"),
          Pallets |-> Slice(Named("PalletMetadataV14")),
          Extrinsic |-> Named("ExtrinsicV14"),
          Type |-> Named("Si1LookupTypeID")],
         <<"Lookup", "Pallets", "Extrinsic", "Type">>,
         <<"Lookup", "Pallets", "Extrinsic", "Type">>)

ExtrinsicV14 ==
  Plain([Type |-> Named("Si1LookupTypeID"), Version |-> U8,
         SignedExtensions |-> Slice(Named("SignedExtensionMetadataV14"))],
        <<"Type", "Version", "SignedExtensions">>)

SignedExtensionMetadataV14 ==
  Plain([Identifier |-> Text, Type |-> Named("Si1LookupTypeID"),
         AdditionalSigned |-> Named("Si1LookupTypeID")],
        <<"Identifier", "Type", "AdditionalSigned">>)

PortableRegistryV14 ==
  Plain([Types |-> Slice(Named("PortableTypeV14"))],
        <<"Types">>)

PalletMetadataV14 ==
  Struct([Name |-> Text, Storage |-> Option(Named("StorageMetadataV14")),
          Calls |-> Option(Named("FunctionMetadataV14")),
          Events |-> Option(Named("EventMetadataV14")),
          Constants |-> Slice(Named("ConstantMetadataV14")),
          Errors |-> Option(Named("ErrorMetadataV14")), Index |-> U8],
         <<"Name", "Storage", "Calls", "Events", "Constants", "Errors",
           "Index">>,
         <<"Name", "Storage", "Calls", "Events", "Constants", "Errors",
           "Index">>)

FunctionMetadataV14 ==
  Plain([Type |-> Named("Si1LookupTypeID")],
        <<"Type">>)

EventMetadataV14 ==
  Plain([Type |-> Named("Si1LookupTypeID")],
        <<"Type">>)

ConstantMetadataV14 ==
  Plain([Name |-> Text, Type |-> Named("Si1LookupTypeID"), Value |-> Bytes,
         Docs |-> Slice(Text)],
        <<"Name", "Type", "Value", "Docs">>)

ErrorMetadataV14 ==
  Plain([Type |-> Named("Si1LookupTypeID")],
        <<"Type">>)

StorageMetadataV14 ==
  Plain([Prefix |-> Text, Items |-> Slice(Named("StorageEntryMetadataV14"))],
        <<"Prefix", "Items">>)

StorageEntryMetadataV14 ==
  Plain([Name |-> Text, Modifier |-> Named("StorageFunctionModifierV0"),
         Type |-> Named("StorageEntryTypeV14"), Fallback |-> Bytes,
         Documentation |-> Slice(Text)],
        <<"Name", "Modifier", "Type", "Fallback", "Documentation">>)

MapTypeV14 ==
  Plain([Hashers |-> Slice(Named("StorageHasherV10")),
         Key |-> Named("Si1LookupTypeID"), Value |-> Named("Si1LookupTypeID")],
        <<"Hashers", "Key", "Value">>)

StorageEntryTypeV14 ==
  Enum([AsPlainType |-> Named("Si1LookupTypeID"),
        AsMap |-> Named("MapTypeV14")],
       From0(<< <<"IsPlainType", "AsPlainType">>, <<"IsMap", "AsMap">> >>),
       From0(<< <<"IsPlainType", "AsPlainType">>, <<"IsMap", "AsMap">> >>),
       TRUE)

-----------------------------------------------------------------------------
\* types/metadataV14_portable.go

PortableTypeV14 ==
  Plain([ID |-> Named("Si1LookupTypeID"), Type |-> Named("Si1Type")],
        <<"ID", "Type">>)

Si1LookupTypeID ==
  Plain([UCompact |-> UCompact],
        <<"UCompact">>)

Si1Type ==
  Plain([Path |-> Slice(Text), Params |-> Slice(Named("Si1TypeParameter")),
         Def |-> Named("Si1TypeDef"), Docs |-> Slice(Text)],
        <<"Path", "Params", "Def", "Docs">>)

Si1TypeParameter ==
  Struct([Name |-> Text, Type |-> Option(Named("Si1LookupTypeID"))],
         <<"Name", "Type">>,
         <<"Name", "Type">>)

Si1TypeDef ==
  Enum([Composite |-> Named("Si1TypeDefComposite"),
        Variant |-> Named("Si1TypeDefVariant"),
        Sequence |-> Named("Si1TypeDefSequence"),
        Array |-> Named("Si1TypeDefArray"),
        Tuple |-> Slice(Named("Si1LookupTypeID")),
        Primitive |-> Named("Si1TypeDefPrimitive"),
        Compact |-> Named("Si1TypeDefCompact"),
        BitSequence |-> Named("Si1TypeDefBitSequence"),
        HistoricMetaCompat |-> Text],
       From0(<< <<"IsComposite", "Composite">>, <<"IsVariant", "Variant">>,
                <<"IsSequence", "Sequence">>, <<"IsArray", "Array">>,
                <<"IsTuple", "Tuple">>, <<"IsPrimitive", "Primitive">>,
                <<"IsCompact", "Compact">>,
                <<"IsBitSequence", "BitSequence">>,
                <<"IsHistoricMetaCompat", "HistoricMetaCompat">> >>),
       From0(<< <<"IsComposite", "Composite">>, <<"IsVariant", "Variant">>,
                <<"IsSequence", "Sequence">>, <<"IsArray", "Array">>,
                <<"IsTuple", "Tuple">>, <<"IsPrimitive", "Primitive">>,
                <<"IsCompact", "Compact">>,
                <<"IsBitSequence", "BitSequence">>,
                <<"IsHistoricMetaCompat", "HistoricMetaCompat">> >>),
       TRUE)

Si1TypeDefComposite ==
  Plain([Fields |-> Slice(Named("Si1Field"))],
        <<"Fields">>)

Si1Field ==
  Struct([Name |-> Option(Text), Type |-> Named("Si1LookupTypeID"),
          TypeName |-> Option(Text), Docs |-> Slice(Text)],
         <<"Name", "Type", "TypeName", "Docs">>,
         <<"Name", "Type", "TypeName", "Docs">>)

Si1TypeDefVariant ==
  Plain([Variants |-> Slice(Named("Si1Variant"))],
        <<"Variants">>)

Si1Variant ==
  Plain([Name |-> Text, Fields |-> Slice(Named("Si1Field")), Index |-> U8,
         Docs |-> Slice(Text)],
        <<"Name", "Fields", "Index", "Docs">>)

Si1TypeDefSequence ==
  Plain([Type |-> Named("Si1LookupTypeID")],
        <<"Type">>)

Si1TypeDefArray ==
  Plain([Len |-> U32, Type |-> Named("Si1LookupTypeID")],
        <<"Len", "Type">>)

Si1TypeDefPrimitive ==
  Plain([Si0TypeDefPrimitive |-> OneOf(0..14)],
        <<"Si0TypeDefPrimitive">>)

Si1TypeDefCompact ==
  Plain([Type |-> Named("Si1LookupTypeID")],
        <<"Type">>)

Si1TypeDefBitSequence ==
  Plain([BitStoreType |-> Named("Si1LookupTypeID"),
         BitOrderType |-> Named("Si1LookupTypeID")],
        <<"BitStoreType", "BitOrderType">>)

-----------------------------------------------------------------------------
\* types/metadataV4.go

MetadataV4 ==
  Struct([Modules |-> Slice(Named("ModuleMetadataV4"))],
         <<"Modules">>,
         <<"Modules">>)

ModuleMetadataV4 ==
  Struct([Name |-> Text, Prefix |-> Text,
          Storage |-> Option(Slice(Named("StorageFunctionMetadataV4"))),
          Calls |-> Option(Slice(Named("FunctionMetadataV4"))),
          Events |-> Option(Slice(Named("EventMetadataV4")))],
         <<"Name", "Prefix", "Storage", "Calls", "Events">>,
         <<"Name", "Prefix", "Storage", "Calls", "Events">>)

StorageFunctionMetadataV4 ==
  Plain([Name |-> Text, Modifier |-> Named("StorageFunctionModifierV0"),
         Type |-> Named("StorageFunctionTypeV4"), Fallback |-> Bytes,
         Documentation |-> Slice(Text)],
        <<"Name", "Modifier", "Type", "Fallback", "Documentation">>)

StorageFunctionTypeV4 ==
  Enum([AsType |-> Text, AsMap |-> Named("MapTypeV4"),
        AsDoubleMap |-> Named("DoubleMapTypeV4")],
       From0(<< <<"IsType", "AsType">>, <<"IsMap", "AsMap">>,
                <<"IsDoubleMap", "AsDoubleMap">> >>),
       From0(<< <<"IsType", "AsType">>, <<"IsMap", "AsMap">>,
                <<"IsDoubleMap", "AsDoubleMap">> >>),
       TRUE)

DoubleMapTypeV4 ==
  Plain([Hasher |-> Named("StorageHasher"), Key1 |-> Text, Key2 |-> Text,
         Value |-> Text, Key2Hasher |-> Text],
        <<"Hasher", "Key1", "Key2", "Value", "Key2Hasher">>)

MapTypeV4 ==
  Plain([Hasher |-> Named("StorageHasher"), Key |-> Text, Value |-> Text,
         Linked |-> Bool],
        <<"Hasher", "Key", "Value", "Linked">>)

StorageHasher ==
  Enum(<<>>,
       From0(<< <<"IsBlake2_128">>, <<"IsBlake2_256">>, <<"IsTwox128">>,
                <<"IsTwox256">>, <<"IsTwox64Concat">> >>),
       From0(<< <<"IsBlake2_128">>, <<"IsBlake2_256">>, <<"IsTwox128">>,
                <<"IsTwox256">>, <<"IsTwox64Concat">> >>),
       TRUE)

FunctionMetadataV4 ==
  Plain([Name |-> Text, Args |-> Slice(Named("FunctionArgumentMetadata")),
         Documentation |-> Slice(Text)],
        <<"Name", "Args", "Documentation">>)

EventMetadataV4 ==
  Plain([Name |-> Text, Args |-> Slice(Text), Documentation |-> Slice(Text)],
        <<"Name", "Args", "Documentation">>)

FunctionArgumentMetadata ==
  Plain([Name |-> Text, Type |-> Text],
        <<"Name", "Type">>)

StorageFunctionModifierV0 ==
  Enum(<<>>,
       From0(<< <<"IsOptional">>, <<"IsDefault">>, <<"IsRequired">> >>),
       From0(<< <<"IsOptional">>, <<"IsDefault">>, <<"IsRequired">> >>),
       TRUE)

-----------------------------------------------------------------------------
\* types/metadataV7.go

MetadataV7 ==
  Struct([Modules |-> Slice(Named("ModuleMetadataV7"))],
         <<"Modules">>,
         <<"Modules">>)

ModuleMetadataV7 ==
  Struct([Name |-> Text, Storage |-> Option(Named("StorageMetadata")),
          Calls |-> Option(Slice(Named("FunctionMetadataV4"))),
          Events |-> Option(Slice(Named("EventMetadataV4"))),
          Constants |-> Slice(Named("ModuleConstantMetadataV6"))],
         <<"Name", "Storage", "Calls", "Events", "Constants">>,
         <<"Name", "Storage", "Calls", "Events", "Constants">>)

StorageMetadata ==
  Plain([Prefix |-> Text, Items |-> Slice(Named("StorageFunctionMetadataV5"))],
        <<"Prefix", "Items">>)

StorageFunctionMetadataV5 ==
  Plain([Name |-> Text, Modifier |-> Named("StorageFunctionModifierV0"),
         Type |-> Named("StorageFunctionTypeV5"), Fallback |-> Bytes,
         Documentation |-> Slice(Text)],
        <<"Name", "Modifier", "Type", "Fallback", "Documentation">>)

StorageFunctionTypeV5 ==
  Enum([AsType |-> Text, AsMap |-> Named("MapTypeV4"),
        AsDoubleMap |-> Named("DoubleMapTypeV5")],
       From0(<< <<"IsType", "AsType">>, <<"IsMap", "AsMap">>,
                <<"IsDoubleMap", "AsDoubleMap">> >>),
       From0(<< <<"IsType", "AsType">>, <<"IsMap", "AsMap">>,
                <<"IsDoubleMap", "AsDoubleMap">> >>),
       TRUE)

DoubleMapTypeV5 ==
  Plain([Hasher |-> Named("StorageHasher"), Key1 |-> Text, Key2 |-> Text,
         Value |-> Text, Key2Hasher |-> Named("StorageHasher")],
        <<"Hasher", "Key1", "Key2", "Value", "Key2Hasher">>)

ModuleConstantMetadataV6 ==
  Plain([Name |-> Text, Type |-> Text, Value |-> Bytes,
         Documentation |-> Slice(Text)],
        <<"Name", "Type", "Value", "Documentation">>)

-----------------------------------------------------------------------------
\* types/metadataV8.go

MetadataV8 ==
  Struct([Modules |-> Slice(Named("ModuleMetadataV8"))],
         <<"Modules">>,
         <<"Modules">>)

ModuleMetadataV8 ==
  Struct([Name |-> Text, Storage |-> Option(Named("StorageMetadata")),
          Calls |-> Option(Slice(Named("FunctionMetadataV4"))),
          Events |-> Option(Slice(Named("EventMetadataV4"))),
          Constants |-> Slice(Named("ModuleConstantMetadataV6")),
          Errors |-> Slice(Named("ErrorMetadataV8"))],
         <<"Name", "Storage", "Calls", "Events", "Constants", "Errors">>,
         <<"Name", "Storage", "Calls", "Events", "Constants", "Errors">>)

ErrorMetadataV8 ==
  Plain([Name |-> Text, Documentation |-> Slice(Text)],
        <<"Name", "Documentation">>)

-----------------------------------------------------------------------------
\* types/metadataV9.go

MetadataV9 ==
  Struct([Modules |-> Slice(Named("ModuleMetadataV8"))],
         <<"Modules">>,
         <<"Modules">>)

-----------------------------------------------------------------------------

MetadataTable ==
  [MetadataV10 |-> MetadataV10, ModuleMetadataV10 |-> ModuleMetadataV10,
   StorageMetadataV10 |-> StorageMetadataV10,
   StorageFunctionMetadataV10 |-> StorageFunctionMetadataV10,
   StorageFunctionTypeV10 |-> StorageFunctionTypeV10,
   MapTypeV10 |-> MapTypeV10, DoubleMapTypeV10 |-> DoubleMapTypeV10,
   StorageHasherV10 |-> StorageHasherV10, MetadataV11 |-> MetadataV11,
   ExtrinsicV11 |-> ExtrinsicV11, MetadataV12 |-> MetadataV12,
   ModuleMetadataV12 |-> ModuleMetadataV12, MetadataV13 |-> MetadataV13,
   ModuleMetadataV13 |-> ModuleMetadataV13,
   StorageMetadataV13 |-> StorageMetadataV13,
   StorageFunctionMetadataV13 |-> StorageFunctionMetadataV13,
   StorageFunctionTypeV13 |-> StorageFunctionTypeV13,
   NMapTypeV13 |-> NMapTypeV13, MetadataV14 |-> MetadataV14,
   ExtrinsicV14 |-> ExtrinsicV14,
   SignedExtensionMetadataV14 |-> SignedExtensionMetadataV14,
   PortableRegistryV14 |-> PortableRegistryV14,
   PalletMetadataV14 |-> PalletMetadataV14,
   FunctionMetadataV14 |-> FunctionMetadataV14,
   EventMetadataV14 |-> EventMetadataV14,
   ConstantMetadataV14 |-> ConstantMetadataV14,
   ErrorMetadataV14 |-> ErrorMetadataV14,
   StorageMetadataV14 |-> StorageMetadataV14,
   StorageEntryMetadataV14 |-> StorageEntryMetadataV14,
   MapTypeV14 |-> MapTypeV14, StorageEntryTypeV14 |-> StorageEntryTypeV14,
   PortableTypeV14 |-> PortableTypeV14, Si1LookupTypeID |-> Si1LookupTypeID,
   Si1Type |-> Si1Type, Si1TypeParameter |-> Si1TypeParameter,
   Si1TypeDef |-> Si1TypeDef, Si1TypeDefComposite |-> Si1TypeDefComposite,
   Si1Field |-> Si1Field, Si1TypeDefVariant |-> Si1TypeDefVariant,
   Si1Variant |-> Si1Variant, Si1TypeDefSequence |-> Si1TypeDefSequence,
   Si1TypeDefArray |-> Si1TypeDefArray,
   Si1TypeDefPrimitive |-> Si1TypeDefPrimitive,
   Si1TypeDefCompact |-> Si1TypeDefCompact,
   Si1TypeDefBitSequence |-> Si1TypeDefBitSequence, MetadataV4 |-> MetadataV4,
   ModuleMetadataV4 |-> ModuleMetadataV4,
   StorageFunctionMetadataV4 |-> StorageFunctionMetadataV4,
   StorageFunctionTypeV4 |-> StorageFunctionTypeV4,
   DoubleMapTypeV4 |-> DoubleMapTypeV4, MapTypeV4 |-> MapTypeV4,
   StorageHasher |-> StorageHasher, FunctionMetadataV4 |-> FunctionMetadataV4,
   EventMetadataV4 |-> EventMetadataV4,
   FunctionArgumentMetadata |-> FunctionArgumentMetadata,
   StorageFunctionModifierV0 |-> StorageFunctionModifierV0,
   MetadataV7 |-> MetadataV7, ModuleMetadataV7 |-> ModuleMetadataV7,
   StorageMetadata |-> StorageMetadata,
   StorageFunctionMetadataV5 |-> StorageFunctionMetadataV5,
   StorageFunctionTypeV5 |-> StorageFunctionTypeV5,
   DoubleMapTypeV5 |-> DoubleMapTypeV5,
   ModuleConstantMetadataV6 |-> ModuleConstantMetadataV6,
   MetadataV8 |-> MetadataV8, ModuleMetadataV8 |-> ModuleMetadataV8,
   ErrorMetadataV8 |-> ErrorMetadataV8, MetadataV9 |-> MetadataV9]

=============================================================================
