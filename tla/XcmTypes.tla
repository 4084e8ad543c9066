----------------------------- MODULE XcmTypes -----------------------------
(*****************************************************************************)
(* The tables of the cross-chain message types (XCM) of types/.              *)
(*****************************************************************************)
EXTENDS ScaleTypes

-----------------------------------------------------------------------------
\* types/body.go

BodyID ==
  Enum([Body |-> Bytes, Index |-> U32],
       From0(<< <<"IsUnit">>, <<"IsNamed", "Body">>, <<"IsIndex", "Index">>,
                <<"IsExecutive">>, <<"IsTechnical">>, <<"IsLegislative">>,
                <<"IsJudicial">> >>),
       From0(<< <<"IsUnit">>, <<"IsNamed", "Body">>, <<"IsIndex", "Index">>,
                <<"IsExecutive">>, <<"IsTechnical">>, <<"IsLegislative">>,
                <<"IsJudicial">> >>),
       FALSE)

BodyPart ==
  Enum([MembersCount |-> U32, FractionNom |-> U32, FractionDenom |-> U32,
        AtLeastProportionNom |-> U32, AtLeastProportionDenom |-> U32,
        MoreThanProportionNom |-> U32, MoreThanProportionDenom |-> U32],
       From0(<< <<"IsVoice">>, <<"IsMembers", "MembersCount">>,
                <<"IsFraction", "FractionNom", "FractionDenom">>,
                <<"IsAtLeastProportion", "AtLeastProportionNom", "AtLeastProportionDenom">>,
                <<"IsMoreThanProportion", "MoreThanProportionNom", "MoreThanProportionDenom">> >>),
       From0(<< <<"IsVoice">>, <<"IsMembers", "MembersCount">>,
                <<"IsFraction", "FractionNom", "FractionDenom">>,
                <<"IsAtLeastProportion", "AtLeastProportionNom", "AtLeastProportionDenom">>,
                <<"IsMoreThanProportion", "MoreThanProportionNom", "MoreThanProportionDenom">> >>),
       FALSE)

-----------------------------------------------------------------------------
\* types/execution_result.go

ExecutionResult ==
  Struct([Outcome |-> U32, Error |-> Named("XCMError")],
         <<"Outcome", "Error">>,
         <<"Outcome", "Error">>)

-----------------------------------------------------------------------------
\* types/junction_v0.go

JunctionV0Fields ==
  [ParachainID |-> U32, AccountID32NetworkID |-> Named("NetworkID"),
   AccountID |-> Bytes, AccountIndex64NetworkID |-> Named("NetworkID"),
   AccountIndex |-> U64, AccountKey20NetworkID |-> Named("NetworkID"),
   AccountKey |-> Bytes, PalletIndex |-> U8, GeneralIndex |-> U128,
   GeneralKey |-> Bytes, PluralityID |-> Named("BodyID"),
   PluralityPart |-> Named("BodyPart")]

JunctionV0Decode ==
  From0(<< <<"IsParent">>, <<"IsParachain", "ParachainID">>,
           <<"IsAccountID32", "AccountID32NetworkID", "AccountID">>,
           <<"IsAccountIndex64", "AccountIndex64NetworkID", "AccountIndex">>,
           <<"IsAccountKey20", "AccountKey20NetworkID", "AccountKey">>,
           <<"IsPalletInstance", "PalletIndex">>,
           <<"IsGeneralIndex", "GeneralIndex">>,
           <<"IsGeneralKey", "GeneralKey">>, <<"IsOnlyChild">>,
           <<"IsPlurality", "PluralityID", "PluralityPart">> >>)

JunctionV0Encode ==
  From0(<< <<"IsParent">>, <<"IsParachain", "ParachainID">>,
           <<"IsAccountID32", "AccountID32NetworkID", "AccountID">>,
           <<"IsAccountIndex64", "AccountIndex64NetworkID", "AccountIndex">>,
           <<"IsAccountKey20", "AccountKey20NetworkID", "AccountKey">>,
           <<"IsPalletInstance", "PalletIndex">>,
           <<"IsGeneralIndex", "GeneralIndex">>,
           <<"IsGeneralKey", "GeneralKey">>, <<"IsOnlyChild">>,
           <<"IsPlurality", "PluralityID", "PluralityPart">> >>)

JunctionV0 == Enum(JunctionV0Fields, JunctionV0Decode, JunctionV0Encode, FALSE)

-----------------------------------------------------------------------------
\* types/junction_v1.go

JunctionV1Fields ==
  [ParachainID |-> UCompact, AccountID32NetworkID |-> Named("NetworkID"),
   AccountID |-> Bytes, AccountIndex64NetworkID |-> Named("NetworkID"),
   AccountIndex |-> U64, AccountKey20NetworkID |-> Named("NetworkID"),
   AccountKey |-> Bytes, PalletIndex |-> U8, GeneralIndex |-> U128,
   GeneralKey |-> Bytes, BodyID |-> Named("BodyID"),
   BodyPart |-> Named("BodyPart")]

JunctionV1Decode ==
  From0(<< <<"IsParachain", "ParachainID">>,
           <<"IsAccountID32", "AccountID32NetworkID", "AccountID">>,
           <<"IsAccountIndex64", "AccountIndex64NetworkID", "AccountIndex">>,
           <<"IsAccountKey20", "AccountKey20NetworkID", "AccountKey">>,
           <<"IsPalletInstance", "PalletIndex">>,
           <<"IsGeneralIndex", "GeneralIndex">>,
           <<"IsGeneralKey", "GeneralKey">>, <<"IsOnlyChild">>,
           <<"IsPlurality", "BodyID", "BodyPart">> >>)

JunctionV1Encode ==
  From0(<< <<"IsParachain", "ParachainID">>,
           <<"IsAccountID32", "AccountID32NetworkID", "AccountID">>,
           <<"IsAccountIndex64", "AccountIndex64NetworkID", "AccountIndex">>,
           <<"IsAccountKey20", "AccountKey20NetworkID", "AccountKey">>,
           <<"IsPalletInstance", "PalletIndex">>,
           <<"IsGeneralIndex", "GeneralIndex">>,
           <<"IsGeneralKey", "GeneralKey">>, <<"IsOnlyChild">>,
           <<"IsPlurality", "BodyID", "BodyPart">> >>)

\* The error of a NetworkID ends Decode without one ("return nil").
JunctionV1 ==
  [Enum(JunctionV1Fields, JunctionV1Decode, JunctionV1Encode, FALSE) EXCEPT
     !.drops = {"AccountID32NetworkID", "AccountIndex64NetworkID", "AccountKey20NetworkID"}]

JunctionsV1 ==
  Enum([X1 |-> Named("JunctionV1"), X2 |-> Array(2, Named("JunctionV1")),
        X3 |-> Array(3, Named("JunctionV1")),
        X4 |-> Array(4, Named("JunctionV1")),
        X5 |-> Array(5, Named("JunctionV1")),
        X6 |-> Array(6, Named("JunctionV1")),
        X7 |-> Array(7, Named("JunctionV1")),
        X8 |-> Array(8, Named("JunctionV1"))],
       From0(<< <<"IsHere">>, <<"IsX1", "X1">>, <<"IsX2", "X2">>,
                <<"IsX3", "X3">>, <<"IsX4", "X4">>, <<"IsX5", "X5">>,
                <<"IsX6", "X6">>, <<"IsX7", "X7">>, <<"IsX8", "X8">> >>),
       From0(<< <<"IsHere">>, <<"IsX1", "X1">>, <<"IsX2", "X2">>,
                <<"IsX3", "X3">>, <<"IsX4", "X4">>, <<"IsX5", "X5">>,
                <<"IsX6", "X6">>, <<"IsX7", "X7">>, <<"IsX8", "X8">> >>),
       FALSE)

-----------------------------------------------------------------------------
\* types/multi_location_v0.go

MultiLocationV0 ==
  Enum([X1 |-> Named("JunctionV0"), X2 |-> Array(2, Named("JunctionV0")),
        X3 |-> Array(3, Named("JunctionV0")),
        X4 |-> Array(4, Named("JunctionV0")),
        X5 |-> Array(5, Named("JunctionV0")),
        X6 |-> Array(6, Named("JunctionV0")),
        X7 |-> Array(7, Named("JunctionV0")),
        X8 |-> Array(8, Named("JunctionV0"))],
       From0(<< <<"IsNull">>, <<"IsX1", "X1">>, <<"IsX2", "X2">>,
                <<"IsX3", "X3">>, <<"IsX4", "X4">>, <<"IsX5", "X5">>,
                <<"IsX6", "X6">>, <<"IsX7", "X7">>, <<"IsX8", "X8">> >>),
       From0(<< <<"IsNull">>, <<"IsX1", "X1">>, <<"IsX2", "X2">>,
                <<"IsX3", "X3">>, <<"IsX4", "X4">>, <<"IsX5", "X5">>,
                <<"IsX6", "X6">>, <<"IsX7", "X7">>, <<"IsX8", "X8">> >>),
       FALSE)

-----------------------------------------------------------------------------
\* types/multi_location_v1.go

MultiLocationV1 ==
  Struct([Parents |-> U8, Interior |-> Named("JunctionsV1")],
         <<"Parents", "Interior">>,
         <<"Parents", "Interior">>)

VersionedMultiLocation ==
  Enum([MultiLocationV0 |-> Named("MultiLocationV0"),
        MultiLocationV1 |-> Named("MultiLocationV1")],
       From0(<< <<"IsV0", "MultiLocationV0">>, <<"IsV1", "MultiLocationV1">> >>),
       From0(<< <<"IsV0", "MultiLocationV0">>, <<"IsV1", "MultiLocationV1">> >>),
       FALSE)

-----------------------------------------------------------------------------
\* types/network_id.go

NetworkID ==
  Enum([NamedNetwork |-> Bytes],
       From0(<< <<"IsAny">>, <<"IsNamed", "NamedNetwork">>, <<"IsPolkadot">>,
                <<"IsKusama">> >>),
       From0(<< <<"IsAny">>, <<"IsNamed", "NamedNetwork">>, <<"IsPolkadot">>,
                <<"IsKusama">> >>),
       FALSE)

-----------------------------------------------------------------------------
\* types/outcome.go

Outcome ==
  Enum([CompleteWeight |-> Named("Weight"),
        IncompleteWeight |-> Named("Weight"),
        IncompleteError |-> Named("XCMError"), Error |-> Named("XCMError")],
       From0(<< <<"IsComplete", "CompleteWeight">>,
                <<"IsIncomplete", "IncompleteWeight", "IncompleteError">>,
                <<"IsError", "Error">> >>),
       From0(<< <<"IsComplete", "CompleteWeight">>,
                <<"IsIncomplete", "IncompleteWeight", "IncompleteError">>,
                <<"IsError", "Error">> >>),
       FALSE)

-----------------------------------------------------------------------------
\* types/weight.go

Weight ==
  Plain([RefTime |-> UCompact, ProofSize |-> UCompact],
        <<"RefTime", "ProofSize">>)

-----------------------------------------------------------------------------
\* types/xcm.go

AssetID ==
  Enum([MultiLocation |-> Named("MultiLocationV1"), AbstractKey |-> Bytes],
       From0(<< <<"IsConcrete", "MultiLocation">>,
                <<"IsAbstract", "AbstractKey">> >>),
       From0(<< <<"IsConcrete", "MultiLocation">>,
                <<"IsAbstract", "AbstractKey">> >>),
       FALSE)

AssetInstance ==
  Enum([Index |-> U128, Array4 |-> Fixed(4), Array8 |-> Fixed(8),
        Array16 |-> Fixed(16), Array32 |-> Fixed(32), Blob |-> Bytes],
       From0(<< <<"IsUndefined">>, <<"IsIndex", "Index">>,
                <<"IsArray4", "Array4">>, <<"IsArray8", "Array8">>,
                <<"IsArray16", "Array16">>, <<"IsArray32", "Array32">>,
                <<"IsBlob", "Blob">> >>),
       From0(<< <<"IsUndefined">>, <<"IsIndex", "Index">>,
                <<"IsArray4", "Array4">>, <<"IsArray8", "Array8">>,
                <<"IsArray16", "Array16">>, <<"IsArray32", "Array32">>,
                <<"IsBlob", "Blob">> >>),
       FALSE)

Fungibility ==
  Enum([Amount |-> UCompact, AssetInstance |-> Named("AssetInstance")],
       From0(<< <<"IsFungible", "Amount">>,
                <<"IsNonFungible", "AssetInstance">> >>),
       From0(<< <<"IsFungible", "Amount">>,
                <<"IsNonFungible", "AssetInstance">> >>),
       FALSE)

MultiAssetV1 ==
  Struct([ID |-> Named("AssetID"), Fungibility |-> Named("Fungibility")],
         <<"ID", "Fungibility">>,
         <<"ID", "Fungibility">>)

MultiAssetV0Fields ==
  [AllAbstractFungibleID |-> Bytes, AllAbstractNonFungibleClass |-> Bytes,
   AllConcreteFungibleID |-> Named("MultiLocationV1"),
   AllConcreteNonFungibleClass |-> Named("MultiLocationV1"),
   AbstractFungibleID |-> Bytes, AbstractFungible |-> U128,
   AbstractNonFungibleClass |-> Bytes,
   AbstractNonFungibleInstance |-> Named("AssetInstance"),
   ConcreteFungibleID |-> Named("MultiLocationV1"),
   ConcreteFungibleAmount |-> U128,
   ConcreteNonFungibleClass |-> Named("MultiLocationV1"),
   ConcreteNonFungibleInstance |-> Named("AssetInstance")]

MultiAssetV0Decode ==
  From0(<< <<"IsNone">>, <<"IsAll">>, <<"IsAllFungible">>,
           <<"IsAllNonFungible">>,
           <<"IsAllAbstractFungible", "AllAbstractFungibleID">>,
           <<"IsAllAbstractNonFungible", "AllAbstractNonFungibleClass">>,
           <<"IsAllConcreteFungible", "AllConcreteFungibleID">>,
           <<"IsAllConcreteNonFungible", "AllConcreteNonFungibleClass">>,
           <<"IsAbstractFungible", "AbstractFungibleID", "AbstractFungible">>,
           <<"IsAbstractNonFungible", "AbstractNonFungibleClass", "AbstractNonFungibleInstance">>,
           <<"IsConcreteFungible", "ConcreteFungibleID", "ConcreteFungibleAmount">>,
           <<"IsConcreteNonFungible", "ConcreteNonFungibleClass", "ConcreteNonFungibleInstance">> >>)

MultiAssetV0Encode ==
  From0(<< <<"IsNone">>, <<"IsAll">>, <<"IsAllFungible">>,
           <<"IsAllNonFungible">>,
           <<"IsAllAbstractFungible", "AllAbstractFungibleID">>,
           <<"IsAllAbstractNonFungible", "AllAbstractNonFungibleClass">>,
           <<"IsAllConcreteFungible", "AllConcreteFungibleID">>,
           <<"IsAllConcreteNonFungible", "AllConcreteNonFungibleClass">>,
           <<"IsAbstractFungible", "AbstractFungibleID", "AbstractFungible">>,
           <<"IsAbstractNonFungible", "AbstractNonFungibleClass", "AbstractNonFungibleInstance">>,
           <<"IsConcreteFungible", "ConcreteFungibleID", "ConcreteFungibleAmount">>,
           <<"IsConcreteNonFungible", "ConcreteNonFungibleClass", "ConcreteNonFungibleInstance">> >>)

MultiAssetV0 == Enum(MultiAssetV0Fields, MultiAssetV0Decode, MultiAssetV0Encode, FALSE)

VersionedMultiAssets ==
  Enum([MultiAssetsV0 |-> Slice(Named("MultiAssetV0")),
        MultiAssetsV1 |-> Slice(Named("MultiAssetV1"))],
       From0(<< <<"IsV0", "MultiAssetsV0">>, <<"IsV1", "MultiAssetsV1">> >>),
       From0(<< <<"IsV0", "MultiAssetsV0">>, <<"IsV1", "MultiAssetsV1">> >>),
       FALSE)

Response ==
  Enum([MultiAssets |-> Slice(Named("MultiAssetV1")),
        ExecutionResult |-> Named("ExecutionResult"), Version |-> U32],
       From0(<< <<"IsNull">>, <<"IsAssets", "MultiAssets">>,
                <<"IsExecutionResult", "ExecutionResult">>,
                <<"IsVersion", "Version">> >>),
       From0(<< <<"IsNull">>, <<"IsAssets", "MultiAssets">>,
                <<"IsExecutionResult", "ExecutionResult">>,
                <<"IsVersion", "Version">> >>),
       FALSE)

OriginKind ==
  Enum(<<>>,
       From0(<< <<"IsNative">>, <<"IsSovereignAccount">>, <<"IsSuperuser">>,
                <<"IsXcm">> >>),
       From0(<< <<"IsNative">>, <<"IsSovereignAccount">>, <<"IsSuperuser">>,
                <<"IsXcm">> >>),
       FALSE)

EncodedCall ==
  Struct([Call |-> Bytes],
         <<"Call">>,
         <<"Call">>)

WildFungibility ==
  Enum(<<>>,
       From0(<< <<"IsFungible">>, <<"IsNonFungible">> >>),
       From0(<< <<"IsFungible">>, <<"IsNonFungible">> >>),
       FALSE)

WildMultiAsset ==
  Enum([ID |-> Named("AssetID"), Fun |-> Named("WildFungibility")],
       From0(<< <<"IsAll">>, <<"IsAllOf", "ID", "Fun">> >>),
       From0(<< <<"IsAll">>, <<"IsAllOf", "ID", "Fun">> >>),
       FALSE)

MultiAssetFilter ==
  Enum([MultiAssets |-> Slice(Named("MultiAssetV1")),
        WildMultiAsset |-> Named("WildMultiAsset")],
       From0(<< <<"IsDefinite", "MultiAssets">>,
                <<"IsWild", "WildMultiAsset">> >>),
       From0(<< <<"IsDefinite", "MultiAssets">>,
                <<"IsWild", "WildMultiAsset">> >>),
       FALSE)

WeightLimit ==
  Enum([Limit |-> U64],
       From0(<< <<"IsUnlimited">>, <<"IsLimited", "Limit">> >>),
       From0(<< <<"IsUnlimited">>, <<"IsLimited", "Limit">> >>),
       FALSE)

InstructionFields ==
  [WithdrawAssetMultiAssets |-> Slice(Named("MultiAssetV1")),
   ReserveAssetDepositedMultiAssets |-> Slice(Named("MultiAssetV1")),
   ReceiveTeleportedAssetMultiAssets |-> Slice(Named("MultiAssetV1")),
   QueryResponseQueryID |-> UCompact,
   QueryResponseResponse |-> Named("Response"),
   QueryResponseMaxWeight |-> UCompact,
   TransferAssetAssets |-> Slice(Named("MultiAssetV1")),
   TransferAssetBeneficiary |-> Named("MultiLocationV1"),
   TransferReserveAssetMultiAssets |-> Slice(Named("MultiAssetV1")),
   TransferReserveAssetDest |-> Named("MultiLocationV1"),
   TransferReserveAssetXCM |-> Slice(Named("Instruction")),
   TransactOriginType |-> Named("OriginKind"),
   TransactRequireWeightAtMost |-> UCompact,
   TransactCall |-> Named("EncodedCall"),
   HrmpNewChannelOpenRequestSender |-> U32,
   HrmpNewChannelOpenRequestMaxMessageSize |-> U32,
   HrmpNewChannelOpenRequestMaxCapacity |-> U32,
   HrmpChannelAcceptedRecipient |-> U32, HrmpChannelClosingInitiator |-> U32,
   HrmpChannelClosingSender |-> U32, HrmpChannelClosingRecipient |-> U32,
   DescendOriginLocation |-> Named("JunctionsV1"), ReportErrorQueryID |-> U64,
   ReportErrorDestination |-> Named("MultiLocationV1"),
   ReportErrorMaxResponseWeight |-> U64,
   DepositAssetMultiAssetFilter |-> Named("MultiAssetFilter"),
   DepositAssetMaxAssets |-> U32,
   DepositAssetBeneficiary |-> Named("MultiLocationV1"),
   DepositReserveAssetMultiAssetFilter |-> Named("MultiAssetFilter"),
   DepositReserveAssetMaxAssets |-> U32,
   DepositReserveAssetDest |-> Named("MultiLocationV1"),
   DepositReserveAssetXCM |-> Slice(Named("Instruction")),
   ExchangeAssetGive |-> Named("MultiAssetFilter"),
   ExchangeAssetReceive |-> Slice(Named("MultiAssetV1")),
   InitiateReserveWithdrawAssets |-> Named("MultiAssetFilter"),
   InitiateReserveWithdrawReserve |-> Named("MultiLocationV1"),
   InitiateReserveWithdrawXCM |-> Slice(Named("Instruction")),
   InitiateTeleportAssets |-> Named("MultiAssetFilter"),
   InitiateTeleportDest |-> Named("MultiLocationV1"),
   InitiateTeleportXCM |-> Slice(Named("Instruction")),
   QueryHoldingQueryID |-> U64, QueryHoldingDest |-> Named("MultiLocationV1"),
   QueryHoldingAssets |-> Named("MultiAssetFilter"),
   QueryHoldingMaxResponseWeight |-> U64,
   BuyExecutionFees |-> Named("MultiAssetV1"),
   BuyExecutionWeightLimit |-> Named("WeightLimit"),
   SetErrorHandlerXCM |-> Slice(Named("Instruction")),
   SetAppendixXCM |-> Slice(Named("Instruction")),
   ClaimAssetAssets |-> Slice(Named("MultiAssetV1")),
   ClaimAssetTicket |-> Named("MultiLocationV1"), TrapCode |-> U64,
   SubscribeVersionQueryID |-> U64, SubscribeVersionMaxResponseWeight |-> U64]

InstructionDecode ==
  From0(<< <<"IsWithdrawAsset", "WithdrawAssetMultiAssets">>,
           <<"IsReserveAssetDeposited", "ReserveAssetDepositedMultiAssets">>,
           <<"IsReceiveTeleportedAsset", "ReceiveTeleportedAssetMultiAssets">>,
           <<"IsQueryResponse", "QueryResponseQueryID", "QueryResponseResponse", "QueryResponseMaxWeight">>,
           <<"IsTransferAsset", "TransferAssetAssets", "TransferAssetBeneficiary">>,
           <<"IsTransferReserveAsset", "TransferReserveAssetMultiAssets", "TransferReserveAssetDest", "TransferReserveAssetXCM">>,
           <<"IsTransact", "TransactOriginType", "TransactRequireWeightAtMost", "TransactCall">>,
           <<"IsHrmpNewChannelOpenRequest", "HrmpNewChannelOpenRequestSender", "HrmpNewChannelOpenRequestMaxMessageSize", "HrmpNewChannelOpenRequestMaxCapacity">>,
           <<"IsHrmpChannelAccepted", "HrmpChannelAcceptedRecipient">>,
           <<"IsHrmpChannelClosing", "HrmpChannelClosingInitiator", "HrmpChannelClosingSender", "HrmpChannelClosingRecipient">>,
           <<"IsClearOrigin">>,
           <<"IsDescendOrigin", "DescendOriginLocation">>,
           <<"IsReportError", "ReportErrorQueryID", "ReportErrorDestination", "ReportErrorMaxResponseWeight">>,
           <<"IsDepositAsset", "DepositAssetMultiAssetFilter", "DepositAssetMaxAssets", "DepositAssetBeneficiary">>,
           <<"IsDepositReserveAsset", "DepositReserveAssetMultiAssetFilter", "DepositReserveAssetMaxAssets", "DepositReserveAssetDest", "DepositReserveAssetXCM">>,
           <<"IsExchangeAsset", "ExchangeAssetGive", "ExchangeAssetReceive">>,
           <<"IsInitiateReserveWithdraw", "InitiateReserveWithdrawAssets", "InitiateReserveWithdrawReserve", "InitiateReserveWithdrawXCM">>,
           <<"IsInitiateTeleport", "InitiateTeleportAssets", "InitiateTeleportDest", "InitiateTeleportXCM">>,
           <<"IsQueryHolding", "QueryHoldingQueryID", "QueryHoldingDest", "QueryHoldingAssets", "QueryHoldingMaxResponseWeight">>,
           <<"IsBuyExecution", "BuyExecutionFees", "BuyExecutionWeightLimit">>,
           <<"IsRefundSurplus">>,
           <<"IsSetErrorHandler", "SetErrorHandlerXCM">>,
           <<"IsSetAppendix", "SetAppendixXCM">>, <<"IsClearError">>,
           <<"IsClaimAsset", "ClaimAssetAssets", "ClaimAssetTicket">>,
           <<"IsTrap", "TrapCode">>,
           <<"IsSubscribeVersion", "SubscribeVersionQueryID", "SubscribeVersionMaxResponseWeight">>,
           <<"IsUnsubscribeVersion">> >>)

InstructionEncode ==
  From0(<< <<"IsWithdrawAsset", "WithdrawAssetMultiAssets">>,
           <<"IsReserveAssetDeposited", "ReserveAssetDepositedMultiAssets">>,
           <<"IsReceiveTeleportedAsset", "ReceiveTeleportedAssetMultiAssets">>,
           <<"IsQueryResponse", "QueryResponseQueryID", "QueryResponseResponse", "QueryResponseMaxWeight">>,
           <<"IsTransferAsset", "TransferAssetAssets", "TransferAssetBeneficiary">>,
           <<"IsTransferReserveAsset", "TransferReserveAssetMultiAssets", "TransferReserveAssetDest", "TransferReserveAssetXCM">>,
           <<"IsTransact", "TransactOriginType", "TransactRequireWeightAtMost", "TransactCall">>,
           <<"IsHrmpNewChannelOpenRequest", "HrmpNewChannelOpenRequestSender", "HrmpNewChannelOpenRequestMaxMessageSize", "HrmpNewChannelOpenRequestMaxCapacity">>,
           <<"IsHrmpChannelAccepted", "HrmpChannelAcceptedRecipient">>,
           <<"IsHrmpChannelClosing", "HrmpChannelClosingInitiator", "HrmpChannelClosingSender", "HrmpChannelClosingRecipient">>,
           <<"IsClearOrigin">>,
           <<"IsDescendOrigin", "DescendOriginLocation">>,
           <<"IsReportError", "ReportErrorQueryID", "ReportErrorDestination", "ReportErrorMaxResponseWeight">>,
           <<"IsDepositAsset", "DepositAssetMultiAssetFilter", "DepositAssetMaxAssets", "DepositAssetBeneficiary">>,
           <<"IsDepositReserveAsset", "DepositReserveAssetMultiAssetFilter", "DepositReserveAssetMaxAssets", "DepositReserveAssetDest", "DepositReserveAssetXCM">>,
           <<"IsExchangeAsset", "ExchangeAssetGive", "ExchangeAssetReceive">>,
           <<"IsInitiateReserveWithdraw", "InitiateReserveWithdrawAssets", "InitiateReserveWithdrawReserve", "InitiateReserveWithdrawXCM">>,
           <<"IsInitiateTeleport", "InitiateTeleportAssets", "InitiateTeleportDest", "InitiateTeleportXCM">>,
           <<"IsQueryHolding", "QueryHoldingQueryID", "QueryHoldingDest", "QueryHoldingAssets", "QueryHoldingMaxResponseWeight">>,
           <<"IsBuyExecution", "BuyExecutionFees", "BuyExecutionWeightLimit">>,
           <<"IsRefundSurplus">>,
           <<"IsSetErrorHandler", "SetErrorHandlerXCM">>,
           <<"IsSetAppendix", "SetAppendixXCM">>, <<"IsClearError">>,
           <<"IsClaimAsset", "ClaimAssetAssets", "ClaimAssetTicket">>,
           <<"IsTrap", "TrapCode">>,
           <<"IsSubscribeVersion", "SubscribeVersionQueryID", "SubscribeVersionMaxResponseWeight">>,
           <<"IsUnsubscribeVersion">> >>)

Instruction == Enum(InstructionFields, InstructionDecode, InstructionEncode, FALSE)

-----------------------------------------------------------------------------
\* types/xcm_error.go

XCMErrorFields ==
  [Transport |-> Text, TrapCode |-> U64, Weight |-> Named("Weight")]

XCMErrorDecode ==
  From0(<< <<"IsOverflow">>, <<"IsUnimplemented">>,
           <<"IsUntrustedReserveLocation">>,
           <<"IsUntrustedTeleportLocation">>, <<"IsMultiLocationFull">>,
           <<"IsMultiLocationNotInvertible">>, <<"IsBadOrigin">>,
           <<"IsInvalidLocation">>, <<"IsAssetNotFound">>,
           <<"IsFailedToTransactAsset">>, <<"IsNotWithdrawable">>,
           <<"IsLocationCannotHold">>, <<"IsExceedsMaxMessageSize">>,
           <<"IsDestinationUnsupported">>, <<"IsTransport", "Transport">>,
           <<"IsUnroutable">>, <<"IsUnknownClaim">>, <<"IsFailedToDecode">>,
           <<"IsMaxWeightInvalid">>, <<"IsNotHoldingFees">>,
           <<"IsTooExpensive">>, <<"IsTrap", "TrapCode">>,
           <<"IsUnhandledXcmVersion">>, <<"IsWeightLimitReached", "Weight">>,
           <<"IsBarrier">>, <<"IsWeightNotComputable">> >>)

XCMErrorEncode ==
  From0(<< <<"IsOverflow">>, <<"IsUnimplemented">>,
           <<"IsUntrustedReserveLocation">>,
           <<"IsUntrustedTeleportLocation">>, <<"IsMultiLocationFull">>,
           <<"IsMultiLocationNotInvertible">>, <<"IsBadOrigin">>,
           <<"IsInvalidLocation">>, <<"IsAssetNotFound">>,
           <<"IsFailedToTransactAsset">>, <<"IsNotWithdrawable">>,
           <<"IsLocationCannotHold">>, <<"IsExceedsMaxMessageSize">>,
           <<"IsDestinationUnsupported">>, <<"IsTransport", "Transport">>,
           <<"IsUnroutable">>, <<"IsUnknownClaim">>, <<"IsFailedToDecode">>,
           <<"IsMaxWeightInvalid">>, <<"IsNotHoldingFees">>,
           <<"IsTooExpensive">>, <<"IsTrap", "TrapCode">>,
           <<"IsUnhandledXcmVersion">>, <<"IsWeightLimitReached", "Weight">>,
           <<"IsBarrier">>, <<"IsWeightNotComputable">> >>)

XCMError == Enum(XCMErrorFields, XCMErrorDecode, XCMErrorEncode, FALSE)

-----------------------------------------------------------------------------

XcmTable ==
  [BodyID |-> BodyID, BodyPart |-> BodyPart,
   ExecutionResult |-> ExecutionResult, JunctionV0 |-> JunctionV0,
   JunctionV1 |-> JunctionV1, JunctionsV1 |-> JunctionsV1,
   MultiLocationV0 |-> MultiLocationV0, MultiLocationV1 |-> MultiLocationV1,
   VersionedMultiLocation |-> VersionedMultiLocation, NetworkID |-> NetworkID,
   Outcome |-> Outcome, Weight |-> Weight, AssetID |-> AssetID,
   AssetInstance |-> AssetInstance, Fungibility |-> Fungibility,
   MultiAssetV1 |-> MultiAssetV1, MultiAssetV0 |-> MultiAssetV0,
   VersionedMultiAssets |-> VersionedMultiAssets, Response |-> Response,
   OriginKind |-> OriginKind, EncodedCall |-> EncodedCall,
   WildFungibility |-> WildFungibility, WildMultiAsset |-> WildMultiAsset,
   MultiAssetFilter |-> MultiAssetFilter, WeightLimit |-> WeightLimit,
   Instruction |-> Instruction, XCMError |-> XCMError]

=============================================================================
