----------------------------- MODULE RuntimeTypes -----------------------------
(*****************************************************************************)
(* The tables of the other types of types/ that have methods of their own.   *)
(*****************************************************************************)
EXTENDS ScaleTypes

-----------------------------------------------------------------------------
\* types/chain_properties.go

ChainProperties ==
  Struct([AsSS58Format |-> Option(U8), AsTokenDecimals |-> Option(U32),
          AsTokenSymbol |-> Option(Text)],
         <<"AsSS58Format", "AsTokenDecimals", "AsTokenSymbol">>,
         <<"AsSS58Format", "AsTokenDecimals", "AsTokenSymbol">>)

-----------------------------------------------------------------------------
\* types/class_metadata.go

ClassMetadata ==
  Struct([Deposit |-> U128, Data |-> Bytes, IsFrozen |-> Bool],
         <<"Deposit", "Data", "IsFrozen">>,
         <<"Deposit", "Data", "IsFrozen">>)

-----------------------------------------------------------------------------
\* types/collection_details.go

CollectionDetails ==
  Struct([Owner |-> Fixed(32), Issuer |-> Fixed(32), Admin |-> Fixed(32),
          Freezer |-> Fixed(32), TotalDeposit |-> U128, FreeHolding |-> Bool,
          Instances |-> U32, InstanceMetadatas |-> U32, Attributes |-> U32,
          IsFrozen |-> Bool],
         <<"Owner", "Issuer", "Admin", "Freezer", "TotalDeposit",
           "FreeHolding", "Instances", "InstanceMetadatas", "Attributes",
           "IsFrozen">>,
         <<"Owner", "Issuer", "Admin", "Freezer", "TotalDeposit",
           "FreeHolding", "Instances", "InstanceMetadatas", "Attributes",
           "IsFrozen">>)

-----------------------------------------------------------------------------
\* types/digest_item.go

DigestItem ==
  Enum([AsChangesTrieRoot |-> Fixed(32), AsPreRuntime |-> Named("PreRuntime"),
        AsConsensus |-> Named("Consensus"), AsSeal |-> Named("Seal"),
        AsChangesTrieSignal |-> Named("ChangesTrieSignal"), AsOther |-> Bytes],
       (0 :> <<"IsOther", "AsOther">>)
    @@ (2 :> <<"IsChangesTrieRoot", "AsChangesTrieRoot">>)
    @@ (4 :> <<"IsConsensus", "AsConsensus">>)
    @@ (5 :> <<"IsSeal", "AsSeal">>)
    @@ (6 :> <<"IsPreRuntime", "AsPreRuntime">>)
    @@ (7 :> <<"IsChangesTrieSignal", "AsChangesTrieSignal">>),
       (0 :> <<"IsOther", "AsOther">>)
    @@ (2 :> <<"IsChangesTrieRoot", "AsChangesTrieRoot">>)
    @@ (4 :> <<"IsConsensus", "AsConsensus">>)
    @@ (5 :> <<"IsSeal", "AsSeal">>)
    @@ (6 :> <<"IsPreRuntime", "AsPreRuntime">>)
    @@ (7 :> <<"IsChangesTrieSignal", "AsChangesTrieSignal">>),
       FALSE)

Seal ==
  Plain([ConsensusEngineID |-> U32, Bytes |-> Bytes],
        <<"ConsensusEngineID", "Bytes">>)

Consensus ==
  Plain([ConsensusEngineID |-> U32, Bytes |-> Bytes],
        <<"ConsensusEngineID", "Bytes">>)

PreRuntime ==
  Plain([ConsensusEngineID |-> U32, Bytes |-> Bytes],
        <<"ConsensusEngineID", "Bytes">>)

ChangesTrieSignal ==
  Enum([AsNewConfiguration |-> Bytes],
       From0(<< <<"IsNewConfiguration", "AsNewConfiguration">> >>),
       From0(<< <<"IsNewConfiguration", "AsNewConfiguration">> >>),
       TRUE)

-----------------------------------------------------------------------------
\* types/dispatch_result_with_post_info.go

PostDispatchInfo ==
  Struct([ActualWeight |-> Option(Named("Weight")), PaysFee |-> Named("Pays")],
         <<"ActualWeight", "PaysFee">>,
         <<"ActualWeight", "PaysFee">>)

DispatchErrorWithPostInfo ==
  Struct([PostInfo |-> Named("PostDispatchInfo"),
          Error |-> Named("DispatchError")],
         <<"PostInfo", "Error">>,
         <<"PostInfo", "Error">>)

DispatchResultWithPostInfo ==
  Enum([Ok |-> Named("PostDispatchInfo"),
        Error |-> Named("DispatchErrorWithPostInfo")],
       From0(<< <<"IsOk", "Ok">>, <<"IsError", "Error">> >>),
       From0(<< <<"IsOk", "Ok">>, <<"IsError", "Error">> >>),
       FALSE)

-----------------------------------------------------------------------------
\* types/dispute.go

DisputeLocation ==
  Enum(<<>>,
       From0(<< <<"IsLocal">>, <<"IsRemote">> >>),
       From0(<< <<"IsLocal">>, <<"IsRemote">> >>),
       FALSE)

DisputeResult ==
  Enum(<<>>,
       From0(<< <<"IsValid">>, <<"IsInvalid">> >>),
       From0(<< <<"IsValid">>, <<"IsInvalid">> >>),
       FALSE)

-----------------------------------------------------------------------------
\* types/errors.go

ModuleError ==
  Struct([Index |-> U8, Error |-> Fixed(4)],
         <<"Index", "Error">>,
         <<"Index", "Error">>)

TokenError ==
  Enum(<<>>,
       From0(<< <<"IsNoFunds">>, <<"IsWouldDie">>, <<"IsBelowMinimum">>,
                <<"IsCannotCreate">>, <<"IsUnknownAsset">>, <<"IsFrozen">>,
                <<"IsUnsupported">> >>),
       From0(<< <<"IsNoFunds">>, <<"IsWouldDie">>, <<"IsBelowMinimum">>,
                <<"IsCannotCreate">>, <<"IsUnknownAsset">>, <<"IsFrozen">>,
                <<"IsUnsupported">> >>),
       FALSE)

ArithmeticError ==
  Enum(<<>>,
       From0(<< <<"IsUnderflow">>, <<"IsOverflow">>, <<"IsDivisionByZero">> >>),
       From0(<< <<"IsUnderflow">>, <<"IsOverflow">>, <<"IsDivisionByZero">> >>),
       FALSE)

TransactionalError ==
  Enum(<<>>,
       From0(<< <<"IsLimitReached">>, <<"IsNoLayer">> >>),
       From0(<< <<"IsLimitReached">>, <<"IsNoLayer">> >>),
       FALSE)

DispatchError ==
  Enum([ModuleError |-> Named("ModuleError"),
        TokenError |-> Named("TokenError"),
        ArithmeticError |-> Named("ArithmeticError"),
        TransactionalError |-> Named("TransactionalError")],
       From0(<< <<"IsOther">>, <<"IsCannotLookup">>, <<"IsBadOrigin">>,
                <<"IsModule", "ModuleError">>, <<"IsConsumerRemaining">>,
                <<"IsNoProviders">>, <<"IsTooManyConsumers">>,
                <<"IsToken", "TokenError">>,
                <<"IsArithmetic", "ArithmeticError">>,
                <<"IsTransactional", "TransactionalError">> >>),
       From0(<< <<"IsOther">>, <<"IsCannotLookup">>, <<"IsBadOrigin">>,
                <<"IsModule", "ModuleError">>, <<"IsConsumerRemaining">>,
                <<"IsNoProviders">>, <<"IsTooManyConsumers">>,
                <<"IsToken", "TokenError">>,
                <<"IsArithmetic", "ArithmeticError">>,
                <<"IsTransactional", "TransactionalError">> >>),
       FALSE)

-----------------------------------------------------------------------------
\* types/event_record.go

Phase ==
  Enum([AsApplyExtrinsic |-> U32],
       From0(<< <<"IsApplyExtrinsic", "AsApplyExtrinsic">>,
                <<"IsFinalization">>, <<"IsInitialization">> >>),
       From0(<< <<"IsApplyExtrinsic", "AsApplyExtrinsic">>,
                <<"IsFinalization">>, <<"IsInitialization">> >>),
       FALSE)

-----------------------------------------------------------------------------
\* types/events.go

CrossChainTransferability ==
  Enum([AsXcm |-> Named("XcmMetadata"), AsAll |-> Named("XcmMetadata")],
       From0(<< <<"IsNone">>, <<"IsXcm", "AsXcm">>, <<"IsConnectors">>,
                <<"IsAll", "AsAll">> >>),
       From0(<< <<"IsNone">>, <<"IsXcm", "AsXcm">>, <<"IsConnectors">>,
                <<"IsAll", "AsAll">> >>),
       TRUE)

XcmMetadata ==
  Plain([FeePerSecond |-> Option(U128)],
        <<"FeePerSecond">>)

Pays ==
  Enum(<<>>, From0(<< <<"IsYes">>, <<"IsNo">> >>), From0(<< <<"IsYes">>, <<"IsNo">> >>), FALSE)

DispatchInfo ==
  Struct([Weight |-> Named("Weight"), Class |-> Named("DispatchClass"),
          PaysFee |-> Named("Pays")],
         <<"Weight", "Class", "PaysFee">>,
         <<"Weight", "Class", "PaysFee">>)

DispatchClass ==
  Enum(<<>>,
       From0(<< <<"IsNormal">>, <<"IsOperational">>, <<"IsMandatory">> >>),
       From0(<< <<"IsNormal">>, <<"IsOperational">>, <<"IsMandatory">> >>),
       FALSE)

\* A vote is one byte, with the conviction in its lower seven bits.
VoteAccountVoteAsStandard ==
  Struct([Vote |-> U8, Balance |-> U128],
         <<"Vote", "Balance">>,
         <<"Vote", "Balance">>)

VoteAccountVoteAsSplit ==
  Plain([Aye |-> U128, Nay |-> U128],
        <<"Aye", "Nay">>)

VoteAccountVote ==
  Enum([AsStandard |-> Named("VoteAccountVoteAsStandard"),
        AsSplit |-> Named("VoteAccountVoteAsSplit")],
       From0(<< <<"IsStandard", "AsStandard">>, <<"IsSplit", "AsSplit">> >>),
       From0(<< <<"IsStandard", "AsStandard">>, <<"IsSplit", "AsSplit">> >>),
       FALSE)

\* Any tag other than 0 is an error.
DispatchResult ==
  Enum([Error |-> Named("DispatchError")],
       [t \in 0..255 |-> IF t = 0 THEN <<"Ok">> ELSE <<"not Ok", "Error">>],
       From0(<< <<"Ok">>, <<"not Ok", "Error">> >>),
       FALSE)

-----------------------------------------------------------------------------
\* types/extrinsic.go

CallIndex ==
  Struct([SectionIndex |-> U8, MethodIndex |-> U8],
         <<"SectionIndex", "MethodIndex">>,
         <<"SectionIndex", "MethodIndex">>)

-----------------------------------------------------------------------------
\* types/extrinsic_status.go

ExtrinsicStatus ==
  Enum([AsBroadcast |-> Slice(Text), AsInBlock |-> Fixed(32),
        AsRetracted |-> Fixed(32), AsFinalityTimeout |-> Fixed(32),
        AsFinalized |-> Fixed(32), AsUsurped |-> Fixed(32)],
       From0(<< <<"IsFuture">>, <<"IsReady">>,
                <<"IsBroadcast", "AsBroadcast">>,
                <<"IsInBlock", "AsInBlock">>,
                <<"IsRetracted", "AsRetracted">>,
                <<"IsFinalityTimeout", "AsFinalityTimeout">>,
                <<"IsFinalized", "AsFinalized">>,
                <<"IsUsurped", "AsUsurped">>, <<"IsDropped">>, <<"IsInvalid">> >>),
       From0(<< <<"IsFuture">>, <<"IsReady">>,
                <<"IsBroadcast", "AsBroadcast">>,
                <<"IsInBlock", "AsInBlock">>,
                <<"IsRetracted", "AsRetracted">>,
                <<"IsFinalityTimeout", "AsFinalityTimeout">>,
                <<"IsFinalized", "AsFinalized">>,
                <<"IsUsurped", "AsUsurped">>, <<"IsDropped">>, <<"IsInvalid">> >>),
       FALSE)

-----------------------------------------------------------------------------
\* types/hrmp.go

HRMPChannelID ==
  Struct([Sender |-> U32, Recipient |-> U32],
         <<"Sender", "Recipient">>,
         <<"Sender", "Recipient">>)

-----------------------------------------------------------------------------
\* types/item_details.go

ItemDetails ==
  Struct([Owner |-> Fixed(32), Approved |-> Option(Fixed(32)),
          IsFrozen |-> Bool, Deposit |-> U128],
         <<"Owner", "Approved", "IsFrozen", "Deposit">>,
         <<"Owner", "Approved", "IsFrozen", "Deposit">>)

-----------------------------------------------------------------------------
\* types/item_metadata.go

ItemMetadata ==
  Struct([Deposit |-> U128, Data |-> Bytes, IsFrozen |-> Bool],
         <<"Deposit", "Data", "IsFrozen">>,
         <<"Deposit", "Data", "IsFrozen">>)

-----------------------------------------------------------------------------
\* types/lottery_call_index.go

LotteryCallIndex ==
  Struct([PalletIndex |-> U8, CallIndex |-> U8],
         <<"PalletIndex", "CallIndex">>,
         <<"PalletIndex", "CallIndex">>)

-----------------------------------------------------------------------------
\* types/migration_compute.go

MigrationCompute ==
  Enum(<<>>,
       From0(<< <<"IsSigned">>, <<"IsAuto">> >>),
       From0(<< <<"IsSigned">>, <<"IsAuto">> >>),
       FALSE)

-----------------------------------------------------------------------------
\* types/multi_address.go

MultiAddress ==
  Enum([AsID |-> Fixed(32), AsIndex |-> U32, AsRaw |-> Bytes,
        AsAddress32 |-> Fixed(32), AsAddress20 |-> Fixed(20)],
       From0(<< <<"IsID", "AsID">>, <<"IsIndex", "AsIndex">>,
                <<"IsRaw", "AsRaw">>, <<"IsAddress32", "AsAddress32">>,
                <<"IsAddress20", "AsAddress20">> >>),
       From0(<< <<"IsID", "AsID">>, <<"IsIndex", "AsIndex">>,
                <<"IsRaw", "AsRaw">>, <<"IsAddress32", "AsAddress32">>,
                <<"IsAddress20", "AsAddress20">> >>),
       FALSE)

-----------------------------------------------------------------------------
\* types/multi_signature.go

MultiSignature ==
  Enum([AsEd25519 |-> Fixed(64), AsSr25519 |-> Fixed(64),
        AsEcdsa |-> Fixed(65)],
       From0(<< <<"IsEd25519", "AsEd25519">>, <<"IsSr25519", "AsSr25519">>,
                <<"IsEcdsa", "AsEcdsa">> >>),
       From0(<< <<"IsEd25519", "AsEd25519">>, <<"IsSr25519", "AsSr25519">>,
                <<"IsEcdsa", "AsEcdsa">> >>),
       FALSE)

-----------------------------------------------------------------------------
\* types/proxy.go

ProxyDefinition ==
  Struct([Delegate |-> Fixed(32), ProxyType |-> U8, Delay |-> U32],
         <<"Delegate", "ProxyType", "Delay">>,
         <<"Delegate", "ProxyType", "Delay">>)

ProxyStorageEntry ==
  Struct([ProxyDefinitions |-> Slice(Named("ProxyDefinition")),
          Balance |-> U128],
         <<"ProxyDefinitions", "Balance">>,
         <<"ProxyDefinitions", "Balance">>)

-----------------------------------------------------------------------------
\* types/runtime_version.go

\* TransactionVersion is a field of the struct that neither method mentions.
RuntimeVersion ==
  Struct([APIs |-> Slice(Named("RuntimeVersionAPI")),
          AuthoringVersion |-> U32, ImplName |-> Text, ImplVersion |-> U32,
          SpecName |-> Text, SpecVersion |-> U32,
          TransactionVersion |-> U32],
         <<"APIs", "AuthoringVersion", "ImplName", "ImplVersion", "SpecName",
           "SpecVersion">>,
         <<"APIs", "AuthoringVersion", "ImplName", "ImplVersion", "SpecName",
           "SpecVersion">>)

RuntimeVersionAPI ==
  Struct([APIID |-> Text, Version |-> U32],
         <<"APIID", "Version">>,
         <<"APIID", "Version">>)

-----------------------------------------------------------------------------
\* types/sale.go

Tranche ==
  Struct([FirstVal |-> U64, SecondVal |-> Fixed(16)],
         <<"FirstVal", "SecondVal">>,
         <<"FirstVal", "SecondVal">>)

PermissionedCurrency ==
  Struct(<<>>,
         <<>>,
         <<>>)

StakingCurrency ==
  Enum(<<>>,
       From0(<< <<"IsBlockRewards">> >>),
       From0(<< <<"IsBlockRewards">> >>),
       TRUE)

CurrencyID ==
  Enum([Tranche |-> Named("Tranche"), AsForeignAsset |-> U32,
        AsStaking |-> Named("StakingCurrency")],
       From0(<< <<"IsNative">>, <<"IsTranche", "Tranche">>, <<"IsKSM">>,
                <<"IsAUSD">>, <<"IsForeignAsset", "AsForeignAsset">>,
                <<"IsStaking", "AsStaking">> >>),
       From0(<< <<"IsNative">>, <<"IsTranche", "Tranche">>, <<"IsKSM">>,
                <<"IsAUSD">>, <<"IsForeignAsset", "AsForeignAsset">>,
                <<"IsStaking", "AsStaking">> >>),
       TRUE)

Price ==
  Struct([CurrencyID |-> Named("CurrencyID"), Amount |-> U128],
         <<"CurrencyID", "Amount">>,
         <<"CurrencyID", "Amount">>)

Sale ==
  Struct([Seller |-> Fixed(32), Price |-> Named("Price")],
         <<"Seller", "Price">>,
         <<"Seller", "Price">>)

-----------------------------------------------------------------------------
\* types/tally.go

Tally ==
  Struct([Votes |-> U128, Total |-> U128],
         <<"Votes", "Total">>,
         <<"Votes", "Total">>)

-----------------------------------------------------------------------------

RuntimeTable ==
  [ChainProperties |-> ChainProperties, ClassMetadata |-> ClassMetadata,
   CollectionDetails |-> CollectionDetails, DigestItem |-> DigestItem,
   Seal |-> Seal, Consensus |-> Consensus, PreRuntime |-> PreRuntime,
   ChangesTrieSignal |-> ChangesTrieSignal,
   PostDispatchInfo |-> PostDispatchInfo,
   DispatchErrorWithPostInfo |-> DispatchErrorWithPostInfo,
   DispatchResultWithPostInfo |-> DispatchResultWithPostInfo,
   DisputeLocation |-> DisputeLocation, DisputeResult |-> DisputeResult,
   ModuleError |-> ModuleError, TokenError |-> TokenError,
   ArithmeticError |-> ArithmeticError,
   TransactionalError |-> TransactionalError, DispatchError |-> DispatchError,
   Phase |-> Phase, CrossChainTransferability |-> CrossChainTransferability,
   XcmMetadata |-> XcmMetadata, Pays |-> Pays, DispatchInfo |-> DispatchInfo,
   DispatchClass |-> DispatchClass,
   VoteAccountVoteAsStandard |-> VoteAccountVoteAsStandard,
   VoteAccountVoteAsSplit |-> VoteAccountVoteAsSplit,
   VoteAccountVote |-> VoteAccountVote, DispatchResult |-> DispatchResult,
   CallIndex |-> CallIndex, ExtrinsicStatus |-> ExtrinsicStatus,
   HRMPChannelID |-> HRMPChannelID, ItemDetails |-> ItemDetails,
   ItemMetadata |-> ItemMetadata, LotteryCallIndex |-> LotteryCallIndex,
   MigrationCompute |-> MigrationCompute, MultiAddress |-> MultiAddress,
   MultiSignature |-> MultiSignature, ProxyDefinition |-> ProxyDefinition,
   ProxyStorageEntry |-> ProxyStorageEntry, RuntimeVersion |-> RuntimeVersion,
   RuntimeVersionAPI |-> RuntimeVersionAPI, Tranche |-> Tranche,
   PermissionedCurrency |-> PermissionedCurrency,
   StakingCurrency |-> StakingCurrency, CurrencyID |-> CurrencyID,
   Price |-> Price, Sale |-> Sale, Tally |-> Tally]

=============================================================================
