-------------------------- MODULE OperationClasses --------------------------
(***************************************************************************)
(* The operations of operation.cpp and the static variants: which classes  *)
(* one can be made from, and which property reads each of them back.       *)
(***************************************************************************)
EXTENDS BoundClasses

Times(names) == Parts("TimePointSec", names)

Amounts(names) == Parts("Balance", names)

OptionalMemo == Optionals("Memo", {"memo"})

AccountOperations ==
    [CreateAccount |-> Fee @@ Accounts({"registrar"}) @@ Plain({"name"})
         @@ Parts("Authority", {"owner", "active"}) @@ Parts("AccountOptions", {"options"}),
     UpdateAccount |-> Fee @@ Accounts({"account"}) @@ Optionals("Authority", {"owner", "active"})
         @@ Optionals("AccountOptions", {"options"})]

AssetOperations ==
    [CreateAsset |-> Fee @@ Accounts({"issuer"}) @@ Plain({"symbol", "precision", "description"})
         @@ Parts("AssetOptions", {"options"})
         @@ Optionals("MonitoredAssetOptions", {"monitored_asset_options"}),
     IssueAsset |-> Fee @@ Accounts({"issuer", "receiver"}) @@ Amounts({"asset"}) @@ OptionalMemo,
     PublishAssetFeed |-> Fee @@ Accounts({"publisher"}) @@ Parts("AssetId", {"asset"})
         @@ Parts("PriceFeed", {"feed"})]

MinerOperations ==
    [CreateMiner |-> Fee @@ Accounts({"miner_account"}) @@ Plain({"url"})
         @@ Parts("PublicKey", {"block_signing_key"}),
     UpdateMiner |-> Fee @@ Parts("MinerId", {"miner"}) @@ Accounts({"miner_account"})
         @@ Maybes({"url"}) @@ Optionals("PublicKey", {"block_signing_key"}),
     UpdateGlobalParameters |-> Fee @@ Parts("ChainParameters", {"parameters"})]

ProposalOperations ==
    [CreateProposal |-> Fee @@ Accounts({"payer"}) @@ Lists("Operation", {"proposed_operations"})
         @@ Times({"expiration_time"}) @@ Maybes({"review_period_seconds"}),
     UpdateProposal |-> Fee @@ Accounts({"payer"}) @@ Parts("ProposalId", {"proposal"})
         @@ Extended({"active_approvals_to_add", "active_approvals_to_remove", "owner_approvals_to_add",
                      "owner_approvals_to_remove", "key_approvals_to_add", "key_approvals_to_remove"}),
     DeleteProposal |-> Fee @@ Accounts({"payer"}) @@ Plain({"using_owner_authority"})
         @@ Parts("ProposalId", {"proposal"})]

WithdrawLimit == Accounts({"from_account", "authorized_account"}) @@ Amounts({"limit"})
    @@ Plain({"period_sec", "periods_until_expiration"}) @@ Times({"period_start_time"})

Permission == Parts("WithdrawPermissionId", {"permission"})

WithdrawOperations ==
    [CreateWithdrawPermission |-> Fee @@ WithdrawLimit,
     UpdateWithdrawPermission |-> Fee @@ WithdrawLimit @@ Permission,
     ClaimWithdrawPermission |-> Fee @@ Accounts({"from_account", "to_account"}) @@ Permission
         @@ Amounts({"amount"}) @@ OptionalMemo,
     DeleteWithdrawPermission |-> Fee @@ Accounts({"from_account", "authorized_account"}) @@ Permission]

VestingOperations ==
    [CreateVestingBalance |-> Fee @@ Accounts({"creator", "owner"}) @@ Amounts({"amount"})
         @@ Parts("Policy", {"policy"}),
     LinearPolicy |-> Times({"begin"}) @@ Plain({"vesting_cliff_seconds", "vesting_duration_seconds"}),
     CddPolicy    |-> Times({"start_claim"}) @@ Plain({"vesting_seconds"}),
     WithdrawVestingBalance |-> Fee @@ Parts("VestingBalanceId", {"vesting_balance"})
         @@ Accounts({"owner"}) @@ Amounts({"amount"})]

CustomOperations ==
    [Custom |-> Fee @@ Accounts({"payer"}) @@ Extended({"required_auths"}) @@ Plain({"id"})
         @@ Bytes({"data"}) @@ Payloads("MessagePayload", {"message_payload"}),
     MessagePayload |-> Accounts({"sender"}) @@ Parts("PublicKey", {"key"}) @@ Lists("MessageData", {"receivers"}),
     MessageData |-> Accounts({"receiver"}) @@ Parts("PublicKey", {"key"}) @@ Plain({"nonce"})
         @@ Bytes({"data"}),
     Assert |-> Fee @@ Accounts({"payer"}) @@ Extended({"required_auths"}) @@ Lists("Predicate", {"predicates"}),
     AccountNameEquals |-> Accounts({"account"}) @@ Plain({"name"}),
     AssetNameEquals   |-> Parts("AssetId", {"asset"}) @@ Plain({"symbol"}),
     BlockIdEquals     |-> Parts("RIPEMD160", {"id"})]

ContentOperations ==
    [SubmitContent |-> Fee @@ Accounts({"author"}) @@ Extended({"co_authors"})
         @@ Plain({"uri", "size", "quorum", "synopsis"}) @@ Lists("RegionalPrice", {"price"})
         @@ Parts("RIPEMD160", {"hash"}) @@ Lists("AccountId", {"seeders"}) @@ Lists("Key", {"key_parts"})
         @@ Times({"expiration"}) @@ Amounts({"publishing_fee"}) @@ Optionals("CustodyData", {"custody_data"}),
     RegionalPrice |-> Plain({"region"}) @@ Amounts({"price"}),
     CustodyData   |-> Plain({"num"}) @@ Raw({"u_seed", "public_key"}),
     RequestToBuy  |-> Fee @@ Plain({"uri", "region_code"}) @@ Accounts({"consumer"}) @@ Amounts({"price"})
         @@ Parts("ElGamalKey", {"public_key"}),
     LeaveRatingAndComment |-> Fee @@ Plain({"uri", "rating", "comment"}) @@ Accounts({"consumer"}),
     ProofOfCustody |-> Fee @@ Accounts({"seeder"}) @@ Plain({"uri"}) @@ Optionals("CustodyProof", {"proof"}),
     CustodyProof   |-> Plain({"reference_block", "mus", "sigma"}) @@ Parts("RIPEMD160", {"seed"}),
     DeliverKeys    |-> Fee @@ Accounts({"seeder"}) @@ Parts("BuyingId", {"buying"})
         @@ Parts("DeliveryProof", {"proof"}) @@ Parts("Key", {"key"}),
     DeliveryProof  |-> Parts("ElGamalKey", {"G1", "G2", "G3", "s", "r"}),
     Key            |-> Parts("ElGamalKey", {"C1", "D1"})]

PublishingOperations ==
    [SubscribeToAuthor |-> Fee @@ Accounts({"consumer", "author"}) @@ Amounts({"price"}),
     SubscribeByAuthor |-> Fee @@ Accounts({"consumer", "author"}),
     AutomaticRenewalOfSubscription |-> Fee @@ Accounts({"consumer"})
         @@ Parts("SubscriptionId", {"subscription"}) @@ Plain({"automatic_renewal"}),
     ReportStatistics |-> Fee @@ Accounts({"consumer"}) @@ Extended({"statistics"}),
     SetPublishingManager |-> Fee @@ Accounts({"payer"}) @@ Lists("AccountId", {"publishers"})
         @@ Plain({"can_create_publishers"}),
     SetPublishingRight |-> Fee @@ Accounts({"payer"}) @@ Lists("AccountId", {"publishers"})
         @@ Plain({"can_publish"}),
     CancelContent |-> Fee @@ Accounts({"author"}) @@ Plain({"uri"})]

Pools == Amounts({"user_asset", "core_asset"})

UpdateOf(names) == Fee @@ Accounts({"payer"}) @@ Parts("AssetId", {"asset"}) @@ Plain(names)

PoolOperations ==
    [FundAssetPools |-> Fee @@ Accounts({"sender"}) @@ Pools,
     ReserveAsset   |-> Fee @@ Accounts({"payer"}) @@ Amounts({"amount"}),
     ClaimAssetFees |-> Fee @@ Accounts({"issuer"}) @@ Pools,
     UpdateAsset    |-> UpdateOf({"description", "max_supply", "exchangeable"})
         @@ Optionals("AccountId", {"issuer"}) @@ Parts("Price", {"core_exchange_rate"}),
     UpdateMonitoredAsset |-> UpdateOf({"description", "feed_lifetime_sec", "minimum_feeds"}),
     ReadyToPublish |-> Fee @@ Accounts({"seeder"}) @@ Parts("ElGamalKey", {"public_key"})
         @@ Plain({"space", "price", "ipfs_id"}) @@ Maybes({"region_code"}),
     Transfer       |-> Fee @@ Accounts({"sender", "receiver"}) @@ Amounts({"amount"}) @@ OptionalMemo,
     UpdateAssetAdvanced |-> UpdateOf({"precision", "fixed_max_supply"})]

Token == Parts("NonFungibleTokenId", {"non_fungible_token"})

TokenData == Parts("NonFungibleTokenDataId", {"non_fungible_token_data"})

TokenOperations ==
    [CreateNonFungibleToken |-> Fee @@ Plain({"symbol", "transferable"})
         @@ Parts("NonFungibleTokenOptions", {"options"})
         @@ Lists("NonFungibleTokenDataDefinition", {"definitions"}),
     UpdateNonFungibleToken |-> Fee @@ Accounts({"issuer"}) @@ Token
         @@ Parts("NonFungibleTokenOptions", {"options"}),
     IssueNonFungibleToken |-> Fee @@ Accounts({"issuer", "receiver"}) @@ Token @@ Plain({"data"})
         @@ OptionalMemo,
     TransferNonFungibleToken |-> Fee @@ Accounts({"sender", "receiver"}) @@ TokenData @@ OptionalMemo,
     UpadateNonFungibleTokenData |-> Fee @@ Accounts({"modifier"}) @@ TokenData
         @@ Lists("NonFungibleTokenDataValue", {"data"})]

-----------------------------------------------------------------------------
\* The operations, in the order of the source.
OperationConstructors ==
    {"CreateAccount", "UpdateAccount", "CreateAsset", "IssueAsset", "PublishAssetFeed", "CreateMiner",
     "UpdateMiner", "UpdateGlobalParameters", "CreateProposal", "UpdateProposal", "DeleteProposal",
     "CreateWithdrawPermission", "UpdateWithdrawPermission", "ClaimWithdrawPermission",
     "DeleteWithdrawPermission", "CreateVestingBalance", "WithdrawVestingBalance", "Custom", "Assert",
     "SubmitContent", "RequestToBuy", "LeaveRatingAndComment", "ProofOfCustody", "DeliverKeys",
     "SubscribeToAuthor", "SubscribeByAuthor", "AutomaticRenewalOfSubscription", "ReportStatistics",
     "SetPublishingManager", "SetPublishingRight", "CancelContent", "FundAssetPools", "ReserveAsset",
     "ClaimAssetFees", "UpdateAsset", "UpdateMonitoredAsset", "ReadyToPublish", "Transfer",
     "UpdateAssetAdvanced", "CreateNonFungibleToken", "UpdateNonFungibleToken", "IssueNonFungibleToken",
     "TransferNonFungibleToken", "UpadateNonFungibleTokenData"}

OperationReaders ==
    [account_create |-> "CreateAccount", account_update |-> "UpdateAccount", asset_create |-> "CreateAsset",
     asset_issue |-> "IssueAsset", asset_publish_feed |-> "PublishAssetFeed", miner_create |-> "CreateMiner",
     miner_update |-> "UpdateMiner", update_global_parameters |-> "UpdateGlobalParameters",
     proposal_create |-> "CreateProposal", proposal_update |-> "UpdateProposal",
     proposal_delete |-> "DeleteProposal", withdraw_permission_create |-> "CreateWithdrawPermission",
     withdraw_permission_update |-> "UpdateWithdrawPermission",
     withdraw_permission_claim |-> "ClaimWithdrawPermission",
     withdraw_permission_delete |-> "DeleteWithdrawPermission",
     vesting_balance_create |-> "CreateVestingBalance", vesting_balance_withdraw |-> "WithdrawVestingBalance",
     custom |-> "Custom", assert |-> "Assert", content_submit |-> "SubmitContent",
     request_to_buy |-> "RequestToBuy", leave_rating_and_comment |-> "LeaveRatingAndComment",
     proof_of_custody |-> "ProofOfCustody", deliver_keys |-> "DeliverKeys",
     subscribe_to_author |-> "SubscribeToAuthor", subscribe_by_author |-> "SubscribeByAuthor",
     automatic_renewal_of_subscription |-> "AutomaticRenewalOfSubscription",
     report_statistics |-> "ReportStatistics", set_publishing_manager |-> "SetPublishingManager",
     set_publishing_right |-> "SetPublishingRight", content_cancellation |-> "CancelContent",
     asset_fund_pools |-> "FundAssetPools", asset_reserve |-> "ReserveAsset",
     asset_claim_fees |-> "ClaimAssetFees", update_user_issued_asset |-> "UpdateAsset",
     update_monitored_asset |-> "UpdateMonitoredAsset", ready_to_publish |-> "ReadyToPublish",
     transfer |-> "Transfer", update_user_issued_asset_advanced |-> "UpdateAssetAdvanced",
     non_fungible_token_create |-> "CreateNonFungibleToken",
     non_fungible_token_update |-> "UpdateNonFungibleToken",
     non_fungible_token_issue |-> "IssueNonFungibleToken",
     non_fungible_token_transfer |-> "TransferNonFungibleToken",
     non_fungible_token_data_update |-> "UpadateNonFungibleTokenData"]

\* The two readers of a Predicate that share a name: Python keeps the second.
PredicateReaders == [linear |-> "AccountNameEquals", cdd |-> "BlockIdEquals"]

Constructors ==
    [Operation     |-> OperationConstructors,
     Policy        |-> {"LinearPolicy", "CddPolicy"},
     VestingPolicy |-> {"LinearVesting", "CddVesting"},
     Predicate     |-> {"AccountNameEquals", "AssetNameEquals", "BlockIdEquals"}]

\* Mutant: the reader of one operation reads its neighbour.
ReadersSlipped ==
    [Operation     |-> [OperationReaders EXCEPT !["asset_claim_fees"] = "ReserveAsset"],
     Policy        |-> [linear |-> "LinearPolicy", cdd |-> "CddPolicy"],
     VestingPolicy |-> [linear |-> "LinearVesting", cdd |-> "CddVesting"],
     Predicate     |-> PredicateReaders]

Readers ==
    [Operation     |-> OperationReaders,
     Policy        |-> [linear |-> "LinearPolicy", cdd |-> "CddPolicy"],
     VestingPolicy |-> [linear |-> "LinearVesting", cdd |-> "CddVesting"],
     Predicate     |-> PredicateReaders]

\* What a value-initialised static_variant holds: its first type.
Defaults ==
    [Operation     |-> "Transfer",
     Policy        |-> "LinearPolicy",
     VestingPolicy |-> "LinearVesting",
     Predicate     |-> "AccountNameEquals"]

\* bp::bases: a Transaction is expected, a SignedTransaction will do.
Bases ==
    [SignedTransaction    |-> {"Transaction"},
     ProcessedTransaction |-> {"Transaction", "SignedTransaction"},
     SignedBlockHeader    |-> {"BlockHeader"},
     SignedBlock          |-> {"BlockHeader", "SignedBlockHeader"},
     SignedBlockInfo      |-> {"BlockHeader", "SignedBlockHeader", "SignedBlock"},
     BalanceEx            |-> {"Balance"}]

\* bp::no_init: only a Wallet hands these out.
NoInit ==
    {"BalanceEx", "Account", "AccountBalance", "AccountStats", "Asset", "AssetDynamicData",
     "ChainProperties", "GlobalProperties", "DynamicGlobalProperties", "Miner", "VestingBalance",
     "NonFungibleToken", "NonFungibleTokenData"}
=============================================================================
