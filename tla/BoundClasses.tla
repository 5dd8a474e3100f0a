---------------------------- MODULE BoundClasses ----------------------------
(***************************************************************************)
(* The classes of the binding: for every bound C++ class the attributes a  *)
(* Python program sees and the way each one is bound, which decides        *)
(* whether the program is handed a view or a copy.                         *)
(*                                                                         *)
(*   part      def_readwrite of a bound class: a view into the owner       *)
(*   optional  decode/encode_optional_type of a bound class: a copy, or None *)
(*   ref       decode/encode_smart_ref: a copy, never None                 *)
(*   list      encode/decode_list of a bound class: a list of copies       *)
(*   maybe     an optional number or str, or asset.cpp's extension types   *)
(*   plain     a number, bool, str or enum, or a list of those             *)
(*   extended  a set or a dict, which assignments add to: PropertyCodec    *)
(*             models those, ObjectModel leaves them alone                 *)
(*   bytes     a vector<char>: a bytearray that is copied, or None if empty *)
(*   payload   read out of and written into the bytes of data              *)
(*   raw       def_readwrite of a type that has converters and no class:   *)
(*             it can be assigned, and reading it raises TypeError         *)
(*                                                                         *)
(* Classes that occur here and have no attributes of their own (ids, keys, *)
(* hashes, times) are opaque: nothing in them can be written.  Methods are *)
(* not listed.                                                             *)
(***************************************************************************)
EXTENDS Sequences, TLC

LOCAL Bind(k, c, names) == [a \in names |-> [kind |-> k, class |-> c, set |-> TRUE]]

Parts(c, names)     == Bind("part", c, names)
Optionals(c, names) == Bind("optional", c, names)
Refs(c, names)      == Bind("ref", c, names)
Lists(c, names)     == Bind("list", c, names)
Maybes(names)       == Bind("maybe", "none", names)
Plain(names)        == Bind("plain", "none", names)
Bytes(names)        == Bind("bytes", "none", names)
Payloads(c, names)  == Bind("payload", c, names)
Extended(names)     == Bind("extended", "none", names)
Raw(names)          == Bind("raw", "none", names)

ReadOnly(attributes) == [a \in DOMAIN attributes |-> [attributes[a] EXCEPT !.set = FALSE]]

\* What every operation starts with, and what every object of the chain has.
Fee == Parts("Balance", {"fee"})

ObjectBase == ReadOnly(Parts("ObjectId", {"object_id"}))

Accounts(names) == Parts("AccountId", names)

-----------------------------------------------------------------------------
CommonClasses ==
    [UInt128     |-> Plain({"hi", "lo"}),
     Balance     |-> Plain({"amount"}) @@ Parts("AssetId", {"asset_id"}),
     Price       |-> Parts("Balance", {"base", "quote"}),
     Memo        |-> Parts("PublicKey", {"sender", "receiver"}) @@ Plain({"nonce"})
                        @@ Bytes({"message"})]

Body == Plain({"ref_block_num", "ref_block_prefix"}) @@ Parts("TimePointSec", {"expiration"})
            @@ Lists("Operation", {"operations"})

Signed == Body @@ Lists("CompactSignature", {"signatures"})

Header == Parts("RIPEMD160", {"previous"}) @@ Parts("TimePointSec", {"timestamp"})
            @@ Parts("MinerId", {"miner"}) @@ Parts("RIPEMD160", {"transaction_merkle_root"})

SignedHeader == Header @@ Parts("CompactSignature", {"miner_signature"})

Block == SignedHeader @@ ReadOnly(Lists("ProcessedTransaction", {"transactions"}))

TransactionClasses ==
    [Transaction          |-> Body,
     SignedTransaction    |-> Signed,
     ProcessedTransaction |-> Signed @@ Lists("Result", {"operation_results"}),
     BlockHeader          |-> Header,
     SignedBlockHeader    |-> SignedHeader,
     SignedBlock          |-> Block,
     SignedBlockInfo      |-> Block @@ ReadOnly(Lists("RIPEMD160", {"transaction_ids"})
                                                  @@ Plain({"miner_reward"}))]

BalanceEx == CommonClasses["Balance"] @@ ReadOnly(Plain({"pretty_amount"}))

AccountClasses ==
    [Authority        |-> Plain({"weight_threshold"}) @@ Extended({"account_auths", "key_auths"}),
     AccountOptions   |-> Parts("PublicKey", {"memo_key"}) @@ Accounts({"voting_account"})
                            @@ Plain({"num_miner", "allow_subscription", "subscription_period"})
                            @@ Parts("Balance", {"price_per_subscribe"}) @@ Extended({"votes"}),
     PublishingRights |-> Plain({"is_publishing_manager"})
                            @@ Extended({"publishing_rights_received", "publishing_rights_forwarded"}),
     Account          |-> ObjectBase @@ Plain({"name", "top_n_control_flags"}) @@ Accounts({"registrar"})
                            @@ Parts("Authority", {"owner", "active"}) @@ Parts("AccountOptions", {"options"})
                            @@ Parts("PublishingRights", {"rights_to_publish"})
                            @@ Parts("AccountStatisticsId", {"statistics"}),
     AccountBalance   |-> ObjectBase @@ Accounts({"owner"}) @@ Parts("AssetId", {"asset_type"})
                            @@ Plain({"balance"}),
     AccountStats     |-> ObjectBase @@ Accounts({"owner"})
                            @@ Parts("AccountTransactionHistoryId", {"most_recent_op"})
                            @@ Plain({"total_ops", "total_core_in_orders", "pending_fees",
                                      "pending_vested_fees"})]

AssetClasses ==
    [PriceFeed             |-> Parts("Price", {"core_exchange_rate"}),
     PriceFeedTime         |-> Parts("TimePointSec", {"time"}) @@ Parts("PriceFeed", {"feed"}),
     MonitoredAssetOptions |-> Extended({"feeds"}) @@ Parts("PriceFeed", {"current_feed"})
                                 @@ Parts("TimePointSec", {"current_feed_publication_time"})
                                 @@ Plain({"feed_lifetime_sec", "minimum_feeds"}),
     AssetOptions          |-> Plain({"max_supply", "exchangeable"}) @@ Maybes({"fixed_max_supply"})
                                 @@ Parts("Price", {"core_exchange_rate"}),
     Asset                 |-> ObjectBase @@ Plain({"symbol", "precision", "description"})
                                 @@ Accounts({"issuer"}) @@ Parts("AssetOptions", {"options"})
                                 @@ Optionals("MonitoredAssetOptions", {"monitored_asset_opts"})
                                 @@ Parts("AssetDynamicDataId", {"dynamic_asset_data_id"}),
     AssetDynamicData      |-> ObjectBase @@ Plain({"current_supply", "asset_pool", "core_pool"})]

ChainClasses ==
    [FeeSchedule     |-> Plain({"scale"}) @@ Extended({"parameters"}),
     ChainParameters |-> Refs("FeeSchedule", {"current_fees"})
         @@ Plain({"block_interval", "maintenance_interval", "maintenance_skip_slots",
                   "miner_proposal_review_period", "maximum_transaction_size", "maximum_block_size",
                   "maximum_time_until_expiration", "maximum_proposal_lifetime",
                   "maximum_asset_feed_publishers", "maximum_miner_count",
                   "maximum_authority_membership", "cashback_vesting_period_seconds",
                   "cashback_vesting_threshold", "miner_pay_vesting_seconds",
                   "max_predicate_opcode", "max_authority_depth"}),
     ChainImmutableParameters |-> Plain({"min_miner_count", "num_special_accounts", "num_special_assets"}),
     ChainProperties  |-> ObjectBase @@ Parts("SHA256", {"chain_id"})
         @@ Parts("ChainImmutableParameters", {"immutable_parameters"}),
     GlobalProperties |-> ObjectBase @@ Parts("ChainParameters", {"parameters"})
         @@ Optionals("ChainParameters", {"pending_parameters"}) @@ Plain({"next_available_vote_id"})
         @@ Lists("MinerId", {"active_miners"}),
     DynamicGlobalProperties |-> ObjectBase @@ Parts("RIPEMD160", {"head_block_id"})
         @@ Parts("TimePointSec", {"time", "next_maintenance_time", "last_budget_time"})
         @@ Parts("MinerId", {"current_miner"}) @@ Parts("UInt128", {"recent_slots_filled"})
         @@ Plain({"head_block_number", "miner_budget_from_fees", "unspent_fee_budget",
                   "mined_rewards", "miner_budget_from_rewards", "accounts_registered_this_interval",
                   "recently_missed_count", "current_aslot", "dynamic_flags",
                   "last_irreversible_block_num"})]

MinerClasses ==
    [VoteId        |-> Plain({"instance"}),
     VotingInfo    |-> Parts("VoteId", {"id"}) @@ Plain({"name", "url", "total_votes", "voted"}),
     MinerVotesGained |-> Accounts({"account"}) @@ Plain({"votes"}),
     Miner         |-> ObjectBase @@ Accounts({"account"}) @@ Parts("PublicKey", {"signing_key"})
                         @@ Parts("VoteId", {"vote_id"}) @@ Optionals("VestingBalanceId", {"pay_vb"})
                         @@ Plain({"last_aslot", "total_votes", "url", "total_missed",
                                   "last_confirmed_block_num", "vote_ranking"})
                         @@ Lists("MinerVotesGained", {"votes_gained"}),
     LinearVesting |-> Parts("TimePointSec", {"begin"})
                         @@ Plain({"vesting_cliff_seconds", "vesting_duration_seconds", "balance"}),
     CddVesting    |-> Parts("UInt128", {"coin_seconds_earned"}) @@ Plain({"vesting_seconds"})
                         @@ Parts("TimePointSec", {"start_claim", "coin_seconds_earned_last_update"}),
     VestingBalance |-> ObjectBase @@ Accounts({"owner"}) @@ Parts("Balance", {"balance"})
                         @@ Parts("VestingPolicy", {"policy"})]

TokenClasses ==
    [NonFungibleTokenDataValue      |-> Plain({"name"}) @@ Raw({"value"}),
     NonFungibleTokenDataDefinition |-> Plain({"unique", "modifiable", "type"}) @@ Maybes({"name"}),
     NonFungibleTokenOptions        |-> Accounts({"issuer"})
                                          @@ Plain({"max_supply", "fixed_max_supply", "description"}),
     NonFungibleToken               |-> ObjectBase @@ Plain({"symbol", "transferable", "current_supply"})
                                          @@ Parts("NonFungibleTokenOptions", {"options"})
                                          @@ Lists("NonFungibleTokenDataDefinition", {"definitions"}),
     NonFungibleTokenData           |-> ObjectBase @@ Parts("NonFungibleTokenId", {"nft_id"})
                                          @@ Accounts({"owner"}) @@ Plain({"data"})]
=============================================================================
