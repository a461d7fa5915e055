----------------------------- MODULE WireErrors -----------------------------
(***************************************************************************)
(* How every error the oracle answers with is written to JSON (the tables  *)
(* named ..._json) and read back (..._from), from q-runtime/src/wire.rs.   *)
(* A variant is known by its code.  A row lists the fields that go with    *)
(* the code, in order, each with the type it is written or read as; the    *)
(* writing side takes the type of the variant's own field, the reading     *)
(* side the reader it is passed to.                                        *)
(***************************************************************************)
EXTENDS TLC

\* Types of a field.  Err names the table a nested error is written with.
U8 == <<"u8">>
U32 == <<"u32">>
U64 == <<"u64">>
I64 == <<"i64">>
I32 == <<"i32">>
U128 == <<"u128">>
Usize == <<"usize">>
Hex(n) == <<"hex", n>>
Err(family) == <<"err", family>>

Rows(codes, fields) == [c \in codes |-> fields]

-----------------------------------------------------------------------------
spv_err_json ==
    Rows({"short_header", "pow_not_met", "empty_chain", "merkle_mismatch",
           "height_overflow", "height_out_of_range",
           "checkpoint_not_in_chain", "checkpoint_mismatch",
           "insufficient_work", "checkpoint_not_armed", "deposit_too_large",
           "malformed_transaction", "transaction_mismatch",
           "merkle_branch_too_long"},
         <<>>)
    @@ Rows({"target_below_floor", "broken_link", "retarget_on_a_non_boundary",
           "retarget_mismatch", "unverifiable_retarget",
           "non_canonical_bits", "median_time_past"},
         <<<<"index", Usize>>>>)
    @@ Rows({"insufficient_confirmations"},
         <<<<"have", U32>>, <<"need", U32>>>>)

spv_err_from ==
    Rows({"short_header", "pow_not_met", "empty_chain", "merkle_mismatch",
           "height_overflow", "height_out_of_range",
           "checkpoint_not_in_chain", "checkpoint_mismatch",
           "insufficient_work", "checkpoint_not_armed",
           "malformed_transaction", "transaction_mismatch",
           "deposit_too_large", "merkle_branch_too_long"},
         <<>>)
    @@ Rows({"target_below_floor", "broken_link", "retarget_on_a_non_boundary",
           "retarget_mismatch", "unverifiable_retarget",
           "non_canonical_bits", "median_time_past"},
         <<<<"index", Usize>>>>)
    @@ Rows({"insufficient_confirmations"},
         <<<<"have", U32>>, <<"need", U32>>>>)

eth_err_json ==
    Rows({"not_beacon_chain", "wrong_period", "bad_finality_proof",
           "bad_ancestry", "bad_execution_proof", "bad_sync_committee_proof",
           "untrusted_checkpoint", "unpinned_chain_config", "bad_signature",
           "missing_receipt", "update_changes_nothing",
           "unconfigured_deposit_contract"},
         <<>>)
    @@ Rows({"receipt"}, <<<<"receipt", Err("receipt")>>>>)
    @@ Rows({"mpt"}, <<<<"mpt", Err("mpt")>>>>)
    @@ Rows({"invalid_participation_length"},
         <<<<"got", Usize>>, <<"expected", Usize>>>>)
    @@ Rows({"insufficient_participation"},
         <<<<"got", Usize>>, <<"needed", Usize>>>>)
    @@ Rows({"stale_store"},
         <<<<"store_period", U64>>, <<"attested_period", U64>>>>)
    @@ Rows({"bootstrap_period_mismatch"},
         <<<<"period", U64>>, <<"slot", U64>>>>)
    @@ Rows({"inconsistent_slots"},
         <<<<"signature_slot", U64>>, <<"attested_slot", U64>>>>)
    @@ Rows({"cap_exceeded"}, <<<<"amount", U128>>, <<"cap", U128>>>>)

eth_err_from ==
    Rows({"not_beacon_chain", "wrong_period", "bad_finality_proof",
           "bad_ancestry", "bad_execution_proof", "bad_sync_committee_proof",
           "untrusted_checkpoint", "unpinned_chain_config", "bad_signature",
           "missing_receipt", "unconfigured_deposit_contract",
           "update_changes_nothing"},
         <<>>)
    @@ Rows({"receipt"}, <<<<"receipt", Err("receipt")>>>>)
    @@ Rows({"mpt"}, <<<<"mpt", Err("mpt")>>>>)
    @@ Rows({"invalid_participation_length"},
         <<<<"got", Usize>>, <<"expected", Usize>>>>)
    @@ Rows({"insufficient_participation"},
         <<<<"got", Usize>>, <<"needed", Usize>>>>)
    @@ Rows({"stale_store"},
         <<<<"store_period", U64>>, <<"attested_period", U64>>>>)
    @@ Rows({"bootstrap_period_mismatch"},
         <<<<"period", U64>>, <<"slot", U64>>>>)
    @@ Rows({"inconsistent_slots"},
         <<<<"signature_slot", U64>>, <<"attested_slot", U64>>>>)
    @@ Rows({"cap_exceeded"}, <<<<"amount", U128>>, <<"cap", U128>>>>)

receipt_err_json ==
    Rows({"malformed", "not_successful", "no_deposit", "amount_overflow",
           "multiple_deposits"},
         <<>>)

receipt_err_from ==
    Rows({"malformed", "not_successful", "no_deposit", "amount_overflow",
           "multiple_deposits"},
         <<>>)

mpt_err_json ==
    Rows({"missing_node", "hash_mismatch", "bad_node", "bad_ref"}, <<>>)

mpt_err_from ==
    Rows({"missing_node", "hash_mismatch", "bad_node", "bad_ref"}, <<>>)

corridor_err_json ==
    Rows({"chain_mismatch", "malformed_app_hash"}, <<>>)
    @@ Rows({"unanchored"}, <<<<"light", Err("light")>>>>)
    @@ Rows({"commit"}, <<<<"commit", Err("commit")>>>>)
    @@ Rows({"proof"}, <<<<"proof", Err("proof")>>>>)

corridor_err_from ==
    Rows({"chain_mismatch", "malformed_app_hash"}, <<>>)
    @@ Rows({"unanchored"}, <<<<"light", Err("light")>>>>)
    @@ Rows({"commit"}, <<<<"commit", Err("commit")>>>>)
    @@ Rows({"proof"}, <<<<"proof", Err("proof")>>>>)

light_err_json ==
    Rows({"chain_mismatch", "not_progressing", "untrusted_validator_set",
           "clock_behind_trusted_state", "non_monotonic_header_time",
           "header_time_in_future", "not_adjacent", "next_validator_mismatch"},
         <<>>)
    @@ Rows({"commit"}, <<<<"commit", Err("commit")>>>>)
    @@ Rows({"insufficient_overlap"},
         <<<<"overlap", U128>>, <<"trusted_total", U128>>>>)
    @@ Rows({"insufficient_trusted_signatures"},
         <<<<"signed", U128>>, <<"trusted_total", U128>>>>)
    @@ Rows({"trusted_state_expired"},
         <<<<"elapsed_secs", I64>>, <<"trusting_period_secs", U64>>>>)

light_err_from ==
    Rows({"chain_mismatch", "not_progressing", "untrusted_validator_set",
           "clock_behind_trusted_state", "non_monotonic_header_time",
           "header_time_in_future", "not_adjacent", "next_validator_mismatch"},
         <<>>)
    @@ Rows({"commit"}, <<<<"commit", Err("commit")>>>>)
    @@ Rows({"insufficient_overlap"},
         <<<<"overlap", U128>>, <<"trusted_total", U128>>>>)
    @@ Rows({"insufficient_trusted_signatures"},
         <<<<"signed", U128>>, <<"trusted_total", U128>>>>)
    @@ Rows({"trusted_state_expired"},
         <<<<"elapsed_secs", I64>>, <<"trusting_period_secs", U64>>>>)

commit_err_json ==
    Rows({"header_mismatch", "set_too_large", "duplicate_signer"}, <<>>)
    @@ Rows({"height_mismatch"}, <<<<"header", I64>>, <<"commit", I64>>>>)
    @@ Rows({"not_enough_voting_power"},
         <<<<"signed", U128>>, <<"total", U128>>>>)

commit_err_from ==
    Rows({"header_mismatch", "set_too_large", "duplicate_signer"}, <<>>)
    @@ Rows({"height_mismatch"}, <<<<"header", I64>>, <<"commit", I64>>>>)
    @@ Rows({"not_enough_voting_power"},
         <<<<"signed", U128>>, <<"total", U128>>>>)

proof_err_json ==
    Rows({"root_mismatch", "bad_value_length", "malformed_proof_op",
           "foreign_store_key", "missing_store_proof", "foreign_store",
           "store_root_mismatch"},
         <<>>)

proof_err_from ==
    Rows({"root_mismatch", "bad_value_length", "malformed_proof_op",
           "foreign_store_key", "missing_store_proof", "foreign_store",
           "store_root_mismatch"},
         <<>>)

pool_err_json ==
    Rows({"malformed_identifier", "zero_cap", "duplicate_pool",
           "asset_id_mismatch", "tier_mismatch"},
         <<>>)
    @@ Rows({"unknown_network"}, <<<<"network_id", U32>>>>)
    @@ Rows({"registry_full"}, <<<<"max", Usize>>>>)
    @@ Rows({"decimals_too_large"}, <<<<"decimals", U8>>, <<"max", U8>>>>)
    @@ Rows({"cap_too_large"}, <<<<"cap", U128>>, <<"max", U128>>>>)
    @@ Rows({"epoch_cap_above_asset_cap"},
         <<<<"epoch", U128>>, <<"asset", U128>>>>)

pool_err_from ==
    Rows({"malformed_identifier", "zero_cap", "duplicate_pool",
           "asset_id_mismatch", "tier_mismatch"},
         <<>>)
    @@ Rows({"unknown_network"}, <<<<"network_id", U32>>>>)
    @@ Rows({"registry_full"}, <<<<"max", Usize>>>>)
    @@ Rows({"decimals_too_large"}, <<<<"decimals", U8>>, <<"max", U8>>>>)
    @@ Rows({"cap_too_large"}, <<<<"cap", U128>>, <<"max", U128>>>>)
    @@ Rows({"epoch_cap_above_asset_cap"},
         <<<<"epoch", U128>>, <<"asset", U128>>>>)

trustless_err_json ==
    Rows({"not_proof_backed", "reference_mismatch", "recipient_mismatch",
           "asset_mismatch", "malformed_fact", "replayed_reference",
           "asset_not_registered"},
         <<>>)
    @@ Rows({"gateway"}, <<<<"gateway", Err("gateway")>>>>)
    @@ Rows({"source_mismatch"}, <<<<"corridor", U32>>, <<"fact", U32>>>>)
    @@ Rows({"amount_mismatch"}, <<<<"proven", U128>>, <<"fact", U128>>>>)
    @@ Rows({"insufficient_confirmations"},
         <<<<"have", U32>>, <<"need", U32>>>>)
    @@ Rows({"asset_cap_exceeded"},
         <<<<"minted", U128>>, <<"cap", U128>>, <<"add", U128>>>>)

trustless_err_from ==
    Rows({"not_proof_backed", "reference_mismatch", "recipient_mismatch",
           "asset_mismatch", "malformed_fact", "replayed_reference",
           "asset_not_registered"},
         <<>>)
    @@ Rows({"gateway"}, <<<<"gateway", Err("gateway")>>>>)
    @@ Rows({"source_mismatch"}, <<<<"corridor", U32>>, <<"fact", U32>>>>)
    @@ Rows({"amount_mismatch"}, <<<<"proven", U128>>, <<"fact", U128>>>>)
    @@ Rows({"insufficient_confirmations"},
         <<<<"have", U32>>, <<"need", U32>>>>)
    @@ Rows({"asset_cap_exceeded"},
         <<<<"minted", U128>>, <<"cap", U128>>, <<"add", U128>>>>)

federated_err_json ==
    Rows({"foreign", "malformed", "not_federated"}, <<>>)
    @@ Rows({"undeclared_source"}, <<<<"operator_id", U32>>>>)
    @@ Rows({"gateway"}, <<<<"gateway", Err("gateway")>>>>)
    @@ Rows({"corridor_source_mismatch"},
         <<<<"corridor", U32>>, <<"fact", U32>>>>)
    @@ Rows({"correlated_sources"},
         <<<<"independent", Usize>>, <<"signers", Usize>>>>)

federated_err_from ==
    Rows({"foreign", "malformed", "not_federated"}, <<>>)
    @@ Rows({"undeclared_source"}, <<<<"operator_id", U32>>>>)
    @@ Rows({"gateway"}, <<<<"gateway", Err("gateway")>>>>)
    @@ Rows({"corridor_source_mismatch"},
         <<<<"corridor", U32>>, <<"fact", U32>>>>)
    @@ Rows({"correlated_sources"},
         <<<<"independent", Usize>>, <<"signers", Usize>>>>)

codec_err_json ==
    Rows({"short_input", "trailing_bytes", "zero_amount", "zero_asset",
           "zero_recipient", "zero_source_ref", "zero_chain",
           "length_mismatch"},
         <<>>)
    @@ Rows({"unknown_tag"}, <<<<"tag", U8>>>>)
    @@ Rows({"bad_version"}, <<<<"version", U8>>>>)

codec_err_from ==
    Rows({"short_input", "trailing_bytes", "zero_amount", "zero_asset",
           "zero_recipient", "zero_source_ref", "zero_chain",
           "length_mismatch"},
         <<>>)
    @@ Rows({"unknown_tag"}, <<<<"tag", U8>>>>)
    @@ Rows({"bad_version"}, <<<<"version", U8>>>>)

gateway_err_json ==
    Rows({"global_pause", "wrong_direction", "wrong_destination",
           "asset_not_registered", "replayed_reference", "prove_nothing",
           "unauthorized", "no_governance_set",
           "reserve_reports_not_required", "not_globally_paused",
           "watchdog_cooldown", "not_frozen", "watchdog_without_clock"},
         <<>>)
    @@ Rows({"corridor_not_open", "corridor_inactive", "source_paused",
           "not_paused"},
         <<<<"source_chain", U32>>>>)
    @@ Rows({"unknown_operator", "bad_signature"},
         <<<<"operator_id", U32>>>>)
    @@ Rows({"invalid_fact"}, <<<<"codec", Err("codec")>>>>)
    @@ Rows({"frozen"}, <<<<"until", U64>>>>)
    @@ Rows({"unknown_exit"}, <<<<"exit_id", U64>>>>)
    @@ Rows({"reserve_stale", "reserve_shortfall"},
         <<<<"asset_id", Hex(16)>>>>)
    @@ Rows({"insufficient_finality"}, <<<<"got", U32>>, <<"need", U32>>>>)
    @@ Rows({"below_threshold"}, <<<<"got", Usize>>, <<"need", Usize>>>>)
    @@ Rows({"thin_quorum"}, <<<<"quorum", Usize>>, <<"size", Usize>>>>)
    @@ Rows({"tier_downgrade"}, <<<<"from", U8>>, <<"to", U8>>>>)
    @@ Rows({"watchdog_window_too_wide", "freeze_window_too_wide"},
         <<<<"until", U64>>, <<"max", U64>>>>)
    @@ Rows({"freeze_in_past", "watchdog_expired"},
         <<<<"until", U64>>, <<"now", U64>>>>)
    @@ Rows({"resume_out_of_window", "reserve_report_out_of_window"},
         <<<<"at", U64>>, <<"now", U64>>>>)
    @@ Rows({"stale_batch"}, <<<<"got", U64>>, <<"expected", U64>>>>)
    @@ Rows({"exit_exceeds_minted"},
         <<<<"minted", U128>>, <<"amount", U128>>>>)
    @@ Rows({"exit_not_ready"}, <<<<"now", U64>>, <<"unlock", U64>>>>)
    @@ Rows({"exit_queue_full"}, <<<<"pending", U64>>, <<"cap", U64>>>>)
    @@ Rows({"message_expired"}, <<<<"now", U64>>, <<"expiry", U64>>>>)
    @@ Rows({"stale_or_replayed_nonce"},
         <<<<"got", U64>>, <<"high_water", U64>>>>)
    @@ Rows({"reserve_report_replayed"}, <<<<"at", U64>>, <<"last", U64>>>>)
    @@ Rows({"asset_cap_exceeded", "epoch_cap_exceeded"},
         <<<<"minted", U128>>, <<"cap", U128>>, <<"add", U128>>>>)
    @@ Rows({"escrow_exceeded"},
         <<<<"minted", U128>>, <<"escrowed", U128>>, <<"add", U128>>>>)

gateway_err_from ==
    Rows({"global_pause", "wrong_direction", "wrong_destination",
           "watchdog_without_clock", "not_frozen", "watchdog_cooldown",
           "asset_not_registered", "replayed_reference", "prove_nothing",
           "unauthorized", "no_governance_set",
           "reserve_reports_not_required", "not_globally_paused"},
         <<>>)
    @@ Rows({"corridor_not_open", "corridor_inactive", "source_paused",
           "not_paused"},
         <<<<"source_chain", U32>>>>)
    @@ Rows({"unknown_operator", "bad_signature"},
         <<<<"operator_id", U32>>>>)
    @@ Rows({"invalid_fact"}, <<<<"codec", Err("codec")>>>>)
    @@ Rows({"frozen"}, <<<<"until", U64>>>>)
    @@ Rows({"unknown_exit"}, <<<<"exit_id", U64>>>>)
    @@ Rows({"reserve_stale", "reserve_shortfall"},
         <<<<"asset_id", Hex(16)>>>>)
    @@ Rows({"resume_out_of_window", "reserve_report_out_of_window"},
         <<<<"at", U64>>, <<"now", U64>>>>)
    @@ Rows({"freeze_in_past", "watchdog_expired"},
         <<<<"until", U64>>, <<"now", U64>>>>)
    @@ Rows({"freeze_window_too_wide", "watchdog_window_too_wide"},
         <<<<"until", U64>>, <<"max", U64>>>>)
    @@ Rows({"insufficient_finality"}, <<<<"got", U32>>, <<"need", U32>>>>)
    @@ Rows({"below_threshold"}, <<<<"got", Usize>>, <<"need", Usize>>>>)
    @@ Rows({"thin_quorum"}, <<<<"quorum", Usize>>, <<"size", Usize>>>>)
    @@ Rows({"tier_downgrade"}, <<<<"from", U8>>, <<"to", U8>>>>)
    @@ Rows({"stale_batch"}, <<<<"got", U64>>, <<"expected", U64>>>>)
    @@ Rows({"exit_exceeds_minted"},
         <<<<"minted", U128>>, <<"amount", U128>>>>)
    @@ Rows({"exit_not_ready"}, <<<<"now", U64>>, <<"unlock", U64>>>>)
    @@ Rows({"exit_queue_full"}, <<<<"pending", U64>>, <<"cap", U64>>>>)
    @@ Rows({"message_expired"}, <<<<"now", U64>>, <<"expiry", U64>>>>)
    @@ Rows({"stale_or_replayed_nonce"},
         <<<<"got", U64>>, <<"high_water", U64>>>>)
    @@ Rows({"reserve_report_replayed"}, <<<<"at", U64>>, <<"last", U64>>>>)
    @@ Rows({"asset_cap_exceeded", "epoch_cap_exceeded"},
         <<<<"minted", U128>>, <<"cap", U128>>, <<"add", U128>>>>)
    @@ Rows({"escrow_exceeded"},
         <<<<"minted", U128>>, <<"escrowed", U128>>, <<"add", U128>>>>)

api_json ==
    Rows({"corridor_config_locked", "proof_tier_mismatch"}, <<>>)
    @@ Rows({"unknown_network", "no_anchor", "anchor_changed"},
         <<<<"network_id", U32>>>>)
    @@ Rows({"pool_not_registered"}, <<<<"asset_id", Hex(16)>>>>)
    @@ Rows({"asset_network_mismatch"},
         <<<<"fact_network", U32>>, <<"pool_network", U32>>>>)
    @@ Rows({"bitcoin_spv"}, <<<<"spv", Err("spv")>>>>)
    @@ Rows({"ethereum_verify"}, <<<<"eth", Err("eth")>>>>)
    @@ Rows({"cosmos_verify"}, <<<<"cosmos", Err("corridor")>>>>)
    @@ Rows({"gateway"}, <<<<"gateway", Err("gateway")>>>>)

api_from ==
    Rows({"corridor_config_locked", "proof_tier_mismatch"}, <<>>)
    @@ Rows({"unknown_network", "no_anchor", "anchor_changed"},
         <<<<"network_id", U32>>>>)
    @@ Rows({"pool_not_registered"}, <<<<"asset_id", Hex(16)>>>>)
    @@ Rows({"asset_network_mismatch"},
         <<<<"fact_network", U32>>, <<"pool_network", U32>>>>)
    @@ Rows({"bitcoin_spv"}, <<<<"spv", Err("spv")>>>>)
    @@ Rows({"ethereum_verify"}, <<<<"eth", Err("eth")>>>>)
    @@ Rows({"cosmos_verify"}, <<<<"cosmos", Err("corridor")>>>>)
    @@ Rows({"gateway"}, <<<<"gateway", Err("gateway")>>>>)

-----------------------------------------------------------------------------
err_json ==
    [api |-> api_json, spv |-> spv_err_json,
     eth |-> eth_err_json,
     receipt |-> receipt_err_json,
     mpt |-> mpt_err_json,
     corridor |-> corridor_err_json,
     light |-> light_err_json,
     commit |-> commit_err_json,
     proof |-> proof_err_json,
     pool |-> pool_err_json,
     trustless |-> trustless_err_json,
     federated |-> federated_err_json,
     codec |-> codec_err_json,
     gateway |-> gateway_err_json]

err_from ==
    [api |-> api_from, spv |-> spv_err_from,
     eth |-> eth_err_from,
     receipt |-> receipt_err_from,
     mpt |-> mpt_err_from,
     corridor |-> corridor_err_from,
     light |-> light_err_from,
     commit |-> commit_err_from,
     proof |-> proof_err_from,
     pool |-> pool_err_from,
     trustless |-> trustless_err_from,
     federated |-> federated_err_from,
     codec |-> codec_err_from,
     gateway |-> gateway_err_from]

\* The category a family writes; only the outermost one is read.
category(family) == IF family = "corridor" THEN "cosmos" ELSE family
=============================================================================
