---------------------------- MODULE ExitConfig ----------------------------
(***************************************************************************)
(* The exit service's configuration, from the environment (q-runtime       *)
(* exits.rs).  A variable is <<"absent">>, <<"empty">> or a text:          *)
(* <<"num", n>>, <<"hex", value, bytes>>, <<"list", entries>> with an      *)
(* entry the sequence of its fields, or <<"text", word>>, which is none of *)
(* these.                                                                  *)
(***************************************************************************)
EXTENDS BurnSource

CONSTANTS
    MAX_U32, MAX_U128,
    MIN_PAYOUT_CONFIRMATIONS, MIN_PINNED_CHECKPOINT_HEIGHT,
    MIN_PAYOUT_WORK,            \* 2^MIN_PAYOUT_WORK_BITS
    ATTEST_PK_BYTES, BEACON_SEED_BYTES

-----------------------------------------------------------------------------
(* Texts *)

req(v) == v[1] \notin {"absent", "empty"}

is_number(v, largest) == v[1] = "num" /\ v[2] \in 0 .. largest

\* decode_hex, and the length an array wants.
is_hex(v, bytes) == v[1] = "hex" /\ v[3] = bytes

opt_u64_reads(v) == ~req(v) \/ is_number(v, MAX_U64)

opt_u64(v, default) == IF req(v) THEN v[2] ELSE default

\* Not the same: an empty text is refused here.
opt_u128_reads(v) == v[1] = "absent" \/ is_number(v, MAX_U128)

opt_u128(v, fallback) == IF v[1] = "absent" THEN fallback ELSE v[2]

entries(v) == IF v[1] = "list" THEN v[2] ELSE <<>>

no_key_twice(list) == \A i, k \in DOMAIN list : list[i][1] = list[k][1] => i = k

-----------------------------------------------------------------------------
(* Lists *)

reads_member(f) ==
    /\ Len(f) \in {5, 6}
    /\ is_number(f[1], MAX_U64) /\ is_number(f[2], MAX_U64)
    /\ is_hex(f[3], 32)
    /\ is_number(f[4], MAX_U64)
    /\ is_hex(f[5], ATTEST_PK_BYTES)
    /\ Len(f) = 6 => is_number(f[6], MAX_U64)

parses_committee(v) ==
    /\ v[1] = "list" /\ v[2] # <<>>
    /\ \A i \in DOMAIN v[2] : reads_member(v[2][i])

parse_committee(v) ==
    [i \in DOMAIN v[2] |->
        LET f == v[2][i]
        IN  [id |-> f[1][2], weight |-> f[2][2], root_digest |-> f[3][2], root_slots |-> f[4][2],
             attest_pk |-> f[5][2], stake |-> IF Len(f) = 6 THEN f[6][2] ELSE f[2][2]]]

parses_assets(v) == req(v) => v[1] = "list" /\ \A i \in DOMAIN v[2] : is_hex(v[2][i][1], 16)

parse_assets(v) == {entries(v)[i][1][2] : i \in DOMAIN entries(v)}

parses_reserves(v) ==
    req(v) => /\ v[1] = "list"
              /\ \A i \in DOMAIN v[2] : /\ Len(v[2][i]) = 2 /\ is_hex(v[2][i][1], 16)
                                        /\ is_number(v[2][i][2], MAX_U128)
              /\ no_key_twice(v[2])

parse_reserves(v) == [i \in DOMAIN entries(v) |-> <<entries(v)[i][1][2], entries(v)[i][2][2]>>]

parses_vaults(v) ==
    /\ v[1] = "list" /\ v[2] # <<>>
    /\ \A i \in DOMAIN v[2] : /\ Len(v[2][i]) = 2 /\ is_number(v[2][i][1], MAX_U32)
                              /\ is_number(v[2][i][2], MAX_U128)
    /\ no_key_twice(v[2])

parse_vaults(v) ==
    [i \in DOMAIN v[2] |-> [vault_id |-> v[2][i][1][2], collateral |-> v[2][i][2][2]]]

parses_bitcoin(v) ==
    req(v) =>
        /\ v[1] = "list" /\ Len(v[2]) = 1 /\ Len(v[2][1]) = 4
        /\ LET f == v[2][1]
           IN  /\ is_number(f[1], MAX_U32) /\ f[1][2] >= MIN_PINNED_CHECKPOINT_HEIGHT
               /\ is_hex(f[2], 32)
               /\ f[3][1] = "hex" /\ f[3][3] \in 1 .. 32 /\ f[3][2] >= MIN_PAYOUT_WORK
               /\ is_number(f[4], MAX_U32) /\ f[4][2] >= MIN_PAYOUT_CONFIRMATIONS

\* Nothing when no checkpoint is configured.
parse_bitcoin(v) ==
    IF ~req(v) THEN <<>>
    ELSE LET f == v[2][1]
         IN  <<[height |-> f[1][2], hash |-> f[2][2], min_work |-> f[3][2],
                confirmations |-> f[4][2]]>>

-----------------------------------------------------------------------------

parse_enabled(v) == v = <<"num", 1>>

reads_exit_config(env) ==
    /\ is_number(env.CHAIN_ID, MAX_U64) /\ is_number(env.TAU, MAX_U64)
    /\ opt_u64_reads(env.SLOT)
    /\ is_number(env.BUDGET, MAX_U64)
    /\ is_number(env.DEST_CHAIN, MAX_U32) /\ env.DEST_CHAIN[2] # 0
    /\ is_number(env.CORRIDOR, MAX_U32)
    /\ opt_u64_reads(env.START_HEIGHT)
    /\ is_hex(env.BEACON_SEED, BEACON_SEED_BYTES)
    /\ is_hex(env.GENESIS_HASH, 32) /\ env.GENESIS_HASH[2] # Zero
    /\ parses_committee(env.COMMITTEE)
    /\ parses_vaults(env.VAULTS)
    /\ req(env.CHAIN_RPC_HOST) /\ is_number(env.CHAIN_RPC_PORT, 65535)
    /\ req(env.LEDGER)
    /\ parses_bitcoin(env.BITCOIN)
    /\ parses_assets(env.ASSETS)
    /\ parses_reserves(env.RESERVES)
    /\ opt_u128_reads(env.MAX_AMOUNT) /\ opt_u128(env.MAX_AMOUNT, 0) # 0

ExitTrustConfig(env) ==
    [chain_id |-> env.CHAIN_ID[2], tau |-> env.TAU[2], slot |-> opt_u64(env.SLOT, 0),
     budget |-> env.BUDGET[2], beacon_seed |-> env.BEACON_SEED[2],
     genesis_hash |-> env.GENESIS_HASH[2], members |-> parse_committee(env.COMMITTEE),
     bridge_dest_chain |-> env.DEST_CHAIN[2], corridor |-> env.CORRIDOR[2],
     start_height |-> opt_u64(env.START_HEIGHT, 0), vaults |-> parse_vaults(env.VAULTS),
     bitcoin |-> parse_bitcoin(env.BITCOIN), assets |-> parse_assets(env.ASSETS),
     max_exit_amount |-> opt_u128(env.MAX_AMOUNT, 0), reserves |-> parse_reserves(env.RESERVES)]

\* "off", "refused", or "read".
parse_exit_config(env) ==
    IF ~parse_enabled(env.EXITS_ENABLED) THEN "off"
    ELSE IF reads_exit_config(env) /\ can_from_config(ExitTrustConfig(env)) THEN "read"
    ELSE "refused"

build_anchor(cfg) == from_config(cfg)
=============================================================================
