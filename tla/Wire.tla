-------------------------------- MODULE Wire --------------------------------
(***************************************************************************)
(* The JSON form of every request and response (q-runtime/src/wire.rs over *)
(* json.rs).  A table lists the fields of a record in the order they are   *)
(* written, each with the type it is written as; a second table, taken     *)
(* from the reading functions, lists the reader of every field.  The text  *)
(* of a JSON value, its escapes and its hex digits are left out: a value   *)
(* is <<kind, payload>>.                                                   *)
(***************************************************************************)
EXTENDS WireErrors, Integers, Sequences, SequencesExt

CONSTANTS
    Limit,       \* largest value of each integer type, in order of width
    Cap,         \* the MAX_ limits on lists and byte strings, by name
    MAX_PROOF_DEPTH, MAX_DEPTH, MAX_NODES

ASSUME WireAssumption ==
    /\ \A t \in DOMAIN Limit : Limit[t] \in Nat \ {0}
    /\ Limit["u8"] < Limit["u32"] /\ Limit["u32"] < Limit["u64"]
    /\ Limit["u64"] < Limit["u128"] /\ Limit["i32"] < Limit["u32"]
    /\ Limit["i64"] < Limit["u64"] /\ Limit["usize"] = Limit["u64"]
    /\ \A c \in DOMAIN Cap : Cap[c] \in Nat \ {0}
    /\ {MAX_PROOF_DEPTH, MAX_DEPTH, MAX_NODES} \subseteq Nat \ {0}

Bool == <<"bool">>
Text == <<"text">>
Network == <<"network">>          \* a u32 that Network::from_id knows
Word(words) == <<"word", words>>  \* a string out of a fixed set
Bytes(cap) == <<"bytes", cap>>    \* hex, bounded by a limit or by none
List(cap, T) == <<"list", cap, T>>
Rec(name) == <<"rec", name>>
OneOf(name) == <<"one_of", name>>
NullOr(T) == <<"null_or", T>>
Maybe(T) == <<"maybe", T>>        \* the key may be left out
OrNone(T) == <<"or_none", T>>     \* a key left out reads as nothing
NonEmpty(T) == <<"non_empty", T>>
Fact == <<"fact">>                \* a frame of q-codec, in hex
Envelope == <<"envelope">>        \* a frame of q-airlock, in hex
Proof(depth) == <<"proof", depth>>

-----------------------------------------------------------------------------
(* What is written *)

roots_json == List("none", Hex(32))
signer_sigs_json == List("none", Rec("signer_sig"))
merkle_steps_json == List("none", Rec("merkle_step"))

signer_sig_json == <<<<"operator_id", U32>>, <<"signature", Bytes("none")>>>>

merkle_step_json == <<<<"hash", Hex(32)>>, <<"sibling_on_left", Bool>>>>

header_json ==
    <<<<"slot", U64>>, <<"proposer_index", U64>>, <<"parent_root", Hex(32)>>,
      <<"state_root", Hex(32)>>, <<"body_root", Hex(32)>>>>

committee_json ==
    <<<<"pubkeys", List("none", Hex(48))>>, <<"aggregate_pubkey", Hex(48)>>>>

cosmos_header_json ==
    <<<<"version_block", U64>>, <<"version_app", U64>>, <<"chain_id", Text>>,
      <<"height", I64>>, <<"time", Rec("timestamp")>>,
      <<"last_block_id", Rec("block_id")>>>>
    \o [i \in 1 .. 9 |->
          <<<<"last_commit_hash", "data_hash", "validators_hash",
              "next_validators_hash", "consensus_hash", "app_hash",
              "last_results_hash", "evidence_hash", "proposer_address">>[i],
            Bytes("none")>>]

timestamp_json == <<<<"seconds", I64>>, <<"nanos", I32>>>>

block_id_json ==
    <<<<"hash", Bytes("none")>>, <<"part_total", U32>>,
      <<"part_hash", Bytes("none")>>>>

commit_sig_json ==
    <<<<"flag", Word({"absent", "commit", "nil"})>>,
      <<"validator_address", Hex(20)>>, <<"timestamp", Rec("timestamp")>>,
      <<"signature", Bytes("none")>>>>

commit_json ==
    <<<<"height", I64>>, <<"round", I64>>, <<"block_id", Rec("block_id")>>,
      <<"signatures", List("none", Rec("commit_sig"))>>>>

validator_json == <<<<"pubkey", Hex(32)>>, <<"voting_power", U64>>>>

inner_op_json ==
    <<<<"prefix", Bytes("none")>>, <<"suffix", Bytes("none")>>>>

existence_proof_json ==
    <<<<"key", Bytes("none")>>, <<"value", Bytes("none")>>,
      <<"leaf", Rec("leaf_op")>>, <<"path", List("none", Rec("inner_op"))>>,
      <<"store", Maybe(Proof(0))>>>>

pool_view_json ==
    <<<<"network_id", Network>>, <<"network_name", Text>>,
      <<"identifier", Text>>, <<"decimals", U8>>, <<"asset_id", Hex(16)>>,
      <<"per_asset_cap", U128>>, <<"per_epoch_cap", U128>>,
      <<"tier", Word({"Federated", "ProofBacked"})>>>>

outcome_json ==
    LET minted == <<<<"asset_id", Hex(16)>>, <<"recipient", Hex(32)>>,
                    <<"amount", U128>>, <<"source_ref", Hex(32)>>,
                    <<"source_chain", U32>>>>
    IN [minted |-> minted,
        admitted_pending_chain_mint |->
            Append(minted, <<"confirmations", U32>>)]

encode_proof ==
    [federated |-> <<<<"envelope", Envelope>>>>,
     bitcoin |->
        <<<<"headers", List("none", Hex(80))>>, <<"start_height", U32>>,
          <<"deposit_height", U32>>, <<"branch", merkle_steps_json>>,
          <<"raw_tx", Bytes("none")>>, <<"coinbase_tx", Bytes("none")>>,
          <<"coinbase_branch", merkle_steps_json>>, <<"fact", Fact>>>>,
     ethereum |->
        <<<<"attested_header", Rec("header")>>,
          <<"finalized_header", Rec("header")>>,
          <<"finality_branch", roots_json>>,
          <<"participation", List("none", Bool)>>, <<"signature", Hex(96)>>,
          <<"signature_slot", U64>>, <<"receipts_root", Hex(32)>>,
          <<"block_number", U64>>, <<"execution_branch", roots_json>>,
          <<"block_number_branch", roots_json>>, <<"receipt_index", U64>>,
          <<"log_index", U32>>,
          <<"receipt_proof", List("none", Bytes("none"))>>,
          <<"ancestry", List("none", Rec("header"))>>,
          <<"historical_branch", roots_json>>, <<"fact", Fact>>>>,
     cosmos |->
        <<<<"header", Rec("cosmos_header")>>, <<"commit", Rec("commit")>>,
          <<"validators", List("none", Rec("validator"))>>,
          <<"proof", Proof(0)>>, <<"fact", Fact>>>>]

encode_request ==
    [create_pool |->
        <<<<"network_id", U32>>, <<"identifier", Text>>, <<"decimals", U8>>,
          <<"per_asset_cap", U128>>, <<"per_epoch_cap", U128>>>>,
     list_pools |-> <<<<"network_id", NullOr(U32)>>>>,
     get_pool |-> <<<<"asset_id", Hex(16)>>>>,
     submit_deposit |-> <<<<"proof", OneOf("proof")>>>>,
     deposit_status |-> <<<<"source_ref", Hex(32)>>, <<"asset_id", Hex(16)>>>>,
     report_reorg |->
        <<<<"source_chain", U32>>, <<"fork_depth", U32>>,
          <<"at_height", U64>>, <<"signatures", signer_sigs_json>>>>,
     resume_source |->
        <<<<"source_chain", U32>>, <<"at_height", U64>>,
          <<"signatures", signer_sigs_json>>>>,
     resume_all |-> <<<<"at_height", U64>>, <<"signatures", signer_sigs_json>>>>,
     emergency_freeze |->
        <<<<"until_height", U64>>, <<"signatures", signer_sigs_json>>>>,
     watchdog_freeze |->
        <<<<"until_height", U64>>, <<"signature", Rec("signer_sig")>>>>,
     set_corridor_tier |->
        <<<<"source_chain", U32>>, <<"tier", U8>>,
          <<"signatures", signer_sigs_json>>>>,
     rotate_ethereum_committee |->
        <<<<"attested_header", Rec("header")>>,
          <<"finalized_header", Rec("header")>>,
          <<"finality_branch", roots_json>>,
          <<"next_sync_committee", Rec("committee")>>,
          <<"next_sync_committee_branch", roots_json>>,
          <<"participation", List("none", Bool)>>, <<"signature", Hex(96)>>,
          <<"signature_slot", U64>>>>]

encode_response ==
    [pool_created |-> <<<<"pool", Rec("pool_view")>>>>,
     pools |-> <<<<"pools", List("none", Rec("pool_view"))>>>>,
     pool |-> <<<<"pool", Rec("pool_view")>>>>,
     frozen |-> <<<<"until_height", U64>>>>,
     committee_rotated |-> <<<<"period", U64>>, <<"finalized_slot", U64>>>>,
     source_paused |-> <<<<"source_chain", U32>>, <<"fork_depth", U32>>>>,
     source_resumed |-> <<<<"source_chain", U32>>>>,
     gateway_resumed |-> <<<<"at_height", U64>>>>,
     corridor_tier_set |-> <<<<"source_chain", U32>>, <<"tier", U8>>>>,
     deposit_admitted |-> <<<<"outcome", OneOf("outcome")>>>>,
     status |->
        <<<<"source_ref", Hex(32)>>, <<"asset_id", Hex(16)>>,
          <<"minted", Bool>>, <<"asset_minted_total", U128>>,
          <<"asset_cap", NullOr(U128)>>>>,
     error |-> <<<<"error", OneOf("error")>>>>]

\* external: a client's release proof; wire.rs only reads it.
release_proof_body ==
    <<<<"headers", NonEmpty(List("none", Hex(80)))>>,
      <<"branch", merkle_steps_json>>,
      <<"coinbase_branch", merkle_steps_json>>, <<"start_height", U32>>,
      <<"release_height", U32>>, <<"raw_tx", Bytes("none")>>,
      <<"coinbase_tx", Bytes("none")>>>>

-----------------------------------------------------------------------------
(* What is read *)

roots_from(cap) == List(cap, Hex(32))
signer_sigs_from == List("MAX_OPERATOR_SIGS", Rec("signer_sig"))
merkle_steps_from(cap) == List(cap, Rec("merkle_step"))
participation_from == List("MAX_PARTICIPATION", Bool)
validators_from == List("MAX_VALIDATORS", Rec("validator"))

signer_sig_from ==
    <<<<"operator_id", U32>>, <<"signature", Bytes("MAX_OPERATOR_SIG_BYTES")>>>>

merkle_step_from == <<<<"hash", Hex(32)>>, <<"sibling_on_left", Bool>>>>

header_from ==
    <<<<"slot", U64>>, <<"proposer_index", U64>>, <<"parent_root", Hex(32)>>,
      <<"state_root", Hex(32)>>, <<"body_root", Hex(32)>>>>

\* Fault: a committee of any size is read.
committee_from_uncapped ==
    <<<<"pubkeys", List("none", Hex(48))>>, <<"aggregate_pubkey", Hex(48)>>>>

committee_from ==
    <<<<"pubkeys", List("MAX_PARTICIPATION", Hex(48))>>,
      <<"aggregate_pubkey", Hex(48)>>>>

cosmos_header_from ==
    <<<<"version_block", U64>>, <<"version_app", U64>>, <<"chain_id", Text>>,
      <<"height", I64>>, <<"time", Rec("timestamp")>>,
      <<"last_block_id", Rec("block_id")>>>>
    \o [i \in 1 .. 9 |->
          <<<<"last_commit_hash", "data_hash", "validators_hash",
              "next_validators_hash", "consensus_hash", "app_hash",
              "last_results_hash", "evidence_hash", "proposer_address">>[i],
            Bytes("none")>>]

timestamp_from == <<<<"seconds", I64>>, <<"nanos", I32>>>>

block_id_from ==
    <<<<"hash", Bytes("none")>>, <<"part_total", U32>>,
      <<"part_hash", Bytes("none")>>>>

commit_sig_from ==
    <<<<"flag", Word({"absent", "commit", "nil"})>>,
      <<"validator_address", Hex(20)>>, <<"timestamp", Rec("timestamp")>>,
      <<"signature", Bytes("none")>>>>

commit_from ==
    <<<<"signatures", List("MAX_VALIDATORS", Rec("commit_sig"))>>,
      <<"height", I64>>, <<"round", I64>>, <<"block_id", Rec("block_id")>>>>

validator_from == <<<<"pubkey", Hex(32)>>, <<"voting_power", U64>>>>

inner_op_from ==
    <<<<"prefix", Bytes("none")>>, <<"suffix", Bytes("none")>>>>

existence_proof_at(depth) ==
    <<<<"path", List("MAX_PROOF_PATH", Rec("inner_op"))>>,
      <<"store", Maybe(Proof(depth + 1))>>, <<"key", Bytes("none")>>,
      <<"value", Bytes("none")>>, <<"leaf", Rec("leaf_op")>>>>

pool_view_from ==
    <<<<"network_id", Network>>, <<"identifier", Text>>, <<"decimals", U8>>,
      <<"asset_id", Hex(16)>>, <<"per_asset_cap", U128>>,
      <<"per_epoch_cap", U128>>,
      <<"tier", Word({"Federated", "ProofBacked"})>>>>

outcome_from ==
    LET minted == <<<<"asset_id", Hex(16)>>, <<"recipient", Hex(32)>>,
                    <<"amount", U128>>, <<"source_ref", Hex(32)>>,
                    <<"source_chain", U32>>>>
    IN [minted |-> minted,
        admitted_pending_chain_mint |->
            Append(minted, <<"confirmations", U32>>)]

decode_release_proof ==
    <<<<"headers", NonEmpty(List("MAX_RELEASE_HEADERS", Hex(80)))>>,
      <<"branch", merkle_steps_from("MAX_RELEASE_BRANCH")>>,
      <<"coinbase_branch", merkle_steps_from("MAX_RELEASE_BRANCH")>>,
      <<"start_height", U32>>, <<"release_height", U32>>,
      <<"raw_tx", Bytes("MAX_RELEASE_TX_BYTES")>>,
      <<"coinbase_tx", Bytes("MAX_RELEASE_TX_BYTES")>>>>

decode_proof ==
    [federated |-> <<<<"envelope", Envelope>>>>,
     bitcoin |->
        <<<<"headers", List("MAX_HEADERS", Hex(80))>>,
          <<"branch", merkle_steps_from("MAX_BRANCH")>>,
          <<"coinbase_branch", merkle_steps_from("MAX_BRANCH")>>,
          <<"start_height", U32>>, <<"deposit_height", U32>>,
          <<"raw_tx", Bytes("MAX_RAW_TX")>>,
          <<"coinbase_tx", Bytes("MAX_RAW_TX")>>, <<"fact", Fact>>>>,
     ethereum |->
        <<<<"participation", participation_from>>,
          <<"receipt_proof", List("MAX_PROOF_NODES", Bytes("none"))>>,
          <<"attested_header", Rec("header")>>,
          <<"finalized_header", Rec("header")>>,
          <<"finality_branch", roots_from("MAX_BRANCH")>>,
          <<"signature", Hex(96)>>, <<"signature_slot", U64>>,
          <<"receipts_root", Hex(32)>>, <<"block_number", U64>>,
          <<"execution_branch", roots_from("MAX_BRANCH")>>,
          <<"block_number_branch", roots_from("MAX_BRANCH")>>,
          <<"ancestry",
            OrNone(List("MAX_DEPOSIT_ANCESTRY", Rec("header")))>>,
          <<"receipt_index", U64>>, <<"log_index", U32>>,
          <<"historical_branch", OrNone(roots_from("MAX_BRANCH"))>>,
          <<"fact", Fact>>>>,
     cosmos |->
        <<<<"header", Rec("cosmos_header")>>, <<"commit", Rec("commit")>>,
          <<"validators", validators_from>>, <<"proof", Proof(0)>>,
          <<"fact", Fact>>>>]

decode_request ==
    [create_pool |->
        <<<<"network_id", U32>>, <<"identifier", Text>>, <<"decimals", U8>>,
          <<"per_asset_cap", U128>>, <<"per_epoch_cap", U128>>>>,
     list_pools |-> <<<<"network_id", OrNone(NullOr(U32))>>>>,
     get_pool |-> <<<<"asset_id", Hex(16)>>>>,
     submit_deposit |-> <<<<"proof", OneOf("proof")>>>>,
     deposit_status |-> <<<<"source_ref", Hex(32)>>, <<"asset_id", Hex(16)>>>>,
     report_reorg |->
        <<<<"source_chain", U32>>, <<"fork_depth", U32>>,
          <<"at_height", U64>>, <<"signatures", signer_sigs_from>>>>,
     resume_source |->
        <<<<"source_chain", U32>>, <<"at_height", U64>>,
          <<"signatures", signer_sigs_from>>>>,
     resume_all |-> <<<<"at_height", U64>>, <<"signatures", signer_sigs_from>>>>,
     emergency_freeze |->
        <<<<"until_height", U64>>, <<"signatures", signer_sigs_from>>>>,
     watchdog_freeze |->
        <<<<"until_height", U64>>, <<"signature", Rec("signer_sig")>>>>,
     set_corridor_tier |->
        <<<<"source_chain", U32>>, <<"tier", U8>>,
          <<"signatures", signer_sigs_from>>>>,
     rotate_ethereum_committee |->
        <<<<"attested_header", Rec("header")>>,
          <<"finalized_header", Rec("header")>>,
          <<"finality_branch", roots_from("MAX_BRANCH")>>,
          <<"next_sync_committee", Rec("committee")>>,
          <<"next_sync_committee_branch", roots_from("MAX_BRANCH")>>,
          <<"participation", participation_from>>, <<"signature", Hex(96)>>,
          <<"signature_slot", U64>>>>]

decode_response ==
    [pool_created |-> <<<<"pool", Rec("pool_view")>>>>,
     pool |-> <<<<"pool", Rec("pool_view")>>>>,
     pools |-> <<<<"pools", List("none", Rec("pool_view"))>>>>,
     deposit_admitted |-> <<<<"outcome", OneOf("outcome")>>>>,
     frozen |-> <<<<"until_height", U64>>>>,
     committee_rotated |-> <<<<"period", U64>>, <<"finalized_slot", U64>>>>,
     source_paused |-> <<<<"source_chain", U32>>, <<"fork_depth", U32>>>>,
     source_resumed |-> <<<<"source_chain", U32>>>>,
     gateway_resumed |-> <<<<"at_height", U64>>>>,
     corridor_tier_set |-> <<<<"source_chain", U32>>, <<"tier", U8>>>>,
     status |->
        <<<<"source_ref", Hex(32)>>, <<"asset_id", Hex(16)>>,
          <<"minted", Bool>>, <<"asset_minted_total", U128>>,
          <<"asset_cap", NullOr(U128)>>>>,
     error |-> <<<<"error", OneOf("error")>>>>]

-----------------------------------------------------------------------------
(* The two directions.  A reader returns <<value>>, or <<>> when it refuses. *)

rec_json ==
    [signer_sig |-> signer_sig_json, merkle_step |-> merkle_step_json,
     header |-> header_json, committee |-> committee_json,
     cosmos_header |-> cosmos_header_json, timestamp |-> timestamp_json,
     block_id |-> block_id_json, commit_sig |-> commit_sig_json,
     commit |-> commit_json, validator |-> validator_json,
     leaf_op |-> <<<<"prefix", Bytes("none")>>>>, inner_op |-> inner_op_json,
     pool_view |-> pool_view_json, release |-> release_proof_body]

rec_from ==
    [signer_sig |-> signer_sig_from, merkle_step |-> merkle_step_from,
     header |-> header_from, committee |-> committee_from,
     cosmos_header |-> cosmos_header_from, timestamp |-> timestamp_from,
     block_id |-> block_id_from, commit_sig |-> commit_sig_from,
     commit |-> commit_from, validator |-> validator_from,
     leaf_op |-> <<<<"prefix", Bytes("none")>>>>, inner_op |-> inner_op_from,
     pool_view |-> pool_view_from, release |-> decode_release_proof]

Families == {"api", "pool", "federated", "trustless"}

\* The key an alternative is told by, and the fields of each one.
one_of_json ==
    [proof |-> <<"kind", encode_proof>>, outcome |-> <<"status", outcome_json>>,
     response |-> <<"result", encode_response>>]

one_of_from ==
    [proof |-> <<"kind", decode_proof>>, outcome |-> <<"status", outcome_from>>,
     response |-> <<"result", decode_response>>]

Str(x) == <<"str", x>>
Num(n) == <<"int", n>>
Obj(members) == <<"obj", members>>

\* The types that are written as an object with members.
Composite == {"rec", "proof", "fields", "err", "one_of"}

\* The members that say which alternative a value is.
tagged(T, v) ==
    LET error(family) == <<<<"category", Str(<<"text", category(family)>>)>>,
                           <<"code", Str(<<"text", v.code>>)>>>>
    IN  CASE T[1] = "err" -> error(T[2])
          [] T = OneOf("error") -> error(v.family)
          [] T[1] = "one_of" -> <<<<one_of_json[T[2]][1], Str(<<"text", v.code>>)>>>>
          [] OTHER -> <<>>

rows_json(T, v) ==
    CASE T[1] = "rec" -> rec_json[T[2]]
      [] T[1] = "proof" -> existence_proof_json
      [] T[1] = "fields" -> T[2]
      [] T[1] = "err" -> err_json[T[2]][v.code]
      [] T = OneOf("error") -> err_json[v.family][v.code]
      [] OTHER -> one_of_json[T[2]][2][v.code]

fields_json(rows, v) ==
    FlattenSeq([i \in DOMAIN rows |->
        LET key == rows[i][1]  U == rows[i][2]
        IN IF U[1] # "maybe" THEN <<<<U, v[key], key>>>>
           ELSE [k \in DOMAIN v[key] |-> <<U[2], v[key][k], key>>]])

\* The values a value is written from: type, value and, of a member, its key.
parts_json(T, v) ==
    CASE T[1] = "list" -> [i \in DOMAIN v |-> <<T[3], v[i]>>]
      [] T[1] = "non_empty" -> <<<<T[2], v>>>>
      [] T[1] = "null_or" -> [i \in DOMAIN v |-> <<T[2], v[i]>>]
      [] T[1] \in Composite ->
            fields_json(rows_json(T, v), IF T[1] \in {"err", "one_of"} THEN v.of ELSE v)
      [] OTHER -> <<>>

\* A signed number is written "as u64", which adds 2^64 to a negative one.
Signed == {"i32", "i64"}

scalar_json(T, v) ==
    CASE T[1] \in {"u8", "u32", "u64", "usize", "network"} -> Num(v)
      [] T[1] \in Signed -> Num(v % (Limit["u64"] + 1))
      [] T[1] = "u128" -> Str(<<"dec", v>>)
      [] T[1] \in {"hex", "bytes", "fact", "envelope"} -> Str(<<"hex", v>>)
      [] T[1] \in {"text", "word"} -> Str(<<"text", v>>)
      [] T[1] = "bool" -> <<"bool", v>>

RECURSIVE json(_, _)
json(T, v) ==
    LET parts == parts_json(T, v)
        out == [i \in DOMAIN parts |-> json(parts[i][1], parts[i][2])]
    IN  CASE T[1] = "list" -> <<"arr", out>>
          [] T[1] = "non_empty" -> out[1]
          [] T[1] = "null_or" -> IF v = <<>> THEN <<"null">> ELSE out[1]
          [] T[1] \in Composite ->
                Obj(tagged(T, v) \o [i \in DOMAIN parts |-> <<parts[i][3], out[i]>>])
          [] OTHER -> scalar_json(T, v)

get(j, key) ==
    IF j[1] # "obj" THEN <<>>
    ELSE LET at == SelectInSeq(j[2], LAMBDA m : m[1] = key)
         IN IF at = 0 THEN <<>> ELSE <<j[2][at][2]>>

as_word(j) == IF j # <<>> /\ j[1][1] = "str" /\ j[1][2][1] = "text"
              THEN <<j[1][2][2]>> ELSE <<>>

fits(cap, n) == cap = "none" \/ n <= Cap[cap]

\* The word for the alternative that a value is.
code_of(T, j) ==
    as_word(get(j, IF T[1] = "err" \/ T = OneOf("error") THEN "code"
                   ELSE one_of_from[T[2]][1]))

\* The alternatives it may be.
variants_from(T, j) ==
    LET family == IF T[1] = "err" THEN <<T[2]>>
                  ELSE SelectSeq(as_word(get(j, "category")), LAMBDA f : f \in Families)
    IN  CASE T[1] = "one_of" /\ T # OneOf("error") -> one_of_from[T[2]][2]
          [] family # <<>> -> err_from[family[1]]
          [] OTHER -> [code \in {} |-> code]

variant_from(rows, code) ==
    IF code # <<>> /\ code[1] \in DOMAIN rows THEN <<rows[code[1]]>> ELSE <<>>

\* The members to read, or nothing.
rows_from(T, j) ==
    CASE T[1] = "rec" -> <<rec_from[T[2]]>>
      [] T[1] = "fields" -> <<T[2]>>
      [] T[1] = "proof" -> IF T[2] >= MAX_PROOF_DEPTH THEN <<>> ELSE <<existence_proof_at(T[2])>>
      [] T[1] \in {"err", "one_of"} -> variant_from(variants_from(T, j), code_of(T, j))
      [] OTHER -> <<>>

\* A member to read; one that is not there is read as absent.
field_from(row, m) ==
    LET U == row[2]
    IN IF m = <<>> THEN <<<<"absent", U[1]>>, <<"null">>>>
       ELSE <<IF U[1] \in {"maybe", "or_none"} THEN U[2] ELSE U, m[1]>>

parts_from(T, j, rows) ==
    CASE T[1] = "list" -> IF j[1] # "arr" THEN <<>>
                          ELSE [i \in DOMAIN j[2] |-> <<T[3], j[2][i]>>]
      [] T[1] = "non_empty" -> <<<<T[2], j>>>>
      [] T[1] = "null_or" -> IF j = <<"null">> THEN <<>> ELSE <<<<T[2], j>>>>
      [] T[1] \in Composite ->
            FlattenSeq([r \in DOMAIN rows |->
                [i \in DOMAIN rows[r] |-> field_from(rows[r][i], get(j, rows[r][i][1]))]])
      [] OTHER -> <<>>

\* The record of what was read of the members.
fields_from(rows, j, got) ==
    LET at(key) == SelectInSeq(rows, LAMBDA f : f[1] = key)
        kept(i) == IF rows[i][2][1] = "maybe" /\ get(j, rows[i][1]) # <<>>
                   THEN got[i] ELSE got[i][1]
    IN [key \in {rows[i][1] : i \in DOMAIN rows} |-> kept(at(key))]

composite_from(T, j, of) ==
    CASE T = Rec("pool_view") -> of @@ ("network_name" :> <<"name", of["network_id"]>>)
      [] T = OneOf("error") -> [family |-> as_word(get(j, "category"))[1],
                                code |-> code_of(T, j)[1], of |-> of]
      [] T[1] \in {"err", "one_of"} -> [code |-> code_of(T, j)[1], of |-> of]
      [] OTHER -> of

\* as_i64 and as_i32 read an unsigned number and take what their type holds.
scalar_from(T, j) ==
    CASE T[1] \in {"u8", "u32", "u64", "i32", "i64", "usize"} ->
            IF j[1] = "int" /\ j[2] <= Limit[T[1]] THEN <<j[2]>> ELSE <<>>
      [] T[1] = "network" ->
            IF j[1] = "int" /\ j[2] \in 1 .. Limit["u8"] THEN <<j[2]>> ELSE <<>>
      [] T[1] = "u128" ->
            IF j[1] = "int" \/ (j[1] = "str" /\ j[2][1] = "dec"
                                /\ j[2][2] <= Limit["u128"])
            THEN <<IF j[1] = "int" THEN j[2] ELSE j[2][2]>> ELSE <<>>
      [] T[1] = "hex" -> IF j[1] = "str" /\ j[2][1] = "hex" /\ j[2][2].len = T[2]
                         THEN <<j[2][2]>> ELSE <<>>
      [] T[1] = "bytes" -> IF j[1] = "str" /\ j[2][1] = "hex"
                              /\ fits(T[2], j[2][2].len)
                           THEN <<j[2][2]>> ELSE <<>>
      [] T[1] \in {"fact", "envelope"} ->
            IF j[1] = "str" /\ j[2][1] = "hex" /\ j[2][2].len = T[1]
            THEN <<j[2][2]>> ELSE <<>>
      [] T[1] = "text" -> as_word(<<j>>)
      [] T[1] = "word" -> SelectSeq(as_word(<<j>>), LAMBDA w : w \in T[2])
      [] T[1] = "bool" -> IF j[1] = "bool" THEN <<j[2]>> ELSE <<>>
      [] T[1] = "absent" -> IF T[2] \in {"maybe", "or_none"} THEN <<<<>>>> ELSE <<>>

combined(T, j, rows, got) ==
    CASE \E i \in DOMAIN got : got[i] = <<>> -> <<>>
      [] T[1] = "list" -> IF j[1] # "arr" \/ ~fits(T[2], Len(j[2])) THEN <<>>
                          ELSE <<[i \in DOMAIN got |-> got[i][1]]>>
      [] T[1] = "non_empty" -> IF j = <<"arr", <<>>>> THEN <<>> ELSE got[1]
      [] T[1] = "null_or" -> IF j = <<"null">> THEN <<<<>>>> ELSE <<got[1]>>
      [] T[1] \in Composite ->
            [r \in DOMAIN rows |-> composite_from(T, j, fields_from(rows[r], j, got))]
      [] OTHER -> scalar_from(T, j)

\* What is written is read part by part; the first refusal is the answer.
RECURSIVE from(_, _)
parts_read(parts) == [i \in DOMAIN parts |-> from(parts[i][1], parts[i][2])]
read_by(T, j, rows) == combined(T, j, rows, parts_read(parts_from(T, j, rows)))
from(T, j) == read_by(T, j, rows_from(T, j))

\* json::parse refuses a text that nests too deep, has too many values or
\* repeats a key.
RECURSIVE depth(_), nodes(_), repeats(_)
children(j) == IF j[1] = "arr" THEN j[2]
               ELSE IF j[1] = "obj" THEN [i \in DOMAIN j[2] |-> j[2][i][2]]
               ELSE <<>>
depth(j) == IF j[1] \in {"arr", "obj"}
            THEN FoldLeft(LAMBDA n, c : Max({n, depth(c) + 1}),
                          1, children(j))
            ELSE 0
nodes(j) == FoldLeft(LAMBDA n, c : n + nodes(c), 1, children(j))
repeats(j) == \/ j[1] = "obj" /\ \E a, b \in DOMAIN j[2] :
                                   a # b /\ j[2][a][1] = j[2][b][1]
              \/ \E i \in DOMAIN children(j) : repeats(children(j)[i])

parse(j) == IF depth(j) > MAX_DEPTH \/ nodes(j) > MAX_NODES \/ repeats(j)
            THEN <<>> ELSE <<j>>

-----------------------------------------------------------------------------
(* Messages to try: every alternative of every table, with the smallest    *)
(* and the largest values, with -1 and the least value for its signed      *)
(* numbers, and with one list made longer than any limit.                  *)

Longest == 1 + FoldFunction(LAMBDA a, b : IF a > b THEN a ELSE b, 0, Cap)

RECURSIVE example(_, _, _, _)

examples_of(fields, size, long) ==
    [key \in {fields[i][1] : i \in DOMAIN fields} |->
        LET at == SelectInSeq(fields, LAMBDA f : f[1] = key)
        IN example(fields[at][2], size, long, key)]

\* One value of a type: size is "low", "high" or, for what signed numbers are
\* tried with, "minus" or "least"; long is the key of the list that is too
\* long, here the key this value stands under.
example(T, size, long, here) ==
    LET high == size # "low"
        fill == IF high THEN "high" ELSE "low"
        list(U) == [i \in 1 .. (IF here = long THEN Longest
                                ELSE IF high THEN 1 ELSE 0)
                      |-> example(U, size, long, "")]
        number(t) == IF t \in Signed /\ size = "minus" THEN -1
                     ELSE IF t \in Signed /\ size = "least" THEN -Limit[t] - 1
                     ELSE IF high THEN Limit[t] ELSE 0
    IN CASE T[1] \in DOMAIN Limit -> number(T[1])
         [] T[1] = "network" -> IF high THEN Limit["u8"] ELSE 1
         [] T[1] = "hex" -> [len |-> T[2], fill |-> fill]
         [] T[1] = "bytes" -> [len |-> IF high THEN 1 ELSE 0, fill |-> fill]
         [] T[1] \in {"fact", "envelope"} -> [len |-> T[1], fill |-> fill]
         [] T[1] = "text" -> IF here = "network_name"
                             THEN <<"name", example(Network, size, long, here)>>
                             ELSE fill
         [] T[1] = "word" -> IF high THEN CHOOSE w \in T[2] : TRUE
                             ELSE CHOOSE w \in T[2] :
                                    w # CHOOSE x \in T[2] : TRUE
         [] T[1] = "bool" -> high
         [] T[1] = "list" -> list(T[3])
         [] T[1] = "non_empty" -> IF list(T[2][3]) # <<>> THEN list(T[2][3])
                                  ELSE <<example(T[2][3], size, long, "")>>
         [] T[1] = "null_or" -> IF high THEN <<example(T[2], size, long, "")>>
                                ELSE <<>>
         [] T[1] = "rec" -> examples_of(rec_json[T[2]], size, long)
         [] T[1] = "proof" ->
               LET bare == examples_of(SelectSeq(existence_proof_json,
                                         LAMBDA f : f[1] # "store"), size, long)
                   deep == IF long = "store" THEN MAX_PROOF_DEPTH
                           ELSE IF high THEN 1 ELSE 0
                   under[n \in 0 .. deep] ==
                       bare @@ ("store" :> IF n = 0 THEN <<>> ELSE <<under[n - 1]>>)
               IN under[deep]

\* Every error a family can carry, nested ones included.
RECURSIVE errors_of(_, _)
errors_of(family, size) ==
    UNION {LET rows == err_json[family][c]
           IN IF \E i \in DOMAIN rows : rows[i][2][1] = "err"
              THEN {[code |-> c, of |-> rows[1][1] :> e] :
                       e \in errors_of(rows[1][2][2], size)}
              ELSE {[code |-> c, of |-> examples_of(rows, size, "")]}
           : c \in DOMAIN err_json[family]}

Errors(size) == UNION {{[family |-> f, code |-> e.code, of |-> e.of] :
                           e \in errors_of(f, size)} : f \in Families}

LongKeys == {"", "signatures", "pubkeys", "headers", "branch",
             "coinbase_branch", "finality_branch", "participation",
             "next_sync_committee_branch", "execution_branch",
             "block_number_branch", "historical_branch", "receipt_proof",
             "ancestry", "validators", "path", "store"}

Alternatives(rows, size, long) ==
    {[code |-> c, of |-> examples_of(rows[c], size, long)] : c \in DOMAIN rows}

Proofs(size, long) == Alternatives(encode_proof, size, long)

RequestsOf(size, long) ==
    {[code |-> "submit_deposit", of |-> "proof" :> p] : p \in Proofs(size, long)}
    \cup {[code |-> c, of |-> examples_of(encode_request[c], size, long)] :
            c \in DOMAIN encode_request \ {"submit_deposit"}}
    \cup {[code |-> "submit_release",
           of |-> examples_of(release_proof_body, size, long)]}

\* Cosmos deposits of a block that one validator did not vote for: its entry
\* in the commit has the zero time of Tendermint, which is before 1970.
UnvotedDeposits ==
    {[v EXCEPT !.of["proof"].of["commit"].signatures[1] =
                   [@ EXCEPT !.flag = "absent",
                             !.timestamp = [seconds |-> -1, nanos |-> 0]]] :
        v \in {[code |-> "submit_deposit", of |-> "proof" :> p] :
                  p \in {p \in Proofs("high", "") : p.code = "cosmos"}}}

Responses(size) ==
    {[code |-> "error", of |-> "error" :> e] : e \in Errors(size)}
    \cup {[code |-> "deposit_admitted", of |-> "outcome" :> o] :
            o \in Alternatives(outcome_json, size, "")}
    \cup {[code |-> c, of |-> examples_of(encode_response[c], size, "")] :
            c \in DOMAIN encode_response \ {"error", "deposit_admitted"}}

\* A message that a reader has to refuse: it has a list that is too long, or
\* a number below zero.
Message(way, v, refuse) == [way |-> way, v |-> v, refuse |-> refuse]

Messages ==
    {Message("request", v, FALSE) : v \in RequestsOf("low", "") \cup RequestsOf("high", "")}
    \cup {Message("request", v, TRUE) :
            v \in UNION ({RequestsOf("high", k) : k \in LongKeys}
                         \cup {RequestsOf(size, "") : size \in {"minus", "least"}}
                         \cup {UnvotedDeposits})
                 \ RequestsOf("high", "")}
    \cup {Message("response", v, FALSE) : v \in Responses("low") \cup Responses("high")}
    \cup {Message("response", v, TRUE) :
            v \in (Responses("minus") \cup Responses("least")) \ Responses("high")}

\* What the other end makes of a message: the method is in the path of a
\* request and in the result of a response.
delivered(m) ==
    LET release == m.v.code = "submit_release"
        written == IF m.way = "response" THEN json(OneOf("response"), m.v)
                   ELSE json(<<"fields", IF release THEN release_proof_body
                                         ELSE encode_request[m.v.code]>>, m.v.of)
        read(j) == IF m.way = "response" THEN from(OneOf("response"), j)
                   ELSE from(<<"fields", IF release THEN decode_release_proof
                                         ELSE decode_request[m.v.code]>>, j)
    IN  FlattenSeq([i \in DOMAIN parse(written) |->
            LET of == read(parse(written)[i])
            IN IF m.way = "response" THEN of
               ELSE [k \in DOMAIN of |-> [code |-> m.v.code, of |-> of[k]]]])

\* Whatever is written is read back as it was or, where it must be, refused.
faithful(m) == delivered(m) = IF m.refuse THEN <<>> ELSE <<m.v>>
=============================================================================
