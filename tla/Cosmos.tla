------------------------------- MODULE Cosmos -------------------------------
(***************************************************************************)
(* Cosmos deposits (qlc-cosmos light.rs, commit.rs, validator.rs,          *)
(* proof.rs, merkle.rs, statement.rs): a header that enough of the trusted *)
(* validators signed, and a key of the bridge's store under its app hash.  *)
(* The hash of a header or of a validator set is the header or the set.    *)
(* The chain's headers are Main; ForgedHeaders are anybody's.              *)
(***************************************************************************)
EXTENDS Numbers, Hashing, FiniteSets, FiniteSetsExt

CONSTANTS
    cfg,                        \* ChainConfig
    anchor,                     \* TrustedState of the anchor
    PINNED_TRUSTED_STATES,
    MAX_VALIDATORS,
    DEPOSIT_WORDS,              \* the words of DEPOSIT_VALUE_LEN: 3
    MAX_OP_PREFIX_LEN, MAX_INNER_SUFFIX_LEN,
    MAX_PROOF_PATH_LEN, MAX_STORE_PATH_LEN,
    Main,                       \* the chain's headers, by height
    ForgedHeaders,
    Corrupt,                    \* validators that sign anything
    UNBONDING,                  \* how long after its last block a key is at stake
    LAST_TIME

VARIABLES
    trusted,                    \* TrustedState
    clock                       \* now

-----------------------------------------------------------------------------
(* validator.rs: a validator's address stands for its key *)

Addresses(set) == {set[i].pubkey : i \in DOMAIN set}

total_power(set) == SumFunction([i \in DOMAIN set |-> set[i].voting_power])

has_two_thirds(signed, total) == signed * 3 > total * 2

overlap_power(old, new) ==
    SumFunction([i \in {k \in DOMAIN old : old[k].pubkey \in Addresses(new)} |->
                    old[i].voting_power])

overlap_meets(old, new) ==
    /\ cfg.overlap_numerator # 0
    /\ overlap_power(old, new) * cfg.overlap_denominator
          > total_power(old) * cfg.overlap_numerator

\* The power an address votes with: its first entry in the set.
power_of(set, address) ==
    IF address \in Addresses(set)
    THEN set[Min({i \in DOMAIN set : set[i].pubkey = address})].voting_power ELSE 0

-----------------------------------------------------------------------------
(* commit.rs *)

\* The votes among some signatures, and those as long as a signature is.
Voted(sigs) == {i \in DOMAIN sigs : sigs[i].flag = "Commit"}
WellSized(sigs) == {i \in Voted(sigs) : sigs[i].signature # "short"}
NoneTwice(sigs, votes) ==
    \A i, k \in votes : sigs[i].validator_address = sigs[k].validator_address => i = k

fits(commit, set) == Len(set) <= MAX_VALIDATORS /\ Len(commit.signatures) <= MAX_VALIDATORS

can_claim(commit, set) ==
    fits(commit, set) /\ NoneTwice(commit.signatures, WellSized(commit.signatures))

claimed_power(commit, set) ==
    LET sigs == commit.signatures
    IN  SumFunction([i \in WellSized(sigs) |-> power_of(set, sigs[i].validator_address)])

can_tally(header, commit, set) ==
    /\ fits(commit, set)
    /\ commit.height = header.height
    /\ commit.block_id = header
    /\ NoneTwice(commit.signatures, Voted(commit.signatures))

\* One more signature.  The count stops once it reaches, or can no longer
\* reach, what it is for: reaches[n] says whether a power of n is enough.
count(sigs, set, reaches, i, acc) ==
    LET power == power_of(set, sigs[i].validator_address)
    IN  IF \/ reaches[acc.signed] \/ ~reaches[acc.signed + acc.unresolved]
           \/ i \notin WellSized(sigs)
        THEN acc
        ELSE [unresolved |-> acc.unresolved - power,
              signed |-> IF sigs[i].signature = "real" THEN acc.signed + power ELSE acc.signed]

\* What has been counted after every signature.
tally(commit, set, reaches) ==
    LET sigs == commit.signatures
        counted[i \in 0 .. Len(sigs)] ==
            IF i = 0 THEN [signed |-> 0, unresolved |-> claimed_power(commit, set)]
            ELSE count(sigs, set, reaches, i, counted[i - 1])
    IN  counted

tally_signed_power_until(commit, set, reaches) ==
    tally(commit, set, reaches)[Len(commit.signatures)].signed

verify_commit(header, commit, set) ==
    LET total == total_power(set)
        reaches == [power \in 0 .. total |-> has_two_thirds(power, total)]
    IN  /\ can_claim(commit, set) /\ has_two_thirds(claimed_power(commit, set), total)
        /\ can_tally(header, commit, set)
        /\ has_two_thirds(tally_signed_power_until(commit, set, reaches), total)

-----------------------------------------------------------------------------
(* light.rs *)

trusted_state_is_pinned(chain_id, state) ==
    [chain_id |-> chain_id, state |-> state] \in PINNED_TRUSTED_STATES

check_time(state, header, now) ==
    /\ now >= state.time
    /\ now - state.time < cfg.trusting_period
    /\ header.time > state.time
    /\ header.time <= now + cfg.max_clock_drift

check_header(state, header, set, now) ==
    /\ Len(set) <= MAX_VALIDATORS
    /\ header.chain_id = cfg.chain_id
    /\ header.height > state.height
    /\ header.validators = set
    /\ check_time(state, header, now)

trusting_reach(power, total) ==
    cfg.overlap_numerator > 0
    /\ power * cfg.overlap_denominator > total * cfg.overlap_numerator

check_trusting_claim(state, commit) ==
    /\ can_claim(commit, state.validators)
    /\ trusting_reach(claimed_power(commit, state.validators), total_power(state.validators))

check_trusting_commit(state, header, commit) ==
    LET total == total_power(state.validators)
        reaches == [power \in 0 .. total |-> trusting_reach(power, total)]
    IN  /\ check_trusting_claim(state, commit)
        /\ can_tally(header, commit, state.validators)
        /\ reaches[tally_signed_power_until(commit, state.validators, reaches)]

adopt(header, set) ==
    [height |-> header.height, time |-> header.time, header_hash |-> header,
     validators |-> set, next_validators |-> header.next_validators]

check_anchor(state, header, set, now) ==
    /\ check_header(state, header, set, now)
    /\ overlap_meets(state.validators, set)

verify_transition(state, header, commit, set, now) ==
    /\ check_header(state, header, set, now)
    /\ overlap_meets(state.validators, set)
    /\ verify_commit(header, commit, set)
    /\ check_trusting_commit(state, header, commit)

verify_adjacent(state, header, commit, set, now) ==
    /\ check_header(state, header, set, now)
    /\ header.height = state.height + 1
    /\ header.validators = state.next_validators
    /\ verify_commit(header, commit, set)

-----------------------------------------------------------------------------
(* proof.rs *)

\* The hash after every step of the path.
hashes(proof) ==
    LET hash[i \in 0 .. Len(proof.path)] ==
            IF i = 0 THEN leaf_apply(proof.leaf, proof.key, proof.value)
            ELSE inner_apply(hash[i - 1], proof.path[i])
    IN  hash

calculate_root(proof) == hashes(proof)[Len(proof.path)]

LEAF_MARKER == 0
INNER_MARKER == 1
starts(tokens, t) == tokens # <<>> /\ tokens[1] = t

\* Three varints: height 0, size 1 and an even version, zigzag.
canonical_leaf_prefix(prefix) ==
    LET after(n) == SubSeq(prefix, n + 1, Len(prefix))
    IN  \E h \in minimal_varint(prefix) : \E s \in minimal_varint(after(h[2])) :
           \E v \in minimal_varint(after(h[2] + s[2])) :
              /\ h[1] = 0 /\ s[1] = 2 /\ v[1] % 2 = 0
              /\ h[2] + s[2] + v[2] = Len(prefix)

canonical_ops(proof) ==
    /\ Len(proof.path) <= MAX_PROOF_PATH_LEN
    /\ starts(proof.leaf, LEAF_MARKER) /\ Len(proof.leaf) <= MAX_OP_PREFIX_LEN
    /\ canonical_leaf_prefix(proof.leaf)
    /\ \A i \in DOMAIN proof.path :
          LET op == proof.path[i]
          IN  /\ Size(op.prefix) \in 1 .. MAX_OP_PREFIX_LEN
              /\ ~starts(op.prefix, Byte(LEAF_MARKER))
              /\ Size(op.suffix) <= MAX_INNER_SUFFIX_LEN

canonical_store_ops(proof) ==
    /\ Len(proof.path) <= MAX_STORE_PATH_LEN
    /\ proof.leaf = <<LEAF_MARKER>>
    /\ \A i \in DOMAIN proof.path :
          LET op == proof.path[i]
          IN  /\ starts(op.prefix, Byte(INNER_MARKER))
              /\ \/ Size(op.prefix) = 1 + HASH_LEN /\ op.suffix = <<>>
                 \/ Size(op.prefix) = 1 /\ Size(op.suffix) = HASH_LEN

deposit_source_ref(proof) == <<cfg.chain_id, cfg.bridge_store_name, proof.key>>

can_extract_deposit(app_hash, proof) ==
    /\ canonical_ops(proof)
    /\ Len(proof.value) = DEPOSIT_WORDS
    /\ cfg.bridge_store_prefix # <<>> /\ IsPrefix(cfg.bridge_store_prefix, proof.key)
    /\ \E store \in proof.store :
          /\ canonical_store_ops(store)
          /\ cfg.bridge_store_name # <<>> /\ store.key = cfg.bridge_store_name
          /\ store.value = <<calculate_root(proof)>>
          /\ <<calculate_root(store)>> = app_hash

-----------------------------------------------------------------------------
(* statement.rs *)

verify_deposit_core(state, header, commit, set, proof, now) ==
    /\ header.chain_id = cfg.chain_id
    /\ check_anchor(state, header, set, now)
    /\ Size(header.app_hash) = HASH_LEN
    /\ can_extract_deposit(header.app_hash, proof)
    /\ check_trusting_claim(state, commit)
    /\ can_claim(commit, set)
    /\ has_two_thirds(claimed_power(commit, set), total_power(set))
    /\ check_trusting_commit(state, header, commit)
    /\ verify_commit(header, commit, set)

verify_trustless_deposit(header, proof) ==
    [source_ref |-> deposit_source_ref(proof), recipient |-> proof.value[1].word,
     asset_id |-> proof.value[2].word, amount |-> proof.value[3].word,
     confirmations |-> cfg.confirmation_depth]

-----------------------------------------------------------------------------
(* What anybody can present *)

Headers == Range(Main) \cup ForgedHeaders

\* A key that has been out of the chain for as long as UNBONDING signs anything.
Unbonded(key) == \A h \in Range(Main) :
                    key \in Addresses(h.validators) => h.time + UNBONDING <= clock

CanSign(key, h) ==
    \/ key \in Corrupt
    \/ h \in Range(Main) /\ h.time <= clock /\ key \in Addresses(h.validators)
    \/ Unbonded(key)

Sig(flag, key, made) == [flag |-> flag, validator_address |-> key, signature |-> made]

\* All who can sign, or all but one, and the others in one of the other ways.
CommitsOver(block, keys) ==
    LET able == {k \in keys : CanSign(k, block)}
        sigs(flag, made, of) ==
            SetToSeq({Sig(flag, k, made) : k \in of})
        others(of) == {<<>>, sigs("Nil", "real", of), sigs("Commit", "junk", of),
                       sigs("Commit", "short", of)}
    IN  UNION {LET real == sigs("Commit", "real", able \ out)
               IN  {real \o s : s \in others(keys \ (able \ out)) \cup {real}} :
               out \in {{}} \cup {{k} : k \in able}}

Commits(header, keys) ==
    UNION {{[height |-> k, block_id |-> b, signatures |-> s] : s \in CommitsOver(b, keys)} :
           b \in {h \in Headers : h.height = header.height}, k \in {header.height, header.height + 1}}

-----------------------------------------------------------------------------
Init == trusted = anchor /\ clock = anchor.time

Tick == clock < LAST_TIME /\ clock' = clock + 1 /\ UNCHANGED trusted

\* The headers, with their sets, that are not refused before any signature.
Candidates == {c \in UNION {{<<h, h.validators>>, <<h, trusted.validators>>} : h \in Headers} :
                 check_header(trusted, c[1], c[2], clock)}

CommitsFor(c) == Commits(c[1], Addresses(c[2]) \cup Addresses(trusted.validators))

Adopt(c) == trusted' = adopt(c[1], c[2]) /\ UNCHANGED clock

\* The two ways the light client takes a newer header.
Transition ==
    \E c \in Candidates :
       /\ \E commit \in CommitsFor(c) : verify_transition(trusted, c[1], commit, c[2], clock)
       /\ Adopt(c)

Adjacent ==
    \E c \in Candidates :
       /\ \E commit \in CommitsFor(c) : verify_adjacent(trusted, c[1], commit, c[2], clock)
       /\ Adopt(c)

Next == Tick \/ Transition \/ Adjacent

\* While the trusted header is within its period its validators are the
\* chain's, so a light client that follows headers never leaves the chain
\* (verify_transition, verify_adjacent).
TrustsTheChain == trusted.header_hash \in Range(Main)
=============================================================================
