--------------------------- MODULE ProofCorridors ---------------------------
(***************************************************************************)
(* The corridors that mint on a proof: the pools and the anchors of the    *)
(* bridge (q-federated pools.rs, corridors.rs, q-runtime anchors.rs), the  *)
(* three light clients behind them, and the deposit endpoint that checks a *)
(* claimed fact against what a light client proved (q-federated            *)
(* trustless.rs, q-qbridge endpoints.rs).                                  *)
(*                                                                         *)
(* A deposit is one step here; GuardedBridge and FrontDoor have the steps  *)
(* it is made of, the lock between them and the halts of the gateway.  A   *)
(* network's id is its name and an asset's id the pair it is hashed from.  *)
(***************************************************************************)
EXTENDS Numbers, FiniteSets, FiniteSetsExt, Bags

CONSTANTS
    \* Ethereum
    config, presets, PINNED_BLOCK_ROOTS, SLOTS_PER_HISTORICAL_ROOT,
    BLOCK_ROOTS_DEPTH, MAX_DEPOSIT_ANCESTRY, MAX_U128, Heads, LAST_SLOT,
    Committees, Honest, ForgedSlots, FalseCommittee, Receipts,
    \* Bitcoin
    params, checkpoint, PINNED_CHECKPOINTS, deposit_script,
    MEDIAN_TIME_SPAN, MAX_MERKLE_BRANCH, MAX_COUNT, MAX_MONEY, HALF_BTC,
    MAX_TRUSTLESS_DEPOSIT_SATS, Blocks, Txs,
    \* Cosmos
    cfg, anchor, PINNED_TRUSTED_STATES, MAX_VALIDATORS, HASH_LEN,
    DEPOSIT_WORDS, MAX_OP_PREFIX_LEN, MAX_INNER_SUFFIX_LEN,
    MAX_PROOF_PATH_LEN, MAX_STORE_PATH_LEN, Main, ForgedHeaders, Corrupt,
    UNBONDING, LAST_TIME,
    StoreProofs             \* the existence proofs that are presented

CONSTANTS
    Networks,               \* the networks with an id
    ASSETS,                 \* the registry's foreign assets: [network, identifier, decimals]
    FEDERATED_DEPTH,        \* depth of the corridors of corridors.rs, partial
    PROOF_DEPTH,            \* depth of the three proof corridors
    DEFAULT_CONFIRMATION_DEPTH, PROVISIONAL_CAP, MAX_POOLS, MAX_DECIMALS, MAX_CAP,
    WELLFORMED,             \* the identifiers that pass identifier_is_wellformed
    governance_configured,
    dest_chain_id,
    PoolRequests,
    AnchorFiles,            \* what the anchor file may hold: [section -> value], partial
    MIN_PINNED_CHECKPOINT_HEIGHT, MIN_PAYOUT_WORK, MAX_BRIDGE_SCRIPT,
    MAX_COMMITTEE_MEMBERS,
    Materials,              \* Bitcoin: [headers, start_height, proofs] that are presented
    BridgeStore,            \* the Cosmos bridge's store: [leaf, key, value], leaf a prefix
    Stores,                 \* the stores of its chain: [name, root]
    BridgeNodes, AppNodes,  \* the nodes of the trees of the bridge's store, and of all stores
    ForgedReceipts,         \* what is presented as the receipts of a forged block
    MaxMints                \* bound on the mints

VARIABLES
    store, slot,            \* Ethereum
    trusted, clock,         \* Cosmos
    anchors,                \* ProofAnchors: a set of at most one for every section
    pools,                  \* PoolRegistry: asset -> PoolSpec
    guard,                  \* the part of the gateway that a pool or a mint changes
    mints                   \* history: the bag of the mints admitted

vars == <<store, slot, trusted, clock, anchors, pools, guard, mints>>

Eth == INSTANCE Ethereum
Btc == INSTANCE Bitcoin
Cos == INSTANCE Cosmos

-----------------------------------------------------------------------------
(* corridors.rs, pools.rs *)

Proven == {"Bitcoin", "Ethereum", "Cosmos"}

derive_asset_id(network, identifier) == <<network, identifier>>

origin_tag(network) == <<network, "QO">>

tier_for(network) == IF network \in Proven THEN "ProofBacked" ELSE "Federated"

grade_for(network) ==
    IF tier_for(network) = "ProofBacked" THEN "Trustless" ELSE "TrustedRelayer"

NATIVE == [Bitcoin |-> "BTC", Ethereum |-> "ETH", Cosmos |-> "ATOM"]

native_asset(network) ==
    IF network \in Proven THEN derive_asset_id(network, NATIVE[network])
    ELSE origin_tag(network)

depth_for(network) ==
    IF network \in Proven THEN PROOF_DEPTH[network]
    ELSE IF network \in DOMAIN FEDERATED_DEPTH THEN FEDERATED_DEPTH[network]
    ELSE DEFAULT_CONFIRMATION_DEPTH

corridor_for(network, cap) ==
    [chain_id |-> network, tier |-> tier_for(network), grade |-> grade_for(network),
     confirmation_depth |-> depth_for(network), origin_asset |-> native_asset(network),
     cap_base_units |-> cap, active |-> TRUE]

derive(network, identifier, decimals, asset_cap, epoch_cap) ==
    [network |-> network, identifier |-> identifier, decimals |-> decimals,
     asset_id |-> derive_asset_id(network, identifier),
     per_asset_cap |-> asset_cap, per_epoch_cap |-> epoch_cap, tier |-> tier_for(network)]

validate(spec) ==
    /\ spec.identifier \in WELLFORMED
    /\ spec.decimals <= MAX_DECIMALS
    /\ {spec.per_asset_cap, spec.per_epoch_cap} \subseteq 1 .. MAX_CAP
    /\ spec.per_epoch_cap <= spec.per_asset_cap
    /\ spec.asset_id = derive_asset_id(spec.network, spec.identifier)
    /\ spec.tier = tier_for(spec.network)

can_register(registry, spec) ==
    /\ Cardinality(DOMAIN registry) < MAX_POOLS
    /\ validate(spec)
    /\ spec.asset_id \notin DOMAIN registry

register(registry, spec) ==
    [a \in DOMAIN registry \cup {spec.asset_id} |->
        IF a = spec.asset_id THEN spec ELSE registry[a]]

seeded ==
    LET spec(r) == derive(r.network, r.identifier, r.decimals, PROVISIONAL_CAP, PROVISIONAL_CAP)
    IN  FoldSet(LAMBDA r, registry : register(registry, spec(r)), <<>>, ASSETS)

Extend(f, x, y) == [z \in DOMAIN f \cup {x} |-> IF z = x THEN y ELSE f[z]]

\* The caps are replaced; what has been minted is kept.
install_pool(g, spec) ==
    [g EXCEPT !.corridors = Extend(@, spec.network, depth_for(spec.network)),
              !.asset_cap = Extend(@, spec.asset_id, spec.per_asset_cap),
              !.minted = IF spec.asset_id \in DOMAIN @ THEN @ ELSE Extend(@, spec.asset_id, 0)]

NewGuard == [corridors |-> <<>>, asset_cap |-> <<>>, minted |-> <<>>, used_refs |-> {}]

\* All pools into a guard that has none yet.
install_all(g, registry) ==
    [g EXCEPT !.corridors = [n \in {registry[a].network : a \in DOMAIN registry} |-> depth_for(n)],
              !.asset_cap = [a \in DOMAIN registry |-> registry[a].per_asset_cap],
              !.minted = [a \in DOMAIN registry |-> 0]]

-----------------------------------------------------------------------------
(* anchors.rs: file is what the anchor file holds *)

reads_bitcoin_anchor(j) ==
    /\ j.network \in {"bitcoin", "bitcoin_cash"}
    /\ j.checkpoint.height >= MIN_PINNED_CHECKPOINT_HEIGHT
    /\ j.checkpoint.min_work >= MIN_PAYOUT_WORK
    /\ Len(j.bridge_script) \in 1 .. MAX_BRIDGE_SCRIPT
    /\ [network |-> j.network, height |-> j.checkpoint.height,
        hash |-> j.checkpoint.hash] \in PINNED_CHECKPOINTS

\* A file may lower the largest deposit of its preset and raise its depth.
ethereum_configs(j) ==
    {[preset EXCEPT !.deposit_contract = j.deposit_contract,
                    !.max_deposit_base_units = Min({@} \cup j.max_deposit_base_units),
                    !.finality_depth = Max({@} \cup j.finality_depth)] :
        preset \in {p \in presets : /\ p.chain_id = j.chain_id
                                     /\ p.consensus = "BeaconSyncCommittee"}}

reads_ethereum_anchor(j) ==
    /\ ethereum_configs(j) # {}
    /\ Eth!can_bootstrap(j.period, j.trusted_block_root, j.checkpoint_header,
                         j.current_sync_committee)

reads_cosmos_anchor(j) ==
    /\ j.chain_id = cfg.chain_id
    /\ Cos!trusted_state_is_pinned(j.chain_id, j.trusted)

reads_quantova_anchor(j) ==
    /\ j.genesis_hash # 0
    /\ Cardinality(j.members) \in 1 .. MAX_COMMITTEE_MEMBERS
    /\ \A m \in j.members : m.key_fits

\* One bad or unknown section refuses the whole file, and the daemon's start.
can_parse_anchors(file) ==
    \A section \in DOMAIN file :
       LET j == file[section]
       IN  CASE section = "bitcoin" -> reads_bitcoin_anchor(j)
             [] section = "ethereum" -> reads_ethereum_anchor(j)
             [] section = "cosmos" -> reads_cosmos_anchor(j)
             [] section = "quantova" -> reads_quantova_anchor(j)
             [] OTHER -> FALSE

\* The light clients are those of the file that was installed.
install(file) ==
    /\ anchors = DOMAIN file \cap {"bitcoin", "ethereum", "cosmos"}
    /\ "bitcoin" \in DOMAIN file =>
          /\ checkpoint = file.bitcoin.checkpoint
          /\ <<deposit_script>> = file.bitcoin.bridge_script
    /\ "ethereum" \in DOMAIN file =>
          /\ config \in ethereum_configs(file.ethereum)
          /\ store = Eth!bootstrap(file.ethereum.period, file.ethereum.checkpoint_header,
                                   file.ethereum.current_sync_committee)
    /\ "cosmos" \in DOMAIN file => trusted = file.cosmos.trusted

bitcoin_anchor_armed ==
    /\ "bitcoin" \in anchors
    /\ checkpoint.min_work # 0 /\ deposit_script # ""
    /\ params.network = "bitcoin"

anchored(network) ==
    CASE network = "Bitcoin" -> bitcoin_anchor_armed
      [] network = "Ethereum" -> "ethereum" \in anchors
      [] OTHER -> "cosmos" \in anchors

-----------------------------------------------------------------------------
(* What the light clients prove of what is presented to them *)

BitcoinProven ==
    UNION {LET chain == Btc!verify_chain(m.headers, m.start_height)
           IN  {Btc!verify_trustless_deposit(chain, p) :
                  p \in {x \in m.proofs : Btc!verifies_deposit(chain, x)}} :
           m \in {x \in Materials : Btc!can_verify_chain(x.headers, x.start_height)}}

\* Updates that are signed as they should be, with no deposit in them yet.
EthereumUpdates ==
    LET final(h, s) == {f \in Eth!Headers : /\ Eth!slots_are_consistent(store, s, h.slot, f.slot)
                                           /\ Eth!verify_finality(h, f)}
    IN  UNION {{u \in [attested: {h}, finalized: final(h, h.slot + n),
                       signature_slot: {h.slot + n},
                       participation: Eth!Participations(store, h.slot + n)] :
                  /\ Eth!check_participation(store, u.participation, u.signature_slot)
                  /\ Eth!verify_sync_aggregate(store, h, u.participation, u.signature_slot)} :
               h \in Eth!Headers, n \in 1 .. 2}

Lineages(h) ==
    {[ancestry |-> <<>>, historical |-> FALSE],
     [ancestry |-> <<Eth!Parent(h)>>, historical |-> FALSE],
     [ancestry |-> <<Eth!Parent(h), Eth!Parent(Eth!Parent(h))>>, historical |-> FALSE]}
    \cup {[ancestry |-> <<b>>, historical |-> TRUE] : b \in Eth!Headers}

Executions(block) ==
    {[receipts_root |-> r, block_number |-> block.slot] :
        r \in {ForgedReceipts} \cup (IF block.main THEN {Receipts[block.slot]} ELSE {})}

With(u, d) ==
    [attested |-> u.attested, finalized |-> u.finalized, participation |-> u.participation,
     signature_slot |-> u.signature_slot, execution |-> d.execution]

\* Every log of every block below a finalized one; one update for every
\* finalized block, as the rest depends on no more of it.
EthereumProven ==
    LET updates == EthereumUpdates
        lineages(f) == {l \in Lineages(f) : IF l.historical
                                            THEN Eth!verify_historical(f, l.ancestry)
                                            ELSE Eth!verify_ancestry(f, l.ancestry)}
        openings(l, e) ==
            UNION {[execution: {e}, receipt_index: {r - 1},
                    log_index: 0 .. Len(e.receipts_root[r].logs),
                    ancestry: {l.ancestry}, historical: {l.historical}] :
                   r \in DOMAIN e.receipts_root}
        opened(u, l) ==
            {d \in UNION {openings(l, e) : e \in Executions(Eth!deposit_block(u.finalized, l.ancestry))} :
                Eth!verifies_deposit(store, With(u, d), d)}
    IN  UNION {UNION {{Eth!verify_trustless_deposit(With(u, d), d) : d \in opened(u, l)} :
                      l \in lineages(u.finalized)} :
               u \in {CHOOSE v \in updates : v.finalized = f : f \in {w.finalized : w \in updates}}}

\* The proofs that open a deposit under the app hash of a header.
Opened == [h \in Cos!Headers |-> {p \in StoreProofs : Cos!can_extract_deposit(h.app_hash, p)}]

CosmosProven ==
    UNION {{Cos!verify_trustless_deposit(c[1], proof) :
              proof \in {p \in Opened[c[1]] :
                 \E commit \in Cos!CommitsFor(c) :
                    Cos!verify_deposit_core(trusted, c[1], commit, c[2], p, clock)}} :
           c \in Cos!Candidates}

ProvenOf(network) ==
    CASE network = "Bitcoin" -> BitcoinProven
      [] network = "Ethereum" -> EthereumProven
      [] OTHER -> CosmosProven

-----------------------------------------------------------------------------
(* trustless.rs *)

\* The asset of a Bitcoin deposit is its corridor's, of the others the proof's.
asset_of(corridor, proven) ==
    IF corridor.chain_id = "Bitcoin" THEN corridor.origin_asset ELSE proven.asset_id

\* What the three match_ functions share.
matches(corridor, proven, fact, asset) ==
    /\ corridor.tier = "ProofBacked"
    /\ fact.source_chain = corridor.chain_id
    /\ fact.version = 1 /\ fact.direction = "Deposit"
    /\ fact.source_ref = proven.source_ref
    /\ fact.amount = proven.amount
    /\ fact.recipient = proven.recipient
    /\ fact.asset_id = asset
    /\ proven.confirmations >= corridor.confirmation_depth

match_bitcoin_deposit(corridor, proven, fact) ==
    matches(corridor, proven, fact, corridor.origin_asset)

match_ethereum_deposit(corridor, proven, fact) ==
    matches(corridor, proven, fact, proven.asset_id)

match_cosmos_deposit(corridor, proven, fact) ==
    matches(corridor, proven, fact, proven.asset_id)

match_deposit(network, corridor, proven, fact) ==
    CASE network = "Bitcoin" -> match_bitcoin_deposit(corridor, proven, fact)
      [] network = "Ethereum" -> match_ethereum_deposit(corridor, proven, fact)
      [] OTHER -> match_cosmos_deposit(corridor, proven, fact)

mint_of(corridor, proven) ==
    [asset_id |-> asset_of(corridor, proven), recipient |-> proven.recipient,
     amount |-> proven.amount, source_ref |-> proven.source_ref,
     source_chain |-> corridor.chain_id]

\* The gateway's own checks on a reference and an asset (see Gateway).
precheck_trustless(m, dest) ==
    /\ dest_chain_id # 0 /\ dest = dest_chain_id
    /\ m.source_chain \in DOMAIN guard.corridors
    /\ <<m.source_chain, m.source_ref>> \notin guard.used_refs
    /\ m.asset_id \in DOMAIN guard.asset_cap
    /\ guard.minted[m.asset_id] + m.amount <= guard.asset_cap[m.asset_id]

apply_replay_and_cap(m) ==
    guard' = [guard EXCEPT !.used_refs = @ \cup {<<m.source_chain, m.source_ref>>},
                           !.minted[m.asset_id] = @ + m.amount]

-----------------------------------------------------------------------------
(* endpoints.rs *)

\* The facts a depositor may state of a deposit: the true one, or one with a
\* field that is not.
Facts(network, proven, known) ==
    LET asset == IF network = "Bitcoin" THEN native_asset(network) ELSE proven.asset_id
        truth == [version |-> 1, direction |-> "Deposit", source_chain |-> network,
                  dest_chain |-> dest_chain_id, source_ref |-> proven.source_ref,
                  amount |-> proven.amount, recipient |-> proven.recipient,
                  asset_id |-> asset]
    IN  {truth, [truth EXCEPT !.version = 2], [truth EXCEPT !.direction = "Release"],
         [truth EXCEPT !.dest_chain = 0], [truth EXCEPT !.amount = @ + 1],
         [truth EXCEPT !.recipient = "other"]}
        \cup {[truth EXCEPT !.source_chain = n] : n \in Networks}
        \cup {[truth EXCEPT !.asset_id = a] : a \in DOMAIN pools}
        \cup {[truth EXCEPT !.source_ref = p.source_ref] : p \in known}

resolves(fact) ==
    /\ fact.source_chain \in Networks
    /\ fact.asset_id \in DOMAIN pools
    /\ pools[fact.asset_id].network = fact.source_chain

resolve_corridor(fact) ==
    corridor_for(fact.source_chain, pools[fact.asset_id].per_asset_cap)

\* dispatch_deposit: prepare, verify, commit.
SubmitDeposit(network) ==
    /\ BagCardinality(mints) < MaxMints
    /\ anchored(network)
    /\ LET known == ProvenOf(network)
       IN  \E proven \in known : \E fact \in Facts(network, proven, known) :
          /\ resolves(fact)
          /\ pools[fact.asset_id].tier = "ProofBacked" /\ fact.source_chain = network
          /\ precheck_trustless(fact, fact.dest_chain)
          /\ LET corridor == resolve_corridor(fact)
                 m == mint_of(corridor, proven)
             IN  /\ match_deposit(network, corridor, proven, fact)
                 /\ precheck_trustless(m, fact.dest_chain)
                 /\ apply_replay_and_cap(m)
                 /\ mints' = mints (+) SetToBag({m})
    /\ UNCHANGED <<store, slot, trusted, clock, anchors, pools>>

CreatePool(r) ==
    LET spec == derive(r.network, r.identifier, r.decimals, r.per_asset_cap, r.per_epoch_cap)
    IN  /\ ~governance_configured
        /\ r.network \in Networks
        /\ can_register(pools, spec)
        /\ pools' = register(pools, spec)
        /\ guard' = install_pool(guard, spec)
        /\ UNCHANGED <<store, slot, trusted, clock, anchors, mints>>

-----------------------------------------------------------------------------
Init ==
    /\ Eth!Init /\ Cos!Init
    /\ \E file \in AnchorFiles : can_parse_anchors(file) /\ install(file)
    /\ pools = seeded
    /\ guard = install_all(NewGuard, seeded)
    /\ mints = EmptyBag

\* A chain is followed where its section has armed the light client.
Beacon == /\ "ethereum" \in anchors /\ Eth!Slot
          /\ UNCHANGED <<trusted, clock, anchors, pools, guard, mints>>
Rotate == /\ "ethereum" \in anchors /\ Eth!Update
          /\ UNCHANGED <<trusted, clock, anchors, pools, guard, mints>>
Time == /\ "cosmos" \in anchors /\ Cos!Tick
        /\ UNCHANGED <<store, slot, anchors, pools, guard, mints>>
Follow == /\ "cosmos" \in anchors /\ (Cos!Transition \/ Cos!Adjacent)
          /\ UNCHANGED <<store, slot, anchors, pools, guard, mints>>

Next ==
    \/ \E network \in Proven : SubmitDeposit(network)
    \/ \E r \in PoolRequests : CreatePool(r)
    \/ Beacon \/ Rotate \/ Time \/ Follow

\* Blocks keep coming, and somebody relays the updates their committees sign.
Fairness == /\ WF_vars(Beacon)
            /\ WF_vars(/\ "ethereum" \in anchors /\ Eth!ChainUpdate
                       /\ UNCHANGED <<trusted, clock, anchors, pools, guard, mints>>)

Spec == Init /\ [][Next]_vars /\ Fairness

-----------------------------------------------------------------------------
(* What the chains are like, and those who sign and work for them *)

IsList(s) == s \in Seq(Range(s))

\* A slot has a head that is no later, the slots that are pinned are the
\* chain's, and every period has its committee.
ASSUME BeaconAssumption ==
    /\ {LAST_SLOT, config.sync_committee_size} \subseteq Nat
    /\ {config.slots_per_epoch, config.epochs_per_sync_committee_period,
        SLOTS_PER_HISTORICAL_ROOT, BLOCK_ROOTS_DEPTH} \subseteq Nat \ {0}
    /\ BLOCK_ROOTS_DEPTH > 1
    /\ DOMAIN Heads = 0 .. LAST_SLOT
    /\ \A s \in 0 .. LAST_SLOT : Heads[s] \in 0 .. s /\ IsList(Receipts[Heads[s]])
    /\ ForgedSlots \subseteq 0 .. LAST_SLOT
    /\ PINNED_BLOCK_ROOTS \subseteq {Eth!Header(s) : s \in Eth!BlockSlots}
    /\ \A h \in Eth!Headers :
          LET period == Eth!sync_committee_period(h.slot)
          IN  {period, period + 1} \subseteq DOMAIN Committees

\* The dishonest members of a committee do not make up a supermajority.
ASSUME MembersAssumption ==
    \A p \in DOMAIN Committees :
       /\ IsList(Committees[p])
       /\ Cardinality({i \in DOMAIN Committees[p] : Committees[p][i] \notin Honest})
              < Eth!supermajority_threshold

MainChain == {b \in DOMAIN Blocks : Blocks[b].main}

\* Nobody works as much beside the main chain as is asked for above a pinned
\* checkpoint and, for what a payment is worth, above its block.  A block has
\* a first transaction, which is not one of 64 bytes.
ASSUME WorkAssumption ==
    /\ \A b \in MainChain : /\ IsList(Blocks[b].txs) /\ Blocks[b].txs # <<>>
                            /\ Txs[Blocks[b].txs[1]].halves = <<>>
    /\ \A m \in Materials : IsList(m.headers) /\ m.start_height \in Nat
    /\ \A m \in Materials : \A p \in m.proofs :
          IsList(p.branch) /\ IsList(p.coinbase_branch) /\ p.height \in Nat
    /\ \A m \in Materials : \A p \in m.proofs :
          LET chain == Btc!verify_chain(m.headers, m.start_height)
              worth == Btc!value_to_script(Txs[p.tx], deposit_script)
          IN  /\ ~Btc!is_coinbase(p.tx)
              /\ params.requires_pinned_checkpoint => Btc!checkpoint_is_pinned(checkpoint)
              /\ Btc!can_verify_chain(m.headers, m.start_height)
              /\ Btc!anchored_to(chain, checkpoint)
              /\ Btc!has_height(chain, p.height)
              /\ Btc!confirmations(chain, p.height) 
                     >= Btc!confirmations_for(worth, params.confirmation_depth)
              => Btc!header_at(chain, p.height) \in MainChain

\* The power of the corrupt in a set of validators.
CorruptPower(set) ==
    SumFunction([i \in {k \in DOMAIN set : set[k].pubkey \in Corrupt} |-> set[i].voting_power])

IsSet(set) == IsList(set) /\ \A i \in DOMAIN set : set[i].voting_power \in Nat

\* The corrupt have less power than a header takes, and the validators a header
\* names for the next one have a block of theirs, no earlier, at stake.  The
\* client does not trust for longer than a stake lasts.
ASSUME ValidatorsAssumption ==
    /\ {cfg.overlap_numerator, cfg.overlap_denominator, cfg.trusting_period, UNBONDING} \subseteq Nat
    /\ cfg.trusting_period <= UNBONDING
    /\ \E h \in Range(Main) : anchor = Cos!adopt(h, h.validators)
    /\ \A h \in Cos!Headers : IsSet(h.validators) /\ {h.time, h.height} \subseteq Nat
    /\ \A h \in Range(Main) :
          /\ IsSet(h.next_validators)
          /\ ~Cos!trusting_reach(CorruptPower(h.validators), Cos!total_power(h.validators))
          /\ ~Cos!has_two_thirds(CorruptPower(h.next_validators),
                                 Cos!total_power(h.next_validators))
          /\ \A key \in Cos!Addresses(h.next_validators) :
                \E g \in Range(Main) : g.time >= h.time /\ key \in Cos!Addresses(g.validators)

\* Leaves are hashed after a zero, and other nodes after something else; the
\* hashes in these are nodes.
IsTree(nodes, leaves) ==
    \A x \in nodes \ leaves :
       /\ x = Cos!sha(x.sha) /\ IsList(x.sha) /\ x.sha # <<>> /\ x.sha[1] # Cos!Byte(0)
       /\ \A i \in DOMAIN x.sha : "sha" \in DOMAIN x.sha[i] => x.sha[i] \in nodes

\* A list of things of different kinds.
IsTuple(s) == Len(s) \in Nat /\ s = [i \in 1 .. Len(s) |-> s[i]]

Words(value) == [i \in DOMAIN value |-> Cos!Word(value[i])]

\* The app hash of a header is the root of a tree of stores, and that of the
\* bridge is the root of a tree of its records.
ASSUME StoresAssumption ==
    /\ \A h \in Range(Main) : h.app_hash \in {<<x>> : x \in AppNodes}
    /\ IsTree(AppNodes, {Cos!leaf_apply(<<0>>, s.name, <<s.root>>) : s \in Stores})
    /\ \A s \in Stores : IsList(s.name) /\ (s.name = cfg.bridge_store_name => s.root \in BridgeNodes)
    /\ IsTree(BridgeNodes, {Cos!leaf_apply(d.leaf, d.key, Words(d.value)) : d \in BridgeStore})
    /\ \A d \in BridgeStore :
          /\ IsList(d.leaf) /\ IsList(d.key) /\ IsTuple(d.value)
          /\ Cos!canonical_leaf_prefix(d.leaf) /\ Cos!starts(d.leaf, 0)
    /\ \A p \in StoreProofs : \A q \in {p} \cup p.store :
          /\ IsList(q.leaf) /\ IsList(q.key) /\ IsTuple(q.value) /\ IsList(q.path)
          /\ \A i \in DOMAIN q.path : IsList(q.path[i].prefix) /\ IsList(q.path[i].suffix)
    /\ DEPOSIT_WORDS = 3

-----------------------------------------------------------------------------
(* Properties *)

\* What the three chains really hold for the bridge.
IsReal(m) ==
    CASE m.source_chain = "Bitcoin" ->
            \E b \in DOMAIN Blocks : \E t \in Range(Blocks[b].txs) :
               /\ Blocks[b].main /\ m.source_ref = Btc!txid(t)
               /\ Btc!is_deposit_to(Txs[t], deposit_script)
               /\ [amount |-> m.amount, recipient |-> m.recipient]
                     = Btc!deposit_to(Txs[t], deposit_script)
               /\ m.asset_id = native_asset("Bitcoin")
      [] m.source_chain = "Ethereum" ->
            \E s \in Range(Heads) : \E i \in DOMAIN Receipts[s] :
               \E k \in DOMAIN Receipts[s][i].logs :
                  LET log == Receipts[s][i].logs[k]
                  IN  /\ Receipts[s][i].status = 1
                      /\ Eth!is_deposit_log(log, config.deposit_contract)
                      /\ m.source_ref = <<Eth!Header(s), i - 1, k - 1>>
                      /\ m.amount = log.data[1] /\ m.asset_id = log.data[2]
                      /\ m.recipient = log.topics[2]
      [] OTHER ->
            \E d \in BridgeStore :
               /\ m.source_ref = <<cfg.chain_id, cfg.bridge_store_name, d.key>>
               /\ IsPrefix(cfg.bridge_store_prefix, d.key)
               /\ <<m.recipient, m.asset_id, m.amount>> = d.value

\* Whatever is presented to whichever light client, at whatever time and with
\* whatever fact, a mint is of a deposit that its chain really holds, for the
\* amount, recipient and asset of that deposit, and no deposit is minted twice
\* by whichever of its proofs (verify_trustless_deposit of the three clients,
\* match_bitcoin_deposit and the others, admit_trustless).
OnlyRealDeposits ==
    \A m \in BagToSet(mints) :
       /\ IsReal(m) /\ mints[m] = 1
       /\ \A n \in BagToSet(mints) :
             n.source_chain = m.source_chain /\ n.source_ref = m.source_ref => n = m

\* What a light client trusts is its chain's, whoever moves it: the committees
\* of the Ethereum store (apply_sync_committee_update, rotate_sync_committee)
\* and the header of the Cosmos state (verify_transition, verify_adjacent).
TrustsTheChain == Eth!CommitteesTrue /\ Cos!TrustsTheChain

\* An armed Ethereum store comes to the last period of its chain.
FollowsTheChain == "ethereum" \in anchors => Eth!FollowsTheChain
=============================================================================
