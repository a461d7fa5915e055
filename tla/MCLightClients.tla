--------------------------- MODULE MCLightClients ---------------------------
(***************************************************************************)
(* ProofCorridors on three small chains, and samples for the arithmetic    *)
(* and the encodings that the light clients rest on.                       *)
(***************************************************************************)
EXTENDS ProofCorridors

CONSTANTS SINGLE, SPAN, OF_LEN, RLP_MAX_DEPTH, NIBBLE

VARIABLE sample

T == INSTANCE Tries
H == INSTANCE HashTrees

-----------------------------------------------------------------------------
(* A beacon chain of three committee periods with two missed slots and a   *)
(* fork; of every committee two members of four are dishonest.             *)

Fork(e, v) == [epoch |-> e, version |-> v]
mcConfig ==
    [chain_id |-> 1, corridor_id |-> 2, consensus |-> "BeaconSyncCommittee",
     genesis_validators_root |-> "g", forks |-> <<Fork(0, 0), Fork(7, 1)>>,
     sync_committee_size |-> 4, slots_per_epoch |-> 2,
     epochs_per_sync_committee_period |-> 4, finality_depth |-> 3,
     deposit_contract |-> "bridge", max_deposit_base_units |-> 5,
     electra_epoch |-> {7}]
mcPresets == {[mcConfig EXCEPT !.finality_depth = 2, !.deposit_contract = "placeholder"],
              [mcConfig EXCEPT !.chain_id = 5, !.consensus = "Other"]}
mcCommittees == [p \in 0 .. 3 |-> <<"x", <<"h0", "h2", "h4", "h6">>[p + 1],
                                    "y", <<"h1", "h3", "h5", "h7">>[p + 1]>>]
mcHonest == {"h0", "h1", "h2", "h3", "h4", "h5", "h6", "h7"}
mcHeads == [s \in 0 .. 23 |-> IF s \in {8, 11} THEN s - 1 ELSE s]
mcForgedSlots == {4, 14, 20}
mcFalseCommittee == <<"x", "y", "x", "y">>
mcPinnedRoots == {[slot |-> s, main |-> TRUE] : s \in {2, 14}}

ETH == <<"Ethereum", "ETH">>
log(who, to, data) ==
    [address |-> who, topics |-> <<"QBridgeDeposit", to>>, data |-> data]
receipt(status, logs) == [status |-> status, logs |-> logs]
mcReceipts ==
    [s \in Range(mcHeads) |->
        CASE s = 5 -> <<receipt(1, <<log("token", "eve", <<1, ETH>>),
                                     log("bridge", "ann", <<2, ETH>>)>>),
                        receipt(0, <<log("bridge", "eve", <<1, ETH>>)>>)>>
          [] s = 12 -> <<receipt(1, <<log("bridge", "bob", <<1, ETH>>),
                                      log("bridge", "bob", <<1, ETH>>)>>),
                         receipt(1, <<log("bridge", "bob", <<6, ETH>>)>>),
                         receipt(1, <<log("bridge", "bob", <<8, ETH>>)>>)>>
          [] OTHER -> <<>>]
mcForgedReceipts == <<receipt(1, <<log("bridge", "eve", <<3, ETH>>)>>)>>

-----------------------------------------------------------------------------
(* A Bitcoin chain m of ten blocks with a retarget every four, and what    *)
(* others have made beside it: f and g, by the rules but less deep than a  *)
(* deposit must be, f going on with blocks that were too cheap; k, which   *)
(* does not go through the checkpoint; u, which nobody worked for.         *)

mcParams == [network |-> "bitcoin", target_timespan |-> 8, target_spacing |-> 2,
             pow_limit_bits |-> 3 * B ^ 3 + 12, confirmation_depth |-> 3,
             requires_pinned_checkpoint |-> TRUE]
bitsA == to_compact(limbs_of(8))
bitsB == compute_retarget(bitsA, 6, mcParams)
limit == mcParams.pow_limit_bits
times == <<0, 2, 4, 6, 8, 12, 16, 20, 23, 26>>
block(prev, bits, time, txs, mined) ==
    [prev |-> prev, bits |-> bits, time |-> time, txs |-> txs, mined |-> mined,
     main |-> FALSE]
mainTxs == [h \in 0 .. 9 |-> CASE h = 5 -> <<"cb", "d1", "s64", "d5">>
                               [] h = 6 -> <<"cb", "d2", "two">>
                               [] h = 8 -> <<"cb", "d3">>
                               [] OTHER -> <<"cb">>]
mcBlocks ==
    [b \in {<<"m", h>> : h \in 0 .. 9} |->
        [block(<<"m", b[2] - 1>>,
               IF b[2] < 4 THEN bitsA
               ELSE IF b[2] < 8 THEN bitsB ELSE compute_retarget(bitsB, 12, mcParams),
               times[b[2] + 1], mainTxs[b[2]], TRUE) EXCEPT !.main = TRUE]]
    @@ (<<"f", 7>> :> block(<<"m", 6>>, bitsB, 19, <<"cb", "e1">>, TRUE))
    @@ (<<"f", 8>> :> block(<<"f", 7>>, compute_retarget(bitsB, 11, mcParams), 23,
                            <<"cb">>, TRUE))
    @@ (<<"f", 9>> :> block(<<"f", 8>>, limit, 24, <<"cb">>, TRUE))
    @@ (<<"f", 10>> :> block(<<"f", 9>>, limit, 25, <<"cb">>, TRUE))
    @@ [b \in {<<"g", h>> : h \in 5 .. 7} |->
           block(IF b[2] = 5 THEN <<"m", 4>> ELSE <<"g", b[2] - 1>>, bitsB, 5 * b[2] - 14,
                 IF b[2] = 5 THEN <<"cb", "e2">> ELSE <<"cb">>, TRUE)]
    @@ [b \in {<<"k", h>> : h \in 1 .. 7} |->
           block(IF b[2] = 1 THEN <<"m", 0>> ELSE <<"k", b[2] - 1>>, bitsA, 2 * b[2],
                 IF b[2] = 3 THEN <<"cb", "e1">> ELSE <<"cb">>, TRUE)]
    @@ [b \in {<<"u", h>> : h \in 6 .. 9} |->
           block(IF b[2] = 6 THEN <<"m", 5>> ELSE <<"u", b[2] - 1>>, bitsB, 2 * b[2] + 6,
                 IF b[2] = 6 THEN <<"cb", "e1">> ELSE <<"cb">>, FALSE)]
mcCheckpoint == [height |-> 4, hash |-> <<"m", 4>>, min_work |-> 60]
mcPinnedCheckpoints == {[network |-> "bitcoin", height |-> 4, hash |-> <<"m", 4>>]}

script(is, to) == [is |-> is, to |-> to]
pays(n, to) == <<[value |-> n, script |-> script("bridge", "")],
                 [value |-> 0, script |-> script("OP_RETURN", to)]>>
tx(outputs) == [inputs |-> <<"coin">>, outputs |-> outputs, segwit |-> FALSE,
                witnessed |-> FALSE, halves |-> <<>>]
\* d1, d2, d3 and d5 are deposits of the chain and e1 to e3 are not; s64 has
\* the length of two hashes, the second of them e3's.
mcTxs == [cb |-> [tx(pays(1, "eve")) EXCEPT !.inputs = <<"coinbase">>],
          d1 |-> tx(pays(1, "ann")), d2 |-> tx(pays(4, "bob")), d3 |-> tx(pays(1, "bob")),
          d5 |-> tx(pays(5, "ann")),
          two |-> tx(pays(1, "eve") \o pays(1, "ann")),
          s64 |-> [tx(pays(1, "eve")) EXCEPT !.halves = <<[tx |-> "d2"], [tx |-> "e3"]>>],
          e1 |-> tx(pays(1, "eve")), e2 |-> tx(pays(4, "eve")), e3 |-> tx(pays(2, "eve"))]

\* The blocks from a tip back to a height.
RECURSIVE Back(_, _)
Back(tip, h) ==
    IF tip[2] = h \/ mcBlocks[tip].prev \notin DOMAIN mcBlocks THEN <<tip>>
    ELSE Append(Back(mcBlocks[tip].prev, h), tip)

Leaves(b) == [i \in DOMAIN mcBlocks[b].txs |-> Btc!txid(mcBlocks[b].txs[i])]
Opening(b, i, height) ==
    [height |-> height, tx |-> mcBlocks[b].txs[i], branch |-> Btc!merkle_branch(Leaves(b), i),
     coinbase |-> "cb", coinbase_branch |-> Btc!merkle_branch(Leaves(b), 1)]
Inside(b, i, height) ==
    [Opening(b, i, height) EXCEPT
        !.tx = "e3", !.branch = <<[hash |-> [tx |-> "d2"], sibling_on_left |-> TRUE]>> \o @]
Openings(headers, start) ==
    UNION {UNION {{Opening(headers[k], i, start + k - 1)}
                  \cup (IF mcBlocks[headers[k]].txs[i] = "s64"
                        THEN {Inside(headers[k], i, start + k - 1)} ELSE {}) :
                  i \in DOMAIN mcBlocks[headers[k]].txs} :
           k \in DOMAIN headers}
Material(headers, start) ==
    [headers |-> headers, start_height |-> start, proofs |-> Openings(headers, start)]
\* True runs of headers, runs with a block left out, and their heights or others.
mcMaterials ==
    LET runs == {Back(tip, h) : h \in 0 .. 5,
                    tip \in {<<"m", 9>>, <<"f", 10>>, <<"f", 8>>, <<"g", 7>>, <<"k", 7>>, <<"u", 9>>}}
        gaps == {RemoveAt(r, 3) : r \in {x \in runs : Len(x) > 3}}
    IN  {Material(r, r[1][2] + n) : r \in runs \cup gaps, n \in 0 .. 1}

-----------------------------------------------------------------------------
(* A Cosmos chain whose validators change; z is dishonest, one in four.    *)

V(key, power) == [pubkey |-> key, voting_power |-> power]
Four(a, b, c, d) == <<V(a, 1), V(b, 1), V(c, 1), V(d, 1)>>
mcCfg == [chain_id |-> "cosmoshub", corridor_id |-> 16, confirmation_depth |-> 2,
          overlap_numerator |-> 2, overlap_denominator |-> 3, trusting_period |-> 4,
          max_clock_drift |-> 1, bridge_store_prefix |-> <<H!Byte(7)>>,
          bridge_store_name |-> <<H!Byte(9)>>]

key(n) == <<H!Byte(7), H!Byte(n)>>
value(to, n) == <<to, <<"Cosmos", "ATOM">>, n>>
words(v) == [i \in DOMAIN v |-> H!Word(v[i])]
iavl(k, v) == H!leaf_apply(<<0, 2, 2>>, k, words(v))
node(l, r) == H!sha(<<H!Byte(2), H!Byte(HASH_LEN), l, H!Byte(HASH_LEN), r>>)

\* The bridge's store: two deposits, and somebody's key that holds the hash of
\* a leaf of a deposit that was never made.
record(k, v) == [leaf |-> <<0, 2, 2>>, key |-> k, value |-> v]
never == iavl(key(5), value("eve", 3))
mcBridgeStore == {record(key(1), value("ann", 1)), record(key(2), value("bob", 2)),
                  record(<<H!Byte(6), never>>, value("eve", 1))}
bridge == node(node(iavl(key(1), value("ann", 1)), iavl(key(2), value("bob", 2))),
               iavl(<<H!Byte(6), never>>, value("eve", 1)))
\* Another module's store, in which anybody has keys like the bridge's.
other == iavl(key(3), value("eve", 2))
app(one, two) ==
    <<H!inner_hash(H!leaf_apply(<<0>>, <<H!Byte(9)>>, <<one>>),
                     H!leaf_apply(<<0>>, <<H!Byte(8)>>, <<two>>))>>
goodapp == app(bridge, other)
mcStores == {[name |-> <<H!Byte(9)>>, root |-> bridge], [name |-> <<H!Byte(8)>>, root |-> other]}
leaves == {iavl(d.key, d.value) : d \in mcBridgeStore}
mcBridgeNodes == {bridge, bridge.sha[3]} \cup leaves
mcAppNodes == Range(goodapp) \cup {goodapp[1].sha[2], goodapp[1].sha[3]}
badapp == app(iavl(key(4), value("eve", 3)), bridge)

head(h, t, set, next, hash) ==
    [chain_id |-> "cosmoshub", height |-> h, time |-> t, validators |-> set,
     next_validators |-> next, app_hash |-> hash]
setA == Four("a", "b", "c", "z")
setB == Four("b", "c", "z", "d")
setC == Four("c", "z", "d", "e")
setD == Four("z", "d", "e", "f")
swollen == <<V("a", 1), V("b", 1), V("c", 1), V("z", 100)>>
mcMain == <<head(1, 0, setA, setA, goodapp), head(2, 1, setA, setB, goodapp),
            head(3, 2, setB, setC, goodapp), head(4, 3, setC, setD, goodapp),
            head(5, 4, setD, setD, goodapp)>>
mcForgedHeaders ==
    {head(2, 1, swollen, swollen, badapp), head(2, 2, setA, swollen, badapp),
     head(3, 3, swollen, swollen, badapp), head(3, 2, setB, swollen, badapp),
     head(6, 8, setA, setA, badapp), head(6, 8, swollen, setA, badapp),
     [head(4, 5, setA, setA, badapp) EXCEPT !.chain_id = "other"]}
mcStoreProofs == UNION {H!Proofs(a) : a \in {goodapp, badapp}}
mcAnchor == [height |-> 1, time |-> 0, header_hash |-> mcMain[1], validators |-> setA,
             next_validators |-> setA]
mcPinnedStates == {[chain_id |-> "cosmoshub", state |-> mcAnchor]}

-----------------------------------------------------------------------------
(* Pools and anchor files *)

mcNetworks == {"Bitcoin", "Ethereum", "Cosmos", "Polygon", "Celo"}
asset(network, identifier) == [network |-> network, identifier |-> identifier, decimals |-> 8]
mcASSETS == {asset("Bitcoin", "BTC"), asset("Bitcoin", "RUNE"), asset("Ethereum", "ETH"),
             asset("Cosmos", "ATOM"), asset("Polygon", "POL")}
mcFederatedDepth == [Polygon |-> 4]
mcProofDepth == [Bitcoin |-> 3, Ethereum |-> 3, Cosmos |-> 2]
pool(network, identifier, decimals, cap, epoch) ==
    [network |-> network, identifier |-> identifier, decimals |-> decimals,
     per_asset_cap |-> cap, per_epoch_cap |-> epoch]
mcPoolRequests == {pool("Celo", "CUSD", 8, 5, 5), pool("Bitcoin", "BTC", 8, 9, 9),
                   pool("Ethereum", "-", 8, 5, 5), pool("Ethereum", "GHO", 99, 5, 5),
                   pool("Ethereum", "GHO", 8, 5, 0), pool("Ethereum", "GHO", 8, 5, 6),
                   pool("Nowhere", "GHO", 8, 5, 5)}
mcWellformed == {"BTC", "RUNE", "ETH", "ATOM", "POL", "CUSD", "GHO"}

bitcoinFile == [network |-> "bitcoin", checkpoint |-> mcCheckpoint,
                bridge_script |-> <<"bridge">>]
ethereumFile(period, root, committee) ==
    [chain_id |-> 1, deposit_contract |-> "bridge", max_deposit_base_units |-> {7},
     finality_depth |-> {3}, period |-> period, trusted_block_root |-> root,
     checkpoint_header |-> root, current_sync_committee |-> committee]
cosmosFile == [chain_id |-> "cosmoshub", trusted |-> mcAnchor]
mcAnchorFiles ==
    {<<>>, [bitcoin |-> bitcoinFile],
     [bitcoin |-> [bitcoinFile EXCEPT !.checkpoint.hash = <<"g", 5>>]],
     [bitcoin |-> [bitcoinFile EXCEPT !.checkpoint.min_work = 1]],
     [cosmos |-> cosmosFile],
     [cosmos |-> [cosmosFile EXCEPT !.trusted.validators = swollen]],
     [quantova |-> [genesis_hash |-> 1, members |-> {[key_fits |-> TRUE]}],
      bitcoin |-> bitcoinFile],
     [quantova |-> [genesis_hash |-> 0, members |-> {}], cosmos |-> cosmosFile],
     [solana |-> cosmosFile, bitcoin |-> bitcoinFile]}
    \cup {[ethereum |-> ethereumFile(p, root, committee)] :
             p \in 0 .. 1, root \in mcPinnedRoots \cup {Eth!Forged(14), Eth!Header(4)},
             committee \in {mcCommittees[0], mcCommittees[1], mcFalseCommittee}}

-----------------------------------------------------------------------------
(* Samples *)

Varints == UNION {[1 .. n -> 0 .. 7] : n \in 0 .. 2}
           \cup {<<4, 4, b, c>> : b \in {4, 7}, c \in 0 .. 2}
Keys == {<<>>, <<0>>, <<1>>, <<5>>, <<6>>, <<5, 4>>}
KeySets == {k \in SUBSET Keys : Cardinality(k) \in 1 .. 3}
stored == [k \in Keys |-> <<Len(k), 3, IF k = <<>> THEN 1 ELSE k[1]>>]
Foreign == {T!build({<<T!to_nibbles(<<5>>), <<9, 9, 9>>>>}),
            T!build({<<T!to_nibbles(<<5>>), <<9>>>>, <<T!to_nibbles(<<6, 1>>), <<9, 7>>>>})}
Flat == {[b |-> s] : s \in {<<>>, <<3>>, <<4>>, <<1, 2>>, <<1, 2, 3>>}}
Lists == Flat \cup {[l |-> s] : s \in {<<>>} \cup {<<i>> : i \in Flat}
                                     \cup {<<i, j>> : i \in Flat, j \in Flat}}
Items == Lists \cup {[l |-> <<i, j>>] : i \in Lists, j \in Flat}

Samples == {[of |-> "number", it |-> n] : n \in 0 .. Modulus - 1}
           \cup {[of |-> "trie", it |-> k] : k \in KeySets}
           \cup {[of |-> "item", it |-> i] : i \in Items}
           \cup {[of |-> "leaves", it |-> n] : n \in 1 .. 5}
NoSample == [of |-> "none"]

mcInit == /\ Init
          /\ IF anchors = {} THEN sample \in Samples ELSE sample = NoSample

\* Pools are made beside the Bitcoin corridor only.
mcNext == /\ sample = NoSample /\ UNCHANGED sample
          /\ Next
          /\ "bitcoin" \notin anchors => UNCHANGED pools

mcSpec == mcInit /\ [][mcNext]_<<vars, sample>> /\ Fairness

Numbers_right(n) ==
    /\ \A m \in {0, 1, 2, 3, 5, 15, 16, 17, 31, 100, 127, 128, 200, 255} : sums_right(n, m)
    /\ compact_right(n)
    /\ \A actual \in 0 .. 20 :
          retarget_right(n, actual, [target_timespan |-> 4, pow_limit_bits |-> 3 * B ^ 3 + B])
    /\ n < 2 ^ WORD => \A b \in Varints : varint_right(n, b)

\* What the light clients compute by hand is what it should be: the limbs of
\* a 256-bit number add, divide and compare as numbers do and a target reads
\* back from its compact form (work.rs, retarget.rs); a varint and an RLP item
\* have one encoding, and a damaged one is refused or is another item
\* (proof.rs, rlp.rs); a trie proves what it holds, and nothing else, for any
\* key (mpt.rs); and a Merkle proof opens a leaf at its place only
\* (merkle.rs).
AlgorithmsRight ==
    CASE sample.of = "number" -> Numbers_right(sample.it)
      [] sample.of = "trie" ->
            T!mpt_right({<<k, stored[k]>> : k \in sample.it}, Keys, Foreign)
      [] sample.of = "item" ->
            \A bytes \in T!edits(T!encode(sample.it)) : T!rlp_right(sample.it, bytes)
      [] sample.of = "leaves" ->
            \A total \in 0 .. 6 :
               H!inclusion_right([i \in 1 .. sample.it |-> <<H!Byte(i)>>], total)
      [] OTHER -> TRUE
=============================================================================
