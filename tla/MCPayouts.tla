----------------------------- MODULE MCPayouts -----------------------------
(***************************************************************************)
(* A small instance of Payouts for TLC.                                    *)
(***************************************************************************)
EXTENDS Payouts

-----------------------------------------------------------------------------
(* A Quantova chain of three blocks.  Of the four members one is           *)
(* dishonest: it signs a block x that was never finalized.  The members    *)
(* also finalized y, on another chain of theirs.                           *)

data(asset, holder, amount, destination, chain, genesis, nonce) ==
    LET d == [dest_chain |-> chain, asset_id |-> asset, holder |-> holder, amount |-> amount,
              destination |-> destination, sender_nonce |-> nonce, event_index |-> 0,
              is |-> "burn"]
    IN  [burn_ref |-> derived(d, genesis)] @@ d
leaf(contract, d) == [contract |-> contract, selector |-> "QBBN", data |-> d]
burn(holder, amount, destination, nonce) ==
    leaf("qtv/native", data("btc", holder, amount, destination, 7, "g", nonce))

Again == burn("ann", 1, "da", 1)
First == burn("ann", 1, "da", 2)
Large == burn("bob", 5, "db", 1)
Larger == burn("bob", 7, "db", 2)

mcQBlocks ==
    [b1 |-> [height |-> 1, state |-> <<>>,
             events |-> <<Again, [contract |-> "qtv/native", selector |-> "QBMT",
                                  data |-> [is |-> "mint"]]>>],
     b2 |-> [height |-> 2, state |-> <<1>>,
             events |-> <<First, leaf("token", data("btc", "eve", 1, "de", 7, "g", 1)), Large>>],
     b3 |-> [height |-> 3, state |-> <<2>>,
             events |-> <<Larger,
                          leaf("qtv/native", data("btc", "eve", 1, "de", 8, "g", 1)),
                          leaf("qtv/native", data("eth", "eve", 1, "de", 7, "g", 2)),
                          leaf("qtv/native", data("btc", "eve", 1, Zero, 7, "g", 4))>>],
     x  |-> [height |-> 2, state |-> <<9>>, events |-> <<burn("eve", 1, "de", 3)>>],
     y  |-> [height |-> 2, state |-> <<>>,
             events |-> <<leaf("qtv/native", data("btc", "eve", 1, "de", 7, "h", 1))>>]]
mcWatched == {First.data.burn_ref}
mcFinalized == [g |-> {"b1", "b2", "b3"}, h |-> {"y"}]

envelope(name) ==
    [height |-> mcQBlocks[name].height, slot |-> 10 + mcQBlocks[name].height,
     block |-> [height |-> mcQBlocks[name].height, val |-> name,
                parent |-> [tag |-> "VALUE", value |-> "p"]]]
attestation(id, env_, key, genesis) ==
    [from |-> id, block |-> env_.block, membership |-> [siblings |-> <<>>],
     sig |-> [key |-> key, says |-> env_, on |-> [chain_id |-> 7, genesis |-> genesis],
              beacon |-> "seed"]]
qkey == <<"q1", "q2", "q3", "q4">>
certificate(name, ids, key, genesis) ==
    [is |-> "certificate", envelope |-> envelope(name), stage |-> 1, reveals |-> <<>>,
     attestations |-> [i \in DOMAIN ids |->
                          attestation(ids[i], envelope(name), key[i], genesis)]]
\* By three members; by the dishonest one alone, under its name, under
\* everybody's and three times; by the members for their other chain.
good(name) == certificate(name, <<1, 2, 3>>, qkey, "g")
false_certificates ==
    {certificate("x", <<4>>, <<"q4">>, "g"),
     certificate("x", <<1, 2, 4>>, <<"q4", "q4", "q4">>, "g"),
     certificate("x", <<4, 4, 4>>, <<"q4", "q4", "q4">>, "g"),
     certificate("y", <<1, 2, 3>>, qkey, "h"),
     [good("b2") EXCEPT !.envelope = envelope("x")]}

Hex(v) == <<"str", <<"hex", v>>>>
Header(name) == Hex([is |-> "header", name |-> name])
Ok(body) == [sent |-> "whole", length |-> 1, status |-> 200, body |-> body]
HeadBody(name, cert) ==
    <<"obj", <<<<"head", <<"num", mcQBlocks[name].height>>>>, <<"header_bytes", Header(name)>>,
               <<"certificate", Hex(cert)>>,
               <<"bridge_epoch_proof", Hex([is |-> "proof", root |-> mcQBlocks[name].state])>>>>>>
BlockBody(name, cert, events) ==
    <<"obj", <<<<"header_bytes", Header(name)>>, <<"certificate", Hex(cert)>>,
               <<"events", <<"arr", [i \in DOMAIN events |-> Hex(events[i])]>>>>>>>>
Heights(hs) == Ok(<<"obj", <<<<"heights", <<"arr", [i \in DOMAIN hs |-> <<"num", hs[i]>>]>>>>>>>>)

Block(name, cert) == Ok(BlockBody(name, cert, mcQBlocks[name].events))
Missing == [Ok(<<"null">>) EXCEPT !.status = 404]
node(head, heights, blocks) == [head |-> head, heights |-> heights, blocks |-> blocks]
TrueBlocks == <<Block("b1", good("b1")), Block("b2", good("b2")), Block("b3", good("b3"))>>
TipOf(name) == Ok(HeadBody(name, good(name)))
Sound == {node(TipOf(name), Heights(<<3, 1, 2, 2>>), TrueBlocks) : name \in {"b2", "b3"}}
With(b) == node(TipOf("b3"), Heights(<<2>>), [TrueBlocks EXCEPT ![2] = b])

\* Bodies that are refused: a key twice, an array cut short, text that is no
\* hex, a certificate of another stage, out of order or with a genesis
\* parent that has a value.
Spoilt ==
    LET body == BlockBody("b2", good("b2"), mcQBlocks.b2.events)
        of(cert) == Block("b2", cert)
        genesis == [tag |-> "GENESIS", value |-> "p"]
    IN  {Ok(<<"obj", Append(body[2], body[2][1])>>),
         Ok(<<"obj", Append(body[2], <<"truncated", <<"bool", TRUE>>>>)>>),
         Ok(<<"obj", <<<<"header_bytes", <<"str", <<"text", "zz">>>>>>>> \o Tail(body[2])>>),
         Ok(<<"obj", Append(body[2], <<"more", <<"arr", <<<<"arr", <<<<"arr", <<>>>>>>>>>>>>>>)>>),
         Ok(BlockBody("b2", good("b2"), Tail(mcQBlocks.b2.events))),
         of([good("b2") EXCEPT !.stage = 2]),
         of(certificate("b2", <<3, 2, 1>>, <<"q3", "q2", "q1">>, "g")),
         of([good("b2") EXCEPT !.envelope.block.parent = genesis]),
         of([good("b2") EXCEPT !.attestations[1].membership.siblings = <<"s", "s", "s">>]),
         [Ok(body) EXCEPT !.length = 9], [Ok(body) EXCEPT !.sent = "late"],
         [Ok(body) EXCEPT !.status = 500], Missing}

mcNodes ==
    Sound \cup {With(b) : b \in Spoilt}
    \cup {With(Block(c.envelope.block.val, c)) : c \in false_certificates}
    \cup {node(Ok(HeadBody(c.envelope.block.val, c)), Heights(<<2>>), TrueBlocks) :
             c \in false_certificates}
    \cup {node(Ok(<<"obj", <<<<"head", <<"num", 2>>>>>>>>), Heights(<<1, 2>>), TrueBlocks),
          node(TipOf("b2"), Heights(<<>>), TrueBlocks),
          node(TipOf("b2"), Ok(<<"obj", <<<<"heights", <<"arr", <<<<"num", 99>>>>>>>>>>>>), TrueBlocks)}

-----------------------------------------------------------------------------
(* A Bitcoin chain m with two payouts, one of them wrong, a fork f with    *)
(* less work than is asked for and blocks u nobody worked for.             *)

mcParams == [network |-> "bitcoin", target_timespan |-> 100, target_spacing |-> 1,
             pow_limit_bits |-> 3 * 4 ^ 3 + 8, confirmation_depth |-> 2,
             requires_pinned_checkpoint |-> TRUE]
mcBlock(prev, time, txs, mined) ==
    [prev |-> prev, bits |-> mcParams.pow_limit_bits, time |-> time, txs |-> txs,
     mined |-> mined, main |-> FALSE]
mcBlocks ==
    [b \in {<<"m", h>> : h \in 1 .. 8} |->
        [mcBlock(<<"m", b[2] - 1>>, b[2],
                 CASE b[2] = 4 -> <<"cb", "p1", "p2">> [] b[2] = 5 -> <<"cb", "p3", "s64">>
                   [] OTHER -> <<"cb">>, TRUE) EXCEPT !.main = TRUE]]
    @@ [b \in {<<"f", h>> : h \in 4 .. 6} |->
           mcBlock(<<IF b[2] = 4 THEN "m" ELSE "f", b[2] - 1>>, b[2],
                   IF b[2] = 4 THEN <<"cb", "e1">> ELSE <<"cb">>, TRUE)]
    @@ [b \in {<<"u", h>> : h \in 4 .. 8} |->
           mcBlock(<<IF b[2] = 4 THEN "m" ELSE "u", b[2] - 1>>, b[2],
                   IF b[2] = 4 THEN <<"cb", "e1">> ELSE <<"cb">>, FALSE)]
one_block == Btc!number(Btc!block_work(mcParams.pow_limit_bits))
mcPinned == {[network |-> "bitcoin", height |-> 2, hash |-> <<"m", 2>>]}

pay(n, to) == [value |-> n, script |-> [is |-> "OP_1", to |-> to]]
for(l) == [value |-> 0, script |-> [is |-> "OP_RETURN", to |-> l.data.burn_ref]]
tx(outputs) == [inputs |-> <<"coin">>, outputs |-> outputs, segwit |-> FALSE,
                witnessed |-> FALSE, halves |-> <<>>]
\* p1 pays First; p2 pays Large too little, p3 pays it in two parts; s64 is
\* as long as two hashes, one of them e1's.  e1 would pay Again.
mcTxs == [cb |-> [tx(<<pay(1, "miner")>>) EXCEPT !.inputs = <<"coinbase">>],
          p1 |-> tx(<<pay(1, "da"), for(First)>>),
          p2 |-> tx(<<pay(1, "db"), for(Large)>>),
          p3 |-> tx(<<pay(2, "db"), pay(3, "db"), for(Large)>>),
          s64 |-> [tx(<<pay(1, "de")>>) EXCEPT !.halves = <<[tx |-> "p1"], [tx |-> "e1"]>>],
          e1 |-> tx(<<pay(1, "da"), for(Again)>>)]

RECURSIVE Back(_, _)
Back(tip, h) == IF tip[2] = h THEN <<tip>> ELSE Append(Back(mcBlocks[tip].prev, h), tip)

Leaves(b) == [i \in DOMAIN mcBlocks[b].txs |-> Btc!txid(mcBlocks[b].txs[i])]
Opening(headers, b, i) ==
    [headers |-> headers, start_height |-> headers[1][2], height |-> b[2],
     tx |-> mcBlocks[b].txs[i], branch |-> Btc!merkle_branch(Leaves(b), i),
     coinbase |-> "cb", coinbase_branch |-> Btc!merkle_branch(Leaves(b), 1)]
mcReleases ==
    LET main == Back(<<"m", 8>>, 1)
    IN  {Opening(main, <<"m", 4>>, i) : i \in 1 .. 3}
        \cup {Opening(main, <<"m", 5>>, i) : i \in {2, 3}}
        \cup {Opening(Back(<<"m", 5>>, 2), <<"m", 4>>, 2),      \* not enough work
              Opening(Back(<<"f", 6>>, 2), <<"f", 4>>, 2),
              Opening(Back(<<"u", 8>>, 2), <<"u", 4>>, 2),
              [Opening(main, <<"m", 5>>, 3) EXCEPT
                  !.tx = "e1",
                  !.branch = <<[hash |-> [tx |-> "p1"], sibling_on_left |-> TRUE]>> \o @]}

-----------------------------------------------------------------------------
(* Environments: one that is right, and others that differ in one thing.   *)

Num(n) == <<"num", n>>
member(id, key) == <<Num(id), Num(1), <<"hex", "root", 32>>, Num(9), <<"hex", key, 4>>>>
members(keys) == <<"list", [i \in DOMAIN keys |-> member(i, keys[i])]>>
bitcoin(height, hash, work, depth) ==
    <<"list", <<<<Num(height), <<"hex", hash, 32>>, <<"hex", work, 11>>, Num(depth)>>>>>>
Right ==
    [EXITS_ENABLED |-> Num(1), CHAIN_ID |-> Num(7), TAU |-> Num(3), SLOT |-> <<"absent">>,
     BUDGET |-> Num(4), DEST_CHAIN |-> Num(9), CORRIDOR |-> Num(43),
     START_HEIGHT |-> <<"empty">>, BEACON_SEED |-> <<"hex", "seed", 32>>,
     GENESIS_HASH |-> <<"hex", "g", 32>>, COMMITTEE |-> members(qkey),
     VAULTS |-> <<"list", <<<<Num(1), Num(90)>>, <<Num(2), Num(90)>>>>>>,
     CHAIN_RPC_HOST |-> <<"text", "host">>, CHAIN_RPC_PORT |-> Num(80),
     LEDGER |-> <<"text", "path">>, BITCOIN |-> bitcoin(2, <<"m", 2>>, 6 * one_block, 2),
     ASSETS |-> <<"list", <<<<<<"hex", "btc", 16>>>>>>>>, MAX_AMOUNT |-> Num(5),
     RESERVES |-> <<"list", <<<<<<"hex", "btc", 16>>, Num(50)>>>>>>]
Alternatives ==
    {<<"EXITS_ENABLED", <<"text", "true">>>>, <<"CHAIN_ID", Num(0)>>, <<"TAU", Num(2)>>,
     <<"TAU", Num(5)>>, <<"DEST_CHAIN", Num(0)>>, <<"CORRIDOR", Num(2)>>,
     <<"GENESIS_HASH", <<"hex", Zero, 32>>>>, <<"GENESIS_HASH", <<"hex", "h", 32>>>>,
     <<"COMMITTEE", members(<<"q1", "q2", "q3", "q1">>)>>,
     <<"COMMITTEE", members(<<"q1", "q2", "q3", Zero>>)>>, <<"COMMITTEE", <<"list", <<>>>>>>,
     <<"VAULTS", <<"list", <<<<Num(1), Num(90)>>, <<Num(1), Num(90)>>>>>>>>,
     <<"BITCOIN", <<"empty">>>>, <<"BITCOIN", bitcoin(1, <<"m", 1>>, 6 * one_block, 2)>>,
     <<"BITCOIN", bitcoin(3, <<"m", 3>>, 6 * one_block, 2)>>,
     <<"BITCOIN", bitcoin(2, <<"m", 2>>, one_block, 2)>>,
     <<"BITCOIN", bitcoin(2, <<"m", 2>>, 6 * one_block, 1)>>,
     <<"ASSETS", <<"absent">>>>, <<"MAX_AMOUNT", <<"absent">>>>, <<"MAX_AMOUNT", <<"empty">>>>,
     <<"MAX_AMOUNT", Num(7)>>, <<"RESERVES", <<"absent">>>>,
     <<"START_HEIGHT", Num(1)>>, <<"SLOT", Num(12)>>}
mcEnvs == {Right} \cup {[Right EXCEPT ![a[1]] = a[2]] : a \in Alternatives}

\* Four operators; one is dishonest and goes by two names in the second set.
mcAckSets ==
    {[i \in 1 .. 4 |-> [operator_id |-> i, public_key |-> <<"k1", "k2", "k3", "bad">>[i]]],
     [i \in 1 .. 4 |-> [operator_id |-> i, public_key |-> <<"k1", "k2", "bad", "bad">>[i]]]}
=============================================================================
