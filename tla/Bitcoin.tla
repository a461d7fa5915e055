------------------------------ MODULE Bitcoin ------------------------------
(***************************************************************************)
(* Bitcoin deposits (qlc-bitcoin chain.rs, deposit.rs, lib.rs, tx.rs): a   *)
(* run of headers that goes through a pinned checkpoint, and a transaction *)
(* under one of them.  Hashes are ideal: a block's hash is its name, the   *)
(* hash of two halves is [left, right], and the id of a transaction is     *)
(* [tx |-> name], except for the transactions of 64 bytes, which are two   *)
(* halves like an inner node of a tree.  Blocks and transactions are the   *)
(* world's, whoever mined and wrote them.                                  *)
(***************************************************************************)
EXTENDS Numbers, Merkle

CONSTANTS
    params,                     \* NetworkParams
    checkpoint,                 \* Checkpoint of the anchor
    PINNED_CHECKPOINTS,
    deposit_script,
    MEDIAN_TIME_SPAN,
    MAX_MERKLE_BRANCH,
    MAX_COUNT, MAX_MONEY,
    HALF_BTC,                   \* SATS_PER_BTC / 2
    MAX_TRUSTLESS_DEPOSIT_SATS,
    Blocks,                     \* of a block's name: its header and transactions
    Txs                         \* of a transaction's name: what it says

retarget_interval == params.target_timespan \div params.target_spacing

-----------------------------------------------------------------------------
(* lib.rs *)

pow_limit == from_compact(params.pow_limit_bits)

\* The targets and works of the bits there are.
AllBits == {Blocks[b].bits : b \in DOMAIN Blocks}
Target == [bits \in AllBits |-> from_compact(bits)]
Work == [bits \in AllBits |-> number(block_work(bits))]

\* A sibling on the left that equals the node is a copy at the end of a level.
folds(cur, step) == ~(step.hash = cur /\ step.sibling_on_left)

can_fold_merkle_branch(txid, branch) ==
    /\ Len(branch) <= MAX_MERKLE_BRANCH
    /\ \A i \in DOMAIN branch : folds(climb(txid, branch)[i - 1], branch[i])

-----------------------------------------------------------------------------
(* tx.rs *)

txid(t) == IF Txs[t].halves = <<>> THEN [tx |-> t]
           ELSE Pair(Txs[t].halves[1], Txs[t].halves[2])

total_out(tx) == FoldLeft(LAMBDA n, out : n + out.value, 0, tx.outputs)

can_parse(t) ==
    LET tx == Txs[t]
    IN  /\ Len(tx.inputs) \in 1 .. MAX_COUNT
        /\ Len(tx.outputs) \in 1 .. MAX_COUNT
        /\ total_out(tx) <= MAX_MONEY
        /\ tx.segwit => tx.witnessed
        /\ tx.halves = <<>>                     \* legacy_bytes of 64

is_coinbase(t) == Txs[t].inputs = <<"coinbase">>

recipients(tx) == {i \in DOMAIN tx.outputs : tx.outputs[i].script.is = "OP_RETURN"}

value_to_script(tx, script) ==
    FoldLeft(LAMBDA n, out : n + out.value, 0,
             SelectSeq(tx.outputs, LAMBDA out : out.script.is = script))

is_deposit_to(tx, script) == value_to_script(tx, script) > 0 /\ Cardinality(recipients(tx)) = 1

deposit_to(tx, script) ==
    [amount |-> value_to_script(tx, script),
     recipient |-> tx.outputs[CHOOSE i \in recipients(tx) : TRUE].script.to]

-----------------------------------------------------------------------------
(* chain.rs *)

bits_expectation(height, prev_bits, this_bits) ==
    IF height % retarget_interval = 0
    THEN /\ ~less(mul_u64(Target[prev_bits], 4), Target[this_bits])
         /\ ~less(Target[this_bits], div_u64(Target[prev_bits], 4))
    ELSE this_bits = prev_bits

median_time_past(window) ==
    LET times == [i \in DOMAIN window |-> Blocks[window[i]].time]
    IN  SortSeq(times, <)[Len(times) \div 2 + 1]

Elapsed(first, last) == IF last.time < first.time THEN 0 ELSE last.time - first.time

check_retarget_boundary(period_first, period_last, boundary) ==
    /\ Blocks[boundary].mined
    /\ Blocks[boundary].prev = period_last
    /\ Blocks[boundary].bits =
           compute_retarget(Blocks[period_last].bits,
                            Elapsed(Blocks[period_first], Blocks[period_last]), params)

follows(headers, i, height) ==
    LET h == Blocks[headers[i]]
        prev == headers[i - 1]
    IN  /\ h.prev = prev
        /\ IF height % retarget_interval = 0
           THEN /\ i > retarget_interval
                /\ check_retarget_boundary(headers[i - retarget_interval], prev, headers[i])
           ELSE bits_expectation(height, Blocks[prev].bits, h.bits)
        /\ i > MEDIAN_TIME_SPAN =>
              h.time > median_time_past(SubSeq(headers, i - MEDIAN_TIME_SPAN, i - 1))

can_verify_chain(headers, start_height) ==
    /\ headers # <<>>
    /\ \A i \in DOMAIN headers :
          LET h == Blocks[headers[i]]
          IN  /\ to_compact(Target[h.bits]) = h.bits
              /\ h.mined
              /\ ~less(pow_limit, Target[h.bits])
              /\ i > 1 => follows(headers, i, start_height + i - 1)

verify_chain(headers, start_height) ==
    [start_height |-> start_height, tip_height |-> start_height + Len(headers) - 1,
     headers |-> headers]

has_height(chain, height) == height \in chain.start_height .. chain.tip_height

header_at(chain, height) == chain.headers[height - chain.start_height + 1]

work_above(chain, height) ==
    FoldLeft(LAMBDA work, i : IF chain.start_height + i - 1 > height
                              THEN work + Work[Blocks[chain.headers[i]].bits] ELSE work,
             0, Upward(Len(chain.headers)))

checkpoint_is_pinned(c) ==
    [network |-> params.network, height |-> c.height, hash |-> c.hash] \in PINNED_CHECKPOINTS

anchored_to(chain, c) ==
    /\ has_height(chain, c.height)
    /\ header_at(chain, c.height) = c.hash
    /\ work_above(chain, c.height) >= c.min_work

confirmations(chain, height) == chain.tip_height - height + 1

TreeOf(block) == [i \in DOMAIN Blocks[block].txs |-> txid(Blocks[block].txs[i])]

verify_deposit(chain, height, id, branch, required) ==
    /\ has_height(chain, height)
    /\ can_fold_merkle_branch(id, branch)
    /\ fold_merkle_branch(id, branch) = merkle_root(TreeOf(header_at(chain, height)))
    /\ confirmations(chain, height) >= required

-----------------------------------------------------------------------------
(* deposit.rs *)

\* One more block for every half bitcoin.
confirmations_for(amount, base) ==
    Max({base, (amount + HALF_BTC - 1) \div HALF_BTC})

\* A fault: a branch of any length, whatever the coinbase's.
deep_enough_any(chain, p, first) ==
    /\ verify_deposit(chain, p.height, first, p.coinbase_branch, params.confirmation_depth)

deep_enough(chain, p, first) ==
    /\ verify_deposit(chain, p.height, first, p.coinbase_branch, params.confirmation_depth)
    /\ Len(p.branch) = Len(p.coinbase_branch)

verifies_deposit(chain, p) ==
    /\ params.requires_pinned_checkpoint => checkpoint_is_pinned(checkpoint)
    /\ anchored_to(chain, checkpoint)
    /\ can_parse(p.coinbase) /\ is_coinbase(p.coinbase)
    /\ \A i \in DOMAIN p.coinbase_branch : ~p.coinbase_branch[i].sibling_on_left
    /\ deep_enough(chain, p, txid(p.coinbase))
    /\ can_parse(p.tx) /\ ~is_coinbase(p.tx)
    /\ is_deposit_to(Txs[p.tx], deposit_script)
    /\ LET amount == deposit_to(Txs[p.tx], deposit_script).amount
       IN  /\ amount <= MAX_TRUSTLESS_DEPOSIT_SATS
           /\ verify_deposit(chain, p.height, txid(p.tx), p.branch,
                             confirmations_for(amount, params.confirmation_depth))

verify_trustless_deposit(chain, p) ==
    LET paid == deposit_to(Txs[p.tx], deposit_script)
    IN  [source_ref |-> txid(p.tx), amount |-> paid.amount, recipient |-> paid.recipient,
         confirmations |-> confirmations(chain, p.height)]
=============================================================================
