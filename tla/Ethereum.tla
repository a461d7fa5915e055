------------------------------ MODULE Ethereum ------------------------------
(***************************************************************************)
(* The Ethereum light client (qlc-ethereum engine.rs, beacon.rs,           *)
(* config.rs): a store follows the sync committees of the beacon chain     *)
(* from a pinned checkpoint, and a deposit is proved against it.           *)
(*                                                                         *)
(* Hashes are ideal: a root is the thing it is the root of, and a Merkle   *)
(* branch to a leaf exists where the tree has that leaf at that place.     *)
(* The beacon chain itself is external: which slots have a block, what a   *)
(* state commits to and where, and what honest committee members sign.     *)
(* Forged headers commit to whatever their author likes.                   *)
(***************************************************************************)
EXTENDS Integers, Sequences, FiniteSets, FiniteSetsExt, SequencesExt

CONSTANTS
    config,                     \* EvmChainConfig
    presets,                    \* all_presets
    PINNED_BLOCK_ROOTS,
    SLOTS_PER_HISTORICAL_ROOT,
    BLOCK_ROOTS_DEPTH,          \* 2^BLOCK_ROOTS_DEPTH of them
    MAX_DEPOSIT_ANCESTRY,
    MAX_U128,
    Heads,                      \* of a slot: the last one up to it that has a block
    LAST_SLOT,
    Committees,                 \* the true committee of every period
    Honest,                     \* keys that sign only what they see
    ForgedSlots,                \* slots of headers nobody proposed
    FalseCommittee,             \* a committee nobody elected
    Receipts                    \* of a slot: the receipts of its block

VARIABLES store, slot           \* LightClientStore; how far the chain has come

-----------------------------------------------------------------------------
(* config.rs *)

epoch_at_slot(s) == s \div config.slots_per_epoch

\* The fork's epoch, where one is set, is the one element of a set.
is_electra_at_slot(s) == \E epoch \in config.electra_epoch : epoch_at_slot(s) >= epoch

sync_committee_period(s) ==
    s \div (config.slots_per_epoch * config.epochs_per_sync_committee_period)

\* The last fork of the list that has begun, the first if none has.
fork_version_at_epoch(epoch) ==
    FoldLeft(LAMBDA chosen, fork : IF fork.epoch <= epoch THEN fork.version ELSE chosen,
             config.forks[1].version, config.forks)

fork_version_at_slot(s) == fork_version_at_epoch(epoch_at_slot(s))

supermajority_threshold == (config.sync_committee_size * 2) \div 3 + 1

verifies_beacon_sync_committee == config.consensus = "BeaconSyncCommittee"

-----------------------------------------------------------------------------
(* beacon.rs: where a state keeps what the client asks for, as <<index,    *)
(* depth>>, before and after Electra.                                      *)

finalized_root_layout(electra) == IF electra THEN <<169, 7>> ELSE <<105, 6>>

next_sync_committee_layout(electra) == IF electra THEN <<87, 6>> ELSE <<55, 5>>

current_sync_committee_layout(electra) == IF electra THEN <<86, 6>> ELSE <<54, 5>>

block_root_layout(electra, s) ==
    LET state_depth == IF electra THEN 6 ELSE 5
        block_roots == IF electra THEN 69 ELSE 37
    IN  <<block_roots * SLOTS_PER_HISTORICAL_ROOT + (s % SLOTS_PER_HISTORICAL_ROOT),
          state_depth + BLOCK_ROOTS_DEPTH>>

receipts_layout == <<803, 9>>
block_number_layout == <<806, 9>>

-----------------------------------------------------------------------------
(* The beacon chain.  A header is its slot and whether the chain has it.   *)

Header(s) == [slot |-> s, main |-> TRUE]
Forged(s) == [slot |-> s, main |-> FALSE]
BlockSlots == Range(Heads)
Headers == {Header(s) : s \in BlockSlots} \cup {Forged(s) : s \in ForgedSlots}
AllCommittees == Range(Committees) \cup {FalseCommittee}

\* The last block at or before a slot, and the one before a block.
HeadAt(s) == Header(Heads[s])
Parent(h) == IF h.slot = 0 THEN h ELSE HeadAt(h.slot - 1)

\* Two epochs later a checkpoint is final: the last block at its first slot.
FinalizedBy(h) ==
    HeadAt(Max({0, epoch_at_slot(h.slot) - 2}) * config.slots_per_epoch)

\* Field f of a state of depth d is node 2^d + f, the first being node first; a
\* checkpoint's root is the right child of its field.
StateLeaf(h, at) ==
    LET d == IF is_electra_at_slot(h.slot) THEN 6 ELSE 5
        first == IF is_electra_at_slot(h.slot) THEN 64 ELSE 32
        root(s) == (first + 5) * SLOTS_PER_HISTORICAL_ROOT
                       + (s % SLOTS_PER_HISTORICAL_ROOT)
        kept == {s \in h.slot - SLOTS_PER_HISTORICAL_ROOT .. h.slot - 1 : s >= 0}
    IN  CASE at = <<2 * (first + 20) + 1, d + 1>> -> [is |-> "header", it |-> FinalizedBy(h)]
          [] at = <<first + 22, d>> ->
                [is |-> "committee", it |-> Committees[sync_committee_period(h.slot)]]
          [] at = <<first + 23, d>> ->
                [is |-> "committee", it |-> Committees[sync_committee_period(h.slot) + 1]]
          [] \E s \in kept : at = <<root(s), d + BLOCK_ROOTS_DEPTH>> ->
                [is |-> "header",
                 it |-> HeadAt(CHOOSE s \in kept : at[1] = root(s))]
          [] OTHER -> [is |-> "other"]

BodyLeaf(h, at) ==
    CASE at = <<25 * 32 + 3, 9>> -> [is |-> "receipts", it |-> Receipts[h.slot]]
      [] at = <<25 * 32 + 6, 9>> -> [is |-> "number", it |-> h.slot]
      [] OTHER -> [is |-> "other"]

\* Branch and root fit (ssz.rs, by ideal hashes); what a forged header
\* commits to is its author's choice.
is_valid_merkle_branch(leaf, at, h, tree) ==
    h.main => LET found == IF tree = "state" THEN StateLeaf(h, at) ELSE BodyLeaf(h, at)
              IN  found.is = leaf.is /\ found.it = leaf.it

\* An honest member signs, at every slot of its period, the head it sees
\* under the fork of that slot.
Signed(key, h, version) ==
    \/ key \notin Honest
    \/ \E s \in 0 .. slot :
          /\ h = HeadAt(s) /\ version = fork_version_at_slot(s)
          /\ key \in Range(Committees[sync_committee_period(s + 1)])

fast_aggregate_verify(keys, h, version) ==
    keys # {} /\ \A key \in keys : Signed(key, h, version)

-----------------------------------------------------------------------------
(* engine.rs *)

root_is_pinned(h) == h \in PINNED_BLOCK_ROOTS

\* A configuration may ask for more depth than its preset, for nothing else.
consensus_is_pinned ==
    \E preset \in presets :
        /\ \A f \in {"chain_id", "corridor_id", "consensus", "genesis_validators_root",
                     "forks", "sync_committee_size", "slots_per_epoch",
                     "epochs_per_sync_committee_period", "electra_epoch"} :
              preset[f] = config[f]
        /\ config.finality_depth >= preset.finality_depth

can_bootstrap(period, root, checkpoint, committee) ==
    /\ verifies_beacon_sync_committee
    /\ consensus_is_pinned
    /\ root_is_pinned(root) /\ checkpoint = root
    /\ period = sync_committee_period(checkpoint.slot)
    /\ is_valid_merkle_branch([is |-> "committee", it |-> committee],
           current_sync_committee_layout(is_electra_at_slot(checkpoint.slot)),
           checkpoint, "state")

bootstrap(period, checkpoint, committee) ==
    [period |-> period, current |-> committee, next |-> <<>>, finalized |-> checkpoint]

\* How far a store can check signatures.
reach(st) == IF st.next # <<>> THEN st.period + 1 ELSE st.period

slots_are_consistent(st, signature_slot, attested_slot, finalized_slot) ==
    /\ signature_slot > attested_slot
    /\ attested_slot >= finalized_slot
    /\ sync_committee_period(signature_slot) = sync_committee_period(attested_slot)
    /\ sync_committee_period(attested_slot) <= reach(st)

\* <<>> when the store has no committee for the period.
select_committee(st, signature_slot) ==
    LET period == sync_committee_period(signature_slot)
    IN  IF period = st.period THEN st.current
        ELSE IF period = st.period + 1 THEN st.next
        ELSE <<>>

participants(participation) == Cardinality({i \in DOMAIN participation : participation[i]})

check_participation(st, participation, signature_slot) ==
    LET committee == select_committee(st, signature_slot)
    IN  /\ committee # <<>>
        /\ Len(committee) = config.sync_committee_size
        /\ Len(participation) = config.sync_committee_size
        /\ participants(participation) >= supermajority_threshold

participating_pubkeys(committee, participation) ==
    {committee[i] : i \in {k \in DOMAIN participation : participation[k] /\ k <= Len(committee)}}

verify_sync_aggregate(st, attested, participation, signature_slot) ==
    fast_aggregate_verify(
        participating_pubkeys(select_committee(st, signature_slot), participation),
        attested, fork_version_at_slot(signature_slot - 1))

\* A fault: the layout is chosen by the wrong header.
finality_by_finalized(attested, finalized) ==
    is_valid_merkle_branch([is |-> "header", it |-> finalized],
        finalized_root_layout(is_electra_at_slot(finalized.slot)), attested, "state")

verify_finality(attested, finalized) ==
    is_valid_merkle_branch([is |-> "header", it |-> finalized],
        finalized_root_layout(is_electra_at_slot(attested.slot)), attested, "state")

-----------------------------------------------------------------------------
(* Deposits: a block at or before the finalized one, its receipts, the log *)

\* A header names its parent; a forged one names whom it likes.
verify_ancestry(finalized, ancestry) ==
    /\ Len(ancestry) <= MAX_DEPOSIT_ANCESTRY
    /\ \A i \in DOMAIN ancestry :
          LET child == IF i = 1 THEN finalized ELSE ancestry[i - 1]
          IN  /\ child.main => ancestry[i] = Parent(child)
              /\ ancestry[i].slot < child.slot

verify_historical(finalized, ancestry) ==
    /\ Len(ancestry) = 1
    /\ ancestry[1].slot < finalized.slot
    /\ finalized.slot - ancestry[1].slot < SLOTS_PER_HISTORICAL_ROOT
    /\ is_valid_merkle_branch([is |-> "header", it |-> ancestry[1]],
           block_root_layout(is_electra_at_slot(finalized.slot), ancestry[1].slot),
           finalized, "state")

deposit_block(finalized, ancestry) == IF ancestry = <<>> THEN finalized ELSE Last(ancestry)

verify_execution(execution, block) ==
    /\ is_valid_merkle_branch([is |-> "receipts", it |-> execution.receipts_root],
                              receipts_layout, block, "body")
    /\ is_valid_merkle_branch([is |-> "number", it |-> execution.block_number],
                              block_number_layout, block, "body")

\* The topics of a deposit event are its signature and the recipient; its
\* data are the amount, 256 bits wide, and the asset.
is_deposit_log(log, contract) ==
    log.address = contract /\ Len(log.topics) = 2 /\ log.topics[1] = "QBridgeDeposit"

\* One bad log of the bridge spoils the whole receipt.
well_formed(receipt, contract) ==
    /\ receipt.status = 1
    /\ \A i \in DOMAIN receipt.logs :
          is_deposit_log(receipt.logs[i], contract) =>
              Len(receipt.logs[i].data) >= 2 /\ receipt.logs[i].data[1] <= MAX_U128

extract_deposit_at(receipt, contract, log_index) ==
    LET log == receipt.logs[log_index + 1]
    IN  [recipient |-> log.topics[2], amount |-> log.data[1], asset_id |-> log.data[2]]

has_deposit_at(receipt, contract, log_index) ==
    /\ well_formed(receipt, contract)
    /\ log_index + 1 \in DOMAIN receipt.logs
    /\ is_deposit_log(receipt.logs[log_index + 1], contract)

\* A contract of twenty equal bytes is a placeholder of the presets.
deposit_contract_is_set == config.deposit_contract # "placeholder"

verifies_deposit(st, update, deposit) ==
    /\ verifies_beacon_sync_committee
    /\ slots_are_consistent(st, update.signature_slot, update.attested.slot,
                            update.finalized.slot)
    /\ check_participation(st, update.participation, update.signature_slot)
    /\ verify_finality(update.attested, update.finalized)
    /\ IF deposit.historical THEN verify_historical(update.finalized, deposit.ancestry)
       ELSE verify_ancestry(update.finalized, deposit.ancestry)
    /\ verify_execution(update.execution, deposit_block(update.finalized, deposit.ancestry))
    /\ deposit.receipt_index + 1 \in DOMAIN update.execution.receipts_root
    /\ deposit_contract_is_set
    /\ LET receipt == update.execution.receipts_root[deposit.receipt_index + 1]
       IN  /\ has_deposit_at(receipt, config.deposit_contract, deposit.log_index)
           /\ extract_deposit_at(receipt, config.deposit_contract, deposit.log_index).amount
                 <= config.max_deposit_base_units
    /\ verify_sync_aggregate(st, update.attested, update.participation,
                             update.signature_slot)

\* The block, the receipt's key and the log name the deposit.
deposit_source_ref(anchor, receipt_index, log_index) == <<anchor, receipt_index, log_index>>

verify_trustless_deposit(update, deposit) ==
    LET raw == extract_deposit_at(
                   update.execution.receipts_root[deposit.receipt_index + 1],
                   config.deposit_contract, deposit.log_index)
    IN  [source_ref |-> deposit_source_ref(
                            deposit_block(update.finalized, deposit.ancestry),
                            deposit.receipt_index, deposit.log_index),
         amount |-> raw.amount, recipient |-> raw.recipient, asset_id |-> raw.asset_id,
         confirmations |-> config.finality_depth]

-----------------------------------------------------------------------------
(* Sync committee updates *)

structural_sync_committee_update(st, u) ==
    LET attested_period == sync_committee_period(u.attested.slot)
        finalized_period == sync_committee_period(u.finalized.slot)
    IN  /\ verifies_beacon_sync_committee
        /\ slots_are_consistent(st, u.signature_slot, u.attested.slot, u.finalized.slot)
        /\ attested_period \in st.period .. reach(st)
        /\ check_participation(st, u.participation, u.signature_slot)
        /\ verify_finality(u.attested, u.finalized)
        /\ finalized_period \in st.period .. attested_period
        /\ is_valid_merkle_branch([is |-> "committee", it |-> u.next_sync_committee],
               next_sync_committee_layout(is_electra_at_slot(u.attested.slot)),
               u.attested, "state")

precheck_sync_committee_update(st, u) ==
    /\ ~(st.next # <<>> /\ u.finalized.slot <= st.finalized.slot)
    /\ structural_sync_committee_update(st, u)

verifies_update(st, u) ==
    /\ structural_sync_committee_update(st, u)
    /\ verify_sync_aggregate(st, u.attested, u.participation, u.signature_slot)

\* A fault: an update of the next period overwrites the next committee.
apply_any_period(st, u) ==
    [st EXCEPT !.next = u.next_sync_committee,
               !.finalized = IF u.finalized.slot > @.slot THEN u.finalized ELSE @]

apply_sync_committee_update(st, u) ==
    [st EXCEPT
        !.next = IF sync_committee_period(u.attested.slot) = st.period
                 THEN u.next_sync_committee ELSE @,
        !.finalized = IF u.finalized.slot > @.slot THEN u.finalized ELSE @]

\* advance_period until it refuses: once at most, as it uses next up.
advance_period(st) ==
    IF sync_committee_period(st.finalized.slot) > st.period /\ st.next # <<>>
    THEN [st EXCEPT !.current = st.next, !.period = @ + 1, !.next = <<>>]
    ELSE st

rotate_sync_committee(st, u) ==
    LET next == advance_period(apply_sync_committee_update(st, u))
    IN  IF sync_committee_period(u.attested.slot) = next.period /\ next.next = <<>>
        THEN [next EXCEPT !.next = u.next_sync_committee]
        ELSE next

-----------------------------------------------------------------------------
Everyone(n) == [i \in 1 .. n |-> TRUE]

\* Who may be said to have signed: everyone, or the dishonest alone.
Participations(st, signature_slot) ==
    LET committee == select_committee(st, signature_slot)
    IN  {Everyone(Len(committee)),
         [i \in 1 .. Len(committee) |-> committee[i] \notin Honest]}

Init ==
    /\ slot = 0
    /\ \E checkpoint \in Headers, period \in DOMAIN Committees,
          committee \in AllCommittees :
          /\ can_bootstrap(period, checkpoint, checkpoint, committee)
          /\ store = bootstrap(period, checkpoint, committee)

\* The beacon chain goes on.
Slot == /\ slot < LAST_SLOT
        /\ slot' = slot + 1
        /\ UNCHANGED store

Rotate(attested, signature_slot) ==
    \E finalized \in Headers :
    /\ slots_are_consistent(store, signature_slot, attested.slot, finalized.slot)
    /\ verify_finality(attested, finalized)
    /\ \E next \in AllCommittees, participation \in Participations(store, signature_slot) :
          LET u == [attested |-> attested, finalized |-> finalized,
                    next_sync_committee |-> next, participation |-> participation,
                    signature_slot |-> signature_slot]
          IN  /\ precheck_sync_committee_update(store, u)
              /\ verifies_update(store, u)
              /\ store' = rotate_sync_committee(store, u)
    /\ UNCHANGED slot

Update == \E attested \in Headers, n \in 1 .. 2 : Rotate(attested, attested.slot + n)

\* The updates the chain's own headers make possible.
ChainUpdate == \E s \in BlockSlots, n \in 1 .. 2 : Rotate(Header(s), s + n)

Next == Slot \/ Update

-----------------------------------------------------------------------------
\* The store always holds the committee the beacon chain elected for its
\* period, the next one is the one elected or none, and what it takes for
\* final is a block of the chain, no later than it can check: whoever rotates
\* it, with whatever headers, while the dishonest members of no committee make
\* up a supermajority (apply_sync_committee_update, rotate_sync_committee).
CommitteesTrue ==
    /\ store.current = Committees[store.period]
    /\ store.next \in {<<>>, Committees[store.period + 1]}
    /\ store.finalized.main
    /\ sync_committee_period(store.finalized.slot) \in {store.period, store.period + 1}

\* A chain that finalizes a block in every period is followed to its end,
\* through forks, missed slots and the change of the state's layout: some
\* update that has been signed always carries the store on
\* (slots_are_consistent, advance_period).
FollowsTheChain ==
    <>(store.period = sync_committee_period(LAST_SLOT))
=============================================================================
