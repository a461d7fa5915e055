------------------------------ MODULE Payouts ------------------------------
(***************************************************************************)
(* What an exit rests on, from the burn to the acknowledgement: the proofs *)
(* of burns (BurnSource), the statement of an exit, the proof that it was  *)
(* paid out on Bitcoin (q-exits payout.rs), the desk that compares the two *)
(* (exits.rs), and the decision that the operators sign (outbound.rs); the *)
(* service is configured and started as in q-runtime exits.rs and boot.rs. *)
(*                                                                         *)
(* ExitDesk has the journal, the vaults and the gate between their         *)
(* threads, with proofs whose verdict is given; here the proofs are looked *)
(* into, a step of the service is one action and every vault is rich       *)
(* enough.  The acknowledgements are not sent yet: EXIT_ACK_PATH_WIRED is  *)
(* false in boot.rs, and nothing calls sign_decision.  An operator here    *)
(* signs what its own desk decided.                                        *)
(***************************************************************************)
EXTENDS ExitConfig

CONSTANTS
    params, PINNED_CHECKPOINTS, MEDIAN_TIME_SPAN, MAX_MERKLE_BRANCH,
    MAX_COUNT, MAX_MONEY, HALF_BTC, Blocks, Txs,
    LIMBS, LIMB_BYTES, BYTE, GROUP, WORD

CONSTANTS
    Envs,                   \* environments the service may be started in
    Nodes,                  \* what a node may answer: [head, heights, blocks]
    Releases,               \* payout proofs that may be handed in
    EXIT_ACK_PATH_WIRED, BITCOIN_CORRIDOR,
    REDEEM_WINDOW, SLASH_GRACE,
    MAX_PENDING_RELEASES, MAX_SEEN_RELEASES,
    AckSets,                \* operator sets: sequences of [operator_id, public_key]
    HonestKeys, OwnKey,     \* keys of honest operators, and of this one
    ERA, OldEra, Threshold, EXIT_ACK_QUORUM_MIN,
    Finalized,              \* of a genesis: names of the blocks that chain finalized
    HonestMembers,          \* attestation keys of honest members of the committee
    Watched,                \* bound: the burns whose acknowledgement is followed
    MaxTime                 \* bound on the clock

VARIABLES
    env, service,           \* the environment, and "down", "refused", "off" or "running"
    clock,
    scanned,                \* BurnWatcher
    desk,                   \* ExitDesk: [exits, consumed]
    expected, queue, seen,  \* ReleaseGate
    held,                   \* SettleInputs
    signed                  \* signatures of this operator: [key, preimage, era]

vars == <<env, service, clock, scanned, desk, expected, queue, seen, held, signed>>

Btc == INSTANCE Bitcoin WITH checkpoint <- <<>>, deposit_script <- "",
                             MAX_TRUSTLESS_DEPOSIT_SATS <- 0

cfg == ExitTrustConfig(env)

-----------------------------------------------------------------------------
(* payout.rs *)

\* The outputs whose script is of a form; to is the word it pushes.
words(tx, opcode) == {i \in DOMAIN tx.outputs : tx.outputs[i].script.is = opcode}

has_release_reference(tx) == Cardinality(words(tx, "OP_RETURN")) = 1

release_reference(tx) == tx.outputs[CHOOSE i \in words(tx, "OP_RETURN") : TRUE].script.to

\* Exactly one output pays the beneficiary exactly this.
has_payout_value(tx, beneficiary, amount) ==
    Cardinality({i \in words(tx, "OP_1") : /\ tx.outputs[i].script.to = beneficiary
                                           /\ tx.outputs[i].value = amount}) = 1

names_a_burn(r) == Btc!can_parse(r.tx) /\ has_release_reference(Txs[r.tx])

verifies_release(r, checkpoint, confirmation_depth, beneficiary, amount) ==
    LET chain == Btc!verify_chain(r.headers, r.start_height)
        depth == Btc!confirmations_for(amount, confirmation_depth)
    IN  /\ params.requires_pinned_checkpoint => Btc!checkpoint_is_pinned(checkpoint)
        /\ Btc!has_height(chain, checkpoint.height)
        /\ Btc!header_at(chain, checkpoint.height) = checkpoint.hash
        /\ Btc!can_verify_chain(r.headers, r.start_height)
        /\ Btc!anchored_to(chain, checkpoint)
        /\ Btc!can_parse(r.coinbase) /\ Btc!is_coinbase(r.coinbase)
        /\ \A i \in DOMAIN r.coinbase_branch : ~r.coinbase_branch[i].sibling_on_left
        /\ names_a_burn(r)
        /\ has_payout_value(Txs[r.tx], beneficiary, amount)
        /\ Btc!verify_deposit(chain, r.height, Btc!txid(r.coinbase), r.coinbase_branch, depth)
        /\ Len(r.branch) = Len(r.coinbase_branch)
        /\ Btc!verify_deposit(chain, r.height, Btc!txid(r.tx), r.branch, depth)

\* Fault: whatever burn the payout names.
attests_any(r, asset, statement) ==
    /\ statement.corridor = cfg.corridor
    /\ statement.asset_id = asset
    /\ verifies_release(r, cfg.bitcoin[1], cfg.bitcoin[1].confirmations,
                        statement.destination, statement.amount)

\* BitcoinPayoutWatcher::attest takes the first that does.
attests(r, asset, statement) ==
    /\ statement.corridor = cfg.corridor
    /\ statement.asset_id = asset
    /\ names_a_burn(r) /\ release_reference(Txs[r.tx]) = statement.burn_ref
    /\ verifies_release(r, cfg.bitcoin[1], cfg.bitcoin[1].confirmations,
                        statement.destination, statement.amount)

attest(releases, asset, statement) ==
    {[corridor |-> cfg.corridor, asset_id |-> asset, amount |-> statement.amount,
      beneficiary |-> statement.destination, burn_ref |-> statement.burn_ref,
      foreign_ref |-> Btc!txid(releases[at].tx)] :
        at \in {i \in DOMAIN releases :
                   /\ attests(releases[i], asset, statement)
                   /\ \A k \in 1 .. (i - 1) : ~attests(releases[k], asset, statement)}}

valid_attestation(a) ==
    a.corridor # 0 /\ a.amount # 0 /\ a.asset_id # Zero /\ a.beneficiary # Zero

covers(a, statement) ==
    /\ a.corridor = statement.corridor /\ a.asset_id = statement.asset_id
    /\ a.amount = statement.amount /\ a.beneficiary = statement.destination
    /\ a.burn_ref = statement.burn_ref

-----------------------------------------------------------------------------
(* exits.rs *)

valid_statement(s) ==
    /\ s.corridor # 0 /\ s.amount # 0 /\ s.asset_id # Zero
    /\ s.holder # Zero /\ s.destination # Zero

can_open_exit(d, p) ==
    LET anchor == build_anchor(cfg)
        burn == verify_burn(p)
    IN  /\ verifies_burn(p, anchor)
        /\ burn.dest_chain = anchor.chain_id
        /\ burn.asset_id \in cfg.assets
        /\ cfg.max_exit_amount > 0 => burn.amount <= cfg.max_exit_amount
        /\ burn.burn_ref \notin d.consumed

open_exit(d, p) ==
    LET burn == verify_burn(p)
        statement == [corridor |-> cfg.corridor, asset_id |-> burn.asset_id,
                      amount |-> burn.amount, holder |-> burn.holder,
                      destination |-> burn.destination, burn_ref |-> burn.burn_ref,
                      finalized_height |-> burn.finalized_height]
    IN  IF ~valid_statement(statement) THEN d
        ELSE [exits |-> Append(d.exits, [statement |-> statement, state |-> "Pending",
                                         issued_at |-> clock, deadline |-> clock + REDEEM_WINDOW]),
              consumed |-> d.consumed \cup {burn.burn_ref}]

\* What settle makes of exit i with the watcher of an asset: nothing, or the
\* payout that settles it.
settles(d, i, releases, asset) ==
    LET statement == d.exits[i].statement
    IN  {a.foreign_ref : a \in {b \in attest(releases, asset, statement) :
                                   /\ valid_attestation(b) /\ covers(b, statement)
                                   /\ b.foreign_ref \notin d.consumed}}

settle(d, i, releases) ==
    LET refs == UNION {settles(d, i, releases, asset) : asset \in cfg.assets}
    IN  IF d.exits[i].state # "Pending" THEN d
        ELSE IF refs = {} THEN d
        ELSE [exits |-> [d.exits EXCEPT ![i].state = "Settled"],
              consumed |-> d.consumed \cup refs]

slash_opens_at(exit) == exit.deadline + SLASH_GRACE

slash(d, i) ==
    IF d.exits[i].state = "Pending" /\ clock > slash_opens_at(d.exits[i])
    THEN [d EXCEPT !.exits[i].state = "Slashed"] ELSE d

close_overdue(d, i, releases) ==
    IF clock > slash_opens_at(d.exits[i]) THEN slash(settle(d, i, releases), i) ELSE d

decision(exit) ==
    [corridor |-> exit.statement.corridor, dest_chain |-> cfg.bridge_dest_chain,
     asset_id |-> exit.statement.asset_id, amount |-> exit.statement.amount,
     holder |-> exit.statement.holder, destination |-> exit.statement.destination,
     burn_ref |-> exit.statement.burn_ref,
     outcome |-> IF exit.state = "Settled" THEN "Settle" ELSE "Slash"]

\* Fault: every exit takes as long as the smallest.
window_covers_the_smallest_exit(c, spacing) ==
    2 * c.bitcoin[1].confirmations * spacing <= REDEEM_WINDOW

window_covers_the_largest_exit(c, spacing) ==
    \/ c.max_exit_amount = 0
    \/ 2 * Btc!confirmations_for(c.max_exit_amount, c.bitcoin[1].confirmations) * spacing
           <= REDEEM_WINDOW

-----------------------------------------------------------------------------
(* The service *)

\* ExitService::build refuses what assemble does.
starts_exits(c) ==
    /\ c.reserves # <<>>
    /\ c.corridor = BITCOIN_CORRIDOR
    /\ c.bitcoin # <<>>
    /\ window_covers_the_largest_exit(c, params.target_spacing)
    /\ EXIT_ACK_PATH_WIRED
    /\ c.corridor # 0 /\ c.bridge_dest_chain # 0

Start ==
    /\ service = "down"
    /\ service' = CASE parse_exit_config(env) = "off" -> "off"
                    [] parse_exit_config(env) = "read" /\ starts_exits(cfg) -> "running"
                    [] OTHER -> "refused"
    /\ scanned' = IF service' = "running" THEN cfg.start_height ELSE scanned
    /\ UNCHANGED <<env, clock, desk, expected, queue, seen, held, signed>>

LastOf(s, n) == IF Len(s) > n THEN SubSeq(s, Len(s) - n + 1, Len(s)) ELSE s

open_refs(d) == {d.exits[i].statement.burn_ref :
                    i \in {k \in DOMAIN d.exits : d.exits[k].state = "Pending"}}

\* Those of some payouts that name one of these burns.
naming(releases, refs) ==
    LET these == {i \in DOMAIN releases :
                     /\ names_a_burn(releases[i])
                     /\ release_reference(Txs[releases[i].tx]) \in refs}
    IN  [n \in 1 .. Cardinality(these) |-> releases[nth(these, n)]]

\* known_payouts: those of the gate and those held, of exits that are open.
known_payouts(d) == LastOf(naming(held \o queue, open_refs(d)), MAX_PENDING_RELEASES)

\* The desk after every one of the proofs, and after every exit of a sweep.
poll_burns(proofs) ==
    LET opened[i \in 0 .. Len(proofs)] ==
            IF i = 0 THEN desk
            ELSE IF can_open_exit(opened[i - 1], proofs[i])
                 THEN open_exit(opened[i - 1], proofs[i]) ELSE opened[i - 1]
    IN  opened

sweep_settle(d, known) ==
    LET swept[i \in 0 .. Len(d.exits)] ==
            IF i = 0 THEN d ELSE settle(swept[i - 1], i, known)
    IN  swept

sweep_slash(d, known) ==
    LET swept[i \in 0 .. Len(d.exits)] ==
            IF i = 0 THEN d ELSE close_overdue(swept[i - 1], i, known)
    IN  swept

Step(node) ==
    /\ service = "running"
    /\ \E found \in {poll(node, scanned, build_anchor(cfg))} :
       \E opened \in {poll_burns(found.proofs)[Len(found.proofs)]} :
       \E known \in {known_payouts(opened)} :
       \E swept \in {sweep_settle(opened, known)[Len(opened.exits)]} :
          /\ scanned' = found.scanned
          /\ desk' = sweep_slash(swept, known)[Len(swept.exits)]
          /\ held' = naming(known, open_refs(swept))
          /\ expected' = open_refs(swept)
    /\ queue' = <<>>
    /\ UNCHANGED <<env, service, clock, seen, signed>>

\* submit_release
Submit(r) ==
    /\ service = "running"
    /\ names_a_burn(r)
    /\ release_reference(Txs[r.tx]) \in expected
    /\ \E i \in DOMAIN desk.exits :
          /\ desk.exits[i].statement.burn_ref = release_reference(Txs[r.tx])
          /\ verifies_release(r, cfg.bitcoin[1], cfg.bitcoin[1].confirmations,
                              desk.exits[i].statement.destination,
                              desk.exits[i].statement.amount)
    /\ Btc!txid(r.tx) \notin Range(seen)
    /\ queue' = LastOf(Append(queue, r), MAX_PENDING_RELEASES)
    /\ seen' = LastOf(Append(seen, Btc!txid(r.tx)), MAX_SEEN_RELEASES)
    /\ UNCHANGED <<env, service, clock, scanned, desk, expected, held, signed>>

-----------------------------------------------------------------------------
(* outbound.rs *)

ack_preimage(d) == [decision |-> d, chain_id |-> cfg.chain_id]

well_formed(d) ==
    /\ d.corridor # 0 /\ d.dest_chain # 0 /\ d.amount # 0
    /\ d.asset_id # Zero /\ d.holder # Zero /\ d.destination # Zero

sign_decision(key, d) == [key |-> key, preimage |-> ack_preimage(d), era |-> ERA]

\* This operator signs what its desk decided.
Sign ==
    \E i \in DOMAIN desk.exits :
        /\ desk.exits[i].statement.burn_ref \in Watched
        /\ desk.exits[i].state # "Pending"
        /\ signed' = signed \cup {sign_decision(OwnKey, decision(desk.exits[i]))}
        /\ UNCHANGED <<env, service, clock, scanned, desk, expected, queue, seen, held>>

floor(operators) == Max({(2 * Len(operators)) \div 3 + 1, EXIT_ACK_QUORUM_MIN})

operator(operators, id) == SelectInSeq(operators, LAMBDA o : o.operator_id = id)

\* The operators whose signature of d is among these.
signers(operators, d, signatures) ==
    {o \in Range(operators) : \E i \in DOMAIN signatures :
        LET at == operator(operators, signatures[i].operator_id)
        IN  /\ at # 0 /\ operators[at] = o
            /\ signatures[i].signature = sign_decision(o.public_key, d)}

\* Fault: every name counts.
counted_ids(operators, d, signatures) ==
    {o.operator_id : o \in signers(operators, d, signatures)}

\* One that has several names is counted once.
counted_keys(operators, d, signatures) ==
    {o.public_key : o \in signers(operators, d, signatures)}

verifies_ack_quorum(operators, d, signatures) ==
    /\ Threshold >= floor(operators)
    /\ well_formed(d)
    /\ Len(signatures) <= Len(operators)
    /\ Cardinality(counted_keys(operators, d, signatures)) >= Threshold

-----------------------------------------------------------------------------

\* Until there is an exit nothing depends on the time.
Tick ==
    /\ clock < MaxTime
    /\ desk.exits # <<>>
    /\ clock' = clock + 1
    /\ UNCHANGED <<env, service, scanned, desk, expected, queue, seen, held, signed>>

Init ==
    /\ env \in Envs
    /\ service = "down" /\ clock = 0 /\ scanned = 0
    /\ desk = [exits |-> <<>>, consumed |-> {}]
    /\ expected = {} /\ queue = <<>> /\ seen = <<>> /\ held = <<>>
    /\ signed = {}

Next ==
    \/ Start \/ Tick
    \/ \E node \in Nodes : Step(node)
    \/ \E r \in Releases : Submit(r)
    \/ Sign

Spec == Init /\ [][Next]_vars

-----------------------------------------------------------------------------
(* What the properties rest on: the world outside the service. *)

IsList(s) == Len(s) \in Nat /\ DOMAIN s = 1 .. Len(s)

\* Amounts, heights and times are natural numbers.
ASSUME NumberAssumption ==
    /\ {MAX_U32, MAX_U64, MAX_U128, REDEEM_WINDOW, SLASH_GRACE, params.target_spacing} \subseteq Nat
    /\ HALF_BTC \in Nat \ {0}
    /\ {Threshold, EXIT_ACK_QUORUM_MIN, MAX_HEIGHTS_PER_POLL, MAX_PENDING_RELEASES} \subseteq Nat
    /\ \A name \in DOMAIN QBlocks : \A i \in DOMAIN QBlocks[name].events :
          QBlocks[name].events[i].data.is = "burn" => QBlocks[name].events[i].data.amount \in Nat
    /\ \A r \in Releases :
          /\ IsList(r.headers) /\ IsList(r.branch) /\ IsList(r.coinbase_branch)
          /\ r.start_height \in Nat /\ r.height \in Nat

\* The members of a committee that may sign anything.
Faulty(c) == {m \in Range(c.members) : m.attest_pk \notin HonestMembers}

\* What an honest member has signed in a certificate its chain has finalized.
SignedInGoodFaith(certificate) ==
    \A i \in DOMAIN certificate.attestations :
        LET sig == certificate.attestations[i].sig
        IN  sig.key \in HonestMembers => sig.says.block.val \in Finalized[sig.on.genesis]

\* The operator configures a committee with fewer dishonest members than make
\* a quorum; nobody has an honest member's key.
ASSUME CommitteeAssumption ==
    /\ \A e \in Envs : parse_exit_config(e) = "read" =>
          /\ IsFiniteSet(Faulty(ExitTrustConfig(e)))
          /\ Cardinality(Faulty(ExitTrustConfig(e))) < ExitTrustConfig(e).tau
    /\ \A node \in Nodes : \A height \in DOMAIN node.blocks :
          LET b == finalized_block(node.blocks[height])
          IN  b # <<>> => IsList(b[1].events) /\ SignedInGoodFaith(b[1].certificate)

MainChain == {b \in DOMAIN Blocks : Blocks[b].main}

\* Nobody works as much beside the main chain as is asked for above a pinned
\* checkpoint: what such a run of headers has deep enough is of the main chain.
ASSUME WorkAssumption ==
    \A e \in Envs, r \in Releases :
        LET c == ExitTrustConfig(e)
            chain == Btc!verify_chain(r.headers, r.start_height)
        IN  /\ parse_exit_config(e) = "read" /\ c.bitcoin # <<>>
            /\ params.requires_pinned_checkpoint => Btc!checkpoint_is_pinned(c.bitcoin[1])
            /\ Btc!can_verify_chain(r.headers, r.start_height)
            /\ Btc!anchored_to(chain, c.bitcoin[1])
            /\ Btc!has_height(chain, r.height)
            /\ Btc!confirmations(chain, r.height) >= c.bitcoin[1].confirmations
            => Btc!header_at(chain, r.height) \in MainChain

\* A block has a first transaction, and it is not one of 64 bytes.
ASSUME CoinbaseAssumption ==
    \A b \in MainChain : /\ IsList(Blocks[b].txs) /\ Blocks[b].txs # <<>>
                         /\ Txs[Blocks[b].txs[1]].halves = <<>>

Dishonest(operators) == {o.public_key : o \in Range(operators)} \ HonestKeys

\* No more than a third of the operators is dishonest, and this one is not.
ASSUME OperatorAssumption ==
    /\ OwnKey \in HonestKeys /\ OldEra # ERA
    /\ \A operators \in AckSets :
          IsList(operators) /\ 3 * Cardinality(Dishonest(operators)) <= Len(operators)

-----------------------------------------------------------------------------
(* Properties *)

Exits == Range(desk.exits)

\* Every exit is a burn of the Quantova chain that the service is configured
\* for, finalized and with just that holder, amount and destination, and no
\* burn has two exits, whatever the node answered (ExitDesk::open_exit).
OnlyRealBurns ==
    /\ \A e \in Exits :
          \E name \in Finalized[cfg.genesis_hash] : \E i \in DOMAIN QBlocks[name].events :
              LET leaf == QBlocks[name].events[i]
                  s == e.statement
              IN  /\ leaf.contract = "qtv/native"
                  /\ leaf.selector = "QBBN" /\ leaf.data.is = "burn"
                  /\ s.burn_ref = leaf.data.burn_ref
                  /\ s.burn_ref.dest_chain = cfg.chain_id
                  /\ s.burn_ref.genesis = cfg.genesis_hash
                  /\ <<s.asset_id, s.holder, s.amount, s.destination>> =
                         <<leaf.data.asset_id, leaf.data.holder, leaf.data.amount,
                           leaf.data.destination>>
    /\ \A i, k \in DOMAIN desk.exits :
          desk.exits[i].statement.burn_ref = desk.exits[k].statement.burn_ref => i = k

PaysFor(t, s) ==
    /\ \E i \in DOMAIN Txs[t].outputs :
          /\ Txs[t].outputs[i].script.is = "OP_1"
          /\ Txs[t].outputs[i].script.to = s.destination
          /\ Txs[t].outputs[i].value = s.amount
    /\ \E i \in DOMAIN Txs[t].outputs :
          /\ Txs[t].outputs[i].script.is = "OP_RETURN"
          /\ Txs[t].outputs[i].script.to = s.burn_ref

\* An exit is settled only if the main chain of Bitcoin has a transaction
\* that pays the destination and names the burn (ExitDesk::settle on
\* BitcoinReleaseProof::verify).
PaidMeansPaid ==
    \A e \in Exits : e.state = "Settled" =>
        \E b \in MainChain : \E t \in Range(Blocks[b].txs) : PaysFor(t, e.statement)

\* Twice the blocks that the proof of a payout must have above it come within
\* the window of every exit the service has opened, as start_exits demands.
PaysInTime ==
    \A e \in Exits :
        e.issued_at + 2 * params.target_spacing
            * Btc!confirmations_for(e.statement.amount, cfg.bitcoin[1].confirmations)
                <= e.deadline

\* The verdicts that the other honest operators' desks may reach.
Verdicts == [HonestKeys \ {OwnKey} -> {"Settle", "Slash"}]

\* What can be put into an envelope for d: the honest operators' signatures,
\* this one's of an earlier era too, and the dishonest ones' on anything.
Available(operators, d, verdict) ==
    {s \in signed : s.preimage = ack_preimage(d)}
    \cup {sign_decision(key, d) : key \in {k \in DOMAIN verdict : verdict[k] = d.outcome}}
    \cup {[sign_decision(OwnKey, d) EXCEPT !.era = OldEra]}
    \cup {sign_decision(key, d) : key \in Dishonest(operators)}

\* Under every name a signature by its key or by a dishonest one's.
Envelopes(operators, d, verdict) ==
    {[i \in DOMAIN operators |->
         [operator_id |-> operators[i].operator_id, signature |-> pick[i]]] :
        pick \in {f \in [DOMAIN operators -> Available(operators, d, verdict)] :
                     \A i \in DOMAIN f :
                         f[i].key \in {operators[i].public_key} \cup Dishonest(operators)}}

Acknowledged(operators, exit, outcome, verdict) ==
    LET d == [decision(exit) EXCEPT !.outcome = outcome]
    IN  \E signatures \in Envelopes(operators, d, verdict) :
            verifies_ack_quorum(operators, d, signatures)

\* A burn is never acknowledged both as paid and as slashed, as long as the
\* dishonest operators are no more than a third (verify_ack_quorum).
OneVerdict ==
    \A e \in Exits : e.statement.burn_ref \in Watched /\ e.state # "Pending" =>
        \A operators \in AckSets, verdict \in Verdicts :
            ~(/\ Acknowledged(operators, e, "Settle", verdict)
              /\ Acknowledged(operators, e, "Slash", verdict))
=============================================================================
