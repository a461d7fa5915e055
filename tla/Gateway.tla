------------------------------ MODULE Gateway ------------------------------
(***************************************************************************)
(* The guard that every mint, exit and operator order of the bridge goes   *)
(* through: struct Gateway of q-gateway/src/gateway.rs.  A gateway is a    *)
(* record g with the fields of the struct, and a method is an operator: a  *)
(* predicate for the checks a method returns Err from, and a record for    *)
(* the state it leaves.  The module has no variables; GuardedBridge holds  *)
(* a gateway and its snapshot and says when the methods run.               *)
(*                                                                         *)
(* What is abstracted: an asset, chain, operator or reference is a member  *)
(* of a set; a signature list is what QuorumRules says of it; a map entry  *)
(* that is absent is None; guard_revision, which is only ever compared     *)
(* with its value before a request, is the flag "touched since then"; and  *)
(* the records log_admin collects are left to the callers of the methods,  *)
(* for nothing here reads them.  unpause_all, unpause_source and           *)
(* advance_epoch have no caller outside the tests and are left out.        *)
(***************************************************************************)
EXTENDS Integers, Functions, QuorumRules

CONSTANTS
    Chains,              \* source chains an order or a deposit may name
    Corridors,           \* those a corridor is registered for at boot
    Assets,              \* assets with a registered cap
    Refs,                \* source references (transaction ids)
    Operators, Governors,           \* members of the two operator sets
    Threshold, GovThreshold,        \* configured thresholds
    ConfirmationDepth,   \* [Corridors -> Nat]
    AssetCap,            \* [Assets -> Nat]
    AssetEpochCap,       \* [Assets -> Nat], None where no cap is registered
    EpochCap,
    ExitDelay,
    ReserveMaxAge,       \* None when no reserve reports are required
    RESUME_WINDOW, RESUME_SKEW,
    WATCHDOG_MAX_WINDOW, WATCHDOG_COOLDOWN,
    EMERGENCY_FREEZE_MAX_WINDOW,
    MAX_PENDING_EXITS

None == -1
BASE_TIER == 1

ASSUME GatewayAssumption ==
    /\ Corridors \subseteq Chains
    /\ Threshold \in Nat /\ GovThreshold \in Nat
    /\ ConfirmationDepth \in [Corridors -> Nat]
    /\ AssetCap \in [Assets -> Nat]
    /\ AssetEpochCap \in [Assets -> Nat \cup {None}]
    /\ EpochCap \in Nat /\ ExitDelay \in Nat
    /\ ReserveMaxAge \in Nat \cup {None}
    /\ RESUME_WINDOW \in Nat /\ RESUME_SKEW \in Nat
    /\ WATCHDOG_MAX_WINDOW \in Nat /\ WATCHDOG_COOLDOWN \in Nat
    /\ EMERGENCY_FREEZE_MAX_WINDOW \in Nat
    /\ MAX_PENDING_EXITS \in Nat

Maybe(S) == S \cup {None}

CorridorConfig ==
    [confirmation_depth: Nat, quorum: Nat, tier: Nat, active: BOOLEAN]

ExitTicket == [exit_id: Nat, asset_id: Assets, amount: Nat, unlock_height: Nat]

GatewayState ==
    [used_refs: SUBSET (Chains \X Refs),
     per_asset_minted: [Assets -> Nat],
     escrowed: [Assets -> Maybe(Nat)],
     per_asset_epoch_minted: [Assets -> Nat],
     epoch_minted: Nat,
     current_epoch: Nat,
     corridors: [Corridors -> CorridorConfig],
     corridor_cursor: [Corridors -> Nat],
     paused_sources: SUBSET Chains,
     paused_since: [Chains -> Maybe(Nat)],
     resumed_at: [Chains -> Maybe(Nat)],
     watchdog_last: [Operators -> Maybe(Nat)],
     global_pause: BOOLEAN,
     global_paused_at: Nat,
     global_resumed_at: Nat,
     current_height: Nat,
     frozen_until: Nat,
     lifted_freeze: Nat,
     deposit_frozen_until: Nat,
     next_exit_id: Nat,
     pending_exits: SUBSET ExitTicket,
     reserve_reported_at: [Assets -> Maybe(Nat)],
     touched: BOOLEAN]

\* Gateway::new, then register_corridor for every corridor of the deployment.
NewGateway ==
    [used_refs |-> {},
     per_asset_minted |-> [a \in Assets |-> 0],
     escrowed |-> [a \in Assets |-> None],
     per_asset_epoch_minted |-> [a \in Assets |-> 0],
     epoch_minted |-> 0,
     current_epoch |-> 0,
     corridors |-> [c \in Corridors |->
         [confirmation_depth |-> ConfirmationDepth[c], quorum |-> 0,
          tier |-> BASE_TIER, active |-> TRUE]],
     corridor_cursor |-> [c \in Corridors |-> 0],
     paused_sources |-> {},
     paused_since |-> [c \in Chains |-> None],
     resumed_at |-> [c \in Chains |-> None],
     watchdog_last |-> [o \in Operators |-> None],
     global_pause |-> FALSE,
     global_paused_at |-> 0,
     global_resumed_at |-> 0,
     current_height |-> 0,
     frozen_until |-> 0,
     lifted_freeze |-> 0,
     deposit_frozen_until |-> 0,
     next_exit_id |-> 0,
     pending_exits |-> {},
     reserve_reported_at |-> [a \in Assets |-> None],
     touched |-> FALSE]

-----------------------------------------------------------------------------
(* Quorums *)

quorum_met(sigs) ==
    Cardinality(verified_quorum(sigs, Operators))
        >= quorum_need(Cardinality(Operators), Threshold)

governance_met(sigs) ==
    /\ Governors # {}
    /\ Cardinality(verified_quorum(sigs, Governors))
           >= quorum_need(Cardinality(Governors), GovThreshold)

corridor_quorum_met(g, c, sigs) ==
    Cardinality(verified_quorum(sigs, Operators))
        >= corridor_need(Cardinality(Operators), Threshold,
                         g.corridors[c].quorum)

-----------------------------------------------------------------------------
(* Time and epochs *)

advance_to(g, height) ==
    [g EXCEPT !.current_height = larger(height, @)]

advance_epoch_to(g, epoch) ==
    IF epoch > g.current_epoch
    THEN [g EXCEPT !.current_epoch = epoch,
                   !.epoch_minted = 0,
                   !.per_asset_epoch_minted = [a \in Assets |-> 0],
                   !.touched = TRUE]
    ELSE g

\* An order stamped at_height is neither ahead of the clock nor too old.
in_window(g, at_height, width) ==
    /\ at_height <= g.current_height + RESUME_SKEW
    /\ g.current_height <= at_height + width

-----------------------------------------------------------------------------
(* Freezes *)

freeze_horizon(g) ==
    IF g.lifted_freeze = g.frozen_until THEN 0 ELSE g.frozen_until

is_frozen(g) == g.current_height < freeze_horizon(g)

mint_freeze_horizon(g) == larger(freeze_horizon(g), g.deposit_frozen_until)

can_emergency_freeze(g, until_height, sigs) ==
    /\ until_height <= g.current_height + EMERGENCY_FREEZE_MAX_WINDOW
    /\ until_height > g.current_height
    /\ quorum_met(sigs)

\* Fault: a lifted horizon no longer counts, so an old order freezes again.
emergency_freeze_past_horizon(g, until_height) ==
    IF until_height > freeze_horizon(g)
    THEN [g EXCEPT !.frozen_until = until_height, !.lifted_freeze = 0,
                   !.touched = TRUE]
    ELSE g

\* An order that does not reach past the last horizon is accepted and does
\* nothing, also when that horizon has been lifted.
emergency_freeze(g, until_height) ==
    IF until_height > g.frozen_until
    THEN [g EXCEPT !.frozen_until = until_height, !.lifted_freeze = 0,
                   !.touched = TRUE]
    ELSE g

can_lift_freeze(g, frozen_until, sigs) ==
    /\ is_frozen(g)
    /\ frozen_until = g.frozen_until      \* the horizon the order signs
    /\ quorum_met(sigs)

lift_freeze(g) ==
    [g EXCEPT !.lifted_freeze = g.frozen_until, !.touched = TRUE]

\* Fault: no regard for the freeze another operator has just made.
can_watchdog_freeze_chained(g, sig, until_height) ==
    /\ g.current_height # 0
    /\ until_height > g.current_height
    /\ until_height <= g.current_height + WATCHDOG_MAX_WINDOW
    /\ sig.operator_id \in verified_quorum(<<sig>>, Operators)
    /\ \/ g.watchdog_last[sig.operator_id] = None
       \/ g.current_height
              >= g.watchdog_last[sig.operator_id] + WATCHDOG_COOLDOWN

\* One operator alone may stop deposits for a while.
can_watchdog_freeze(g, sig, until_height) ==
    /\ g.current_height # 0
    /\ until_height > g.current_height
    /\ until_height <= g.current_height + WATCHDOG_MAX_WINDOW
    /\ sig.operator_id \in verified_quorum(<<sig>>, Operators)
    /\ \/ g.watchdog_last[sig.operator_id] = None
       \/ g.current_height
              >= g.watchdog_last[sig.operator_id] + WATCHDOG_COOLDOWN
    /\ \/ g.deposit_frozen_until = 0
       \/ g.current_height >= g.deposit_frozen_until + WATCHDOG_MAX_WINDOW

watchdog_freeze(g, operator, until_height) ==
    LET marked == [g EXCEPT !.watchdog_last[operator] = g.current_height]
    IN IF until_height > g.deposit_frozen_until
       THEN [marked EXCEPT !.deposit_frozen_until = until_height,
                           !.touched = TRUE]
       ELSE marked

-----------------------------------------------------------------------------
(* Pauses *)

\* A pause that is already in force keeps the height it began at.
pause_all(g) ==
    [g EXCEPT !.global_pause = TRUE,
              !.global_paused_at = IF g.global_pause THEN @
                                                     ELSE g.current_height,
              !.touched = TRUE]

pending_exit_of(g, a) ==
    SumFunction([t \in {t \in g.pending_exits : t.asset_id = a} |-> t.amount])

\* Circulating plus locked in exits that are not final.
outstanding(g, a) == g.per_asset_minted[a] + pending_exit_of(g, a)

short_reserve(g) ==
    \E a \in Assets : outstanding(g, a) > larger(g.escrowed[a], 0)

\* Fault: a resume order is taken while custody is short.
check_unpause_short(g, at_height, sigs) ==
    /\ g.global_pause
    /\ at_height >= g.global_paused_at
    /\ at_height > g.global_resumed_at
    /\ in_window(g, at_height, RESUME_WINDOW)
    /\ quorum_met(sigs)

check_unpause(g, at_height, sigs) ==
    /\ g.global_pause
    /\ at_height >= g.global_paused_at
    /\ at_height > g.global_resumed_at
    /\ in_window(g, at_height, RESUME_WINDOW)
    /\ ~short_reserve(g)
    /\ quorum_met(sigs)

resume_all(g, at_height) ==
    [g EXCEPT !.global_pause = FALSE, !.global_resumed_at = at_height,
              !.touched = TRUE]

\* Fault: a report is not held against the last resume.
reorg_in_window(g, c, at_height) == in_window(g, at_height, RESUME_WINDOW)

reorg_fresh(g, c, at_height) ==
    /\ in_window(g, at_height, RESUME_WINDOW)
    /\ at_height > g.resumed_at[c]

can_report_reorg(g, c, at_height, sigs) ==
    reorg_fresh(g, c, at_height) /\ quorum_met(sigs)

report_reorg(g, c) ==
    [g EXCEPT !.paused_sources = @ \cup {c},
              !.paused_since[c] = IF @ = None THEN g.current_height ELSE @,
              !.touched = TRUE]

pause_source_direct(g, c) ==
    [g EXCEPT !.paused_sources = @ \cup {c}, !.touched = TRUE]

\* Fault: a pause without a date is taken to be from the beginning.
can_resume_source_undated(g, c, at_height, sigs) ==
    /\ c \in g.paused_sources
    /\ at_height >= g.paused_since[c]
    /\ in_window(g, at_height, RESUME_WINDOW)
    /\ at_height > g.resumed_at[c]
    /\ quorum_met(sigs)

can_resume_source(g, c, at_height, sigs) ==
    LET since == IF g.paused_since[c] = None THEN g.current_height
                                             ELSE g.paused_since[c]
    IN /\ c \in g.paused_sources
       /\ at_height >= since
       /\ in_window(g, at_height, RESUME_WINDOW)
       /\ at_height > g.resumed_at[c]
       /\ quorum_met(sigs)

resume_source(g, c, at_height) ==
    [g EXCEPT !.paused_sources = @ \ {c},
              !.paused_since[c] = None,
              !.resumed_at[c] = at_height,
              !.touched = TRUE]

-----------------------------------------------------------------------------
(* Corridors *)

check_tier(g, c, proposed, sigs) ==
    /\ governance_met(sigs)
    /\ c \in Corridors
    /\ proposed > g.corridors[c].tier

set_corridor_tier(g, c, proposed) ==
    [g EXCEPT !.corridors[c].tier = proposed, !.touched = TRUE]

set_corridor_active(g, c, active) ==
    IF c \in Corridors
    THEN [g EXCEPT !.corridors[c].active = active, !.touched = TRUE]
    ELSE g

can_set_corridor_quorum(c, quorum) ==
    /\ quorum >= 2 /\ quorum <= Cardinality(Operators)
    /\ quorum * 3 > Cardinality(Operators) * 2
    /\ c \in Corridors

set_corridor_quorum(g, c, quorum) ==
    [g EXCEPT !.corridors[c].quorum = quorum, !.touched = TRUE]

can_accept_batch(g, c, batch_index, sigs) ==
    /\ c \in Corridors
    /\ g.corridors[c].active
    /\ corridor_quorum_met(g, c, sigs)
    /\ batch_index = g.corridor_cursor[c]

accept_batch(g, c) ==
    [g EXCEPT !.corridor_cursor[c] = @ + 1, !.touched = TRUE]

-----------------------------------------------------------------------------
(* Reserves *)

reserve_is_fresh(g, a) ==
    \/ ReserveMaxAge = None
    \/ /\ g.reserve_reported_at[a] # None
       /\ g.current_height <= g.reserve_reported_at[a] + ReserveMaxAge

check_reserve(g, a, at_height, sigs) ==
    /\ ReserveMaxAge # None
    /\ a \in Assets
    /\ g.current_height # 0
    /\ in_window(g, at_height, ReserveMaxAge)
    /\ at_height > g.reserve_reported_at[a]
    /\ quorum_met(sigs)

\* A report below the supply trips the breaker in the same call.
attest_reserve(g, a, escrowed, at_height) ==
    LET told == [g EXCEPT !.escrowed[a] = escrowed,
                          !.reserve_reported_at[a] = at_height]
    IN IF outstanding(g, a) > escrowed THEN pause_all(told) ELSE told

set_escrow(g, a, escrowed) == [g EXCEPT !.escrowed[a] = escrowed]

-----------------------------------------------------------------------------
(* Mints.  A deposit d is the fact of a foreign deposit with the evidence  *)
(* it came with: route "proof" for a light-client proof, "quorum" for      *)
(* operator signatures.                                                    *)

charge_asset_escrow(g, a, amount) ==
    /\ reserve_is_fresh(g, a)
    /\ \/ g.escrowed[a] = None
       \/ outstanding(g, a) + amount <= g.escrowed[a]

charge_asset_epoch(g, a, amount) ==
    /\ charge_asset_escrow(g, a, amount)
    /\ \/ AssetEpochCap[a] = None
       \/ g.per_asset_epoch_minted[a] + amount <= AssetEpochCap[a]

\* Fault: a reference that was used is not refused.
within_budget_again(g, d) ==
    /\ d.asset_id \in Assets
    /\ outstanding(g, d.asset_id) + d.amount <= AssetCap[d.asset_id]
    /\ g.epoch_minted + d.amount <= EpochCap
    /\ charge_asset_epoch(g, d.asset_id, d.amount)

\* Fault: what is locked in exits does not count under the cap.
within_budget_circulating(g, d) ==
    /\ <<d.source_chain, d.source_ref>> \notin g.used_refs
    /\ d.asset_id \in Assets
    /\ g.per_asset_minted[d.asset_id] + d.amount <= AssetCap[d.asset_id]
    /\ g.epoch_minted + d.amount <= EpochCap
    /\ charge_asset_epoch(g, d.asset_id, d.amount)

\* The budget and replay checks that both routes make.
within_budget(g, d) ==
    /\ <<d.source_chain, d.source_ref>> \notin g.used_refs
    /\ d.asset_id \in Assets
    /\ outstanding(g, d.asset_id) + d.amount <= AssetCap[d.asset_id]
    /\ g.epoch_minted + d.amount <= EpochCap
    /\ charge_asset_epoch(g, d.asset_id, d.amount)

\* The halts that stop every mint from a source.
mint_open(g, c) ==
    /\ ~g.global_pause
    /\ g.current_height >= mint_freeze_horizon(g)
    /\ c \notin g.paused_sources
    /\ c \in Corridors
    /\ g.corridors[c].active

precheck_trustless(g, d) ==
    /\ mint_open(g, d.source_chain)
    /\ within_budget(g, d)

\* d.valid: the fact decodes, is a deposit, and names this chain.
precheck_deposit(g, d) ==
    /\ mint_open(g, d.source_chain)
    /\ d.valid
    /\ g.current_height <= d.expiry_height
    /\ d.finality_depth >= g.corridors[d.source_chain].confirmation_depth
    /\ corridor_need(Cardinality(Operators), Threshold,
                     g.corridors[d.source_chain].quorum)
           <= Cardinality(Operators)
    /\ corridor_quorum_met(g, d.source_chain, d.sigs)

record_mint(g, d) ==
    [g EXCEPT !.used_refs = @ \cup {<<d.source_chain, d.source_ref>>},
              !.per_asset_minted[d.asset_id] = @ + d.amount,
              !.epoch_minted = @ + d.amount,
              !.per_asset_epoch_minted[d.asset_id] = @ + d.amount,
              !.touched = TRUE]

can_admit_trustless(g, d) == precheck_trustless(g, d)

admit_trustless(g, d) == record_mint(g, d)

can_process_deposit(g, d) == precheck_deposit(g, d) /\ within_budget(g, d)

process_deposit(g, d) == record_mint(g, d)

-----------------------------------------------------------------------------
(* Exits through the gateway *)

can_request_exit(g, a, amount) ==
    /\ amount # 0
    /\ Cardinality(g.pending_exits) < MAX_PENDING_EXITS
    /\ amount <= g.per_asset_minted[a]

request_exit(g, a, amount) ==
    [g EXCEPT !.per_asset_minted[a] = @ - amount,
              !.next_exit_id = @ + 1,
              !.pending_exits = @ \cup
                  {[exit_id |-> g.next_exit_id, asset_id |-> a,
                    amount |-> amount,
                    unlock_height |-> g.current_height + ExitDelay]},
              !.touched = TRUE]

can_finalize_exit(g, t) ==
    /\ ~g.global_pause
    /\ ~is_frozen(g)
    /\ t \in g.pending_exits
    /\ g.current_height >= t.unlock_height

finalize_exit(g, t) ==
    [g EXCEPT !.pending_exits = @ \ {t}, !.touched = TRUE]

cancel_exit(g, t) ==
    [g EXCEPT !.pending_exits = @ \ {t},
              !.per_asset_minted[t.asset_id] = @ + t.amount,
              !.touched = TRUE]

-----------------------------------------------------------------------------
(* Snapshot *)

\* Faults: a field is left out of the encoding.
encode_without_height(g) ==
    [g EXCEPT !.paused_since = [c \in Chains |-> None], !.touched = FALSE,
              !.current_height = 0]

encode_without_epoch_minted(g) ==
    [g EXCEPT !.paused_since = [c \in Chains |-> None], !.touched = FALSE,
              !.epoch_minted = 0]

encode_without_exit_id(g) ==
    [g EXCEPT !.paused_since = [c \in Chains |-> None], !.touched = FALSE,
              !.next_exit_id = 0]

\* paused_since is not part of the encoding, nor is the revision.
encode_guard(g) ==
    [g EXCEPT !.paused_since = [c \in Chains |-> None], !.touched = FALSE]

\* Fault: a pause that comes from a snapshot has no date.
rehydrate_undated(g, s) ==
    [s EXCEPT
        !.current_height = larger(g.current_height, @),
        !.paused_since = [c \in Chains |->
            IF c \in s.paused_sources THEN 0 ELSE None],
        !.touched = g.touched]

(***************************************************************************)
(* Everything comes from the snapshot s except the clock, which never goes *)
(* back, the corridor settings, where the stricter value wins, and         *)
(* paused_since, which is rebuilt from the height of the snapshot.         *)
(***************************************************************************)
rehydrate_guard(g, s) ==
    [s EXCEPT
        !.current_height = larger(g.current_height, @),
        !.paused_since = [c \in Chains |->
            IF c \in s.paused_sources THEN s.current_height ELSE None],
        !.corridors = [c \in Corridors |->
            [confirmation_depth |-> larger(g.corridors[c].confirmation_depth,
                                           s.corridors[c].confirmation_depth),
             quorum |-> larger(g.corridors[c].quorum, s.corridors[c].quorum),
             tier |-> larger(g.corridors[c].tier, s.corridors[c].tier),
             active |-> g.corridors[c].active /\ s.corridors[c].active]],
        !.touched = g.touched]
=============================================================================
