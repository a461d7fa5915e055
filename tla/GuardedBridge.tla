--------------------------- MODULE GuardedBridge ---------------------------
(***************************************************************************)
(* The oracle daemon of q-runtime: one Gateway behind a lock, the snapshot *)
(* of it on disk, and the threads that use them: HTTP handlers (http.rs),  *)
(* the chain clock (clock.rs) and the reserve watch (reserve.rs).          *)
(*                                                                         *)
(* An action is one critical section of the lock with the write to disk    *)
(* that it makes before it lets go.  A deposit takes two: it is prepared   *)
(* under the read lock and committed under the write lock, and anything    *)
(* may happen in between.  A save can fail before or after its rename, and *)
(* the process can stop at any moment; a crash inside a critical section   *)
(* is a failed save followed by Restart.                                   *)
(*                                                                         *)
(* Orders and Deposits are the requests that clients may send, as often as *)
(* they like: a replay is the same member again.                           *)
(***************************************************************************)
EXTENDS Gateway

CONSTANTS
    Orders,          \* [kind, target, mark, sigs]: the signed orders
    Deposits,        \* deposit facts with their evidence
    Reports,         \* [asset_id, escrowed, at_height, sigs]: reserve reports
    StaticReserves,  \* [Assets -> Nat], the configured reserve figures
    MaxInFlight,     \* bound on identical deposit requests in flight
    MaxHeight, MaxEpoch     \* bounds on the chain's head and epoch

\* What the decoders of the requests let through: heights, tiers and
\* amounts are unsigned integers, and a global order has no target.
ASSUME BridgeAssumption ==
    /\ \A o \in Orders :
           /\ o.mark \in Nat
           /\ o.kind \in {"ReportReorg", "ResumeSource"} => o.target \in Chains
           /\ o.kind \in {"ResumeAll", "EmergencyFreeze"} => o.target = None
    /\ \A d \in Deposits :
           d.source_chain \in Chains /\ d.source_ref \in Refs /\ d.amount \in Nat
    /\ \A r \in Reports : r.escrowed \in Nat /\ r.at_height \in Nat
    /\ StaticReserves \in [Assets -> Nat]
    /\ MaxInFlight \in Nat /\ MaxHeight \in Nat /\ MaxEpoch \in Nat

VARIABLES
    gw,          \* the gateway in memory
    disk,        \* what the last completed rename left in the snapshot file
    pending,     \* gateway.admin_records is not empty
    prepared,    \* deposit requests between prepare and commit, counted
    granted,     \* history: orders the daemon has answered with success
    regranted,   \* history: those it has answered so more than once
    ledger,      \* history: mints it has answered with success
    began        \* history: height at which a source's pause took effect

vars == <<gw, disk, pending, prepared, granted, regranted, ledger, began>>

-----------------------------------------------------------------------------
(* Boot *)

\* boot: every pool is installed with an escrow of 0.
Booted == [NewGateway EXCEPT !.escrowed = [a \in Assets |-> 0]]

\* A static figure counts only until the first signed report.
apply_reserves(g) ==
    [g EXCEPT !.escrowed = [a \in Assets |->
        IF g.reserve_reported_at[a] = None THEN StaticReserves[a] ELSE @[a]]]

\* Fault: the daemon comes up without its snapshot.
restore_nothing(snapshot) == apply_reserves(Booted)

restore_into(snapshot) ==
    apply_reserves([rehydrate_guard(Booted, snapshot) EXCEPT !.touched = FALSE])

\* The first boot saves the empty guard before it reads the static figures.
Init ==
    /\ gw = apply_reserves(Booted)
    /\ disk = encode_guard(Booted)
    /\ pending = FALSE
    /\ prepared = [d \in Deposits |-> 0]
    /\ granted = {}
    /\ regranted = {}
    /\ ledger = {}
    /\ began = [c \in Chains |-> None]

-----------------------------------------------------------------------------
(* Answering a request *)

\* Every step carries the height at which the pauses now in force began.
Dated ==
    began' = [c \in Chains |->
        IF c \notin gw'.paused_sources THEN None
        ELSE IF c \in gw.paused_sources THEN began[c]
        ELSE gw'.current_height]

Quiet(g) == [g EXCEPT !.touched = FALSE]

\* rehydrate_guard of the copy taken when the request began; it also drops
\* the administrative records that were waiting for the audit log.
RollBack(n) ==
    /\ gw' = Quiet(rehydrate_guard(n, encode_guard(gw)))
    /\ disk' \in {disk, encode_guard(n)}
    /\ pending' = FALSE
    /\ UNCHANGED <<granted, regranted, ledger>>

\* Nothing is written when the request neither touched the guard nor left
\* an administrative record, its own or an older one, to be logged.
persist_if_advanced(n, logged, tokens) ==
    LET written == n.touched \/ logged \/ pending IN
    /\ \/ /\ gw' = Quiet(n)
          /\ disk' = IF written THEN encode_guard(n) ELSE disk
          /\ pending' = FALSE
          /\ granted' = granted \cup tokens
          /\ regranted' = regranted \cup (granted \cap tokens)
          /\ UNCHANGED ledger
       \/ written /\ RollBack(n)
    /\ UNCHANGED prepared
    /\ Dated

\* An order takes effect under the token that identifies its message.
Token(o) == <<o.kind, o.target, o.mark>>

Order(kind) == {o \in Orders : o.kind = kind}

-----------------------------------------------------------------------------
(* Orders *)

\* The report counts as a grant when it is what stops the source.  One that
\* is dated ahead of the clock goes by a token of its own.
ReportReorg(o) ==
    /\ can_report_reorg(gw, o.target, o.mark, o.sigs)
    /\ LET new == o.target \notin gw.paused_sources
           name == IF o.mark > gw.current_height THEN "EarlyReorg" ELSE o.kind
       IN persist_if_advanced(report_reorg(gw, o.target), new,
              IF new THEN {<<name, o.target, o.mark>>} ELSE {})

ResumeSource(o) ==
    /\ can_resume_source(gw, o.target, o.mark, o.sigs)
    /\ persist_if_advanced(resume_source(gw, o.target, o.mark), TRUE,
                           {Token(o)})

ResumeAll(o) ==
    /\ check_unpause(gw, o.mark, o.sigs)
    /\ persist_if_advanced(resume_all(gw, o.mark), TRUE, {Token(o)})

EmergencyFreeze(o) ==
    /\ can_emergency_freeze(gw, o.mark, o.sigs)
    /\ LET new == o.mark > gw.frozen_until
       IN persist_if_advanced(emergency_freeze(gw, o.mark), new,
              IF new THEN {Token(o)} ELSE {})

WatchdogFreeze(o) ==
    /\ can_watchdog_freeze(gw, o.sigs[1], o.mark)
    /\ persist_if_advanced(
           watchdog_freeze(gw, o.sigs[1].operator_id, o.mark), TRUE,
           {<<o.kind, o.sigs[1].operator_id, o.mark>>})

SetCorridorTier(o) ==
    /\ check_tier(gw, o.target, o.mark, o.sigs)
    /\ persist_if_advanced(set_corridor_tier(gw, o.target, o.mark), TRUE,
                           {Token(o)})

\* A request that handle refuses still writes the records that are waiting.
RefusedRequest == pending /\ persist_if_advanced(gw, FALSE, {})

-----------------------------------------------------------------------------
(* Deposits *)

prepare_deposit(d) ==
    /\ prepared[d] < MaxInFlight
    /\ IF d.route = "proof" THEN precheck_trustless(gw, d)
                            ELSE precheck_deposit(gw, d)
    /\ prepared' = [prepared EXCEPT ![d] = @ + 1]
    /\ UNCHANGED <<gw, disk, pending, granted, regranted, ledger, began>>

\* A request that fails its proof, finds no proof slot, or panics.
DropDeposit(d) ==
    /\ prepared[d] > 0
    /\ prepared' = [prepared EXCEPT ![d] = @ - 1]
    /\ UNCHANGED <<gw, disk, pending, granted, regranted, ledger, began>>

\* Fault: the halts are looked at when the deposit is prepared only.
can_commit_prepared(g, d) == within_budget(g, d)

\* Every check is made again, on the gateway as it is now.
can_commit_deposit(g, d) ==
    IF d.route = "proof" THEN can_admit_trustless(g, d)
                         ELSE d.independent /\ can_process_deposit(g, d)

Minted(d) ==
    [source_chain |-> d.source_chain, source_ref |-> d.source_ref,
     asset_id |-> d.asset_id, amount |-> d.amount,
     epoch |-> gw.current_epoch]

\* commit_deposit, then persist_or_rollback: one attempt at the save, and
\* the records waiting for the audit log stay where they are.
CommitDeposit(d) ==
    /\ prepared[d] > 0
    /\ can_commit_deposit(gw, d)
    /\ prepared' = [prepared EXCEPT ![d] = @ - 1]
    /\ LET n == IF d.route = "proof" THEN admit_trustless(gw, d)
                                     ELSE process_deposit(gw, d)
           token == <<"Mint", d.source_chain, d.source_ref>>
       IN \/ /\ gw' = Quiet(n)
             /\ disk' = encode_guard(n)
             /\ granted' = granted \cup {token}
             /\ regranted' = regranted \cup (granted \cap {token})
             /\ ledger' = ledger \cup {Minted(d)}
             /\ UNCHANGED pending
          \/ RollBack(n)
    /\ Dated

-----------------------------------------------------------------------------
(* The other threads *)

\* ChainClock::tick.  What the head may be is the clock's own business; the
\* gateway takes any head that is not behind it, and nothing is saved.
ClockTick(height, epoch) ==
    /\ gw' = Quiet(advance_epoch_to(advance_to(gw, height), epoch))
    /\ gw' # gw
    /\ UNCHANGED <<disk, pending, prepared, granted, regranted, ledger>>
    /\ Dated

\* apply_reserve_reports, one report.  It is not saved by itself.
ReserveReport(r) ==
    /\ check_reserve(gw, r.asset_id, r.at_height, r.sigs)
    /\ gw' = Quiet(attest_reserve(gw, r.asset_id, r.escrowed, r.at_height))
    /\ pending' = TRUE
    /\ UNCHANGED <<disk, prepared, granted, regranted, ledger>>
    /\ Dated

\* Watchtower::enforce on the escrow figures the gateway holds.
enforce_reserves(g) == IF short_reserve(g) THEN pause_all(g) ELSE g

\* Fault: the tick leaves the breaker to the reports it has just read.
ReserveTickUnenforced(recorded, saved) ==
    /\ ReserveMaxAge # None
    /\ pending' = (pending /\ ~recorded)
    /\ IF pending /\ recorded
       THEN IF saved THEN disk' = encode_guard(gw)
                     ELSE disk' \in {disk, encode_guard(gw)}
       ELSE UNCHANGED disk
    /\ UNCHANGED <<gw, prepared, granted, regranted, ledger, began>>

(***************************************************************************)
(* The rest of a reserve tick.  recorded: record_admin wrote the waiting   *)
(* records; saved: the one save succeeded.  Neither failure undoes what is *)
(* in memory.                                                              *)
(***************************************************************************)
ReserveTick(recorded, saved) ==
    LET n == enforce_reserves(gw)
        logs == pending /\ recorded
        writes == logs \/ short_reserve(gw)
    IN /\ ReserveMaxAge # None
       /\ gw' = Quiet(n)
       /\ pending' = (pending /\ ~recorded)
       /\ IF writes
          THEN IF saved THEN disk' = encode_guard(n)
                        ELSE disk' \in {disk, encode_guard(n)}
          ELSE UNCHANGED disk
       /\ UNCHANGED <<prepared, granted, regranted, ledger>>
       /\ Dated

\* The process stops and run() brings it up again on the snapshot.
Restart ==
    /\ gw' = restore_into(disk)
    /\ pending' = FALSE
    /\ prepared' = [d \in Deposits |-> 0]
    /\ UNCHANGED <<disk, granted, regranted, ledger>>
    /\ Dated

-----------------------------------------------------------------------------
Next ==
    \/ \E o \in Order("ReportReorg") : ReportReorg(o)
    \/ \E o \in Order("ResumeSource") : ResumeSource(o)
    \/ \E o \in Order("ResumeAll") : ResumeAll(o)
    \/ \E o \in Order("EmergencyFreeze") : EmergencyFreeze(o)
    \/ \E o \in Order("WatchdogFreeze") : WatchdogFreeze(o)
    \/ \E o \in Order("SetCorridorTier") : SetCorridorTier(o)
    \/ RefusedRequest
    \/ \E d \in Deposits :
           prepare_deposit(d) \/ DropDeposit(d) \/ CommitDeposit(d)
    \/ \E h \in 1..MaxHeight, e \in 0..MaxEpoch : ClockTick(h, e)
    \/ \E r \in Reports : ReserveReport(r)
    \/ \E recorded, saved \in BOOLEAN : ReserveTick(recorded, saved)
    \/ Restart

Spec == Init /\ [][Next]_vars

(***************************************************************************)
(* The reserve watch ticks for as long as the process runs (ReserveWatch   *)
(* spawn), and the disk does not fail for ever.  Nothing is assumed of the *)
(* clients, of the clock or of Restart.                                    *)
(***************************************************************************)
FairSpec == Spec /\ WF_vars(ReserveTick(TRUE, TRUE))

-----------------------------------------------------------------------------
(* Properties *)

Tokens ==
    ({"ReportReorg", "EarlyReorg", "ResumeSource"} \X Chains \X Nat)
    \cup ({"SetCorridorTier"} \X Corridors \X Nat)
    \cup ({"WatchdogFreeze"} \X Operators \X Nat)
    \cup ({"ResumeAll", "EmergencyFreeze"} \X {None} \X Nat)
    \cup ({"Mint"} \X Chains \X Refs)

\* The types of the daemon's state (struct Gateway and the guard snapshot).
TypeOK ==
    /\ gw \in GatewayState /\ ~gw.touched
    /\ disk \in GatewayState /\ ~disk.touched
    /\ pending \in BOOLEAN
    /\ prepared \in [Deposits -> Nat]
    /\ granted \subseteq Tokens
    /\ regranted \subseteq granted
    /\ ledger \subseteq [source_chain: Chains, source_ref: Refs,
                         asset_id: Assets, amount: Nat, epoch: Nat]
    /\ began \in [Chains -> Maybe(Nat)]

\* The gateway g still knows of the order or mint that t stands for.
Remembers(g, t) ==
    /\ t[1] = "Mint" => <<t[2], t[3]>> \in g.used_refs
    /\ t[1] = "ReportReorg" =>
           t[2] \in g.paused_sources \/ t[3] <= g.resumed_at[t[2]]
    /\ t[1] = "ResumeSource" => t[3] <= g.resumed_at[t[2]]
    /\ t[1] = "ResumeAll" => t[3] <= g.global_resumed_at
    /\ t[1] = "EmergencyFreeze" => t[3] <= g.frozen_until
    /\ t[1] = "WatchdogFreeze" => t[3] <= g.deposit_frozen_until
    /\ t[1] = "SetCorridorTier" => t[3] <= g.corridors[t[2]].tier

(***************************************************************************)
(* A request that was answered with success is never lost: the mint's      *)
(* reference stays used, the pause stays in force until a newer resume,    *)
(* the resume stays the newest, the horizon and the tier stay reached, in  *)
(* memory and on disk, whatever saves fail and however often the daemon    *)
(* restarts (http.rs persist_if_advanced, watch.rs persist_or_rollback,    *)
(* gateway.rs rehydrate_guard).                                            *)
(***************************************************************************)
AckedIsDurable ==
    \A t \in granted : Remembers(gw, t) /\ Remembers(disk, t)

(***************************************************************************)
(* The same signed order or the same deposit takes effect at most once,    *)
(* across failed saves, retries and restarts.  The one exception is a      *)
(* reorg report that was dated ahead of the clock when it was accepted     *)
(* (gateway.rs reorg_fresh, resume_source, check_unpause, used_refs).      *)
(***************************************************************************)
OrdersTakeEffectOnce ==
    \A t \in regranted : t[1] = "EarlyReorg"

\* The marks an order is compared with are within reach of the clock.
InReach(g) ==
    /\ g.global_paused_at <= g.current_height
    /\ g.global_resumed_at <= g.current_height + RESUME_SKEW
    /\ g.frozen_until <= g.current_height + EMERGENCY_FREEZE_MAX_WINDOW
    /\ g.deposit_frozen_until <= g.current_height + WATCHDOG_MAX_WINDOW
    /\ \A c \in Chains :
           /\ g.paused_since[c] <= g.current_height
           /\ g.resumed_at[c] <= g.current_height + RESUME_SKEW
    /\ \A o \in Operators : g.watchdog_last[o] <= g.current_height
    /\ \A a \in Assets :
           g.reserve_reported_at[a] <= g.current_height + RESUME_SKEW

(***************************************************************************)
(* Nobody is locked out: no stored height is further ahead of the clock    *)
(* than the window of the order that set it, so every kind of order can be *)
(* given again after a wait of known length.  It has to hold of the        *)
(* snapshot too, for a restart takes the clock back to the saved height    *)
(* (gateway.rs encode_guard and rehydrate_guard).                          *)
(***************************************************************************)
NoLockout == InReach(gw) /\ InReach(disk)

(***************************************************************************)
(* A source that is paused can only be resumed by an order dated at or     *)
(* after the pause: paused_since is not saved, and what rehydrate_guard    *)
(* puts in its place is never earlier than the pause itself.               *)
(***************************************************************************)
PauseDateSurvives ==
    \A c \in gw.paused_sources :
        gw.paused_since[c] # None /\ gw.paused_since[c] >= began[c]

(***************************************************************************)
(* Operators acting alone cannot keep deposits stopped: between the end of *)
(* one watchdog freeze and the end of the next lies more than the widest   *)
(* window, and one operator's freezes are a cooldown apart                 *)
(* (gateway.rs watchdog_freeze).                                           *)
(***************************************************************************)
WatchdogsLeaveGaps ==
    \A s, t \in {u \in granted : u[1] = "WatchdogFreeze"} :
        s # t /\ s[3] <= t[3] =>
            /\ s[3] + WATCHDOG_MAX_WINDOW < t[3]
            /\ s[2] = t[2] =>
                   s[3] + WATCHDOG_COOLDOWN < t[3] + WATCHDOG_MAX_WINDOW

\* The supply of an asset is within its escrow or the gateway is paused.
SolventOrHalted(g) ==
    g.global_pause \/ \A a \in Assets : outstanding(g, a) <= g.escrowed[a]

(***************************************************************************)
(* The gateway never runs on with less custody than supply: the breaker    *)
(* trips in the step that learns of the shortfall, no resume order lifts   *)
(* the pause while it lasts, and a restart brings back either the pause or *)
(* the solvent figures (gateway.rs attest_reserve, check_unpause).         *)
(***************************************************************************)
SolventOrPaused == SolventOrHalted(gw) /\ SolventOrHalted(disk)

MintedOf(a) ==
    SumFunction([m \in {m \in ledger : m.asset_id = a} |-> m.amount])

MintedIn(e) ==
    SumFunction([m \in {m \in ledger : m.epoch = e} |-> m.amount])

(***************************************************************************)
(* No reference is minted twice, although two requests for it may both be  *)
(* prepared before either commits or be sent again after a restart; and    *)
(* the mints that were answered with success add up to no more than the    *)
(* caps, counted over the daemon's whole history and not over what one     *)
(* process remembers (endpoints.rs commit_deposit; gateway.rs used_refs,   *)
(* precheck_trustless, process_deposit).                                   *)
(***************************************************************************)
SupplyWithinCap ==
    /\ \A t \in regranted : t[1] # "Mint"
    /\ \A a \in Assets : MintedOf(a) <= AssetCap[a]

\* In one epoch no more is minted than the epoch cap allows, although the
\* epoch is only saved along with some other change (clock.rs tick).
EpochBudget == \A m \in ledger : MintedIn(m.epoch) <= EpochCap

(***************************************************************************)
(* A mint is only ever granted by a gateway that is open for its source at *)
(* that moment: a pause, a freeze or a closed corridor that arrives after  *)
(* the deposit was prepared still stops it (endpoints.rs commit_deposit).  *)
(***************************************************************************)
NoMintWhileHalted ==
    [][\A m \in ledger' \ ledger : mint_open(gw, m.source_chain)]_vars

(***************************************************************************)
(* A shortfall reaches the disk: for as long as the custody stays short,   *)
(* the pause is saved sooner or later, although a tick whose record or     *)
(* save failed is not retried by itself and a request that fails to save   *)
(* drops the record the next tick would have written (reserve.rs tick).    *)
(***************************************************************************)
BreakerIsSaved ==
    short_reserve(gw) ~> (disk.global_pause \/ ~short_reserve(gw))

(***************************************************************************)
(* tests/proofs.rs: "a_reorg_report_cannot_be_replayed_after_the_resume_   *)
(* it_preceded".  No report stops a source twice.                          *)
(***************************************************************************)
ReorgReportsNotReplayed ==
    \A t \in regranted : t[1] \notin {"ReportReorg", "EarlyReorg"}
=============================================================================
