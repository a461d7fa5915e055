---------------------------- MODULE GatewayHost ----------------------------
(***************************************************************************)
(* A program that uses the q-gateway crate: it calls the public methods of *)
(* one Gateway in any order and, at any moment, stores the gateway and     *)
(* loads it into a new one.  This is the whole interface of the crate, the *)
(* exits, batches, lifts and corridor settings that the daemon does not    *)
(* serve included; GuardedBridge has the daemon's requests, its threads    *)
(* and its disk.                                                           *)
(*                                                                         *)
(* Several hosts are described by Hosts, and a behaviour has one of them.   *)
(* Orders and deposits are as in GuardedBridge.                            *)
(***************************************************************************)
EXTENDS Gateway

CONSTANTS
    Hosts,           \* by name, the requests a host may make:
                     \*   orders       [kind, target, mark, sigs], signed
                     \*   deposits     deposit facts with their evidence
                     \*   calls        calls that need no order
                     \*   amounts      amounts to take out
                     \*   epochs       epochs it moves to
                     \*   policy       of its watchtower, the deepest fork it
                     \*                lets pass, by chain; partial
    ForkDepths,      \* depths of the forks a watchtower may see
    MaxHeight, MaxExits, MaxBatches   \* bounds of the instance

ASSUME HostAssumption ==
    /\ IsFiniteSet(Operators) /\ Operators # {}
    /\ MaxHeight \in Nat /\ MaxExits \in Nat /\ MaxBatches \in Nat
    /\ \A h \in DOMAIN Hosts :
          /\ \A o \in Hosts[h].orders :
                /\ o.mark \in Nat
                /\ o.kind \in {"ReportReorg", "ResumeSource"} => o.target \in Chains
          /\ \A d \in Hosts[h].deposits :
                /\ d.amount \in Nat
                /\ d.source_chain \in Chains /\ d.source_ref \in Refs
          /\ Hosts[h].amounts \subseteq Nat /\ Hosts[h].epochs \subseteq Nat
          /\ DOMAIN Hosts[h].policy \subseteq Chains

VARIABLES
    host,        \* name of the host
    gw,          \* the gateway
    deposited,   \* history: amount minted by asset
    released,    \* history: amount paid out by finalized exits, by asset
    closed,      \* history: ids of the exits finalized or cancelled
    lifted,      \* history: freeze horizons that a quorum has lifted
    began,       \* history: height at which a source's pause took effect
    signers      \* history: signers of the last batch or attested deposit

vars == <<host, gw, deposited, released, closed, lifted, began, signers>>

Init ==
    /\ host \in DOMAIN Hosts
    /\ gw = NewGateway
    /\ deposited = [a \in Assets |-> 0]
    /\ released = [a \in Assets |-> 0]
    /\ closed = {}
    /\ lifted = {}
    /\ began = [c \in Chains |-> None]
    /\ signers = Operators

\* The gateway becomes n, and pauses that are new began at its height.
Becomes(n) ==
    /\ gw' = [n EXCEPT !.touched = FALSE]
    /\ began' = [c \in Chains |->
          IF c \notin n.paused_sources THEN None
          ELSE IF c \in gw.paused_sources THEN began[c]
          ELSE n.current_height]
    /\ UNCHANGED host

Order(kind) == {o \in Hosts[host].orders : o.kind = kind}

-----------------------------------------------------------------------------
(* Mints and exits *)

Mint(d) ==
    /\ IF d.route = "proof" THEN can_admit_trustless(gw, d)
                            ELSE can_process_deposit(gw, d)
    /\ Becomes(IF d.route = "proof" THEN admit_trustless(gw, d)
                                    ELSE process_deposit(gw, d))
    /\ deposited' = [deposited EXCEPT ![d.asset_id] = @ + d.amount]
    /\ signers' = IF d.route = "proof" THEN signers
                  ELSE verified_quorum(d.sigs, Operators)
    /\ UNCHANGED <<released, closed, lifted>>

RequestExit(a, amount) ==
    /\ gw.next_exit_id < MaxExits
    /\ can_request_exit(gw, a, amount)
    /\ Becomes(request_exit(gw, a, amount))
    /\ UNCHANGED <<deposited, released, closed, lifted, signers>>

FinalizeExit(t) ==
    /\ can_finalize_exit(gw, t)
    /\ Becomes(finalize_exit(gw, t))
    /\ released' = [released EXCEPT ![t.asset_id] = @ + t.amount]
    /\ closed' = closed \cup {t.exit_id}
    /\ UNCHANGED <<deposited, lifted, signers>>

CancelExit(t) ==
    /\ Becomes(cancel_exit(gw, t))
    /\ closed' = closed \cup {t.exit_id}
    /\ UNCHANGED <<deposited, released, lifted, signers>>

-----------------------------------------------------------------------------
(* Halts *)

EmergencyFreeze(o) ==
    /\ can_emergency_freeze(gw, o.mark, o.sigs)
    /\ Becomes(emergency_freeze(gw, o.mark))
    /\ UNCHANGED <<deposited, released, closed, lifted, signers>>

LiftFreeze(o) ==
    /\ can_lift_freeze(gw, o.mark, o.sigs)
    /\ Becomes(lift_freeze(gw))
    /\ lifted' = lifted \cup {gw.frozen_until}
    /\ UNCHANGED <<deposited, released, closed, signers>>

PauseAll ==
    /\ Becomes(pause_all(gw))
    /\ UNCHANGED <<deposited, released, closed, lifted, signers>>

ResumeAll(o) ==
    /\ check_unpause(gw, o.mark, o.sigs)
    /\ Becomes(resume_all(gw, o.mark))
    /\ UNCHANGED <<deposited, released, closed, lifted, signers>>

ReportReorg(o) ==
    /\ can_report_reorg(gw, o.target, o.mark, o.sigs)
    /\ Becomes(report_reorg(gw, o.target))
    /\ UNCHANGED <<deposited, released, closed, lifted, signers>>

\* ReorgWatcher::observe: a watchtower that sees a fork deeper than its
\* policy pauses the source without any order.
Observe(c, fork_depth) ==
    /\ fork_depth > Hosts[host].policy[c]
    /\ Becomes(pause_source_direct(gw, c))
    /\ UNCHANGED <<deposited, released, closed, lifted, signers>>

ResumeSource(o) ==
    /\ can_resume_source(gw, o.target, o.mark, o.sigs)
    /\ Becomes(resume_source(gw, o.target, o.mark))
    /\ UNCHANGED <<deposited, released, closed, lifted, signers>>

-----------------------------------------------------------------------------
(* Corridors *)

AcceptBatch(o) ==
    /\ gw.corridor_cursor[o.target] < MaxBatches
    /\ can_accept_batch(gw, o.target, o.mark, o.sigs)
    /\ Becomes(accept_batch(gw, o.target))
    /\ signers' = verified_quorum(o.sigs, Operators)
    /\ UNCHANGED <<deposited, released, closed, lifted>>

SetCorridorActive(c, active) ==
    /\ Becomes(set_corridor_active(gw, c, active))
    /\ UNCHANGED <<deposited, released, closed, lifted, signers>>

SetCorridorQuorum(c, quorum) ==
    /\ can_set_corridor_quorum(c, quorum)
    /\ Becomes(set_corridor_quorum(gw, c, quorum))
    /\ UNCHANGED <<deposited, released, closed, lifted, signers>>

-----------------------------------------------------------------------------
(* Time and storage *)

AdvanceTo(height) ==
    /\ height > gw.current_height
    /\ Becomes(advance_to(gw, height))
    /\ UNCHANGED <<deposited, released, closed, lifted, signers>>

AdvanceEpochTo(epoch) ==
    /\ epoch > gw.current_epoch
    /\ Becomes(advance_epoch_to(gw, epoch))
    /\ UNCHANGED <<deposited, released, closed, lifted, signers>>

SetEscrow(a, escrowed) ==
    /\ Becomes(set_escrow(gw, a, escrowed))
    /\ UNCHANGED <<deposited, released, closed, lifted, signers>>

\* encode_guard, and rehydrate_guard into a gateway that was just built.
Reload ==
    /\ Becomes(rehydrate_guard(NewGateway, encode_guard(gw)))
    /\ UNCHANGED <<deposited, released, closed, lifted, signers>>

Next ==
    \/ \E d \in Hosts[host].deposits : Mint(d)
    \/ \E a \in Assets, amount \in Hosts[host].amounts : RequestExit(a, amount)
    \/ \E t \in gw.pending_exits : FinalizeExit(t) \/ CancelExit(t)
    \/ \E o \in Order("EmergencyFreeze") : EmergencyFreeze(o)
    \/ \E o \in Order("LiftFreeze") : LiftFreeze(o)
    \/ "pause_all" \in Hosts[host].calls /\ PauseAll
    \/ \E o \in Order("ResumeAll") : ResumeAll(o)
    \/ \E o \in Order("ReportReorg") : ReportReorg(o)
    \/ \E c \in DOMAIN Hosts[host].policy, d \in ForkDepths : Observe(c, d)
    \/ \E o \in Order("ResumeSource") : ResumeSource(o)
    \/ \E o \in Order("AcceptBatch") : AcceptBatch(o)
    \/ /\ "set_corridor_active" \in Hosts[host].calls
       /\ \E c \in Chains, active \in BOOLEAN : SetCorridorActive(c, active)
    \/ /\ "set_corridor_quorum" \in Hosts[host].calls
       /\ \E c \in Chains, quorum \in 0..Cardinality(Operators) :
              SetCorridorQuorum(c, quorum)
    \/ \E h \in 1..MaxHeight : AdvanceTo(h)
    \/ \E e \in Hosts[host].epochs : AdvanceEpochTo(e)
    \/ /\ "set_escrow" \in Hosts[host].calls
       /\ \E a \in Assets : SetEscrow(a, AssetCap[a])
    \/ Reload

Spec == Init /\ [][Next]_vars

-----------------------------------------------------------------------------
(* Properties *)

(***************************************************************************)
(* What was minted is in circulation, waiting in an exit, or paid out:     *)
(* request, cancel and finalize in any order, with reloads between them,   *)
(* neither make nor lose a unit.  And what is not paid out stays under the *)
(* cap of its asset: an open exit counts, so that cancelling it after      *)
(* further mints does not take the supply over (gateway.rs request_exit,   *)
(* cancel_exit, finalize_exit; precheck_trustless and process_deposit,     *)
(* which count pending_exit_of).                                           *)
(***************************************************************************)
Conservation ==
    \A a \in Assets :
        /\ deposited[a] = outstanding(gw, a) + released[a]
        /\ outstanding(gw, a) <= AssetCap[a]

(***************************************************************************)
(* An exit is closed once: an id that was finalized or cancelled is never  *)
(* pending again and no new exit takes it, reloads included                *)
(* (gateway.rs next_exit_id).                                              *)
(***************************************************************************)
ExitClosesOnce ==
    /\ \A t \in gw.pending_exits : t.exit_id \notin closed
    /\ \A t, u \in gw.pending_exits : t.exit_id = u.exit_id => t = u
    /\ \A i \in closed : i < gw.next_exit_id

(***************************************************************************)
(* A freeze that a quorum has lifted stays lifted: only a freeze order     *)
(* that reaches past every lifted horizon can freeze the gateway again, so *)
(* the orders accepted before the lift are of no use to anyone             *)
(* (gateway.rs emergency_freeze, lift_freeze).                             *)
(***************************************************************************)
LiftedStaysLifted ==
    is_frozen(gw) => \A l \in lifted : gw.frozen_until > l

(***************************************************************************)
(* A source goes back to work only by an order dated at or after the pause *)
(* it ends, also when the pause came from a watchtower, which leaves no    *)
(* date, or went through a snapshot, which keeps none                      *)
(* (gateway.rs resume_source, pause_source_direct, rehydrate_guard).       *)
(***************************************************************************)
ResumeNotOlderThanPause ==
    [][\A c \in gw.paused_sources \ gw'.paused_sources :
           gw'.resumed_at[c] >= began[c]]_vars

(***************************************************************************)
(* Whatever quorum a corridor is given, a batch or an attested deposit is  *)
(* accepted only with more than two thirds of the operators                *)
(* (gateway.rs set_corridor_quorum, accept_batch, precheck_deposit).       *)
(***************************************************************************)
SupermajoritySigned ==
    Cardinality(signers) * 3 > Cardinality(Operators) * 2
=============================================================================
