------------------------ MODULE GuardedBridgeProofs ------------------------
(***************************************************************************)
(* Safety of GuardedBridge for every deployment: any sets of chains,       *)
(* assets, operators, orders, deposits and reports, and any windows.       *)
(*                                                                         *)
(* The argument follows the code's own: a request is granted only if the   *)
(* gateway does not remember it, the method it runs makes the gateway      *)
(* remember it and forget nothing, and neither the encoding of the guard   *)
(* nor rehydrate_guard loses any of it.  Remembers is not inductive for a  *)
(* reorg report, because a resume ends the pause that stands for it.  The  *)
(* stronger Holds also dates the pause, and a resume order has to be at    *)
(* least as new as that date.  It also ties a watchdog freeze to the       *)
(* height its operator was last seen at, which is what spaces the freezes. *)
(***************************************************************************)
EXTENDS GuardedBridge, Inductions

\* The date a resume of source c is held against (resume_source).
Since(g, c) ==
    IF g.paused_since[c] = None THEN g.current_height ELSE g.paused_since[c]

Holds(g, t) ==
    /\ Remembers(g, t)
    /\ t[1] = "ReportReorg" =>
           t[3] <= g.resumed_at[t[2]] \/ t[3] <= Since(g, t[2])
    /\ t[1] = "WatchdogFreeze" =>
           /\ 0 < t[3]
           /\ 0 <= g.watchdog_last[t[2]]
           /\ t[3] <= g.watchdog_last[t[2]] + WATCHDOG_MAX_WINDOW

\* A gateway as the daemon may have it in memory or on disk.
Sound(g) ==
    /\ g \in GatewayState
    /\ InReach(g)
    /\ \A c \in Chains : g.paused_since[c] # None => c \in g.paused_sources

\* Whatever g holds, n holds.
Keeps(g, n) == \A t \in Tokens : Holds(g, t) => Holds(n, t)

\* The pauses that are in force are dated, in memory, no earlier than they
\* began, and a restart that finds one of them on disk dates it so too.
PausesDated ==
    \A c \in gw.paused_sources :
        /\ began[c] \in Nat
        /\ gw.paused_since[c] # None
        /\ began[c] <= gw.paused_since[c]
        /\ c \in disk.paused_sources => began[c] <= disk.current_height

\* The inductive invariant.
IInv ==
    /\ TypeOK
    /\ Sound(gw) /\ Sound(disk)
    /\ \A t \in granted : Holds(gw, t) /\ Holds(disk, t)
    /\ OrdersTakeEffectOnce
    /\ PausesDated

-----------------------------------------------------------------------------
(* What a method may do to the marks *)

\* No mark goes back, and a pause is kept or ended by a newer resume.
Grows(g, n) ==
    /\ g.used_refs \subseteq n.used_refs
    /\ \A c \in Chains : g.resumed_at[c] <= n.resumed_at[c]
    /\ \A c \in g.paused_sources :
           \/ c \in n.paused_sources /\ Since(g, c) <= Since(n, c)
           \/ Since(g, c) <= n.resumed_at[c]
    /\ g.global_resumed_at <= n.global_resumed_at
    /\ g.frozen_until <= n.frozen_until
    /\ g.deposit_frozen_until <= n.deposit_frozen_until
    /\ \A o \in Operators : g.watchdog_last[o] <= n.watchdog_last[o]
    /\ \A c \in Corridors : g.corridors[c].tier <= n.corridors[c].tier

\* The types of the marks.
LEMMA Marks ==
    ASSUME NEW g \in GatewayState
    PROVE  /\ g.current_height \in Nat /\ g.global_paused_at \in Nat
           /\ g.global_resumed_at \in Nat /\ g.frozen_until \in Nat
           /\ g.deposit_frozen_until \in Nat
           /\ g.paused_sources \subseteq Chains
           /\ \A c \in Chains : /\ g.resumed_at[c] \in Int
                                /\ g.paused_since[c] \in Int
                                /\ Since(g, c) \in Int
           /\ \A c \in Corridors : g.corridors[c].tier \in Nat
           /\ \A o \in Operators : g.watchdog_last[o] \in Int
           /\ \A a \in Assets : g.reserve_reported_at[a] \in Int
<1>1. g.corridors \in [Corridors -> CorridorConfig]
  BY DEF GatewayState
<1>2. \A c \in Corridors : g.corridors[c].tier \in Nat
  BY <1>1 DEF CorridorConfig
<1>3. QED
  BY <1>2 DEF GatewayState, Maybe, None, Since

\* A gateway whose marks have grown has forgotten nothing.
LEMMA GrowsKeeps ==
    ASSUME NEW g \in GatewayState, NEW n \in GatewayState, Grows(g, n)
    PROVE  Keeps(g, n)
<1> SUFFICES ASSUME NEW t \in Tokens, Holds(g, t)
             PROVE  Holds(n, t)
  BY DEF Keeps
<1>1. CASE t \in {"ReportReorg", "EarlyReorg", "ResumeSource"} \X Chains \X Nat
  BY <1>1, Marks DEF Holds, Remembers, Grows
<1>2. CASE t \in {"SetCorridorTier"} \X Corridors \X Nat
  BY <1>2, Marks DEF Holds, Remembers, Grows
<1>3. CASE t \in {"WatchdogFreeze"} \X Operators \X Nat
  BY <1>3, Marks, GatewayAssumption DEF Holds, Remembers, Grows
<1>4. CASE t \in {"ResumeAll", "EmergencyFreeze"} \X {None} \X Nat
  BY <1>4, Marks DEF Holds, Remembers, Grows
<1>5. CASE t \in {"Mint"} \X Chains \X Refs
  BY <1>5, Marks DEF Holds, Remembers, Grows
<1>6. QED
  BY <1>1, <1>2, <1>3, <1>4, <1>5 DEF Tokens

-----------------------------------------------------------------------------
(* The methods *)

\* A gateway in memory: the pauses in force all have a date.
Live(g) ==
    /\ Sound(g)
    /\ \A c \in g.paused_sources : g.paused_since[c] # None

\* What every method that a request runs makes of a live gateway.
Step(g, n) ==
    /\ Sound(n)
    /\ Grows(g, n)
    /\ n.current_height = g.current_height
    /\ \A c \in n.paused_sources :
           n.paused_since[c] = IF c \in g.paused_sources THEN g.paused_since[c]
                                                        ELSE g.current_height

SamePauses(g, n) ==
    /\ n.paused_sources = g.paused_sources
    /\ n.paused_since = g.paused_since
    /\ n.resumed_at = g.resumed_at

SameHorizons(g, n) ==
    /\ n.global_paused_at = g.global_paused_at
    /\ n.global_resumed_at = g.global_resumed_at
    /\ n.frozen_until = g.frozen_until
    /\ n.deposit_frozen_until = g.deposit_frozen_until
    /\ n.watchdog_last = g.watchdog_last

SameRest(g, n) ==
    /\ n.current_height = g.current_height
    /\ n.used_refs = g.used_refs
    /\ n.corridors = g.corridors
    /\ n.reserve_reported_at = g.reserve_reported_at

SameMarks(g, n) == SamePauses(g, n) /\ SameHorizons(g, n) /\ SameRest(g, n)

\* A method that moves no mark is a step.
LEMMA SameMarksStep ==
    ASSUME NEW g, Sound(g), NEW n \in GatewayState, SameMarks(g, n)
    PROVE  Step(g, n)
<1>1. Sound(n)
  BY DEF Sound, InReach, SameMarks, SamePauses, SameHorizons, SameRest
<1>2. Grows(g, n)
  BY Marks DEF Grows, SameMarks, SamePauses, SameHorizons, SameRest, Sound, Since
<1>3. QED
  BY <1>1, <1>2 DEF Step, SameMarks, SamePauses, SameRest

\* Clearing the touched flag is a step.
LEMMA QuietStep ==
    ASSUME NEW g, Sound(g)
    PROVE  Step(g, Quiet(g)) /\ SameMarks(g, Quiet(g)) /\ ~Quiet(g).touched
<1>1. /\ Quiet(g) \in GatewayState /\ ~Quiet(g).touched
      /\ SameMarks(g, Quiet(g))
  BY DEF Quiet, Sound, GatewayState, SameMarks, SamePauses, SameHorizons,
         SameRest
<1>2. QED
  BY <1>1, SameMarksStep

\* report_reorg is a step, and the source it names is then paused with a date.
LEMMA ReportReorgStep ==
    ASSUME NEW g, Live(g), NEW c \in Chains
    PROVE  /\ Step(g, report_reorg(g, c))
           /\ report_reorg(g, c).touched
           /\ c \in report_reorg(g, c).paused_sources
           /\ c \notin g.paused_sources =>
                 report_reorg(g, c).paused_since[c] = g.current_height
<1> DEFINE n == report_reorg(g, c)
<1>0. g \in GatewayState
  BY DEF Live, Sound
<1>1. /\ n \in GatewayState /\ n.touched
      /\ n.paused_sources = g.paused_sources \cup {c}
      /\ n.paused_since = [g.paused_since EXCEPT ![c] =
             IF g.paused_since[c] = None THEN g.current_height
                                         ELSE g.paused_since[c]]
      /\ n.resumed_at = g.resumed_at
      /\ SameHorizons(g, n) /\ SameRest(g, n)
  BY <1>0 DEF report_reorg, GatewayState, Maybe, SameHorizons, SameRest
<1> HIDE DEF n
<1>2. g.paused_since \in [Chains -> Int]
  BY <1>0 DEF GatewayState, Maybe, None
<1>3. Sound(n)
  BY <1>0, <1>1, <1>2, Marks DEF Live, Sound, InReach, None, SameHorizons, SameRest
<1>4. Grows(g, n)
  BY <1>0, <1>1, <1>2, Marks DEF Grows, Live, Sound, Since, SameHorizons, SameRest
<1>5. /\ \A d \in n.paused_sources :
             n.paused_since[d] = IF d \in g.paused_sources
                                 THEN g.paused_since[d] ELSE g.current_height
      /\ c \in n.paused_sources
      /\ c \notin g.paused_sources => n.paused_since[c] = g.current_height
  BY <1>0, <1>1, <1>2, Marks DEF Live, Sound, SameRest
<1>6. QED
  BY <1>1, <1>3, <1>4, <1>5 DEF Step, SameRest, n

\* resume_source is a step: the order it obeys is newer than the last resume
\* and not older than the pause.
LEMMA ResumeSourceStep ==
    ASSUME NEW g, Live(g), NEW c \in Chains, NEW h \in Nat, NEW sigs,
           can_resume_source(g, c, h, sigs)
    PROVE  /\ Step(g, resume_source(g, c, h))
           /\ resume_source(g, c, h).touched
           /\ resume_source(g, c, h).resumed_at[c] = h
           /\ h > g.resumed_at[c]
<1> DEFINE n == resume_source(g, c, h)
<1>0. g \in GatewayState
  BY DEF Live, Sound
<1>1. /\ n \in GatewayState /\ n.touched
      /\ n.paused_sources = g.paused_sources \ {c}
      /\ n.paused_since = [g.paused_since EXCEPT ![c] = None]
      /\ n.resumed_at = [g.resumed_at EXCEPT ![c] = h]
      /\ SameHorizons(g, n) /\ SameRest(g, n)
  BY <1>0 DEF resume_source, GatewayState, Maybe, SameHorizons, SameRest
<1>2. /\ h >= Since(g, c) /\ h > g.resumed_at[c]
      /\ h <= g.current_height + RESUME_SKEW
  BY <1>0, Marks DEF can_resume_source, in_window, Since
<1> HIDE DEF n
<1>3. /\ g.paused_since \in [Chains -> Int]
      /\ g.resumed_at \in [Chains -> Int]
  BY <1>0 DEF GatewayState, Maybe, None
<1>4. Sound(n)
  BY <1>0, <1>1, <1>2, <1>3, Marks, GatewayAssumption
     DEF Live, Sound, InReach, None, SameHorizons, SameRest
<1>5. Grows(g, n)
  BY <1>0, <1>1, <1>2, <1>3, Marks DEF Grows, Live, Sound, Since, SameHorizons, SameRest
<1>6. /\ \A d \in n.paused_sources :
             n.paused_since[d] = IF d \in g.paused_sources
                                 THEN g.paused_since[d] ELSE g.current_height
      /\ n.resumed_at[c] = h
  BY <1>0, <1>1, <1>3, Marks
<1>7. QED
  BY <1>1, <1>2, <1>4, <1>5, <1>6 DEF Step, SameRest, n

\* resume_all is a step: the order is newer than the last global resume.
LEMMA ResumeAllStep ==
    ASSUME NEW g, Live(g), NEW h \in Nat, NEW sigs, check_unpause(g, h, sigs)
    PROVE  /\ Step(g, resume_all(g, h))
           /\ resume_all(g, h).touched
           /\ resume_all(g, h).global_resumed_at = h
           /\ h > g.global_resumed_at
<1> DEFINE n == resume_all(g, h)
<1>0. g \in GatewayState
  BY DEF Live, Sound
<1>1. /\ n \in GatewayState /\ n.touched
      /\ SamePauses(g, n) /\ SameRest(g, n)
      /\ n.global_resumed_at = h
      /\ n.global_paused_at = g.global_paused_at
      /\ n.frozen_until = g.frozen_until
      /\ n.deposit_frozen_until = g.deposit_frozen_until
      /\ n.watchdog_last = g.watchdog_last
  BY <1>0 DEF resume_all, GatewayState, SamePauses, SameRest
<1>2. h > g.global_resumed_at /\ h <= g.current_height + RESUME_SKEW
  BY <1>0, Marks DEF check_unpause, in_window
<1> HIDE DEF n
<1>3. Sound(n)
  BY <1>1, <1>2 DEF Live, Sound, InReach, SamePauses, SameRest
<1>4. Grows(g, n)
  BY <1>0, <1>1, <1>2, Marks DEF Grows, Since, SamePauses, SameRest
<1>5. QED
  BY <1>1, <1>2, <1>3, <1>4 DEF Step, SamePauses, SameRest, n

\* emergency_freeze is a step: the horizon only moves out, within its window.
LEMMA EmergencyFreezeStep ==
    ASSUME NEW g, Live(g), NEW h \in Nat, NEW sigs,
           can_emergency_freeze(g, h, sigs)
    PROVE  /\ Step(g, emergency_freeze(g, h))
           /\ h > g.frozen_until => /\ emergency_freeze(g, h).touched
                                    /\ emergency_freeze(g, h).frozen_until = h
<1> DEFINE n == emergency_freeze(g, h)
<1>0. g \in GatewayState
  BY DEF Live, Sound
<1>1. CASE h > g.frozen_until
  <2>1. /\ n \in GatewayState /\ n.touched
        /\ SamePauses(g, n) /\ SameRest(g, n)
        /\ n.frozen_until = h
        /\ n.global_paused_at = g.global_paused_at
        /\ n.global_resumed_at = g.global_resumed_at
        /\ n.deposit_frozen_until = g.deposit_frozen_until
        /\ n.watchdog_last = g.watchdog_last
    BY <1>0, <1>1 DEF emergency_freeze, GatewayState, SamePauses, SameRest
  <2>2. h <= g.current_height + EMERGENCY_FREEZE_MAX_WINDOW
    BY DEF can_emergency_freeze
  <2> HIDE DEF n
  <2>3. Sound(n)
    BY <2>1, <2>2 DEF Live, Sound, InReach, SamePauses, SameRest
  <2>4. Grows(g, n)
    BY <1>0, <1>1, <2>1, Marks DEF Grows, Since, SamePauses, SameRest
  <2>5. QED
    BY <2>1, <2>3, <2>4 DEF Step, SamePauses, SameRest, n
<1>2. CASE ~(h > g.frozen_until)
  <2>1. n = g
    BY <1>2 DEF emergency_freeze
  <2>2. Step(g, g)
    BY <1>0, SameMarksStep DEF Live, SameMarks, SamePauses, SameHorizons, SameRest
  <2>3. QED
    BY <1>2, <2>1, <2>2
<1>3. QED
  BY <1>1, <1>2

\* watchdog_freeze is a step, and it leaves the operator's mark.
LEMMA WatchdogFreezeStep ==
    ASSUME NEW g, Live(g), NEW h \in Nat, NEW sig,
           can_watchdog_freeze(g, sig, h)
    PROVE  LET n == watchdog_freeze(g, sig.operator_id, h)
           IN  /\ Step(g, n)
               /\ n.deposit_frozen_until = h
               /\ h > g.deposit_frozen_until
               /\ sig.operator_id \in Operators
               /\ n.watchdog_last[sig.operator_id] = g.current_height
<1> DEFINE o == sig.operator_id
           n == watchdog_freeze(g, o, h)
<1>0. g \in GatewayState
  BY DEF Live, Sound
<1>1. o \in Operators
  BY DEF can_watchdog_freeze, verified_quorum
<1>2. /\ h > g.deposit_frozen_until
      /\ h <= g.current_height + WATCHDOG_MAX_WINDOW
  BY <1>0, Marks, GatewayAssumption DEF can_watchdog_freeze
<1>3. /\ n \in GatewayState
      /\ SamePauses(g, n) /\ SameRest(g, n)
      /\ n.deposit_frozen_until = h
      /\ n.global_paused_at = g.global_paused_at
      /\ n.global_resumed_at = g.global_resumed_at
      /\ n.frozen_until = g.frozen_until
      /\ n.watchdog_last = [g.watchdog_last EXCEPT ![o] = g.current_height]
  BY <1>0, <1>1, <1>2
     DEF watchdog_freeze, GatewayState, Maybe, SamePauses, SameRest
<1> HIDE DEF n
<1>4. g.watchdog_last \in [Operators -> Int]
  BY <1>0 DEF GatewayState, Maybe, None
<1>5. Sound(n)
  BY <1>0, <1>2, <1>3, <1>4, Marks
     DEF Live, Sound, InReach, SamePauses, SameRest
<1>6. Grows(g, n)
  BY <1>0, <1>2, <1>3, <1>4, Marks
     DEF Live, Sound, InReach, Grows, Since, SamePauses, SameRest
<1>7. Step(g, n)
  BY <1>3, <1>5, <1>6 DEF Step, SamePauses, SameRest
<1>8. n.watchdog_last[o] = g.current_height
  BY <1>1, <1>3, <1>4
<1>9. QED
  BY <1>1, <1>2, <1>3, <1>7, <1>8 DEF n

\* set_corridor_tier is a step: the tier goes up.
LEMMA TierStep ==
    ASSUME NEW g, Live(g), NEW c, NEW tier \in Nat, NEW sigs,
           check_tier(g, c, tier, sigs)
    PROVE  /\ Step(g, set_corridor_tier(g, c, tier))
           /\ set_corridor_tier(g, c, tier).touched
           /\ c \in Corridors
           /\ set_corridor_tier(g, c, tier).corridors[c].tier = tier
           /\ tier > g.corridors[c].tier
<1> DEFINE n == set_corridor_tier(g, c, tier)
<1>0. g \in GatewayState
  BY DEF Live, Sound
<1>1. c \in Corridors /\ tier > g.corridors[c].tier
  BY DEF check_tier
<1>2. g.corridors \in [Corridors -> CorridorConfig]
  BY <1>0 DEF GatewayState
<1>3. /\ n.corridors = [g.corridors EXCEPT ![c].tier = tier]
      /\ n.touched
      /\ SamePauses(g, n) /\ SameHorizons(g, n)
      /\ n.current_height = g.current_height
      /\ n.used_refs = g.used_refs
      /\ n.reserve_reported_at = g.reserve_reported_at
  BY <1>0 DEF set_corridor_tier, GatewayState, SamePauses, SameHorizons
<1>4. /\ n.corridors \in [Corridors -> CorridorConfig]
      /\ n.corridors[c].tier = tier
      /\ \A d \in Corridors \ {c} : n.corridors[d].tier = g.corridors[d].tier
  BY <1>1, <1>2, <1>3 DEF CorridorConfig
<1>5. n \in GatewayState
  BY <1>0, <1>3, <1>4 DEF set_corridor_tier, GatewayState
<1> HIDE DEF n
<1>6. Sound(n)
  BY <1>3, <1>5 DEF Live, Sound, InReach, SamePauses, SameHorizons
<1>7. Grows(g, n)
  BY <1>0, <1>1, <1>3, <1>4, Marks DEF Grows, Since, SamePauses, SameHorizons
<1>8. QED
  BY <1>1, <1>3, <1>4, <1>6, <1>7 DEF Step, SamePauses, n

\* record_mint is a step, and the reference is then used.
LEMMA MintStep ==
    ASSUME NEW g, Live(g), NEW d, d.source_chain \in Chains,
           d.source_ref \in Refs, d.amount \in Nat, within_budget(g, d)
    PROVE  /\ Step(g, record_mint(g, d))
           /\ <<d.source_chain, d.source_ref>> \in record_mint(g, d).used_refs
           /\ <<d.source_chain, d.source_ref>> \notin g.used_refs
           /\ d.asset_id \in Assets
<1> DEFINE n == record_mint(g, d)
<1>0. g \in GatewayState
  BY DEF Live, Sound
<1>1. /\ d.asset_id \in Assets
      /\ <<d.source_chain, d.source_ref>> \notin g.used_refs
  BY DEF within_budget
<1>2. /\ SamePauses(g, n) /\ SameHorizons(g, n)
      /\ n.current_height = g.current_height
      /\ n.used_refs = g.used_refs \cup {<<d.source_chain, d.source_ref>>}
      /\ n.corridors = g.corridors
      /\ n.reserve_reported_at = g.reserve_reported_at
  BY <1>0 DEF record_mint, GatewayState, SamePauses, SameHorizons
<1>3. n \in GatewayState
  <2>1. /\ n.per_asset_minted \in [Assets -> Nat]
        /\ n.per_asset_epoch_minted \in [Assets -> Nat]
        /\ n.epoch_minted \in Nat
    BY <1>0, <1>1 DEF record_mint, GatewayState
  <2>2. n.used_refs \in SUBSET (Chains \X Refs)
    BY <1>0, <1>2 DEF GatewayState
  <2>3. QED
    BY <1>0, <2>1, <2>2 DEF record_mint, GatewayState
<1> HIDE DEF n
<1>4. Sound(n)
  BY <1>2, <1>3 DEF Live, Sound, InReach, SamePauses, SameHorizons
<1>5. Grows(g, n)
  BY <1>0, <1>2, <1>3, Marks DEF Grows, Since, SamePauses, SameHorizons
<1>6. QED
  BY <1>1, <1>2, <1>4, <1>5 DEF Step, SamePauses, n

\* pause_all is a step: a pause that is in force keeps its date.
LEMMA PauseAllStep ==
    ASSUME NEW g, Sound(g)
    PROVE  Step(g, pause_all(g))
<1> DEFINE n == pause_all(g)
<1>0. g \in GatewayState
  BY DEF Sound
<1>1. /\ n \in GatewayState
      /\ SamePauses(g, n) /\ SameRest(g, n)
      /\ n.global_paused_at \in {g.global_paused_at, g.current_height}
      /\ n.global_resumed_at = g.global_resumed_at
      /\ n.frozen_until = g.frozen_until
      /\ n.deposit_frozen_until = g.deposit_frozen_until
      /\ n.watchdog_last = g.watchdog_last
  BY <1>0 DEF pause_all, GatewayState, SamePauses, SameRest
<1> HIDE DEF n
<1>2. Sound(n)
  BY <1>0, <1>1, Marks DEF Sound, InReach, SamePauses, SameRest
<1>3. Grows(g, n)
  BY <1>0, <1>1, Marks DEF Grows, Since, SamePauses, SameRest
<1>4. QED
  BY <1>1, <1>2, <1>3 DEF Step, SamePauses, SameRest, n

\* One step after another is a step.
LEMMA StepsCompose ==
    ASSUME NEW g, Sound(g), NEW m, Step(g, m), NEW n, Step(m, n),
           m.paused_sources = g.paused_sources
    PROVE  Step(g, n)
<1>1. g \in GatewayState /\ m \in GatewayState /\ n \in GatewayState
  BY DEF Sound, Step
<1>2. Grows(g, n)
  BY <1>1, Marks DEF Step, Grows
<1>3. QED
  BY <1>2 DEF Step

\* attest_reserve is a step, whether or not it trips the breaker.
LEMMA AttestReserveStep ==
    ASSUME NEW g, Sound(g), NEW a, NEW escrowed \in Nat, NEW h \in Nat, NEW sigs,
           check_reserve(g, a, h, sigs)
    PROVE  Step(g, attest_reserve(g, a, escrowed, h))
<1> DEFINE told == [g EXCEPT !.escrowed[a] = escrowed,
                             !.reserve_reported_at[a] = h]
<1>0. g \in GatewayState
  BY DEF Sound
<1>1. a \in Assets /\ h <= g.current_height + RESUME_SKEW
  BY DEF check_reserve, in_window
<1>2. /\ told \in GatewayState
      /\ SamePauses(g, told) /\ SameHorizons(g, told)
      /\ told.current_height = g.current_height
      /\ told.used_refs = g.used_refs
      /\ told.corridors = g.corridors
      /\ told.reserve_reported_at = [g.reserve_reported_at EXCEPT ![a] = h]
  BY <1>0, <1>1 DEF GatewayState, Maybe, SamePauses, SameHorizons
<1>3. attest_reserve(g, a, escrowed, h) \in {told, pause_all(told)}
  BY DEF attest_reserve
<1> HIDE DEF told
<1>4. g.reserve_reported_at \in [Assets -> Int]
  BY <1>0 DEF GatewayState, Maybe, None
<1>5. Sound(told)
  BY <1>0, <1>1, <1>2, <1>4, Marks
     DEF Sound, InReach, SamePauses, SameHorizons
<1>6. Grows(g, told)
  BY <1>0, <1>2, Marks DEF Grows, Since, SamePauses, SameHorizons
<1>7. Step(g, told)
  BY <1>2, <1>5, <1>6 DEF Step, SamePauses
<1>8. Step(g, pause_all(told))
  BY <1>2, <1>5, <1>7, PauseAllStep, StepsCompose DEF SamePauses
<1>9. QED
  BY <1>3, <1>7, <1>8

\* The clock moves nothing but itself and the epoch counters.
LEMMA ClockGrows ==
    ASSUME NEW g, Live(g), NEW h \in Nat, NEW e \in Nat
    PROVE  LET n == advance_epoch_to(advance_to(g, h), e)
           IN  /\ Sound(n) /\ Grows(g, n) /\ SamePauses(g, n)
               /\ g.current_height <= n.current_height
<1> DEFINE m == advance_to(g, h)
           n == advance_epoch_to(m, e)
<1>0. g \in GatewayState
  BY DEF Live, Sound
<1>1. /\ m \in GatewayState
      /\ SamePauses(g, m) /\ SameHorizons(g, m)
      /\ m.current_height = larger(h, g.current_height)
      /\ m.used_refs = g.used_refs
      /\ m.corridors = g.corridors
      /\ m.reserve_reported_at = g.reserve_reported_at
  BY <1>0 DEF advance_to, larger, GatewayState, SamePauses, SameHorizons
<1>2. n \in GatewayState /\ SameMarks(m, n)
  BY <1>1 DEF advance_epoch_to, GatewayState, SameMarks, SamePauses,
              SameHorizons, SameRest
<1> HIDE DEF m, n
<1>3. /\ SamePauses(g, n) /\ SameHorizons(g, n)
      /\ n.current_height \in Nat
      /\ n.current_height >= g.current_height
      /\ n.used_refs = g.used_refs
      /\ n.corridors = g.corridors
      /\ n.reserve_reported_at = g.reserve_reported_at
  BY <1>0, <1>1, <1>2, Marks
     DEF larger, SameMarks, SamePauses, SameHorizons, SameRest
<1>4. Sound(n)
  BY <1>0, <1>2, <1>3, Marks, GatewayAssumption
     DEF Live, Sound, InReach, SamePauses, SameHorizons
<1>5. Grows(g, n)
  BY <1>0, <1>3, Marks DEF Live, Grows, Since, SamePauses, SameHorizons
<1>6. QED
  BY <1>3, <1>4, <1>5, <1>0, Marks DEF n, m

-----------------------------------------------------------------------------
(* The snapshot *)

\* encode_guard forgets the dates of the pauses, and Since then is the
\* height, which is not earlier.
LEMMA EncodeGrows ==
    ASSUME NEW g, Sound(g)
    PROVE  LET n == encode_guard(g)
           IN  /\ Sound(n) /\ Grows(g, n) /\ ~n.touched
               /\ n.current_height = g.current_height
               /\ n.paused_sources = g.paused_sources
<1> DEFINE n == encode_guard(g)
<1>0. g \in GatewayState
  BY DEF Sound
<1>1. /\ n \in GatewayState /\ ~n.touched
      /\ SameHorizons(g, n) /\ SameRest(g, n)
      /\ n.paused_sources = g.paused_sources
      /\ n.paused_since = [c \in Chains |-> None]
      /\ n.resumed_at = g.resumed_at
  BY <1>0 DEF encode_guard, GatewayState, Maybe, SameHorizons, SameRest
<1> HIDE DEF n
<1>2. Sound(n)
  BY <1>0, <1>1, Marks DEF Sound, InReach, None, SameHorizons, SameRest
<1>3. Grows(g, n)
  BY <1>0, <1>1, Marks DEF Sound, InReach, Grows, Since, SameHorizons, SameRest
<1>4. QED
  BY <1>1, <1>2, <1>3 DEF SameRest, n

\* rehydrate_guard brings back all that the snapshot s holds, dates its
\* pauses at the height of s, and leaves no pause without a date.
LEMMA RehydrateGrows ==
    ASSUME NEW g, Sound(g), NEW s, Sound(s)
    PROVE  LET n == rehydrate_guard(g, s)
           IN  /\ Live(n) /\ Grows(s, n)
               /\ n.current_height = larger(g.current_height, s.current_height)
               /\ n.paused_sources = s.paused_sources
               /\ \A c \in n.paused_sources :
                      n.paused_since[c] = s.current_height
<1> DEFINE n == rehydrate_guard(g, s)
<1>0. g \in GatewayState /\ s \in GatewayState
  BY DEF Sound
<1>1. /\ SameHorizons(s, n)
      /\ n.paused_sources = s.paused_sources
      /\ n.paused_since = [c \in Chains |->
             IF c \in s.paused_sources THEN s.current_height ELSE None]
      /\ n.resumed_at = s.resumed_at
      /\ n.current_height = larger(g.current_height, s.current_height)
      /\ n.used_refs = s.used_refs
      /\ n.reserve_reported_at = s.reserve_reported_at
  BY <1>0 DEF rehydrate_guard, GatewayState, SameHorizons
<1>2. /\ n.corridors \in [Corridors -> CorridorConfig]
      /\ \A c \in Corridors : s.corridors[c].tier <= n.corridors[c].tier
  <2>1. /\ g.corridors \in [Corridors -> CorridorConfig]
        /\ s.corridors \in [Corridors -> CorridorConfig]
    BY <1>0 DEF GatewayState
  <2>2. n.corridors = [c \in Corridors |->
            [confirmation_depth |-> larger(g.corridors[c].confirmation_depth,
                                           s.corridors[c].confirmation_depth),
             quorum |-> larger(g.corridors[c].quorum, s.corridors[c].quorum),
             tier |-> larger(g.corridors[c].tier, s.corridors[c].tier),
             active |-> g.corridors[c].active /\ s.corridors[c].active]]
    BY <1>0 DEF rehydrate_guard, GatewayState
  <2> HIDE DEF n
  <2>3. QED
    BY <2>1, <2>2 DEF CorridorConfig, larger
<1>3. n \in GatewayState
  <2>1. n.paused_since \in [Chains -> Maybe(Nat)] /\ n.current_height \in Nat
    BY <1>0, <1>1, Marks DEF Maybe, larger
  <2>2. QED
    BY <1>0, <1>2, <2>1 DEF rehydrate_guard, GatewayState
<1> HIDE DEF n
<1>4. n.current_height >= s.current_height
  BY <1>0, <1>1, Marks DEF larger
<1>5. Live(n)
  BY <1>0, <1>1, <1>3, <1>4, Marks, GatewayAssumption
     DEF Live, Sound, InReach, None, SameHorizons
<1>6. Grows(s, n)
  BY <1>0, <1>1, <1>2, Marks DEF Sound, InReach, Grows, Since, None, SameHorizons
<1>7. QED
  BY <1>0, <1>1, <1>5, <1>6, Marks DEF n

\* apply_reserves changes nothing but the escrow figures.
LEMMA ReservesApplied ==
    ASSUME NEW g \in GatewayState
    PROVE  /\ apply_reserves(g) \in GatewayState
           /\ apply_reserves(g).touched = g.touched
           /\ SameMarks(g, apply_reserves(g))
<1>1. g.escrowed \in [Assets -> Maybe(Nat)]
  BY DEF GatewayState
<1>2. [a \in Assets |-> IF g.reserve_reported_at[a] = None
                        THEN StaticReserves[a] ELSE g.escrowed[a]]
          \in [Assets -> Maybe(Nat)]
  BY <1>1, BridgeAssumption DEF Maybe
<1>3. QED
  BY <1>2 DEF apply_reserves, GatewayState, SameMarks, SamePauses,
              SameHorizons, SameRest

\* A gateway at boot is sound.
LEMMA BootedSound ==
    /\ Sound(Booted) /\ ~Booted.touched
    /\ Booted.current_height = 0
    /\ Booted.paused_sources = {}
<1>1. [c \in Corridors |-> [confirmation_depth |-> ConfirmationDepth[c],
                            quorum |-> 0, tier |-> BASE_TIER, active |-> TRUE]]
          \in [Corridors -> CorridorConfig]
  BY GatewayAssumption DEF CorridorConfig, BASE_TIER
<1>2. /\ Booted \in GatewayState
      /\ ~Booted.touched
      /\ Booted.current_height = 0
      /\ Booted.paused_sources = {}
      /\ Booted.paused_since = [c \in Chains |-> None]
      /\ Booted.resumed_at = [c \in Chains |-> None]
      /\ Booted.watchdog_last = [o \in Operators |-> None]
      /\ Booted.reserve_reported_at = [a \in Assets |-> None]
      /\ Booted.global_paused_at = 0
      /\ Booted.global_resumed_at = 0
      /\ Booted.frozen_until = 0
      /\ Booted.deposit_frozen_until = 0
  BY <1>1 DEF Booted, NewGateway, GatewayState, Maybe
<1>3. QED
  BY <1>2, GatewayAssumption DEF Sound, InReach, None

\* A restart holds all that the disk does.
LEMMA RestoreGrows ==
    ASSUME NEW s, Sound(s)
    PROVE  LET n == restore_into(s)
           IN  /\ Live(n) /\ Grows(s, n) /\ ~n.touched
               /\ n.current_height = s.current_height
               /\ n.paused_sources = s.paused_sources
               /\ \A c \in n.paused_sources :
                      n.paused_since[c] = s.current_height
<1> DEFINE m == rehydrate_guard(Booted, s)
           n == apply_reserves(Quiet(m))
<1>0. n = restore_into(s)
  BY DEF restore_into, Quiet
<1>1. /\ Live(m) /\ Grows(s, m)
      /\ m.current_height = larger(0, s.current_height)
      /\ m.paused_sources = s.paused_sources
      /\ \A c \in m.paused_sources : m.paused_since[c] = s.current_height
  BY BootedSound, RehydrateGrows
<1> HIDE DEF m
<1>2. Step(m, Quiet(m)) /\ SameMarks(m, Quiet(m)) /\ ~Quiet(m).touched
  BY <1>1, QuietStep DEF Live
<1>3. /\ n \in GatewayState /\ ~n.touched
      /\ SameMarks(Quiet(m), n)
  BY <1>2, ReservesApplied DEF Step, Sound
<1>4. Step(Quiet(m), n)
  BY <1>2, <1>3, SameMarksStep DEF Step
<1> HIDE DEF n
<1>5. /\ s \in GatewayState /\ m \in GatewayState
      /\ Quiet(m) \in GatewayState /\ n \in GatewayState
  BY <1>1, <1>2, <1>3 DEF Live, Step, Sound
<1>6. /\ SameMarks(m, n) /\ Sound(n)
  BY <1>2, <1>3, <1>4
     DEF Step, SameMarks, SamePauses, SameHorizons, SameRest
<1>7. Live(n)
  BY <1>1, <1>6 DEF Live, SameMarks, SamePauses
<1>8. Grows(s, n)
  BY <1>1, <1>5, <1>6, Marks
     DEF Grows, Since, SameMarks, SamePauses, SameHorizons, SameRest
<1>9. /\ n.current_height = s.current_height
      /\ n.paused_sources = s.paused_sources
      /\ \A c \in n.paused_sources : n.paused_since[c] = s.current_height
  BY <1>1, <1>5, <1>6, Marks DEF larger, SameMarks, SamePauses, SameRest
<1>10. QED
  BY <1>0, <1>3, <1>7, <1>8, <1>9

-----------------------------------------------------------------------------
(* The steps of the daemon *)

\* The gateway in memory is live whenever the invariant holds.
LEMMA InvLive ==
    ASSUME IInv
    PROVE  Live(gw) /\ Sound(disk) /\ granted \subseteq Tokens
BY DEF IInv, PausesDated, Live, TypeOK

\* Dated keeps the dates of the pauses that go on and gives the new ones
\* the height, so PausesDated only has to look at two cases.
LEMMA DatesKept ==
    ASSUME IInv, Dated, Live(gw'), Sound(disk'),
           gw.current_height \in Nat, gw'.current_height \in Nat,
           \A c \in gw'.paused_sources :
               IF c \in gw.paused_sources
               THEN /\ began[c] <= gw'.paused_since[c]
                    /\ c \in disk'.paused_sources =>
                           began[c] <= disk'.current_height
               ELSE /\ gw'.current_height <= gw'.paused_since[c]
                    /\ c \in disk'.paused_sources =>
                           gw'.current_height <= disk'.current_height
    PROVE  PausesDated' /\ began' \in [Chains -> Maybe(Nat)]
<1>1. /\ gw'.paused_sources \subseteq Chains
      /\ began \in [Chains -> Maybe(Nat)]
  BY Marks DEF Live, Sound, IInv, TypeOK
<1>2. \A c \in Chains :
          began'[c] = IF c \notin gw'.paused_sources THEN None
                      ELSE IF c \in gw.paused_sources THEN began[c]
                      ELSE gw'.current_height
  BY DEF Dated
<1>3. \A c \in gw.paused_sources : began[c] \in Nat
  BY DEF IInv, PausesDated
<1>4. began' \in [Chains -> Maybe(Nat)]
  BY <1>1 DEF Dated, Maybe
<1>5. PausesDated'
  BY <1>1, <1>2, <1>3 DEF PausesDated, Live
<1>6. QED
  BY <1>4, <1>5

\* A failed save: the old gateway comes back, and the disk has the old or
\* the new one.
LEMMA RolledBack ==
    ASSUME IInv, NEW n, Step(gw, n), RollBack(n), Dated,
           prepared' \in [Deposits -> Nat]
    PROVE  IInv'
<1> DEFINE r == rehydrate_guard(n, encode_guard(gw))
<1>0. Live(gw) /\ Sound(disk) /\ granted \subseteq Tokens
  BY InvLive
<1>1. /\ Sound(encode_guard(gw)) /\ Grows(gw, encode_guard(gw))
      /\ encode_guard(gw).current_height = gw.current_height
      /\ encode_guard(gw).paused_sources = gw.paused_sources
  BY <1>0, EncodeGrows DEF Live
<1>2. Sound(n) /\ n.current_height = gw.current_height /\ Grows(gw, n)
  BY DEF Step
<1>3. /\ Live(r) /\ Grows(encode_guard(gw), r)
      /\ r.current_height = larger(gw.current_height, gw.current_height)
      /\ r.paused_sources = gw.paused_sources
      /\ \A c \in r.paused_sources : r.paused_since[c] = gw.current_height
  BY <1>1, <1>2, RehydrateGrows
<1> HIDE DEF r
<1>4. Step(r, Quiet(r)) /\ SameMarks(r, Quiet(r)) /\ ~Quiet(r).touched
  BY <1>3, QuietStep DEF Live
<1>5. gw' = Quiet(r)
  BY DEF RollBack, r
<1>6. /\ Sound(encode_guard(n)) /\ Grows(n, encode_guard(n))
      /\ ~encode_guard(n).touched
      /\ encode_guard(n).current_height = gw.current_height
  BY <1>2, EncodeGrows
<1>7. disk' \in {disk, encode_guard(n)}
  BY DEF RollBack
<1>8. gw.current_height \in Nat /\ gw \in GatewayState
  BY <1>0, Marks DEF Live, Sound
<1>9. /\ Live(gw') /\ ~gw'.touched
      /\ gw'.current_height = gw.current_height
      /\ gw'.paused_sources = gw.paused_sources
      /\ \A c \in gw'.paused_sources : gw'.paused_since[c] = gw.current_height
  BY <1>3, <1>4, <1>5, <1>8
     DEF Step, Live, SameMarks, SamePauses, SameRest, larger
<1>10. Sound(disk') /\ ~disk'.touched
  BY <1>0, <1>6, <1>7 DEF IInv, TypeOK
<1>11. Keeps(gw, gw')
  <2>1. Keeps(gw, encode_guard(gw)) /\ Keeps(encode_guard(gw), r)
            /\ Keeps(r, Quiet(r))
    BY <1>0, <1>1, <1>3, <1>4, GrowsKeeps DEF Live, Step, Sound
  <2>2. QED
    BY <2>1, <1>5 DEF Keeps
<1>12. Keeps(gw, encode_guard(n))
  <2>1. Keeps(gw, n) /\ Keeps(n, encode_guard(n))
    BY <1>2, <1>6, <1>8, GrowsKeeps DEF Sound
  <2>2. QED
    BY <2>1 DEF Keeps
<1>13. granted' = granted /\ regranted' = regranted /\ ledger' = ledger
           /\ pending' = FALSE
  BY DEF RollBack
<1>14. \A t \in granted' : Holds(gw', t) /\ Holds(disk', t)
  BY <1>0, <1>7, <1>11, <1>12, <1>13 DEF IInv, Keeps
<1>15. \A c \in gw.paused_sources :
           /\ began[c] <= gw.current_height
           /\ c \in disk'.paused_sources => began[c] <= disk'.current_height
  <2>1. \A c \in gw.paused_sources :
            /\ began[c] \in Nat /\ gw.paused_since[c] \in Int
            /\ began[c] <= gw.paused_since[c]
            /\ gw.paused_since[c] <= gw.current_height
            /\ c \in disk.paused_sources => began[c] <= disk.current_height
    BY <1>8, Marks DEF IInv, PausesDated, Sound, InReach
  <2>2. QED
    BY <2>1, <1>6, <1>7, <1>8
<1>16. PausesDated' /\ began' \in [Chains -> Maybe(Nat)]
  BY <1>8, <1>9, <1>10, <1>15, DatesKept
<1>17. TypeOK'
  BY <1>9, <1>10, <1>13, <1>16 DEF TypeOK, IInv, Live, Sound
<1>18. QED
  BY <1>9, <1>10, <1>13, <1>14, <1>16, <1>17
     DEF IInv, OrdersTakeEffectOnce, Live

\* A step that goes through: the gateway becomes n, the disk keeps what it
\* has or takes n, and what is granted or newly paused is on the disk.
LEMMA GoesThrough ==
    ASSUME IInv, NEW n, Sound(n), Grows(gw, n),
           gw.current_height <= n.current_height,
           \A c \in n.paused_sources :
               n.paused_since[c] = IF c \in gw.paused_sources
                                   THEN gw.paused_since[c]
                                   ELSE n.current_height,
           gw' = Quiet(n), Dated,
           disk' \in {disk, encode_guard(n)},
           NEW tokens \in SUBSET Tokens,
           \A t \in tokens : Holds(n, t) /\ (t[1] = "EarlyReorg" \/ ~Holds(gw, t)),
           (tokens # {} \/ ~(n.paused_sources \subseteq gw.paused_sources))
               => disk' = encode_guard(n),
           granted' = granted \cup tokens,
           regranted' = regranted \cup (granted \cap tokens),
           ledger' \subseteq [source_chain: Chains, source_ref: Refs,
                             asset_id: Assets, amount: Nat, epoch: Nat],
           pending' \in BOOLEAN,
           prepared' \in [Deposits -> Nat]
    PROVE  IInv'
<1>0. Live(gw) /\ Sound(disk) /\ granted \subseteq Tokens
  BY InvLive
<1>1. /\ Sound(gw') /\ Grows(n, gw') /\ ~gw'.touched
      /\ SameMarks(n, gw')
  BY QuietStep DEF Step
<1>2. /\ Sound(encode_guard(n)) /\ Grows(n, encode_guard(n))
      /\ ~encode_guard(n).touched
      /\ encode_guard(n).current_height = n.current_height
      /\ encode_guard(n).paused_sources = n.paused_sources
  BY EncodeGrows
<1>3. /\ gw \in GatewayState /\ gw' \in GatewayState /\ n \in GatewayState
      /\ encode_guard(n) \in GatewayState
      /\ gw.current_height \in Nat /\ n.current_height \in Nat
  BY <1>0, <1>1, <1>2, Marks DEF Live, Sound
<1>4. Keeps(gw, n) /\ Keeps(n, gw') /\ Keeps(n, encode_guard(n))
  BY <1>1, <1>2, <1>3, GrowsKeeps
<1>5. \A t \in granted' : Holds(gw', t) /\ Holds(disk', t)
  BY <1>0, <1>4 DEF Keeps, IInv
<1>6. OrdersTakeEffectOnce'
  BY DEF OrdersTakeEffectOnce, IInv
<1>7. Sound(disk') /\ ~disk'.touched
  BY <1>0, <1>2 DEF IInv, TypeOK
<1>8. /\ gw'.paused_sources = n.paused_sources
      /\ gw'.paused_since = n.paused_since
      /\ gw'.current_height = n.current_height
  BY <1>1 DEF SameMarks, SamePauses, SameRest
<1>9. n.paused_sources \subseteq Chains /\ gw.paused_sources \subseteq Chains
  BY <1>3, Marks
<1>10. Live(gw')
  <2>1. \A c \in n.paused_sources : n.paused_since[c] # None
    BY <1>0, <1>3 DEF Live, None
  <2>2. QED
    BY <1>1, <1>8, <2>1 DEF Live
<1>11. \A c \in gw'.paused_sources :
           IF c \in gw.paused_sources
           THEN /\ began[c] <= gw'.paused_since[c]
                /\ c \in disk'.paused_sources => began[c] <= disk'.current_height
           ELSE /\ gw'.current_height <= gw'.paused_since[c]
                /\ c \in disk'.paused_sources =>
                       gw'.current_height <= disk'.current_height
  <2>1. \A c \in gw.paused_sources :
            /\ began[c] \in Nat /\ gw.paused_since[c] \in Int
            /\ began[c] <= gw.paused_since[c]
            /\ gw.paused_since[c] <= gw.current_height
            /\ c \in disk.paused_sources => began[c] <= disk.current_height
    BY <1>0, <1>3, <1>9, Marks DEF IInv, PausesDated, Live, Sound, InReach
  <2>2. QED
    BY <2>1, <1>2, <1>3, <1>8
<1>12. PausesDated' /\ began' \in [Chains -> Maybe(Nat)]
  BY <1>3, <1>7, <1>8, <1>10, <1>11, DatesKept
<1>13. TypeOK'
  BY <1>0, <1>1, <1>3, <1>7, <1>12 DEF TypeOK, IInv, Sound
<1>14. QED
  BY <1>1, <1>5, <1>6, <1>7, <1>12, <1>13 DEF IInv

\* Both ways a request can end.
LEMMA Persisted ==
    ASSUME IInv, NEW n, Step(gw, n), NEW logged, NEW tokens \in SUBSET Tokens,
           \A t \in tokens : Holds(n, t) /\ (t[1] = "EarlyReorg" \/ ~Holds(gw, t)),
           (tokens # {} \/ ~(n.paused_sources \subseteq gw.paused_sources))
               => (n.touched \/ logged),
           persist_if_advanced(n, logged, tokens)
    PROVE  IInv'
<1>1. prepared' \in [Deposits -> Nat] /\ Dated
  BY DEF persist_if_advanced, IInv, TypeOK
<1>2. CASE RollBack(n)
  BY <1>1, <1>2, RolledBack
<1>3. CASE ~RollBack(n)
  <2>1. /\ gw' = Quiet(n)
        /\ disk' \in {disk, encode_guard(n)}
        /\ (n.touched \/ logged) => disk' = encode_guard(n)
        /\ pending' \in BOOLEAN
        /\ granted' = granted \cup tokens
        /\ regranted' = regranted \cup (granted \cap tokens)
        /\ ledger' = ledger
    BY <1>3 DEF persist_if_advanced
  <2>2. /\ Sound(n) /\ Grows(gw, n)
        /\ n.current_height = gw.current_height
        /\ \A c \in n.paused_sources :
               n.paused_since[c] = IF c \in gw.paused_sources
                                   THEN gw.paused_since[c]
                                   ELSE n.current_height
    BY DEF Step
  <2>3. gw.current_height \in Nat
    BY InvLive, Marks DEF Live, Sound
  <2>4. ledger' \subseteq [source_chain: Chains, source_ref: Refs,
                          asset_id: Assets, amount: Nat, epoch: Nat]
    BY <2>1 DEF IInv, TypeOK
  <2>5. gw.current_height <= n.current_height
    BY <2>2, <2>3
  <2>6. QED
    BY <1>1, <2>1, <2>2, <2>4, <2>5, GoesThrough
<1>4. QED
  BY <1>2, <1>3

\* The same for a request that is logged under one token.
LEMMA PersistedOne ==
    ASSUME IInv, NEW n, Step(gw, n), NEW token \in Tokens,
           Holds(n, token), ~Holds(gw, token),
           persist_if_advanced(n, TRUE, {token})
    PROVE  IInv'
<1> DEFINE tokens == {token}
           logged == TRUE
<1>1. tokens \in SUBSET Tokens
  OBVIOUS
<1>2. \A t \in tokens : Holds(n, t) /\ (t[1] = "EarlyReorg" \/ ~Holds(gw, t))
  OBVIOUS
<1>3. persist_if_advanced(n, logged, tokens)
  OBVIOUS
<1>4. logged
  OBVIOUS
<1> HIDE DEF tokens, logged
<1>5. QED
  BY <1>1, <1>2, <1>3, <1>4, Persisted

-----------------------------------------------------------------------------
(* The orders: each is news to the gateway, and then it is held. *)

\* An accepted reorg report keeps the invariant, saved or rolled back.
LEMMA ReportReorgInv ==
    ASSUME IInv, NEW o \in Order("ReportReorg"), ReportReorg(o)
    PROVE  IInv'
<1> DEFINE n == report_reorg(gw, o.target)
           new == o.target \notin gw.paused_sources
           name == IF o.mark > gw.current_height THEN "EarlyReorg" ELSE o.kind
           tokens == IF new THEN {<<name, o.target, o.mark>>} ELSE {}
<1>1. o.target \in Chains /\ o.mark \in Nat /\ o.kind = "ReportReorg"
  BY BridgeAssumption DEF Order
<1>2. Live(gw) /\ gw.current_height \in Nat /\ gw.resumed_at[o.target] \in Int
  BY <1>1, InvLive, Marks DEF Live, Sound
<1>3. /\ Step(gw, n) /\ n.touched
      /\ o.target \in n.paused_sources
      /\ new => n.paused_since[o.target] = gw.current_height
  BY <1>1, <1>2, ReportReorgStep
<1>4. o.mark > gw.resumed_at[o.target] /\ persist_if_advanced(n, new, tokens)
  BY DEF ReportReorg, can_report_reorg, reorg_fresh
<1> HIDE DEF n
<1>5. tokens \in SUBSET Tokens
  BY <1>1 DEF Tokens
<1>6. \A t \in tokens : Holds(n, t) /\ (t[1] = "EarlyReorg" \/ ~Holds(gw, t))
  <2> SUFFICES ASSUME new
               PROVE  LET t == <<name, o.target, o.mark>>
                      IN  Holds(n, t) /\ (t[1] = "EarlyReorg" \/ ~Holds(gw, t))
    OBVIOUS
  <2>1. CASE o.mark > gw.current_height
    BY <2>1 DEF Holds, Remembers
  <2>2. CASE ~(o.mark > gw.current_height)
    <3>1. Since(n, o.target) = gw.current_height
      BY <1>2, <1>3 DEF Since, None
    <3>2. QED
      BY <1>1, <1>2, <1>3, <1>4, <2>2, <3>1 DEF Holds, Remembers
  <2>3. QED
    BY <2>1, <2>2
<1>7. QED
  BY <1>3, <1>4, <1>5, <1>6, Persisted

\* So does the resume of a source.
LEMMA ResumeSourceInv ==
    ASSUME IInv, NEW o \in Order("ResumeSource"), ResumeSource(o)
    PROVE  IInv'
<1> DEFINE n == resume_source(gw, o.target, o.mark)
<1>1. o.target \in Chains /\ o.mark \in Nat /\ o.kind = "ResumeSource"
  BY BridgeAssumption DEF Order
<1>2. Live(gw) /\ gw.resumed_at[o.target] \in Int
  BY <1>1, InvLive, Marks DEF Live, Sound
<1>3. /\ can_resume_source(gw, o.target, o.mark, o.sigs)
      /\ persist_if_advanced(n, TRUE, {Token(o)})
  BY DEF ResumeSource
<1>4. /\ Step(gw, n)
      /\ n.resumed_at[o.target] = o.mark
      /\ o.mark > gw.resumed_at[o.target]
  BY <1>1, <1>2, <1>3, ResumeSourceStep
<1> HIDE DEF n
<1>5. Token(o) \in Tokens
  BY <1>1 DEF Token, Tokens
<1>6. Holds(n, Token(o)) /\ ~Holds(gw, Token(o))
  BY <1>1, <1>2, <1>4 DEF Holds, Remembers, Token
<1>7. QED
  BY <1>3, <1>4, <1>5, <1>6, PersistedOne

\* So does a global resume.
LEMMA ResumeAllInv ==
    ASSUME IInv, NEW o \in Order("ResumeAll"), ResumeAll(o)
    PROVE  IInv'
<1> DEFINE n == resume_all(gw, o.mark)
<1>1. o.target = None /\ o.mark \in Nat /\ o.kind = "ResumeAll"
  BY BridgeAssumption DEF Order
<1>2. Live(gw) /\ gw.global_resumed_at \in Nat
  BY InvLive, Marks DEF Live, Sound
<1>3. check_unpause(gw, o.mark, o.sigs) /\ persist_if_advanced(n, TRUE, {Token(o)})
  BY DEF ResumeAll
<1>4. /\ Step(gw, n)
      /\ n.global_resumed_at = o.mark
      /\ o.mark > gw.global_resumed_at
  BY <1>1, <1>2, <1>3, ResumeAllStep
<1> HIDE DEF n
<1>5. Token(o) \in Tokens
  BY <1>1 DEF Token, Tokens
<1>6. Holds(n, Token(o)) /\ ~Holds(gw, Token(o))
  BY <1>1, <1>2, <1>4 DEF Holds, Remembers, Token
<1>7. QED
  BY <1>3, <1>4, <1>5, <1>6, PersistedOne

\* So does an emergency freeze.
LEMMA EmergencyFreezeInv ==
    ASSUME IInv, NEW o \in Order("EmergencyFreeze"), EmergencyFreeze(o)
    PROVE  IInv'
<1> DEFINE n == emergency_freeze(gw, o.mark)
           new == o.mark > gw.frozen_until
           tokens == IF new THEN {Token(o)} ELSE {}
<1>1. o.target = None /\ o.mark \in Nat /\ o.kind = "EmergencyFreeze"
  BY BridgeAssumption DEF Order
<1>2. Live(gw) /\ gw.frozen_until \in Nat
  BY InvLive, Marks DEF Live, Sound
<1>3. /\ can_emergency_freeze(gw, o.mark, o.sigs)
      /\ persist_if_advanced(n, new, tokens)
  BY DEF EmergencyFreeze
<1>4. Step(gw, n) /\ (new => n.touched /\ n.frozen_until = o.mark)
  BY <1>1, <1>2, <1>3, EmergencyFreezeStep
<1>5. SamePauses(gw, n)
  BY <1>2 DEF emergency_freeze, SamePauses, Live, Sound, GatewayState
<1> HIDE DEF n
<1>6. tokens \in SUBSET Tokens
  BY <1>1 DEF Token, Tokens
<1>7. new => Holds(n, Token(o)) /\ ~Holds(gw, Token(o))
  BY <1>1, <1>2, <1>4 DEF Holds, Remembers, Token
<1>8. QED
  BY <1>3, <1>4, <1>5, <1>6, <1>7, Persisted DEF SamePauses

\* So does a watchdog freeze.
LEMMA WatchdogFreezeInv ==
    ASSUME IInv, NEW o \in Order("WatchdogFreeze"), WatchdogFreeze(o)
    PROVE  IInv'
<1> DEFINE op == o.sigs[1].operator_id
           n == watchdog_freeze(gw, op, o.mark)
           token == <<o.kind, op, o.mark>>
<1>1. o.mark \in Nat /\ o.kind = "WatchdogFreeze"
  BY BridgeAssumption DEF Order
<1>2. /\ Live(gw) /\ gw.deposit_frozen_until \in Nat
      /\ gw.current_height \in Nat
  BY InvLive, Marks DEF Live, Sound
<1>3. /\ can_watchdog_freeze(gw, o.sigs[1], o.mark)
      /\ persist_if_advanced(n, TRUE, {token})
  BY DEF WatchdogFreeze
<1>4. /\ Step(gw, n)
      /\ n.deposit_frozen_until = o.mark
      /\ o.mark > gw.deposit_frozen_until
      /\ op \in Operators
      /\ n.watchdog_last[op] = gw.current_height
  BY <1>1, <1>2, <1>3, WatchdogFreezeStep
<1>5. 0 < o.mark /\ o.mark <= gw.current_height + WATCHDOG_MAX_WINDOW
  BY <1>1, <1>2, <1>3 DEF can_watchdog_freeze
<1> HIDE DEF n, op
<1>6. token \in Tokens
  BY <1>1, <1>4 DEF Tokens
<1>7. Holds(n, token) /\ ~Holds(gw, token)
  BY <1>1, <1>2, <1>4, <1>5 DEF Holds, Remembers
<1>8. QED
  BY <1>3, <1>4, <1>6, <1>7, PersistedOne

\* So does a tier order.
LEMMA SetCorridorTierInv ==
    ASSUME IInv, NEW o \in Order("SetCorridorTier"), SetCorridorTier(o)
    PROVE  IInv'
<1> DEFINE n == set_corridor_tier(gw, o.target, o.mark)
<1>1. o.mark \in Nat /\ o.kind = "SetCorridorTier"
  BY BridgeAssumption DEF Order
<1>2. Live(gw) /\ gw \in GatewayState
  BY InvLive DEF Live, Sound
<1>3. /\ check_tier(gw, o.target, o.mark, o.sigs)
      /\ persist_if_advanced(n, TRUE, {Token(o)})
  BY DEF SetCorridorTier
<1>4. /\ Step(gw, n)
      /\ n.corridors[o.target].tier = o.mark
      /\ o.mark > gw.corridors[o.target].tier
      /\ o.target \in Corridors
  BY <1>1, <1>2, <1>3, TierStep
<1> HIDE DEF n
<1>5. gw.corridors[o.target].tier \in Nat
  BY <1>2, <1>4, Marks
<1>6. Token(o) \in Tokens
  BY <1>1, <1>4 DEF Token, Tokens
<1>7. Holds(n, Token(o)) /\ ~Holds(gw, Token(o))
  BY <1>1, <1>4, <1>5 DEF Holds, Remembers, Token
<1>8. QED
  BY <1>3, <1>4, <1>6, <1>7, PersistedOne

\* So does a refused request that writes the records of others.
LEMMA RefusedRequestInv ==
    ASSUME IInv, RefusedRequest
    PROVE  IInv'
<1>1. Step(gw, gw)
  BY SameMarksStep, InvLive
     DEF Live, Sound, SameMarks, SamePauses, SameHorizons, SameRest
<1> DEFINE tokens == {}
           logged == FALSE
<1>2. tokens \in SUBSET Tokens /\ tokens = {} /\ persist_if_advanced(gw, logged, tokens)
  BY DEF RefusedRequest
<1> HIDE DEF tokens, logged
<1>3. QED
  BY <1>1, <1>2, Persisted

-----------------------------------------------------------------------------
(* Deposits and the other threads *)

\* The steps that grant nothing and pause no source.
LEMMA GrantsNothing ==
    ASSUME IInv, NEW n, Sound(n), Grows(gw, n), SamePauses(gw, n),
           gw.current_height <= n.current_height,
           gw' = Quiet(n), Dated, disk' \in {disk, encode_guard(n)},
           granted' = granted, regranted' = regranted, ledger' = ledger,
           pending' \in BOOLEAN, prepared' \in [Deposits -> Nat]
    PROVE  IInv'
<1> DEFINE tokens == {}
<1>1. /\ tokens \in SUBSET Tokens /\ tokens = {}
      /\ granted' = granted \cup tokens
      /\ regranted' = regranted \cup (granted \cap tokens)
  OBVIOUS
<1> HIDE DEF tokens
<1>2. /\ \A c \in n.paused_sources :
             n.paused_since[c] = IF c \in gw.paused_sources
                                 THEN gw.paused_since[c] ELSE n.current_height
      /\ n.paused_sources \subseteq gw.paused_sources
  BY DEF SamePauses
<1>3. ledger' \subseteq [source_chain: Chains, source_ref: Refs,
                        asset_id: Assets, amount: Nat, epoch: Nat]
  BY DEF IInv, TypeOK
<1>4. QED
  BY <1>1, <1>2, <1>3, GoesThrough

\* Preparing and dropping a deposit touch only the count of requests.
LEMMA InFlightInv ==
    ASSUME IInv, NEW d \in Deposits, prepare_deposit(d) \/ DropDeposit(d)
    PROVE  IInv'
<1>1. prepared' \in [Deposits -> Nat]
  BY DEF prepare_deposit, DropDeposit, IInv, TypeOK
<1>2. UNCHANGED <<gw, disk, pending, granted, regranted, ledger, began>>
  BY DEF prepare_deposit, DropDeposit
<1>3. QED
  BY <1>1, <1>2 DEF IInv, TypeOK, OrdersTakeEffectOnce, PausesDated

\* A commit keeps the invariant: the reference it uses was not used before.
LEMMA CommitDepositInv ==
    ASSUME IInv, NEW d \in Deposits, CommitDeposit(d)
    PROVE  IInv'
<1> DEFINE n == record_mint(gw, d)
           token == <<"Mint", d.source_chain, d.source_ref>>
           tokens == {token}
<1>1. d.source_chain \in Chains /\ d.source_ref \in Refs /\ d.amount \in Nat
  BY BridgeAssumption
<1>2. Live(gw) /\ gw \in GatewayState /\ gw.current_height \in Nat
  BY InvLive, Marks DEF Live, Sound
<1>3. within_budget(gw, d)
  BY DEF CommitDeposit, can_commit_deposit, can_admit_trustless,
         precheck_trustless, can_process_deposit
<1>4. /\ Step(gw, n)
      /\ <<d.source_chain, d.source_ref>> \in n.used_refs
      /\ <<d.source_chain, d.source_ref>> \notin gw.used_refs
      /\ d.asset_id \in Assets
  BY <1>1, <1>2, <1>3, MintStep
<1>5. /\ prepared' \in [Deposits -> Nat]
      /\ Dated
  BY DEF CommitDeposit, IInv, TypeOK
<1>6. \/ /\ gw' = Quiet(n)
         /\ disk' = encode_guard(n)
         /\ granted' = granted \cup tokens
         /\ regranted' = regranted \cup (granted \cap tokens)
         /\ ledger' = ledger \cup {Minted(d)}
         /\ pending' = pending
      \/ RollBack(n)
  BY DEF CommitDeposit, admit_trustless, process_deposit
<1> HIDE DEF n
<1>7. CASE RollBack(n)
  BY <1>4, <1>5, <1>7, RolledBack
<1>8. CASE ~RollBack(n)
  <2>1. tokens \in SUBSET Tokens
    BY <1>1 DEF Tokens
  <2>2. \A t \in tokens : Holds(n, t) /\ (t[1] = "EarlyReorg" \/ ~Holds(gw, t))
    BY <1>4 DEF Holds, Remembers
  <2> HIDE DEF tokens
  <2>3. ledger' \subseteq [source_chain: Chains, source_ref: Refs,
                          asset_id: Assets, amount: Nat, epoch: Nat]
    <3>1. gw.current_epoch \in Nat
      BY <1>2 DEF GatewayState
    <3>2. Minted(d) \in [source_chain: Chains, source_ref: Refs,
                         asset_id: Assets, amount: Nat, epoch: Nat]
      BY <1>1, <1>4, <3>1 DEF Minted
    <3>3. QED
      BY <1>6, <1>8, <3>2 DEF IInv, TypeOK
  <2>4. pending' \in BOOLEAN
    BY <1>6, <1>8 DEF IInv, TypeOK
  <2>5. /\ Sound(n) /\ Grows(gw, n)
        /\ gw.current_height <= n.current_height
        /\ \A c \in n.paused_sources :
               n.paused_since[c] = IF c \in gw.paused_sources
                                   THEN gw.paused_since[c]
                                   ELSE n.current_height
    BY <1>2, <1>4 DEF Step
  <2>6. QED
    BY <1>5, <1>6, <1>8, <2>1, <2>2, <2>3, <2>4, <2>5, GoesThrough
<1>9. QED
  BY <1>7, <1>8

\* A tick of the clock keeps the invariant; the disk is not written.
LEMMA ClockTickInv ==
    ASSUME IInv, NEW h \in 1..MaxHeight, NEW e \in 0..MaxEpoch, ClockTick(h, e)
    PROVE  IInv'
<1> DEFINE n == advance_epoch_to(advance_to(gw, h), e)
<1>1. h \in Nat /\ e \in Nat /\ Live(gw)
  BY BridgeAssumption, InvLive
<1>2. /\ Sound(n) /\ Grows(gw, n) /\ SamePauses(gw, n)
      /\ gw.current_height <= n.current_height
  BY <1>1, ClockGrows
<1>3. /\ gw' = Quiet(n) /\ Dated /\ disk' = disk
      /\ UNCHANGED <<pending, prepared, granted, regranted, ledger>>
  BY DEF ClockTick
<1> HIDE DEF n
<1>4. pending' \in BOOLEAN /\ prepared' \in [Deposits -> Nat]
  BY <1>3 DEF IInv, TypeOK
<1>5. QED
  BY <1>2, <1>3, <1>4, GrantsNothing

\* An accepted reserve report keeps the invariant; the disk is not written.
LEMMA ReserveReportInv ==
    ASSUME IInv, NEW r \in Reports, ReserveReport(r)
    PROVE  IInv'
<1> DEFINE n == attest_reserve(gw, r.asset_id, r.escrowed, r.at_height)
<1>1. /\ r.escrowed \in Nat /\ r.at_height \in Nat
      /\ Sound(gw) /\ gw \in GatewayState /\ gw.current_height \in Nat
  BY BridgeAssumption, InvLive, Marks DEF Live, Sound
<1>2. /\ check_reserve(gw, r.asset_id, r.at_height, r.sigs)
      /\ gw' = Quiet(n) /\ Dated /\ disk' = disk /\ pending' = TRUE
      /\ UNCHANGED <<prepared, granted, regranted, ledger>>
  BY DEF ReserveReport
<1>3. Step(gw, n)
  BY <1>1, <1>2, AttestReserveStep
<1>4. SamePauses(gw, n)
  BY <1>1 DEF attest_reserve, pause_all, SamePauses, GatewayState
<1> HIDE DEF n
<1>5. prepared' \in [Deposits -> Nat]
  BY <1>2 DEF IInv, TypeOK
<1>6. Sound(n) /\ Grows(gw, n) /\ gw.current_height <= n.current_height
  BY <1>1, <1>3 DEF Step
<1>7. QED
  BY <1>2, <1>4, <1>5, <1>6, GrantsNothing

\* A reserve tick keeps the invariant, whichever of its writes fail.
LEMMA ReserveTickInv ==
    ASSUME IInv, NEW recorded \in BOOLEAN, NEW saved \in BOOLEAN,
           ReserveTick(recorded, saved)
    PROVE  IInv'
<1> DEFINE n == enforce_reserves(gw)
<1>1. Sound(gw) /\ gw \in GatewayState /\ gw.current_height \in Nat
  BY InvLive, Marks DEF Live, Sound
<1>2. n \in {gw, pause_all(gw)}
  BY DEF enforce_reserves
<1>3. Step(gw, gw)
  BY <1>1, SameMarksStep DEF SameMarks, SamePauses, SameHorizons, SameRest
<1>4. Step(gw, n)
  BY <1>1, <1>2, <1>3, PauseAllStep
<1>5. SamePauses(gw, n)
  BY <1>1, <1>2 DEF pause_all, SamePauses, GatewayState
<1>6. /\ gw' = Quiet(n) /\ Dated
      /\ disk' \in {disk, encode_guard(n)}
      /\ pending' \in BOOLEAN
      /\ UNCHANGED <<prepared, granted, regranted, ledger>>
  BY DEF ReserveTick
<1> HIDE DEF n
<1>7. prepared' \in [Deposits -> Nat]
  BY <1>6 DEF IInv, TypeOK
<1>8. Sound(n) /\ Grows(gw, n) /\ gw.current_height <= n.current_height
  BY <1>1, <1>4 DEF Step
<1>9. QED
  BY <1>5, <1>6, <1>7, <1>8, GrantsNothing

\* A restart keeps the invariant: the disk holds all that was granted.
LEMMA RestartInv ==
    ASSUME IInv, Restart
    PROVE  IInv'
<1>1. Live(gw) /\ Sound(disk) /\ granted \subseteq Tokens
  BY InvLive
<1>2. /\ gw' = restore_into(disk) /\ Dated /\ disk' = disk
      /\ pending' = FALSE
      /\ prepared' = [d \in Deposits |-> 0]
      /\ UNCHANGED <<granted, regranted, ledger>>
  BY DEF Restart
<1>3. /\ Live(gw') /\ Grows(disk, gw') /\ ~gw'.touched
      /\ gw'.current_height = disk.current_height
      /\ gw'.paused_sources = disk.paused_sources
      /\ \A c \in gw'.paused_sources : gw'.paused_since[c] = disk.current_height
  BY <1>1, <1>2, RestoreGrows
<1>4. /\ disk \in GatewayState /\ gw' \in GatewayState
      /\ gw.current_height \in Nat /\ disk.current_height \in Nat
  BY <1>1, <1>3, Marks DEF Live, Sound
<1>5. Keeps(disk, gw')
  BY <1>3, <1>4, GrowsKeeps
<1>6. \A t \in granted' : Holds(gw', t) /\ Holds(disk', t)
  BY <1>1, <1>2, <1>5 DEF IInv, Keeps
<1>7. PausesDated' /\ began' \in [Chains -> Maybe(Nat)]
  <2>1. \A c \in gw'.paused_sources :
            c \in gw.paused_sources => began[c] <= disk.current_height
    BY <1>3 DEF IInv, PausesDated
  <2>2. Sound(disk')
    BY <1>1, <1>2
  <2>3. gw'.current_height \in Nat
    BY <1>3, <1>4
  <2>4. \A c \in gw'.paused_sources :
            IF c \in gw.paused_sources
            THEN /\ began[c] <= gw'.paused_since[c]
                 /\ c \in disk'.paused_sources =>
                        began[c] <= disk'.current_height
            ELSE /\ gw'.current_height <= gw'.paused_since[c]
                 /\ c \in disk'.paused_sources =>
                        gw'.current_height <= disk'.current_height
    BY <1>2, <1>3, <1>4, <2>1
  <2>5. QED
    BY <1>2, <1>3, <1>4, <2>2, <2>3, <2>4, DatesKept
<1>8. TypeOK'
  BY <1>2, <1>3, <1>4, <1>7 DEF TypeOK, IInv
<1>9. QED
  BY <1>1, <1>2, <1>3, <1>6, <1>7, <1>8 DEF IInv, OrdersTakeEffectOnce, Live

-----------------------------------------------------------------------------
(* The theorems *)

\* The first boot establishes the invariant.
LEMMA InitInv == Init => IInv
<1> SUFFICES ASSUME Init
             PROVE  IInv
  OBVIOUS
<1>1. /\ Sound(Booted) /\ ~Booted.touched
      /\ Booted.current_height = 0
      /\ Booted.paused_sources = {}
      /\ Booted \in GatewayState
  BY BootedSound DEF Sound
<1>2. /\ gw \in GatewayState /\ SameMarks(Booted, gw) /\ ~gw.touched
  BY <1>1, ReservesApplied DEF Init
<1>3. Sound(gw) /\ gw.paused_sources = {}
  BY <1>1, <1>2, SameMarksStep DEF Step, SameMarks, SamePauses
<1>4. Sound(disk) /\ ~disk.touched
  BY <1>1, EncodeGrows DEF Init
<1>5. TypeOK
  BY <1>2, <1>4 DEF Init, TypeOK, Sound, Maybe
<1>6. QED
  BY <1>3, <1>4, <1>5 DEF Init, IInv, OrdersTakeEffectOnce, PausesDated

\* Every step of the daemon keeps the invariant.
LEMMA NextInv == IInv /\ [Next]_vars => IInv'
<1> SUFFICES ASSUME IInv, [Next]_vars
             PROVE  IInv'
  OBVIOUS
<1>1. CASE \E o \in Order("ReportReorg") : ReportReorg(o)
  BY <1>1, ReportReorgInv
<1>2. CASE \E o \in Order("ResumeSource") : ResumeSource(o)
  BY <1>2, ResumeSourceInv
<1>3. CASE \E o \in Order("ResumeAll") : ResumeAll(o)
  BY <1>3, ResumeAllInv
<1>4. CASE \E o \in Order("EmergencyFreeze") : EmergencyFreeze(o)
  BY <1>4, EmergencyFreezeInv
<1>5. CASE \E o \in Order("WatchdogFreeze") : WatchdogFreeze(o)
  BY <1>5, WatchdogFreezeInv
<1>6. CASE \E o \in Order("SetCorridorTier") : SetCorridorTier(o)
  BY <1>6, SetCorridorTierInv
<1>7. CASE RefusedRequest
  BY <1>7, RefusedRequestInv
<1>8. CASE \E d \in Deposits :
               prepare_deposit(d) \/ DropDeposit(d) \/ CommitDeposit(d)
  BY <1>8, InFlightInv, CommitDepositInv
<1>9. CASE \E h \in 1..MaxHeight, e \in 0..MaxEpoch : ClockTick(h, e)
  BY <1>9, ClockTickInv
<1>10. CASE \E r \in Reports : ReserveReport(r)
  BY <1>10, ReserveReportInv
<1>11. CASE \E recorded, saved \in BOOLEAN : ReserveTick(recorded, saved)
  BY <1>11, ReserveTickInv
<1>12. CASE Restart
  BY <1>12, RestartInv
<1>13. CASE UNCHANGED vars
  BY <1>13 DEF vars, IInv, TypeOK, OrdersTakeEffectOnce, PausesDated
<1>14. QED
  BY <1>1, <1>2, <1>3, <1>4, <1>5, <1>6, <1>7, <1>8, <1>9, <1>10, <1>11,
     <1>12, <1>13 DEF Next

\* The invariant holds in every reachable state.
LEMMA Invariance == Spec => []IInv
BY InitInv, NextInv, PTL DEF Spec

\* The gateway in memory and the snapshot on disk always have the types of
\* struct Gateway, for every deployment.
THEOREM TypeCorrect == Spec => []TypeOK
<1>1. IInv => TypeOK
  BY DEF IInv
<1>2. QED
  BY <1>1, Invariance, PTL

\* No failed save, retry or restart makes the daemon forget a request it
\* has answered with success (persist_if_advanced, persist_or_rollback,
\* rehydrate_guard, restore_into).
THEOREM AcknowledgedIsDurable == Spec => []AckedIsDurable
<1>1. IInv => AckedIsDurable
  BY DEF IInv, AckedIsDurable, Holds
<1>2. QED
  BY <1>1, Invariance, PTL

\* No signed order and no deposit takes effect twice, but for a reorg report
\* dated ahead of the clock (reorg_fresh and the other freshness checks).
THEOREM TakesEffectOnce == Spec => []OrdersTakeEffectOnce
<1>1. IInv => OrdersTakeEffectOnce
  BY DEF IInv
<1>2. QED
  BY <1>1, Invariance, PTL

\* No stored height, in memory or in the snapshot, is further ahead of the
\* clock than the window of the order that set it.
THEOREM NobodyLockedOut == Spec => []NoLockout
<1>1. IInv => NoLockout
  BY DEF IInv, NoLockout, Sound
<1>2. QED
  BY <1>1, Invariance, PTL

\* A pause never loses its date to a rollback or to a restart, although the
\* snapshot does not contain it (rehydrate_guard, paused_since).
THEOREM PauseDatesSurvive == Spec => []PauseDateSurvives
<1>1. IInv => PauseDateSurvives
  <2> SUFFICES ASSUME IInv, NEW c \in gw.paused_sources
               PROVE  gw.paused_since[c] # None /\ gw.paused_since[c] >= began[c]
    BY DEF PauseDateSurvives
  <2>1. c \in Chains /\ gw.paused_since[c] \in Int
    BY InvLive, Marks DEF Live, Sound
  <2>2. QED
    BY <2>1 DEF IInv, PausesDated
<1>2. QED
  BY <1>1, Invariance, PTL

\* A deposit that was prepared before a halt does not mint after it
\* (commit_deposit makes every check again).
THEOREM HaltsStopMints == Spec => NoMintWhileHalted
<1>1. [Next]_vars =>
          [\A m \in ledger' \ ledger : mint_open(gw, m.source_chain)]_vars
  <2> SUFFICES ASSUME Next, NEW m \in ledger' \ ledger
               PROVE  mint_open(gw, m.source_chain)
    BY DEF vars
  <2>1. PICK d \in Deposits : CommitDeposit(d)
    BY DEF Next, ReportReorg, ResumeSource, ResumeAll, EmergencyFreeze,
           WatchdogFreeze, SetCorridorTier, RefusedRequest, prepare_deposit,
           DropDeposit, ClockTick, ReserveReport, ReserveTick, Restart,
           persist_if_advanced, RollBack
  <2>2. m = Minted(d)
    BY <2>1 DEF CommitDeposit, RollBack
  <2>3. mint_open(gw, d.source_chain)
    BY <2>1 DEF CommitDeposit, can_commit_deposit, can_admit_trustless,
                precheck_trustless, can_process_deposit, precheck_deposit
  <2>4. QED
    BY <2>2, <2>3 DEF Minted
<1>2. QED
  BY <1>1, PTL DEF Spec, NoMintWhileHalted

\* A new watchdog freeze is spaced from all that were granted before it.
LEMMA GapsKept ==
    IInv /\ WatchdogsLeaveGaps /\ [Next]_vars => WatchdogsLeaveGaps'
<1> SUFFICES ASSUME IInv, WatchdogsLeaveGaps, [Next]_vars
             PROVE  WatchdogsLeaveGaps'
  OBVIOUS
<1> DEFINE Dogs(S) == {u \in S : u[1] = "WatchdogFreeze"}
<1>1. ASSUME NEW o \in Order("WatchdogFreeze"), WatchdogFreeze(o)
      PROVE  WatchdogsLeaveGaps'
  <2> DEFINE op == o.sigs[1].operator_id
             new == <<o.kind, op, o.mark>>
  <2>1. granted' \subseteq granted \cup {new}
    BY <1>1 DEF WatchdogFreeze, persist_if_advanced, RollBack
  <2>2. /\ o.mark \in Nat
        /\ gw \in GatewayState /\ gw.current_height \in Nat
        /\ gw.deposit_frozen_until \in Nat
        /\ WATCHDOG_MAX_WINDOW \in Nat /\ WATCHDOG_COOLDOWN \in Nat
    BY InvLive, Marks, BridgeAssumption, GatewayAssumption
       DEF Live, Sound, Order
  <2>3. /\ o.mark > gw.current_height
        /\ op \in Operators
        /\ \/ gw.watchdog_last[op] = None
           \/ gw.current_height >= gw.watchdog_last[op] + WATCHDOG_COOLDOWN
        /\ \/ gw.deposit_frozen_until = 0
           \/ gw.current_height >= gw.deposit_frozen_until + WATCHDOG_MAX_WINDOW
    BY <1>1 DEF WatchdogFreeze, can_watchdog_freeze, verified_quorum
  <2>4. gw.watchdog_last[op] \in Int
    BY <2>2, <2>3, Marks
  <2>5. \A s \in Dogs(granted) :
            /\ s[3] \in Nat /\ 0 < s[3]
            /\ s[3] <= gw.deposit_frozen_until
            /\ s[2] = op => /\ 0 <= gw.watchdog_last[op]
                            /\ s[3] <= gw.watchdog_last[op] + WATCHDOG_MAX_WINDOW
    <3> SUFFICES ASSUME NEW s \in granted, s[1] = "WatchdogFreeze"
                 PROVE  /\ s[3] \in Nat /\ 0 < s[3]
                        /\ s[3] <= gw.deposit_frozen_until
                        /\ s[2] = op =>
                              /\ 0 <= gw.watchdog_last[op]
                              /\ s[3] <= gw.watchdog_last[op] + WATCHDOG_MAX_WINDOW
      OBVIOUS
    <3>1. s \in Tokens /\ Holds(gw, s)
      BY InvLive DEF IInv
    <3>2. s[3] \in Nat
      BY <3>1 DEF Tokens
    <3>3. QED
      BY <3>1, <3>2 DEF Holds, Remembers
  <2>6. new[3] = o.mark /\ new[2] = op
    OBVIOUS
  <2> HIDE DEF new, op
  <2>7. \A s \in Dogs(granted) :
            /\ s[3] + WATCHDOG_MAX_WINDOW < new[3]
            /\ s[2] = new[2] =>
                  s[3] + WATCHDOG_COOLDOWN < new[3] + WATCHDOG_MAX_WINDOW
    BY <2>2, <2>3, <2>4, <2>5, <2>6 DEF None
  <2>8. \A s \in Dogs(granted) : ~(new[3] <= s[3])
    BY <2>2, <2>5, <2>6, <2>7
  <2>9. QED
    BY <2>1, <2>7, <2>8 DEF WatchdogsLeaveGaps
<1>2. ASSUME ~ \E o \in Order("WatchdogFreeze") : WatchdogFreeze(o)
      PROVE  Dogs(granted') \subseteq Dogs(granted)
  <2>1. CASE \E o \in Order("ReportReorg") : ReportReorg(o)
    BY <2>1 DEF ReportReorg, persist_if_advanced, RollBack, Order
  <2>2. CASE \E o \in Order("ResumeSource") : ResumeSource(o)
    BY <2>2 DEF ResumeSource, persist_if_advanced, RollBack, Order, Token
  <2>3. CASE \E o \in Order("ResumeAll") : ResumeAll(o)
    BY <2>3 DEF ResumeAll, persist_if_advanced, RollBack, Order, Token
  <2>4. CASE \E o \in Order("EmergencyFreeze") : EmergencyFreeze(o)
    BY <2>4 DEF EmergencyFreeze, persist_if_advanced, RollBack, Order, Token
  <2>5. CASE \E o \in Order("SetCorridorTier") : SetCorridorTier(o)
    BY <2>5 DEF SetCorridorTier, persist_if_advanced, RollBack, Order, Token
  <2>6. CASE RefusedRequest
    BY <2>6 DEF RefusedRequest, persist_if_advanced, RollBack
  <2>7. CASE \E d \in Deposits : CommitDeposit(d)
    BY <2>7 DEF CommitDeposit, RollBack
  <2>8. CASE granted' = granted
    BY <2>8
  <2>9. QED
    BY <1>2, <2>1, <2>2, <2>3, <2>4, <2>5, <2>6, <2>7, <2>8
       DEF Next, vars, prepare_deposit, DropDeposit, ClockTick, ReserveReport,
           ReserveTick, Restart
<1>3. CASE Dogs(granted') \subseteq Dogs(granted)
  BY <1>3 DEF WatchdogsLeaveGaps
<1>4. QED
  BY <1>1, <1>2, <1>3

\* For any windows and any number of operators, single operators cannot
\* chain their freezes into one that lasts (watchdog_freeze).
THEOREM WatchdogsCannotChain == Spec => []WatchdogsLeaveGaps
<1>1. Init => WatchdogsLeaveGaps
  BY DEF Init, WatchdogsLeaveGaps
<1>2. QED
  BY <1>1, GapsKept, Invariance, PTL DEF Spec

-----------------------------------------------------------------------------
(***************************************************************************)
(* What the daemon of GuardedBridge mints, for every deployment: the mints *)
(* it has answered add up to no more than the caps, over its whole history *)
(* and in each epoch, and it does not run on with less custody than        *)
(* supply.                                                                 *)
(*                                                                         *)
(* The caps are held against figures that the gateway keeps, and the       *)
(* figures come back from the snapshot after a failed save or a restart.   *)
(* So the invariant says of both, of the gateway in memory and of the      *)
(* snapshot, that its figures account for every mint in the history        *)
(* (Covered): an asset's supply for all mints of the asset, the epoch's    *)
(* count for all mints of the epoch it is in, and no mint is of a later    *)
(* epoch.  A mint that is rolled back may leave a snapshot whose figures   *)
(* count too much, never one that counts too little.                       *)
(*                                                                         *)
(* For solvency it also says where an escrow figure comes from: without a  *)
(* report it is not above the static one, which is what a restart puts in  *)
(* its place.                                                              *)
(***************************************************************************)

Mints == [source_chain : Chains, source_ref : Refs, asset_id : Assets, amount : Nat, epoch : Nat]

Amounts(S) == SumFunction([m \in S |-> m.amount])
OfAsset(L, a) == {m \in L : m.asset_id = a}
OfEpoch(L, e) == {m \in L : m.epoch = e}

\* The figures a gateway keeps of its mints.
Figures(g) ==
    /\ g.per_asset_minted \in [Assets -> Nat]
    /\ g.escrowed \in [Assets -> Nat]
    /\ g.reserve_reported_at \in [Assets -> Maybe(Nat)]
    /\ g.epoch_minted \in Nat /\ g.current_epoch \in Nat
    /\ g.global_pause \in BOOLEAN
    /\ g.pending_exits = {}

\* The figures of g account for the mints L.
Counts(g, L) ==
    /\ \A a \in Assets : Amounts(OfAsset(L, a)) <= g.per_asset_minted[a]
    /\ \A m \in L : m.epoch <= g.current_epoch
    /\ Amounts(OfEpoch(L, g.current_epoch)) <= g.epoch_minted

\* The custody of g is enough, or g is paused; it is enough by the static
\* figure too where no report has come.
Backed(g) ==
    /\ g.global_pause \/ \A a \in Assets : g.per_asset_minted[a] <= g.escrowed[a]
    /\ \A a \in Assets : g.reserve_reported_at[a] = None => g.escrowed[a] <= StaticReserves[a]

Covered(g, L) == Figures(g) /\ Counts(g, L) /\ Backed(g)

Capped(L) ==
    /\ \A a \in Assets : Amounts(OfAsset(L, a)) <= AssetCap[a]
    /\ \A e \in Nat : Amounts(OfEpoch(L, e)) <= EpochCap

\* The inductive invariant.
SupplyInv ==
    /\ IsFiniteSet(ledger) /\ ledger \subseteq Mints
    /\ Covered(gw, ledger) /\ Covered(disk, ledger)
    /\ Capped(ledger)

-----------------------------------------------------------------------------
(* Inductions of mints *)

\* One mint more adds at most its amount.
LEMMA AmountsMore ==
    ASSUME NEW S, IsFiniteSet(S), S \subseteq Mints, NEW m \in Mints
    PROVE  /\ Amounts(S) \in Nat /\ Amounts(S \cup {m}) \in Nat
           /\ Amounts(S \cup {m}) <= Amounts(S) + m.amount
           /\ S = {} => Amounts(S) = 0
<1> DEFINE h == [x \in S |-> x.amount]
           q == m.amount
           w == [x \in S \cup {m} |-> IF x = m THEN q ELSE h[x]]
<1>1. h \in [S -> Nat] /\ q \in Nat
  BY DEF Mints
<1>2. Amounts(S) = SumFunction(h)
  BY DEF Amounts
<1>3. Amounts(S) \in Nat /\ (S = {} => Amounts(S) = 0)
  <2> HIDE DEF h
  <2> QED BY <1>1, <1>2, SumRemove
<1>4. CASE m \in S
  <2>1. S \cup {m} = S
    BY <1>4
  <2>2. Amounts(S \cup {m}) = Amounts(S)
    BY <2>1
  <2> QED BY <1>1, <1>3, <2>2
<1>5. CASE m \notin S
  <2>1. [x \in S \cup {m} |-> x.amount] = w
    OBVIOUS
  <2>2. Amounts(S \cup {m}) = SumFunction(w)
    BY <2>1 DEF Amounts
  <2> HIDE DEF h, q
  <2>3. SumFunction(w) = SumFunction(h) + q
    BY <1>1, <1>5, SumAdd
  <2> HIDE DEF w
  <2>4. Amounts(S \cup {m}) = Amounts(S) + q
    BY <1>2, <2>2, <2>3
  <2> QED BY <1>1, <1>3, <2>4 DEF q
<1> QED BY <1>4, <1>5

\* The mints of an asset or an epoch are finitely many.
LEMMA Parts ==
    ASSUME NEW L, IsFiniteSet(L), L \subseteq Mints, NEW k
    PROVE  /\ IsFiniteSet(OfAsset(L, k)) /\ OfAsset(L, k) \subseteq Mints
           /\ IsFiniteSet(OfEpoch(L, k)) /\ OfEpoch(L, k) \subseteq Mints
  BY FS_Subset DEF OfAsset, OfEpoch

\* A sum of mints is a number.
LEMMA AmountsNat ==
    ASSUME NEW S, IsFiniteSet(S), S \subseteq Mints
    PROVE  Amounts(S) \in Nat /\ (S = {} => Amounts(S) = 0)
<1> DEFINE h == [x \in S |-> x.amount]
<1>1. h \in [S -> Nat]
  BY DEF Mints
<1>2. Amounts(S) = SumFunction(h)
  BY DEF Amounts
<1> HIDE DEF h
<1> QED BY <1>1, <1>2, SumRemove

\* Without exits under way the outstanding supply is what was minted.
LEMMA OutstandingIs ==
    ASSUME NEW g, Figures(g), NEW a \in Assets
    PROVE  outstanding(g, a) = g.per_asset_minted[a] /\ g.per_asset_minted[a] \in Nat
<1> DEFINE S == {t \in g.pending_exits : t.asset_id = a}
           h == [t \in S |-> t.amount]
<1>1. S = {}
  BY DEF Figures
<1>2. IsFiniteSet(S)
  BY <1>1, FS_EmptySet
<1>3. h \in [S -> Nat]
  BY <1>1
<1>4. SumFunction(h) = 0
  <2> HIDE DEF S, h
  <2> QED BY <1>1, <1>2, <1>3, SumRemove
<1>5. g.per_asset_minted[a] \in Nat
  BY DEF Figures
<1> QED BY <1>4, <1>5 DEF outstanding, pending_exit_of

-----------------------------------------------------------------------------
(* What the methods do to the figures *)

SameFigures(g, n) ==
    /\ n.per_asset_minted = g.per_asset_minted
    /\ n.escrowed = g.escrowed
    /\ n.reserve_reported_at = g.reserve_reported_at
    /\ n.epoch_minted = g.epoch_minted /\ n.current_epoch = g.current_epoch
    /\ n.global_pause = g.global_pause
    /\ n.pending_exits = g.pending_exits

\* A gateway with the same figures accounts for the same mints.
LEMMA SameCovered ==
    ASSUME NEW g, NEW n, NEW L, Covered(g, L), SameFigures(g, n)
    PROVE  Covered(n, L)
<1>1. Figures(n) /\ Counts(n, L) /\ Backed(n)
  BY DEF Covered, SameFigures, Figures, Counts, Backed
<1> QED BY <1>1 DEF Covered

\* Neither the encoding nor a rollback touches the figures.
LEMMA FiguresKept ==
    ASSUME NEW g
    PROVE  /\ SameFigures(g, Quiet(g)) /\ SameFigures(g, encode_guard(g))
           /\ \A n : SameFigures(g, Quiet(rehydrate_guard(n, encode_guard(g))))
  BY DEF SameFigures, Quiet, encode_guard, rehydrate_guard

\* Nor do the orders about sources, freezes and corridors.
LEMMA OrdersKeepFigures ==
    ASSUME NEW g, NEW c, NEW h
    PROVE  /\ SameFigures(g, report_reorg(g, c)) /\ SameFigures(g, resume_source(g, c, h))
           /\ SameFigures(g, emergency_freeze(g, h)) /\ SameFigures(g, watchdog_freeze(g, c, h))
           /\ SameFigures(g, set_corridor_tier(g, c, h)) /\ SameFigures(g, advance_to(g, h))
           /\ SameFigures(g, g)
  BY DEF SameFigures, report_reorg, resume_source, emergency_freeze, watchdog_freeze,
         set_corridor_tier, advance_to

\* A gateway that is not short of custody may be resumed.
LEMMA ResumeCovered ==
    ASSUME NEW g \in GatewayState, NEW L, Covered(g, L), NEW h, NEW sigs, check_unpause(g, h, sigs)
    PROVE  Covered(resume_all(g, h), L)
<1> DEFINE n == resume_all(g, h)
<1>1. /\ n.per_asset_minted = g.per_asset_minted /\ n.escrowed = g.escrowed
      /\ n.reserve_reported_at = g.reserve_reported_at /\ n.epoch_minted = g.epoch_minted
      /\ n.current_epoch = g.current_epoch /\ n.pending_exits = g.pending_exits
      /\ n.global_pause = FALSE
  BY DEF resume_all, GatewayState
<1>2. \A a \in Assets : g.per_asset_minted[a] <= g.escrowed[a]
  <2> TAKE a \in Assets
  <2>1. ~(outstanding(g, a) > larger(g.escrowed[a], 0))
    BY DEF check_unpause, short_reserve
  <2>2. outstanding(g, a) = g.per_asset_minted[a] /\ g.per_asset_minted[a] \in Nat /\ g.escrowed[a] \in Nat
    BY OutstandingIs DEF Covered, Figures
  <2> QED BY <2>1, <2>2 DEF larger
<1> HIDE DEF n
<1>3. Figures(n) /\ Counts(n, L) /\ Backed(n)
  BY <1>1, <1>2 DEF Covered, Figures, Counts, Backed
<1> QED BY <1>3 DEF Covered, n

\* A pause leaves the figures, and is enough.
LEMMA PauseCovered ==
    ASSUME NEW g \in GatewayState, NEW L, Covered(g, L)
    PROVE  Covered(pause_all(g), L)
<1> DEFINE n == pause_all(g)
<1>1. /\ n.per_asset_minted = g.per_asset_minted /\ n.escrowed = g.escrowed
      /\ n.reserve_reported_at = g.reserve_reported_at /\ n.epoch_minted = g.epoch_minted
      /\ n.current_epoch = g.current_epoch /\ n.pending_exits = g.pending_exits
      /\ n.global_pause = TRUE
  BY DEF pause_all, GatewayState
<1> HIDE DEF n
<1>2. Figures(n) /\ Counts(n, L) /\ Backed(n)
  BY <1>1 DEF Covered, Figures, Counts, Backed
<1> QED BY <1>2 DEF Covered, n

\* A report that finds too little pauses the gateway.
LEMMA ReportCovered ==
    ASSUME NEW g \in GatewayState, NEW L, Covered(g, L), NEW a \in Assets, NEW e \in Nat, NEW h \in Nat
    PROVE  Covered(attest_reserve(g, a, e, h), L)
<1> DEFINE n == attest_reserve(g, a, e, h)
<1>0. g.per_asset_minted[a] = outstanding(g, a)
  BY OutstandingIs DEF Covered
<1>1. /\ n.per_asset_minted = g.per_asset_minted /\ n.epoch_minted = g.epoch_minted
      /\ n.current_epoch = g.current_epoch /\ n.pending_exits = g.pending_exits
  BY DEF attest_reserve, pause_all
<1>2. /\ n.escrowed = [g.escrowed EXCEPT ![a] = e]
      /\ n.reserve_reported_at = [g.reserve_reported_at EXCEPT ![a] = h]
  BY DEF attest_reserve, pause_all, GatewayState
<1>3. CASE g.per_asset_minted[a] > e
  <2>1. n.global_pause = TRUE
    BY <1>0, <1>3 DEF attest_reserve, pause_all, GatewayState
  <2> HIDE DEF n
  <2>2. Figures(n)
    BY <1>1, <1>2, <2>1 DEF Covered, Figures, Maybe
  <2>3. Counts(n, L)
    BY <1>1 DEF Covered, Counts
  <2>4. Backed(n)
    BY <1>2, <2>1 DEF Covered, Figures, Backed, None
  <2> QED BY <2>2, <2>3, <2>4 DEF Covered, n
<1>4. CASE ~(g.per_asset_minted[a] > e)
  <2>1. n.global_pause = g.global_pause
    BY <1>0, <1>4 DEF attest_reserve
  <2> HIDE DEF n
  <2>2. Figures(n) /\ Counts(n, L) /\ Backed(n)
    BY <1>1, <1>2, <1>4, <2>1 DEF Covered, Figures, Counts, Backed, Maybe, None
  <2> QED BY <2>2 DEF Covered, n
<1> QED BY <1>3, <1>4

\* A new epoch starts at zero, and no mint is of it yet.
LEMMA EpochCovered ==
    ASSUME NEW g \in GatewayState, NEW L, IsFiniteSet(L), L \subseteq Mints, Covered(g, L), NEW e \in Nat
    PROVE  Covered(advance_epoch_to(g, e), L)
<1> DEFINE n == advance_epoch_to(g, e)
<1>1. CASE ~(e > g.current_epoch)
  BY <1>1 DEF advance_epoch_to
<1>2. CASE e > g.current_epoch
  <2>1. /\ n.per_asset_minted = g.per_asset_minted /\ n.escrowed = g.escrowed
        /\ n.reserve_reported_at = g.reserve_reported_at /\ n.pending_exits = g.pending_exits
        /\ n.global_pause = g.global_pause
    BY <1>2 DEF advance_epoch_to
  <2>2. n.epoch_minted = 0 /\ n.current_epoch = e
    BY <1>2 DEF advance_epoch_to, GatewayState
  <2>3. g.current_epoch \in Nat /\ \A m \in L : m.epoch \in Nat /\ m.epoch <= g.current_epoch
    BY DEF Covered, Figures, Counts, Mints
  <2>4. OfEpoch(L, e) = {}
    BY <1>2, <2>3 DEF OfEpoch
  <2>5. Amounts(OfEpoch(L, e)) = 0
    BY <2>4, Parts, AmountsNat
  <2>6. \A m \in L : m.epoch <= e
    BY <1>2, <2>3
  <2> HIDE DEF n
  <2>7. Figures(n) /\ Backed(n)
    BY <2>1, <2>2 DEF Covered, Figures, Backed
  <2>8. Counts(n, L)
    BY <2>1, <2>2, <2>5, <2>6 DEF Covered, Counts
  <2> QED BY <2>7, <2>8 DEF Covered, n
<1> QED BY <1>1, <1>2

\* The mint of d, made by g.
MintOf(g, d) ==
    [source_chain |-> d.source_chain, source_ref |-> d.source_ref,
     asset_id |-> d.asset_id, amount |-> d.amount, epoch |-> g.current_epoch]

\* A mint within the budget is counted, stays within the caps and within
\* custody.  Its figures account for the history with the mint and without.
LEMMA MintCovered ==
    ASSUME NEW g \in GatewayState, NEW L, IsFiniteSet(L), L \subseteq Mints, Covered(g, L), Capped(L),
           NEW d \in Deposits, within_budget(g, d), ~g.global_pause
    PROVE  /\ MintOf(g, d) \in Mints
           /\ Covered(record_mint(g, d), L)
           /\ Covered(record_mint(g, d), L \cup {MintOf(g, d)})
           /\ Capped(L \cup {MintOf(g, d)})
<1> DEFINE n == record_mint(g, d)
           m == MintOf(g, d)
           b == d.asset_id
           q == d.amount
           K == L \cup {m}
           c == g.current_epoch
<1>1. /\ b \in Assets /\ q \in Nat /\ c \in Nat /\ d.source_chain \in Chains /\ d.source_ref \in Refs
      /\ g.per_asset_minted \in [Assets -> Nat] /\ g.epoch_minted \in Nat /\ g.escrowed \in [Assets -> Nat]
  BY BridgeAssumption DEF within_budget, Covered, Figures
<1>2. /\ g.per_asset_minted[b] + q <= AssetCap[b] /\ g.epoch_minted + q <= EpochCap
      /\ g.per_asset_minted[b] + q <= g.escrowed[b]
  <2>1. outstanding(g, b) = g.per_asset_minted[b]
    BY <1>1, OutstandingIs DEF Covered
  <2>2. g.escrowed[b] # None
    BY <1>1 DEF None
  <2> QED BY <2>1, <2>2 DEF within_budget, charge_asset_epoch, charge_asset_escrow
<1>3. m \in Mints /\ m.asset_id = b /\ m.amount = q /\ m.epoch = c
  BY <1>1 DEF MintOf, Mints
<1>4. /\ n.per_asset_minted = [g.per_asset_minted EXCEPT ![b] = @ + q]
      /\ n.epoch_minted = g.epoch_minted + q
  BY DEF record_mint, GatewayState
<1>5. /\ n.escrowed = g.escrowed /\ n.reserve_reported_at = g.reserve_reported_at
      /\ n.current_epoch = c /\ n.global_pause = g.global_pause /\ n.pending_exits = g.pending_exits
  BY DEF record_mint
<1> HIDE DEF n, m, b, q, c
<1>6. Figures(n) /\ Backed(n)
  BY <1>1, <1>2, <1>4, <1>5 DEF Covered, Figures, Backed, c
<1>7. \A a \in Assets : OfAsset(K, a) = IF a = b THEN OfAsset(L, a) \cup {m} ELSE OfAsset(L, a)
  BY <1>3 DEF OfAsset
<1>8. \A e : OfEpoch(K, e) = IF e = c THEN OfEpoch(L, e) \cup {m} ELSE OfEpoch(L, e)
  BY <1>3 DEF OfEpoch
<1> HIDE DEF K
<1>9. ASSUME NEW a \in Assets
      PROVE  /\ Amounts(OfAsset(L, a)) \in Nat /\ Amounts(OfAsset(K, a)) \in Nat
             /\ a = b => Amounts(OfAsset(K, a)) <= Amounts(OfAsset(L, a)) + q
             /\ a # b => Amounts(OfAsset(K, a)) = Amounts(OfAsset(L, a))
  <2>1. IsFiniteSet(OfAsset(L, a)) /\ OfAsset(L, a) \subseteq Mints
    BY Parts
  <2> DEFINE S == OfAsset(L, a)
  <2> HIDE DEF S
  <2>2. /\ Amounts(S) \in Nat /\ Amounts(S \cup {m}) \in Nat
        /\ Amounts(S \cup {m}) <= Amounts(S) + q
    BY <1>3, <2>1, AmountsMore DEF S
  <2>3. OfAsset(K, a) = IF a = b THEN S \cup {m} ELSE S
    BY <1>7 DEF S
  <2> QED BY <2>2, <2>3 DEF S
<1>10. ASSUME NEW e \in Nat
      PROVE  /\ Amounts(OfEpoch(L, e)) \in Nat /\ Amounts(OfEpoch(K, e)) \in Nat
             /\ e = c => Amounts(OfEpoch(K, e)) <= Amounts(OfEpoch(L, e)) + q
             /\ e # c => Amounts(OfEpoch(K, e)) = Amounts(OfEpoch(L, e))
  <2>1. IsFiniteSet(OfEpoch(L, e)) /\ OfEpoch(L, e) \subseteq Mints
    BY Parts
  <2> DEFINE S == OfEpoch(L, e)
  <2> HIDE DEF S
  <2>2. /\ Amounts(S) \in Nat /\ Amounts(S \cup {m}) \in Nat
        /\ Amounts(S \cup {m}) <= Amounts(S) + q
    BY <1>3, <2>1, AmountsMore DEF S
  <2>3. OfEpoch(K, e) = IF e = c THEN S \cup {m} ELSE S
    BY <1>8 DEF S
  <2> QED BY <2>2, <2>3 DEF S
<1>11. /\ \A a \in Assets : Amounts(OfAsset(L, a)) <= g.per_asset_minted[a] /\ Amounts(OfAsset(L, a)) <= AssetCap[a]
       /\ Amounts(OfEpoch(L, c)) <= g.epoch_minted
       /\ \A e \in Nat : Amounts(OfEpoch(L, e)) <= EpochCap
       /\ \A x \in L : x.epoch <= c
  BY DEF Covered, Counts, Capped, c
<1>12. Counts(n, L)
  <2>1. \A a \in Assets : Amounts(OfAsset(L, a)) <= n.per_asset_minted[a]
    BY <1>1, <1>4, <1>9, <1>11
  <2>2. Amounts(OfEpoch(L, c)) <= n.epoch_minted
    BY <1>1, <1>4, <1>10, <1>11
  <2> QED BY <1>5, <1>11, <2>1, <2>2 DEF Counts
<1>13. Counts(n, K)
  <2>1. \A a \in Assets : Amounts(OfAsset(K, a)) <= n.per_asset_minted[a]
    <3> TAKE a \in Assets
    <3>1. CASE a = b
      BY <1>1, <1>4, <1>9, <1>11, <3>1
    <3>2. CASE a # b
      BY <1>1, <1>4, <1>9, <1>11, <3>2
    <3> QED BY <3>1, <3>2
  <2>2. Amounts(OfEpoch(K, c)) <= n.epoch_minted
    BY <1>1, <1>4, <1>10, <1>11
  <2>3. \A x \in K : x.epoch <= c
    BY <1>1, <1>3, <1>11 DEF K
  <2> QED BY <1>5, <2>1, <2>2, <2>3 DEF Counts
<1>14. Capped(K)
  <2>1. \A a \in Assets : Amounts(OfAsset(K, a)) <= AssetCap[a]
    <3> TAKE a \in Assets
    <3>0. AssetCap[a] \in Nat
      BY GatewayAssumption
    <3>1. CASE a = b
      BY <1>1, <1>2, <1>9, <1>11, <3>0, <3>1
    <3>2. CASE a # b
      BY <1>9, <1>11, <3>2
    <3> QED BY <3>1, <3>2
  <2>2. \A e \in Nat : Amounts(OfEpoch(K, e)) <= EpochCap
    <3> TAKE e \in Nat
    <3>0. EpochCap \in Nat
      BY GatewayAssumption
    <3>1. CASE e = c
      BY <1>1, <1>2, <1>10, <1>11, <3>0, <3>1
    <3>2. CASE e # c
      BY <1>10, <1>11, <3>2
    <3> QED BY <3>1, <3>2
  <2> QED BY <2>1, <2>2 DEF Capped
<1> QED BY <1>3, <1>6, <1>12, <1>13, <1>14 DEF Covered, n, m, K

\* The static figures take the place of those that were never reported.
LEMMA ReservesCovered ==
    ASSUME NEW g \in GatewayState, NEW L, Covered(g, L)
    PROVE  Covered(apply_reserves(g), L)
<1> DEFINE n == apply_reserves(g)
<1>1. /\ n.per_asset_minted = g.per_asset_minted /\ n.reserve_reported_at = g.reserve_reported_at
      /\ n.epoch_minted = g.epoch_minted /\ n.current_epoch = g.current_epoch
      /\ n.global_pause = g.global_pause /\ n.pending_exits = g.pending_exits
  BY DEF apply_reserves
<1>2. n.escrowed = [a \in Assets |-> IF g.reserve_reported_at[a] = None THEN StaticReserves[a] ELSE g.escrowed[a]]
  BY DEF apply_reserves, GatewayState
<1> HIDE DEF n
<1>3. /\ g.per_asset_minted \in [Assets -> Nat] /\ g.escrowed \in [Assets -> Nat]
      /\ StaticReserves \in [Assets -> Nat]
      /\ g.global_pause \/ \A a \in Assets : g.per_asset_minted[a] <= g.escrowed[a]
      /\ \A a \in Assets : g.reserve_reported_at[a] = None => g.escrowed[a] <= StaticReserves[a]
  BY BridgeAssumption DEF Covered, Figures, Backed
<1>4. n.escrowed \in [Assets -> Nat] /\ \A a \in Assets : g.escrowed[a] <= n.escrowed[a]
  BY <1>2, <1>3
<1>5. \A a \in Assets : g.reserve_reported_at[a] = None => n.escrowed[a] <= StaticReserves[a]
  BY <1>2, <1>3
<1>6. g.global_pause \/ \A a \in Assets : g.per_asset_minted[a] <= n.escrowed[a]
  BY <1>3, <1>4
<1>7. Figures(n) /\ Counts(n, L)
  BY <1>1, <1>4 DEF Covered, Figures, Counts
<1>8. Backed(n)
  BY <1>1, <1>5, <1>6 DEF Backed
<1> QED BY <1>7, <1>8 DEF Covered, n

\* What a restart brings back accounts for what the snapshot did.
LEMMA RestoreCovered ==
    ASSUME NEW s, Sound(s), NEW L, Covered(s, L)
    PROVE  Covered(restore_into(s), L)
<1> DEFINE m == rehydrate_guard(Booted, s)
<1>1. restore_into(s) = apply_reserves(Quiet(m))
  BY DEF restore_into, Quiet
<1>2. SameFigures(s, Quiet(m))
  BY DEF SameFigures, Quiet, rehydrate_guard
<1>3. Quiet(m) \in GatewayState
  <2>1. Sound(m)
    BY BootedSound, RehydrateGrows DEF Live
  <2> HIDE DEF m
  <2> QED BY <2>1, QuietStep DEF Step, Sound
<1> HIDE DEF m
<1>4. Covered(Quiet(m), L)
  BY <1>2, SameCovered
<1> QED BY <1>1, <1>3, <1>4, ReservesCovered

-----------------------------------------------------------------------------
(* The steps of the daemon *)

\* A request that is rolled back leaves the figures in memory, and on disk
\* its own or the older ones.
LEMMA RollBackCovered ==
    ASSUME NEW L, Covered(gw, L), Covered(disk, L), NEW n, Covered(n, L), RollBack(n)
    PROVE  Covered(gw', L) /\ Covered(disk', L) /\ ledger' = ledger
<1>1. gw' = Quiet(rehydrate_guard(n, encode_guard(gw))) /\ disk' \in {disk, encode_guard(n)} /\ ledger' = ledger
  BY DEF RollBack
<1>2. Covered(gw', L)
  BY <1>1, FiguresKept, SameCovered
<1>3. Covered(encode_guard(n), L)
  BY FiguresKept, SameCovered
<1> QED BY <1>1, <1>2, <1>3

\* So does a request that goes through without a mint.
LEMMA PersistCovered ==
    ASSUME SupplyInv, NEW n, Covered(n, ledger), NEW logged, NEW tokens,
           persist_if_advanced(n, logged, tokens)
    PROVE  SupplyInv'
<1>1. CASE RollBack(n)
  BY <1>1, RollBackCovered DEF SupplyInv
<1>2. CASE gw' = Quiet(n) /\ disk' \in {disk, encode_guard(n)} /\ ledger' = ledger
  <2>1. Covered(Quiet(n), ledger) /\ Covered(encode_guard(n), ledger)
    BY FiguresKept, SameCovered
  <2> QED BY <1>2, <2>1 DEF SupplyInv
<1>3. RollBack(n) \/ (gw' = Quiet(n) /\ disk' \in {disk, encode_guard(n)} /\ ledger' = ledger)
  BY DEF persist_if_advanced
<1> QED BY <1>1, <1>2, <1>3

\* A deposit is committed, or its mint is rolled back.
LEMMA CommitCovered ==
    ASSUME TypeOK, SupplyInv, NEW d \in Deposits, CommitDeposit(d)
    PROVE  SupplyInv'
<1> DEFINE n == record_mint(gw, d)
           m == MintOf(gw, d)
           K == ledger \cup {m}
<1>1. gw \in GatewayState /\ IsFiniteSet(ledger) /\ ledger \subseteq Mints
      /\ Covered(gw, ledger) /\ Covered(disk, ledger) /\ Capped(ledger)
  BY DEF TypeOK, SupplyInv
<1>2. within_budget(gw, d) /\ ~gw.global_pause
  BY DEF CommitDeposit, can_commit_deposit, can_admit_trustless, can_process_deposit,
         precheck_trustless, precheck_deposit, mint_open
<1>3. m \in Mints /\ Covered(n, ledger) /\ Covered(n, K) /\ Capped(K)
  BY <1>1, <1>2, MintCovered
<1>4. \/ gw' = Quiet(n) /\ disk' = encode_guard(n) /\ ledger' = K
      \/ RollBack(n)
  BY DEF CommitDeposit, admit_trustless, process_deposit, Minted, MintOf
<1> HIDE DEF n, m, K
<1>5. CASE RollBack(n)
  BY <1>1, <1>3, <1>5, RollBackCovered DEF SupplyInv
<1>6. CASE gw' = Quiet(n) /\ disk' = encode_guard(n) /\ ledger' = K
  <2>1. Covered(Quiet(n), K) /\ Covered(encode_guard(n), K)
    BY <1>3, FiguresKept, SameCovered
  <2>2. IsFiniteSet(K) /\ K \subseteq Mints
    BY <1>1, <1>3, FS_AddElement DEF K
  <2> QED BY <1>3, <1>6, <2>1, <2>2 DEF SupplyInv
<1> QED BY <1>4, <1>5, <1>6

\* Every step of the daemon keeps the invariant.
LEMMA SupplyNext ==
    ASSUME IInv, SupplyInv, [Next]_vars
    PROVE  SupplyInv'
<1>0. gw \in GatewayState /\ Covered(gw, ledger) /\ Covered(disk, ledger) /\ Sound(disk) /\ TypeOK
      /\ IsFiniteSet(ledger) /\ ledger \subseteq Mints
  BY DEF IInv, TypeOK, SupplyInv
<1>a. ASSUME NEW n, SameFigures(gw, n) PROVE Covered(n, ledger)
  BY <1>0, <1>a, SameCovered
<1>1. ASSUME NEW o \in Order("ReportReorg"), ReportReorg(o) PROVE SupplyInv'
  <2>1. Covered(report_reorg(gw, o.target), ledger)
    BY <1>a, OrdersKeepFigures
  <2> QED BY <1>1, <2>1, PersistCovered DEF ReportReorg
<1>2. ASSUME NEW o \in Order("ResumeSource"), ResumeSource(o) PROVE SupplyInv'
  <2>1. Covered(resume_source(gw, o.target, o.mark), ledger)
    BY <1>a, OrdersKeepFigures
  <2> QED BY <1>2, <2>1, PersistCovered DEF ResumeSource
<1>3. ASSUME NEW o \in Order("ResumeAll"), ResumeAll(o) PROVE SupplyInv'
  <2>1. Covered(resume_all(gw, o.mark), ledger)
    BY <1>0, <1>3, ResumeCovered DEF ResumeAll
  <2> QED BY <1>3, <2>1, PersistCovered DEF ResumeAll
<1>4. ASSUME NEW o \in Order("EmergencyFreeze"), EmergencyFreeze(o) PROVE SupplyInv'
  <2>1. Covered(emergency_freeze(gw, o.mark), ledger)
    BY <1>a, OrdersKeepFigures
  <2> QED BY <1>4, <2>1, PersistCovered DEF EmergencyFreeze
<1>5. ASSUME NEW o \in Order("WatchdogFreeze"), WatchdogFreeze(o) PROVE SupplyInv'
  <2>1. Covered(watchdog_freeze(gw, o.sigs[1].operator_id, o.mark), ledger)
    BY <1>a, OrdersKeepFigures
  <2> QED BY <1>5, <2>1, PersistCovered DEF WatchdogFreeze
<1>6. ASSUME NEW o \in Order("SetCorridorTier"), SetCorridorTier(o) PROVE SupplyInv'
  <2>1. Covered(set_corridor_tier(gw, o.target, o.mark), ledger)
    BY <1>a, OrdersKeepFigures
  <2> QED BY <1>6, <2>1, PersistCovered DEF SetCorridorTier
<1>7. CASE RefusedRequest
  BY <1>0, <1>7, PersistCovered DEF RefusedRequest
<1>8. ASSUME NEW d \in Deposits, CommitDeposit(d) PROVE SupplyInv'
  BY <1>0, <1>8, CommitCovered
<1>9. ASSUME NEW h \in 1 .. MaxHeight, NEW e \in 0 .. MaxEpoch, ClockTick(h, e) PROVE SupplyInv'
  <2> DEFINE n == advance_to(gw, h)
  <2>1. Covered(n, ledger)
    BY <1>a, OrdersKeepFigures
  <2>2. n \in GatewayState /\ e \in Nat
    BY <1>0 DEF advance_to, GatewayState, larger
  <2> HIDE DEF n
  <2>3. Covered(advance_epoch_to(n, e), ledger)
    BY <1>0, <2>1, <2>2, EpochCovered
  <2>4. Covered(Quiet(advance_epoch_to(n, e)), ledger)
    BY <2>3, FiguresKept, SameCovered
  <2>5. gw' = Quiet(advance_epoch_to(n, e)) /\ disk' = disk /\ ledger' = ledger
    BY <1>9 DEF ClockTick, n
  <2> QED BY <2>4, <2>5 DEF SupplyInv
<1>10. ASSUME NEW r \in Reports, ReserveReport(r) PROVE SupplyInv'
  <2> DEFINE n == attest_reserve(gw, r.asset_id, r.escrowed, r.at_height)
  <2>1. r.asset_id \in Assets /\ r.escrowed \in Nat /\ r.at_height \in Nat
    BY <1>10, BridgeAssumption DEF ReserveReport, check_reserve
  <2>2. Covered(n, ledger)
    BY <1>0, <2>1, ReportCovered
  <2>3. gw' = Quiet(n) /\ disk' = disk /\ ledger' = ledger
    BY <1>10 DEF ReserveReport
  <2> HIDE DEF n
  <2>4. Covered(Quiet(n), ledger)
    BY <2>2, FiguresKept, SameCovered
  <2> QED BY <2>3, <2>4 DEF SupplyInv
<1>11. ASSUME NEW recorded \in BOOLEAN, NEW saved \in BOOLEAN, ReserveTick(recorded, saved) PROVE SupplyInv'
  <2> DEFINE n == enforce_reserves(gw)
  <2>1. Covered(n, ledger)
    BY <1>0, PauseCovered DEF enforce_reserves
  <2>2. gw' = Quiet(n) /\ disk' \in {disk, encode_guard(n)} /\ ledger' = ledger
    BY <1>11 DEF ReserveTick
  <2> HIDE DEF n
  <2>3. Covered(Quiet(n), ledger) /\ Covered(encode_guard(n), ledger)
    BY <2>1, FiguresKept, SameCovered
  <2> QED BY <2>2, <2>3 DEF SupplyInv
<1>12. CASE Restart
  <2>1. gw' = restore_into(disk) /\ disk' = disk /\ ledger' = ledger
    BY <1>12 DEF Restart
  <2>2. Covered(restore_into(disk), ledger)
    BY <1>0, RestoreCovered
  <2> QED BY <2>1, <2>2 DEF SupplyInv
<1>13. CASE gw' = gw /\ disk' = disk /\ ledger' = ledger
  BY <1>13 DEF SupplyInv
<1>14. ASSUME NEW d \in Deposits, prepare_deposit(d) \/ DropDeposit(d)
       PROVE  gw' = gw /\ disk' = disk /\ ledger' = ledger
  BY <1>14 DEF prepare_deposit, DropDeposit
<1>15. CASE UNCHANGED vars
  BY <1>13, <1>15 DEF vars
<1> QED BY <1>1, <1>2, <1>3, <1>4, <1>5, <1>6, <1>7, <1>8, <1>9, <1>10, <1>11, <1>12, <1>13, <1>14, <1>15
        DEF Next

\* At the first boot nothing is minted and nothing is in custody.
LEMMA SupplyStart == Init => SupplyInv
<1> SUFFICES ASSUME Init PROVE SupplyInv
  OBVIOUS
<1>1. Booted \in GatewayState /\ ledger = {} /\ gw = apply_reserves(Booted) /\ disk = encode_guard(Booted)
  BY BootedSound DEF Sound, Init
<1>2. /\ Booted.per_asset_minted = [a \in Assets |-> 0] /\ Booted.escrowed = [a \in Assets |-> 0]
      /\ Booted.reserve_reported_at = [a \in Assets |-> None]
      /\ Booted.epoch_minted = 0 /\ Booted.current_epoch = 0
      /\ Booted.global_pause = FALSE /\ Booted.pending_exits = {}
  BY DEF Booted, NewGateway
<1>3. IsFiniteSet({}) /\ {} \subseteq Mints /\ \A k : OfAsset({}, k) = {} /\ OfEpoch({}, k) = {}
  BY FS_EmptySet DEF OfAsset, OfEpoch
<1>4. Amounts({}) = 0
  BY <1>3, AmountsNat
<1>5. Figures(Booted)
  <2>1. Booted.global_pause \in BOOLEAN
    BY <1>2
  <2>2. /\ Booted.per_asset_minted \in [Assets -> Nat] /\ Booted.escrowed \in [Assets -> Nat]
        /\ Booted.reserve_reported_at \in [Assets -> Maybe(Nat)]
    BY <1>2 DEF Maybe
  <2>3. Booted.epoch_minted \in Nat /\ Booted.current_epoch \in Nat
    BY <1>2
  <2> QED BY <1>2, <2>1, <2>2, <2>3 DEF Figures
<1>6. Counts(Booted, {})
  BY <1>2, <1>3, <1>4 DEF Counts
<1>7. Backed(Booted)
  BY <1>2, BridgeAssumption DEF Backed
<1>8. Covered(Booted, {})
  BY <1>5, <1>6, <1>7 DEF Covered
<1>9. Covered(gw, {}) /\ Covered(disk, {})
  BY <1>1, <1>8, ReservesCovered, FiguresKept, SameCovered
<1>10. Capped({})
  BY <1>3, <1>4, GatewayAssumption DEF Capped
<1> QED BY <1>1, <1>3, <1>9, <1>10 DEF SupplyInv

\* The figures in memory and on disk account for every mint that was ever
\* answered, over failed saves, rollbacks and restarts.
THEOREM FiguresAccountForMints == Spec => []SupplyInv
<1>1. IInv /\ SupplyInv /\ [Next]_vars => SupplyInv'
  BY SupplyNext
<1> QED BY <1>1, SupplyStart, Invariance, PTL DEF Spec

\* For any caps, assets and deposits, a reference is minted once and the mints
\* that were answered add up to no more than an asset's cap, over the daemon's
\* whole history (endpoints.rs commit_deposit; gateway.rs precheck_trustless,
\* process_deposit; restore_into).
THEOREM SupplyIsCapped == Spec => []SupplyWithinCap
<1>1. SupplyInv => \A a \in Assets : MintedOf(a) <= AssetCap[a]
  BY DEF SupplyInv, Capped, MintedOf, Amounts, OfAsset
<1>2. OrdersTakeEffectOnce => \A t \in regranted : t[1] # "Mint"
  BY DEF OrdersTakeEffectOnce
<1>3. SupplyInv /\ OrdersTakeEffectOnce => SupplyWithinCap
  BY <1>1, <1>2 DEF SupplyWithinCap
<1> QED BY <1>3, FiguresAccountForMints, TakesEffectOnce, PTL

\* In no epoch is more minted than its cap, although the epoch itself is
\* saved only along with some other change (advance_epoch_to, clock.rs tick).
THEOREM EpochsAreCapped == Spec => []EpochBudget
<1>1. SupplyInv => EpochBudget
  <2> SUFFICES ASSUME SupplyInv, NEW m \in ledger PROVE MintedIn(m.epoch) <= EpochCap
    BY DEF EpochBudget
  <2>1. m.epoch \in Nat
    BY DEF SupplyInv, Mints
  <2> QED BY <2>1 DEF SupplyInv, Capped, MintedIn, Amounts, OfEpoch
<1> QED BY <1>1, FiguresAccountForMints, PTL

\* The gateway in memory and the one on disk are paused whenever their
\* custody is below their supply (attest_reserve, check_unpause,
\* apply_reserves).
THEOREM StaysSolventOrPaused == Spec => []SolventOrPaused
<1>1. SupplyInv => SolventOrPaused
  <2> SUFFICES ASSUME NEW g, NEW L, Covered(g, L) PROVE SolventOrHalted(g)
    BY DEF SupplyInv, SolventOrPaused
  <2>1. \A a \in Assets : outstanding(g, a) = g.per_asset_minted[a]
    BY OutstandingIs DEF Covered
  <2> QED BY <2>1 DEF SolventOrHalted, Covered, Backed
<1> QED BY <1>1, FiguresAccountForMints, PTL
=============================================================================
