------------------------- MODULE GatewayHostProofs -------------------------
(***************************************************************************)
(* Safety of the q-gateway crate for every host: any orders, deposits and  *)
(* amounts, any sets and windows, any number of exits and reloads.         *)
(*                                                                         *)
(* Four histories are followed through one record.  Each part of the       *)
(* invariant below says what the gateway has to remember for its history   *)
(* to stay true, and a method is described by the parts it leaves alone.   *)
(***************************************************************************)
EXTENDS GatewayHost, Inductions

-----------------------------------------------------------------------------
(* The inductive invariant *)

\* Units are where they should be, and the ids of open and closed exits are
\* different and have all been given out.
Exits(g, d, r, c) ==
    /\ IsFiniteSet(g.pending_exits)
    /\ \A a \in Assets : d[a] = outstanding(g, a) + r[a]
    /\ \A t \in g.pending_exits : t.exit_id < g.next_exit_id /\ t.exit_id \notin c
    /\ \A t, u \in g.pending_exits : t.exit_id = u.exit_id => t = u
    /\ \A i \in c : i < g.next_exit_id

\* No horizon that was lifted is past the last one, and the last one is past
\* them all or is lifted itself.
Lifts(g, ls) ==
    /\ \A l \in ls : l <= g.frozen_until
    /\ g.lifted_freeze = g.frozen_until \/ \A l \in ls : l < g.frozen_until

\* A pause has begun, and the date it has, if any, is not earlier; a source
\* that is not paused has no date that a later pause could take over.
Pauses(g, b) ==
    \A c \in Chains :
        IF c \in g.paused_sources
        THEN /\ b[c] \in Nat /\ b[c] <= g.current_height
             /\ g.paused_since[c] # None => b[c] <= g.paused_since[c]
        ELSE g.paused_since[c] = None

HostType ==
    /\ host \in DOMAIN Hosts
    /\ gw \in GatewayState
    /\ deposited \in [Assets -> Nat] /\ released \in [Assets -> Nat]
    /\ closed \subseteq Nat /\ lifted \subseteq Nat

HostInv ==
    /\ HostType
    /\ Exits(gw, deposited, released, closed)
    /\ Lifts(gw, lifted)
    /\ Pauses(gw, began)
    /\ SupermajoritySigned

-----------------------------------------------------------------------------
(* What a method leaves alone *)

SameExits(g, n) ==
    /\ n.per_asset_minted = g.per_asset_minted
    /\ n.pending_exits = g.pending_exits
    /\ n.next_exit_id = g.next_exit_id

SameFreezes(g, n) ==
    n.frozen_until = g.frozen_until /\ n.lifted_freeze = g.lifted_freeze

\* The clock does not go back, and a pause keeps its date or is dated now.
PauseStep(g, n) ==
    /\ g.current_height <= n.current_height
    /\ \A c \in Chains :
          IF c \in n.paused_sources
          THEN n.paused_since[c] \in {g.paused_since[c], n.current_height}
          ELSE n.paused_since[c] = None

SamePauses(g, n) ==
    /\ n.current_height = g.current_height
    /\ n.paused_sources = g.paused_sources
    /\ n.paused_since = g.paused_since

\* The types of the fields the invariant is about.
LEMMA Fields ==
    ASSUME NEW g \in GatewayState
    PROVE  /\ g.current_height \in Nat /\ g.frozen_until \in Nat
           /\ g.lifted_freeze \in Nat /\ g.next_exit_id \in Nat
           /\ g.per_asset_minted \in [Assets -> Nat]
           /\ g.pending_exits \subseteq ExitTicket
           /\ g.paused_sources \subseteq Chains
           /\ g.paused_since \in [Chains -> Nat \cup {None}]
           /\ g.resumed_at \in [Chains -> Nat \cup {None}]
  BY DEF GatewayState, Maybe

\* Storing n in the host keeps what matters of it.
LEMMA Stored ==
    ASSUME NEW n \in GatewayState, Becomes(n)
    PROVE  /\ gw' \in GatewayState /\ host' = host
           /\ SameExits(n, gw') /\ SameFreezes(n, gw') /\ SamePauses(n, gw')
           /\ gw'.resumed_at = n.resumed_at
  BY DEF Becomes, GatewayState, SameExits, SameFreezes, SamePauses

\* The sums of an exit table depend on nothing else of the gateway.
LEMMA SameExitsKeep ==
    ASSUME NEW g, NEW n, NEW d, NEW r, NEW c, Exits(g, d, r, c), SameExits(g, n)
    PROVE  Exits(n, d, r, c)
<1>1. \A a \in Assets : outstanding(n, a) = outstanding(g, a)
  BY DEF outstanding, pending_exit_of, SameExits
<1> QED BY <1>1 DEF Exits, SameExits

\* Lifts looks at the two horizons only.
LEMMA SameFreezesKeep ==
    ASSUME NEW g, NEW n, NEW ls, Lifts(g, ls), SameFreezes(g, n)
    PROVE  Lifts(n, ls)
  BY DEF Lifts, SameFreezes

\* A step that dates its pauses keeps the order of dates.
LEMMA PauseStepKeeps ==
    ASSUME gw \in GatewayState, Pauses(gw, began),
           NEW n \in GatewayState, Becomes(n), PauseStep(gw, n)
    PROVE  Pauses(gw', began')
<1>1. \A c \in Chains : began'[c] = IF c \notin n.paused_sources THEN None
                                    ELSE IF c \in gw.paused_sources THEN began[c]
                                    ELSE n.current_height
  BY DEF Becomes
<1>2. SamePauses(n, gw')
  BY Stored
<1>3. SUFFICES ASSUME NEW c \in Chains, c \in n.paused_sources
               PROVE  /\ began'[c] \in Nat /\ began'[c] <= n.current_height
                      /\ n.paused_since[c] # None => began'[c] <= n.paused_since[c]
  BY <1>2 DEF Pauses, PauseStep, SamePauses
<1>4. /\ n.current_height \in Nat /\ gw.current_height \in Nat
      /\ gw.current_height <= n.current_height
      /\ n.paused_since[c] \in {gw.paused_since[c], n.current_height}
      /\ gw.paused_since[c] \in Nat \cup {None}
  BY <1>3, Fields DEF PauseStep
<1>5. CASE c \in gw.paused_sources
  BY <1>1, <1>3, <1>4, <1>5 DEF Pauses, None
<1>6. CASE c \notin gw.paused_sources
  BY <1>1, <1>3, <1>4, <1>6 DEF Pauses, None
<1> QED BY <1>5, <1>6

\* A method that leaves the pauses alone is a step that dates them.
LEMMA SamePausesStep ==
    ASSUME gw \in GatewayState, Pauses(gw, began), NEW n \in GatewayState,
           SamePauses(gw, n)
    PROVE  PauseStep(gw, n)
  BY Fields DEF SamePauses, PauseStep, Pauses

\* What a method has to show when it touches neither exits nor freezes, and
\* only the pauses.
LEMMA HaltStep ==
    ASSUME HostInv, NEW n \in GatewayState, Becomes(n),
           SameExits(gw, n), SameFreezes(gw, n), PauseStep(gw, n),
           UNCHANGED <<deposited, released, closed, lifted>>,
           SupermajoritySigned'
    PROVE  HostInv'
<1>1. /\ gw' \in GatewayState /\ host' = host
      /\ SameExits(n, gw') /\ SameFreezes(n, gw')
  BY Stored
<1>2. Exits(gw', deposited, released, closed)
  BY <1>1, SameExitsKeep DEF HostInv
<1>3. Lifts(gw', lifted)
  BY <1>1, SameFreezesKeep DEF HostInv
<1>4. Pauses(gw', began')
  BY PauseStepKeeps DEF HostInv, HostType
<1> QED BY <1>1, <1>2, <1>3, <1>4 DEF HostInv, HostType

-----------------------------------------------------------------------------
(* Exit tables *)

ExitsOf(tickets, a) ==
    SumFunction([t \in {t \in tickets : t.asset_id = a} |-> t.amount])

\* One ticket more.
LEMMA TicketAdded ==
    ASSUME NEW P, P \subseteq ExitTicket, IsFiniteSet(P),
           NEW t \in ExitTicket, t \notin P, NEW a \in Assets
    PROVE  /\ ExitsOf(P, a) \in Nat
           /\ ExitsOf(P \cup {t}, a) =
                 ExitsOf(P, a) + (IF t.asset_id = a THEN t.amount ELSE 0)
<1> DEFINE S == {u \in P : u.asset_id = a}
           w == [u \in S |-> u.amount]
<1>1. IsFiniteSet(S)
  BY FS_Subset
<1>2. w \in [S -> Nat]
  BY DEF ExitTicket
<1>3. t \notin S /\ t.amount \in Nat
  BY DEF ExitTicket
<1>4. ExitsOf(P, a) = SumFunction(w)
  BY DEF ExitsOf
<1>5. SumFunction(w) \in Nat
  <2> HIDE DEF w, S
  <2> QED BY <1>1, <1>2, SumRemove
<1>6. CASE t.asset_id = a
  <2>1. {u \in P \cup {t} : u.asset_id = a} = S \cup {t}
    BY <1>6
  <2> DEFINE v == [u \in S \cup {t} |-> IF u = t THEN t.amount ELSE w[u]]
  <2>2. [u \in S \cup {t} |-> u.amount] = v
    <3>1. \A u \in S : w[u] = u.amount
      OBVIOUS
    <3> HIDE DEF w, S
    <3> QED BY <1>3, <3>1
  <2>3. ExitsOf(P \cup {t}, a) = SumFunction(v)
    <3> HIDE DEF S, v
    <3> QED BY <2>1, <2>2 DEF ExitsOf
  <2>4. SumFunction(v) = SumFunction(w) + t.amount
    <3> HIDE DEF w, S
    <3> QED BY <1>1, <1>2, <1>3, SumAdd
  <2> HIDE DEF v, w
  <2> QED BY <1>4, <1>5, <1>6, <2>3, <2>4
<1>7. CASE t.asset_id # a
  <2>1. {u \in P \cup {t} : u.asset_id = a} = S
    BY <1>7
  <2>2. ExitsOf(P \cup {t}, a) = SumFunction(w)
    <3> HIDE DEF S
    <3> QED BY <2>1 DEF ExitsOf
  <2> HIDE DEF w
  <2> QED BY <1>4, <1>5, <1>7, <2>2
<1> QED BY <1>6, <1>7

\* One ticket less.
LEMMA TicketTaken ==
    ASSUME NEW P, P \subseteq ExitTicket, IsFiniteSet(P), NEW t \in P, NEW a \in Assets
    PROVE  /\ ExitsOf(P \ {t}, a) \in Nat
           /\ ExitsOf(P, a) =
                 ExitsOf(P \ {t}, a) + (IF t.asset_id = a THEN t.amount ELSE 0)
<1> DEFINE R == P \ {t}
<1>1. R \subseteq ExitTicket /\ IsFiniteSet(R) /\ t \in ExitTicket /\ t \notin R
  BY FS_RemoveElement
<1>2. P = R \cup {t}
  OBVIOUS
<1> HIDE DEF R
<1>3. /\ ExitsOf(R, a) \in Nat
      /\ ExitsOf(R \cup {t}, a) =
            ExitsOf(R, a) + (IF t.asset_id = a THEN t.amount ELSE 0)
  BY <1>1, TicketAdded
<1> QED BY <1>2, <1>3 DEF R

\* What is outstanding, by the table.
LEMMA OutstandingIs ==
    ASSUME NEW g, NEW a
    PROVE  outstanding(g, a) = g.per_asset_minted[a] + ExitsOf(g.pending_exits, a)
  BY DEF outstanding, pending_exit_of, ExitsOf

\* What waits in a table is a number.
LEMMA ExitsTyped ==
    ASSUME NEW P, P \subseteq ExitTicket, IsFiniteSet(P), NEW a
    PROVE  ExitsOf(P, a) \in Nat
<1> DEFINE S == {u \in P : u.asset_id = a}
           w == [u \in S |-> u.amount]
<1>1. IsFiniteSet(S)
  BY FS_Subset
<1>2. w \in [S -> Nat]
  BY DEF ExitTicket
<1>3. SumFunction(w) \in Nat
  <2> HIDE DEF w, S
  <2> QED BY <1>1, <1>2, SumRemove
<1> QED BY <1>3 DEF ExitsOf

-----------------------------------------------------------------------------
(* The methods *)

\* Signatures that meet a corridor's need are of more than two thirds.
LEMMA CorridorSupermajority ==
    ASSUME NEW g \in GatewayState, NEW c \in Corridors, NEW sigs,
           corridor_quorum_met(g, c, sigs)
    PROVE  Cardinality(verified_quorum(sigs, Operators)) * 3 > Cardinality(Operators) * 2
<1> DEFINE size == Cardinality(Operators)
           k == Cardinality(verified_quorum(sigs, Operators))
           q == g.corridors[c].quorum
<1>1. size \in Nat /\ k \in Nat
  <2>1. verified_quorum(sigs, Operators) \subseteq Operators
    BY DEF verified_quorum
  <2> QED BY <2>1, HostAssumption, FS_Subset, FS_CardinalityType
<1>2. q \in Nat
  <2>1. g.corridors[c] \in CorridorConfig
    BY DEF GatewayState
  <2> QED BY <2>1 DEF CorridorConfig
<1>3. k >= corridor_need(size, Threshold, q)
  BY DEF corridor_quorum_met
<1> HIDE DEF size, k, q
<1>4. Threshold \in Nat
  BY GatewayAssumption
<1>5. k >= (2 * size) \div 3 + 1
  BY <1>1, <1>2, <1>3, <1>4 DEF corridor_need, quorum_need, supermajority_floor, larger
<1>6. k * 3 > size * 2
  BY <1>1, <1>5
<1> QED BY <1>6 DEF size, k

\* A mint adds the same amount to the supply and to the history.
LEMMA MintInv ==
    ASSUME HostInv, NEW d \in Hosts[host].deposits, Mint(d)
    PROVE  HostInv'
<1> DEFINE n == record_mint(gw, d)
           a == d.asset_id
<1>0. gw \in GatewayState /\ host \in DOMAIN Hosts
  BY DEF HostInv, HostType
<1>1. Becomes(n)
  BY DEF Mint, admit_trustless, process_deposit
<1>2. a \in Assets /\ d.source_chain \in Corridors
  BY DEF Mint, can_admit_trustless, precheck_trustless, can_process_deposit,
         precheck_deposit, within_budget, mint_open
<1>3. d.amount \in Nat /\ d.source_chain \in Chains /\ d.source_ref \in Refs
  BY <1>0, HostAssumption
<1>4. /\ n.per_asset_minted = [gw.per_asset_minted EXCEPT ![a] = @ + d.amount]
      /\ n.pending_exits = gw.pending_exits /\ n.next_exit_id = gw.next_exit_id
      /\ n.used_refs = gw.used_refs \cup {<<d.source_chain, d.source_ref>>}
      /\ SameFreezes(gw, n) /\ SamePauses(gw, n)
  BY <1>0 DEF record_mint, GatewayState, SameFreezes, SamePauses
<1>5. n \in GatewayState
  <2>1. /\ n.per_asset_minted \in [Assets -> Nat]
        /\ n.per_asset_epoch_minted \in [Assets -> Nat]
        /\ n.epoch_minted \in Nat
    BY <1>0, <1>2, <1>3 DEF record_mint, GatewayState
  <2>2. n.used_refs \in SUBSET (Chains \X Refs)
    BY <1>0, <1>3, <1>4 DEF GatewayState
  <2> QED BY <1>0, <2>1, <2>2 DEF record_mint, GatewayState
<1> HIDE DEF n, a
<1>6. /\ gw' \in GatewayState /\ host' = host
      /\ SameExits(n, gw') /\ SameFreezes(n, gw')
  BY <1>1, <1>5, Stored
<1>7. /\ deposited' = [deposited EXCEPT ![a] = @ + d.amount]
      /\ deposited' \in [Assets -> Nat]
      /\ UNCHANGED <<released, closed, lifted>>
  BY <1>2, <1>3 DEF Mint, HostInv, HostType, a
<1>8. Exits(n, deposited', released, closed)
  <2>1. ASSUME NEW b \in Assets
        PROVE  deposited'[b] = outstanding(n, b) + released[b]
    <3>1. /\ deposited[b] = outstanding(gw, b) + released[b]
          /\ outstanding(gw, b) = gw.per_asset_minted[b] + ExitsOf(gw.pending_exits, b)
          /\ outstanding(n, b) = n.per_asset_minted[b] + ExitsOf(n.pending_exits, b)
      BY OutstandingIs DEF HostInv, Exits
    <3>2. ExitsOf(gw.pending_exits, b) \in Nat
      <4>1. gw.pending_exits \subseteq ExitTicket /\ IsFiniteSet(gw.pending_exits)
        BY <1>0, Fields DEF HostInv, Exits
      <4> QED BY <4>1, ExitsTyped
    <3>3. /\ gw.per_asset_minted \in [Assets -> Nat]
          /\ released[b] \in Nat /\ deposited \in [Assets -> Nat]
      BY <1>0, Fields DEF HostInv, HostType
    <3> QED BY <1>2, <1>3, <1>4, <1>7, <3>1, <3>2, <3>3
  <2> QED BY <1>4, <2>1 DEF HostInv, Exits
<1>9. Exits(gw', deposited', released, closed)
  BY <1>6, <1>8, SameExitsKeep
<1>10. Lifts(gw', lifted)
  BY <1>4, <1>6, SameFreezesKeep DEF HostInv
<1>11. Pauses(gw', began')
  BY <1>0, <1>1, <1>4, <1>5, SamePausesStep, PauseStepKeeps DEF HostInv
<1>12. SupermajoritySigned'
  <2>1. CASE d.route = "proof"
    BY <2>1 DEF Mint, HostInv, SupermajoritySigned
  <2>2. CASE d.route # "proof"
    <3>1. /\ corridor_quorum_met(gw, d.source_chain, d.sigs)
          /\ signers' = verified_quorum(d.sigs, Operators)
      BY <2>2 DEF Mint, can_process_deposit, precheck_deposit
    <3> QED BY <1>0, <1>2, <3>1, CorridorSupermajority DEF SupermajoritySigned
  <2> QED BY <2>1, <2>2
<1> QED BY <1>0, <1>6, <1>7, <1>9, <1>10, <1>11, <1>12 DEF HostInv, HostType

\* A request moves units from circulation to a ticket with a new id.
LEMMA RequestExitInv ==
    ASSUME HostInv, NEW a \in Assets, NEW amount \in Hosts[host].amounts,
           RequestExit(a, amount)
    PROVE  HostInv'
<1> DEFINE n == request_exit(gw, a, amount)
           t == [exit_id |-> gw.next_exit_id, asset_id |-> a, amount |-> amount,
                 unlock_height |-> gw.current_height + ExitDelay]
           P == gw.pending_exits
<1>0. gw \in GatewayState /\ host \in DOMAIN Hosts /\ ExitDelay \in Nat
  BY GatewayAssumption DEF HostInv, HostType
<1>1. Becomes(n) /\ UNCHANGED <<deposited, released, closed, lifted, signers>>
  BY DEF RequestExit
<1>2. amount \in Nat /\ amount <= gw.per_asset_minted[a]
  BY <1>0, HostAssumption DEF RequestExit, can_request_exit
<1>3. /\ n.per_asset_minted = [gw.per_asset_minted EXCEPT ![a] = @ - amount]
      /\ n.pending_exits = P \cup {t} /\ n.next_exit_id = gw.next_exit_id + 1
      /\ SameFreezes(gw, n) /\ SamePauses(gw, n)
  BY <1>0 DEF request_exit, GatewayState, SameFreezes, SamePauses
<1>4. t \in ExitTicket /\ t.exit_id = gw.next_exit_id /\ t.asset_id = a /\ t.amount = amount
  BY <1>0, <1>2, Fields DEF ExitTicket
<1>5. P \subseteq ExitTicket /\ IsFiniteSet(P) /\ gw.next_exit_id \in Nat
  BY <1>0, Fields DEF HostInv, Exits
<1>6. t \notin P
  <2>1. \A u \in P : u.exit_id < gw.next_exit_id
    BY DEF HostInv, Exits
  <2> HIDE DEF t
  <2> QED BY <1>4, <1>5, <2>1
<1>7. n \in GatewayState
  <2>1. /\ n.per_asset_minted \in [Assets -> Nat] /\ n.next_exit_id \in Nat
    BY <1>0, <1>2, <1>3, <1>5, Fields
  <2>2. n.pending_exits \in SUBSET ExitTicket
    <3> HIDE DEF t, n
    <3> QED BY <1>3, <1>4, <1>5
  <2> QED BY <1>0, <2>1, <2>2 DEF request_exit, GatewayState
<1> HIDE DEF n, t, P
<1>8. /\ gw' \in GatewayState /\ host' = host
      /\ SameExits(n, gw') /\ SameFreezes(n, gw')
  BY <1>1, <1>7, Stored
<1>9. ASSUME NEW b \in Assets
      PROVE  deposited[b] = outstanding(n, b) + released[b]
  <2>1. /\ deposited[b] = outstanding(gw, b) + released[b]
        /\ outstanding(gw, b) = gw.per_asset_minted[b] + ExitsOf(P, b)
        /\ outstanding(n, b) = n.per_asset_minted[b] + ExitsOf(n.pending_exits, b)
    BY OutstandingIs DEF HostInv, Exits, P
  <2>2. /\ ExitsOf(P, b) \in Nat
        /\ ExitsOf(P \cup {t}, b) = ExitsOf(P, b) + (IF t.asset_id = b THEN t.amount ELSE 0)
    BY <1>4, <1>5, <1>6, TicketAdded
  <2>3. gw.per_asset_minted \in [Assets -> Nat] /\ released[b] \in Nat
    BY <1>0, Fields DEF HostInv, HostType
  <2> QED BY <1>2, <1>3, <1>4, <2>1, <2>2, <2>3
<1>10. Exits(n, deposited, released, closed)
  <2>1. /\ \A u \in P : u.exit_id < gw.next_exit_id /\ u.exit_id \notin closed
        /\ \A u, v \in P : u.exit_id = v.exit_id => u = v
        /\ \A i \in closed : i < gw.next_exit_id
        /\ closed \subseteq Nat
    BY DEF HostInv, HostType, Exits, P
  <2>2. \A u \in P : u.exit_id \in Nat
    BY <1>5 DEF ExitTicket
  <2>3. IsFiniteSet(P \cup {t})
    BY <1>5, FS_AddElement
  <2>4. /\ \A u \in P \cup {t} : u.exit_id < n.next_exit_id /\ u.exit_id \notin closed
        /\ \A u, v \in P \cup {t} : u.exit_id = v.exit_id => u = v
        /\ \A i \in closed : i < n.next_exit_id
    BY <1>3, <1>4, <1>5, <2>1, <2>2
  <2> QED BY <1>3, <1>9, <2>3, <2>4 DEF Exits
<1>11. Exits(gw', deposited, released, closed)
  BY <1>8, <1>10, SameExitsKeep
<1>12. Lifts(gw', lifted)
  BY <1>3, <1>8, SameFreezesKeep DEF HostInv
<1>13. Pauses(gw', began')
  BY <1>0, <1>1, <1>3, <1>7, SamePausesStep, PauseStepKeeps DEF HostInv
<1>14. SupermajoritySigned'
  BY <1>1 DEF HostInv, SupermajoritySigned
<1> QED BY <1>0, <1>1, <1>8, <1>11, <1>12, <1>13, <1>14 DEF HostInv, HostType

\* Closing ticket t, finalized or cancelled: the id moves from the table to
\* the closed ones.
LEMMA ClosedTicket ==
    ASSUME HostInv, NEW t \in gw.pending_exits, NEW n \in GatewayState, Becomes(n),
           n.pending_exits = gw.pending_exits \ {t},
           n.next_exit_id = gw.next_exit_id,
           SameFreezes(gw, n), SamePauses(gw, n),
           closed' = closed \cup {t.exit_id},
           UNCHANGED <<deposited, lifted, signers>>,
           released' \in [Assets -> Nat],
           \A b \in Assets : deposited[b] = outstanding(n, b) + released'[b]
    PROVE  HostInv'
<1>1. /\ gw' \in GatewayState /\ host' = host
      /\ SameExits(n, gw') /\ SameFreezes(n, gw')
  BY Stored
<1>2. Exits(n, deposited, released', closed')
  <2>1. IsFiniteSet(n.pending_exits)
    BY FS_RemoveElement DEF HostInv, Exits
  <2>2. /\ \A u \in n.pending_exits : u.exit_id < n.next_exit_id /\ u.exit_id \notin closed'
        /\ \A u, v \in n.pending_exits : u.exit_id = v.exit_id => u = v
        /\ \A i \in closed' : i < n.next_exit_id
    BY DEF HostInv, Exits
  <2> QED BY <2>1, <2>2 DEF Exits
<1>3. Exits(gw', deposited, released', closed')
  BY <1>1, <1>2, SameExitsKeep
<1>4. Lifts(gw', lifted)
  BY <1>1, SameFreezesKeep DEF HostInv
<1>5. Pauses(gw', began')
  BY SamePausesStep, PauseStepKeeps DEF HostInv, HostType
<1>6. SupermajoritySigned'
  BY DEF HostInv, SupermajoritySigned
<1>7. closed' \subseteq Nat
  BY Fields DEF HostInv, HostType, ExitTicket
<1> QED BY <1>1, <1>3, <1>4, <1>5, <1>6, <1>7 DEF HostInv, HostType

\* A payout takes the ticket away and adds its amount to what was released.
LEMMA FinalizeExitInv ==
    ASSUME HostInv, NEW t \in gw.pending_exits, FinalizeExit(t)
    PROVE  HostInv'
<1> DEFINE n == finalize_exit(gw, t)
           P == gw.pending_exits
<1>0. gw \in GatewayState
  BY DEF HostInv, HostType
<1>1. /\ Becomes(n) /\ closed' = closed \cup {t.exit_id}
      /\ UNCHANGED <<deposited, lifted, signers>>
      /\ released' = [released EXCEPT ![t.asset_id] = @ + t.amount]
  BY DEF FinalizeExit
<1>2. /\ n.per_asset_minted = gw.per_asset_minted
      /\ n.pending_exits = P \ {t} /\ n.next_exit_id = gw.next_exit_id
      /\ SameFreezes(gw, n) /\ SamePauses(gw, n)
      /\ n \in GatewayState
  BY <1>0 DEF finalize_exit, GatewayState, SameFreezes, SamePauses
<1> HIDE DEF n
<1>3. P \subseteq ExitTicket /\ IsFiniteSet(P)
  BY <1>0, Fields DEF HostInv, Exits
<1>4. t.asset_id \in Assets /\ t.amount \in Nat
  BY <1>3 DEF ExitTicket
<1>5. released \in [Assets -> Nat] /\ released' \in [Assets -> Nat]
  BY <1>1, <1>4 DEF HostInv, HostType
<1>6. ASSUME NEW b \in Assets
      PROVE  deposited[b] = outstanding(n, b) + released'[b]
  <2>1. /\ deposited[b] = outstanding(gw, b) + released[b]
        /\ outstanding(gw, b) = gw.per_asset_minted[b] + ExitsOf(P, b)
        /\ outstanding(n, b) = n.per_asset_minted[b] + ExitsOf(n.pending_exits, b)
    BY OutstandingIs DEF HostInv, Exits
  <2>2. /\ ExitsOf(P \ {t}, b) \in Nat
        /\ ExitsOf(P, b) = ExitsOf(P \ {t}, b) + (IF t.asset_id = b THEN t.amount ELSE 0)
    BY <1>3, TicketTaken
  <2>3. gw.per_asset_minted \in [Assets -> Nat]
    BY <1>0, Fields
  <2> QED BY <1>1, <1>2, <1>4, <1>5, <2>1, <2>2, <2>3
<1> QED BY <1>1, <1>2, <1>5, <1>6, ClosedTicket

\* A cancelled ticket goes back into circulation.
LEMMA CancelExitInv ==
    ASSUME HostInv, NEW t \in gw.pending_exits, CancelExit(t)
    PROVE  HostInv'
<1> DEFINE n == cancel_exit(gw, t)
           P == gw.pending_exits
<1>0. gw \in GatewayState
  BY DEF HostInv, HostType
<1>1. /\ Becomes(n) /\ closed' = closed \cup {t.exit_id}
      /\ UNCHANGED <<deposited, released, lifted, signers>>
  BY DEF CancelExit
<1>2. P \subseteq ExitTicket /\ IsFiniteSet(P)
  BY <1>0, Fields DEF HostInv, Exits
<1>3. t.asset_id \in Assets /\ t.amount \in Nat
  BY <1>2 DEF ExitTicket
<1>4. /\ n.per_asset_minted = [gw.per_asset_minted EXCEPT ![t.asset_id] = @ + t.amount]
      /\ n.pending_exits = P \ {t} /\ n.next_exit_id = gw.next_exit_id
      /\ SameFreezes(gw, n) /\ SamePauses(gw, n)
  BY <1>0 DEF cancel_exit, GatewayState, SameFreezes, SamePauses
<1>5. n \in GatewayState
  <2>1. n.per_asset_minted \in [Assets -> Nat]
    BY <1>0, <1>3, <1>4, Fields
  <2> QED BY <1>0, <2>1 DEF cancel_exit, GatewayState
<1> HIDE DEF n
<1>6. released \in [Assets -> Nat] /\ released' \in [Assets -> Nat]
  BY <1>1 DEF HostInv, HostType
<1>7. ASSUME NEW b \in Assets
      PROVE  deposited[b] = outstanding(n, b) + released'[b]
  <2>1. /\ deposited[b] = outstanding(gw, b) + released[b]
        /\ outstanding(gw, b) = gw.per_asset_minted[b] + ExitsOf(P, b)
        /\ outstanding(n, b) = n.per_asset_minted[b] + ExitsOf(n.pending_exits, b)
    BY OutstandingIs DEF HostInv, Exits
  <2>2. /\ ExitsOf(P \ {t}, b) \in Nat
        /\ ExitsOf(P, b) = ExitsOf(P \ {t}, b) + (IF t.asset_id = b THEN t.amount ELSE 0)
    BY <1>2, TicketTaken
  <2>3. gw.per_asset_minted \in [Assets -> Nat]
    BY <1>0, Fields
  <2> QED BY <1>1, <1>3, <1>4, <1>6, <2>1, <2>2, <2>3
<1> QED BY <1>1, <1>4, <1>5, <1>6, <1>7, ClosedTicket

\* What a method has to show when it touches only the freezes.
LEMMA FreezeStep ==
    ASSUME HostInv, NEW n \in GatewayState, Becomes(n),
           SameExits(gw, n), SamePauses(gw, n), Lifts(n, lifted'),
           lifted' \subseteq Nat,
           UNCHANGED <<deposited, released, closed, signers>>
    PROVE  HostInv'
<1>1. /\ gw' \in GatewayState /\ host' = host
      /\ SameExits(n, gw') /\ SameFreezes(n, gw')
  BY Stored
<1>2. Exits(gw', deposited, released, closed)
  BY <1>1, SameExitsKeep DEF HostInv
<1>3. Lifts(gw', lifted')
  BY <1>1, SameFreezesKeep
<1>4. Pauses(gw', began')
  BY SamePausesStep, PauseStepKeeps DEF HostInv, HostType
<1>5. SupermajoritySigned'
  BY DEF HostInv, SupermajoritySigned
<1> QED BY <1>1, <1>2, <1>3, <1>4, <1>5 DEF HostInv, HostType

\* A freeze that takes effect is past every horizon there was.
LEMMA EmergencyFreezeInv ==
    ASSUME HostInv, NEW o \in Hosts[host].orders, EmergencyFreeze(o)
    PROVE  HostInv'
<1> DEFINE n == emergency_freeze(gw, o.mark)
<1>0. gw \in GatewayState /\ o.mark \in Nat
  BY HostAssumption DEF HostInv, HostType
<1>1. Becomes(n) /\ UNCHANGED <<deposited, released, closed, lifted, signers>>
  BY DEF EmergencyFreeze
<1>2. /\ n \in GatewayState /\ SameExits(gw, n) /\ SamePauses(gw, n)
      /\ \/ SameFreezes(gw, n)
         \/ o.mark > gw.frozen_until /\ n.frozen_until = o.mark
  <2>1. CASE o.mark > gw.frozen_until
    BY <1>0, <2>1 DEF emergency_freeze, GatewayState, SameExits, SamePauses
  <2>2. CASE ~(o.mark > gw.frozen_until)
    BY <1>0, <2>2 DEF emergency_freeze, SameExits, SamePauses, SameFreezes
  <2> QED BY <2>1, <2>2
<1> HIDE DEF n
<1>3. Lifts(n, lifted) /\ lifted \subseteq Nat
  <2>1. Lifts(gw, lifted) /\ lifted \subseteq Nat
    BY DEF HostInv, HostType
  <2>2. \A l \in lifted : o.mark > gw.frozen_until => l < o.mark
    BY <1>0, <2>1, Fields DEF Lifts
  <2> QED BY <1>0, <1>2, <2>1, <2>2 DEF Lifts, SameFreezes
<1> QED BY <1>1, <1>2, <1>3, FreezeStep

\* The horizon that is lifted is the last one.
LEMMA LiftFreezeInv ==
    ASSUME HostInv, NEW o \in Hosts[host].orders, LiftFreeze(o)
    PROVE  HostInv'
<1> DEFINE n == lift_freeze(gw)
<1>0. gw \in GatewayState
  BY DEF HostInv, HostType
<1>1. /\ Becomes(n) /\ lifted' = lifted \cup {gw.frozen_until}
      /\ UNCHANGED <<deposited, released, closed, signers>>
  BY DEF LiftFreeze
<1>2. /\ n \in GatewayState /\ SameExits(gw, n) /\ SamePauses(gw, n)
      /\ n.frozen_until = gw.frozen_until /\ n.lifted_freeze = gw.frozen_until
  BY <1>0 DEF lift_freeze, GatewayState, SameExits, SamePauses
<1> HIDE DEF n
<1>3. Lifts(n, lifted') /\ lifted' \subseteq Nat
  <2>1. Lifts(gw, lifted) /\ lifted \subseteq Nat
    BY DEF HostInv, HostType
  <2>2. gw.frozen_until \in Nat
    BY <1>0, Fields
  <2>3. \A l \in lifted' : l <= n.frozen_until
    BY <1>1, <1>2, <2>1, <2>2 DEF Lifts
  <2> QED BY <1>1, <1>2, <2>1, <2>2, <2>3 DEF Lifts
<1> QED BY <1>1, <1>2, <1>3, FreezeStep

\* What a method has to show when it touches only the pauses, and the
\* signers are the same.
LEMMA QuietHalt ==
    ASSUME HostInv, NEW n \in GatewayState, Becomes(n),
           SameExits(gw, n), SameFreezes(gw, n), PauseStep(gw, n),
           UNCHANGED <<deposited, released, closed, lifted, signers>>
    PROVE  HostInv'
<1>1. SupermajoritySigned'
  BY DEF HostInv, SupermajoritySigned
<1> QED BY <1>1, HaltStep

\* What a method has to show when it touches none of the four parts.
LEMMA QuietStep ==
    ASSUME HostInv, NEW n \in GatewayState, Becomes(n),
           SameExits(gw, n), SameFreezes(gw, n), SamePauses(gw, n),
           UNCHANGED <<deposited, released, closed, lifted, signers>>
    PROVE  HostInv'
<1>1. PauseStep(gw, n)
  BY SamePausesStep DEF HostInv, HostType
<1> QED BY <1>1, QuietHalt

\* The global pause is none of the four parts.
LEMMA PauseAllInv ==
    ASSUME HostInv, PauseAll PROVE HostInv'
<1> DEFINE n == pause_all(gw)
<1>1. gw \in GatewayState
  BY DEF HostInv, HostType
<1>2. /\ n \in GatewayState
      /\ SameExits(gw, n) /\ SameFreezes(gw, n) /\ SamePauses(gw, n)
  BY <1>1 DEF pause_all, GatewayState, SameExits, SameFreezes, SamePauses
<1> HIDE DEF n
<1>3. Becomes(n) /\ UNCHANGED <<deposited, released, closed, lifted, signers>>
  BY DEF PauseAll, n
<1> QED BY <1>2, <1>3, QuietStep

\* Nor is its end.
LEMMA ResumeAllInv ==
    ASSUME HostInv, NEW o \in Hosts[host].orders, ResumeAll(o) PROVE HostInv'
<1> DEFINE n == resume_all(gw, o.mark)
<1>1. gw \in GatewayState /\ o.mark \in Nat
  BY HostAssumption DEF HostInv, HostType
<1>2. /\ n \in GatewayState
      /\ SameExits(gw, n) /\ SameFreezes(gw, n) /\ SamePauses(gw, n)
  BY <1>1 DEF resume_all, GatewayState, SameExits, SameFreezes, SamePauses
<1> HIDE DEF n
<1>3. Becomes(n) /\ UNCHANGED <<deposited, released, closed, lifted, signers>>
  BY DEF ResumeAll, n
<1> QED BY <1>2, <1>3, QuietStep

\* A report dates the pause it makes, and one that had no date.
LEMMA ReportReorgInv ==
    ASSUME HostInv, NEW o \in Order("ReportReorg"), ReportReorg(o) PROVE HostInv'
<1> DEFINE c == o.target
           n == report_reorg(gw, c)
<1>1. gw \in GatewayState /\ c \in Chains
  BY HostAssumption DEF HostInv, HostType, Order
<1>2. /\ n \in GatewayState
      /\ SameExits(gw, n) /\ SameFreezes(gw, n)
      /\ n.current_height = gw.current_height
      /\ n.paused_sources = gw.paused_sources \cup {c}
      /\ n.paused_since = [gw.paused_since EXCEPT ![c] =
             IF @ = None THEN gw.current_height ELSE @]
  <2> HIDE DEF c
  <2> QED BY <1>1 DEF report_reorg, GatewayState, Maybe, SameExits, SameFreezes
<1> HIDE DEF n
<1>3. Becomes(n) /\ UNCHANGED <<deposited, released, closed, lifted, signers>>
  BY DEF ReportReorg, n
<1> HIDE DEF c
<1>4. PauseStep(gw, n)
  <2>1. Pauses(gw, began)
    BY DEF HostInv
  <2> QED BY <1>1, <1>2, <2>1, Fields DEF PauseStep, Pauses
<1> QED BY <1>2, <1>3, <1>4, QuietHalt

\* A pause by the watchtower has no date, and none is left over for it.
LEMMA ObserveInv ==
    ASSUME HostInv, NEW c \in DOMAIN Hosts[host].policy, NEW d, Observe(c, d) PROVE HostInv'
<1> DEFINE n == pause_source_direct(gw, c)
<1>1. gw \in GatewayState /\ c \in Chains
  BY HostAssumption DEF HostInv, HostType
<1>2. /\ n \in GatewayState
      /\ SameExits(gw, n) /\ SameFreezes(gw, n)
      /\ n.current_height = gw.current_height
      /\ n.paused_sources = gw.paused_sources \cup {c}
      /\ n.paused_since = gw.paused_since
  BY <1>1 DEF pause_source_direct, GatewayState, SameExits, SameFreezes
<1> HIDE DEF n
<1>3. Becomes(n) /\ UNCHANGED <<deposited, released, closed, lifted, signers>>
  BY DEF Observe, n
<1>4. PauseStep(gw, n)
  <2>1. Pauses(gw, began)
    BY DEF HostInv
  <2> QED BY <1>1, <1>2, <2>1, Fields DEF PauseStep, Pauses
<1> QED BY <1>2, <1>3, <1>4, QuietHalt

\* What resume_source does to the sources.
LEMMA ResumeSourceDoes ==
    ASSUME HostInv, NEW o \in Order("ResumeSource"), ResumeSource(o)
    PROVE  LET n == resume_source(gw, o.target, o.mark)
           IN  /\ o.target \in Chains /\ o.mark \in Nat
               /\ n \in GatewayState /\ Becomes(n)
               /\ SameExits(gw, n) /\ SameFreezes(gw, n)
               /\ n.current_height = gw.current_height
               /\ n.paused_sources = gw.paused_sources \ {o.target}
               /\ n.paused_since = [gw.paused_since EXCEPT ![o.target] = None]
               /\ n.resumed_at = [gw.resumed_at EXCEPT ![o.target] = o.mark]
<1> DEFINE c == o.target
           n == resume_source(gw, c, o.mark)
<1>1. gw \in GatewayState /\ c \in Chains /\ o.mark \in Nat
  BY HostAssumption DEF HostInv, HostType, Order
<1>2. Becomes(n)
  BY DEF ResumeSource
<1> HIDE DEF c
<1>3. /\ n \in GatewayState
      /\ SameExits(gw, n) /\ SameFreezes(gw, n)
      /\ n.current_height = gw.current_height
      /\ n.paused_sources = gw.paused_sources \ {c}
      /\ n.paused_since = [gw.paused_since EXCEPT ![c] = None]
      /\ n.resumed_at = [gw.resumed_at EXCEPT ![c] = o.mark]
  BY <1>1 DEF resume_source, GatewayState, Maybe, SameExits, SameFreezes
<1> QED BY <1>1, <1>2, <1>3 DEF c

\* A resume takes the date away with the pause.
LEMMA ResumeSourceInv ==
    ASSUME HostInv, NEW o \in Order("ResumeSource"), ResumeSource(o) PROVE HostInv'
<1> DEFINE n == resume_source(gw, o.target, o.mark)
<1>1. /\ o.target \in Chains /\ n \in GatewayState /\ Becomes(n)
      /\ SameExits(gw, n) /\ SameFreezes(gw, n)
      /\ n.current_height = gw.current_height
      /\ n.paused_sources = gw.paused_sources \ {o.target}
      /\ n.paused_since = [gw.paused_since EXCEPT ![o.target] = None]
  BY ResumeSourceDoes
<1> HIDE DEF n
<1>2. PauseStep(gw, n)
  <2>1. Pauses(gw, began) /\ gw \in GatewayState
    BY DEF HostInv, HostType
  <2> QED BY <1>1, <2>1, Fields DEF PauseStep, Pauses
<1>3. UNCHANGED <<deposited, released, closed, lifted, signers>>
  BY DEF ResumeSource
<1> QED BY <1>1, <1>2, <1>3, QuietHalt

\* A batch has the signatures its corridor needs.
LEMMA AcceptBatchInv ==
    ASSUME HostInv, NEW o \in Hosts[host].orders, AcceptBatch(o) PROVE HostInv'
<1> DEFINE c == o.target
           n == accept_batch(gw, c)
<1>1. gw \in GatewayState /\ c \in Corridors
  BY DEF HostInv, HostType, AcceptBatch, can_accept_batch
<1>2. /\ Becomes(n) /\ UNCHANGED <<deposited, released, closed, lifted>>
      /\ signers' = verified_quorum(o.sigs, Operators)
      /\ corridor_quorum_met(gw, c, o.sigs)
  BY DEF AcceptBatch, can_accept_batch
<1> HIDE DEF c
<1>3. /\ n \in GatewayState
      /\ SameExits(gw, n) /\ SameFreezes(gw, n) /\ SamePauses(gw, n)
  <2>1. n.corridor_cursor \in [Corridors -> Nat]
    BY <1>1 DEF accept_batch, GatewayState
  <2>2. SameExits(gw, n) /\ SameFreezes(gw, n) /\ SamePauses(gw, n)
    BY <1>1 DEF accept_batch, GatewayState, SameExits, SameFreezes, SamePauses
  <2> QED BY <1>1, <2>1, <2>2 DEF accept_batch, GatewayState
<1> HIDE DEF n
<1>4. SupermajoritySigned'
  BY <1>1, <1>2, CorridorSupermajority DEF SupermajoritySigned
<1>5. PauseStep(gw, n)
  BY <1>1, <1>3, SamePausesStep DEF HostInv
<1> QED BY <1>2, <1>3, <1>4, <1>5, HaltStep

\* Opening and closing a corridor changes a setting.
LEMMA SetCorridorActiveInv ==
    ASSUME HostInv, NEW c \in Chains, NEW active \in BOOLEAN, SetCorridorActive(c, active)
    PROVE  HostInv'
<1> DEFINE n == set_corridor_active(gw, c, active)
<1>1. gw \in GatewayState
  BY DEF HostInv, HostType
<1>2. Becomes(n) /\ UNCHANGED <<deposited, released, closed, lifted, signers>>
  BY DEF SetCorridorActive
<1>3. /\ n \in GatewayState
      /\ SameExits(gw, n) /\ SameFreezes(gw, n) /\ SamePauses(gw, n)
  <2>1. CASE c \in Corridors
    <3>1. gw.corridors[c] \in CorridorConfig
      BY <1>1, <2>1 DEF GatewayState
    <3>2. [gw.corridors[c] EXCEPT !.active = active] \in CorridorConfig
      BY <3>1 DEF CorridorConfig
    <3>3. n = [gw EXCEPT !.corridors[c].active = active, !.touched = TRUE]
      BY <2>1 DEF set_corridor_active
    <3> HIDE DEF n
    <3>4. n.corridors \in [Corridors -> CorridorConfig]
      BY <1>1, <2>1, <3>2, <3>3 DEF GatewayState
    <3>5. SameExits(gw, n) /\ SameFreezes(gw, n) /\ SamePauses(gw, n)
      BY <1>1, <3>3 DEF GatewayState, SameExits, SameFreezes, SamePauses
    <3> QED BY <1>1, <3>3, <3>4, <3>5 DEF GatewayState
  <2>2. CASE c \notin Corridors
    BY <1>1, <2>2 DEF set_corridor_active, SameExits, SameFreezes, SamePauses
  <2> QED BY <2>1, <2>2
<1> HIDE DEF n
<1> QED BY <1>2, <1>3, QuietStep

\* So does a new quorum.
LEMMA SetCorridorQuorumInv ==
    ASSUME HostInv, NEW c \in Chains, NEW quorum \in 0..Cardinality(Operators),
           SetCorridorQuorum(c, quorum)
    PROVE  HostInv'
<1> DEFINE n == set_corridor_quorum(gw, c, quorum)
<1>1. gw \in GatewayState /\ c \in Corridors /\ quorum \in Nat
  BY HostAssumption, FS_CardinalityType
     DEF HostInv, HostType, SetCorridorQuorum, can_set_corridor_quorum
<1>2. Becomes(n) /\ UNCHANGED <<deposited, released, closed, lifted, signers>>
  BY DEF SetCorridorQuorum
<1>3. /\ n \in GatewayState
      /\ SameExits(gw, n) /\ SameFreezes(gw, n) /\ SamePauses(gw, n)
  <2>1. gw.corridors[c] \in CorridorConfig
    BY <1>1 DEF GatewayState
  <2>2. [gw.corridors[c] EXCEPT !.quorum = quorum] \in CorridorConfig
    BY <1>1, <2>1 DEF CorridorConfig
  <2> QED BY <1>1, <2>2
          DEF set_corridor_quorum, GatewayState, SameExits, SameFreezes, SamePauses
<1> HIDE DEF n
<1> QED BY <1>2, <1>3, QuietStep

\* The clock goes forward and dates nothing.
LEMMA AdvanceToInv ==
    ASSUME HostInv, NEW h \in 1..MaxHeight, AdvanceTo(h) PROVE HostInv'
<1> DEFINE n == advance_to(gw, h)
<1>1. gw \in GatewayState /\ h \in Nat /\ h > gw.current_height
  BY HostAssumption DEF HostInv, HostType, AdvanceTo
<1>2. Becomes(n) /\ UNCHANGED <<deposited, released, closed, lifted, signers>>
  BY DEF AdvanceTo
<1>3. /\ n \in GatewayState
      /\ SameExits(gw, n) /\ SameFreezes(gw, n)
      /\ n.current_height = h
      /\ n.paused_sources = gw.paused_sources
      /\ n.paused_since = gw.paused_since
  <2>1. larger(h, gw.current_height) = h
    BY <1>1, Fields DEF larger
  <2>2. n = [gw EXCEPT !.current_height = h]
    BY <2>1 DEF advance_to
  <2> QED BY <1>1, <2>2 DEF GatewayState, SameExits, SameFreezes
<1> HIDE DEF n
<1>4. PauseStep(gw, n)
  <2>1. Pauses(gw, began)
    BY DEF HostInv
  <2> QED BY <1>1, <1>3, <2>1, Fields DEF PauseStep, Pauses
<1> QED BY <1>2, <1>3, <1>4, QuietHalt

\* A new epoch resets budgets only.
LEMMA AdvanceEpochToInv ==
    ASSUME HostInv, NEW e \in Hosts[host].epochs, AdvanceEpochTo(e) PROVE HostInv'
<1> DEFINE n == advance_epoch_to(gw, e)
<1>1. gw \in GatewayState /\ e \in Nat /\ e > gw.current_epoch
  BY HostAssumption DEF HostInv, HostType, AdvanceEpochTo
<1>2. Becomes(n) /\ UNCHANGED <<deposited, released, closed, lifted, signers>>
  BY DEF AdvanceEpochTo
<1>3. /\ n \in GatewayState
      /\ SameExits(gw, n) /\ SameFreezes(gw, n) /\ SamePauses(gw, n)
  BY <1>1 DEF advance_epoch_to, GatewayState, SameExits, SameFreezes, SamePauses
<1> HIDE DEF n
<1> QED BY <1>2, <1>3, QuietStep

\* An escrow figure is none of the four parts.
LEMMA SetEscrowInv ==
    ASSUME HostInv, NEW a \in Assets, SetEscrow(a, AssetCap[a]) PROVE HostInv'
<1> DEFINE n == set_escrow(gw, a, AssetCap[a])
<1>1. gw \in GatewayState /\ AssetCap[a] \in Nat
  BY GatewayAssumption DEF HostInv, HostType
<1>2. Becomes(n) /\ UNCHANGED <<deposited, released, closed, lifted, signers>>
  BY DEF SetEscrow
<1>3. /\ n \in GatewayState
      /\ SameExits(gw, n) /\ SameFreezes(gw, n) /\ SamePauses(gw, n)
  BY <1>1 DEF set_escrow, GatewayState, Maybe, SameExits, SameFreezes, SamePauses
<1> HIDE DEF n
<1> QED BY <1>2, <1>3, QuietStep

\* A gateway that is just built is a gateway.
LEMMA NewGatewayType == NewGateway \in GatewayState
  BY GatewayAssumption DEF NewGateway, GatewayState, CorridorConfig, Maybe, BASE_TIER, None

\* A reload dates every pause at the height of the snapshot and keeps the rest.
LEMMA ReloadInv ==
    ASSUME HostInv, Reload PROVE HostInv'
<1> DEFINE s == encode_guard(gw)
           n == rehydrate_guard(NewGateway, s)
<1>1. gw \in GatewayState
  BY DEF HostInv, HostType
<1>2. Becomes(n) /\ UNCHANGED <<deposited, released, closed, lifted, signers>>
  BY DEF Reload
<1>3. /\ s \in GatewayState
      /\ SameExits(gw, s) /\ SameFreezes(gw, s)
      /\ s.current_height = gw.current_height
      /\ s.paused_sources = gw.paused_sources
  BY <1>1 DEF encode_guard, GatewayState, Maybe, SameExits, SameFreezes
<1> HIDE DEF s
<1>4. /\ larger(NewGateway.current_height, s.current_height) = s.current_height
      /\ s.current_height \in Nat
  BY <1>3, Fields DEF NewGateway, larger
<1>5. /\ SameExits(s, n) /\ SameFreezes(s, n)
      /\ n.current_height = s.current_height
      /\ n.paused_sources = s.paused_sources
      /\ n.paused_since = [c \in Chains |->
            IF c \in s.paused_sources THEN s.current_height ELSE None]
  BY <1>3, <1>4 DEF rehydrate_guard, GatewayState, SameExits, SameFreezes
<1>6. n \in GatewayState
  <2>1. \A c \in Corridors : NewGateway.corridors[c] \in CorridorConfig
                             /\ s.corridors[c] \in CorridorConfig
    BY <1>3, NewGatewayType DEF GatewayState
  <2>2. n.corridors \in [Corridors -> CorridorConfig]
    BY <1>3, <2>1 DEF rehydrate_guard, GatewayState, CorridorConfig, larger
  <2>3. n.paused_since \in [Chains -> Nat \cup {None}]
    BY <1>4, <1>5
  <2>4. n.touched \in BOOLEAN
    BY <1>3, NewGatewayType DEF rehydrate_guard, GatewayState
  <2>5. n.current_height \in Nat
    BY <1>4, <1>5
  <2> QED BY <1>3, <2>2, <2>3, <2>4, <2>5 DEF rehydrate_guard, GatewayState, Maybe
<1> HIDE DEF n
<1>7. SameExits(gw, n) /\ SameFreezes(gw, n)
  BY <1>3, <1>5 DEF SameExits, SameFreezes
<1>8. PauseStep(gw, n)
  BY <1>1, <1>3, <1>5, Fields DEF PauseStep
<1> QED BY <1>2, <1>6, <1>7, <1>8, QuietHalt

-----------------------------------------------------------------------------
(* The theorems *)

\* The invariant holds of a gateway that was just built.
LEMMA InitInv == Init => HostInv
<1> SUFFICES ASSUME Init PROVE HostInv
  OBVIOUS
<1>1. gw \in GatewayState
  BY NewGatewayType DEF Init
<1>2. HostType
  BY <1>1 DEF Init, HostType
<1>3. Exits(gw, deposited, released, closed)
  <2>1. gw.pending_exits = {} /\ gw.per_asset_minted = [a \in Assets |-> 0]
    BY DEF Init, NewGateway
  <2>2. ASSUME NEW a \in Assets PROVE outstanding(gw, a) = 0
    <3> DEFINE w == [t \in {} |-> t.amount]
    <3>1. {t \in gw.pending_exits : t.asset_id = a} = {}
      BY <2>1
    <3>2. ExitsOf(gw.pending_exits, a) = SumFunction(w)
      BY <3>1 DEF ExitsOf
    <3>3. IsFiniteSet({}) /\ w \in [{} -> Nat]
      BY FS_EmptySet
    <3> HIDE DEF w
    <3>4. SumFunction(w) = 0
      BY <3>3, SumRemove
    <3> QED BY <2>1, <3>2, <3>4, OutstandingIs
  <2>3. IsFiniteSet(gw.pending_exits)
    BY <2>1, FS_EmptySet
  <2> QED BY <2>1, <2>2, <2>3 DEF Init, Exits
<1>4. Lifts(gw, lifted) /\ Pauses(gw, began)
  BY DEF Init, NewGateway, Lifts, Pauses
<1>5. SupermajoritySigned
  <2>1. Cardinality(Operators) \in Nat /\ Cardinality(Operators) # 0
    BY HostAssumption, FS_CardinalityType, FS_EmptySet
  <2> QED BY <2>1 DEF Init, SupermajoritySigned
<1> QED BY <1>2, <1>3, <1>4, <1>5 DEF HostInv

\* Nothing happens.
LEMMA StutterInv ==
    ASSUME HostInv, UNCHANGED vars PROVE HostInv'
<1>1. /\ gw' = gw /\ host' = host /\ deposited' = deposited /\ released' = released
      /\ closed' = closed /\ lifted' = lifted /\ began' = began /\ signers' = signers
  BY DEF vars
<1>2. HostType' /\ SupermajoritySigned'
  BY <1>1 DEF HostInv, HostType, SupermajoritySigned
<1>3. /\ Exits(gw', deposited', released', closed') /\ Lifts(gw', lifted')
      /\ Pauses(gw', began')
  BY <1>1 DEF HostInv
<1> QED BY <1>2, <1>3 DEF HostInv

\* One case per action.
LEMMA NextInv == HostInv /\ [Next]_vars => HostInv'
<1> SUFFICES ASSUME HostInv, [Next]_vars PROVE HostInv'
  OBVIOUS
<1>1. CASE \E d \in Hosts[host].deposits : Mint(d)
  BY <1>1, MintInv
<1>2. CASE \E a \in Assets, amount \in Hosts[host].amounts : RequestExit(a, amount)
  BY <1>2, RequestExitInv
<1>3. CASE \E t \in gw.pending_exits : FinalizeExit(t) \/ CancelExit(t)
  BY <1>3, FinalizeExitInv, CancelExitInv
<1>4. CASE \E o \in Order("EmergencyFreeze") : EmergencyFreeze(o)
  BY <1>4, EmergencyFreezeInv DEF Order
<1>5. CASE \E o \in Order("LiftFreeze") : LiftFreeze(o)
  BY <1>5, LiftFreezeInv DEF Order
<1>6. CASE PauseAll
  BY <1>6, PauseAllInv
<1>7. CASE \E o \in Order("ResumeAll") : ResumeAll(o)
  BY <1>7, ResumeAllInv DEF Order
<1>8. CASE \E o \in Order("ReportReorg") : ReportReorg(o)
  BY <1>8, ReportReorgInv
<1>9. CASE \E c \in DOMAIN Hosts[host].policy, d \in ForkDepths : Observe(c, d)
  BY <1>9, ObserveInv
<1>10. CASE \E o \in Order("ResumeSource") : ResumeSource(o)
  BY <1>10, ResumeSourceInv
<1>11. CASE \E o \in Order("AcceptBatch") : AcceptBatch(o)
  BY <1>11, AcceptBatchInv DEF Order
<1>12. CASE \E c \in Chains, active \in BOOLEAN : SetCorridorActive(c, active)
  BY <1>12, SetCorridorActiveInv
<1>13. CASE \E c \in Chains, quorum \in 0..Cardinality(Operators) :
                SetCorridorQuorum(c, quorum)
  BY <1>13, SetCorridorQuorumInv
<1>14. CASE \E h \in 1..MaxHeight : AdvanceTo(h)
  BY <1>14, AdvanceToInv
<1>15. CASE \E e \in Hosts[host].epochs : AdvanceEpochTo(e)
  BY <1>15, AdvanceEpochToInv
<1>16. CASE \E a \in Assets : SetEscrow(a, AssetCap[a])
  BY <1>16, SetEscrowInv
<1>17. CASE Reload
  BY <1>17, ReloadInv
<1>18. CASE UNCHANGED vars
  BY <1>18, StutterInv
<1> QED BY <1>1, <1>2, <1>3, <1>4, <1>5, <1>6, <1>7, <1>8, <1>9, <1>10, <1>11,
           <1>12, <1>13, <1>14, <1>15, <1>16, <1>17, <1>18 DEF Next

\* The invariant holds.
LEMMA HostInvariance == Spec => []HostInv
  BY InitInv, NextInv, PTL DEF Spec

\* What is not paid out is a natural number.
LEMMA OutstandingTyped ==
    ASSUME HostInv, NEW a \in Assets
    PROVE  outstanding(gw, a) \in Nat
<1>0. gw \in GatewayState
  BY DEF HostInv, HostType
<1>1. gw.pending_exits \subseteq ExitTicket /\ IsFiniteSet(gw.pending_exits)
  BY <1>0, Fields DEF HostInv, Exits
<1>2. ExitsOf(gw.pending_exits, a) \in Nat
  BY <1>1, ExitsTyped
<1>3. outstanding(gw, a) = gw.per_asset_minted[a] + ExitsOf(gw.pending_exits, a)
  BY OutstandingIs
<1>4. gw.per_asset_minted[a] \in Nat
  BY <1>0, Fields
<1> QED BY <1>2, <1>3, <1>4

\* What was minted is at most what was paid out and the cap on top of it.
UnderCap == \A a \in Assets : deposited[a] <= AssetCap[a] + released[a]

\* A mint is held to the cap with the open exits counted, and a payout only
\* widens the room.
LEMMA CapStep ==
    ASSUME HostInv, UnderCap, [Next]_vars
    PROVE  UnderCap'
<1>0. /\ gw \in GatewayState /\ host \in DOMAIN Hosts
      /\ deposited \in [Assets -> Nat] /\ released \in [Assets -> Nat]
      /\ AssetCap \in [Assets -> Nat]
  BY GatewayAssumption DEF HostInv, HostType
<1>1. CASE \E d \in Hosts[host].deposits : Mint(d)
  <2>1. PICK d \in Hosts[host].deposits : Mint(d)
    BY <1>1
  <2>2. /\ d.asset_id \in Assets
        /\ outstanding(gw, d.asset_id) + d.amount <= AssetCap[d.asset_id]
    BY <2>1 DEF Mint, can_admit_trustless, precheck_trustless, can_process_deposit,
                within_budget
  <2>3. d.amount \in Nat
    BY <1>0, <2>1, HostAssumption
  <2>4. /\ deposited' = [deposited EXCEPT ![d.asset_id] = @ + d.amount]
        /\ released' = released
    BY <2>1 DEF Mint
  <2>5. /\ deposited[d.asset_id] = outstanding(gw, d.asset_id) + released[d.asset_id]
        /\ outstanding(gw, d.asset_id) \in Nat
    BY <2>2, OutstandingTyped DEF HostInv, Exits
  <2>6. ASSUME NEW a \in Assets
        PROVE  deposited'[a] <= AssetCap[a] + released[a]
    <3>1. CASE a = d.asset_id
      BY <1>0, <2>2, <2>3, <2>4, <2>5, <3>1
    <3>2. CASE a # d.asset_id
      BY <1>0, <2>2, <2>4, <3>2 DEF UnderCap
    <3> QED BY <3>1, <3>2
  <2> QED BY <2>4, <2>6 DEF UnderCap
<1>2. CASE \E t \in gw.pending_exits : FinalizeExit(t)
  <2>1. PICK t \in gw.pending_exits : FinalizeExit(t)
    BY <1>2
  <2>2. t.asset_id \in Assets /\ t.amount \in Nat
    BY <1>0, Fields DEF ExitTicket
  <2>3. /\ released' = [released EXCEPT ![t.asset_id] = @ + t.amount]
        /\ deposited' = deposited
    BY <2>1 DEF FinalizeExit
  <2>4. ASSUME NEW a \in Assets
        PROVE  deposited[a] <= AssetCap[a] + released'[a]
    <3>1. /\ deposited[a] <= AssetCap[a] + released[a]
          /\ deposited[a] \in Nat /\ AssetCap[a] \in Nat /\ released[a] \in Nat
      BY <1>0 DEF UnderCap
    <3>2. released'[a] = released[a] \/ released'[a] = released[a] + t.amount
      BY <1>0, <2>2, <2>3
    <3> QED BY <2>2, <3>1, <3>2
  <2> QED BY <2>3, <2>4 DEF UnderCap
<1>3. CASE UNCHANGED <<deposited, released>>
  BY <1>3 DEF UnderCap
<1>4. \/ \E d \in Hosts[host].deposits : Mint(d)
      \/ \E t \in gw.pending_exits : FinalizeExit(t)
      \/ UNCHANGED <<deposited, released>>
  BY DEF Next, vars, RequestExit, CancelExit, EmergencyFreeze, LiftFreeze, PauseAll,
         ResumeAll, ReportReorg, Observe, ResumeSource, AcceptBatch,
         SetCorridorActive, SetCorridorQuorum, AdvanceTo, AdvanceEpochTo,
         SetEscrow, Reload
<1> QED BY <1>1, <1>2, <1>3, <1>4

(***************************************************************************)
(* No order of mints, requests, cancellations, payouts and reloads makes   *)
(* or loses a unit, or takes what is minted and not paid out over the cap  *)
(* of its asset (gateway.rs request_exit, cancel_exit, finalize_exit,      *)
(* precheck_trustless, process_deposit).                                   *)
(***************************************************************************)
THEOREM UnitsAreConserved == Spec => []Conservation
<1>1. Init => UnderCap
  BY GatewayAssumption DEF Init, UnderCap
<1>2. HostInv /\ UnderCap /\ [Next]_vars => UnderCap'
  BY CapStep
<1>3. ASSUME HostInv, UnderCap, NEW a \in Assets
      PROVE  /\ deposited[a] = outstanding(gw, a) + released[a]
             /\ outstanding(gw, a) <= AssetCap[a]
  <2>1. /\ deposited[a] = outstanding(gw, a) + released[a]
        /\ deposited[a] <= AssetCap[a] + released[a]
        /\ released[a] \in Nat /\ AssetCap[a] \in Nat
    BY <1>3, GatewayAssumption DEF HostInv, HostType, Exits, UnderCap
  <2>2. outstanding(gw, a) \in Nat
    BY <1>3, OutstandingTyped
  <2> QED BY <2>1, <2>2
<1>4. HostInv /\ UnderCap => Conservation
  BY <1>3 DEF Conservation
<1> QED BY <1>1, <1>2, <1>4, HostInvariance, PTL DEF Spec

(***************************************************************************)
(* No exit is paid or given back twice, over reloads too: ids are not      *)
(* reused (gateway.rs next_exit_id).                                       *)
(***************************************************************************)
THEOREM ExitsCloseOnce == Spec => []ExitClosesOnce
<1>1. HostInv => ExitClosesOnce
  BY DEF HostInv, Exits, ExitClosesOnce
<1> QED BY <1>1, HostInvariance, PTL

(***************************************************************************)
(* Orders accepted before a lift cannot bring the freeze back              *)
(* (gateway.rs emergency_freeze, lift_freeze, freeze_horizon).             *)
(***************************************************************************)
THEOREM LiftsAreFinal == Spec => []LiftedStaysLifted
<1>1. HostInv => LiftedStaysLifted
  <2> SUFFICES ASSUME HostInv, is_frozen(gw), NEW l \in lifted
               PROVE  gw.frozen_until > l
    BY DEF LiftedStaysLifted
  <2>1. gw \in GatewayState /\ lifted \subseteq Nat /\ Lifts(gw, lifted)
    BY DEF HostInv, HostType
  <2>2. gw.current_height \in Nat /\ gw.frozen_until \in Nat
    BY <2>1, Fields
  <2>3. gw.lifted_freeze # gw.frozen_until
    BY <2>2 DEF is_frozen, freeze_horizon
  <2> QED BY <2>1, <2>2, <2>3 DEF Lifts
<1> QED BY <1>1, HostInvariance, PTL

(***************************************************************************)
(* No corridor setting lets a batch or an attested deposit through with    *)
(* two thirds of the operators or fewer (gateway.rs corridor_need).        *)
(***************************************************************************)
THEOREM QuorumsAreSupermajorities == Spec => []SupermajoritySigned
<1>1. HostInv => SupermajoritySigned
  BY DEF HostInv
<1> QED BY <1>1, HostInvariance, PTL

\* Only resume_source ends the pause of a source, and its order is dated at
\* or after the pause.
LEMMA PauseEnds ==
    ASSUME HostInv, Next, NEW c \in gw.paused_sources \ gw'.paused_sources
    PROVE  gw'.resumed_at[c] >= began[c]
<1>0. gw \in GatewayState /\ host \in DOMAIN Hosts
  BY DEF HostInv, HostType
<1>1. CASE \E o \in Order("ResumeSource") : ResumeSource(o)
  <2>1. PICK o \in Order("ResumeSource") : ResumeSource(o)
    BY <1>1
  <2> DEFINE n == resume_source(gw, o.target, o.mark)
  <2>2. /\ o.target \in Chains /\ o.mark \in Nat /\ n \in GatewayState /\ Becomes(n)
        /\ n.paused_sources = gw.paused_sources \ {o.target}
        /\ n.resumed_at = [gw.resumed_at EXCEPT ![o.target] = o.mark]
    BY <2>1, ResumeSourceDoes
  <2> HIDE DEF n
  <2>3. gw'.paused_sources = n.paused_sources /\ gw'.resumed_at = n.resumed_at
    BY <2>2, Stored DEF SamePauses
  <2>4. c = o.target
    BY <2>2, <2>3
  <2>5. gw'.resumed_at[c] = o.mark
    BY <1>0, <2>2, <2>3, <2>4, Fields
  <2>6. o.mark >= IF gw.paused_since[c] = None THEN gw.current_height
                                               ELSE gw.paused_since[c]
    BY <2>1, <2>4 DEF ResumeSource, can_resume_source
  <2>7. /\ began[c] \in Nat /\ began[c] <= gw.current_height
        /\ gw.paused_since[c] # None => began[c] <= gw.paused_since[c]
    BY <2>2, <2>4 DEF HostInv, Pauses
  <2>8. gw.current_height \in Nat /\ gw.paused_since[c] \in Nat \cup {None}
    BY <1>0, <2>2, <2>4, Fields
  <2> QED BY <2>2, <2>5, <2>6, <2>7, <2>8
<1>2. CASE ~\E o \in Order("ResumeSource") : ResumeSource(o)
  <2> SUFFICES gw.paused_sources \subseteq gw'.paused_sources
    OBVIOUS
  <2>1. CASE \E d \in Hosts[host].deposits : Mint(d)
    BY <1>0, <1>2, <2>1 DEF Mint, admit_trustless, process_deposit, record_mint, Becomes, GatewayState
  <2>2. CASE \E a \in Assets, amount \in Hosts[host].amounts : RequestExit(a, amount)
    BY <1>0, <1>2, <2>2 DEF RequestExit, request_exit, Becomes, GatewayState
  <2>3. CASE \E t \in gw.pending_exits : FinalizeExit(t) \/ CancelExit(t)
    BY <1>0, <1>2, <2>3 DEF FinalizeExit, finalize_exit, CancelExit, cancel_exit, Becomes, GatewayState
  <2>4. CASE \E o \in Order("EmergencyFreeze") : EmergencyFreeze(o)
    BY <1>0, <1>2, <2>4 DEF EmergencyFreeze, emergency_freeze, Becomes, GatewayState
  <2>5. CASE \E o \in Order("LiftFreeze") : LiftFreeze(o)
    BY <1>0, <1>2, <2>5 DEF LiftFreeze, lift_freeze, Becomes, GatewayState
  <2>6. CASE PauseAll
    BY <1>0, <1>2, <2>6 DEF PauseAll, pause_all, Becomes, GatewayState
  <2>7. CASE \E o \in Order("ResumeAll") : ResumeAll(o)
    BY <1>0, <1>2, <2>7 DEF ResumeAll, resume_all, Becomes, GatewayState
  <2>8. CASE \E o \in Order("ReportReorg") : ReportReorg(o)
    BY <1>0, <1>2, <2>8 DEF ReportReorg, report_reorg, Becomes, GatewayState
  <2>9. CASE \E a \in DOMAIN Hosts[host].policy, d \in ForkDepths : Observe(a, d)
    BY <1>0, <1>2, <2>9 DEF Observe, pause_source_direct, Becomes, GatewayState
  <2>10. CASE \E o \in Order("AcceptBatch") : AcceptBatch(o)
    BY <1>0, <1>2, <2>10 DEF AcceptBatch, accept_batch, Becomes, GatewayState
  <2>11. CASE \E a \in Chains, active \in BOOLEAN : SetCorridorActive(a, active)
    BY <1>0, <1>2, <2>11 DEF SetCorridorActive, set_corridor_active, Becomes, GatewayState
  <2>12. CASE \E a \in Chains, quorum \in 0..Cardinality(Operators) :
                SetCorridorQuorum(a, quorum)
    BY <1>0, <1>2, <2>12 DEF SetCorridorQuorum, set_corridor_quorum, Becomes, GatewayState
  <2>13. CASE \E h \in 1..MaxHeight : AdvanceTo(h)
    BY <1>0, <1>2, <2>13 DEF AdvanceTo, advance_to, Becomes, GatewayState
  <2>14. CASE \E e \in Hosts[host].epochs : AdvanceEpochTo(e)
    BY <1>0, <1>2, <2>14 DEF AdvanceEpochTo, advance_epoch_to, Becomes, GatewayState
  <2>15. CASE \E a \in Assets : SetEscrow(a, AssetCap[a])
    BY <1>0, <1>2, <2>15 DEF SetEscrow, set_escrow, Becomes, GatewayState
  <2>16. CASE Reload
    BY <1>0, <1>2, <2>16 DEF Reload, rehydrate_guard, encode_guard, Becomes, GatewayState
  <2> QED BY <1>2, <2>1, <2>2, <2>3, <2>4, <2>5, <2>6, <2>7, <2>8,
             <2>9, <2>10, <2>11, <2>12, <2>13, <2>14, <2>15, <2>16 DEF Next
<1> QED BY <1>1, <1>2

(***************************************************************************)
(* A source goes back to work only by an order dated at or after the pause *)
(* it ends, whoever paused it and however often the gateway was reloaded   *)
(* (gateway.rs resume_source, pause_source_direct, rehydrate_guard).       *)
(***************************************************************************)
THEOREM ResumesFollowPauses == Spec => ResumeNotOlderThanPause
<1>1. HostInv /\ [Next]_vars =>
          [\A c \in gw.paused_sources \ gw'.paused_sources :
              gw'.resumed_at[c] >= began[c]]_vars
  BY PauseEnds
<1> QED BY <1>1, HostInvariance, PTL DEF Spec, ResumeNotOlderThanPause
=============================================================================
