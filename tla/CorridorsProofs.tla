-------------------------- MODULE CorridorsProofs --------------------------
(***************************************************************************)
(* Safety of the corridors that mint on a proof, for chains of any length, *)
(* any stores, proofs and headers presented, and any committees and        *)
(* validator sets that keep the assumptions of ProofCorridors.  The light  *)
(* clients trust what their chains elected: a quorum that signs something  *)
(* else has an honest member in it, who does not.  What a client proves is *)
(* then its chain's, down a path of hashes to a leaf that is read in one   *)
(* way only, and a mint uses its reference up.                             *)
(***************************************************************************)
EXTENDS ProofCorridors, Inductions, SequenceTheorems

\* A list is a function on its places.
LEMMA ListIs ==
    ASSUME NEW s, IsList(s)
    PROVE  /\ Len(s) \in Nat /\ DOMAIN s = 1 .. Len(s) /\ IsSeq(s)
           /\ s \in [1 .. Len(s) -> Range(s)]
  BY LenProperties DEF IsList, IsSeq

-----------------------------------------------------------------------------
(* The beacon chain *)

\* The store is as CommitteesTrue says, and the committees it may come to exist.
StoreInv(st) ==
    /\ st = [period |-> st.period, current |-> st.current,
             next |-> st.next, finalized |-> st.finalized]
    /\ st.period \in Int /\ st.period \in DOMAIN Committees
    /\ st.next # <<>> => st.period + 1 \in DOMAIN Committees
    /\ st.current = Committees[st.period]
    /\ st.next \in {<<>>, Committees[st.period + 1]}
    /\ st.finalized \in Eth!Headers /\ st.finalized.main
    /\ Eth!sync_committee_period(st.finalized.slot) \in {st.period, st.period + 1}

BeaconInv == slot \in 0 .. LAST_SLOT /\ StoreInv(store)

\* The period of a slot is a number.
LEMMA Periods ==
    ASSUME NEW s \in Int
    PROVE  Eth!sync_committee_period(s) \in Int
<1> DEFINE a == config.slots_per_epoch
           b == config.epochs_per_sync_committee_period
           m == a * b
<1>1. a \in Nat /\ b \in Nat /\ a >= 1 /\ b >= 1
  BY BeaconAssumption
<1>2. m \in Nat /\ m >= 1
  <2> HIDE DEF a, b
  <2> QED BY <1>1
<1>3. s \div m \in Int
  <2> HIDE DEF m
  <2> QED BY <1>2
<1> QED BY <1>3 DEF Eth!sync_committee_period

\* A header has a slot, and a period with a committee before and after it.
LEMMA HeaderSlots ==
    ASSUME NEW h \in Eth!Headers
    PROVE  /\ h = [slot |-> h.slot, main |-> h.main] /\ h.main \in BOOLEAN
           /\ h.slot \in 0 .. LAST_SLOT
           /\ Eth!sync_committee_period(h.slot) \in Int
           /\ Eth!sync_committee_period(h.slot) \in DOMAIN Committees
           /\ Eth!sync_committee_period(h.slot) + 1 \in DOMAIN Committees
           /\ h.main => h.slot \in Eth!BlockSlots /\ h = Eth!Header(h.slot)
<1>1. CASE h \in {Eth!Header(s) : s \in Eth!BlockSlots}
  <2>1. PICK s \in Eth!BlockSlots : h = [slot |-> s, main |-> TRUE]
    BY <1>1 DEF Eth!Header
  <2>2. s \in 0 .. LAST_SLOT
    BY BeaconAssumption DEF Eth!BlockSlots, Eth!Range
  <2>3. h.slot = s /\ h.main = TRUE
    BY <2>1
  <2>4. h.slot \in 0 .. LAST_SLOT /\ h = Eth!Header(h.slot)
    BY <2>1, <2>2, <2>3 DEF Eth!Header
  <2>5. Eth!sync_committee_period(h.slot) \in Int
    BY <2>4, Periods
  <2> QED BY <2>1, <2>3, <2>4, <2>5, BeaconAssumption
<1>2. CASE h \in {Eth!Forged(s) : s \in ForgedSlots}
  <2>1. PICK s \in ForgedSlots : h = [slot |-> s, main |-> FALSE]
    BY <1>2 DEF Eth!Forged
  <2>2. s \in 0 .. LAST_SLOT
    BY BeaconAssumption
  <2>3. h.slot = s /\ h.main = FALSE
    BY <2>1
  <2>4. h.slot \in 0 .. LAST_SLOT
    BY <2>2, <2>3
  <2>5. Eth!sync_committee_period(h.slot) \in Int
    BY <2>4, Periods
  <2> QED BY <2>1, <2>3, <2>4, <2>5, BeaconAssumption
<1> QED BY <1>1, <1>2 DEF Eth!Headers

\* What the state of a block of the chain commits to, before and after Electra:
\* the finalized header, and the committees of its period and of the next.
LEMMA StateCommits ==
    ASSUME NEW h, h.main, NEW x
    PROVE  /\ Eth!verify_finality(h, x) => x = Eth!FinalizedBy(h)
           /\ Eth!is_valid_merkle_branch([is |-> "committee", it |-> x],
                 Eth!next_sync_committee_layout(Eth!is_electra_at_slot(h.slot)), h, "state")
                 => x = Committees[Eth!sync_committee_period(h.slot) + 1]
           /\ Eth!is_valid_merkle_branch([is |-> "committee", it |-> x],
                 Eth!current_sync_committee_layout(Eth!is_electra_at_slot(h.slot)), h, "state")
                 => x = Committees[Eth!sync_committee_period(h.slot)]
<1> DEFINE e == Eth!is_electra_at_slot(h.slot)
           F == Eth!finalized_root_layout(e)
           N == Eth!next_sync_committee_layout(e)
           C == Eth!current_sync_committee_layout(e)
<1>1. BLOCK_ROOTS_DEPTH \in Int /\ BLOCK_ROOTS_DEPTH > 1
  BY BeaconAssumption
<1>2. Eth!StateLeaf(h, F) = [is |-> "header", it |-> Eth!FinalizedBy(h)]
  BY <1>1 DEF Eth!StateLeaf, Eth!finalized_root_layout
<1>3. Eth!StateLeaf(h, N) =
         [is |-> "committee", it |-> Committees[Eth!sync_committee_period(h.slot) + 1]]
  BY <1>1 DEF Eth!StateLeaf, Eth!next_sync_committee_layout
<1>4. Eth!StateLeaf(h, C) =
         [is |-> "committee", it |-> Committees[Eth!sync_committee_period(h.slot)]]
  BY <1>1 DEF Eth!StateLeaf, Eth!current_sync_committee_layout
<1> QED BY <1>2, <1>3, <1>4 DEF Eth!verify_finality, Eth!is_valid_merkle_branch

\* What a supermajority of a true committee has signed is of the chain.
LEMMA SignedIsMain ==
    ASSUME BeaconInv, NEW attested, NEW s,
           NEW participation \in Eth!Participations(store, s),
           Eth!check_participation(store, participation, s),
           Eth!verify_sync_aggregate(store, attested, participation, s)
    PROVE  attested.main
<1> DEFINE C == Eth!select_committee(store, s)
           P == {i \in DOMAIN participation : participation[i]}
<1>1. PICK p \in DOMAIN Committees : C = Committees[p]
  BY DEF BeaconInv, StoreInv, Eth!select_committee, Eth!check_participation
<1> DEFINE D == {i \in DOMAIN Committees[p] : Committees[p][i] \notin Honest}
<1>2. /\ Len(C) \in Nat /\ DOMAIN C = 1 .. Len(C)
      /\ Cardinality(D) < Eth!supermajority_threshold
  BY <1>1, MembersAssumption, ListIs
<1>3. DOMAIN participation = 1 .. Len(C)
  BY DEF Eth!Participations, Eth!Everyone
<1>4. Cardinality(P) >= Eth!supermajority_threshold
  <2>1. Eth!participants(participation) >= Eth!supermajority_threshold
    BY Zenon DEF Eth!check_participation
  <2>2. Eth!Cardinality(P) >= Eth!supermajority_threshold
    BY <2>1, Zenon DEF Eth!participants
  <2>3. Eth!Cardinality(P) = Cardinality(P)
    BY Zenon DEF Eth!Cardinality, Cardinality
  <2> QED BY <2>2, <2>3, Zenon
<1>5. PICK i \in P : Committees[p][i] \in Honest
  <2>1. SUFFICES ASSUME \A i \in P : Committees[p][i] \notin Honest
                 PROVE  FALSE
    OBVIOUS
  <2>2. P \subseteq D
    BY <2>1, <1>1, <1>2, <1>3
  <2>3. IsFiniteSet(D)
    <3> DEFINE n == Len(C)
    <3>1. n \in Int /\ 1 \in Int
      BY <1>2
    <3>2. IsFiniteSet(1 .. n)
      <4> HIDE DEF n
      <4> QED BY <3>1, FS_Interval
    <3> QED BY <3>2, <1>1, <1>2, FS_Subset
  <2>4. Cardinality(P) <= Cardinality(D) /\ Cardinality(P) \in Nat /\ Cardinality(D) \in Nat
    BY <2>2, <2>3, FS_Subset, FS_CardinalityType
  <2>5. Eth!supermajority_threshold \in Int
    BY BeaconAssumption DEF Eth!supermajority_threshold
  <2> HIDE DEF P, D
  <2> QED BY <2>4, <2>5, <1>2, <1>4
<1>6. Committees[p][i] \in Eth!participating_pubkeys(C, participation)
  BY <1>1, <1>2, <1>3, <1>5 DEF Eth!participating_pubkeys
<1>7. PICK v : Eth!Signed(Committees[p][i], attested, v)
  BY <1>6 DEF Eth!verify_sync_aggregate, Eth!fast_aggregate_verify
<1> QED BY <1>5, <1>7 DEF Eth!Signed, Eth!HeadAt, Eth!Header

\* A header finalized by a block of the chain is of the chain.
LEMMA FinalizedIsMain ==
    ASSUME NEW h \in Eth!Headers, h.main, NEW f, Eth!verify_finality(h, f)
    PROVE  f.main
<1>1. f = Eth!FinalizedBy(h)
  BY StateCommits
<1>2. Eth!FinalizedBy(h).main
  BY DEF Eth!FinalizedBy, Eth!HeadAt, Eth!Header
<1> QED BY <1>1, <1>2

\* What rotates the store, and what it becomes.
LEMMA RotateStep ==
    ASSUME BeaconInv, NEW attested \in Eth!Headers, NEW n \in 1 .. 2,
           Eth!Rotate(attested, attested.slot + n)
    PROVE  BeaconInv'
<1> DEFINE period(h) == Eth!sync_committee_period(h.slot)
<1>1. PICK finalized \in Eth!Headers :
         /\ Eth!verify_finality(attested, finalized)
         /\ UNCHANGED slot
         /\ \E next \in Eth!AllCommittees,
               participation \in Eth!Participations(store, attested.slot + n) :
              LET u == [attested |-> attested, finalized |-> finalized,
                        next_sync_committee |-> next, participation |-> participation,
                        signature_slot |-> attested.slot + n]
              IN  /\ Eth!verifies_update(store, u)
                  /\ store' = Eth!rotate_sync_committee(store, u)
  BY DEF Eth!Rotate
<1>2. PICK next \in Eth!AllCommittees,
           participation \in Eth!Participations(store, attested.slot + n) :
              LET u == [attested |-> attested, finalized |-> finalized,
                        next_sync_committee |-> next, participation |-> participation,
                        signature_slot |-> attested.slot + n]
              IN  /\ Eth!verifies_update(store, u)
                  /\ store' = Eth!rotate_sync_committee(store, u)
  BY <1>1
<1> DEFINE u == [attested |-> attested, finalized |-> finalized,
                 next_sync_committee |-> next, participation |-> participation,
                 signature_slot |-> attested.slot + n]
<1>3. /\ u.attested = attested /\ u.finalized = finalized
      /\ u.next_sync_committee = next /\ u.participation = participation
      /\ u.signature_slot = attested.slot + n
  OBVIOUS
<1> HIDE DEF u
<1>4. Eth!verifies_update(store, u) /\ store' = Eth!rotate_sync_committee(store, u)
  BY <1>2 DEF u
<1>5. /\ Eth!check_participation(store, participation, attested.slot + n)
      /\ Eth!verify_sync_aggregate(store, attested, participation, attested.slot + n)
      /\ period(attested) \in store.period .. Eth!reach(store)
      /\ period(finalized) \in store.period .. period(attested)
      /\ Eth!is_valid_merkle_branch([is |-> "committee", it |-> next],
            Eth!next_sync_committee_layout(Eth!is_electra_at_slot(attested.slot)),
            attested, "state")
  BY <1>3, <1>4 DEF Eth!verifies_update, Eth!structural_sync_committee_update
<1>6. attested.main
  BY <1>5, SignedIsMain
<1>7. next = Committees[period(attested) + 1] /\ finalized.main
  BY <1>1, <1>5, <1>6, StateCommits, FinalizedIsMain
<1>8. /\ period(attested) \in Int /\ period(finalized) \in Int
      /\ period(attested) + 1 \in DOMAIN Committees /\ period(attested) \in DOMAIN Committees
  BY HeaderSlots
<1>9. /\ store.period \in Int /\ period(store.finalized) \in {store.period, store.period + 1}
      /\ period(attested) \in {store.period, store.period + 1}
      /\ period(attested) = store.period + 1 => store.next # <<>>
  BY <1>5, <1>8 DEF BeaconInv, StoreInv, Eth!reach
<1> DEFINE A == Eth!apply_sync_committee_update(store, u)
           N == Eth!advance_period(A)
<1>10. StoreInv(A)
  <2> DEFINE X == IF period(attested) = store.period THEN next ELSE store.next
             F == IF finalized.slot > store.finalized.slot THEN finalized ELSE store.finalized
  <2>1. A = [store EXCEPT !.next = X, !.finalized = F]
    BY <1>3 DEF Eth!apply_sync_committee_update
  <2>2. X \in {<<>>, Committees[store.period + 1]}
        /\ (X # <<>> => store.period + 1 \in DOMAIN Committees)
    BY <1>7, <1>8, <1>9 DEF StoreInv, BeaconInv
  <2>3. /\ F \in Eth!Headers /\ F.main
        /\ Eth!sync_committee_period(F.slot) \in {store.period, store.period + 1}
    <3>1. period(finalized) \in {store.period, store.period + 1}
      BY <1>5, <1>8, <1>9
    <3>2. F \in {finalized, store.finalized}
      OBVIOUS
    <3> HIDE DEF F
    <3> QED BY <3>1, <3>2, <1>7, <1>9 DEF StoreInv, BeaconInv
  <2> HIDE DEF A, F, X
  <2>4. A = [period |-> store.period, current |-> store.current, next |-> X, finalized |-> F]
    BY <2>1 DEF StoreInv, BeaconInv
  <2> QED BY <2>2, <2>3, <2>4 DEF StoreInv, BeaconInv
<1> HIDE DEF A
<1>11. StoreInv(N)
  <2>1. CASE ~(Eth!sync_committee_period(A.finalized.slot) > A.period /\ A.next # <<>>)
    BY <2>1, <1>10 DEF Eth!advance_period
  <2>2. CASE Eth!sync_committee_period(A.finalized.slot) > A.period /\ A.next # <<>>
    <3>1. N = [A EXCEPT !.current = A.next, !.period = A.period + 1, !.next = <<>>]
      BY <2>2 DEF Eth!advance_period
    <3>2. N = [period |-> A.period + 1, current |-> A.next, next |-> <<>>,
               finalized |-> A.finalized]
      BY <3>1, <1>10 DEF StoreInv
    <3> HIDE DEF N
    <3>3. /\ N.period = A.period + 1 /\ N.current = A.next /\ N.next = <<>>
          /\ N.finalized = A.finalized
      BY <3>2
    <3> QED BY <2>2, <3>2, <3>3, <1>10 DEF StoreInv
  <2> QED BY <2>1, <2>2
<1> HIDE DEF N
<1>12. StoreInv(store')
  <2>1. store' = IF period(attested) = N.period /\ N.next = <<>>
                 THEN [N EXCEPT !.next = next] ELSE N
    BY <1>3, <1>4 DEF A, N, Eth!rotate_sync_committee
  <2> QED BY <2>1, <1>7, <1>8, <1>11 DEF StoreInv
<1> QED BY <1>1, <1>12 DEF BeaconInv

\* An anchored store is that of its period (can_bootstrap, bootstrap).
LEMMA BeaconInit ==
    ASSUME Eth!Init
    PROVE  BeaconInv
<1>1. PICK checkpoint_ \in Eth!Headers, period \in DOMAIN Committees,
           committee \in Eth!AllCommittees :
         /\ Eth!can_bootstrap(period, checkpoint_, checkpoint_, committee)
         /\ store = Eth!bootstrap(period, checkpoint_, committee)
  BY DEF Eth!Init
<1>2. checkpoint_ \in PINNED_BLOCK_ROOTS
  BY <1>1 DEF Eth!can_bootstrap, Eth!root_is_pinned
<1>3. checkpoint_.main
  BY <1>2, BeaconAssumption DEF Eth!Header
<1>4. committee = Committees[period] /\ period = Eth!sync_committee_period(checkpoint_.slot)
  BY <1>1, <1>3, StateCommits DEF Eth!can_bootstrap
<1>5. period \in Int
  BY <1>4, HeaderSlots
<1>6. store = [period |-> period, current |-> committee, next |-> <<>>,
               finalized |-> checkpoint_]
  BY <1>1 DEF Eth!bootstrap
<1>7. StoreInv(store)
  BY <1>3, <1>4, <1>5, <1>6 DEF StoreInv
<1>8. slot \in 0 .. LAST_SLOT
  BY BeaconAssumption DEF Eth!Init
<1> QED BY <1>7, <1>8 DEF BeaconInv

\* Every step keeps the store true to the chain.
LEMMA BeaconStep ==
    ASSUME BeaconInv, [Next]_vars
    PROVE  BeaconInv'
<1>1. CASE Beacon
  BY <1>1, BeaconAssumption DEF Beacon, BeaconInv, StoreInv, Eth!Slot
<1>2. CASE Rotate
  BY <1>2, RotateStep DEF Rotate, Eth!Update
<1>3. CASE UNCHANGED <<store, slot>>
  BY <1>3 DEF BeaconInv, StoreInv
<1> QED BY <1>1, <1>2, <1>3 DEF Next, SubmitDeposit, CreatePool, Time, Follow, vars

-----------------------------------------------------------------------------
(* The Cosmos chain *)

\* The sums of the Cosmos client are sums.
LEMMA CosmosSum ==
    ASSUME NEW w
    PROVE  Cos!SumFunction(w) = SumFunction(w)
  BY Zenon DEF Cos!SumFunction, Cos!SumFunctionOnSet, Cos!FoldFunctionOnSet, Cos!MapThenFoldSet,
               SumFunction, SumFunctionOnSet, FoldFunctionOnSet, MapThenFoldSet

TallyFrom(commit, set, reaches, n, f) ==
    f = [i \in 0 .. n |->
            IF i = 0 THEN [signed |-> 0, unresolved |-> Cos!claimed_power(commit, set)]
            ELSE Cos!count(commit.signatures, set, reaches, i, f[i - 1])]

\* The count exists.
LEMMA TallyExists ==
    ASSUME NEW commit, NEW set, NEW reaches, NEW n \in Nat
    PROVE  \E f : TallyFrom(commit, set, reaches, n, f)
<1> DEFINE first == [signed |-> 0, unresolved |-> Cos!claimed_power(commit, set)]
           step(i, acc) == Cos!count(commit.signatures, set, reaches, i, acc)
           S == {m \in Nat : \E f : TallyFrom(commit, set, reaches, m, f)}
<1>1. 0 \in S
  <2>1. TallyFrom(commit, set, reaches, 0, [i \in 0 .. 0 |-> first])
    BY DEF TallyFrom
  <2> QED BY <2>1
<1>2. ASSUME NEW m \in S PROVE m + 1 \in S
  <2>1. PICK f : TallyFrom(commit, set, reaches, m, f)
    OBVIOUS
  <2>2. \A i \in 0 .. m : f[i] = IF i = 0 THEN first ELSE step(i, f[i - 1])
    BY <2>1 DEF TallyFrom
  <2> HIDE DEF first, step
  <2> DEFINE g == [i \in 0 .. (m + 1) |-> IF i <= m THEN f[i] ELSE step(m + 1, f[m])]
  <2>3. \A i \in 0 .. (m + 1) : g[i] = IF i = 0 THEN first ELSE step(i, g[i - 1])
    BY <2>2
  <2>4. TallyFrom(commit, set, reaches, m + 1, g)
    <3>1. g = [i \in 0 .. (m + 1) |-> g[i]]
      OBVIOUS
    <3> HIDE DEF g
    <3> QED BY <2>3, <3>1 DEF TallyFrom, first, step
  <2> HIDE DEF g
  <2> QED BY <2>4
<1>3. S = Nat
  <2>1. S \in SUBSET Nat
    OBVIOUS
  <2> HIDE DEF S
  <2> QED BY <1>1, <1>2, <2>1, Induct
<1> QED BY <1>3

\* What tally is.
LEMMA TallyIs ==
    ASSUME NEW commit, Len(commit.signatures) \in Nat, NEW set, NEW reaches,
           NEW f, f = Cos!tally(commit, set, reaches)
    PROVE  /\ f[0] = [signed |-> 0, unresolved |-> Cos!claimed_power(commit, set)]
           /\ \A i \in 1 .. Len(commit.signatures) :
                 f[i] = Cos!count(commit.signatures, set, reaches, i, f[i - 1])
<1> DEFINE n == Len(commit.signatures)
<1>1. TallyFrom(commit, set, reaches, n, f)
  <2>1. f = CHOOSE g : TallyFrom(commit, set, reaches, n, g)
    BY Zenon DEF Cos!tally, TallyFrom
  <2>2. \E g : TallyFrom(commit, set, reaches, n, g)
    BY TallyExists
  <2> QED BY <2>1, <2>2, Zenon
<1> QED BY <1>1 DEF TallyFrom

\* Where the corrupt of a set of validators are.
CorruptIn(set) == {k \in DOMAIN set : set[k].pubkey \in Corrupt}

\* Corrupt power is a number, at most all the power there is.
LEMMA CorruptIsLess ==
    ASSUME NEW set, IsSet(set)
    PROVE  /\ IsFiniteSet(DOMAIN set) /\ IsFiniteSet(CorruptIn(set))
           /\ CorruptPower(set) \in Nat /\ Cos!total_power(set) \in Nat
           /\ CorruptPower(set) <= Cos!total_power(set)
<1> DEFINE n == Len(set)
           D == DOMAIN set
           K == CorruptIn(set)
           w == [i \in D |-> set[i].voting_power]
           c == [i \in K |-> set[i].voting_power]
<1>1. n \in Int /\ 1 \in Int /\ D = 1 .. n
  BY ListIs DEF IsSet
<1>2. IsFiniteSet(D)
  <2>1. IsFiniteSet(1 .. n)
    <3> HIDE DEF n
    <3> QED BY <1>1, FS_Interval
  <2> QED BY <2>1, <1>1
<1>3. IsFiniteSet(K)
  BY <1>2, FS_Subset DEF CorruptIn
<1>4. w \in [D -> Nat] /\ K \subseteq D /\ c = [u \in K |-> w[u]]
  BY DEF IsSet, CorruptIn
<1>5. c \in [K -> Nat]
  BY DEF IsSet, CorruptIn
<1>6. Cos!total_power(set) = SumFunction(w) /\ CorruptPower(set) = SumFunction(c)
  BY CosmosSum DEF Cos!total_power, CorruptPower, CorruptIn
<1>7. SumFunction(w) \in Nat /\ SumFunction(c) \in Nat
  <2> HIDE DEF w, c
  <2> QED BY <1>2, <1>3, <1>4, <1>5, SumRemove
<1>8. SumFunction([u \in K |-> w[u]]) <= SumFunction(w)
  <2> HIDE DEF w, c, K, D
  <2> QED BY <1>2, <1>4, SumFewer
<1> QED BY <1>2, <1>3, <1>4, <1>6, <1>7, <1>8

\* An address votes with the power of an entry of its own.
LEMMA PowerIsOwn ==
    ASSUME NEW set, IsSet(set), NEW a
    PROVE  /\ a \notin Cos!Addresses(set) => Cos!power_of(set, a) = 0
           /\ a \in Cos!Addresses(set) =>
                 \E k \in DOMAIN set : /\ set[k].pubkey = a
                                       /\ Cos!power_of(set, a) = set[k].voting_power
<1> DEFINE T == {i \in DOMAIN set : set[i].pubkey = a}
<1>1. CASE a \notin Cos!Addresses(set)
  BY <1>1 DEF Cos!power_of
<1>2. CASE a \in Cos!Addresses(set)
  <2>1. T # {} /\ T \subseteq Nat
    BY <1>2, ListIs DEF Cos!Addresses, IsSet
  <2>2. Cos!Min(T) \in T
    <3> HIDE DEF T
    <3>1. \E x \in T : \A y \in T : x <= y
      BY <2>1, LeastNatural
    <3> QED BY <3>1, Zenon DEF Cos!Min
  <2>3. Cos!power_of(set, a) = set[Cos!Min(T)].voting_power
    BY <1>2 DEF Cos!power_of
  <2> HIDE DEF T
  <2>4. PICK k \in T : Cos!power_of(set, a) = set[k].voting_power
    BY <2>2, <2>3
  <2> QED BY <2>4, <1>2 DEF T
<1> QED BY <1>1, <1>2

\* Where all who really signed, of a set of validators, are corrupt, no more is
\* counted than the power of the corrupt.
LEMMA CountedIsCorrupt ==
    ASSUME NEW commit, NEW sigs, sigs = commit.signatures, NEW set, NEW reaches,
           IsSet(set), IsList(sigs),
           Cos!NoneTwice(sigs, Cos!Voted(sigs)),
           \A i \in Cos!Voted(sigs) :
              sigs[i].signature = "real" /\ sigs[i].validator_address \in Cos!Addresses(set)
              => sigs[i].validator_address \in Corrupt
    PROVE  /\ Cos!tally_signed_power_until(commit, set, reaches) \in Nat
           /\ Cos!tally_signed_power_until(commit, set, reaches) <= CorruptPower(set)
<1> DEFINE n == Len(sigs)
           V == Cos!Voted(sigs)
           K == CorruptIn(set)
           f == Cos!tally(commit, set, reaches)
           addr(i) == sigs[i].validator_address
           sum(U) == SumFunction([u \in U |-> set[u].voting_power])
           Seen(U, i) == \A u \in U : \E j \in 1 .. i : j \in V /\ addr(j) = set[u].pubkey
           Good(i) == \E U : U \subseteq K /\ Seen(U, i) /\ f[i].signed = sum(U)
           S == {i \in 0 .. n : Good(i)}
<1>1. n \in Nat /\ DOMAIN sigs = 1 .. n
  BY ListIs
<1>2. IsFiniteSet(K) /\ K \subseteq DOMAIN set /\ \A k \in K : set[k].voting_power \in Nat
  BY CorruptIsLess DEF CorruptIn, IsSet
<1>3. /\ f[0] = [signed |-> 0, unresolved |-> Cos!claimed_power(commit, set)]
      /\ \A i \in 1 .. n : f[i] = Cos!count(sigs, set, reaches, i, f[i - 1])
  <2> HIDE DEF f
  <2>1. f = Cos!tally(commit, set, reaches) /\ Len(commit.signatures) \in Nat
    BY <1>1 DEF f
  <2> QED BY <2>1, TallyIs
<1>4. \A U : U \subseteq K => /\ sum(U) \in Nat
                              /\ U = {} => sum(U) = 0
                              /\ sum(U) <= CorruptPower(set)
  <2> TAKE U
  <2> HAVE U \subseteq K
  <2> DEFINE w == [k \in K |-> set[k].voting_power]
             v == [u \in U |-> set[u].voting_power]
  <2>1. w \in [K -> Nat] /\ v \in [U -> Nat] /\ IsFiniteSet(U) /\ v = [u \in U |-> w[u]]
    BY <1>2, FS_Subset
  <2>2. CorruptPower(set) = SumFunction(w)
    BY DEF CorruptPower, CorruptIn
  <2> HIDE DEF w, K
  <2>3. SumFunction([u \in U |-> w[u]]) <= SumFunction(w)
    BY <1>2, <2>1, SumFewer
  <2>4. SumFunction(v) \in Nat /\ (U = {} => SumFunction(v) = 0)
    <3> HIDE DEF v
    <3> QED BY <2>1, SumRemove
  <2> QED BY <2>1, <2>2, <2>3, <2>4
<1>5. ASSUME NEW U, U \subseteq K, NEW k \in K, k \notin U
      PROVE  sum(U \cup {k}) = sum(U) + set[k].voting_power
  <2> DEFINE v == [u \in U |-> set[u].voting_power]
  <2>1. v \in [U -> Nat] /\ IsFiniteSet(U) /\ set[k].voting_power \in Nat
    BY <1>2, <1>5, FS_Subset
  <2>2. [y \in U \cup {k} |-> IF y = k THEN set[k].voting_power ELSE v[y]]
           = [y \in U \cup {k} |-> set[y].voting_power]
    OBVIOUS
  <2>3. SumFunction([y \in U \cup {k} |-> IF y = k THEN set[k].voting_power ELSE v[y]])
           = SumFunction(v) + set[k].voting_power
    <3> HIDE DEF v
    <3> QED BY <2>1, <1>5, SumAdd
  <2> QED BY <2>2, <2>3
<1> HIDE DEF sum, f
<1>6. 0 \in S
  <2>1. f[0].signed = sum({}) /\ {} \subseteq K /\ Seen({}, 0)
    BY <1>3, <1>4
  <2> QED BY <1>1, <2>1
<1>7. ASSUME NEW i \in 0 .. (n - 1), i \in S PROVE i + 1 \in S
  <2>1. PICK U : U \subseteq K /\ Seen(U, i) /\ f[i].signed = sum(U)
    BY <1>7
  <2> DEFINE m == i + 1
             p == Cos!power_of(set, addr(m))
  <2>2. m \in 1 .. n /\ m \in DOMAIN sigs /\ i + 1 \in 0 .. n /\ m - 1 = i
    BY <1>1
  <2>3. Seen(U, m)
    BY <2>1, <1>1
  <2>4. f[m] = Cos!count(sigs, set, reaches, m, f[i])
    BY <1>3, <2>2
  <2>5. CASE f[m].signed = f[i].signed
    BY <2>1, <2>2, <2>3, <2>5
  <2>6. CASE f[m].signed # f[i].signed
    <3>1. m \in V /\ sigs[m].signature = "real" /\ f[m].signed = f[i].signed + p
      BY <2>4, <2>6 DEF Cos!count, Cos!WellSized
    <3>2. addr(m) \in Cos!Addresses(set)
      <4>1. sum(U) \in Nat
        BY <1>4, <2>1
      <4> QED BY <4>1, <3>1, <2>1, <2>6, PowerIsOwn
    <3>3. PICK k \in DOMAIN set : set[k].pubkey = addr(m) /\ p = set[k].voting_power
      BY <3>2, PowerIsOwn
    <3>4. k \in K
      BY <3>1, <3>2, <3>3 DEF CorruptIn
    <3>5. k \notin U
      <4> SUFFICES ASSUME k \in U PROVE FALSE
        OBVIOUS
      <4>1. PICK j \in 1 .. i : j \in V /\ addr(j) = addr(m)
        BY <2>1, <3>3
      <4>2. j = m
        BY <3>1, <4>1 DEF Cos!NoneTwice
      <4> QED BY <4>1, <4>2
    <3>6. sum(U \cup {k}) = f[m].signed
      BY <1>5, <2>1, <3>1, <3>3, <3>4, <3>5
    <3>7. Seen(U \cup {k}, m)
      BY <2>2, <2>3, <3>1, <3>3
    <3>8. U \cup {k} \subseteq K
      BY <2>1, <3>4
    <3>9. Good(m)
      BY <3>6, <3>7, <3>8
    <3> QED BY <2>2, <3>9
  <2> QED BY <2>5, <2>6
<1>8. n \in S
  <2> HIDE DEF S
  <2>1. \A i \in 0 .. n : i \in S
    BY <1>1, <1>6, <1>7, InductTo
  <2> QED BY <2>1, <1>1
<1>9. PICK U : U \subseteq K /\ f[n].signed = sum(U)
  BY <1>8
<1>10. Cos!tally_signed_power_until(commit, set, reaches) = f[n].signed
  BY DEF Cos!tally_signed_power_until, f
<1> QED BY <1>4, <1>9, <1>10

\* A finite set in some order is a sequence over it.
LEMMA SetInOrder ==
    ASSUME NEW S, IsFiniteSet(S)
    PROVE  Cos!SetToSeq(S) \in Seq(S)
<1>1. Cos!Cardinality(S) = Cardinality(S)
  BY Zenon DEF Cos!Cardinality, Cardinality
<1> DEFINE n == Cardinality(S)
<1>2. n \in Nat /\ ExistsBijection(1 .. n, S)
  BY FS_CardinalityType
<1>3. \E f \in [1 .. n -> S] : Cos!IsInjective(f)
  <2>1. PICK f \in Bijection(1 .. n, S) : TRUE
    BY <1>2 DEF ExistsBijection
  <2>2. f \in [1 .. n -> S] /\ \A a, b \in 1 .. n : f[a] = f[b] => a = b
    BY <2>1 DEF Bijection, Injection, IsInjective
  <2> QED BY <2>2 DEF Cos!IsInjective
<1>4. Cos!SetToSeq(S) \in [1 .. n -> S]
  <2>1. Cos!SetToSeq(S) = CHOOSE f \in [1 .. n -> S] : Cos!IsInjective(f)
    BY <1>1, Zenon DEF Cos!SetToSeq
  <2> HIDE DEF n
  <2> QED BY <1>3, <2>1, Zenon
<1> HIDE DEF n
<1> QED BY <1>2, <1>4

\* Whoever has really signed a block could.
LEMMA SignersCan ==
    ASSUME NEW block, NEW keys, IsFiniteSet(keys), NEW s \in Cos!CommitsOver(block, keys)
    PROVE  /\ IsList(s)
           /\ \A i \in Cos!Voted(s) :
                 s[i].signature = "real" => Cos!CanSign(s[i].validator_address, block)
<1> DEFINE able == {k \in keys : Cos!CanSign(k, block)}
           all(flag, made, of) == {Cos!Sig(flag, k, made) : k \in of}
           sigs(flag, made, of) == Cos!SetToSeq(all(flag, made, of))
           others(of) == {<<>>, sigs("Nil", "real", of), sigs("Commit", "junk", of),
                          sigs("Commit", "short", of)}
           fair(g) == g.flag = "Commit" /\ g.signature = "real"
                          => Cos!CanSign(g.validator_address, block)
           T == {g \in UNION {all(flag, made, keys) : flag \in {"Commit", "Nil"},
                                                      made \in {"real", "junk", "short"}} : fair(g)}
<1>1. ASSUME NEW of, of \subseteq keys, NEW flag \in {"Commit", "Nil"},
             NEW made \in {"real", "junk", "short"},
             flag = "Commit" /\ made = "real" => of \subseteq able
      PROVE  sigs(flag, made, of) \in Seq(T)
  <2> DEFINE A == all(flag, made, of)
             f == [k \in of |-> Cos!Sig(flag, k, made)]
  <2>1. IsFiniteSet(of)
    BY <1>1, FS_Subset
  <2>2. f \in Surjection(of, A)
    BY DEF Surjection
  <2>3. IsFiniteSet(A)
    <3> HIDE DEF A, f
    <3> QED BY <2>1, <2>2, FS_Surjection
  <2>4. ASSUME NEW g \in A PROVE g \in T
    <3>1. PICK k \in of : g = Cos!Sig(flag, k, made)
      OBVIOUS
    <3>2. g.flag = flag /\ g.signature = made /\ g.validator_address = k
      BY <3>1 DEF Cos!Sig
    <3>3. fair(g)
      BY <1>1, <3>2
    <3>4. g \in all(flag, made, keys)
      BY <1>1, <3>1
    <3> HIDE DEF fair, all
    <3>5. all(flag, made, keys) \in {all(flag_, made_, keys) : flag_ \in {"Commit", "Nil"},
                                        made_ \in {"real", "junk", "short"}}
      BY <1>1
    <3> QED BY <3>3, <3>4, <3>5
  <2>5. Cos!SetToSeq(A) \in Seq(A)
    <3> HIDE DEF A
    <3> QED BY <2>3, SetInOrder
  <2> HIDE DEF A, T
  <2>6. Cos!SetToSeq(A) \in Seq(T)
    BY <2>4, <2>5, SeqMonotonic
  <2> QED BY <2>6 DEF A
<1>2. PICK out \in {{}} \cup {{k} : k \in able} :
         \E x \in others(keys \ (able \ out)) \cup {sigs("Commit", "real", able \ out)} :
            s = sigs("Commit", "real", able \ out) \o x
  BY Zenon DEF Cos!CommitsOver
<1>3. PICK x \in others(keys \ (able \ out)) \cup {sigs("Commit", "real", able \ out)} :
         s = sigs("Commit", "real", able \ out) \o x
  BY <1>2
<1>4. /\ able \ out \subseteq able /\ able \ out \subseteq keys
      /\ keys \ (able \ out) \subseteq keys
  OBVIOUS
<1> HIDE DEF T, able, sigs
<1>5. /\ sigs("Commit", "real", able \ out) \in Seq(T)
      /\ sigs("Nil", "real", keys \ (able \ out)) \in Seq(T)
      /\ sigs("Commit", "junk", keys \ (able \ out)) \in Seq(T)
      /\ sigs("Commit", "short", keys \ (able \ out)) \in Seq(T)
      /\ <<>> \in Seq(T)
  BY <1>1, <1>4
<1>6. x \in Seq(T)
  BY <1>3, <1>5
<1>7. s \in Seq(T)
  BY <1>3, <1>5, <1>6, ConcatProperties
<1>8. IsList(s) /\ \A i \in DOMAIN s : s[i] \in T
  <2> HIDE DEF T
  <2>1. s \in Seq(Range(s))
    BY <1>7, SeqOfRange
  <2> QED BY <1>7, <2>1, LenProperties DEF IsList
<1> QED BY <1>8 DEF T, Cos!Voted

-----------------------------------------------------------------------------
(* What the light client of a Cosmos chain trusts *)

CosmosInv ==
    /\ clock \in Nat
    /\ \E h \in Range(Main) : trusted = Cos!adopt(h, h.validators)

\* The keys of a set are finite.
LEMMA AddressesFinite ==
    ASSUME NEW set, IsSet(set)
    PROVE  IsFiniteSet(Cos!Addresses(set))
<1> DEFINE D == DOMAIN set
           A == Cos!Addresses(set)
           f == [i \in D |-> set[i].pubkey]
<1>1. IsFiniteSet(D)
  BY CorruptIsLess
<1>2. f \in Surjection(D, A)
  BY DEF Surjection, Cos!Addresses
<1> HIDE DEF D, A, f
<1>3. IsFiniteSet(A)
  BY <1>1, <1>2, FS_Surjection
<1> QED BY <1>3 DEF A

\* What a client adopts.
LEMMA AdoptIs ==
    ASSUME NEW h, NEW set
    PROVE  /\ Cos!adopt(h, set).height = h.height /\ Cos!adopt(h, set).time = h.time
           /\ Cos!adopt(h, set).header_hash = h /\ Cos!adopt(h, set).validators = set
           /\ Cos!adopt(h, set).next_validators = h.next_validators
  BY DEF Cos!adopt

\* The commits presented for a header, and whose signatures they hold.
LEMMA CommitSigners ==
    ASSUME CosmosInv, NEW c \in Cos!Candidates, NEW commit \in Cos!CommitsFor(c)
    PROVE  /\ IsList(commit.signatures)
           /\ \A i \in Cos!Voted(commit.signatures) :
                 commit.signatures[i].signature = "real" =>
                    Cos!CanSign(commit.signatures[i].validator_address, commit.block_id)
<1> DEFINE keys == Cos!Addresses(c[2]) \cup Cos!Addresses(trusted.validators)
<1>1. PICK g \in Range(Main) : trusted = Cos!adopt(g, g.validators)
  BY DEF CosmosInv
<1>2. IsSet(trusted.validators)
  BY <1>1, ValidatorsAssumption, AdoptIs DEF Cos!Headers, Cos!Range, Range
<1>3. IsSet(c[2])
  <2>1. PICK h \in Cos!Headers : c \in {<<h, h.validators>>, <<h, trusted.validators>>}
    BY DEF Cos!Candidates
  <2>2. c[2] \in {h.validators, trusted.validators}
    BY <2>1
  <2> QED BY <2>1, <2>2, <1>2, ValidatorsAssumption
<1>4. IsFiniteSet(keys)
  BY <1>2, <1>3, AddressesFinite, FS_Union
<1> HIDE DEF keys
<1>5. commit \in Cos!Commits(c[1], keys)
  BY DEF Cos!CommitsFor, keys
<1>6. PICK b, k, s :
         /\ s \in Cos!CommitsOver(b, keys)
         /\ commit = [height |-> k, block_id |-> b, signatures |-> s]
  <2>1. PICK b, k : commit \in {[height |-> k, block_id |-> b, signatures |-> s] :
                                  s \in Cos!CommitsOver(b, keys)}
    BY <1>5 DEF Cos!Commits
  <2> QED BY <2>1, Zenon
<1>7. commit.signatures = s /\ commit.block_id = b
  BY <1>6
<1> QED BY <1>4, <1>6, <1>7, SignersCan

\* Of a set of validators whose stakes last as long as the client trusts, no
\* more than the corrupt sign a header that is not of the chain.
LEMMA ForgedByCorrupt ==
    ASSUME CosmosInv, NEW c \in Cos!Candidates, NEW commit \in Cos!CommitsFor(c),
           c[1] \notin Range(Main), NEW set, IsSet(set), NEW reaches,
           Cos!can_tally(c[1], commit, set),
           \A key \in Cos!Addresses(set) :
              \E g \in Range(Main) : g.time >= trusted.time /\ key \in Cos!Addresses(g.validators)
    PROVE  /\ Cos!tally_signed_power_until(commit, set, reaches) \in Nat
           /\ Cos!tally_signed_power_until(commit, set, reaches) <= CorruptPower(set)
<1> DEFINE sigs == commit.signatures
<1>1. /\ IsList(sigs)
      /\ \A i \in Cos!Voted(sigs) :
            sigs[i].signature = "real" => Cos!CanSign(sigs[i].validator_address, c[1])
  BY CommitSigners DEF Cos!can_tally
<1>2. Cos!NoneTwice(sigs, Cos!Voted(sigs))
  BY DEF Cos!can_tally
<1>3. ASSUME NEW key \in Cos!Addresses(set) PROVE ~Cos!Unbonded(key)
  <2>1. PICK g \in Range(Main) : g.time >= trusted.time /\ key \in Cos!Addresses(g.validators)
    OBVIOUS
  <2>2. PICK f \in Range(Main) : trusted = Cos!adopt(f, f.validators)
    BY DEF CosmosInv
  <2>3. g.time \in Nat /\ f.time \in Nat /\ trusted.time = f.time
    BY <2>1, <2>2, ValidatorsAssumption, AdoptIs DEF Cos!Headers, Cos!Range, Range
  <2>4. clock - trusted.time < cfg.trusting_period
    BY DEF Cos!Candidates, Cos!check_header, Cos!check_time
  <2>5. clock < g.time + UNBONDING
    BY <2>1, <2>3, <2>4, ValidatorsAssumption DEF CosmosInv
  <2>6. ~(g.time + UNBONDING <= clock)
    BY <2>5, <2>3, ValidatorsAssumption DEF CosmosInv
  <2> QED BY <2>1, <2>6 DEF Cos!Unbonded, Cos!Range, Range
<1>4. \A i \in Cos!Voted(sigs) :
         sigs[i].signature = "real" /\ sigs[i].validator_address \in Cos!Addresses(set)
         => sigs[i].validator_address \in Corrupt
  BY <1>1, <1>3 DEF Cos!CanSign, Cos!Range, Range
<1> HIDE DEF sigs
<1> QED BY <1>1, <1>2, <1>4, CountedIsCorrupt DEF sigs

\* More power reaches what less power does.
LEMMA ReachGrows ==
    ASSUME NEW p \in Nat, NEW q \in Nat, p <= q, NEW total \in Nat
    PROVE  /\ Cos!trusting_reach(p, total) => Cos!trusting_reach(q, total)
           /\ Cos!has_two_thirds(p, total) => Cos!has_two_thirds(q, total)
<1> DEFINE d == cfg.overlap_denominator
           x == total * cfg.overlap_numerator
<1>1. d \in Nat /\ x \in Int
  BY ValidatorsAssumption
<1>2. p * d <= q * d
  <2> HIDE DEF d
  <2>1. q - p \in Nat
    OBVIOUS
  <2>2. (q - p) * d \in Nat
    BY <1>1, <2>1
  <2>3. q * d = p * d + (q - p) * d
    BY <1>1
  <2>4. p * d \in Nat /\ q * d \in Nat
    BY <1>1
  <2> QED BY <2>2, <2>3, <2>4
<1>3. p * d > x => q * d > x
  <2>1. p * d \in Int /\ q * d \in Int
    BY <1>1
  <2> DEFINE P == p * d
             Q == q * d
  <2> HIDE DEF P, Q, x, d
  <2>2. P \in Int /\ Q \in Int /\ P <= Q
    BY <1>2, <2>1 DEF P, Q
  <2>3. P > x => Q > x
    BY <2>2, <1>1
  <2> QED BY <2>3 DEF P, Q
<1>4. Cos!trusting_reach(p, total) => Cos!trusting_reach(q, total)
  BY <1>3, Zenon DEF Cos!trusting_reach
<1>5. Cos!has_two_thirds(p, total) => Cos!has_two_thirds(q, total)
  BY DEF Cos!has_two_thirds
<1> QED BY <1>4, <1>5

\* The two ways to a newer header take one of the chain.
LEMMA TransitionIsMain ==
    ASSUME CosmosInv, NEW c \in Cos!Candidates, NEW commit \in Cos!CommitsFor(c),
           Cos!check_trusting_commit(trusted, c[1], commit)
    PROVE  c[1] \in Range(Main)
<1> SUFFICES ASSUME c[1] \notin Range(Main) PROVE FALSE
  OBVIOUS
<1>1. PICK g \in Range(Main) : trusted = Cos!adopt(g, g.validators)
  BY DEF CosmosInv
<1> DEFINE set == g.validators
           total == Cos!total_power(set)
           reaches == [power \in 0 .. total |-> Cos!trusting_reach(power, total)]
           signed == Cos!tally_signed_power_until(commit, set, reaches)
<1>2. trusted.validators = set /\ trusted.time = g.time /\ IsSet(set) /\ g.time \in Nat
  BY <1>1, ValidatorsAssumption, AdoptIs DEF Cos!Headers, Cos!Range, Range
<1>3. Cos!can_tally(c[1], commit, set) /\ reaches[signed]
  BY <1>2 DEF Cos!check_trusting_commit
<1>4. \A key \in Cos!Addresses(set) :
         \E f \in Range(Main) : f.time >= trusted.time /\ key \in Cos!Addresses(f.validators)
  BY <1>1, <1>2
<1> HIDE DEF reaches
<1>5. signed \in Nat /\ signed <= CorruptPower(set)
  BY <1>2, <1>3, <1>4, ForgedByCorrupt
<1>6. CorruptPower(set) \in Nat /\ total \in Nat /\ CorruptPower(set) <= total
  BY <1>2, CorruptIsLess
<1> HIDE DEF signed, total
<1>7. Cos!trusting_reach(signed, total)
  <2>1. signed \in 0 .. total
    BY <1>5, <1>6
  <2> QED BY <1>3, <2>1 DEF reaches
<1>8. Cos!trusting_reach(CorruptPower(set), total)
  BY <1>5, <1>6, <1>7, ReachGrows
<1> QED BY <1>1, <1>8, ValidatorsAssumption DEF total

\* A header that the next validators signed is one of the chain (verify_adjacent).
LEMMA AdjacentIsMain ==
    ASSUME CosmosInv, NEW c \in Cos!Candidates, NEW commit \in Cos!CommitsFor(c),
           Cos!verify_adjacent(trusted, c[1], commit, c[2], clock)
    PROVE  c[1] \in Range(Main)
<1> SUFFICES ASSUME c[1] \notin Range(Main) PROVE FALSE
  OBVIOUS
<1>1. PICK g \in Range(Main) : trusted = Cos!adopt(g, g.validators)
  BY DEF CosmosInv
<1> DEFINE set == g.next_validators
           total == Cos!total_power(set)
           reaches == [power \in 0 .. total |-> Cos!has_two_thirds(power, total)]
           signed == Cos!tally_signed_power_until(commit, set, reaches)
<1>2. trusted.next_validators = set /\ trusted.time = g.time /\ IsSet(set)
  BY <1>1, ValidatorsAssumption, AdoptIs
<1>3. c[2] = set
  BY <1>2 DEF Cos!verify_adjacent, Cos!check_header
<1>4. Cos!can_tally(c[1], commit, set) /\ Cos!has_two_thirds(signed, total)
  BY <1>3 DEF Cos!verify_adjacent, Cos!verify_commit
<1>5. \A key \in Cos!Addresses(set) :
         \E f \in Range(Main) : f.time >= trusted.time /\ key \in Cos!Addresses(f.validators)
  BY <1>1, <1>2, ValidatorsAssumption
<1> HIDE DEF reaches
<1>6. signed \in Nat /\ signed <= CorruptPower(set)
  BY <1>2, <1>4, <1>5, ForgedByCorrupt
<1>7. CorruptPower(set) \in Nat /\ total \in Nat
  BY <1>2, CorruptIsLess
<1> HIDE DEF signed, total
<1>8. Cos!has_two_thirds(CorruptPower(set), total)
  BY <1>4, <1>6, <1>7, ReachGrows
<1> QED BY <1>1, <1>8, ValidatorsAssumption DEF total

\* The anchor is a header of the chain.
LEMMA CosmosInit ==
    ASSUME Cos!Init
    PROVE  CosmosInv
<1>1. PICK h \in Range(Main) : anchor = Cos!adopt(h, h.validators)
  BY ValidatorsAssumption
<1>2. anchor.time = h.time /\ h.time \in Nat
  BY <1>1, ValidatorsAssumption, AdoptIs DEF Cos!Headers, Cos!Range, Range
<1> QED BY <1>1, <1>2 DEF Cos!Init, CosmosInv

\* Every step keeps the trusted header one of the chain.
LEMMA CosmosStep ==
    ASSUME CosmosInv, [Next]_vars
    PROVE  CosmosInv'
<1>1. CASE Time
  BY <1>1 DEF Time, Cos!Tick, CosmosInv
<1>2. CASE Follow
  <2>1. PICK c \in Cos!Candidates :
           /\ \E commit \in Cos!CommitsFor(c) :
                 \/ Cos!verify_transition(trusted, c[1], commit, c[2], clock)
                 \/ Cos!verify_adjacent(trusted, c[1], commit, c[2], clock)
           /\ Cos!Adopt(c)
    BY <1>2 DEF Follow, Cos!Transition, Cos!Adjacent
  <2>2. c[1] \in Range(Main)
    BY <2>1, TransitionIsMain, AdjacentIsMain DEF Cos!verify_transition
  <2>3. c[2] = c[1].validators
    BY DEF Cos!Candidates, Cos!check_header
  <2> QED BY <2>1, <2>2, <2>3 DEF Cos!Adopt, CosmosInv
<1>3. CASE UNCHANGED <<trusted, clock>>
  BY <1>3 DEF CosmosInv
<1> QED BY <1>1, <1>2, <1>3 DEF Next, SubmitDeposit, CreatePool, Beacon, Rotate, vars

\* What the light clients trust is their chains': the committees of the store
\* are those the beacon chain elected, whoever rotates it, and the header of
\* the Cosmos state is one of the chain (rotate_sync_committee,
\* verify_transition, verify_adjacent), while the dishonest are as few as
\* MembersAssumption and ValidatorsAssumption say.
THEOREM ClientsTrustTheChain == Spec => []TrustsTheChain
<1> DEFINE I == BeaconInv /\ CosmosInv
<1>1. Init => I
  BY BeaconInit, CosmosInit DEF Init
<1>2. I /\ [Next]_vars => I'
  BY BeaconStep, CosmosStep
<1>3. I => TrustsTheChain
  <2> SUFFICES ASSUME I PROVE TrustsTheChain
    OBVIOUS
  <2>1. Eth!CommitteesTrue
    BY DEF BeaconInv, StoreInv, Eth!CommitteesTrue
  <2>2. Cos!TrustsTheChain
    BY AdoptIs DEF CosmosInv, Cos!TrustsTheChain, Cos!Range, Range
  <2> QED BY <2>1, <2>2 DEF TrustsTheChain
<1> QED BY <1>1, <1>2, <1>3, PTL DEF Spec

-----------------------------------------------------------------------------
(* Bitcoin deposits *)

\* The two names of the operators on trees.
LEMMA SameTrees ==
    ASSUME NEW t, NEW x, NEW b
    PROVE  /\ Btc!merkle_root(t) = merkle_root(t)
           /\ Btc!fold_merkle_branch(x, b) = fold_merkle_branch(x, b)
  BY Zenon DEF Btc!merkle_root, merkle_root, Btc!levels, levels, Btc!pair_up, pair_up,
               Btc!Pair, Pair, Btc!fold_merkle_branch, fold_merkle_branch, Btc!climb, climb,
               Btc!fold_step, fold_step

\* The ids of a block's transactions are a list.
LEMMA TreeIsList ==
    ASSUME NEW b, IsList(Blocks[b].txs)
    PROVE  /\ IsSeq(Btc!TreeOf(b)) /\ Len(Btc!TreeOf(b)) = Len(Blocks[b].txs)
           /\ DOMAIN Btc!TreeOf(b) = DOMAIN Blocks[b].txs
           /\ \A i \in DOMAIN Blocks[b].txs : Btc!TreeOf(b)[i] = Btc!txid(Blocks[b].txs[i])
<1> DEFINE txs == Blocks[b].txs
           t == Btc!TreeOf(b)
           n == Len(txs)
           S == {Btc!txid(txs[i]) : i \in 1 .. n}
<1>1. n \in Nat /\ DOMAIN txs = 1 .. n
  BY ListIs
<1>2. t = [i \in DOMAIN txs |-> Btc!txid(txs[i])]
  BY DEF Btc!TreeOf
<1>3. DOMAIN t = 1 .. n /\ \A i \in 1 .. n : t[i] = Btc!txid(txs[i])
  <2> HIDE DEF t, txs
  <2> QED BY <1>1, <1>2
<1>4. t \in [1 .. n -> S]
  <2> HIDE DEF t, txs, n
  <2> QED BY <1>1, <1>2
<1>5. t \in Seq(S) /\ Len(t) = n
  <2> HIDE DEF t, n, S
  <2> QED BY <1>1, <1>4
<1> QED BY <1>1, <1>3, <1>5 DEF IsSeq

\* The id of a transaction that is not of 64 bytes is its own.
LEMMA IdIsOwn ==
    ASSUME NEW t, Txs[t].halves = <<>>
    PROVE  /\ \A l, r : Btc!txid(t) # Pair(l, r)
           /\ \A u : Btc!txid(u) = Btc!txid(t) => u = t
<1>1. Btc!txid(t) = [tx |-> t]
  BY DEF Btc!txid
<1>2. \A l, r : [tx |-> t] # [left |-> l, right |-> r]
  <2> TAKE l, r
  <2>1. DOMAIN [tx |-> t] = {"tx"} /\ DOMAIN [left |-> l, right |-> r] = {"left", "right"}
    OBVIOUS
  <2>2. "left" \notin {"tx"}
    OBVIOUS
  <2> QED BY <2>1, <2>2
<1>3. ASSUME NEW u, Btc!txid(u) = Btc!txid(t) PROVE u = t
  <2>1. Txs[u].halves = <<>>
    <3> SUFFICES ASSUME Txs[u].halves # <<>> PROVE FALSE
      OBVIOUS
    <3>1. Btc!txid(u) = [left |-> Txs[u].halves[1], right |-> Txs[u].halves[2]]
      BY DEF Btc!txid, Btc!Pair
    <3> QED BY <1>1, <1>2, <1>3, <3>1
  <2>2. Btc!txid(u) = [tx |-> u]
    BY <2>1 DEF Btc!txid
  <2>3. [tx |-> u].tx = u /\ [tx |-> t].tx = t
    OBVIOUS
  <2> QED BY <1>1, <1>3, <2>2, <2>3
<1> QED BY <1>1, <1>2, <1>3 DEF Pair

\* What the Bitcoin client proves is a deposit of a block of the main chain.
LEMMA BitcoinDepositIsReal ==
    ASSUME NEW proven \in BitcoinProven, NEW corridor, corridor.chain_id = "Bitcoin",
           corridor.origin_asset = native_asset("Bitcoin")
    PROVE  IsReal(mint_of(corridor, proven))
<1>1. PICK m \in Materials :
         /\ Btc!can_verify_chain(m.headers, m.start_height)
         /\ \E p \in m.proofs :
               /\ Btc!verifies_deposit(Btc!verify_chain(m.headers, m.start_height), p)
               /\ proven = Btc!verify_trustless_deposit(
                               Btc!verify_chain(m.headers, m.start_height), p)
  BY Zenon DEF BitcoinProven
<1> DEFINE chain == Btc!verify_chain(m.headers, m.start_height)
<1>2. PICK p \in m.proofs : /\ Btc!verifies_deposit(chain, p)
                            /\ proven = Btc!verify_trustless_deposit(chain, p)
  BY <1>1
<1> DEFINE b == Btc!header_at(chain, p.height)
           t == Btc!TreeOf(b)
           x == Btc!txid(p.tx)
           y == Btc!txid(p.coinbase)
           paid == Btc!deposit_to(Txs[p.tx], deposit_script)
           worth == Btc!value_to_script(Txs[p.tx], deposit_script)
           depth == Btc!confirmations_for(worth, params.confirmation_depth)
<1>3. paid.amount = worth
  BY DEF Btc!deposit_to
<1>4. /\ params.requires_pinned_checkpoint => Btc!checkpoint_is_pinned(checkpoint)
      /\ Btc!anchored_to(chain, checkpoint)
      /\ Btc!can_parse(p.coinbase) /\ Btc!can_parse(p.tx) /\ ~Btc!is_coinbase(p.tx)
      /\ \A i \in DOMAIN p.coinbase_branch : ~p.coinbase_branch[i].sibling_on_left
      /\ Btc!verify_deposit(chain, p.height, y, p.coinbase_branch, params.confirmation_depth)
      /\ Len(p.branch) = Len(p.coinbase_branch)
      /\ Btc!is_deposit_to(Txs[p.tx], deposit_script)
      /\ Btc!verify_deposit(chain, p.height, x, p.branch, depth)
  BY <1>2, <1>3, Zenon DEF Btc!verifies_deposit, Btc!deep_enough
<1>5. /\ Btc!has_height(chain, p.height) /\ Btc!confirmations(chain, p.height) >= depth
      /\ Btc!fold_merkle_branch(x, p.branch) = Btc!merkle_root(t)
      /\ Btc!fold_merkle_branch(y, p.coinbase_branch) = Btc!merkle_root(t)
  BY <1>4, Zenon DEF Btc!verify_deposit
<1>6. b \in MainChain
  BY <1>1, <1>4, <1>5, WorkAssumption, Zenon
<1> HIDE DEF b, chain
<1>7. IsList(Blocks[b].txs) /\ Blocks[b].txs # <<>> /\ Txs[Blocks[b].txs[1]].halves = <<>>
  BY <1>6, WorkAssumption
<1>8. /\ IsSeq(t) /\ Len(t) = Len(Blocks[b].txs) /\ DOMAIN t = DOMAIN Blocks[b].txs
      /\ \A i \in DOMAIN Blocks[b].txs : t[i] = Btc!txid(Blocks[b].txs[i])
  BY <1>7, TreeIsList
<1>9. Len(t) # 0 /\ 1 \in DOMAIN Blocks[b].txs
  <2>1. Len(Blocks[b].txs) # 0
    BY <1>7, EmptySeq DEF IsList
  <2> QED BY <1>7, <1>8, <2>1, ListIs
<1>10. Txs[p.tx].halves = <<>> /\ Txs[p.coinbase].halves = <<>>
  BY <1>4, Zenon DEF Btc!can_parse
<1>11. \A l, q : t[1] # Pair(l, q) /\ y # Pair(l, q)
  <2>1. t[1] = Btc!txid(Blocks[b].txs[1])
    BY <1>8, <1>9
  <2> QED BY <1>7, <1>10, <2>1, IdIsOwn
<1>12. fold_merkle_branch(x, p.branch) = merkle_root(t)
       /\ fold_merkle_branch(y, p.coinbase_branch) = merkle_root(t)
  BY <1>5, SameTrees
<1>13. IsSeq(p.branch) /\ IsSeq(p.coinbase_branch)
  BY WorkAssumption, ListIs
<1> HIDE DEF t, y, x
<1>14. \E i \in DOMAIN t : x = t[i]
  BY <1>4, <1>8, <1>9, <1>11, <1>12, <1>13, LeafOpened
<1>15. PICK i \in DOMAIN Blocks[b].txs : Btc!txid(Blocks[b].txs[i]) = Btc!txid(p.tx)
  BY <1>8, <1>14 DEF x
<1>16. p.tx = Blocks[b].txs[i]
  BY <1>10, <1>15, IdIsOwn
<1>17. p.tx \in Range(Blocks[b].txs)
  BY <1>15, <1>16 DEF Range
<1> DEFINE mint == mint_of(corridor, proven)
<1>18. /\ mint.source_chain = "Bitcoin" /\ mint.source_ref = x
       /\ mint.asset_id = native_asset("Bitcoin")
       /\ mint.amount = paid.amount /\ mint.recipient = paid.recipient
  BY <1>2 DEF mint_of, asset_of, Btc!verify_trustless_deposit, x
<1>19. [amount |-> mint.amount, recipient |-> mint.recipient]
          = Btc!deposit_to(Txs[p.tx], deposit_script)
  BY <1>18 DEF Btc!deposit_to
<1> HIDE DEF mint, paid
<1>20. b \in DOMAIN Blocks /\ Blocks[b].main
  BY <1>6 DEF MainChain
<1>21. IsReal(mint)
  BY <1>4, <1>17, <1>18, <1>19, <1>20, Zenon DEF IsReal, x
<1> QED BY <1>21 DEF mint

-----------------------------------------------------------------------------
(* Ethereum deposits *)

OnChain(h) == \E s \in Eth!BlockSlots : h = Eth!Header(s)

\* A block of the chain is the one of its slot.
LEMMA ChainHeader ==
    ASSUME NEW h, OnChain(h)
    PROVE  h.main /\ h.slot \in Eth!BlockSlots /\ h.slot \in 0 .. LAST_SLOT /\ h = Eth!Header(h.slot)
<1>1. PICK s \in Eth!BlockSlots : h = Eth!Header(s)
  BY DEF OnChain
<1>2. h.slot = s /\ h.main
  BY <1>1 DEF Eth!Header
<1>3. s \in 0 .. LAST_SLOT
  BY BeaconAssumption DEF Eth!BlockSlots, Eth!Range
<1> QED BY <1>1, <1>2, <1>3

\* The head of a slot is of the chain, and so is the parent of a block.
LEMMA HeadsOnChain ==
    /\ \A s \in 0 .. LAST_SLOT : OnChain(Eth!HeadAt(s))
    /\ \A h : OnChain(h) => OnChain(Eth!Parent(h))
<1>1. \A s \in 0 .. LAST_SLOT : OnChain(Eth!HeadAt(s))
  BY BeaconAssumption DEF Eth!HeadAt, OnChain, Eth!BlockSlots, Eth!Range
<1>2. ASSUME NEW h, OnChain(h) PROVE OnChain(Eth!Parent(h))
  <2>1. h.slot \in 0 .. LAST_SLOT
    BY <1>2, ChainHeader
  <2>2. CASE h.slot = 0
    BY <1>2, <2>2 DEF Eth!Parent
  <2>3. CASE h.slot # 0
    <3>1. h.slot - 1 \in 0 .. LAST_SLOT
      BY <2>1, <2>3, BeaconAssumption
    <3>2. Eth!Parent(h) = Eth!HeadAt(h.slot - 1)
      BY <2>3 DEF Eth!Parent
    <3> QED BY <1>1, <3>1, <3>2
  <2> QED BY <2>2, <2>3
<1> QED BY <1>1, <1>2

\* A line of headers from a block of the chain back is of the chain.
LEMMA AncestryOnChain ==
    ASSUME NEW f, OnChain(f), NEW ancestry, IsSeq(ancestry), Eth!verify_ancestry(f, ancestry)
    PROVE  \A i \in DOMAIN ancestry : OnChain(ancestry[i])
<1> DEFINE n == Len(ancestry)
           at(i) == IF i = 0 THEN f ELSE ancestry[i]
           S == {i \in 0 .. n : OnChain(at(i))}
<1>1. n \in Nat /\ DOMAIN ancestry = 1 .. n
  BY DEF IsSeq
<1>2. 0 \in S
  BY <1>1
<1>3. ASSUME NEW i \in 0 .. (n - 1), i \in S PROVE i + 1 \in S
  <2>1. i + 1 \in 1 .. n /\ i + 1 \in 0 .. n /\ i + 1 # 0
    BY <1>1
  <2>2. OnChain(at(i)) /\ at(i).main
    BY <1>3, ChainHeader
  <2>3. ancestry[i + 1] = Eth!Parent(at(i))
    <3>1. CASE i = 0
      <4>1. 1 \in DOMAIN ancestry /\ i + 1 = 1 /\ at(i) = f
        BY <1>1, <2>1, <3>1
      <4>2. ancestry[1] = Eth!Parent(f)
        BY <2>2, <4>1 DEF Eth!verify_ancestry
      <4> QED BY <4>1, <4>2
    <3>2. CASE i # 0
      <4>1. (i + 1) - 1 = i /\ i + 1 # 1
        BY <3>2
      <4> QED BY <1>1, <2>1, <2>2, <3>2, <4>1 DEF Eth!verify_ancestry
    <3> QED BY <3>1, <3>2
  <2>4. OnChain(at(i + 1))
    BY <2>1, <2>2, <2>3, HeadsOnChain
  <2> QED BY <2>1, <2>4
<1>4. \A i \in 0 .. n : i \in S
  <2> HIDE DEF S
  <2> QED BY <1>1, <1>2, <1>3, InductTo
<1> QED BY <1>1, <1>4

\* An older block that a state keeps the root of is of the chain.
LEMMA HistoricalOnChain ==
    ASSUME NEW f, OnChain(f), NEW ancestry, Eth!verify_historical(f, ancestry)
    PROVE  OnChain(ancestry[1])
<1> DEFINE e == Eth!is_electra_at_slot(f.slot)
           at == Eth!block_root_layout(e, ancestry[1].slot)
           leaf == [is |-> "header", it |-> ancestry[1]]
           d == IF e THEN 6 ELSE 5
           first == IF e THEN 64 ELSE 32
           root(s) == (first + 5) * SLOTS_PER_HISTORICAL_ROOT
                          + (s % SLOTS_PER_HISTORICAL_ROOT)
           kept == {s \in f.slot - SLOTS_PER_HISTORICAL_ROOT .. f.slot - 1 : s >= 0}
           found == Eth!StateLeaf(f, at)
<1>1. BLOCK_ROOTS_DEPTH \in Int /\ BLOCK_ROOTS_DEPTH > 1
  BY BeaconAssumption
<1>2. f.main /\ f.slot \in 0 .. LAST_SLOT /\ LAST_SLOT \in Nat
  BY ChainHeader, BeaconAssumption
<1>3. found.is = "header" /\ found.it = ancestry[1]
  <2>1. Eth!is_valid_merkle_branch(leaf, at, f, "state")
    BY DEF Eth!verify_historical
  <2> QED BY <1>2, <2>1 DEF Eth!is_valid_merkle_branch
<1>4. at[2] = d + BLOCK_ROOTS_DEPTH
  BY DEF Eth!block_root_layout
<1> HIDE DEF at, e
<1>5. /\ at # <<2 * (first + 20) + 1, d + 1>> /\ at # <<first + 22, d>>
      /\ at # <<first + 23, d>>
  BY <1>1, <1>4
<1>6. CASE \E s \in kept : at = <<root(s), d + BLOCK_ROOTS_DEPTH>>
  <2> DEFINE x == CHOOSE s \in kept : at[1] = root(s)
  <2>1. found = [is |-> "header", it |-> Eth!HeadAt(x)]
    BY <1>5, <1>6, Zenon DEF Eth!StateLeaf, e
  <2>2. \E s \in kept : at[1] = root(s)
    BY <1>6
  <2>3. x \in kept
    <3> HIDE DEF kept, root
    <3> QED BY <2>2
  <2> HIDE DEF x
  <2>4. x \in 0 .. LAST_SLOT
    BY <1>2, <2>3
  <2>5. ancestry[1] = Eth!HeadAt(x)
    BY <1>3, <2>1
  <2> QED BY <2>4, <2>5, HeadsOnChain
<1>7. CASE ~\E s \in kept : at = <<root(s), d + BLOCK_ROOTS_DEPTH>>
  <2>1. found = [is |-> "other"]
    BY <1>5, <1>7, Zenon DEF Eth!StateLeaf, e
  <2>2. found.is = "other"
    BY <2>1
  <2> QED BY <1>3, <2>2
<1> QED BY <1>6, <1>7

\* What an update holds that is signed as it should be.
LEMMA UpdateIs ==
    ASSUME NEW u \in EthereumUpdates
    PROVE  /\ u.attested \in Eth!Headers /\ u.finalized \in Eth!Headers
           /\ u.participation \in Eth!Participations(store, u.signature_slot)
<1> DEFINE final(h, s) == {f \in Eth!Headers : /\ Eth!slots_are_consistent(store, s, h.slot, f.slot)
                                              /\ Eth!verify_finality(h, f)}
<1>1. PICK h \in Eth!Headers, n \in 1 .. 2 :
         u \in [attested: {h}, finalized: final(h, h.slot + n), signature_slot: {h.slot + n},
                participation: Eth!Participations(store, h.slot + n)]
  BY DEF EthereumUpdates
<1> QED BY <1>1

\* A deposit that the Ethereum client proves: the update, and what is opened.
EthereumCase(u, d) ==
    /\ u \in EthereumUpdates
    /\ IsSeq(d.ancestry) /\ d.log_index \in Int
    /\ \E r \in DOMAIN d.execution.receipts_root : d.receipt_index = r - 1
    /\ Eth!verifies_deposit(store, With(u, d), d)

\* What the Ethereum client proves passed all its checks.
LEMMA EthereumCases ==
    ASSUME NEW proven \in EthereumProven
    PROVE  \E u, d : EthereumCase(u, d) /\ proven = Eth!verify_trustless_deposit(With(u, d), d)
<1> DEFINE updates == EthereumUpdates
           lineages(f) == {l \in Lineages(f) : IF l.historical
                                               THEN Eth!verify_historical(f, l.ancestry)
                                               ELSE Eth!verify_ancestry(f, l.ancestry)}
           openings(l, e) ==
               UNION {[execution: {e}, receipt_index: {r - 1},
                       log_index: 0 .. Len(e.receipts_root[r].logs),
                       ancestry: {l.ancestry}, historical: {l.historical}] :
                      r \in DOMAIN e.receipts_root}
           opened(u, l) ==
               {d \in UNION {openings(l, e) :
                             e \in Executions(Eth!deposit_block(u.finalized, l.ancestry))} :
                   Eth!verifies_deposit(store, With(u, d), d)}
<1>1. PICK u \in {CHOOSE v \in updates : v.finalized = f : f \in {w.finalized : w \in updates}} :
         \E l \in lineages(u.finalized) :
            proven \in {Eth!verify_trustless_deposit(With(u, d), d) : d \in opened(u, l)}
  <2> DEFINE G(u, l) == {Eth!verify_trustless_deposit(With(u, d), d) : d \in opened(u, l)}
             F(u) == UNION {G(u, l) : l \in lineages(u.finalized)}
             U == {CHOOSE v \in updates : v.finalized = f : f \in {w.finalized : w \in updates}}
  <2>1. proven \in UNION {F(u) : u \in U}
    BY Zenon DEF EthereumProven
  <2> HIDE DEF G, F, U
  <2>2. PICK u \in U : proven \in F(u)
    BY <2>1, Zenon
  <2>3. PICK l \in lineages(u.finalized) : proven \in G(u, l)
    BY <2>2, Zenon DEF F
  <2> QED BY <2>2, <2>3, Zenon DEF G, U
<1>2. PICK l \in lineages(u.finalized) :
         proven \in {Eth!verify_trustless_deposit(With(u, d), d) : d \in opened(u, l)}
  BY <1>1, Zenon
<1>3. PICK d \in opened(u, l) : proven = Eth!verify_trustless_deposit(With(u, d), d)
  <2> HIDE DEF opened
  <2> QED BY <1>2, Zenon
<1>4. u \in updates
  <2> HIDE DEF updates
  <2>1. PICK f \in {w.finalized : w \in updates} : u = CHOOSE v \in updates : v.finalized = f
    BY <1>1
  <2>2. PICK w \in updates : w.finalized = f
    BY <2>1
  <2> QED BY <2>1, <2>2
<1>5. PICK e : d \in openings(l, e)
  <2> HIDE DEF openings
  <2> QED BY <1>3, Zenon
<1>6. Eth!verifies_deposit(store, With(u, d), d)
  BY <1>3, Zenon
<1> HIDE DEF opened, lineages
<1>7. PICK r \in DOMAIN e.receipts_root :
         d \in [execution: {e}, receipt_index: {r - 1},
                log_index: 0 .. Len(e.receipts_root[r].logs),
                ancestry: {l.ancestry}, historical: {l.historical}]
  BY <1>5, Zenon
<1>8. /\ d.execution = e /\ d.receipt_index = r - 1 /\ d.ancestry = l.ancestry
      /\ d.log_index \in Int
  BY <1>7
<1>9. IsSeq(l.ancestry)
  <2>1. l \in Lineages(u.finalized)
    BY <1>2 DEF lineages
  <2>2. PICK a, b : l.ancestry \in {<<>>, <<a>>, <<a, b>>}
    <3>1. CASE l \in {[ancestry |-> <<b>>, historical |-> TRUE] : b \in Eth!Headers}
      BY <3>1
    <3>2. CASE l \notin {[ancestry |-> <<b>>, historical |-> TRUE] : b \in Eth!Headers}
      BY <2>1, <3>2 DEF Lineages
    <3> QED BY <3>1, <3>2
  <2> QED BY <2>2 DEF IsSeq
<1> QED BY <1>3, <1>4, <1>6, <1>7, <1>8, <1>9 DEF EthereumCase

\* What the Ethereum client proves is a log of a block of the chain.
LEMMA EthereumDepositIsReal ==
    ASSUME BeaconInv, NEW proven \in EthereumProven,
           NEW corridor, corridor.chain_id = "Ethereum"
    PROVE  IsReal(mint_of(corridor, proven))
<1>1. PICK u, d : EthereumCase(u, d) /\ proven = Eth!verify_trustless_deposit(With(u, d), d)
  BY EthereumCases
<1> DEFINE w == With(u, d)
<1>2. /\ w.attested = u.attested /\ w.finalized = u.finalized
      /\ w.participation = u.participation /\ w.signature_slot = u.signature_slot
      /\ w.execution = d.execution
  BY DEF With
<1>3. proven = Eth!verify_trustless_deposit(w, d) /\ Eth!verifies_deposit(store, w, d)
  BY <1>1 DEF EthereumCase
<1> HIDE DEF w
<1> DEFINE block == Eth!deposit_block(u.finalized, d.ancestry)
           receipts == d.execution.receipts_root
           i == d.receipt_index + 1
           k == d.log_index + 1
<1>4. /\ Eth!check_participation(store, u.participation, u.signature_slot)
      /\ Eth!verify_sync_aggregate(store, u.attested, u.participation, u.signature_slot)
      /\ Eth!verify_finality(u.attested, u.finalized)
      /\ IF d.historical THEN Eth!verify_historical(u.finalized, d.ancestry)
         ELSE Eth!verify_ancestry(u.finalized, d.ancestry)
      /\ Eth!verify_execution(d.execution, block)
      /\ i \in DOMAIN receipts
      /\ Eth!has_deposit_at(receipts[i], config.deposit_contract, d.log_index)
  BY <1>2, <1>3, Zenon DEF Eth!verifies_deposit
<1>5. /\ u.attested \in Eth!Headers /\ u.finalized \in Eth!Headers
      /\ u.participation \in Eth!Participations(store, u.signature_slot)
  BY <1>1, UpdateIs DEF EthereumCase
<1>6. u.attested.main
  BY <1>4, <1>5, SignedIsMain
<1>7. u.finalized.main
  BY <1>4, <1>5, <1>6, FinalizedIsMain
<1>8. OnChain(u.finalized)
  BY <1>5, <1>7, HeaderSlots DEF OnChain
<1>9. OnChain(block)
  <2>0. IsSeq(d.ancestry)
    BY <1>1 DEF EthereumCase
  <2>1. CASE d.ancestry = <<>>
    BY <1>8, <2>1 DEF Eth!deposit_block
  <2>2. CASE d.ancestry # <<>> /\ d.historical
    <3>1. Len(d.ancestry) = 1 /\ Eth!verify_historical(u.finalized, d.ancestry)
      BY <1>4, <2>2 DEF Eth!verify_historical
    <3>2. block = d.ancestry[1]
      BY <2>2, <3>1 DEF Eth!deposit_block, Eth!Last
    <3> QED BY <1>8, <3>1, <3>2, HistoricalOnChain
  <2>3. CASE d.ancestry # <<>> /\ ~d.historical
    <3>1. block = d.ancestry[Len(d.ancestry)]
      BY <2>3 DEF Eth!deposit_block, Eth!Last
    <3>2. Eth!verify_ancestry(u.finalized, d.ancestry)
      BY <1>4, <2>3
    <3>3. \A j \in DOMAIN d.ancestry : OnChain(d.ancestry[j])
      BY <1>8, <2>0, <3>2, AncestryOnChain
    <3>4. Len(d.ancestry) \in DOMAIN d.ancestry
      <4>1. Len(d.ancestry) # 0
        BY <2>0, <2>3 DEF IsSeq
      <4> QED BY <2>0, <4>1 DEF IsSeq
    <3> QED BY <3>1, <3>3, <3>4
  <2> QED BY <2>1, <2>2, <2>3
<1> HIDE DEF block
<1>10. block.main /\ block.slot \in Eth!BlockSlots /\ block = Eth!Header(block.slot)
  BY <1>9, ChainHeader
<1>11. receipts = Receipts[block.slot]
  <2>1. Eth!is_valid_merkle_branch([is |-> "receipts", it |-> receipts],
                                   Eth!receipts_layout, block, "body")
    BY <1>4 DEF Eth!verify_execution
  <2>2. Eth!BodyLeaf(block, Eth!receipts_layout) = [is |-> "receipts", it |-> Receipts[block.slot]]
    BY DEF Eth!BodyLeaf, Eth!receipts_layout
  <2> QED BY <1>10, <2>1, <2>2 DEF Eth!is_valid_merkle_branch
<1>12. d.receipt_index \in Int /\ d.log_index \in Int
  <2>1. PICK r \in DOMAIN receipts : d.receipt_index = r - 1
    BY <1>1 DEF EthereumCase
  <2>2. IsList(Receipts[block.slot])
    BY <1>10, BeaconAssumption DEF Eth!BlockSlots, Eth!Range
  <2>3. r \in Int
    BY <1>11, <2>1, <2>2, ListIs
  <2> QED BY <1>1, <2>1, <2>3 DEF EthereumCase
<1>13. i - 1 = d.receipt_index /\ k - 1 = d.log_index
  BY <1>12
<1> DEFINE log == receipts[i].logs[k]
           mint == mint_of(corridor, proven)
<1>14. /\ receipts[i].status = 1 /\ k \in DOMAIN receipts[i].logs
       /\ Eth!is_deposit_log(log, config.deposit_contract)
  BY <1>4 DEF Eth!has_deposit_at, Eth!well_formed
<1>15. /\ mint.source_chain = "Ethereum"
       /\ mint.source_ref = <<block, d.receipt_index, d.log_index>>
       /\ mint.amount = log.data[1] /\ mint.asset_id = log.data[2]
       /\ mint.recipient = log.topics[2]
  <2>1. /\ proven.source_ref = <<block, d.receipt_index, d.log_index>>
        /\ proven.amount = log.data[1] /\ proven.asset_id = log.data[2]
        /\ proven.recipient = log.topics[2]
    BY <1>2, <1>3 DEF Eth!verify_trustless_deposit, Eth!extract_deposit_at,
                      Eth!deposit_source_ref, block
  <2> QED BY <2>1 DEF mint_of, asset_of
<1> HIDE DEF mint, i, k
<1>16. block.slot \in Range(Heads) /\ i \in DOMAIN Receipts[block.slot]
  BY <1>4, <1>10, <1>11 DEF Eth!BlockSlots, Eth!Range, Range
<1>17. mint.source_ref = <<Eth!Header(block.slot), i - 1, k - 1>>
  BY <1>10, <1>13, <1>15
<1>18. IsReal(mint)
  BY <1>11, <1>14, <1>15, <1>16, <1>17, Zenon DEF IsReal
<1> QED BY <1>18 DEF mint

-----------------------------------------------------------------------------
(* Cosmos deposits *)

\* Two lists, one after the other.
LEMMA Joined ==
    ASSUME NEW a, IsList(a), NEW b, IsList(b)
    PROVE  /\ IsList(a \o b) /\ Len(a \o b) = Len(a) + Len(b)
           /\ \A i \in 1 .. Len(a) : (a \o b)[i] = a[i]
           /\ \A i \in 1 .. Len(b) : (a \o b)[Len(a) + i] = b[i]
<1> DEFINE S == Range(a) \cup Range(b)
<1>1. a \in Seq(S) /\ b \in Seq(S)
  BY SeqMonotonic DEF IsList
<1> HIDE DEF S
<1>2. /\ a \o b \in Seq(S) /\ Len(a \o b) = Len(a) + Len(b)
      /\ \A i \in 1 .. Len(a) + Len(b) :
            (a \o b)[i] = IF i <= Len(a) THEN a[i] ELSE b[i - Len(a)]
  BY <1>1, ConcatProperties
<1>3. IsList(a \o b)
  BY <1>2, SeqOfRange DEF IsList
<1>4. Len(a) \in Nat /\ Len(b) \in Nat
  BY ListIs
<1>5. ASSUME NEW i \in 1 .. Len(a) PROVE (a \o b)[i] = a[i]
  BY <1>2, <1>4
<1>6. ASSUME NEW i \in 1 .. Len(b) PROVE (a \o b)[Len(a) + i] = b[i]
  <2>1. /\ Len(a) + i \in 1 .. Len(a) + Len(b) /\ ~(Len(a) + i <= Len(a))
        /\ Len(a) + i - Len(a) = i
    BY <1>4
  <2> QED BY <1>2, <2>1
<1> QED BY <1>2, <1>3, <1>5, <1>6

\* A list of one.
LEMMA OneListed ==
    ASSUME NEW x
    PROVE  IsList(<<x>>) /\ Len(<<x>>) = 1 /\ <<x>>[1] = x
<1>1. <<x>> \in Seq({x}) /\ Len(<<x>>) = 1 /\ <<x>>[1] = x
  OBVIOUS
<1> QED BY <1>1, SeqOfRange DEF IsList

\* What is hashed for a leaf: the prefix, the key after its length, and the
\* hash of the value after its length.
LEMMA LeafTokens ==
    ASSUME NEW p, IsList(p), NEW k, IsList(k), NEW v,
           NEW t, Cos!leaf_apply(p, k, v) = Cos!sha(t)
    PROVE  /\ IsList(t) /\ Len(t) = Len(p) + Len(k) + 3
           /\ \A i \in 1 .. Len(p) : t[i] = Cos!Byte(p[i])
           /\ \A i \in 1 .. Len(k) : t[Len(p) + 1 + i] = k[i]
           /\ t[Len(p) + Len(k) + 3] = Cos!sha(v)
<1> DEFINE a == Cos!Bytes(p)
           x == <<Cos!Byte(Cos!Size(k))>>
           y == <<Cos!Byte(Cos!Size(<<Cos!sha(v)>>))>>
           z == <<Cos!sha(v)>>
           m == Len(p)
           n == Len(k)
<1>1. t = (a \o (x \o k)) \o (y \o z)
  <2> DEFINE X == (a \o (x \o k)) \o (y \o z)
  <2>1. Cos!leaf_apply(p, k, v) = Cos!sha(X)
    BY Zenon DEF Cos!leaf_apply, Cos!length_prefixed
  <2> HIDE DEF X
  <2>2. t = X
    BY <2>1 DEF Cos!sha
  <2> QED BY <2>2 DEF X
<1>2. m \in Nat /\ n \in Nat /\ DOMAIN p = 1 .. m
  BY ListIs
<1>3. IsList(a) /\ Len(a) = m /\ \A i \in 1 .. m : a[i] = Cos!Byte(p[i])
  <2> DEFINE S == {Cos!Byte(p[i]) : i \in 1 .. m}
  <2>1. a = [i \in DOMAIN p |-> Cos!Byte(p[i])]
    BY DEF Cos!Bytes
  <2> HIDE DEF m
  <2>2. a \in [1 .. m -> S] /\ \A i \in 1 .. m : a[i] = Cos!Byte(p[i])
    BY <1>2, <2>1
  <2> HIDE DEF a, S
  <2>3. a \in Seq(S) /\ Len(a) = m
    BY <1>2, <2>2
  <2> QED BY <2>2, <2>3, SeqOfRange DEF IsList
<1>4. /\ IsList(x) /\ Len(x) = 1 /\ IsList(y) /\ Len(y) = 1
      /\ IsList(z) /\ Len(z) = 1 /\ z[1] = Cos!sha(v)
  BY OneListed
<1> HIDE DEF a, x, y, z, m, n
<1>5. /\ IsList(x \o k) /\ Len(x \o k) = 1 + n
      /\ \A i \in 1 .. n : (x \o k)[1 + i] = k[i]
  <2>1. /\ IsList(x \o k) /\ Len(x \o k) = Len(x) + Len(k)
        /\ \A i \in 1 .. Len(k) : (x \o k)[Len(x) + i] = k[i]
    <3>1. IsList(x) /\ IsList(k)
      BY <1>4
    <3> QED BY ONLY <3>1, Joined
  <2> QED BY <1>4, <2>1, Zenon DEF n
<1>6. IsList(y \o z) /\ Len(y \o z) = 2 /\ (y \o z)[2] = Cos!sha(v)
  <2>1. /\ IsList(y \o z) /\ Len(y \o z) = Len(y) + Len(z)
        /\ \A i \in 1 .. Len(z) : (y \o z)[Len(y) + i] = z[i]
    <3>1. IsList(y) /\ IsList(z)
      BY <1>4
    <3> QED BY ONLY <3>1, Joined
  <2>2. 1 \in 1 .. Len(z) /\ Len(y) + 1 = 2 /\ Len(y) + Len(z) = 2
    BY <1>4
  <2> QED BY <1>4, <2>1, <2>2
<1> DEFINE b == a \o (x \o k)
<1>7. /\ IsList(b) /\ Len(b) = m + (1 + n)
      /\ \A i \in 1 .. m : b[i] = a[i]
      /\ \A i \in 1 .. 1 + n : b[m + i] = (x \o k)[i]
  <2> DEFINE c == x \o k
  <2>1. IsList(c) /\ Len(c) = 1 + n /\ b = a \o c
    BY <1>5
  <2> HIDE DEF c
  <2>2. /\ IsList(a \o c) /\ Len(a \o c) = Len(a) + Len(c)
        /\ \A i \in 1 .. Len(a) : (a \o c)[i] = a[i]
        /\ \A i \in 1 .. Len(c) : (a \o c)[Len(a) + i] = c[i]
    <3>1. IsList(a) /\ IsList(c)
      BY <1>3, <2>1
    <3> QED BY ONLY <3>1, Joined
  <2> HIDE DEF b
  <2>3. /\ IsList(b) /\ Len(b) = m + (1 + n)
        /\ \A i \in 1 .. m : b[i] = a[i]
        /\ \A i \in 1 .. 1 + n : b[m + i] = c[i]
    BY <1>3, <2>1, <2>2, Zenon
  <2> QED BY <2>3, Zenon DEF c
<1> HIDE DEF b
<1>8. /\ IsList(b \o (y \o z)) /\ Len(b \o (y \o z)) = Len(b) + 2
      /\ \A i \in 1 .. Len(b) : (b \o (y \o z))[i] = b[i]
      /\ \A i \in 1 .. 2 : (b \o (y \o z))[Len(b) + i] = (y \o z)[i]
  BY <1>6, <1>7, Joined
<1>9. /\ IsList(t) /\ Len(t) = m + n + 3
      /\ \A i \in 1 .. m + n + 1 : t[i] = b[i]
      /\ t[m + n + 3] = Cos!sha(v)
  <2>1. t = b \o (y \o z)
    BY <1>1 DEF b
  <2>2. Len(b) = m + n + 1 /\ Len(b) + 2 = m + n + 3 /\ 2 \in 1 .. 2
    BY <1>2, <1>7
  <2> HIDE DEF b
  <2> QED BY <1>6, <1>8, <2>1, <2>2
<1>10. ASSUME NEW i \in 1 .. m PROVE t[i] = Cos!Byte(p[i])
  <2>1. i \in 1 .. m + n + 1
    BY <1>2
  <2> QED BY <1>3, <1>7, <1>9, <2>1
<1>11. ASSUME NEW i \in 1 .. n PROVE t[m + 1 + i] = k[i]
  <2>1. m + 1 + i \in 1 .. m + n + 1 /\ m + 1 + i = m + (1 + i) /\ 1 + i \in 1 .. 1 + n
    BY <1>2
  <2>2. t[m + 1 + i] = b[m + (1 + i)]
    BY <1>9, <2>1
  <2>3. b[m + (1 + i)] = (x \o k)[1 + i]
    BY <1>7, <2>1
  <2> QED BY <1>5, <2>2, <2>3
<1> QED BY <1>9, <1>10, <1>11 DEF m, n

\* f holds the hashes after the first n steps of a proof's path.
HashesFrom(proof, n, f) ==
    f = [i \in 0 .. n |-> IF i = 0 THEN Cos!leaf_apply(proof.leaf, proof.key, proof.value)
                          ELSE Cos!inner_apply(f[i - 1], proof.path[i])]

\* There are such hashes, however long the path.
LEMMA HashesExist ==
    ASSUME NEW proof, NEW n \in Nat
    PROVE  \E f : HashesFrom(proof, n, f)
<1> DEFINE first == Cos!leaf_apply(proof.leaf, proof.key, proof.value)
           step(i, hash) == Cos!inner_apply(hash, proof.path[i])
           S == {m \in Nat : \E f : HashesFrom(proof, m, f)}
<1>1. 0 \in S
  <2>1. HashesFrom(proof, 0, [i \in 0 .. 0 |-> first])
    BY DEF HashesFrom
  <2> QED BY <2>1
<1>2. ASSUME NEW m \in S PROVE m + 1 \in S
  <2>1. PICK f : HashesFrom(proof, m, f)
    OBVIOUS
  <2>2. \A i \in 0 .. m : f[i] = IF i = 0 THEN first ELSE step(i, f[i - 1])
    BY <2>1 DEF HashesFrom
  <2> HIDE DEF first, step
  <2> DEFINE g == [i \in 0 .. (m + 1) |-> IF i <= m THEN f[i] ELSE step(m + 1, f[m])]
  <2>3. \A i \in 0 .. (m + 1) : g[i] = IF i = 0 THEN first ELSE step(i, g[i - 1])
    BY <2>2
  <2>4. HashesFrom(proof, m + 1, g)
    <3>1. g = [i \in 0 .. (m + 1) |-> g[i]]
      OBVIOUS
    <3> HIDE DEF g
    <3> QED BY <2>3, <3>1 DEF HashesFrom, first, step
  <2> HIDE DEF g
  <2> QED BY <2>4
<1>3. S = Nat
  <2>1. S \in SUBSET Nat
    OBVIOUS
  <2> HIDE DEF S
  <2> QED BY <1>1, <1>2, <2>1, Induct
<1> QED BY <1>3

\* What hashes is.
LEMMA HashesAre ==
    ASSUME NEW proof, Len(proof.path) \in Nat, NEW f, f = Cos!hashes(proof)
    PROVE  /\ f[0] = Cos!leaf_apply(proof.leaf, proof.key, proof.value)
           /\ \A i \in 1 .. Len(proof.path) : f[i] = Cos!inner_apply(f[i - 1], proof.path[i])
<1> DEFINE n == Len(proof.path)
<1>1. HashesFrom(proof, n, f)
  <2>1. f = CHOOSE g : HashesFrom(proof, n, g)
    BY Zenon DEF Cos!hashes, HashesFrom
  <2>2. \E g : HashesFrom(proof, n, g)
    BY HashesExist
  <2> QED BY <2>1, <2>2, Zenon
<1> QED BY <1>1 DEF HashesFrom

\* What is hashed for a step up: the hash below is among it, after the prefix.
LEMMA InnerTokens ==
    ASSUME NEW child, NEW op, IsList(op.prefix), op.prefix # <<>>, IsList(op.suffix),
           NEW t, Cos!inner_apply(child, op) = Cos!sha(t)
    PROVE  /\ IsList(t) /\ 1 \in DOMAIN t /\ t[1] = op.prefix[1]
           /\ \E i \in DOMAIN t : t[i] = child
<1> DEFINE a == op.prefix
           x == <<child>>
           c == op.suffix
           m == Len(a)
<1>1. t = (a \o x) \o c
  <2> DEFINE X == (a \o x) \o c
  <2>1. Cos!inner_apply(child, op) = Cos!sha(X)
    BY Zenon DEF Cos!inner_apply
  <2> HIDE DEF X
  <2>2. t = X
    BY <2>1 DEF Cos!sha
  <2> QED BY <2>2 DEF X
<1>2. IsList(x) /\ Len(x) = 1 /\ x[1] = child
  BY OneListed
<1>3. IsList(a) /\ IsList(c) /\ m \in Nat \ {0} /\ Len(c) \in Nat
  <2>1. m \in Nat /\ Len(c) \in Nat /\ a \in Seq(Range(a))
    BY ListIs DEF IsList
  <2>2. m # 0
    BY <2>1, EmptySeq
  <2> QED BY <2>1, <2>2
<1> HIDE DEF a, x, c, m
<1>4. /\ IsList(a \o x) /\ Len(a \o x) = m + 1
      /\ (a \o x)[1] = a[1] /\ (a \o x)[m + 1] = child
  <2>1. /\ IsList(a \o x) /\ Len(a \o x) = Len(a) + Len(x)
        /\ \A i \in 1 .. Len(a) : (a \o x)[i] = a[i]
        /\ \A i \in 1 .. Len(x) : (a \o x)[Len(a) + i] = x[i]
    <3>1. IsList(a) /\ IsList(x)
      BY <1>2, <1>3
    <3> QED BY ONLY <3>1, Joined
  <2>2. 1 \in 1 .. Len(a) /\ 1 \in 1 .. Len(x)
    BY <1>2, <1>3 DEF m
  <2> QED BY <1>2, <2>1, <2>2 DEF m
<1> DEFINE b == a \o x
<1>5. IsList(b) /\ Len(b) = m + 1 /\ t = b \o c
  BY <1>1, <1>4
<1>6. b[1] = a[1] /\ b[m + 1] = child
  BY <1>4
<1> HIDE DEF b
<1>7. /\ IsList(b \o c) /\ Len(b \o c) = Len(b) + Len(c)
      /\ \A i \in 1 .. Len(b) : (b \o c)[i] = b[i]
  <2>1. IsList(b) /\ IsList(c)
    BY <1>3, <1>5
  <2> QED BY ONLY <2>1, Joined
<1>8. IsList(t) /\ DOMAIN t = 1 .. Len(t)
  <2>1. IsList(t)
    BY <1>5, <1>7
  <2> QED BY <2>1, ListIs
<1>9. 1 \in DOMAIN t /\ m + 1 \in DOMAIN t /\ t[1] = a[1] /\ t[m + 1] = child
  <2>1. Len(t) = m + 1 + Len(c)
    BY <1>5, <1>7
  <2>2. {1, m + 1} \subseteq 1 .. Len(t) /\ {1, m + 1} \subseteq 1 .. Len(b)
    BY <1>3, <1>5, <2>1
  <2> QED BY <1>5, <1>6, <1>7, <1>8, <2>2
<1> QED BY <1>8, <1>9 DEF a

\* What is hashed for a leaf starts with a zero where its prefix does.
LEMMA LeafStarts ==
    ASSUME NEW p, IsList(p), Cos!starts(p, 0), NEW k, IsList(k), NEW v
    PROVE  \E t : /\ Cos!leaf_apply(p, k, v) = Cos!sha(t)
                  /\ t[1] = Cos!Byte(0)
<1>1. PICK t : Cos!leaf_apply(p, k, v) = Cos!sha(t)
  BY DEF Cos!leaf_apply
<1>2. \A i \in 1 .. Len(p) : t[i] = Cos!Byte(p[i])
  <2>1. IsList(p) /\ IsList(k) /\ Cos!leaf_apply(p, k, v) = Cos!sha(t)
    BY <1>1
  <2> QED BY ONLY <2>1, LeafTokens, SMTT(20)
<1>3. 1 \in 1 .. Len(p)
  <2>1. Len(p) \in Nat /\ p \in Seq(Range(p)) /\ p # <<>>
    BY ListIs DEF IsList, Cos!starts
  <2>2. Len(p) # 0
    BY <2>1, EmptySeq
  <2> QED BY <2>1, <2>2
<1>4. p[1] = 0
  BY DEF Cos!starts
<1> QED BY <1>1, <1>2, <1>3, <1>4

\* The steps of a path are hashed after something that is not a zero.
IsPath(path) ==
    /\ IsList(path)
    /\ \A i \in DOMAIN path : LET op == path[i]
                              IN  /\ IsList(op.prefix) /\ IsList(op.suffix)
                                  /\ op.prefix # <<>> /\ op.prefix[1] # Cos!Byte(0)

\* A proof of the root of a tree opens one of its leaves.
LEMMA TreeDescends ==
    ASSUME NEW nodes, NEW leaves, IsTree(nodes, leaves),
           \A x \in leaves : \E t : x = Cos!sha(t) /\ t[1] = Cos!Byte(0),
           NEW proof, IsPath(proof.path), IsList(proof.leaf), Cos!starts(proof.leaf, 0),
           IsList(proof.key), Cos!calculate_root(proof) \in nodes
    PROVE  Cos!leaf_apply(proof.leaf, proof.key, proof.value) \in leaves
<1> DEFINE f == Cos!hashes(proof)
           n == Len(proof.path)
           S == {j \in 0 .. n : f[n - j] \in nodes}
<1>1. n \in Nat /\ DOMAIN proof.path = 1 .. n
  BY ListIs DEF IsPath
<1>2. /\ f[0] = Cos!leaf_apply(proof.leaf, proof.key, proof.value)
      /\ \A i \in 1 .. n : f[i] = Cos!inner_apply(f[i - 1], proof.path[i])
  BY <1>1, HashesAre
<1>3. f[n] \in nodes
  BY DEF Cos!calculate_root
<1> HIDE DEF f, n
<1>4. ASSUME NEW i \in 0 .. n PROVE \E t : f[i] = Cos!sha(t)
  <2>1. CASE i = 0
    BY <1>2, <2>1 DEF Cos!leaf_apply
  <2>2. CASE i \in 1 .. n
    BY <1>2, <2>2 DEF Cos!inner_apply
  <2> QED BY <1>1, <2>1, <2>2
<1>5. ASSUME NEW i \in 1 .. n, f[i] \in nodes PROVE f[i - 1] \in nodes
  <2> DEFINE op == proof.path[i]
  <2>1. i - 1 \in 0 .. n /\ i \in 0 .. n
    BY <1>1
  <2>2. PICK t : f[i] = Cos!sha(t)
    BY <1>4, <2>1
  <2>3. IsList(op.prefix) /\ IsList(op.suffix) /\ op.prefix # <<>> /\ op.prefix[1] # Cos!Byte(0)
    BY <1>1 DEF IsPath
  <2>4. Cos!inner_apply(f[i - 1], op) = Cos!sha(t)
    BY <1>2, <2>2
  <2> HIDE DEF op
  <2>5. t[1] = op.prefix[1] /\ \E k \in DOMAIN t : t[k] = f[i - 1]
    BY <2>3, <2>4, InnerTokens
  <2>6. f[i] \notin leaves
    <3> SUFFICES ASSUME f[i] \in leaves PROVE FALSE
      OBVIOUS
    <3>1. PICK u : f[i] = Cos!sha(u) /\ u[1] = Cos!Byte(0)
      OBVIOUS
    <3>2. u = t
      BY <2>2, <3>1 DEF Cos!sha
    <3> QED BY <2>3, <2>5, <3>1, <3>2
  <2>7. f[i].sha = t
    BY <2>2 DEF Cos!sha
  <2>8. \A k \in DOMAIN t : "sha" \in DOMAIN t[k] => t[k] \in nodes
    BY <1>5, <2>6, <2>7 DEF IsTree
  <2>9. "sha" \in DOMAIN f[i - 1]
    <3>1. PICK u : f[i - 1] = Cos!sha(u)
      BY <1>4, <2>1
    <3> QED BY <3>1 DEF Cos!sha
  <2> QED BY <2>5, <2>8, <2>9
<1>6. \A j \in 0 .. n : j \in S
  <2>1. 0 \in S
    BY <1>1, <1>3
  <2>2. ASSUME NEW j \in 0 .. (n - 1), j \in S PROVE j + 1 \in S
    <3>1. /\ n - j \in 1 .. n /\ n - (j + 1) = (n - j) - 1 /\ j + 1 \in 0 .. n
          /\ f[n - j] \in nodes
      BY <1>1, <2>2
    <3>2. f[(n - j) - 1] \in nodes
      BY <1>5, <3>1
    <3> QED BY <3>1, <3>2
  <2> HIDE DEF S
  <2> QED BY <1>1, <2>1, <2>2, InductTo
<1>7. f[0] \in nodes
  <2>1. n \in S /\ n - n = 0
    BY <1>1, <1>6
  <2> QED BY <2>1
<1> SUFFICES ASSUME f[0] \notin leaves PROVE FALSE
  BY <1>2
<1>8. PICK t : f[0] = Cos!sha(t) /\ t[1] = Cos!Byte(0)
  BY <1>2, LeafStarts
<1>9. f[0].sha = t
  BY <1>8 DEF Cos!sha
<1>10. f[0].sha[1] # Cos!Byte(0)
  BY <1>7 DEF IsTree
<1> QED BY <1>8, <1>9, <1>10

\* Two leaves with the same hash, whose prefixes are as long, are the same.
LEMMA LeafOpens ==
    ASSUME NEW p, IsList(p), NEW k, IsList(k), NEW v,
           NEW q, IsList(q), NEW l, IsList(l), NEW w,
           Cos!leaf_apply(p, k, v) = Cos!leaf_apply(q, l, w), Len(p) = Len(q)
    PROVE  k = l /\ v = w
<1>1. PICK t : Cos!leaf_apply(p, k, v) = Cos!sha(t)
  BY DEF Cos!leaf_apply
<1>2. /\ Len(t) = Len(p) + Len(k) + 3
      /\ \A i \in 1 .. Len(k) : t[Len(p) + 1 + i] = k[i]
      /\ t[Len(p) + Len(k) + 3] = Cos!sha(v)
  <2>1. IsList(p) /\ IsList(k) /\ Cos!leaf_apply(p, k, v) = Cos!sha(t)
    BY <1>1
  <2> QED BY ONLY <2>1, LeafTokens, SMTT(20)
<1>3. /\ Len(t) = Len(q) + Len(l) + 3
      /\ \A i \in 1 .. Len(l) : t[Len(q) + 1 + i] = l[i]
      /\ t[Len(q) + Len(l) + 3] = Cos!sha(w)
  <2>1. IsList(q) /\ IsList(l) /\ Cos!leaf_apply(q, l, w) = Cos!sha(t)
    BY <1>1
  <2> QED BY ONLY <2>1, LeafTokens, SMTT(20)
<1>4. /\ Len(p) \in Nat /\ Len(k) \in Nat /\ Len(l) \in Nat
      /\ k \in Seq(Range(k)) /\ l \in Seq(Range(l))
  BY ListIs DEF IsList
<1>5. Len(k) = Len(l)
  BY <1>2, <1>3, <1>4
<1>6. \A i \in 1 .. Len(k) : k[i] = l[i]
  BY <1>2, <1>3, <1>5
<1>7. k = l
  <2>1. k \in [1 .. Len(k) -> Range(k)] /\ l \in [1 .. Len(k) -> Range(l)]
    BY <1>5, ListIs
  <2> QED BY <1>6, <2>1
<1>8. Cos!sha(v) = Cos!sha(w)
  BY <1>2, <1>3, <1>5
<1> QED BY <1>7, <1>8 DEF Cos!sha

\* Where two lists are both long enough, they hold the same.
Agree(p, q) == \A i \in DOMAIN p \cap DOMAIN q : p[i] = q[i]

\* A varint ends with its first byte that is not marked.
LEMMA VarintEnd ==
    ASSUME NEW b, IsList(b), NEW r \in Cos!minimal_varint(b)
    PROVE  /\ r[2] \in 1 .. Len(b) /\ b[r[2]] < 2 ^ GROUP
           /\ \A i \in DOMAIN b : b[i] < 2 ^ GROUP => r[2] <= i
<1> DEFINE ends == {i \in DOMAIN b : b[i] < 2 ^ GROUP}
           end == Cos!Min(ends)
<1>1. ends # {} /\ r = <<Cos!group_value(b, end), end>>
  BY Zenon DEF Cos!minimal_varint
<1>2. DOMAIN b = 1 .. Len(b) /\ Len(b) \in Nat
  BY ListIs
<1>3. end \in ends /\ \A i \in ends : end <= i
  <2>1. end = CHOOSE x \in ends : \A y \in ends : x <= y
    BY Zenon DEF Cos!Min
  <2>2. ends \subseteq Nat
    BY <1>2
  <2> HIDE DEF ends
  <2>3. \E x \in ends : \A y \in ends : x <= y
    BY <1>1, <2>2, LeastNatural
  <2> HIDE DEF end
  <2> QED BY <2>1, <2>3
<1>4. r[2] = end
  <2> HIDE DEF end
  <2> QED BY <1>1
<1> HIDE DEF end
<1> QED BY <1>2, <1>3, <1>4

\* Varints that hold the same, where both are long enough, end at the same byte.
LEMMA SameEnd ==
    ASSUME NEW p, IsList(p), NEW r \in Cos!minimal_varint(p),
           NEW q, IsList(q), NEW s \in Cos!minimal_varint(q), Agree(p, q)
    PROVE  r[2] = s[2]
<1>1. /\ DOMAIN p = 1 .. Len(p) /\ Len(p) \in Nat
      /\ DOMAIN q = 1 .. Len(q) /\ Len(q) \in Nat
  BY ListIs
<1>2. /\ r[2] \in 1 .. Len(p) /\ p[r[2]] < 2 ^ GROUP
      /\ \A i \in DOMAIN p : p[i] < 2 ^ GROUP => r[2] <= i
  BY VarintEnd
<1>3. /\ s[2] \in 1 .. Len(q) /\ q[s[2]] < 2 ^ GROUP
      /\ \A i \in DOMAIN q : q[i] < 2 ^ GROUP => s[2] <= i
  BY VarintEnd
<1> DEFINE m == r[2]
           n == s[2]
<1>4. m <= n \/ n <= m
  BY <1>1, <1>2, <1>3
<1>5. m <= n => m \in DOMAIN q /\ q[m] = p[m] /\ n <= m
  <2>1. ASSUME m <= n PROVE m \in DOMAIN p \cap DOMAIN q
    BY <1>1, <1>2, <1>3, <2>1
  <2> QED BY <1>2, <1>3, <2>1 DEF Agree
<1>6. n <= m => n \in DOMAIN p /\ q[n] = p[n] /\ m <= n
  <2>1. ASSUME n <= m PROVE n \in DOMAIN p \cap DOMAIN q
    BY <1>1, <1>2, <1>3, <2>1
  <2> QED BY <1>2, <1>3, <2>1 DEF Agree
<1>7. m \in Nat /\ n \in Nat
  BY <1>1, <1>2, <1>3
<1> QED BY <1>4, <1>5, <1>6, <1>7

\* The rest of a list.
LEMMA RestIs ==
    ASSUME NEW p, IsList(p), NEW n \in 0 .. Len(p)
    PROVE  LET rest == SubSeq(p, n + 1, Len(p))
           IN  /\ IsList(rest) /\ Len(rest) = Len(p) - n
               /\ \A i \in 1 .. Len(p) - n : rest[i] = p[n + i]
<1> DEFINE rest == SubSeq(p, n + 1, Len(p))
<1>1. Len(p) \in Nat /\ p \in Seq(Range(p))
  BY ListIs DEF IsList
<1> DEFINE m == Len(p)
           S == Range(p)
<1> HIDE DEF S
<1>2. /\ n + 1 \in 1 .. m + 1 /\ m \in n + 1 - 1 .. m
  BY <1>1
<1>3. /\ rest \in Seq(S) /\ Len(rest) = m - (n + 1) + 1
      /\ \A i \in 1 .. (m - (n + 1) + 1) : rest[i] = p[(n + 1) + i - 1]
  BY <1>1, <1>2, SubSeqProperties DEF S
<1>4. IsList(rest)
  BY <1>3, SeqOfRange DEF IsList
<1>5. m - (n + 1) + 1 = m - n /\ \A i \in 1 .. m - n : (n + 1) + i - 1 = n + i
  BY <1>1
<1> HIDE DEF rest
<1>6. IsList(rest) /\ Len(rest) = m - n /\ \A i \in 1 .. m - n : rest[i] = p[n + i]
  BY <1>3, <1>4, <1>5
<1> QED BY <1>6 DEF rest

Rest(p, n) == SubSeq(p, n + 1, Len(p))

\* Lists that agree have rests that agree.
LEMMA RestsAgree ==
    ASSUME NEW p, IsList(p), NEW q, IsList(q), Agree(p, q),
           NEW n \in Nat, n <= Len(p), n <= Len(q)
    PROVE  /\ IsList(Rest(p, n)) /\ Len(Rest(p, n)) = Len(p) - n
           /\ IsList(Rest(q, n)) /\ Len(Rest(q, n)) = Len(q) - n
           /\ Agree(Rest(p, n), Rest(q, n))
<1>1. /\ Len(p) \in Nat /\ DOMAIN p = 1 .. Len(p)
      /\ Len(q) \in Nat /\ DOMAIN q = 1 .. Len(q)
  BY ListIs
<1>2. n \in 0 .. Len(p) /\ n \in 0 .. Len(q)
  BY <1>1
<1>3. /\ IsList(Rest(p, n)) /\ Len(Rest(p, n)) = Len(p) - n
      /\ \A i \in 1 .. Len(p) - n : Rest(p, n)[i] = p[n + i]
  BY <1>2, RestIs DEF Rest
<1>4. /\ IsList(Rest(q, n)) /\ Len(Rest(q, n)) = Len(q) - n
      /\ \A i \in 1 .. Len(q) - n : Rest(q, n)[i] = q[n + i]
  BY <1>2, RestIs DEF Rest
<1>5. /\ DOMAIN Rest(p, n) = 1 .. Len(p) - n
      /\ DOMAIN Rest(q, n) = 1 .. Len(q) - n
  BY <1>3, <1>4, ListIs
<1>6. ASSUME NEW i \in DOMAIN Rest(p, n) \cap DOMAIN Rest(q, n)
      PROVE  Rest(p, n)[i] = Rest(q, n)[i]
  <2>1. n + i \in DOMAIN p \cap DOMAIN q /\ i \in 1 .. Len(p) - n /\ i \in 1 .. Len(q) - n
    BY <1>1, <1>5
  <2> QED BY <1>3, <1>4, <2>1 DEF Agree
<1> QED BY <1>3, <1>4, <1>6 DEF Agree

\* A canonical prefix is three varints and nothing more, so no other has it as
\* its beginning.
LEMMA CanonicalLen ==
    ASSUME NEW p, IsList(p), Cos!canonical_leaf_prefix(p),
           NEW q, IsList(q), Cos!canonical_leaf_prefix(q), Agree(p, q)
    PROVE  Len(p) = Len(q)
<1> DEFINE End(b, n) == \E r \in Cos!minimal_varint(b) : n = r[2]
           Three(b, x, y, z) == /\ End(b, x) /\ End(Rest(b, x), y) /\ End(Rest(b, x + y), z)
                                /\ x + y + z = Len(b)
<1>1. ASSUME NEW b, Cos!canonical_leaf_prefix(b)
      PROVE  \E x, y, z : Three(b, x, y, z)
  <2>1. PICK h \in Cos!minimal_varint(b) :
           \E s \in Cos!minimal_varint(Rest(b, h[2])) :
              \E v \in Cos!minimal_varint(Rest(b, h[2] + s[2])) :
                 h[2] + s[2] + v[2] = Len(b)
    BY <1>1, Zenon DEF Cos!canonical_leaf_prefix, Rest
  <2>2. PICK s \in Cos!minimal_varint(Rest(b, h[2])) :
              \E v \in Cos!minimal_varint(Rest(b, h[2] + s[2])) :
                 h[2] + s[2] + v[2] = Len(b)
    BY <2>1, Zenon
  <2>3. PICK v \in Cos!minimal_varint(Rest(b, h[2] + s[2])) : h[2] + s[2] + v[2] = Len(b)
    BY <2>2, Zenon
  <2>4. Three(b, h[2], s[2], v[2])
    BY <2>1, <2>2, <2>3, Zenon
  <2> QED BY <2>4, Zenon
<1>2. ASSUME NEW b, IsList(b), NEW n, End(b, n) PROVE n \in 1 .. Len(b)
  BY <1>2, VarintEnd
<1>3. ASSUME NEW b, IsList(b), NEW c, IsList(c), Agree(b, c),
             NEW n, End(b, n), NEW m, End(c, m)
      PROVE  n = m
  BY <1>3, SameEnd
<1> HIDE DEF End
<1>4. PICK x, y, z : Three(p, x, y, z)
  BY <1>1
<1>5. PICK u, v, w : Three(q, u, v, w)
  BY <1>1
<1>6. Len(p) \in Nat /\ Len(q) \in Nat
  BY ListIs
<1>7. u = x /\ x \in 1 .. Len(p) /\ x \in 1 .. Len(q)
  BY <1>2, <1>3, <1>4, <1>5
<1>8. /\ IsList(Rest(p, x)) /\ Len(Rest(p, x)) = Len(p) - x
      /\ IsList(Rest(q, x)) /\ Len(Rest(q, x)) = Len(q) - x
      /\ Agree(Rest(p, x), Rest(q, x))
  <2>1. x \in Nat /\ x <= Len(p) /\ x <= Len(q)
    BY <1>6, <1>7
  <2> QED BY <2>1, RestsAgree
<1>9. v = y /\ y \in 1 .. Len(p) - x /\ y \in 1 .. Len(q) - x
  <2>1. End(Rest(p, x), y) /\ End(Rest(q, x), v)
    BY <1>4, <1>5, <1>7
  <2>2. v = y
    BY <1>3, <1>8, <2>1
  <2>3. y \in 1 .. Len(Rest(p, x)) /\ y \in 1 .. Len(Rest(q, x))
    BY <1>2, <1>8, <2>1, <2>2
  <2> QED BY <1>8, <2>2, <2>3
<1>10. /\ IsList(Rest(p, x + y)) /\ IsList(Rest(q, x + y))
       /\ Agree(Rest(p, x + y), Rest(q, x + y))
  <2>1. x + y \in Nat /\ x + y <= Len(p) /\ x + y <= Len(q)
    BY <1>6, <1>7, <1>9
  <2> QED BY <2>1, RestsAgree
<1>11. w = z
  <2>1. End(Rest(p, x + y), z) /\ End(Rest(q, x + y), w)
    BY <1>4, <1>5, <1>7, <1>9
  <2> QED BY <1>3, <1>10, <2>1
<1> QED BY <1>4, <1>5, <1>7, <1>9, <1>11

\* Two canonical leaves with the same hash are the same.
LEMMA CanonicalOpens ==
    ASSUME NEW p, IsList(p), Cos!canonical_leaf_prefix(p), NEW k, IsList(k), NEW v,
           NEW q, IsList(q), Cos!canonical_leaf_prefix(q), NEW l, IsList(l), NEW w,
           Cos!leaf_apply(p, k, v) = Cos!leaf_apply(q, l, w)
    PROVE  k = l /\ v = w
<1>1. PICK t : Cos!leaf_apply(p, k, v) = Cos!sha(t)
  BY DEF Cos!leaf_apply
<1>2. \A i \in 1 .. Len(p) : t[i] = Cos!Byte(p[i])
  <2>1. IsList(p) /\ IsList(k) /\ Cos!leaf_apply(p, k, v) = Cos!sha(t)
    BY <1>1
  <2> QED BY ONLY <2>1, LeafTokens, SMTT(20)
<1>3. \A i \in 1 .. Len(q) : t[i] = Cos!Byte(q[i])
  <2>1. IsList(q) /\ IsList(l) /\ Cos!leaf_apply(q, l, w) = Cos!sha(t)
    BY <1>1
  <2> QED BY ONLY <2>1, LeafTokens, SMTT(20)
<1>4. Agree(p, q)
  <2> SUFFICES ASSUME NEW i \in DOMAIN p \cap DOMAIN q PROVE p[i] = q[i]
    BY DEF Agree
  <2>1. DOMAIN p = 1 .. Len(p) /\ DOMAIN q = 1 .. Len(q)
    BY ListIs
  <2>2. Cos!Byte(p[i]) = Cos!Byte(q[i])
    BY <1>2, <1>3, <2>1
  <2> QED BY <2>2 DEF Cos!Byte
<1>5. Len(p) = Len(q)
  BY <1>4, CanonicalLen
<1> QED BY <1>5, LeafOpens

\* What has a size is something.
LEMMA SizeOfNone == Cos!Size(<<>>) = 0
<1> DEFINE w == [i \in DOMAIN <<>> |-> IF "sha" \in DOMAIN <<>>[i] THEN HASH_LEN ELSE 1]
<1>1. Cos!Size(<<>>) = SumFunction(w)
  BY CosmosSum, Zenon DEF Cos!Size
<1>2. w \in [{} -> Nat]
  OBVIOUS
<1> HIDE DEF w
<1>3. IsFiniteSet({}) 
  BY FS_EmptySet
<1> QED BY <1>1, <1>2, <1>3, SumRemove

\* A deposit that passes verify_deposit_core.
CosmosCase(c, proof) ==
    /\ c \in Cos!Candidates /\ proof \in StoreProofs
    /\ \E commit \in Cos!CommitsFor(c) :
          Cos!verify_deposit_core(trusted, c[1], commit, c[2], proof, clock)

\* What the Cosmos client proves passed verify_deposit_core.
LEMMA CosmosCases ==
    ASSUME NEW proven \in CosmosProven
    PROVE  \E c, proof : CosmosCase(c, proof) /\ proven = Cos!verify_trustless_deposit(c[1], proof)
<1> DEFINE ok(c, p) == \E commit \in Cos!CommitsFor(c) :
                          Cos!verify_deposit_core(trusted, c[1], commit, c[2], p, clock)
<1>1. PICK c \in Cos!Candidates :
         proven \in {Cos!verify_trustless_deposit(c[1], proof) :
                       proof \in {p \in Opened[c[1]] : ok(c, p)}}
  BY Zenon DEF CosmosProven
<1> HIDE DEF ok
<1>2. PICK proof \in Opened[c[1]] :
         ok(c, proof) /\ proven = Cos!verify_trustless_deposit(c[1], proof)
  BY <1>1, Zenon
<1>3. c[1] \in Cos!Headers
  BY DEF Cos!Candidates
<1>4. Opened[c[1]] = {p \in StoreProofs : Cos!can_extract_deposit(c[1].app_hash, p)}
  BY <1>3, Zenon DEF Opened
<1>5. proof \in StoreProofs
  BY <1>4
<1>6. CosmosCase(c, proof)
  BY <1>2, <1>5, Zenon DEF CosmosCase, ok
<1> QED BY <1>2, <1>6, Zenon

\* A store that is opened under an app hash of the chain is one of its stores.
LEMMA StoreOpened ==
    ASSUME NEW s, NEW p \in StoreProofs, s \in p.store, Cos!canonical_store_ops(s),
           Cos!calculate_root(s) \in AppNodes
    PROVE  \E t \in Stores : s.key = t.name /\ s.value = <<t.root>>
<1> DEFINE leaves == {Cos!leaf_apply(<<0>>, t.name, <<t.root>>) : t \in Stores}
<1>1. IsList(s.leaf) /\ IsList(s.key) /\ IsList(s.path)
      /\ \A i \in DOMAIN s.path : IsList(s.path[i].prefix) /\ IsList(s.path[i].suffix)
  BY StoresAssumption
<1>2. IsList(<<0>>) /\ Len(<<0>>) = 1 /\ Cos!starts(<<0>>, 0)
  BY OneListed DEF Cos!starts
<1>3. \A x \in leaves : \E t : x = Cos!sha(t) /\ t[1] = Cos!Byte(0)
  <2>1. ASSUME NEW r \in Stores
        PROVE  \E t : /\ Cos!leaf_apply(<<0>>, r.name, <<r.root>>) = Cos!sha(t)
                      /\ t[1] = Cos!Byte(0)
    <3>1. IsList(r.name)
      BY StoresAssumption
    <3> QED BY <1>2, <3>1, LeafStarts
  <2> QED BY <2>1
<1>4. s.leaf = <<0>>
  BY DEF Cos!canonical_store_ops, Cos!LEAF_MARKER
<1>5. IsPath(s.path)
  <2> SUFFICES ASSUME NEW i \in DOMAIN s.path
               PROVE  s.path[i].prefix # <<>> /\ s.path[i].prefix[1] # Cos!Byte(0)
    BY <1>1 DEF IsPath
  <2>1. Cos!starts(s.path[i].prefix, Cos!Byte(1))
    BY DEF Cos!canonical_store_ops, Cos!INNER_MARKER
  <2>2. Cos!Byte(1) # Cos!Byte(0)
    BY DEF Cos!Byte
  <2> QED BY <2>1, <2>2 DEF Cos!starts
<1>6. IsTree(AppNodes, leaves)
  BY StoresAssumption
<1> HIDE DEF leaves
<1>7. Cos!leaf_apply(s.leaf, s.key, s.value) \in leaves
  BY <1>1, <1>2, <1>3, <1>4, <1>5, <1>6, TreeDescends
<1>8. PICK t \in Stores :
         Cos!leaf_apply(<<0>>, s.key, s.value) = Cos!leaf_apply(<<0>>, t.name, <<t.root>>)
  BY <1>4, <1>7 DEF leaves
<1>9. IsList(t.name)
  BY StoresAssumption
<1> QED BY <1>1, <1>2, <1>8, <1>9, LeafOpens

\* A record that is opened under the root of the bridge's store is one of it.
LEMMA RecordOpened ==
    ASSUME NEW p \in StoreProofs, Cos!canonical_ops(p), Cos!calculate_root(p) \in BridgeNodes
    PROVE  \E d \in BridgeStore : p.key = d.key /\ p.value = Words(d.value)
<1> DEFINE leaves == {Cos!leaf_apply(d.leaf, d.key, Words(d.value)) : d \in BridgeStore}
<1>1. IsList(p.leaf) /\ IsList(p.key) /\ IsList(p.path)
      /\ \A i \in DOMAIN p.path : IsList(p.path[i].prefix) /\ IsList(p.path[i].suffix)
  BY StoresAssumption
<1>2. \A d \in BridgeStore : /\ IsList(d.leaf) /\ IsList(d.key)
                             /\ Cos!canonical_leaf_prefix(d.leaf) /\ Cos!starts(d.leaf, 0)
  BY StoresAssumption
<1>3. \A x \in leaves : \E t : x = Cos!sha(t) /\ t[1] = Cos!Byte(0)
  BY <1>2, LeafStarts
<1>4. Cos!starts(p.leaf, 0) /\ Cos!canonical_leaf_prefix(p.leaf)
  BY DEF Cos!canonical_ops, Cos!LEAF_MARKER
<1>5. IsPath(p.path)
  <2> SUFFICES ASSUME NEW i \in DOMAIN p.path
               PROVE  p.path[i].prefix # <<>> /\ p.path[i].prefix[1] # Cos!Byte(0)
    BY <1>1 DEF IsPath
  <2>1. /\ Cos!Size(p.path[i].prefix) \in 1 .. MAX_OP_PREFIX_LEN
        /\ ~Cos!starts(p.path[i].prefix, Cos!Byte(0))
    BY DEF Cos!canonical_ops, Cos!LEAF_MARKER
  <2>2. Cos!Size(p.path[i].prefix) # 0
    BY <2>1
  <2>3. p.path[i].prefix # <<>>
    BY <2>2, SizeOfNone
  <2> QED BY <2>1, <2>3 DEF Cos!starts
<1>6. IsTree(BridgeNodes, leaves)
  BY StoresAssumption
<1> HIDE DEF leaves
<1>7. Cos!leaf_apply(p.leaf, p.key, p.value) \in leaves
  BY <1>1, <1>3, <1>4, <1>5, <1>6, TreeDescends
<1>8. PICK d \in BridgeStore :
         Cos!leaf_apply(p.leaf, p.key, p.value) = Cos!leaf_apply(d.leaf, d.key, Words(d.value))
  BY <1>7 DEF leaves
<1>9. p.key = d.key /\ p.value = Words(d.value)
  BY <1>1, <1>2, <1>4, <1>8, CanonicalOpens
<1> QED BY <1>9

\* What the Cosmos client proves is a record of the bridge's store.
LEMMA CosmosDepositIsReal ==
    ASSUME CosmosInv, NEW proven \in CosmosProven,
           NEW corridor, corridor.chain_id = "Cosmos"
    PROVE  IsReal(mint_of(corridor, proven))
<1>1. PICK c, proof : CosmosCase(c, proof) /\ proven = Cos!verify_trustless_deposit(c[1], proof)
  BY CosmosCases
<1>2. PICK commit \in Cos!CommitsFor(c) :
         Cos!verify_deposit_core(trusted, c[1], commit, c[2], proof, clock)
  BY <1>1 DEF CosmosCase
<1>3. /\ Cos!can_extract_deposit(c[1].app_hash, proof)
      /\ Cos!check_trusting_commit(trusted, c[1], commit)
  BY <1>2, Zenon DEF Cos!verify_deposit_core
<1>4. c[1] \in Range(Main)
  BY <1>1, <1>3, TransitionIsMain DEF CosmosCase
<1>5. PICK x \in AppNodes : c[1].app_hash = <<x>>
  BY <1>4, StoresAssumption
<1>6. /\ Cos!canonical_ops(proof) /\ Len(proof.value) = 3
      /\ Cos!IsPrefix(cfg.bridge_store_prefix, proof.key)
  BY <1>3, StoresAssumption, Zenon DEF Cos!can_extract_deposit
<1>7. PICK s \in proof.store :
         /\ Cos!canonical_store_ops(s) /\ s.key = cfg.bridge_store_name
         /\ s.value = <<Cos!calculate_root(proof)>>
         /\ <<Cos!calculate_root(s)>> = c[1].app_hash
  BY <1>3, Zenon DEF Cos!can_extract_deposit
<1>8. proof \in StoreProofs
  BY <1>1 DEF CosmosCase
<1>9. Cos!calculate_root(s) \in AppNodes
  BY <1>5, <1>7
<1>10. PICK t \in Stores : s.key = t.name /\ s.value = <<t.root>>
  BY <1>7, <1>8, <1>9, StoreOpened
<1>11. Cos!calculate_root(proof) \in BridgeNodes
  <2>1. t.root \in BridgeNodes
    BY <1>7, <1>10, StoresAssumption
  <2> QED BY <1>7, <1>10, <2>1
<1>12. PICK d \in BridgeStore : proof.key = d.key /\ proof.value = Words(d.value)
  BY <1>6, <1>8, <1>11, RecordOpened
<1>13. /\ d.value = <<d.value[1], d.value[2], d.value[3]>>
       /\ \A i \in 1 .. 3 : proof.value[i].word = d.value[i]
  <2>1. IsTuple(d.value) /\ IsTuple(proof.value)
    BY <1>8, StoresAssumption
  <2>2. DOMAIN proof.value = 1 .. 3 /\ DOMAIN d.value = 1 .. Len(d.value) /\ Len(d.value) \in Nat
    BY <1>6, <2>1 DEF IsTuple
  <2>3. DOMAIN d.value = 1 .. 3
    BY <1>12, <2>2 DEF Words
  <2>4. Len(d.value) = 3
    <3> DEFINE n == Len(d.value)
    <3>1. n \in Nat /\ 1 .. n = 1 .. 3
      BY <2>2, <2>3
    <3> HIDE DEF n
    <3>2. n = 3
      BY ONLY <3>1
    <3> QED BY <3>2 DEF n
  <2>5. d.value = [i \in 1 .. 3 |-> d.value[i]]
    BY <2>1, <2>4 DEF IsTuple
  <2>6. \A i \in 1 .. 3 : proof.value[i].word = d.value[i]
    BY <1>12, <2>3 DEF Words, Cos!Word
  <2> QED BY <2>4, <2>5, <2>6
<1> DEFINE mint == mint_of(corridor, proven)
<1>14. /\ mint.source_chain = "Cosmos"
       /\ mint.source_ref = <<cfg.chain_id, cfg.bridge_store_name, proof.key>>
       /\ mint.recipient = proof.value[1].word /\ mint.asset_id = proof.value[2].word
       /\ mint.amount = proof.value[3].word
  <2>1. /\ proven.source_ref = <<cfg.chain_id, cfg.bridge_store_name, proof.key>>
        /\ proven.recipient = proof.value[1].word /\ proven.asset_id = proof.value[2].word
        /\ proven.amount = proof.value[3].word
    BY <1>1 DEF Cos!verify_trustless_deposit, Cos!deposit_source_ref
  <2> QED BY <2>1 DEF mint_of, asset_of
<1> HIDE DEF mint
<1>15. <<mint.recipient, mint.asset_id, mint.amount>> = d.value
  <2>1. 1 \in 1 .. 3 /\ 2 \in 1 .. 3 /\ 3 \in 1 .. 3
    OBVIOUS
  <2> QED BY <1>13, <1>14, <2>1
<1>16. IsPrefix(cfg.bridge_store_prefix, d.key)
  BY <1>6, <1>12 DEF Cos!IsPrefix, IsPrefix
<1>17. mint.source_ref = <<cfg.chain_id, cfg.bridge_store_name, d.key>>
  BY <1>12, <1>14
<1>18. IsReal(mint)
  <2>1. mint.source_chain # "Bitcoin" /\ mint.source_chain # "Ethereum"
    BY <1>14
  <2> QED BY <1>15, <1>16, <1>17, <2>1 DEF IsReal
<1> QED BY <1>18 DEF mint

-----------------------------------------------------------------------------
(* Mints *)

\* Every mint is real, its reference is used up, and no other has it.
MintsInv ==
    /\ "used_refs" \in DOMAIN guard
    /\ \A m \in DOMAIN mints : /\ IsReal(m) /\ mints[m] = 1
                               /\ <<m.source_chain, m.source_ref>> \in guard.used_refs
    /\ \A m, n \in DOMAIN mints :
          n.source_chain = m.source_chain /\ n.source_ref = m.source_ref => n = m

\* Nothing is minted at first.
LEMMA MintsInit ==
    ASSUME Init
    PROVE  MintsInv
<1>1. DOMAIN mints = {}
  BY DEF Init, EmptyBag, SetToBag
<1>2. "used_refs" \in DOMAIN guard
  <2>1. guard = install_all(NewGuard, seeded)
    BY DEF Init
  <2>2. DOMAIN guard = DOMAIN NewGuard
    BY <2>1, Zenon DEF install_all
  <2> QED BY <2>2 DEF NewGuard
<1> QED BY <1>1, <1>2 DEF MintsInv

\* A deposit that is admitted is real, and its reference was not used before.
LEMMA SubmitKeepsMints ==
    ASSUME BeaconInv, CosmosInv, MintsInv, NEW network \in Proven, SubmitDeposit(network)
    PROVE  MintsInv'
<1>1. PICK proven, fact :
         /\ proven \in ProvenOf(network) /\ fact.source_chain = network
         /\ precheck_trustless(mint_of(resolve_corridor(fact), proven), fact.dest_chain)
         /\ apply_replay_and_cap(mint_of(resolve_corridor(fact), proven))
         /\ mints' = mints (+) SetToBag({mint_of(resolve_corridor(fact), proven)})
  BY Zenon DEF SubmitDeposit
<1> DEFINE corridor == resolve_corridor(fact)
           m == mint_of(corridor, proven)
           ref == <<m.source_chain, m.source_ref>>
<1>2. corridor.chain_id = network /\ corridor.origin_asset = native_asset(network)
  BY <1>1 DEF resolve_corridor, corridor_for
<1>3. IsReal(m)
  <2> HIDE DEF corridor
  <2>1. CASE network = "Bitcoin"
    BY <1>1, <1>2, <2>1, BitcoinDepositIsReal DEF ProvenOf
  <2>2. CASE network = "Ethereum"
    BY <1>1, <1>2, <2>2, EthereumDepositIsReal DEF ProvenOf
  <2>3. CASE network = "Cosmos"
    BY <1>1, <1>2, <2>3, CosmosDepositIsReal DEF ProvenOf
  <2> QED BY <2>1, <2>2, <2>3 DEF Proven
<1>4. ref \notin guard.used_refs
  BY <1>1, Zenon DEF precheck_trustless
<1>5. "used_refs" \in DOMAIN guard' /\ guard'.used_refs = guard.used_refs \cup {ref}
  <2> DEFINE asset == m.asset_id
             amount == m.amount
  <2>1. guard' = [guard EXCEPT !.used_refs = @ \cup {ref}, !.minted[asset] = @ + amount]
    BY <1>1 DEF apply_replay_and_cap
  <2> HIDE DEF ref, asset, amount
  <2> QED BY <2>1 DEF MintsInv
<1> HIDE DEF m
<1>6. m \notin DOMAIN mints /\ \A n \in DOMAIN mints : <<n.source_chain, n.source_ref>> # ref
  BY <1>4 DEF MintsInv
<1>7. /\ DOMAIN mints' = DOMAIN mints \cup {m} /\ mints'[m] = 1
      /\ \A n \in DOMAIN mints : mints'[n] = mints[n]
  <2>1. mints' = mints (+) SetToBag({m})
    BY <1>1 DEF m
  <2>2. \A n \in DOMAIN mints : mints[n] = 1
    BY DEF MintsInv
  <2> QED BY <1>6, <2>1, <2>2 DEF (+), SetToBag
<1>8. \A n \in DOMAIN mints' : /\ IsReal(n) /\ mints'[n] = 1
                               /\ <<n.source_chain, n.source_ref>> \in guard'.used_refs
  BY <1>3, <1>5, <1>7 DEF MintsInv
<1>9. \A a, b \in DOMAIN mints' :
         b.source_chain = a.source_chain /\ b.source_ref = a.source_ref => b = a
  BY <1>6, <1>7 DEF MintsInv
<1> QED BY <1>5, <1>8, <1>9 DEF MintsInv

\* Every step keeps the mints real.
LEMMA MintsStep ==
    ASSUME BeaconInv, CosmosInv, MintsInv, [Next]_vars
    PROVE  MintsInv'
<1>1. CASE \E network \in Proven : SubmitDeposit(network)
  BY <1>1, SubmitKeepsMints
<1>2. ASSUME NEW r \in PoolRequests, CreatePool(r) PROVE MintsInv'
  <2>1. PICK spec : guard' = install_pool(guard, spec) /\ UNCHANGED mints
    BY <1>2 DEF CreatePool
  <2>2. "used_refs" \in DOMAIN guard' /\ guard'.used_refs = guard.used_refs
    BY <2>1 DEF install_pool, MintsInv
  <2> QED BY <2>1, <2>2 DEF MintsInv
<1>3. CASE UNCHANGED <<guard, mints>>
  BY <1>3 DEF MintsInv
<1> QED BY <1>1, <1>2, <1>3 DEF Next, Beacon, Rotate, Time, Follow, vars

\* What is minted on a proof is what the source chain holds for the bridge, for
\* its amount, its recipient and its asset, and never twice by whichever of its
\* proofs (verify_trustless_deposit of the three clients, match_bitcoin_deposit
\* and the others, admit_trustless): whoever relays what, while nobody
\* outworks or outvotes the chains by more than the assumptions allow.
THEOREM MintsAreReal == Spec => []OnlyRealDeposits
<1> DEFINE I == BeaconInv /\ CosmosInv /\ MintsInv
<1>1. Init => I
  BY BeaconInit, CosmosInit, MintsInit DEF Init
<1>2. I /\ [Next]_vars => I'
  BY BeaconStep, CosmosStep, MintsStep
<1>3. I => OnlyRealDeposits
  BY DEF MintsInv, OnlyRealDeposits, BagToSet
<1> QED BY <1>1, <1>2, <1>3, PTL DEF Spec
=============================================================================
