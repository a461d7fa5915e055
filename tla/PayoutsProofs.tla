--------------------------- MODULE PayoutsProofs ---------------------------
(***************************************************************************)
(* Safety of Payouts for every deployment: any chains and blocks, any      *)
(* answers of the node, any proofs of release, any operators.              *)
(*                                                                         *)
(* All that the desk does, it does in three recursions over lists          *)
(* (poll_burns, sweep_settle, sweep_slash).  Each is shown to keep DeskOK, *)
(* which says of every exit that its burn is finalized and consumed, that  *)
(* no other exit has it, that it was given the window of the configuration *)
(* and that it is paid if it is settled, and to leave every verdict as it  *)
(* is (Grows), which is what makes this operator's own signatures agree.   *)
(*                                                                         *)
(* Three steps rest on what is not the desk's.  A certificate that         *)
(* verifies has an honest signer, because the faulty members are fewer     *)
(* than tau.  A proof of release that verifies opens a transaction of its  *)
(* block, because its branch is as long as that of the coinbase, which is  *)
(* not a pair of nodes (LeafOpened of Inductions).  Two quorums of one     *)
(* operator set share an honest key, because each has two thirds.          *)
(***************************************************************************)
EXTENDS Payouts, Inductions, SequenceTheorems

-----------------------------------------------------------------------------
(* Sequences *)

\* Indices are finitely many.
LEMMA IndicesFinite ==
    ASSUME NEW m \in Nat, NEW K, \A k \in K : k \in 1 .. m
    PROVE  IsFiniteSet(K) /\ Cardinality(K) \in Nat
<1>1. IsFiniteSet(1 .. m) /\ K \subseteq 1 .. m
  BY FS_Interval
<1> QED BY <1>1, FS_Subset, FS_CardinalityType

\* There is an n-th element of a finite set of indices.
LEMMA NthExists ==
    ASSUME NEW m \in Nat, NEW K, \A k \in K : k \in 1 .. m, NEW n \in 1 .. Cardinality(K)
    PROVE  \E i \in K : Cardinality({k \in K : k <= i}) = n
<1> DEFINE C(i) == {k \in K : k <= i}
           T == {i \in 0 .. m : Cardinality(C(i)) >= n}
<1>1. IsFiniteSet(K) /\ Cardinality(K) \in Nat
  BY IndicesFinite
<1>2. \A i : IsFiniteSet(C(i)) /\ Cardinality(C(i)) \in Nat
  BY <1>1, FS_Subset, FS_CardinalityType
<1>3. C(0) = {} /\ C(m) = K
  OBVIOUS
<1>4. m \in T
  BY <1>1, <1>3
<1>5. PICK i \in T : \A k \in T : i <= k
  <2>1. T # {} /\ T \subseteq Nat
    BY <1>4
  <2> HIDE DEF T
  <2> QED BY <2>1, LeastNatural
<1>6. i \in 1 .. m
  BY <1>3, <1>5, FS_EmptySet
<1>7. Cardinality(C(i)) >= n /\ Cardinality(C(i - 1)) < n
  <2>1. i - 1 \notin T /\ i - 1 \in 0 .. m
    BY <1>5, <1>6
  <2>2. Cardinality(C(i - 1)) \in Nat
    BY <1>2
  <2>3. Cardinality(C(i)) >= n /\ ~(Cardinality(C(i - 1)) >= n)
    BY <1>5, <2>1
  <2> HIDE DEF C
  <2> QED BY <1>1, <2>2, <2>3
<1>8. i \in K
  <2> SUFFICES ASSUME i \notin K PROVE FALSE
    OBVIOUS
  <2>1. C(i) = C(i - 1)
    BY <1>6
  <2> HIDE DEF C
  <2> QED BY <1>1, <1>2, <1>7, <2>1
<1>9. Cardinality(C(i)) = Cardinality(C(i - 1)) + 1
  <2>1. C(i) = C(i - 1) \cup {i} /\ i \notin C(i - 1)
    <3>1. \A k \in K : k <= i <=> k <= i - 1 \/ k = i
      BY <1>6
    <3>2. ~(i <= i - 1)
      BY <1>6
    <3> QED BY <1>8, <3>1, <3>2
  <2> HIDE DEF C
  <2> QED BY <1>2, <2>1, FS_AddElement
<1>10. Cardinality(C(i)) = n
  <2> DEFINE a == Cardinality(C(i))
             b == Cardinality(C(i - 1))
  <2>1. a \in Nat /\ b \in Nat /\ a >= n /\ b < n /\ a = b + 1
    BY <1>2, <1>7, <1>9
  <2> HIDE DEF a, b
  <2>2. a = n
    BY <1>1, <2>1
  <2> QED BY <2>2 DEF a
<1> QED BY <1>8, <1>10

\* nth finds it.
LEMMA NthIs ==
    ASSUME NEW m \in Nat, NEW K, \A k \in K : k \in 1 .. m
    PROVE  Cardinality(K) \in Nat /\ \A n \in 1 .. Cardinality(K) : nth(K, n) \in K
<1>1. Cardinality(K) \in Nat
  BY IndicesFinite
<1>2. ASSUME NEW n \in 1 .. Cardinality(K) PROVE nth(K, n) \in K
  BY NthExists DEF nth
<1> QED BY <1>1, <1>2

\* The payouts that name burns are of those that were looked through.
LEMMA NamingKeeps ==
    ASSUME NEW S, NEW s \in Seq(S), NEW refs
    PROVE  naming(s, refs) \in Seq(S)
<1> DEFINE K == {i \in DOMAIN s : /\ names_a_burn(s[i])
                                  /\ release_reference(Txs[s[i].tx]) \in refs}
           p == [n \in 1 .. Cardinality(K) |-> s[nth(K, n)]]
<1>1. (\A i \in K : i \in 1 .. Len(s)) /\ Len(s) \in Nat /\ \A i \in K : s[i] \in S
  OBVIOUS
<1>2. naming(s, refs) = p
  BY DEF naming
<1> HIDE DEF K
<1>3. Cardinality(K) \in Nat /\ \A n \in 1 .. Cardinality(K) : nth(K, n) \in K
  BY <1>1, NthIs
<1>4. p \in [1 .. Cardinality(K) -> S]
  BY <1>1, <1>3
<1> HIDE DEF p
<1> QED BY <1>2, <1>3, <1>4

\* The last elements of a sequence.
LEMMA LastOfKeeps ==
    ASSUME NEW S, NEW s \in Seq(S), NEW n \in Nat
    PROVE  LastOf(s, n) \in Seq(S)
  BY DEF LastOf

-----------------------------------------------------------------------------
(* The loops of a step *)

PollFrom(blocks, from, hs, n, f) ==
    f = [i \in 0 .. n |-> IF i = 0 THEN from
                          ELSE IF i > Len(hs) THEN f[i - 1] ELSE polled(blocks, f[i - 1], hs[i])]

\* A poll of some heights can be computed.
LEMMA PollExists ==
    ASSUME NEW blocks, NEW from, NEW hs, NEW n \in Nat
    PROVE  \E f : PollFrom(blocks, from, hs, n, f)
<1> DEFINE S == {m \in Nat : \E f : PollFrom(blocks, from, hs, m, f)}
<1>1. 0 \in S
  <2>1. PollFrom(blocks, from, hs, 0, [i \in 0 .. 0 |-> from])
    BY DEF PollFrom
  <2> QED BY <2>1
<1>2. ASSUME NEW m \in S PROVE m + 1 \in S
  <2>1. PICK f : PollFrom(blocks, from, hs, m, f)
    OBVIOUS
  <2> DEFINE next(p, i) == IF i > Len(hs) THEN p ELSE polled(blocks, p, hs[i])
             g == [i \in 0 .. (m + 1) |-> IF i <= m THEN f[i] ELSE next(f[m], m + 1)]
  <2>2. \A i \in 0 .. m : f[i] = IF i = 0 THEN from ELSE next(f[i - 1], i)
    BY <2>1 DEF PollFrom
  <2> HIDE DEF next
  <2>3. \A i \in 0 .. (m + 1) : g[i] = IF i = 0 THEN from ELSE next(g[i - 1], i)
    BY <2>2
  <2>4. PollFrom(blocks, from, hs, m + 1, g)
    <3>1. g = [i \in 0 .. (m + 1) |-> g[i]]
      OBVIOUS
    <3> HIDE DEF g
    <3>2. g = [i \in 0 .. (m + 1) |-> IF i = 0 THEN from ELSE next(g[i - 1], i)]
      BY <2>3, <3>1
    <3> QED BY <3>2, Zenon DEF PollFrom, next
  <2> HIDE DEF g
  <2> QED BY <2>4
<1>3. S = Nat
  <2>1. S \in SUBSET Nat
    OBVIOUS
  <2> HIDE DEF S
  <2> QED BY <1>1, <1>2, <2>1, Induct
<1> QED BY <1>3

\* What poll_each computes, step by step.
LEMMA PollIs ==
    ASSUME NEW blocks, NEW from, NEW hs, MAX_HEIGHTS_PER_POLL \in Nat
    PROVE  /\ poll_each(blocks, from, hs)[0] = from
           /\ \A i \in 1 .. MAX_HEIGHTS_PER_POLL :
                 poll_each(blocks, from, hs)[i] = IF i > Len(hs) THEN poll_each(blocks, from, hs)[i - 1] ELSE polled(blocks, poll_each(blocks, from, hs)[i - 1], hs[i])
<1> DEFINE f == poll_each(blocks, from, hs)
<1>1. PollFrom(blocks, from, hs, MAX_HEIGHTS_PER_POLL, f)
  <2>1. f = CHOOSE g : PollFrom(blocks, from, hs, MAX_HEIGHTS_PER_POLL, g)
    BY Zenon DEF poll_each, PollFrom
  <2>2. \E g : PollFrom(blocks, from, hs, MAX_HEIGHTS_PER_POLL, g)
    BY PollExists
  <2> HIDE DEF f
  <2> QED BY <2>1, <2>2, Zenon
<1> HIDE DEF f
<1>2. f[0] = from /\ \A i \in 1 .. MAX_HEIGHTS_PER_POLL : f[i] = IF i > Len(hs) THEN f[i - 1] ELSE polled(blocks, f[i - 1], hs[i])
  <2> DEFINE next(p, i) == IF i > Len(hs) THEN p ELSE polled(blocks, p, hs[i])
             h == [i \in 0 .. MAX_HEIGHTS_PER_POLL |-> IF i = 0 THEN from ELSE next(f[i - 1], i)]
  <2>1. f = h
    BY <1>1, Zenon DEF PollFrom
  <2> HIDE DEF next
  <2>2. h[0] = from /\ \A i \in 1 .. MAX_HEIGHTS_PER_POLL : h[i] = next(f[i - 1], i)
    OBVIOUS
  <2> HIDE DEF h
  <2>3. f[0] = from /\ \A i \in 1 .. MAX_HEIGHTS_PER_POLL : f[i] = next(f[i - 1], i)
    BY <2>1, <2>2
  <2> QED BY <2>3 DEF next
<1> QED BY <1>2 DEF f

OpenFrom(proofs, n, f) ==
    f = [i \in 0 .. n |-> IF i = 0 THEN desk
                          ELSE IF can_open_exit(f[i - 1], proofs[i]) THEN open_exit(f[i - 1], proofs[i]) ELSE f[i - 1]]

\* The desk after some proofs can be computed.
LEMMA OpenExists ==
    ASSUME NEW proofs, NEW n \in Nat
    PROVE  \E f : OpenFrom(proofs, n, f)
<1> DEFINE S == {m \in Nat : \E f : OpenFrom(proofs, m, f)}
<1>1. 0 \in S
  <2>1. OpenFrom(proofs, 0, [i \in 0 .. 0 |-> desk])
    BY DEF OpenFrom
  <2> QED BY <2>1
<1>2. ASSUME NEW m \in S PROVE m + 1 \in S
  <2>1. PICK f : OpenFrom(proofs, m, f)
    OBVIOUS
  <2> DEFINE next(p, i) == IF can_open_exit(p, proofs[i]) THEN open_exit(p, proofs[i]) ELSE p
             g == [i \in 0 .. (m + 1) |-> IF i <= m THEN f[i] ELSE next(f[m], m + 1)]
  <2>2. \A i \in 0 .. m : f[i] = IF i = 0 THEN desk ELSE next(f[i - 1], i)
    BY <2>1 DEF OpenFrom
  <2> HIDE DEF next
  <2>3. \A i \in 0 .. (m + 1) : g[i] = IF i = 0 THEN desk ELSE next(g[i - 1], i)
    BY <2>2
  <2>4. OpenFrom(proofs, m + 1, g)
    <3>1. g = [i \in 0 .. (m + 1) |-> g[i]]
      OBVIOUS
    <3> HIDE DEF g
    <3>2. g = [i \in 0 .. (m + 1) |-> IF i = 0 THEN desk ELSE next(g[i - 1], i)]
      BY <2>3, <3>1
    <3> QED BY <3>2, Zenon DEF OpenFrom, next
  <2> HIDE DEF g
  <2> QED BY <2>4
<1>3. S = Nat
  <2>1. S \in SUBSET Nat
    OBVIOUS
  <2> HIDE DEF S
  <2> QED BY <1>1, <1>2, <2>1, Induct
<1> QED BY <1>3

\* What poll_burns computes, step by step.
LEMMA OpenIs ==
    ASSUME NEW proofs, Len(proofs) \in Nat
    PROVE  /\ poll_burns(proofs)[0] = desk
           /\ \A i \in 1 .. Len(proofs) :
                 poll_burns(proofs)[i] = IF can_open_exit(poll_burns(proofs)[i - 1], proofs[i]) THEN open_exit(poll_burns(proofs)[i - 1], proofs[i]) ELSE poll_burns(proofs)[i - 1]
<1> DEFINE f == poll_burns(proofs)
<1>1. OpenFrom(proofs, Len(proofs), f)
  <2>1. f = CHOOSE g : OpenFrom(proofs, Len(proofs), g)
    BY Zenon DEF poll_burns, OpenFrom
  <2>2. \E g : OpenFrom(proofs, Len(proofs), g)
    BY OpenExists
  <2> HIDE DEF f
  <2> QED BY <2>1, <2>2, Zenon
<1> HIDE DEF f
<1>2. f[0] = desk /\ \A i \in 1 .. Len(proofs) : f[i] = IF can_open_exit(f[i - 1], proofs[i]) THEN open_exit(f[i - 1], proofs[i]) ELSE f[i - 1]
  <2> DEFINE next(p, i) == IF can_open_exit(p, proofs[i]) THEN open_exit(p, proofs[i]) ELSE p
             h == [i \in 0 .. Len(proofs) |-> IF i = 0 THEN desk ELSE next(f[i - 1], i)]
  <2>1. f = h
    BY <1>1, Zenon DEF OpenFrom
  <2> HIDE DEF next
  <2>2. h[0] = desk /\ \A i \in 1 .. Len(proofs) : h[i] = next(f[i - 1], i)
    OBVIOUS
  <2> HIDE DEF h
  <2>3. f[0] = desk /\ \A i \in 1 .. Len(proofs) : f[i] = next(f[i - 1], i)
    BY <2>1, <2>2
  <2> QED BY <2>3 DEF next
<1> QED BY <1>2 DEF f

SettleFrom(d, known, n, f) ==
    f = [i \in 0 .. n |-> IF i = 0 THEN d
                          ELSE settle(f[i - 1], i, known)]

\* The desk after a sweep that settles can be computed.
LEMMA SettleExists ==
    ASSUME NEW d, NEW known, NEW n \in Nat
    PROVE  \E f : SettleFrom(d, known, n, f)
<1> DEFINE S == {m \in Nat : \E f : SettleFrom(d, known, m, f)}
<1>1. 0 \in S
  <2>1. SettleFrom(d, known, 0, [i \in 0 .. 0 |-> d])
    BY DEF SettleFrom
  <2> QED BY <2>1
<1>2. ASSUME NEW m \in S PROVE m + 1 \in S
  <2>1. PICK f : SettleFrom(d, known, m, f)
    OBVIOUS
  <2> DEFINE next(p, i) == settle(p, i, known)
             g == [i \in 0 .. (m + 1) |-> IF i <= m THEN f[i] ELSE next(f[m], m + 1)]
  <2>2. \A i \in 0 .. m : f[i] = IF i = 0 THEN d ELSE next(f[i - 1], i)
    BY <2>1 DEF SettleFrom
  <2> HIDE DEF next
  <2>3. \A i \in 0 .. (m + 1) : g[i] = IF i = 0 THEN d ELSE next(g[i - 1], i)
    BY <2>2
  <2>4. SettleFrom(d, known, m + 1, g)
    <3>1. g = [i \in 0 .. (m + 1) |-> g[i]]
      OBVIOUS
    <3> HIDE DEF g
    <3>2. g = [i \in 0 .. (m + 1) |-> IF i = 0 THEN d ELSE next(g[i - 1], i)]
      BY <2>3, <3>1
    <3> QED BY <3>2, Zenon DEF SettleFrom, next
  <2> HIDE DEF g
  <2> QED BY <2>4
<1>3. S = Nat
  <2>1. S \in SUBSET Nat
    OBVIOUS
  <2> HIDE DEF S
  <2> QED BY <1>1, <1>2, <2>1, Induct
<1> QED BY <1>3

\* What sweep_settle computes, step by step.
LEMMA SettleIs ==
    ASSUME NEW d, NEW known, Len(d.exits) \in Nat
    PROVE  /\ sweep_settle(d, known)[0] = d
           /\ \A i \in 1 .. Len(d.exits) :
                 sweep_settle(d, known)[i] = settle(sweep_settle(d, known)[i - 1], i, known)
<1> DEFINE f == sweep_settle(d, known)
<1>1. SettleFrom(d, known, Len(d.exits), f)
  <2>1. f = CHOOSE g : SettleFrom(d, known, Len(d.exits), g)
    BY Zenon DEF sweep_settle, SettleFrom
  <2>2. \E g : SettleFrom(d, known, Len(d.exits), g)
    BY SettleExists
  <2> HIDE DEF f
  <2> QED BY <2>1, <2>2, Zenon
<1> HIDE DEF f
<1>2. f[0] = d /\ \A i \in 1 .. Len(d.exits) : f[i] = settle(f[i - 1], i, known)
  <2> DEFINE next(p, i) == settle(p, i, known)
             h == [i \in 0 .. Len(d.exits) |-> IF i = 0 THEN d ELSE next(f[i - 1], i)]
  <2>1. f = h
    BY <1>1, Zenon DEF SettleFrom
  <2> HIDE DEF next
  <2>2. h[0] = d /\ \A i \in 1 .. Len(d.exits) : h[i] = next(f[i - 1], i)
    OBVIOUS
  <2> HIDE DEF h
  <2>3. f[0] = d /\ \A i \in 1 .. Len(d.exits) : f[i] = next(f[i - 1], i)
    BY <2>1, <2>2
  <2> QED BY <2>3 DEF next
<1> QED BY <1>2 DEF f

CloseFrom(d, known, n, f) ==
    f = [i \in 0 .. n |-> IF i = 0 THEN d
                          ELSE close_overdue(f[i - 1], i, known)]

\* The desk after a sweep that closes what is overdue can be computed.
LEMMA CloseExists ==
    ASSUME NEW d, NEW known, NEW n \in Nat
    PROVE  \E f : CloseFrom(d, known, n, f)
<1> DEFINE S == {m \in Nat : \E f : CloseFrom(d, known, m, f)}
<1>1. 0 \in S
  <2>1. CloseFrom(d, known, 0, [i \in 0 .. 0 |-> d])
    BY DEF CloseFrom
  <2> QED BY <2>1
<1>2. ASSUME NEW m \in S PROVE m + 1 \in S
  <2>1. PICK f : CloseFrom(d, known, m, f)
    OBVIOUS
  <2> DEFINE next(p, i) == close_overdue(p, i, known)
             g == [i \in 0 .. (m + 1) |-> IF i <= m THEN f[i] ELSE next(f[m], m + 1)]
  <2>2. \A i \in 0 .. m : f[i] = IF i = 0 THEN d ELSE next(f[i - 1], i)
    BY <2>1 DEF CloseFrom
  <2> HIDE DEF next
  <2>3. \A i \in 0 .. (m + 1) : g[i] = IF i = 0 THEN d ELSE next(g[i - 1], i)
    BY <2>2
  <2>4. CloseFrom(d, known, m + 1, g)
    <3>1. g = [i \in 0 .. (m + 1) |-> g[i]]
      OBVIOUS
    <3> HIDE DEF g
    <3>2. g = [i \in 0 .. (m + 1) |-> IF i = 0 THEN d ELSE next(g[i - 1], i)]
      BY <2>3, <3>1
    <3> QED BY <3>2, Zenon DEF CloseFrom, next
  <2> HIDE DEF g
  <2> QED BY <2>4
<1>3. S = Nat
  <2>1. S \in SUBSET Nat
    OBVIOUS
  <2> HIDE DEF S
  <2> QED BY <1>1, <1>2, <2>1, Induct
<1> QED BY <1>3

\* What sweep_slash computes, step by step.
LEMMA CloseIs ==
    ASSUME NEW d, NEW known, Len(d.exits) \in Nat
    PROVE  /\ sweep_slash(d, known)[0] = d
           /\ \A i \in 1 .. Len(d.exits) :
                 sweep_slash(d, known)[i] = close_overdue(sweep_slash(d, known)[i - 1], i, known)
<1> DEFINE f == sweep_slash(d, known)
<1>1. CloseFrom(d, known, Len(d.exits), f)
  <2>1. f = CHOOSE g : CloseFrom(d, known, Len(d.exits), g)
    BY Zenon DEF sweep_slash, CloseFrom
  <2>2. \E g : CloseFrom(d, known, Len(d.exits), g)
    BY CloseExists
  <2> HIDE DEF f
  <2> QED BY <2>1, <2>2, Zenon
<1> HIDE DEF f
<1>2. f[0] = d /\ \A i \in 1 .. Len(d.exits) : f[i] = close_overdue(f[i - 1], i, known)
  <2> DEFINE next(p, i) == close_overdue(p, i, known)
             h == [i \in 0 .. Len(d.exits) |-> IF i = 0 THEN d ELSE next(f[i - 1], i)]
  <2>1. f = h
    BY <1>1, Zenon DEF CloseFrom
  <2> HIDE DEF next
  <2>2. h[0] = d /\ \A i \in 1 .. Len(d.exits) : h[i] = next(f[i - 1], i)
    OBVIOUS
  <2> HIDE DEF h
  <2>3. f[0] = d /\ \A i \in 1 .. Len(d.exits) : f[i] = next(f[i - 1], i)
    BY <2>1, <2>2
  <2> QED BY <2>3 DEF next
<1> QED BY <1>2 DEF f

-----------------------------------------------------------------------------
(* The proofs that a poll finds *)

\* The proofs that can be made of the blocks a node serves.
ProofsOf(node) ==
    {[header |-> finalized_block(node.blocks[h])[1].header,
      certificate |-> finalized_block(node.blocks[h])[1].certificate,
      leaf |-> finalized_block(node.blocks[h])[1].events[k], index |-> k] :
        h \in {g \in DOMAIN node.blocks : finalized_block(node.blocks[g]) # <<>>}, k \in Nat}

IsPoll(node, st) == "proofs" \in DOMAIN st /\ st.proofs \in Seq(ProofsOf(node))

\* assemble makes such proofs.
LEMMA AssembleMakes ==
    ASSUME NEW node \in Nodes, NEW h \in DOMAIN node.blocks,
           finalized_block(node.blocks[h]) # <<>>
    PROVE  assemble(finalized_block(node.blocks[h])[1]) \in Seq(ProofsOf(node))
<1> DEFINE b == finalized_block(node.blocks[h])[1]
           K == {k \in DOMAIN b.events : is_bridge_burn_leaf(b.events[k])}
           of(k) == [header |-> b.header, certificate |-> b.certificate,
                     leaf |-> b.events[k], index |-> k]
<1>1. IsList(b.events)
  BY CommitteeAssumption
<1>2. \A k \in Nat : of(k) \in ProofsOf(node)
  <2>1. h \in {g \in DOMAIN node.blocks : finalized_block(node.blocks[g]) # <<>>}
    OBVIOUS
  <2> QED BY <2>1 DEF ProofsOf
<1> HIDE DEF b
<1>3. (\A k \in K : k \in 1 .. Len(b.events)) /\ Len(b.events) \in Nat
  BY <1>1 DEF IsList
<1>4. assemble(b) = [i \in 1 .. Cardinality(K) |-> of(nth(K, i))]
  BY DEF assemble
<1> HIDE DEF K
<1>5. Cardinality(K) \in Nat /\ \A i \in 1 .. Cardinality(K) : nth(K, i) \in K
  BY <1>3, NthIs
<1>6. \A i \in 1 .. Cardinality(K) : nth(K, i) \in Nat
  BY <1>3, <1>5
<1> HIDE DEF of
<1>7. assemble(b) \in [1 .. Cardinality(K) -> ProofsOf(node)]
  BY <1>2, <1>4, <1>6
<1> QED BY <1>5, <1>7 DEF b

\* So does a poll, whatever the node answers.
LEMMA PollMakes ==
    ASSUME NEW node \in Nodes, NEW from_, NEW anchor
    PROVE  poll(node, from_, anchor).proofs \in Seq(ProofsOf(node))
<1> DEFINE start == [scanned |-> from_, proofs |-> <<>>, on |-> TRUE]
<1>1. IsPoll(node, start)
  <2>1. <<>> \in Seq(ProofsOf(node))
    OBVIOUS
  <2> QED BY <2>1 DEF IsPoll
<1>2. \A st : IsPoll(node, st) => st.proofs \in Seq(ProofsOf(node))
  BY DEF IsPoll
<1>3. ASSUME NEW st, IsPoll(node, st), NEW height
      PROVE  IsPoll(node, polled(node.blocks, st, height))
  <2>1. "proofs" \in DOMAIN st /\ st.proofs \in Seq(ProofsOf(node))
    BY <1>3 DEF IsPoll
  <2> DEFINE b == IF height \in DOMAIN node.blocks THEN finalized_block(node.blocks[height]) ELSE <<>>
             all == st.proofs \o assemble(b[1])
  <2>2. CASE ~st.on
    <3>1. polled(node.blocks, st, height) = st
      BY <2>2 DEF polled
    <3> QED BY <1>3, <3>1
  <2>3. CASE st.on /\ (b = <<>> \/ ~served_matches_header(b[1], height))
    <3>1. polled(node.blocks, st, height) = [st EXCEPT !.on = FALSE]
      BY <2>3 DEF polled
    <3>2. /\ DOMAIN [st EXCEPT !.on = FALSE] = DOMAIN st
          /\ [st EXCEPT !.on = FALSE].proofs = st.proofs
      BY <2>1
    <3> QED BY <2>1, <3>1, <3>2 DEF IsPoll
  <2>4. CASE st.on /\ ~(b = <<>> \/ ~served_matches_header(b[1], height))
    <3>1. height \in DOMAIN node.blocks /\ b = finalized_block(node.blocks[height]) /\ b # <<>>
      BY <2>4
    <3>2. polled(node.blocks, st, height) =
             [scanned |-> height, proofs |-> all, on |-> Len(all) < MAX_BURNS_PER_POLL]
      BY <2>4 DEF polled
    <3>3. assemble(b[1]) \in Seq(ProofsOf(node))
      BY <3>1, AssembleMakes
    <3>4. all \in Seq(ProofsOf(node))
      BY <2>1, <3>3
    <3> HIDE DEF all
    <3> QED BY <3>2, <3>4 DEF IsPoll
  <2> QED BY <2>2, <2>3, <2>4
<1>4. ASSUME NEW hs
      PROVE  IsPoll(node, poll_each(node.blocks, start, hs)[MAX_HEIGHTS_PER_POLL])
  <2> DEFINE f == poll_each(node.blocks, start, hs)
             S == {i \in 0 .. MAX_HEIGHTS_PER_POLL : IsPoll(node, f[i])}
  <2>0. MAX_HEIGHTS_PER_POLL \in Nat
    BY NumberAssumption
  <2>1. /\ f[0] = start
        /\ \A i \in 1 .. MAX_HEIGHTS_PER_POLL :
              f[i] = IF i > Len(hs) THEN f[i - 1] ELSE polled(node.blocks, f[i - 1], hs[i])
    BY <2>0, PollIs
  <2> HIDE DEF f, start
  <2>2. 0 \in S
    BY <1>1, <2>0, <2>1
  <2>3. ASSUME NEW i \in 0 .. (MAX_HEIGHTS_PER_POLL - 1), i \in S PROVE i + 1 \in S
    <3>1. i + 1 \in 1 .. MAX_HEIGHTS_PER_POLL /\ (i + 1) - 1 = i /\ IsPoll(node, f[i])
      BY <2>0, <2>3
    <3>2. f[i + 1] = IF i + 1 > Len(hs) THEN f[i] ELSE polled(node.blocks, f[i], hs[i + 1])
      BY <2>1, <3>1
    <3>3. IsPoll(node, f[i + 1])
      BY <1>3, <3>1, <3>2
    <3> QED BY <2>0, <3>1, <3>3
  <2>4. \A i \in 0 .. MAX_HEIGHTS_PER_POLL : i \in S
    <3> HIDE DEF S
    <3> QED BY <2>0, <2>2, <2>3, InductTo
  <2>5. MAX_HEIGHTS_PER_POLL \in S
    BY <2>0, <2>4
  <2> QED BY <2>5 DEF f
<1>5. \A x : [start EXCEPT !.scanned = x].proofs = <<>>
  OBVIOUS
<1> QED
  <2> DEFINE head == finalized_height(node.head, anchor)
             heights == burn_heights_after(node.heights)
             ask == asked(heights[1], from_, head[1])
  <2>1. poll(node, from_, anchor) =
           IF head = <<>> \/ head[1] <= from_ \/ heights = <<>> THEN start
           ELSE IF ask = <<>> THEN [start EXCEPT !.scanned = head[1]]
           ELSE poll_each(node.blocks, start, ask)[MAX_HEIGHTS_PER_POLL]
    BY DEF poll
  <2>2. start.proofs \in Seq(ProofsOf(node)) /\ <<>> \in Seq(ProofsOf(node))
    BY <1>1, <1>2
  <2> HIDE DEF head, heights, ask, start
  <2> QED BY <1>2, <1>4, <1>5, <2>1, <2>2

-----------------------------------------------------------------------------
(* What the configuration and a certificate are worth *)

Configured == env \in Envs /\ parse_exit_config(env) = "read" /\ starts_exits(cfg)

\* A configuration that was read has these numbers.
LEMMA ConfigFacts ==
    ASSUME Configured
    PROVE  /\ cfg.tau \in Nat
           /\ cfg.max_exit_amount \in Nat /\ cfg.max_exit_amount # 0
           /\ cfg.bitcoin # <<>> /\ cfg.bitcoin[1].confirmations \in Nat
           /\ 2 * Btc!confirmations_for(cfg.max_exit_amount, cfg.bitcoin[1].confirmations)
                * params.target_spacing <= REDEEM_WINDOW
<1>1. reads_exit_config(env)
  BY DEF Configured, parse_exit_config
<1>2. cfg.tau \in Nat
  <2>1. cfg.tau = env.TAU[2]
    BY DEF cfg, ExitTrustConfig
  <2>2. is_number(env.TAU, MAX_U64)
    BY <1>1 DEF reads_exit_config
  <2>3. env.TAU[2] \in 0 .. MAX_U64 /\ MAX_U64 \in Nat
    BY <2>2, NumberAssumption DEF is_number
  <2> QED BY <2>1, <2>3
<1>3. cfg.max_exit_amount \in Nat /\ cfg.max_exit_amount # 0
  <2>1. cfg.max_exit_amount = opt_u128(env.MAX_AMOUNT, 0)
    BY DEF cfg, ExitTrustConfig
  <2>2. opt_u128_reads(env.MAX_AMOUNT) /\ opt_u128(env.MAX_AMOUNT, 0) # 0
    BY <1>1 DEF reads_exit_config
  <2>3. env.MAX_AMOUNT[1] # "absent"
    BY <2>2 DEF opt_u128
  <2>4. env.MAX_AMOUNT[2] \in 0 .. MAX_U128 /\ MAX_U128 \in Nat
    BY <2>2, <2>3, NumberAssumption DEF is_number, opt_u128_reads
  <2> QED BY <2>1, <2>2, <2>3, <2>4 DEF opt_u128
<1>4. cfg.bitcoin # <<>>
  BY DEF Configured, starts_exits
<1>5. cfg.bitcoin = parse_bitcoin(env.BITCOIN)
  BY DEF cfg, ExitTrustConfig
<1>6. req(env.BITCOIN)
  BY <1>4, <1>5 DEF parse_bitcoin
<1>7. cfg.bitcoin[1].confirmations = env.BITCOIN[2][1][4][2]
  BY <1>5, <1>6 DEF parse_bitcoin
<1>8. is_number(env.BITCOIN[2][1][4], MAX_U32)
  BY <1>1, <1>6 DEF reads_exit_config, parses_bitcoin
<1>9. cfg.bitcoin[1].confirmations \in Nat
  BY <1>7, <1>8, NumberAssumption DEF is_number
<1>10. window_covers_the_largest_exit(cfg, params.target_spacing)
  BY DEF Configured, starts_exits
<1> QED BY <1>2, <1>3, <1>4, <1>9, <1>10 DEF window_covers_the_largest_exit

\* A quorum has an honest member in it: what it certifies is finalized.
LEMMA CertifiedIsFinal ==
    ASSUME Configured, NEW c, SignedInGoodFaith(c), finalized(c, build_anchor(cfg))
    PROVE  c.envelope.block.val \in Finalized[cfg.genesis_hash]
<1> DEFINE a == build_anchor(cfg)
           Ids == {id \in attesters(c) :
                     \E i \in DOMAIN c.attestations : /\ c.attestations[i].from = id
                                                      /\ signs(c.attestations[i], c.envelope, a)}
           F == Faulty(cfg)
           Of == {m.id : m \in F}
<1>1. Cardinality(Ids) >= cfg.tau
  BY DEF finalized, verify_with_trusted_commitment, build_anchor, from_config
<1>2. IsFiniteSet(F) /\ Cardinality(F) < cfg.tau /\ Cardinality(F) \in Nat /\ cfg.tau \in Nat
  BY CommitteeAssumption, ConfigFacts, FS_CardinalityType DEF Configured, cfg
<1>3. IsFiniteSet(Of) /\ Cardinality(Of) <= Cardinality(F) /\ Cardinality(Of) \in Nat
  <2> HIDE DEF F
  <2>1. [m \in F |-> m.id] \in Surjection(F, Of)
    BY DEF Surjection
  <2> QED BY <1>2, <2>1, FS_Surjection, FS_CardinalityType
<1>4. ~(Ids \subseteq Of)
  <2> SUFFICES ASSUME Ids \subseteq Of PROVE FALSE
    OBVIOUS
  <2> HIDE DEF Ids, Of, F
  <2>1. IsFiniteSet(Ids) /\ Cardinality(Ids) <= Cardinality(Of) /\ Cardinality(Ids) \in Nat
    BY <1>3, FS_Subset, FS_CardinalityType
  <2> QED BY <1>1, <1>2, <1>3, <2>1
<1>5. PICK i \in DOMAIN c.attestations :
         c.attestations[i].from \notin Of /\ signs(c.attestations[i], c.envelope, a)
  BY <1>4
<1>6. PICK m \in Range(cfg.members) :
         /\ m.id = c.attestations[i].from
         /\ c.attestations[i].sig = [key |-> m.attest_pk, says |-> c.envelope, on |-> binding(a),
                                     beacon |-> a.beacon]
  BY <1>5 DEF signs, commitment_at, build_anchor, from_config
<1>7. m.attest_pk \in HonestMembers
  BY <1>5, <1>6 DEF Faulty
<1>8. c.envelope.block.val \in Finalized[binding(a).genesis]
  BY <1>6, <1>7 DEF SignedInGoodFaith
<1> QED BY <1>8 DEF binding, build_anchor, from_config

-----------------------------------------------------------------------------
(* Exits *)

\* A burn that a chain finalized.
IsBurn(c, name, i) ==
    /\ name \in Finalized[c.genesis_hash] /\ name \in DOMAIN QBlocks
    /\ i \in DOMAIN QBlocks[name].events
    /\ LET leaf == QBlocks[name].events[i]
       IN  /\ leaf.contract = "qtv/native" /\ leaf.selector = "QBBN" /\ leaf.data.is = "burn"
           /\ leaf.data.burn_ref = derived(leaf.data, c.genesis_hash)
           /\ leaf.data.dest_chain = c.chain_id

StatementOf(c, name, i) ==
    LET data == QBlocks[name].events[i].data
    IN  [corridor |-> c.corridor, asset_id |-> data.asset_id, amount |-> data.amount,
         holder |-> data.holder, destination |-> data.destination, burn_ref |-> data.burn_ref,
         finalized_height |-> QBlocks[name].height]

Statements(c) ==
    UNION {{StatementOf(c, name, i) : i \in {k \in Nat : IsBurn(c, name, k)}} :
              name \in DOMAIN QBlocks}

ExitRecords(c) ==
    [statement: Statements(c), state: {"Pending", "Settled", "Slashed"},
     issued_at: Nat, deadline: Nat]

\* What a statement is of.
LEMMA StatementFacts ==
    ASSUME NEW c, NEW s \in Statements(c)
    PROVE  /\ s.amount \in Nat
           /\ \E name \in DOMAIN QBlocks, i \in Nat : IsBurn(c, name, i) /\ s = StatementOf(c, name, i)
<1>1. PICK name \in DOMAIN QBlocks, i \in Nat : IsBurn(c, name, i) /\ s = StatementOf(c, name, i)
  BY DEF Statements
<1>2. s.amount = QBlocks[name].events[i].data.amount
  BY <1>1 DEF StatementOf
<1>3. s.amount \in Nat
  BY <1>1, <1>2, NumberAssumption DEF IsBurn
<1> QED BY <1>1, <1>3

\* The burn of a proof that is accepted is of the chain.
LEMMA OpenedIsBurn ==
    ASSUME Configured, NEW node \in Nodes, NEW p \in ProofsOf(node), NEW d, can_open_exit(d, p)
    PROVE  /\ p.index \in Nat /\ IsBurn(cfg, p.header.name, p.index)
           /\ p.leaf = QBlocks[p.header.name].events[p.index]
           /\ p.leaf.data.amount <= cfg.max_exit_amount
           /\ p.leaf.data.burn_ref \notin d.consumed
<1> DEFINE a == build_anchor(cfg)
<1>1. verifies_burn(p, a) /\ verify_burn(p).dest_chain = a.chain_id
      /\ (cfg.max_exit_amount > 0 => verify_burn(p).amount <= cfg.max_exit_amount)
      /\ verify_burn(p).burn_ref \notin d.consumed
  BY DEF can_open_exit
<1>2. PICK h \in DOMAIN node.blocks, k \in Nat :
         /\ finalized_block(node.blocks[h]) # <<>>
         /\ p = [header |-> finalized_block(node.blocks[h])[1].header,
                 certificate |-> finalized_block(node.blocks[h])[1].certificate,
                 leaf |-> finalized_block(node.blocks[h])[1].events[k], index |-> k]
  BY DEF ProofsOf
<1>3. SignedInGoodFaith(p.certificate) /\ p.index \in Nat
  BY <1>2, CommitteeAssumption
<1>4. p.certificate.envelope.block.val \in Finalized[cfg.genesis_hash]
  BY <1>1, <1>3, CertifiedIsFinal DEF verifies_burn
<1>5. p.header.name \in Finalized[cfg.genesis_hash] /\ p.header.name \in DOMAIN QBlocks
  BY <1>1, <1>4 DEF verifies_burn, certifies, header_decodes
<1>6. p.leaf = QBlocks[p.header.name].events[p.index]
      /\ p.index \in DOMAIN QBlocks[p.header.name].events
      /\ parses_burn_leaf(p.leaf, cfg.genesis_hash)
  BY <1>1 DEF verifies_burn, build_anchor, from_config
<1>7. p.leaf.data.dest_chain = cfg.chain_id
  BY <1>1 DEF verify_burn, build_anchor, from_config
<1>8. IsBurn(cfg, p.header.name, p.index)
  BY <1>5, <1>6, <1>7 DEF IsBurn, parses_burn_leaf, is_bridge_burn_leaf
<1>9. p.leaf.data.amount <= cfg.max_exit_amount /\ p.leaf.data.burn_ref \notin d.consumed
  BY <1>1, ConfigFacts DEF verify_burn
<1> QED BY <1>3, <1>6, <1>8, <1>9

-----------------------------------------------------------------------------
(* What a proof of a payout is worth *)

\* The greater of two numbers.
LEMMA MaxOfTwo ==
    ASSUME NEW a \in Int, NEW b \in Int
    PROVE  /\ Max({a, b}) \in {a, b} /\ Max({a, b}) >= a /\ Max({a, b}) >= b
           /\ Btc!Max({a, b}) = Max({a, b})
<1>1. \E x \in {a, b} : \A y \in {a, b} : x >= y
  <2>1. CASE a >= b
    BY <2>1
  <2>2. CASE b >= a
    BY <2>2
  <2> QED BY <2>1, <2>2
<1>2. Max({a, b}) \in {a, b} /\ \A y \in {a, b} : Max({a, b}) >= y
  BY <1>1 DEF Max
<1> QED BY <1>2 DEF Max, Btc!Max

\* Of half bitcoins that are begun: a larger amount has no fewer.
LEMMA HalvesGrow ==
    ASSUME NEW h \in Nat \ {0}, NEW a \in Nat, NEW b \in Nat, a <= b
    PROVE  /\ (a + h - 1) \div h \in Nat /\ (b + h - 1) \div h \in Nat
           /\ (a + h - 1) \div h <= (b + h - 1) \div h
  OBVIOUS

\* A larger payout waits for no fewer blocks, and none for fewer than the base.
LEMMA ConfirmationsGrow ==
    ASSUME NEW a \in Nat, NEW b \in Nat, a <= b, NEW base \in Nat
    PROVE  /\ Btc!confirmations_for(a, base) \in Nat /\ Btc!confirmations_for(b, base) \in Nat
           /\ Btc!confirmations_for(a, base) >= base
           /\ Btc!confirmations_for(a, base) <= Btc!confirmations_for(b, base)
<1> DEFINE x == (a + HALF_BTC - 1) \div HALF_BTC
           y == (b + HALF_BTC - 1) \div HALF_BTC
<1>1. x \in Nat /\ y \in Nat /\ x <= y
  BY HalvesGrow, NumberAssumption
<1>2. /\ Btc!confirmations_for(a, base) = Btc!Max({base, x})
      /\ Btc!confirmations_for(b, base) = Btc!Max({base, y})
  BY DEF Btc!confirmations_for
<1> HIDE DEF x, y
<1>3. ASSUME NEW v \in Nat
      PROVE  /\ Btc!Max({base, v}) \in {base, v}
             /\ Btc!Max({base, v}) >= base /\ Btc!Max({base, v}) >= v
  <2>1. base \in Int /\ v \in Int
    OBVIOUS
  <2> QED BY <2>1, MaxOfTwo
<1> QED BY <1>1, <1>2, <1>3

\* The two names of the operators on trees.
LEMMA SameTrees ==
    ASSUME NEW t, NEW x, NEW b
    PROVE  /\ Btc!merkle_root(t) = merkle_root(t)
           /\ Btc!fold_merkle_branch(x, b) = fold_merkle_branch(x, b)
  BY Zenon DEF Btc!merkle_root, merkle_root, Btc!levels, levels, Btc!pair_up, pair_up,
               Btc!Pair, Pair, Btc!fold_merkle_branch, fold_merkle_branch, Btc!climb, climb,
               Btc!fold_step, fold_step

\* The ids of a block's transactions are a list.
LEMMA TreeIsList ==
    ASSUME NEW b, IsList(Blocks[b].txs)
    PROVE  /\ IsSeq(Btc!TreeOf(b)) /\ Len(Btc!TreeOf(b)) = Len(Blocks[b].txs)
           /\ DOMAIN Btc!TreeOf(b) = DOMAIN Blocks[b].txs
           /\ \A i \in DOMAIN Blocks[b].txs : Btc!TreeOf(b)[i] = Btc!txid(Blocks[b].txs[i])
<1> DEFINE txs == Blocks[b].txs
           t == Btc!TreeOf(b)
           n == Len(txs)
           S == {Btc!txid(txs[i]) : i \in 1 .. n}
<1>1. n \in Nat /\ DOMAIN txs = 1 .. n
  BY DEF IsList
<1>2. t = [i \in DOMAIN txs |-> Btc!txid(txs[i])]
  BY DEF Btc!TreeOf
<1>3. DOMAIN t = 1 .. n /\ \A i \in 1 .. n : t[i] = Btc!txid(txs[i])
  <2> HIDE DEF t, txs
  <2> QED BY <1>1, <1>2
<1>4. t \in [1 .. n -> S]
  <2> HIDE DEF t, txs, n
  <2> QED BY <1>1, <1>2
<1>5. t \in Seq(S) /\ Len(t) = n
  <2> HIDE DEF t, n, S
  <2> QED BY <1>1, <1>4
<1> QED BY <1>1, <1>3, <1>5 DEF IsSeq

\* The id of a transaction that is not of 64 bytes is its own.
LEMMA IdIsOwn ==
    ASSUME NEW t, Txs[t].halves = <<>>
    PROVE  /\ Btc!txid(t) = [tx |-> t]
           /\ \A l, r : Btc!txid(t) # Pair(l, r)
           /\ \A u : Btc!txid(u) = Btc!txid(t) => u = t
<1>1. Btc!txid(t) = [tx |-> t]
  BY DEF Btc!txid
<1>2. \A l, r : [tx |-> t] # [left |-> l, right |-> r]
  <2> TAKE l, r
  <2>1. DOMAIN [tx |-> t] = {"tx"} /\ DOMAIN [left |-> l, right |-> r] = {"left", "right"}
    OBVIOUS
  <2>2. "left" \notin {"tx"}
    OBVIOUS
  <2> QED BY <2>1, <2>2
<1>3. ASSUME NEW u, Btc!txid(u) = Btc!txid(t) PROVE u = t
  <2>1. Txs[u].halves = <<>>
    <3> SUFFICES ASSUME Txs[u].halves # <<>> PROVE FALSE
      OBVIOUS
    <3>1. Btc!txid(u) = [left |-> Txs[u].halves[1], right |-> Txs[u].halves[2]]
      BY DEF Btc!txid, Btc!Pair
    <3> QED BY <1>1, <1>2, <1>3, <3>1
  <2>2. Btc!txid(u) = [tx |-> u]
    BY <2>1 DEF Btc!txid
  <2>3. [tx |-> u].tx = u /\ [tx |-> t].tx = t
    OBVIOUS
  <2> QED BY <1>1, <1>3, <2>2, <2>3
<1> QED BY <1>1, <1>2, <1>3 DEF Pair

\* A payout that is proven is a transaction of the main chain.
LEMMA ReleaseIsMined ==
    ASSUME Configured, NEW r \in Releases, NEW to, NEW amount \in Nat,
           verifies_release(r, cfg.bitcoin[1], cfg.bitcoin[1].confirmations, to, amount)
    PROVE  \E b \in MainChain : r.tx \in Range(Blocks[b].txs)
<1> DEFINE point == cfg.bitcoin[1]
           chain == Btc!verify_chain(r.headers, r.start_height)
           depth == Btc!confirmations_for(amount, point.confirmations)
           b == Btc!header_at(chain, r.height)
           t == Btc!TreeOf(b)
           x == Btc!txid(r.tx)
           y == Btc!txid(r.coinbase)
<1>1. /\ params.requires_pinned_checkpoint => Btc!checkpoint_is_pinned(point)
      /\ Btc!can_verify_chain(r.headers, r.start_height)
      /\ Btc!anchored_to(chain, point)
      /\ Btc!can_parse(r.coinbase) /\ Btc!can_parse(r.tx)
      /\ \A i \in DOMAIN r.coinbase_branch : ~r.coinbase_branch[i].sibling_on_left
      /\ Btc!verify_deposit(chain, r.height, y, r.coinbase_branch, depth)
      /\ Len(r.branch) = Len(r.coinbase_branch)
      /\ Btc!verify_deposit(chain, r.height, x, r.branch, depth)
  BY Zenon DEF verifies_release, names_a_burn
<1>2. cfg.bitcoin # <<>> /\ point.confirmations \in Nat
  BY ConfigFacts
<1>3. depth \in Nat /\ depth >= point.confirmations
  <2>1. amount <= amount
    OBVIOUS
  <2> HIDE DEF point
  <2> QED BY <1>2, <2>1, ConfirmationsGrow
<1> HIDE DEF point, depth
<1>4. /\ Btc!has_height(chain, r.height) /\ Btc!confirmations(chain, r.height) >= depth
      /\ Btc!fold_merkle_branch(x, r.branch) = Btc!merkle_root(t)
      /\ Btc!fold_merkle_branch(y, r.coinbase_branch) = Btc!merkle_root(t)
  BY <1>1 DEF Btc!verify_deposit
<1>5. Btc!confirmations(chain, r.height) \in Int
  <2>1. chain.tip_height = r.start_height + Len(r.headers) - 1
    BY DEF Btc!verify_chain
  <2>2. r.start_height \in Nat /\ Len(r.headers) \in Nat /\ r.height \in Nat
    BY NumberAssumption DEF IsList
  <2> HIDE DEF chain
  <2> QED BY <2>1, <2>2 DEF Btc!confirmations
<1>6. Btc!confirmations(chain, r.height) >= point.confirmations
  <2> HIDE DEF chain
  <2> QED BY <1>2, <1>3, <1>4, <1>5
<1>7. b \in MainChain
  BY <1>1, <1>2, <1>4, <1>6, WorkAssumption, Zenon DEF Configured, cfg, point
<1> HIDE DEF b, chain
<1>8. IsList(Blocks[b].txs) /\ Blocks[b].txs # <<>> /\ Txs[Blocks[b].txs[1]].halves = <<>>
  BY <1>7, CoinbaseAssumption
<1>9. /\ IsSeq(t) /\ Len(t) = Len(Blocks[b].txs) /\ DOMAIN t = DOMAIN Blocks[b].txs
      /\ \A i \in DOMAIN Blocks[b].txs : t[i] = Btc!txid(Blocks[b].txs[i])
  BY <1>8, TreeIsList
<1>10. Len(t) # 0 /\ 1 \in DOMAIN Blocks[b].txs
  BY <1>8, <1>9 DEF IsList
<1>11. Txs[r.tx].halves = <<>> /\ Txs[r.coinbase].halves = <<>>
  BY <1>1, Zenon DEF Btc!can_parse
<1>12. \A l, q : t[1] # Pair(l, q) /\ y # Pair(l, q)
  <2>1. t[1] = Btc!txid(Blocks[b].txs[1])
    BY <1>9, <1>10
  <2> QED BY <1>8, <1>11, <2>1, IdIsOwn
<1>13. fold_merkle_branch(x, r.branch) = merkle_root(t)
       /\ fold_merkle_branch(y, r.coinbase_branch) = merkle_root(t)
  BY <1>4, SameTrees
<1>14. IsSeq(r.branch) /\ IsSeq(r.coinbase_branch)
  BY NumberAssumption DEF IsList, IsSeq
<1> HIDE DEF t, y, x
<1>15. \E i \in DOMAIN t : x = t[i]
  BY <1>1, <1>9, <1>10, <1>12, <1>13, <1>14, LeafOpened
<1>16. PICK i \in DOMAIN Blocks[b].txs : Btc!txid(Blocks[b].txs[i]) = Btc!txid(r.tx)
  BY <1>9, <1>15 DEF x
<1>17. r.tx = Blocks[b].txs[i]
  BY <1>11, <1>16, IdIsOwn
<1> QED BY <1>7, <1>16, <1>17 DEF Range

Paid(s) == \E b \in MainChain : \E t \in Range(Blocks[b].txs) : PaysFor(t, s)

\* What is attested is paid, on the main chain.
LEMMA AttestedIsPaid ==
    ASSUME Configured, NEW r \in Releases, NEW asset, NEW s, s.amount \in Nat,
           attests(r, asset, s)
    PROVE  Paid(s)
<1> DEFINE tx == Txs[r.tx]
           P == {i \in words(tx, "OP_1") : /\ tx.outputs[i].script.to = s.destination
                                           /\ tx.outputs[i].value = s.amount}
           R == words(tx, "OP_RETURN")
<1>1. /\ verifies_release(r, cfg.bitcoin[1], cfg.bitcoin[1].confirmations,
                          s.destination, s.amount)
      /\ names_a_burn(r) /\ release_reference(tx) = s.burn_ref
  BY DEF attests
<1>2. PICK b \in MainChain : r.tx \in Range(Blocks[b].txs)
  BY <1>1, ReleaseIsMined
<1>3. has_payout_value(tx, s.destination, s.amount) /\ has_release_reference(tx)
  BY <1>1, Zenon DEF verifies_release, names_a_burn
<1>4. Cardinality(P) = 1 /\ Cardinality(R) = 1
  BY <1>3 DEF has_payout_value, has_release_reference
<1>5. P # {} /\ R # {}
  <2> HIDE DEF P, R
  <2> QED BY <1>4, FS_EmptySet
<1>6. \E i \in DOMAIN tx.outputs : /\ tx.outputs[i].script.is = "OP_1"
                                   /\ tx.outputs[i].script.to = s.destination
                                   /\ tx.outputs[i].value = s.amount
  BY <1>5, Zenon DEF words
<1>7. \E i \in DOMAIN tx.outputs : /\ tx.outputs[i].script.is = "OP_RETURN"
                                   /\ tx.outputs[i].script.to = s.burn_ref
  <2>1. (CHOOSE i \in R : TRUE) \in R /\ tx.outputs[CHOOSE i \in R : TRUE].script.to = s.burn_ref
    BY <1>1, <1>5 DEF release_reference
  <2> QED BY <2>1 DEF words
<1>8. PaysFor(r.tx, s)
  BY <1>6, <1>7, Zenon DEF PaysFor
<1> QED BY <1>2, <1>8 DEF Paid

-----------------------------------------------------------------------------
(* The desk *)

\* An exit as the desk may hold it.
GoodExits(c) ==
    {e \in ExitRecords(c) : /\ e.deadline = e.issued_at + REDEEM_WINDOW
                            /\ e.statement.amount <= c.max_exit_amount
                            /\ e.state = "Settled" => Paid(e.statement)}

DeskOK(c, d) ==
    /\ d = [exits |-> d.exits, consumed |-> d.consumed]
    /\ d.exits \in Seq(GoodExits(c))
    /\ \A i \in DOMAIN d.exits : d.exits[i].statement.burn_ref \in d.consumed
    /\ \A i, k \in DOMAIN d.exits :
          d.exits[i].statement.burn_ref = d.exits[k].statement.burn_ref => i = k

\* What a desk becomes: every exit keeps its place, and its verdict if it has one.
Grows(d, e) ==
    \A i \in DOMAIN d.exits :
        i \in DOMAIN e.exits /\ (d.exits[i].state # "Pending" => e.exits[i] = d.exits[i])

\* Exits are kept along several steps.
LEMMA GrowsOn ==
    ASSUME NEW d, NEW e, NEW f, Grows(d, e), Grows(e, f)
    PROVE  Grows(d, f)
  BY DEF Grows

\* A verdict on an open exit, as settle and slash give it.
LEMMA Decided ==
    ASSUME NEW c, NEW d, DeskOK(c, d), NEW i \in DOMAIN d.exits, d.exits[i].state = "Pending",
           NEW verdict \in {"Settled", "Slashed"},
           verdict = "Settled" => Paid(d.exits[i].statement),
           NEW more, d.consumed \subseteq more,
           NEW e, e = [exits |-> [d.exits EXCEPT ![i].state = verdict], consumed |-> more]
    PROVE  DeskOK(c, e) /\ Grows(d, e) /\ Len(e.exits) = Len(d.exits)
<1> DEFINE s == d.exits
           x == [s[i] EXCEPT !.state = verdict]
           t == [s EXCEPT ![i] = x]
<1>1. s \in Seq(GoodExits(c)) /\ s[i] \in GoodExits(c)
  BY DEF DeskOK
<1>2. e.exits = t /\ e.consumed = more /\ e = [exits |-> e.exits, consumed |-> e.consumed]
  OBVIOUS
<1>3. x \in ExitRecords(c) /\ x.statement = s[i].statement /\ x.issued_at = s[i].issued_at
      /\ x.deadline = s[i].deadline /\ x.state = verdict
  BY <1>1 DEF GoodExits, ExitRecords
<1>4. x \in GoodExits(c)
  <2> HIDE DEF x
  <2> QED BY <1>1, <1>3 DEF GoodExits
<1> HIDE DEF x
<1>5. t \in Seq(GoodExits(c)) /\ Len(t) = Len(s) /\ DOMAIN t = DOMAIN s
  BY <1>1, <1>4
<1>6. \A k \in DOMAIN s : t[k] = IF k = i THEN x ELSE s[k]
  BY <1>1
<1>7. \A k \in DOMAIN s : t[k].statement = s[k].statement
  BY <1>3, <1>6
<1> HIDE DEF t
<1>8. DeskOK(c, e)
  <2>1. \A k \in DOMAIN t : t[k].statement.burn_ref \in more
    BY <1>5, <1>7, Zenon DEF DeskOK
  <2>2. \A j, k \in DOMAIN t : t[j].statement.burn_ref = t[k].statement.burn_ref => j = k
    BY <1>5, <1>7, Zenon DEF DeskOK
  <2> QED BY <1>2, <1>5, <2>1, <2>2 DEF DeskOK
<1>9. Grows(d, e)
  BY <1>2, <1>5, <1>6 DEF Grows
<1> QED BY <1>2, <1>5, <1>8, <1>9

\* settle gives a verdict on an exit that is paid, or leaves the desk alone.
LEMMA SettleStep ==
    ASSUME Configured, NEW d, DeskOK(cfg, d), NEW i \in DOMAIN d.exits,
           NEW known \in Seq(Releases)
    PROVE  LET e == settle(d, i, known)
           IN  DeskOK(cfg, e) /\ Grows(d, e) /\ Len(e.exits) = Len(d.exits)
<1> DEFINE s == d.exits[i].statement
           refs == UNION {settles(d, i, known, asset) : asset \in cfg.assets}
<1>1. CASE d.exits[i].state # "Pending" \/ refs = {}
  <2>1. settle(d, i, known) = d
    BY <1>1 DEF settle
  <2> QED BY <2>1 DEF Grows
<1>2. CASE d.exits[i].state = "Pending" /\ refs # {}
  <2>1. settle(d, i, known) = [exits |-> [d.exits EXCEPT ![i].state = "Settled"],
                               consumed |-> d.consumed \cup refs]
    BY <1>2 DEF settle
  <2>2. PICK asset \in cfg.assets : settles(d, i, known, asset) # {}
    BY <1>2
  <2>3. attest(known, asset, s) # {}
    BY <2>2 DEF settles
  <2>4. PICK k \in DOMAIN known : attests(known[k], asset, s)
    BY <2>3 DEF attest
  <2>5. s.amount \in Nat
    <3>1. d.exits[i] \in GoodExits(cfg)
      BY DEF DeskOK
    <3>2. s \in Statements(cfg)
      BY <3>1 DEF GoodExits, ExitRecords
    <3> HIDE DEF s
    <3> QED BY <3>2, StatementFacts
  <2>6. Paid(s)
    <3>1. known[k] \in Releases
      OBVIOUS
    <3> HIDE DEF s
    <3> QED BY <2>4, <2>5, <3>1, AttestedIsPaid
  <2>7. d.consumed \subseteq d.consumed \cup refs
    OBVIOUS
  <2> DEFINE more == d.consumed \cup refs
             e == settle(d, i, known)
  <2>8. e = [exits |-> [d.exits EXCEPT ![i].state = "Settled"], consumed |-> more]
    BY <2>1
  <2>9. d.consumed \subseteq more /\ "Settled" \in {"Settled", "Slashed"}
    BY <2>7
  <2> HIDE DEF more, e
  <2>10. DeskOK(cfg, e) /\ Grows(d, e) /\ Len(e.exits) = Len(d.exits)
    BY <1>2, <2>6, <2>8, <2>9, Decided
  <2> QED BY <2>10 DEF e
<1> QED BY <1>1, <1>2

\* slash gives the other verdict.
LEMMA SlashStep ==
    ASSUME NEW c, NEW d, DeskOK(c, d), NEW i \in DOMAIN d.exits
    PROVE  LET e == slash(d, i)
           IN  DeskOK(c, e) /\ Grows(d, e) /\ Len(e.exits) = Len(d.exits)
<1>1. CASE ~(d.exits[i].state = "Pending" /\ clock > slash_opens_at(d.exits[i]))
  <2>1. slash(d, i) = d
    BY <1>1 DEF slash
  <2> QED BY <2>1 DEF Grows
<1>2. CASE d.exits[i].state = "Pending" /\ clock > slash_opens_at(d.exits[i])
  <2> DEFINE t == [d.exits EXCEPT ![i].state = "Slashed"]
  <2>1. slash(d, i) = [d EXCEPT !.exits = t]
    BY <1>2 DEF slash
  <2>2. d = [exits |-> d.exits, consumed |-> d.consumed]
    BY DEF DeskOK
  <2>3. [d EXCEPT !.exits = t] = [exits |-> t, consumed |-> d.consumed]
    <3> HIDE DEF t
    <3> QED BY <2>2
  <2>4. slash(d, i) = [exits |-> t, consumed |-> d.consumed]
    BY <2>1, <2>3
  <2> QED BY <1>2, <2>4, Decided
<1> QED BY <1>1, <1>2

\* So do both, one after the other.
LEMMA CloseStep ==
    ASSUME Configured, NEW d, DeskOK(cfg, d), NEW i \in DOMAIN d.exits,
           NEW known \in Seq(Releases)
    PROVE  LET e == close_overdue(d, i, known)
           IN  DeskOK(cfg, e) /\ Grows(d, e) /\ Len(e.exits) = Len(d.exits)
<1> DEFINE m == settle(d, i, known)
<1>1. DeskOK(cfg, m) /\ Grows(d, m) /\ Len(m.exits) = Len(d.exits)
  BY SettleStep
<1>2. i \in DOMAIN m.exits
  BY <1>1 DEF DeskOK, Grows
<1> HIDE DEF m
<1>3. DeskOK(cfg, slash(m, i)) /\ Grows(m, slash(m, i)) /\ Len(slash(m, i).exits) = Len(m.exits)
  BY <1>1, <1>2, SlashStep
<1>4. Grows(d, d) /\ Grows(d, slash(m, i))
  BY <1>1, <1>3, GrowsOn DEF Grows
<1> QED BY <1>1, <1>3, <1>4 DEF close_overdue, m

\* open_exit adds an exit for a burn that has none.
LEMMA OpenStep ==
    ASSUME Configured, clock \in Nat, NEW node \in Nodes, NEW p \in ProofsOf(node),
           NEW d, DeskOK(cfg, d), can_open_exit(d, p)
    PROVE  LET e == open_exit(d, p) IN DeskOK(cfg, e) /\ Grows(d, e)
<1> DEFINE name == p.header.name
           s == StatementOf(cfg, name, p.index)
           x == [statement |-> s, state |-> "Pending", issued_at |-> clock,
                 deadline |-> clock + REDEEM_WINDOW]
           e == open_exit(d, p)
           more == d.consumed \cup {s.burn_ref}
           t == Append(d.exits, x)
<1>1. /\ p.index \in Nat /\ IsBurn(cfg, name, p.index)
      /\ p.leaf = QBlocks[name].events[p.index]
      /\ p.leaf.data.amount <= cfg.max_exit_amount
      /\ p.leaf.data.burn_ref \notin d.consumed
  BY OpenedIsBurn
<1>2. s.amount = p.leaf.data.amount /\ s.burn_ref = p.leaf.data.burn_ref
  BY <1>1 DEF StatementOf
<1>3. e = IF ~valid_statement(s) THEN d ELSE [exits |-> t, consumed |-> more]
  BY <1>1 DEF open_exit, verify_burn, StatementOf
<1>4. s \in Statements(cfg)
  <2>1. name \in DOMAIN QBlocks /\ p.index \in Nat /\ IsBurn(cfg, name, p.index)
    BY <1>1 DEF IsBurn
  <2> QED BY <2>1 DEF Statements
<1>5. REDEEM_WINDOW \in Nat
  BY NumberAssumption
<1> HIDE DEF s
<1>6. x \in GoodExits(cfg)
  <2>1. x \in ExitRecords(cfg)
    BY <1>4, <1>5 DEF ExitRecords
  <2> QED BY <1>1, <1>2, <2>1 DEF GoodExits
<1>7. d.exits \in Seq(GoodExits(cfg))
  BY DEF DeskOK
<1>8. x.statement.burn_ref = s.burn_ref /\ s.burn_ref \notin d.consumed
  BY <1>1, <1>2
<1> HIDE DEF x
<1>9. /\ t \in Seq(GoodExits(cfg)) /\ DOMAIN t = DOMAIN d.exits \cup {Len(d.exits) + 1}
      /\ Len(d.exits) + 1 \notin DOMAIN d.exits
      /\ t[Len(d.exits) + 1] = x /\ \A i \in DOMAIN d.exits : t[i] = d.exits[i]
  BY <1>6, <1>7
<1> HIDE DEF t
<1>10. \A i \in DOMAIN t : t[i].statement.burn_ref \in more
  BY <1>8, <1>9 DEF DeskOK
<1>11. \A i, k \in DOMAIN t : t[i].statement.burn_ref = t[k].statement.burn_ref => i = k
  BY <1>8, <1>9 DEF DeskOK
<1> HIDE DEF more, e
<1>12. CASE e = [exits |-> t, consumed |-> more]
  <2>1. e.exits = t /\ e.consumed = more /\ e = [exits |-> e.exits, consumed |-> e.consumed]
    BY <1>12
  <2>2. DeskOK(cfg, e)
    BY <1>9, <1>10, <1>11, <2>1 DEF DeskOK
  <2>3. Grows(d, e)
    BY <1>9, <2>1 DEF Grows
  <2> QED BY <2>2, <2>3 DEF e
<1>13. CASE e = d
  BY <1>13 DEF Grows, e
<1> QED BY <1>3, <1>12, <1>13

\* The desk after the proofs of a poll.
LEMMA OpenedAll ==
    ASSUME Configured, clock \in Nat, NEW node \in Nodes, NEW proofs \in Seq(ProofsOf(node)),
           DeskOK(cfg, desk)
    PROVE  LET e == poll_burns(proofs)[Len(proofs)] IN DeskOK(cfg, e) /\ Grows(desk, e)
<1> DEFINE f == poll_burns(proofs)
           n == Len(proofs)
           S == {i \in 0 .. n : DeskOK(cfg, f[i]) /\ Grows(desk, f[i])}
<1>1. n \in Nat /\ \A i \in 1 .. n : proofs[i] \in ProofsOf(node)
  OBVIOUS
<1>2. /\ f[0] = desk
      /\ \A i \in 1 .. n : f[i] = IF can_open_exit(f[i - 1], proofs[i])
                                  THEN open_exit(f[i - 1], proofs[i]) ELSE f[i - 1]
  BY <1>1, OpenIs
<1> HIDE DEF f, n
<1>3. 0 \in S
  BY <1>1, <1>2 DEF Grows
<1>4. ASSUME NEW i \in 0 .. (n - 1), i \in S PROVE i + 1 \in S
  <2>1. i + 1 \in 1 .. n /\ (i + 1) - 1 = i /\ DeskOK(cfg, f[i]) /\ Grows(desk, f[i])
    BY <1>1, <1>4
  <2>2. f[i + 1] = IF can_open_exit(f[i], proofs[i + 1]) THEN open_exit(f[i], proofs[i + 1])
                   ELSE f[i]
    BY <1>2, <2>1
  <2>3. DeskOK(cfg, f[i + 1]) /\ Grows(f[i], f[i + 1])
    <3>1. proofs[i + 1] \in ProofsOf(node) /\ Grows(f[i], f[i])
      BY <1>1, <2>1 DEF Grows
    <3> QED BY <2>1, <2>2, <3>1, OpenStep
  <2> QED BY <1>1, <2>1, <2>3, GrowsOn
<1>5. \A i \in 0 .. n : i \in S
  <2> HIDE DEF S
  <2> QED BY <1>1, <1>3, <1>4, InductTo
<1>6. n \in S
  BY <1>1, <1>5
<1> QED BY <1>6 DEF f, n

\* The desk after a sweep that settles.
LEMMA SettledAll ==
    ASSUME Configured, NEW d, DeskOK(cfg, d), NEW known \in Seq(Releases)
    PROVE  LET e == sweep_settle(d, known)[Len(d.exits)] IN DeskOK(cfg, e) /\ Grows(d, e)
<1> DEFINE f == sweep_settle(d, known)
           n == Len(d.exits)
           S == {i \in 0 .. n : /\ DeskOK(cfg, f[i]) /\ Grows(d, f[i])
                                /\ Len(f[i].exits) = n}
<1>1. n \in Nat
  BY DEF DeskOK
<1>2. f[0] = d /\ \A i \in 1 .. n : f[i] = settle(f[i - 1], i, known)
  BY <1>1, SettleIs
<1> HIDE DEF f
<1>3. 0 \in S
  BY <1>1, <1>2 DEF Grows
<1> HIDE DEF n
<1>4. ASSUME NEW i \in 0 .. (n - 1), i \in S PROVE i + 1 \in S
  <2>1. /\ i + 1 \in 1 .. n /\ (i + 1) - 1 = i
        /\ DeskOK(cfg, f[i]) /\ Grows(d, f[i]) /\ Len(f[i].exits) = n
    BY <1>1, <1>4
  <2>2. f[i + 1] = settle(f[i], i + 1, known)
    BY <1>2, <2>1
  <2>3. i + 1 \in DOMAIN f[i].exits
    BY <2>1 DEF DeskOK
  <2>4. DeskOK(cfg, f[i + 1]) /\ Grows(f[i], f[i + 1]) /\ Len(f[i + 1].exits) = n
    BY <2>1, <2>2, <2>3, SettleStep
  <2> QED BY <1>1, <2>1, <2>4, GrowsOn
<1>5. \A i \in 0 .. n : i \in S
  <2> HIDE DEF S
  <2> QED BY <1>1, <1>3, <1>4, InductTo
<1>6. n \in S
  BY <1>1, <1>5
<1> QED BY <1>6 DEF f, n

\* The desk after a sweep that closes what is overdue.
LEMMA ClosedAll ==
    ASSUME Configured, NEW d, DeskOK(cfg, d), NEW known \in Seq(Releases)
    PROVE  LET e == sweep_slash(d, known)[Len(d.exits)] IN DeskOK(cfg, e) /\ Grows(d, e)
<1> DEFINE f == sweep_slash(d, known)
           n == Len(d.exits)
           S == {i \in 0 .. n : /\ DeskOK(cfg, f[i]) /\ Grows(d, f[i])
                                /\ Len(f[i].exits) = n}
<1>1. n \in Nat
  BY DEF DeskOK
<1>2. f[0] = d /\ \A i \in 1 .. n : f[i] = close_overdue(f[i - 1], i, known)
  BY <1>1, CloseIs
<1> HIDE DEF f
<1>3. 0 \in S
  BY <1>1, <1>2 DEF Grows
<1> HIDE DEF n
<1>4. ASSUME NEW i \in 0 .. (n - 1), i \in S PROVE i + 1 \in S
  <2>1. /\ i + 1 \in 1 .. n /\ (i + 1) - 1 = i
        /\ DeskOK(cfg, f[i]) /\ Grows(d, f[i]) /\ Len(f[i].exits) = n
    BY <1>1, <1>4
  <2>2. f[i + 1] = close_overdue(f[i], i + 1, known)
    BY <1>2, <2>1
  <2>3. i + 1 \in DOMAIN f[i].exits
    BY <2>1 DEF DeskOK
  <2>4. DeskOK(cfg, f[i + 1]) /\ Grows(f[i], f[i + 1]) /\ Len(f[i + 1].exits) = n
    BY <2>1, <2>2, <2>3, CloseStep
  <2> QED BY <1>1, <2>1, <2>4, GrowsOn
<1>5. \A i \in 0 .. n : i \in S
  <2> HIDE DEF S
  <2> QED BY <1>1, <1>3, <1>4, InductTo
<1>6. n \in S
  BY <1>1, <1>5
<1> QED BY <1>6 DEF f, n

-----------------------------------------------------------------------------
(* The inductive invariant *)

SignedOwn(keys, exits) ==
    \A s \in keys : \E i \in DOMAIN exits :
        exits[i].state # "Pending" /\ s = sign_decision(OwnKey, decision(exits[i]))

\* An exit is only ever opened under a configuration that was accepted; what
\* waits is of the payouts handed in; what was signed is the verdict of an exit.
PayInv ==
    /\ env \in Envs /\ clock \in Nat
    /\ service = "running" => Configured
    /\ service # "running" => desk.exits = <<>>
    /\ DeskOK(cfg, desk)
    /\ queue \in Seq(Releases) /\ held \in Seq(Releases)
    /\ SignedOwn(signed, desk.exits)

\* The desk of a service that is not running is empty; of one that is, configured.
LEMMA ExitsNeedConfig ==
    ASSUME PayInv, desk.exits # <<>>
    PROVE  Configured
  BY DEF PayInv

\* At first there is nothing.
LEMMA PayInvInit == Init => PayInv
<1> SUFFICES ASSUME Init PROVE PayInv
  OBVIOUS
<1>1. desk.exits = <<>> /\ desk = [exits |-> desk.exits, consumed |-> desk.consumed]
  BY DEF Init
<1>2. DeskOK(cfg, desk)
  BY <1>1 DEF DeskOK
<1> QED BY <1>1, <1>2 DEF Init, PayInv, SignedOwn

\* Start reads the configuration that the service then runs under.
LEMMA PayInvStart == ASSUME PayInv, Start PROVE PayInv'
<1>1. /\ env' = env /\ clock' = clock /\ desk' = desk /\ queue' = queue /\ held' = held
      /\ signed' = signed /\ service = "down"
  BY DEF Start
<1>2. cfg' = cfg /\ (Configured' <=> Configured)
  BY <1>1 DEF cfg, Configured
<1>3. service' = "running" => Configured
  BY DEF Start, PayInv, Configured
<1>4. desk.exits = <<>>
  BY <1>1 DEF PayInv
<1>5. SignedOwn(signed', desk'.exits)
  BY <1>1 DEF PayInv
<1>6. SignedOwn(signed, desk.exits)' <=> SignedOwn(signed', desk'.exits)
  BY <1>1 DEF SignedOwn, sign_decision, decision, ack_preimage, cfg
<1>7. DeskOK(cfg, desk)' <=> DeskOK(cfg, desk)
  BY <1>1, <1>2
<1> QED BY <1>1, <1>2, <1>3, <1>4, <1>5, <1>6, <1>7 DEF PayInv

\* What was signed is still a verdict of the desk.
LEMMA SignedKept ==
    ASSUME NEW d, NEW e, NEW keys, SignedOwn(keys, d.exits), Grows(d, e)
    PROVE  SignedOwn(keys, e.exits)
  BY DEF SignedOwn, Grows

\* What a step of the service makes of the desk and of what waits.
LEMMA StepFacts ==
    ASSUME PayInv, NEW node \in Nodes, Step(node)
    PROVE  DeskOK(cfg, desk') /\ Grows(desk, desk') /\ held' \in Seq(Releases)
<1>1. Configured /\ clock \in Nat /\ DeskOK(cfg, desk)
      /\ queue \in Seq(Releases) /\ held \in Seq(Releases)
  BY DEF PayInv, Step
<1>2. PICK found \in {poll(node, scanned, build_anchor(cfg))} :
      \E opened \in {poll_burns(found.proofs)[Len(found.proofs)]} :
      \E known \in {known_payouts(opened)} :
      \E swept \in {sweep_settle(opened, known)[Len(opened.exits)]} :
         /\ desk' = sweep_slash(swept, known)[Len(swept.exits)]
         /\ held' = naming(known, open_refs(swept))
  BY Zenon DEF Step
<1>3. PICK opened, known, swept :
         /\ opened = poll_burns(found.proofs)[Len(found.proofs)]
         /\ known = known_payouts(opened)
         /\ swept = sweep_settle(opened, known)[Len(opened.exits)]
         /\ desk' = sweep_slash(swept, known)[Len(swept.exits)]
         /\ held' = naming(known, open_refs(swept))
  BY <1>2, Zenon
<1>4. found.proofs \in Seq(ProofsOf(node))
  BY PollMakes
<1>5. DeskOK(cfg, opened) /\ Grows(desk, opened)
  BY <1>1, <1>3, <1>4, OpenedAll
<1>6. known \in Seq(Releases)
  <2>1. held \o queue \in Seq(Releases)
    BY <1>1
  <2>2. naming(held \o queue, open_refs(opened)) \in Seq(Releases)
    BY <2>1, NamingKeeps
  <2>3. MAX_PENDING_RELEASES \in Nat
    BY NumberAssumption
  <2> QED BY <1>3, <2>2, <2>3, LastOfKeeps DEF known_payouts
<1>7. DeskOK(cfg, swept) /\ Grows(opened, swept)
  BY <1>1, <1>3, <1>5, <1>6, SettledAll
<1>8. DeskOK(cfg, desk') /\ Grows(swept, desk')
  BY <1>1, <1>3, <1>6, <1>7, ClosedAll
<1>9. held' \in Seq(Releases)
  BY <1>3, <1>6, NamingKeeps
<1>10. Grows(desk, swept)
  BY <1>5, <1>7, GrowsOn
<1> QED BY <1>8, <1>9, <1>10, GrowsOn

\* Every action keeps the invariant.
LEMMA PayInvNext == PayInv /\ [Next]_vars => PayInv'
<1> SUFFICES ASSUME PayInv, [Next]_vars PROVE PayInv'
  OBVIOUS
<1>0. CASE Start
  BY <1>0, PayInvStart
<1>3. CASE Tick
  <2>1. clock' \in Nat /\ UNCHANGED <<env, service, desk, queue, held, signed>>
    BY <1>3 DEF Tick, PayInv
  <2> QED BY <2>1 DEF PayInv, Configured, cfg, SignedOwn, sign_decision, decision, ack_preimage
<1>4. CASE \E node \in Nodes : Step(node)
  <2>1. PICK node \in Nodes : Step(node)
    BY <1>4
  <2>2. DeskOK(cfg, desk') /\ Grows(desk, desk') /\ held' \in Seq(Releases)
    BY <2>1, StepFacts
  <2>3. /\ env' = env /\ service' = service /\ clock' = clock /\ queue' = <<>>
        /\ signed' = signed /\ service = "running"
    BY <2>1 DEF Step
  <2>4. SignedOwn(signed, desk'.exits)
    BY <2>2, SignedKept DEF PayInv
  <2>5. cfg' = cfg /\ (Configured' <=> Configured)
    BY <2>3 DEF cfg, Configured
  <2>6. SignedOwn(signed, desk.exits)'
    BY <2>3, <2>4 DEF SignedOwn, sign_decision, decision, ack_preimage, cfg
  <2>7. DeskOK(cfg, desk)'
    BY <2>2, <2>5
  <2> QED BY <2>2, <2>3, <2>5, <2>6, <2>7 DEF PayInv
<1>5. CASE \E r \in Releases : Submit(r)
  <2>1. PICK r \in Releases : Submit(r)
    BY <1>5
  <2>2. queue' \in Seq(Releases)
    <3>1. queue' = LastOf(Append(queue, r), MAX_PENDING_RELEASES)
      BY <2>1 DEF Submit
    <3>2. Append(queue, r) \in Seq(Releases) /\ MAX_PENDING_RELEASES \in Nat
      BY NumberAssumption DEF PayInv
    <3> QED BY <3>1, <3>2, LastOfKeeps
  <2>3. UNCHANGED <<env, service, clock, desk, held, signed>>
    BY <2>1 DEF Submit
  <2> QED BY <2>2, <2>3
          DEF PayInv, Configured, cfg, SignedOwn, sign_decision, decision, ack_preimage
<1>6. CASE Sign
  <2>1. PICK i \in DOMAIN desk.exits :
           /\ desk.exits[i].state # "Pending"
           /\ signed' = signed \cup {sign_decision(OwnKey, decision(desk.exits[i]))}
    BY <1>6 DEF Sign
  <2>2. UNCHANGED <<env, service, clock, desk, held, queue>>
    BY <1>6 DEF Sign
  <2>3. SignedOwn(signed', desk.exits)
    BY <2>1 DEF SignedOwn, PayInv
  <2>4. SignedOwn(signed, desk.exits)'
    BY <2>2, <2>3 DEF SignedOwn, sign_decision, decision, ack_preimage, cfg
  <2>5. cfg' = cfg /\ (Configured' <=> Configured)
    BY <2>2 DEF cfg, Configured
  <2>6. DeskOK(cfg, desk)'
    BY <2>2, <2>5 DEF PayInv
  <2> QED BY <2>2, <2>4, <2>5, <2>6 DEF PayInv
<1>7. CASE UNCHANGED vars
  BY <1>7 DEF vars, PayInv, Configured, cfg, SignedOwn, sign_decision, decision, ack_preimage
<1> QED BY <1>0, <1>3, <1>4, <1>5, <1>6, <1>7 DEF Next

\* The invariant holds of every behaviour.
THEOREM PayoutsInvariant == Spec => []PayInv
  BY PayInvInit, PayInvNext, PTL DEF Spec

-----------------------------------------------------------------------------
(* The properties *)

\* Every exit is a finalized burn of the chain the service is configured for,
\* and no burn has two (ExitDesk::open_exit), however many blocks, nodes and
\* members there are.
THEOREM ExitsAreBurns == Spec => []OnlyRealBurns
<1>1. PayInv => OnlyRealBurns
  <2> SUFFICES ASSUME PayInv PROVE OnlyRealBurns
    OBVIOUS
  <2>1. ASSUME NEW e \in Exits
        PROVE  \E name \in Finalized[cfg.genesis_hash] : \E i \in DOMAIN QBlocks[name].events :
                  LET leaf == QBlocks[name].events[i]
                      s == e.statement
                  IN  /\ leaf.contract = "qtv/native"
                      /\ leaf.selector = "QBBN" /\ leaf.data.is = "burn"
                      /\ s.burn_ref = leaf.data.burn_ref
                      /\ s.burn_ref.dest_chain = cfg.chain_id
                      /\ s.burn_ref.genesis = cfg.genesis_hash
                      /\ <<s.asset_id, s.holder, s.amount, s.destination>> =
                             <<leaf.data.asset_id, leaf.data.holder, leaf.data.amount,
                               leaf.data.destination>>
    <3> DEFINE s == e.statement
    <3>1. e \in GoodExits(cfg)
      BY DEF Exits, Range, PayInv, DeskOK
    <3>2. s \in Statements(cfg)
      BY <3>1 DEF GoodExits, ExitRecords
    <3>3. PICK name \in DOMAIN QBlocks, i \in Nat :
             IsBurn(cfg, name, i) /\ s = StatementOf(cfg, name, i)
      <4> HIDE DEF s
      <4> QED BY <3>2, StatementFacts
    <3> DEFINE leaf == QBlocks[name].events[i]
    <3>4. /\ name \in Finalized[cfg.genesis_hash] /\ i \in DOMAIN QBlocks[name].events
          /\ leaf.contract = "qtv/native" /\ leaf.selector = "QBBN" /\ leaf.data.is = "burn"
          /\ leaf.data.burn_ref = derived(leaf.data, cfg.genesis_hash)
          /\ leaf.data.dest_chain = cfg.chain_id
      BY <3>3, Zenon DEF IsBurn
    <3>5. /\ s.burn_ref = leaf.data.burn_ref
          /\ s.asset_id = leaf.data.asset_id /\ s.holder = leaf.data.holder
          /\ s.amount = leaf.data.amount /\ s.destination = leaf.data.destination
      BY <3>3 DEF StatementOf
    <3>6. /\ derived(leaf.data, cfg.genesis_hash).dest_chain = leaf.data.dest_chain
          /\ derived(leaf.data, cfg.genesis_hash).genesis = cfg.genesis_hash
      BY DEF derived
    <3> QED BY <3>4, <3>5, <3>6, Zenon
  <2>2. \A i, k \in DOMAIN desk.exits :
           desk.exits[i].statement.burn_ref = desk.exits[k].statement.burn_ref => i = k
    BY DEF PayInv, DeskOK
  <2> QED BY <2>1, <2>2, Zenon DEF OnlyRealBurns
<1> QED BY <1>1, PayoutsInvariant, PTL

\* An exit is settled only if the main chain of Bitcoin pays it
\* (BitcoinReleaseProof::verify): the branch to the payout opens a leaf of the
\* block's tree, however many transactions and headers there are.
THEOREM SettledIsPaid == Spec => []PaidMeansPaid
<1>1. PayInv => PaidMeansPaid
  BY DEF PayInv, DeskOK, PaidMeansPaid, Exits, Range, GoodExits, Paid
<1> QED BY <1>1, PayoutsInvariant, PTL

\* The window that start_exits asks for covers every exit the desk opens, of
\* any amount that the configuration allows.
THEOREM ExitsHaveTime == Spec => []PaysInTime
<1>1. PayInv => PaysInTime
  <2> SUFFICES ASSUME PayInv, NEW e \in Exits
               PROVE  e.issued_at + 2 * params.target_spacing
                        * Btc!confirmations_for(e.statement.amount, cfg.bitcoin[1].confirmations)
                            <= e.deadline
    BY DEF PaysInTime
  <2> DEFINE base == cfg.bitcoin[1].confirmations
             x == Btc!confirmations_for(e.statement.amount, base)
             y == Btc!confirmations_for(cfg.max_exit_amount, base)
             g == params.target_spacing
  <2>1. e \in GoodExits(cfg) /\ desk.exits # <<>>
    BY DEF Exits, Range, PayInv, DeskOK
  <2>2. Configured
    BY <2>1, ExitsNeedConfig
  <2>3. /\ e.deadline = e.issued_at + REDEEM_WINDOW /\ e.issued_at \in Nat
        /\ e.statement \in Statements(cfg) /\ e.statement.amount <= cfg.max_exit_amount
    BY <2>1 DEF GoodExits, ExitRecords
  <2>4. e.statement.amount \in Nat
    BY <2>3, StatementFacts
  <2>5. cfg.max_exit_amount \in Nat /\ base \in Nat /\ 2 * y * g <= REDEEM_WINDOW
    BY <2>2, ConfigFacts
  <2>6. x \in Nat /\ y \in Nat /\ x <= y
    <3> HIDE DEF base
    <3> QED BY <2>3, <2>4, <2>5, ConfirmationsGrow
  <2>7. g \in Nat /\ REDEEM_WINDOW \in Nat
    BY NumberAssumption
  <2> HIDE DEF x, y, g
  <2>8. x * g <= y * g
    BY <2>6, <2>7
  <2>9. 2 * g * x = 2 * (x * g) /\ 2 * y * g = 2 * (y * g) /\ x * g \in Nat /\ y * g \in Nat
    BY <2>6, <2>7
  <2>10. 2 * g * x <= REDEEM_WINDOW
    BY <2>5, <2>7, <2>8, <2>9
  <2>11. 2 * g * x \in Nat
    BY <2>6, <2>7
  <2>12. e.issued_at + 2 * g * x <= e.deadline
    BY <2>3, <2>7, <2>10, <2>11
  <2> QED BY <2>12 DEF x, g
<1> QED BY <1>1, PayoutsInvariant, PTL

\* Two sets of keys with as many as an acknowledgement asks for share more
\* keys than there are dishonest ones.
LEMMA QuorumsMeet ==
    ASSUME NEW n \in Nat, NEW K, IsFiniteSet(K), Cardinality(K) <= n,
           NEW C \in SUBSET K, NEW D \in SUBSET K, NEW B \in SUBSET K, C \cap D \subseteq B,
           3 * Cardinality(B) <= n,
           Cardinality(C) >= (2 * n) \div 3 + 1, Cardinality(D) >= (2 * n) \div 3 + 1
    PROVE  FALSE
<1>1. /\ IsFiniteSet(C) /\ IsFiniteSet(D) /\ IsFiniteSet(B)
      /\ IsFiniteSet(C \cup D) /\ IsFiniteSet(C \cap D)
  <2>1. C \subseteq K /\ D \subseteq K /\ B \subseteq K
    OBVIOUS
  <2>2. C \cup D \subseteq K /\ C \cap D \subseteq K
    BY <2>1
  <2> QED BY <2>1, <2>2, FS_Subset
<1>2. /\ Cardinality(C) \in Nat /\ Cardinality(D) \in Nat /\ Cardinality(B) \in Nat
      /\ Cardinality(C \cup D) \in Nat /\ Cardinality(C \cap D) \in Nat /\ Cardinality(K) \in Nat
  BY <1>1, FS_CardinalityType
<1>3. Cardinality(C \cup D) = Cardinality(C) + Cardinality(D) - Cardinality(C \cap D)
  BY <1>1, FS_Union
<1>4. Cardinality(C \cup D) <= Cardinality(K) /\ Cardinality(C \cap D) <= Cardinality(B)
  <2>1. C \cup D \subseteq K
    OBVIOUS
  <2> QED BY <1>1, <2>1, FS_Subset
<1>5. 3 * ((2 * n) \div 3 + 1) > 2 * n /\ (2 * n) \div 3 + 1 \in Nat
  OBVIOUS
<1> DEFINE c == Cardinality(C)
           d == Cardinality(D)
           b == Cardinality(B)
           u == Cardinality(C \cup D)
           i == Cardinality(C \cap D)
           k == Cardinality(K)
           t == (2 * n) \div 3 + 1
<1>6. /\ c \in Nat /\ d \in Nat /\ b \in Nat /\ u \in Nat /\ i \in Nat /\ k \in Nat /\ t \in Nat
      /\ u = c + d - i /\ u <= k /\ i <= b /\ k <= n /\ 3 * b <= n /\ c >= t /\ d >= t
      /\ 3 * t > 2 * n
  BY <1>2, <1>3, <1>4, <1>5
<1> HIDE DEF c, d, b, u, i, k, t
<1> QED BY <1>6

KeysOf(operators) == {o.public_key : o \in Range(operators)}

\* There are no more keys than operators.
LEMMA KeysOfFinite ==
    ASSUME NEW operators, IsList(operators)
    PROVE  IsFiniteSet(KeysOf(operators)) /\ Cardinality(KeysOf(operators)) <= Len(operators)
<1> DEFINE n == Len(operators)
           f == [i \in 1 .. n |-> operators[i].public_key]
<1>1. n \in Nat /\ DOMAIN operators = 1 .. n
  BY DEF IsList
<1>2. IsFiniteSet(1 .. n) /\ Cardinality(1 .. n) = n
  <2> HIDE DEF n
  <2>1. 1 \in Int /\ n \in Int
    BY <1>1
  <2>2. IsFiniteSet(1 .. n) /\ Cardinality(1 .. n) = IF 1 > n THEN 0 ELSE n - 1 + 1
    BY <2>1, FS_Interval
  <2> QED BY <1>1, <2>2
<1>3. f \in Surjection(1 .. n, KeysOf(operators))
  <2>1. \A k : k \in KeysOf(operators) <=> \E i \in 1 .. n : k = operators[i].public_key
    BY <1>1 DEF KeysOf, Range
  <2>2. f \in [1 .. n -> KeysOf(operators)] /\ \A i \in 1 .. n : f[i] = operators[i].public_key
    BY <2>1
  <2> HIDE DEF f
  <2> QED BY <2>1, <2>2 DEF Surjection
<1> HIDE DEF f
<1> QED BY <1>2, <1>3, FS_Surjection

\* A key that is counted is an operator's, and its signature was to be had.
LEMMA CountedIsAvailable ==
    ASSUME NEW operators, NEW d, NEW verdict, NEW envelope \in Envelopes(operators, d, verdict),
           NEW k \in counted_keys(operators, d, envelope)
    PROVE  k \in KeysOf(operators) /\ sign_decision(k, d) \in Available(operators, d, verdict)
<1>1. PICK o \in signers(operators, d, envelope) : k = o.public_key
  BY DEF counted_keys
<1>2. o \in Range(operators)
  BY DEF signers
<1>3. PICK i \in DOMAIN envelope : envelope[i].signature = sign_decision(o.public_key, d)
  BY Zenon DEF signers
<1>4. PICK pick \in [DOMAIN operators -> Available(operators, d, verdict)] :
         envelope = [j \in DOMAIN operators |->
                        [operator_id |-> operators[j].operator_id, signature |-> pick[j]]]
  BY DEF Envelopes
<1>5. i \in DOMAIN operators /\ envelope[i].signature = pick[i]
  BY <1>3, <1>4
<1>6. pick[i] \in Available(operators, d, verdict)
  BY <1>5
<1> QED BY <1>1, <1>2, <1>3, <1>5, <1>6 DEF KeysOf

\* Whose signature of a decision there is: a dishonest operator's, one of
\* another honest operator that decided so, or this one's, which did.
LEMMA WhoSigned ==
    ASSUME PayInv, NEW operators, NEW verdict, NEW d, NEW k,
           sign_decision(k, d) \in Available(operators, d, verdict)
    PROVE  \/ k \in Dishonest(operators)
           \/ k \in DOMAIN verdict /\ verdict[k] = d.outcome
           \/ k = OwnKey /\ \E i \in DOMAIN desk.exits : d = decision(desk.exits[i])
<1> DEFINE s == sign_decision(k, d)
<1>1. s.key = k /\ s.preimage = ack_preimage(d) /\ s.era = ERA
  BY DEF sign_decision
<1>2. CASE s \in signed
  <2>1. PICK i \in DOMAIN desk.exits : s = sign_decision(OwnKey, decision(desk.exits[i]))
    BY <1>2, Zenon DEF PayInv, SignedOwn
  <2>2. s.key = OwnKey /\ s.preimage = ack_preimage(decision(desk.exits[i]))
    BY <2>1 DEF sign_decision
  <2>3. ack_preimage(d).decision = d
        /\ ack_preimage(decision(desk.exits[i])).decision = decision(desk.exits[i])
    BY DEF ack_preimage
  <2> QED BY <1>1, <2>2, <2>3
<1>3. \A q : sign_decision(q, d).key = q
  BY DEF sign_decision
<1>4. CASE s \in {sign_decision(key, d) : key \in {q \in DOMAIN verdict : verdict[q] = d.outcome}}
  BY <1>1, <1>3, <1>4
<1>5. CASE s \in {sign_decision(key, d) : key \in Dishonest(operators)}
  BY <1>1, <1>3, <1>5
<1>6. s # [sign_decision(OwnKey, d) EXCEPT !.era = OldEra]
  <2>1. [sign_decision(OwnKey, d) EXCEPT !.era = OldEra].era = OldEra
    BY DEF sign_decision
  <2> QED BY <1>1, <2>1, OperatorAssumption
<1> QED BY <1>2, <1>4, <1>5, <1>6 DEF Available

\* A burn is not acknowledged both as paid and as slashed: two quorums share
\* an honest operator, and that one has one verdict (verify_ack_quorum).
THEOREM VerdictsAgree == Spec => []OneVerdict
<1>1. PayInv => OneVerdict
  <2> SUFFICES ASSUME PayInv, NEW e \in Exits, NEW operators \in AckSets, NEW verdict \in Verdicts,
                      Acknowledged(operators, e, "Settle", verdict),
                      Acknowledged(operators, e, "Slash", verdict)
               PROVE  FALSE
    BY DEF OneVerdict
  <2> DEFINE p == [decision(e) EXCEPT !.outcome = "Settle"]
             q == [decision(e) EXCEPT !.outcome = "Slash"]
  <2>1. /\ p.outcome = "Settle" /\ q.outcome = "Slash"
        /\ p.burn_ref = e.statement.burn_ref /\ q.burn_ref = e.statement.burn_ref
    BY DEF decision
  <2>2. PICK x \in Envelopes(operators, p, verdict) : verifies_ack_quorum(operators, p, x)
    BY Zenon DEF Acknowledged
  <2>3. PICK y \in Envelopes(operators, q, verdict) : verifies_ack_quorum(operators, q, y)
    BY Zenon DEF Acknowledged
  <2> HIDE DEF p, q
  <2> DEFINE C == counted_keys(operators, p, x)
             D == counted_keys(operators, q, y)
             K == KeysOf(operators)
             B == Dishonest(operators)
             n == Len(operators)
  <2>4. IsList(operators) /\ n \in Nat /\ 3 * Cardinality(B) <= n
    BY OperatorAssumption DEF IsList
  <2>5. IsFiniteSet(K) /\ Cardinality(K) <= n
    BY <2>4, KeysOfFinite
  <2>6. C \subseteq K /\ D \subseteq K
    BY CountedIsAvailable
  <2>7. B \subseteq K
    BY DEF Dishonest, KeysOf
  <2>8. C \cap D \subseteq B
    <3> SUFFICES ASSUME NEW k \in C, k \in D, k \notin B PROVE FALSE
      OBVIOUS
    <3>1. sign_decision(k, p) \in Available(operators, p, verdict)
          /\ sign_decision(k, q) \in Available(operators, q, verdict)
      BY CountedIsAvailable
    <3>2. DOMAIN verdict = HonestKeys \ {OwnKey}
      BY DEF Verdicts
    <3>3. CASE k \in DOMAIN verdict
      <4>1. k # OwnKey
        BY <3>2, <3>3
      <4>2. verdict[k] = p.outcome /\ verdict[k] = q.outcome
        BY <3>1, <4>1, WhoSigned
      <4> QED BY <2>1, <4>2
    <3>4. CASE k \notin DOMAIN verdict
      <4>1. PICK i \in DOMAIN desk.exits : p = decision(desk.exits[i])
        BY <3>1, <3>4, WhoSigned
      <4>2. PICK j \in DOMAIN desk.exits : q = decision(desk.exits[j])
        BY <3>1, <3>4, WhoSigned
      <4>3. p.burn_ref = desk.exits[i].statement.burn_ref
            /\ q.burn_ref = desk.exits[j].statement.burn_ref
        BY <4>1, <4>2 DEF decision
      <4>4. i = j
        BY <2>1, <4>3 DEF PayInv, DeskOK
      <4> QED BY <2>1, <4>1, <4>2, <4>4
    <3> QED BY <3>3, <3>4
  <2>9. Cardinality(C) >= (2 * n) \div 3 + 1 /\ Cardinality(D) >= (2 * n) \div 3 + 1
    <3>1. /\ Threshold >= floor(operators)
          /\ Cardinality(C) >= Threshold /\ Cardinality(D) >= Threshold
      BY <2>2, <2>3 DEF verifies_ack_quorum
    <3>2. floor(operators) = Max({(2 * n) \div 3 + 1, EXIT_ACK_QUORUM_MIN})
      BY DEF floor
    <3>3. (2 * n) \div 3 + 1 \in Int /\ EXIT_ACK_QUORUM_MIN \in Int /\ Threshold \in Nat
      BY <2>4, NumberAssumption
    <3> DEFINE t == (2 * n) \div 3 + 1
    <3>4. t \in Int /\ floor(operators) = Max({t, EXIT_ACK_QUORUM_MIN})
      BY <3>2, <3>3
    <3> HIDE DEF t
    <3>5. floor(operators) >= t /\ floor(operators) \in Int
      BY <3>3, <3>4, MaxOfTwo
    <3>6. Cardinality(C) \in Nat /\ Cardinality(D) \in Nat
      <4> HIDE DEF C, D, K
      <4> QED BY <2>5, <2>6, FS_Subset, FS_CardinalityType
    <3>7. Cardinality(C) >= t /\ Cardinality(D) >= t
      <4> HIDE DEF C, D
      <4> QED BY <3>1, <3>3, <3>4, <3>5, <3>6
    <3> QED BY <3>7 DEF t
  <2> HIDE DEF C, D, K, B, n
  <2> QED BY <2>4, <2>5, <2>6, <2>7, <2>8, <2>9, QuorumsMeet
<1> QED BY <1>1, PayoutsInvariant, PTL
=============================================================================
