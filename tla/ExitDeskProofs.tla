--------------------------- MODULE ExitDeskProofs ---------------------------
(***************************************************************************)
(* Proofs about ExitDesk, for any burns, payouts, vaults and limits.       *)
(*                                                                         *)
(* The journal is what ties a step to the next process, so the invariant,  *)
(* DeskInv, says that replaying the events in memory gives the desk        *)
(* (Booked), that the desk is one that replaying can give (Good), and what *)
(* the thread's lists hold (Typed).  Every step takes at most one event,   *)
(* and one that replay accepts (Moved), so what has to be shown of a step  *)
(* is shown of replay, for each kind of event: that it keeps the vaults    *)
(* backed, the exits of a burn single and a consumed payout's exit         *)
(* settled, and that it is a step of ExitPromise.  Restart is the case in  *)
(* which the file may hold one event more than the desk had taken.         *)
(*                                                                         *)
(* What reconstruct and naming compute is shown by induction on the length *)
(* of a list: the recursive function is the fixed point of Upto, one       *)
(* exists for every length, and any two agree.                             *)
(***************************************************************************)
EXTENDS ExitDesk, Inductions, SequenceTheorems

-----------------------------------------------------------------------------
(* Types *)

Refs == {b.ref : b \in Burns}
Txs == {r.tx : r \in Releases}

Exits == [ref : Refs, vault : Vaults, locked : Nat, deadline : Nat,
          state : {"Pending", "Settled", "Slashed"}]

Desks == [exits : Seq(Exits), free : [Vaults -> Nat], locked : [Vaults -> Nat],
          consumed : SUBSET (Refs \cup Txs), seized : Nat, dead : Seq(Refs)]

Opens == [kind : {"Open"}, index : Nat, ref : Refs, vault : Vaults, locked : Nat, deadline : Nat]
Settles == [kind : {"Settle"}, index : Nat, foreign_ref : Txs]
Slashes == [kind : {"Slash"}, index : Nat]
Letters == [kind : {"DeadLetter"}, index : Nat, ref : Refs]
Events == Opens \cup Settles \cup Slashes \cup Letters

-----------------------------------------------------------------------------
(* reconstruct *)

\* One event of reconstruct.
Took(r, e) ==
    IF r.ok /\ replays(r.desk, e)
    THEN [ok |-> TRUE, desk |-> replay(r.desk, e)]
    ELSE [r EXCEPT !.ok = FALSE]

Nothing == [ok |-> TRUE, desk |-> NewDesk]

Upto(s, f) ==
    [n \in 0 .. Len(s) |-> IF n = 0 THEN Nothing ELSE Took(f[n - 1], s[n])]

\* reconstruct is the last value of a function that is its own Upto.
LEMMA ReconstructIs ==
    ASSUME NEW s
    PROVE  reconstruct(s) = (CHOOSE f : f = Upto(s, f))[Len(s)]
  BY Zenon DEF reconstruct, Upto, Took, Nothing

\* That function exists, up to any length and so for all of s.
LEMMA UptoExists ==
    ASSUME NEW s, Len(s) \in Nat
    PROVE  \E f : f = Upto(s, f)
<1> DEFINE G(n, f) == f = [k \in 0 .. n |-> IF k = 0 THEN Nothing ELSE Took(f[k - 1], s[k])]
           N == {n \in Nat : \E f : G(n, f)}
<1>1. 0 \in N
  <2> DEFINE f == [k \in 0 .. 0 |-> Nothing]
  <2>1. G(0, f)
    OBVIOUS
  <2> HIDE DEF G
  <2> QED BY <2>1
<1>2. ASSUME NEW n \in N PROVE n + 1 \in N
  <2>1. PICK f : G(n, f)
    OBVIOUS
  <2> DEFINE g == [k \in 0 .. (n + 1) |-> IF k = 0 THEN Nothing ELSE Took(f[k - 1], s[k])]
  <2>2. \A k \in 0 .. n : g[k] = f[k]
    BY <2>1
  <2>3. \A k \in 0 .. (n + 1) : k # 0 => k - 1 \in 0 .. n
    OBVIOUS
  <2>4. G(n + 1, g)
    BY <2>2, <2>3
  <2> HIDE DEF G
  <2> QED BY <2>4
<1>3. N = Nat
  <2> HIDE DEF N
  <2>1. N \in SUBSET Nat
    BY DEF N
  <2> QED BY <1>1, <1>2, <2>1, Induct
<1>4. PICK f : G(Len(s), f)
  BY <1>3
<1> QED BY <1>4 DEF Upto

\* It is determined by the events it has come to.
LEMMA UptoAgree ==
    ASSUME NEW s, NEW t, Len(s) \in Nat, Len(t) \in Nat, Len(s) <= Len(t),
           \A k \in 1 .. Len(s) : s[k] = t[k],
           NEW f, f = Upto(s, f), NEW g, g = Upto(t, g)
    PROVE  f[Len(s)] = g[Len(s)]
<1> DEFINE N == {n \in Nat : n <= Len(s) => f[n] = g[n]}
<1>1. 0 \in N
  BY DEF Upto
<1>2. ASSUME NEW n \in N PROVE n + 1 \in N
  <2> SUFFICES ASSUME n + 1 <= Len(s) PROVE f[n + 1] = g[n + 1]
    OBVIOUS
  <2>1. f[n] = g[n] /\ s[n + 1] = t[n + 1] /\ (n + 1) - 1 = n
    OBVIOUS
  <2>2. f[n + 1] = Took(f[n], s[n + 1])
    BY <2>1 DEF Upto
  <2>3. g[n + 1] = Took(g[n], t[n + 1])
    BY <2>1 DEF Upto
  <2> QED BY <2>1, <2>2, <2>3
<1>3. N = Nat
  <2> HIDE DEF N
  <2>1. N \in SUBSET Nat
    BY DEF N
  <2> QED BY <1>1, <1>2, <2>1, Induct
<1> QED BY <1>3

\* No event gives the new desk, and one more event is taken on the desk that
\* those before it gave.
LEMMA ReconstructNone ==
    reconstruct(<<>>) = Nothing
<1> DEFINE s == <<>>
<1>1. Len(s) = 0 /\ Len(s) \in Nat
  OBVIOUS
<1> HIDE DEF s
<1> DEFINE f == CHOOSE h : h = Upto(s, h)
<1>2. f = Upto(s, f)
  BY <1>1, UptoExists, Zenon
<1>3. reconstruct(s) = f[Len(s)]
  BY ReconstructIs, Zenon
<1> HIDE DEF f
<1>4. f[0] = Nothing
  BY <1>1, <1>2 DEF Upto
<1> QED BY <1>1, <1>3, <1>4 DEF s

\* reconstruct on one event more takes that event last.
LEMMA ReconstructOne ==
    ASSUME NEW s \in Seq(Events), NEW e \in Events
    PROVE  reconstruct(Append(s, e)) = Took(reconstruct(s), e)
<1> DEFINE t == Append(s, e)
<1>1. /\ Len(s) \in Nat /\ Len(t) = Len(s) + 1 /\ t[Len(s) + 1] = e
      /\ \A k \in 1 .. Len(s) : s[k] = t[k]
  OBVIOUS
<1> HIDE DEF t
<1> DEFINE f == CHOOSE h : h = Upto(s, h)
           g == CHOOSE h : h = Upto(t, h)
<1>2. f = Upto(s, f)
  BY <1>1, UptoExists, Zenon
<1>3. g = Upto(t, g)
  <2>1. Len(t) \in Nat
    BY <1>1
  <2> QED BY <2>1, UptoExists, Zenon
<1>4. reconstruct(s) = f[Len(s)] /\ reconstruct(t) = g[Len(t)]
  BY ReconstructIs, Zenon
<1> HIDE DEF f, g
<1>5. f[Len(s)] = g[Len(s)]
  <2>1. Len(s) \in Nat /\ Len(t) \in Nat /\ Len(s) <= Len(t)
    BY <1>1
  <2> QED BY <1>1, <1>2, <1>3, <2>1, UptoAgree
<1>6. g[Len(t)] = Took(g[Len(s)], e)
  <2>1. Len(s) + 1 \in 0 .. Len(t) /\ Len(s) + 1 # 0 /\ (Len(s) + 1) - 1 = Len(s)
    BY <1>1
  <2> QED BY <1>1, <1>3, <2>1 DEF Upto
<1> QED BY <1>4, <1>5, <1>6 DEF t

-----------------------------------------------------------------------------
(* The vaults *)

\* lock_any finds a vault wherever one fits.
LEMMA LockAnyFits ==
    ASSUME NEW d \in Desks, NEW amount \in Nat, fitting(d, amount) # {}
    PROVE  lock_any(d, amount) \in Vaults /\ d.free[lock_any(d, amount)] >= amount
<1> DEFINE T == fitting(d, amount)
           g == d.free
           M == {g[v] : v \in T}
<1>1. T \subseteq Vaults /\ T \subseteq Nat /\ T # {} /\ g \in [Vaults -> Nat]
  BY DeskAssumption DEF fitting, Desks
<1> HIDE DEF T, g
<1>2. M \subseteq Nat /\ M # {}
  BY <1>1
<1>3. PICK m \in M : \A n \in M : m <= n
  <2> HIDE DEF M
  <2> QED BY <1>2, LeastNatural
<1> DEFINE U == {v \in T : g[v] = m}
<1>4. U \subseteq Nat /\ U # {}
  BY <1>1, <1>3
<1>5. PICK v \in U : \A w \in U : v <= w
  <2> HIDE DEF U
  <2> QED BY <1>4, LeastNatural
<1>6. v \in T /\ \A w \in T : g[v] < g[w] \/ (g[v] = g[w] /\ v <= w)
  <2>1. v \in T /\ g[v] = m
    BY <1>5
  <2>2. ASSUME NEW w \in T PROVE g[v] < g[w] \/ (g[v] = g[w] /\ v <= w)
    <3>1. m <= g[w] /\ g[w] \in Nat /\ m \in Nat
      BY <1>1, <1>2, <1>3
    <3>2. CASE g[w] = m
      BY <1>5, <2>1, <3>2
    <3> QED BY <2>1, <3>1, <3>2
  <2> QED BY <2>1, <2>2
<1>7. lock_any(d, amount) \in T
  BY <1>6, Zenon DEF lock_any, T, g
<1> QED BY <1>7 DEF T, fitting

\* What is asked of a vault is a number.
LEMMA RequiredIsNatural ==
    ASSUME NEW b \in Burns
    PROVE  required_collateral(b.amount) \in Nat
<1> DEFINE p == b.amount * SECURE_BPS
<1>1. b.amount \in Nat /\ SECURE_BPS \in Nat /\ BPS_DEN \in Nat /\ BPS_DEN > 0
  BY DeskAssumption
<1>2. p \in Nat
  BY <1>1
<1> HIDE DEF p
<1>3. p \div BPS_DEN \in Nat
  BY <1>1, <1>2
<1> QED BY <1>3 DEF required_collateral, p

\* One vault's part of a total.
LEMMA TotalChange ==
    ASSUME NEW f \in [Vaults -> Nat], NEW g \in [Vaults -> Nat], NEW v \in Vaults,
           \A w \in Vaults : w # v => g[w] = f[w]
    PROVE  Total(f) \in Nat /\ Total(g) \in Nat /\ Total(g) + f[v] = Total(f) + g[v]
<1> DEFINE V == Vaults
<1>1. IsFiniteSet(V) /\ v \in V /\ f \in [V -> Nat] /\ g \in [V -> Nat] /\ \A w \in V : w # v => g[w] = f[w]
  BY DeskAssumption
<1>2. [w \in Vaults |-> f[w]] = f /\ [w \in Vaults |-> g[w]] = g
  OBVIOUS
<1> HIDE DEF V
<1>3. SumFunction(f) \in Nat /\ SumFunction(g) \in Nat
  BY <1>1, SumRemove
<1>4. SumFunction(g) + f[v] = SumFunction(f) + g[v]
  BY <1>1, SumChange
<1> QED BY <1>2, <1>3, <1>4 DEF Total

\* The pending exits of a vault, and what they need.
Held(d, v) == {i \in settleable(d) : d.exits[i].vault = v}
LockedIn(d, v) == SumFunction([i \in Held(d, v) |-> d.exits[i].locked])

\* VaultsBacked, of any desk.
Backed(d) ==
    /\ Total(d.free) + Total(d.locked) + d.seized = Total(Collateral)
    /\ \A v \in Vaults : d.locked[v] = LockedIn(d, v)

\* VaultsBacked is Backed of the desk.
LEMMA BackedIs == VaultsBacked <=> Backed(desk)
  BY DEF VaultsBacked, Backed, LockedFor, LockedIn, Held

\* A vault backs finitely many exits, so what it has locked is a sum.
LEMMA HeldFinite ==
    ASSUME NEW d \in Desks, NEW v
    PROVE  IsFiniteSet(Held(d, v)) /\ [i \in Held(d, v) |-> d.exits[i].locked] \in [Held(d, v) -> Nat]
<1>1. d.exits \in Seq(Exits) /\ Len(d.exits) \in Nat /\ DOMAIN d.exits = 1 .. Len(d.exits)
  BY DEF Desks
<1>2. Held(d, v) \subseteq 1 .. Len(d.exits)
  BY <1>1 DEF Held, settleable
<1>3. IsFiniteSet(1 .. Len(d.exits))
  <2> DEFINE n == Len(d.exits)
  <2>1. 1 \in Int /\ n \in Int
    BY <1>1
  <2> HIDE DEF n
  <2>2. IsFiniteSet(1 .. n)
    BY <2>1, FS_Interval
  <2> QED BY <2>2 DEF n
<1>4. \A i \in Held(d, v) : d.exits[i].locked \in Nat
  <2>1. \A i \in Held(d, v) : d.exits[i] \in Exits
    BY <1>1, <1>2
  <2> QED BY <2>1 DEF Exits
<1> QED BY <1>2, <1>3, <1>4, FS_Subset

\* The new desk has nothing locked.
LEMMA NewDeskBacked == NewDesk \in Desks /\ Backed(NewDesk)
<1> DEFINE z == [v \in Vaults |-> 0]
<1>1. NewDesk \in Desks
  BY DeskAssumption DEF NewDesk, Desks
<1>2. \A v \in Vaults : Held(NewDesk, v) = {}
  BY DEF Held, settleable, NewDesk
<1>3. \A v \in Vaults : LockedIn(NewDesk, v) = 0
  <2> TAKE v \in Vaults
  <2>1. IsFiniteSet(Held(NewDesk, v)) /\ [i \in Held(NewDesk, v) |-> NewDesk.exits[i].locked] \in [Held(NewDesk, v) -> Nat]
    BY <1>1, HeldFinite
  <2> DEFINE h == [i \in Held(NewDesk, v) |-> NewDesk.exits[i].locked]
             S == Held(NewDesk, v)
  <2>2. IsFiniteSet(S) /\ h \in [S -> Nat] /\ S = {}
    BY <1>2, <2>1
  <2>3. LockedIn(NewDesk, v) = SumFunction(h)
    BY DEF LockedIn
  <2> HIDE DEF h, S
  <2> QED BY <2>2, <2>3, SumRemove
<1>4. Total(z) = 0
  <2> DEFINE N == {n \in Nat : \A W \in SUBSET Vaults : Cardinality(W) = n => SumFunction([v \in W |-> 0]) = 0}
  <2>1. 0 \in N
    <3> SUFFICES ASSUME NEW W \in SUBSET Vaults, Cardinality(W) = 0
                 PROVE  SumFunction([v \in W |-> 0]) = 0
      OBVIOUS
    <3>1. IsFiniteSet(W) /\ W = {}
      BY FS_Subset, FS_EmptySet, DeskAssumption
    <3> DEFINE y == [v \in W |-> 0]
    <3>2. y \in [W -> Nat]
      OBVIOUS
    <3> HIDE DEF y
    <3>3. SumFunction(y) = 0
      BY <3>1, <3>2, SumRemove
    <3> QED BY <3>3 DEF y
  <2>2. ASSUME NEW n \in N PROVE n + 1 \in N
    <3> SUFFICES ASSUME NEW W \in SUBSET Vaults, Cardinality(W) = n + 1
                 PROVE  SumFunction([v \in W |-> 0]) = 0
      OBVIOUS
    <3>1. IsFiniteSet(W) /\ W # {}
      <4>1. n + 1 # 0
        OBVIOUS
      <4>2. IsFiniteSet(W)
        BY FS_Subset, DeskAssumption
      <4> QED BY <4>1, <4>2, FS_EmptySet
    <3>2. PICK v \in W : TRUE
      BY <3>1
    <3>3. W \ {v} \in SUBSET Vaults /\ Cardinality(W \ {v}) = n
      BY <3>1, FS_RemoveElement
    <3>4. SumFunction([w \in W \ {v} |-> 0]) = 0
      BY <3>3
    <3> DEFINE y == [w \in W |-> 0]
    <3>5. y \in [W -> Nat] /\ y[v] = 0 /\ [w \in W \ {v} |-> y[w]] = [w \in W \ {v} |-> 0]
      OBVIOUS
    <3> HIDE DEF y
    <3>6. SumFunction(y) = y[v] + SumFunction([w \in W \ {v} |-> y[w]])
      BY <3>1, <3>5, SumRemove
    <3> QED BY <3>4, <3>5, <3>6 DEF y
  <2>3. N = Nat
    <3> HIDE DEF N
    <3>1. N \in SUBSET Nat
      BY DEF N
    <3> QED BY <2>1, <2>2, <3>1, Induct
  <2>4. Cardinality(Vaults) \in N
    BY <2>3, FS_CardinalityType, DeskAssumption
  <2>5. SumFunction([v \in Vaults |-> 0]) = 0
    BY <2>4
  <2>6. [v \in Vaults |-> z[v]] = [v \in Vaults |-> 0]
    OBVIOUS
  <2> QED BY <2>5, <2>6 DEF Total
<1>5. Total(Collateral) \in Nat
  <2> DEFINE V == Vaults
             c == [v \in V |-> Collateral[v]]
  <2>1. IsFiniteSet(V) /\ c \in [V -> Nat]
    BY DeskAssumption
  <2>2. Total(Collateral) = SumFunction(c)
    BY DEF Total
  <2> HIDE DEF V, c
  <2> QED BY <2>1, <2>2, SumRemove
<1>6. /\ NewDesk.free = Collateral /\ NewDesk.locked = z /\ NewDesk.seized = 0
      /\ \A v \in Vaults : NewDesk.locked[v] = 0
  BY DEF NewDesk
<1> QED BY <1>1, <1>3, <1>4, <1>5, <1>6 DEF Backed

-----------------------------------------------------------------------------
(* What an event makes of a desk *)

\* A desk from its fields.
Desk(x, f, k, c, s, w) ==
    [exits |-> x, free |-> f, locked |-> k, consumed |-> c, seized |-> s, dead |-> w]

\* The fields of a desk.
LEMMA DeskFields ==
    ASSUME NEW d \in Desks
    PROVE  /\ d.exits \in Seq(Exits) /\ d.free \in [Vaults -> Nat] /\ d.locked \in [Vaults -> Nat]
           /\ d.consumed \in SUBSET (Refs \cup Txs) /\ d.seized \in Nat /\ d.dead \in Seq(Refs)
           /\ d = Desk(d.exits, d.free, d.locked, d.consumed, d.seized, d.dead)
  BY DEF Desks, Desk

\* lock, release and seize, field by field.
LEMMA DeskMoves ==
    ASSUME NEW d \in Desks, NEW v \in Vaults, NEW a
    PROVE  /\ lock(d, v, a) = Desk(d.exits, [d.free EXCEPT ![v] = @ - a], [d.locked EXCEPT ![v] = @ + a],
                                   d.consumed, d.seized, d.dead)
           /\ release(d, v, a) = Desk(d.exits, [d.free EXCEPT ![v] = @ + a], [d.locked EXCEPT ![v] = @ - a],
                                      d.consumed, d.seized, d.dead)
           /\ seize(d, v, a) = Desk(d.exits, d.free, [d.locked EXCEPT ![v] = @ - a],
                                    d.consumed, d.seized + a, d.dead)
<1> DEFINE x == d.exits
           f == d.free
           k == d.locked
           c == d.consumed
           s == d.seized
           w == d.dead
<1>1. d = Desk(x, f, k, c, s, w) /\ f \in [Vaults -> Nat] /\ k \in [Vaults -> Nat]
  BY DeskFields
<1> HIDE DEF x, f, k, c, s, w
<1> DEFINE lf == [f EXCEPT ![v] = @ - a]
           pf == [f EXCEPT ![v] = @ + a]
           lk == [k EXCEPT ![v] = @ - a]
           pk == [k EXCEPT ![v] = @ + a]
           t == s + a
<1>2. lock(d, v, a) = [[d EXCEPT !.free = lf] EXCEPT !.locked = pk]
  BY <1>1 DEF Desk, lock
<1>3. release(d, v, a) = [[d EXCEPT !.free = pf] EXCEPT !.locked = lk]
  BY <1>1 DEF Desk, release
<1>4. seize(d, v, a) = [[d EXCEPT !.locked = lk] EXCEPT !.seized = t]
  BY <1>1 DEF Desk, seize
<1> HIDE DEF lf, pf, lk, pk, t
<1>5. lock(d, v, a) = Desk(x, lf, pk, c, s, w)
  <2>1. [d EXCEPT !.free = lf] = Desk(x, lf, k, c, s, w)
    BY <1>1 DEF Desk
  <2>2. [Desk(x, lf, k, c, s, w) EXCEPT !.locked = pk] = Desk(x, lf, pk, c, s, w)
    BY <1>1 DEF Desk
  <2> QED BY <1>2, <2>1, <2>2
<1>6. release(d, v, a) = Desk(x, pf, lk, c, s, w)
  <2>1. [d EXCEPT !.free = pf] = Desk(x, pf, k, c, s, w)
    BY <1>1 DEF Desk
  <2>2. [Desk(x, pf, k, c, s, w) EXCEPT !.locked = lk] = Desk(x, pf, lk, c, s, w)
    BY <1>1 DEF Desk
  <2> QED BY <1>3, <2>1, <2>2
<1>7. seize(d, v, a) = Desk(x, f, lk, c, t, w)
  <2>1. [d EXCEPT !.locked = lk] = Desk(x, f, lk, c, s, w)
    BY <1>1 DEF Desk
  <2>2. [Desk(x, f, lk, c, s, w) EXCEPT !.seized = t] = Desk(x, f, lk, c, t, w)
    BY <1>1 DEF Desk
  <2> QED BY <1>4, <2>1, <2>2
<1> QED BY <1>5, <1>6, <1>7 DEF lf, pf, lk, pk, t, x, f, k, c, s, w

Lettered(d, r) == [d EXCEPT !.dead = Append(@, r)]

NewExit(e) ==
    [ref |-> e.ref, vault |-> e.vault, locked |-> e.locked,
     deadline |-> e.deadline, state |-> "Pending"]

\* An exit is opened: its fields, one by one.
LEMMA OpenedIs ==
    ASSUME NEW d \in Desks, NEW e \in Opens, replays(d, e)
    PROVE  /\ Opened(d, e).exits = Append(d.exits, NewExit(e))
           /\ Opened(d, e).free = [d.free EXCEPT ![e.vault] = @ - e.locked]
           /\ Opened(d, e).locked = [d.locked EXCEPT ![e.vault] = @ + e.locked]
           /\ Opened(d, e).consumed = d.consumed \cup {e.ref}
           /\ Opened(d, e).seized = d.seized
           /\ Opened(d, e).dead = d.dead
           /\ Opened(d, e) \in Desks
<1> DEFINE n == Opened(d, e)
           f == [d.free EXCEPT ![e.vault] = @ - e.locked]
           k == [d.locked EXCEPT ![e.vault] = @ + e.locked]
           x == Append(d.exits, NewExit(e))
           c == d.consumed \cup {e.ref}
<1>1. /\ d.exits \in Seq(Exits) /\ d.free \in [Vaults -> Nat] /\ d.locked \in [Vaults -> Nat]
      /\ d.consumed \in SUBSET (Refs \cup Txs) /\ d.seized \in Nat /\ d.dead \in Seq(Refs)
      /\ d = Desk(d.exits, d.free, d.locked, d.consumed, d.seized, d.dead)
  BY DeskFields
<1>3. e.kind = "Open" /\ e.vault \in Vaults /\ e.locked \in Nat /\ e.ref \in Refs /\ e.deadline \in Nat
  BY DEF Opens
<1>4. d.free[e.vault] >= e.locked
  BY <1>3 DEF replays
<1>5. f \in [Vaults -> Nat] /\ k \in [Vaults -> Nat]
  BY <1>1, <1>3, <1>4
<1>6. x \in Seq(Exits)
  <2>1. NewExit(e) \in Exits
    BY <1>3 DEF NewExit, Exits
  <2> QED BY <1>1, <2>1
<1>7. c \in SUBSET (Refs \cup Txs)
  BY <1>1, <1>3
<1>8. n = Desk(x, f, k, c, d.seized, d.dead)
  <2> DEFINE l == Desk(d.exits, f, k, d.consumed, d.seized, d.dead)
  <2>1. lock(d, e.vault, e.locked) = l
    BY <1>3, DeskMoves
  <2> HIDE DEF f, k
  <2>2. n = [l EXCEPT !.consumed = @ \cup {e.ref}, !.exits = Append(@, NewExit(e))]
    BY <2>1 DEF Opened, NewExit
  <2>3. l.consumed = d.consumed /\ [l EXCEPT !.consumed = c].exits = d.exits
    BY DEF Desk
  <2>4. n = [[l EXCEPT !.consumed = c] EXCEPT !.exits = x]
    BY <2>2, <2>3
  <2> HIDE DEF x, c
  <2>5. [l EXCEPT !.consumed = c] = Desk(d.exits, f, k, c, d.seized, d.dead)
    BY DEF Desk
  <2>6. [Desk(d.exits, f, k, c, d.seized, d.dead) EXCEPT !.exits = x] = Desk(x, f, k, c, d.seized, d.dead)
    BY DEF Desk
  <2> QED BY <2>4, <2>5, <2>6
<1> HIDE DEF f, k, x, c, n
<1>9. /\ n.exits = x /\ n.free = f /\ n.locked = k /\ n.consumed = c /\ n.seized = d.seized /\ n.dead = d.dead
      /\ n \in Desks
  BY <1>1, <1>5, <1>6, <1>7, <1>8 DEF Desk, Desks
<1> QED BY <1>9 DEF n, f, k, x, c

\* The exits of a desk after exit i has been closed.
Closed(d, i, word) == [d.exits EXCEPT ![i].state = word]
WithState(x, word) == [x EXCEPT !.state = word]

\* The exits after one was closed are as many, and are exits.
LEMMA ClosedIs ==
    ASSUME NEW d \in Desks, NEW i \in settleable(d), NEW word \in {"Settled", "Slashed"}
    PROVE  /\ Closed(d, i, word) \in Seq(Exits) /\ Len(Closed(d, i, word)) = Len(d.exits)
           /\ i \in 1 .. Len(d.exits) /\ d.exits[i] \in Exits
           /\ \A j \in 1 .. Len(d.exits) : j # i => Closed(d, i, word)[j] = d.exits[j]
           /\ Closed(d, i, word)[i] = WithState(d.exits[i], word)
<1>1. d.exits \in Seq(Exits) /\ i \in 1 .. Len(d.exits)
  BY DEF Desks, settleable
<1>2. d.exits[i] \in Exits
  BY <1>1
<1>3. [d.exits[i] EXCEPT !.state = word] \in Exits
  BY <1>2 DEF Exits
<1> DEFINE y == [d.exits[i] EXCEPT !.state = word]
<1>4. Closed(d, i, word) = [d.exits EXCEPT ![i] = y]
  BY <1>1 DEF Closed
<1> HIDE DEF y
<1>5. y \in Exits
  BY <1>3 DEF y
<1> QED BY <1>1, <1>2, <1>4, <1>5, ExceptSeq DEF y, WithState

\* The vault of a pending exit has locked what the exit needs.
LEMMA LockCovers ==
    ASSUME NEW d \in Desks, Backed(d), NEW i \in settleable(d)
    PROVE  /\ d.exits[i].vault \in Vaults /\ d.exits[i].locked \in Nat
           /\ d.locked[d.exits[i].vault] >= d.exits[i].locked
<1> DEFINE v == d.exits[i].vault
           S == Held(d, v)
           h == [j \in S |-> d.exits[j].locked]
<1>1. d.exits[i] \in Exits
  BY ClosedIs
<1>2. v \in Vaults /\ d.exits[i].locked \in Nat
  BY <1>1 DEF Exits
<1>3. i \in S /\ h[i] = d.exits[i].locked
  BY DEF Held
<1>4. IsFiniteSet(S) /\ h \in [S -> Nat]
  BY HeldFinite
<1>5. d.locked[v] = SumFunction(h)
  BY <1>2 DEF Backed, LockedIn
<1> DEFINE r == [j \in S \ {i} |-> h[j]]
<1>6. SumFunction(h) = h[i] + SumFunction(r)
  <2> HIDE DEF h, S
  <2> QED BY <1>3, <1>4, SumRemove
<1>7. SumFunction(r) \in Nat
  <2> DEFINE T == S \ {i}
  <2>1. IsFiniteSet(T) /\ r \in [T -> Nat]
    BY <1>4, FS_RemoveElement
  <2> HIDE DEF T, r
  <2> QED BY <2>1, SumRemove
<1> HIDE DEF S, h, r
<1> QED BY <1>2, <1>3, <1>5, <1>6, <1>7

\* An exit is settled: its fields, one by one.
LEMMA SettledIs ==
    ASSUME NEW d \in Desks, Backed(d), NEW i \in settleable(d), NEW tx \in Txs
    PROVE  /\ Settled(d, i, tx).exits = Closed(d, i, "Settled")
           /\ Settled(d, i, tx).free = [d.free EXCEPT ![d.exits[i].vault] = @ + d.exits[i].locked]
           /\ Settled(d, i, tx).locked = [d.locked EXCEPT ![d.exits[i].vault] = @ - d.exits[i].locked]
           /\ Settled(d, i, tx).consumed = d.consumed \cup {tx}
           /\ Settled(d, i, tx).seized = d.seized
           /\ Settled(d, i, tx).dead = d.dead
           /\ Settled(d, i, tx) \in Desks
<1> DEFINE n == Settled(d, i, tx)
           v == d.exits[i].vault
           a == d.exits[i].locked
           f == [d.free EXCEPT ![v] = @ + a]
           k == [d.locked EXCEPT ![v] = @ - a]
           x == Closed(d, i, "Settled")
           c == d.consumed \cup {tx}
<1>1. /\ d.exits \in Seq(Exits) /\ d.free \in [Vaults -> Nat] /\ d.locked \in [Vaults -> Nat]
      /\ d.consumed \in SUBSET (Refs \cup Txs) /\ d.seized \in Nat /\ d.dead \in Seq(Refs)
      /\ d = Desk(d.exits, d.free, d.locked, d.consumed, d.seized, d.dead)
  BY DeskFields
<1>2. v \in Vaults /\ a \in Nat /\ d.locked[v] >= a
  BY LockCovers
<1>3. x \in Seq(Exits)
  BY ClosedIs
<1> HIDE DEF v, a
<1>4. f \in [Vaults -> Nat] /\ k \in [Vaults -> Nat]
  BY <1>1, <1>2
<1>5. c \in SUBSET (Refs \cup Txs)
  BY <1>1
<1>6. n = Desk(x, f, k, c, d.seized, d.dead)
  <2> DEFINE l == Desk(d.exits, f, k, d.consumed, d.seized, d.dead)
  <2>1. release(d, v, a) = l
    BY <1>2, DeskMoves
  <2> HIDE DEF f, k
  <2>2. n = [l EXCEPT !.consumed = @ \cup {tx}, !.exits[i].state = "Settled"]
    BY <2>1 DEF Settled, v, a
  <2>3. l.consumed = d.consumed /\ [l EXCEPT !.consumed = c].exits = d.exits
    BY DEF Desk
  <2>4. n = [[l EXCEPT !.consumed = c] EXCEPT !.exits = x]
    BY <2>2, <2>3 DEF Closed
  <2> HIDE DEF x, c
  <2>5. [l EXCEPT !.consumed = c] = Desk(d.exits, f, k, c, d.seized, d.dead)
    BY DEF Desk
  <2>6. [Desk(d.exits, f, k, c, d.seized, d.dead) EXCEPT !.exits = x] = Desk(x, f, k, c, d.seized, d.dead)
    BY DEF Desk
  <2> QED BY <2>4, <2>5, <2>6
<1> HIDE DEF f, k, x, c, n
<1>7. /\ n.exits = x /\ n.free = f /\ n.locked = k /\ n.consumed = c /\ n.seized = d.seized /\ n.dead = d.dead
      /\ n \in Desks
  BY <1>1, <1>3, <1>4, <1>5, <1>6 DEF Desk, Desks
<1> QED BY <1>7 DEF n, f, k, x, c, v, a

\* An exit is slashed: its fields, one by one.
LEMMA SlashedIs ==
    ASSUME NEW d \in Desks, Backed(d), NEW i \in settleable(d)
    PROVE  /\ Slashed(d, i).exits = Closed(d, i, "Slashed")
           /\ Slashed(d, i).free = d.free
           /\ Slashed(d, i).locked = [d.locked EXCEPT ![d.exits[i].vault] = @ - d.exits[i].locked]
           /\ Slashed(d, i).consumed = d.consumed
           /\ Slashed(d, i).seized = d.seized + d.exits[i].locked
           /\ Slashed(d, i).dead = d.dead
           /\ Slashed(d, i) \in Desks
<1> DEFINE n == Slashed(d, i)
           v == d.exits[i].vault
           a == d.exits[i].locked
           k == [d.locked EXCEPT ![v] = @ - a]
           x == Closed(d, i, "Slashed")
           s == d.seized + a
<1>1. /\ d.exits \in Seq(Exits) /\ d.free \in [Vaults -> Nat] /\ d.locked \in [Vaults -> Nat]
      /\ d.consumed \in SUBSET (Refs \cup Txs) /\ d.seized \in Nat /\ d.dead \in Seq(Refs)
      /\ d = Desk(d.exits, d.free, d.locked, d.consumed, d.seized, d.dead)
  BY DeskFields
<1>2. v \in Vaults /\ a \in Nat /\ d.locked[v] >= a
  BY LockCovers
<1>3. x \in Seq(Exits)
  BY ClosedIs
<1> HIDE DEF v, a
<1>4. k \in [Vaults -> Nat] /\ s \in Nat
  BY <1>1, <1>2
<1>6. n = Desk(x, d.free, k, d.consumed, s, d.dead)
  <2> DEFINE l == Desk(d.exits, d.free, k, d.consumed, s, d.dead)
  <2>1. seize(d, v, a) = l
    BY <1>2, DeskMoves
  <2> HIDE DEF k, s
  <2>2. n = [l EXCEPT !.exits[i].state = "Slashed"]
    BY <2>1 DEF Slashed, v, a
  <2>3. l.exits = d.exits
    BY DEF Desk
  <2>4. n = [l EXCEPT !.exits = x]
    BY <2>2, <2>3 DEF Closed
  <2> HIDE DEF x
  <2>5. [l EXCEPT !.exits = x] = Desk(x, d.free, k, d.consumed, s, d.dead)
    BY DEF Desk
  <2> QED BY <2>4, <2>5
<1> HIDE DEF k, x, s, n
<1>7. /\ n.exits = x /\ n.free = d.free /\ n.locked = k /\ n.consumed = d.consumed /\ n.seized = s /\ n.dead = d.dead
      /\ n \in Desks
  BY <1>1, <1>3, <1>4, <1>6 DEF Desk, Desks
<1> QED BY <1>7 DEF n, k, x, s, v, a

\* The exits that are pending after an event.
LEMMA OpenedPending ==
    ASSUME NEW d \in Desks, NEW e \in Opens, replays(d, e)
    PROVE  /\ Len(Opened(d, e).exits) = Len(d.exits) + 1
           /\ settleable(Opened(d, e)) = settleable(d) \cup {Len(d.exits) + 1}
           /\ Len(d.exits) + 1 \notin settleable(d)
           /\ \A j \in 1 .. Len(d.exits) : Opened(d, e).exits[j] = d.exits[j]
           /\ Opened(d, e).exits[Len(d.exits) + 1] = NewExit(e)
<1> DEFINE x == Append(d.exits, NewExit(e))
           m == Len(d.exits)
<1>1. d.exits \in Seq(Exits) /\ Opened(d, e).exits = x
  BY OpenedIs, DeskFields
<1>2. /\ m \in Nat /\ DOMAIN d.exits = 1 .. m /\ DOMAIN x = 1 .. (m + 1) /\ Len(x) = m + 1
      /\ \A j \in 1 .. m : x[j] = d.exits[j] /\ x[m + 1] = NewExit(e)
  BY <1>1
<1>3. x[m + 1] = NewExit(e)
  BY <1>1
<1>4. NewExit(e).state = "Pending"
  BY DEF NewExit
<1> HIDE DEF x, m
<1>5. settleable(Opened(d, e)) = settleable(d) \cup {m + 1}
  BY <1>1, <1>2, <1>3, <1>4 DEF settleable
<1>6. m + 1 \notin settleable(d)
  BY <1>2 DEF settleable
<1> QED BY <1>1, <1>2, <1>3, <1>5, <1>6 DEF m

\* Closing an exit takes it, and no other, from the pending ones.
LEMMA ClosedPending ==
    ASSUME NEW d \in Desks, NEW i \in settleable(d), NEW word \in {"Settled", "Slashed"},
           NEW n, n.exits = Closed(d, i, word)
    PROVE  settleable(n) = settleable(d) \ {i}
<1> DEFINE x == Closed(d, i, word)
<1>1. /\ x \in Seq(Exits) /\ Len(x) = Len(d.exits) /\ i \in 1 .. Len(d.exits) /\ d.exits[i] \in Exits
      /\ \A j \in 1 .. Len(d.exits) : j # i => x[j] = d.exits[j]
      /\ x[i] = WithState(d.exits[i], word)
  BY ClosedIs
<1>2. x[i].state = word
  BY <1>1 DEF Exits, WithState
<1>3. DOMAIN d.exits = 1 .. Len(d.exits) /\ DOMAIN x = 1 .. Len(d.exits)
  BY <1>1, DeskFields
<1> HIDE DEF x
<1>4. DOMAIN n.exits = DOMAIN d.exits /\ \A j \in DOMAIN d.exits : j # i => n.exits[j] = d.exits[j]
  BY <1>1, <1>3 DEF x
<1>5. n.exits[i].state # "Pending"
  BY <1>2 DEF x
<1> QED BY <1>4, <1>5 DEF settleable

\* What is locked for the pending exits after an event.
LEMMA OpenedLocked ==
    ASSUME NEW d \in Desks, NEW e \in Opens, replays(d, e), NEW v \in Vaults
    PROVE  LockedIn(Opened(d, e), v) = IF v = e.vault THEN LockedIn(d, v) + e.locked ELSE LockedIn(d, v)
<1> DEFINE n == Opened(d, e)
           m == Len(d.exits)
           S == Held(d, v)
           h == [j \in S |-> d.exits[j].locked]
           g == [j \in Held(n, v) |-> n.exits[j].locked]
<1>1. /\ m \in Nat /\ settleable(n) = settleable(d) \cup {m + 1} /\ m + 1 \notin settleable(d)
      /\ \A j \in settleable(d) : n.exits[j] = d.exits[j]
      /\ n.exits[m + 1] = NewExit(e)
  <2>1. m \in Nat /\ settleable(d) \subseteq 1 .. m
    BY DeskFields DEF settleable
  <2> QED BY <2>1, OpenedPending
<1>2. NewExit(e).vault = e.vault /\ NewExit(e).locked = e.locked /\ e.locked \in Nat
  BY DEF NewExit, Opens
<1>3. IsFiniteSet(S) /\ h \in [S -> Nat] /\ m + 1 \notin S
  BY <1>1, HeldFinite DEF Held
<1>4. LockedIn(n, v) = SumFunction(g) /\ LockedIn(d, v) = SumFunction(h)
  BY DEF LockedIn
<1> HIDE DEF n
<1>5. CASE v = e.vault
  <2>1. Held(n, v) = S \cup {m + 1}
    BY <1>1, <1>2, <1>5 DEF Held
  <2>2. g = [j \in S \cup {m + 1} |-> IF j = m + 1 THEN e.locked ELSE h[j]]
    <3>1. \A j \in S : n.exits[j].locked = h[j]
      BY <1>1 DEF Held
    <3>2. n.exits[m + 1].locked = e.locked
      BY <1>1, <1>2
    <3> HIDE DEF S, h
    <3> QED BY <1>3, <2>1, <3>1, <3>2
  <2> DEFINE q == m + 1
             a == e.locked
  <2>3. q \notin S /\ a \in Nat /\ IsFiniteSet(S) /\ h \in [S -> Nat]
    BY <1>2, <1>3
  <2> DEFINE w == [j \in S \cup {q} |-> IF j = q THEN a ELSE h[j]]
  <2>4. g = w
    BY <2>2
  <2> HIDE DEF q, a, S, h, g
  <2>5. SumFunction(w) = SumFunction(h) + a
    BY <2>3, SumAdd
  <2> HIDE DEF w
  <2> QED BY <1>4, <1>5, <2>4, <2>5 DEF n, a
<1>6. CASE v # e.vault
  <2>1. Held(n, v) = S
    BY <1>1, <1>2, <1>6 DEF Held
  <2>2. g = h
    BY <1>1, <2>1 DEF Held
  <2> QED BY <1>4, <1>6, <2>2 DEF n
<1> QED BY <1>5, <1>6

\* Closing an exit takes what it had locked from its vault's sum, and leaves
\* the sums of the other vaults.
LEMMA ClosedLocked ==
    ASSUME NEW d \in Desks, NEW i \in settleable(d), NEW word \in {"Settled", "Slashed"},
           NEW n, n.exits = Closed(d, i, word), NEW v \in Vaults
    PROVE  /\ LockedIn(n, v) \in Nat
           /\ v = d.exits[i].vault => LockedIn(d, v) = d.exits[i].locked + LockedIn(n, v)
           /\ v # d.exits[i].vault => LockedIn(d, v) = LockedIn(n, v)
<1> DEFINE S == Held(d, v)
           h == [j \in S |-> d.exits[j].locked]
           g == [j \in Held(n, v) |-> n.exits[j].locked]
<1>1. settleable(n) = settleable(d) \ {i}
  BY ClosedPending
<1>2. \A j \in settleable(d) \ {i} : n.exits[j] = d.exits[j]
  <2>1. settleable(d) \subseteq 1 .. Len(d.exits)
    BY DeskFields DEF settleable
  <2> QED BY <2>1, ClosedIs
<1>3. IsFiniteSet(S) /\ h \in [S -> Nat]
  BY HeldFinite
<1>4. LockedIn(n, v) = SumFunction(g) /\ LockedIn(d, v) = SumFunction(h)
  BY DEF LockedIn
<1>5. CASE v = d.exits[i].vault
  <2>1. Held(n, v) = S \ {i} /\ i \in S /\ h[i] = d.exits[i].locked
    BY <1>1, <1>2, <1>5 DEF Held
  <2>2. g = [j \in S \ {i} |-> h[j]]
    BY <1>2, <2>1 DEF Held
  <2> DEFINE T == S \ {i}
  <2>3. IsFiniteSet(T) /\ g \in [T -> Nat]
    BY <1>3, <2>2, FS_RemoveElement
  <2> HIDE DEF T, S, h, g
  <2>4. SumFunction(h) = h[i] + SumFunction([j \in S \ {i} |-> h[j]])
    BY <1>3, <2>1, SumRemove
  <2>5. SumFunction(g) \in Nat
    BY <2>3, SumRemove
  <2> QED BY <1>4, <1>5, <2>1, <2>2, <2>4, <2>5
<1>6. CASE v # d.exits[i].vault
  <2>1. Held(n, v) = S
    BY <1>1, <1>2, <1>6 DEF Held
  <2>2. g = h
    <3>1. \A j \in S : n.exits[j] = d.exits[j]
      BY <1>2, <1>6 DEF Held
    <3> HIDE DEF S
    <3> QED BY <2>1, <3>1
  <2> HIDE DEF S, h, g
  <2>3. SumFunction(h) \in Nat
    BY <1>3, SumRemove
  <2> QED BY <1>4, <1>6, <2>2, <2>3
<1> QED BY <1>5, <1>6

\* What reconstruct checks and does, by the kind of the event.
LEMMA ByKind ==
    ASSUME NEW d, NEW e
    PROVE  /\ e \in Opens => replay(d, e) = Opened(d, e)
           /\ e \in Settles => /\ replay(d, e) = Settled(d, e.index, e.foreign_ref)
                               /\ replays(d, e) => e.index \in settleable(d) /\ e.foreign_ref \notin d.consumed
           /\ e \in Slashes => /\ replay(d, e) = Slashed(d, e.index)
                               /\ replays(d, e) => e.index \in settleable(d)
           /\ e \in Letters => replay(d, e) = Lettered(d, e.ref)
           /\ e \in Opens /\ replays(d, e) => e.index = Len(d.exits) + 1 /\ e.ref \notin d.consumed
<1>1. e \in Opens => e.kind = "Open"
  BY DEF Opens
<1>2. e \in Settles => e.kind = "Settle"
  BY DEF Settles
<1>3. e \in Slashes => e.kind = "Slash"
  BY DEF Slashes
<1>4. e \in Letters => e.kind = "DeadLetter"
  BY DEF Letters
<1> QED BY <1>1, <1>2, <1>3, <1>4 DEF replay, replays, Lettered

\* A letter is added: its fields, one by one.
LEMMA LetterIs ==
    ASSUME NEW d \in Desks, NEW r \in Refs
    PROVE  /\ Lettered(d, r).exits = d.exits
           /\ Lettered(d, r).free = d.free
           /\ Lettered(d, r).locked = d.locked
           /\ Lettered(d, r).consumed = d.consumed
           /\ Lettered(d, r).seized = d.seized
           /\ Lettered(d, r).dead = Append(d.dead, r)
           /\ Lettered(d, r) \in Desks
<1> DEFINE w == Append(d.dead, r)
<1>1. w \in Seq(Refs)
  BY DeskFields
<1>2. Lettered(d, r) = [d EXCEPT !.dead = w]
  BY DEF Lettered
<1> HIDE DEF w
<1> QED BY <1>1, <1>2 DEF Desks, w

\* Collateral stays accounted for when an event is taken.
LEMMA ReplayBacked ==
    ASSUME NEW d \in Desks, Backed(d), NEW e \in Events, replays(d, e)
    PROVE  replay(d, e) \in Desks /\ Backed(replay(d, e))
<1> DEFINE n == replay(d, e)
<1>0. /\ d.free \in [Vaults -> Nat] /\ d.locked \in [Vaults -> Nat] /\ d.seized \in Nat
      /\ Total(d.free) + Total(d.locked) + d.seized = Total(Collateral)
      /\ \A v \in Vaults : d.locked[v] = LockedIn(d, v)
  BY DeskFields DEF Backed
<1>1. CASE e \in Opens
  <2> DEFINE u == e.vault
             a == e.locked
             f == [d.free EXCEPT ![u] = @ - a]
             k == [d.locked EXCEPT ![u] = @ + a]
  <2>1. n = Opened(d, e) /\ n \in Desks /\ n.free = f /\ n.locked = k /\ n.seized = d.seized
    BY <1>1, ByKind, OpenedIs
  <2>2. u \in Vaults /\ a \in Nat
    BY <1>1 DEF Opens
  <2>3. f \in [Vaults -> Nat] /\ k \in [Vaults -> Nat]
    BY <2>1, DeskFields
  <2>4. f[u] = d.free[u] - a /\ k[u] = d.locked[u] + a
    BY <1>0, <2>2
  <2>5. \A w \in Vaults : w # u => f[w] = d.free[w] /\ k[w] = d.locked[w]
    BY <1>0, <2>2
  <2> HIDE DEF n, f, k, u, a
  <2>6. Total(d.free) \in Nat /\ Total(f) \in Nat /\ Total(f) + d.free[u] = Total(d.free) + f[u]
    BY <1>0, <2>2, <2>3, <2>5, TotalChange
  <2>7. Total(d.locked) \in Nat /\ Total(k) \in Nat /\ Total(k) + d.locked[u] = Total(d.locked) + k[u]
    BY <1>0, <2>2, <2>3, <2>5, TotalChange
  <2>8. Total(f) + Total(k) + d.seized = Total(Collateral)
    <3>1. d.free[u] \in Nat /\ d.locked[u] \in Nat
      BY <1>0, <2>2
    <3> QED BY <1>0, <2>2, <2>4, <2>6, <2>7, <3>1
  <2>9. ASSUME NEW v \in Vaults PROVE k[v] = LockedIn(n, v)
    <3>1. LockedIn(n, v) = IF v = u THEN LockedIn(d, v) + a ELSE LockedIn(d, v)
      BY <1>1, <2>1, OpenedLocked DEF u, a
    <3> QED BY <1>0, <2>4, <2>5, <3>1
  <2> QED BY <2>1, <2>8, <2>9 DEF Backed, n
<1>2. CASE e \in Settles
  <2> DEFINE i == e.index
             u == d.exits[i].vault
             a == d.exits[i].locked
             f == [d.free EXCEPT ![u] = @ + a]
             k == [d.locked EXCEPT ![u] = @ - a]
             t == e.foreign_ref
  <2>0. i \in settleable(d) /\ t \in Txs /\ n = Settled(d, i, t)
    BY <1>2, ByKind DEF Settles
  <2> HIDE DEF i, t, n
  <2>1. /\ n \in Desks /\ n.free = f /\ n.locked = k /\ n.seized = d.seized
        /\ n.exits = Closed(d, i, "Settled")
    BY <2>0, SettledIs
  <2>2. u \in Vaults /\ a \in Nat /\ d.locked[u] >= a
    BY <2>0, LockCovers
  <2>3. f \in [Vaults -> Nat] /\ k \in [Vaults -> Nat]
    <3> HIDE DEF f, k
    <3> QED BY <2>1, DeskFields
  <2> HIDE DEF u, a
  <2>4. f[u] = d.free[u] + a /\ k[u] = d.locked[u] - a
    BY <1>0, <2>2
  <2>5. \A w \in Vaults : w # u => f[w] = d.free[w] /\ k[w] = d.locked[w]
    BY <1>0, <2>2
  <2> HIDE DEF n, f, k
  <2>6. Total(d.free) \in Nat /\ Total(f) \in Nat /\ Total(f) + d.free[u] = Total(d.free) + f[u]
    BY <1>0, <2>2, <2>3, <2>5, TotalChange
  <2>7. Total(d.locked) \in Nat /\ Total(k) \in Nat /\ Total(k) + d.locked[u] = Total(d.locked) + k[u]
    BY <1>0, <2>2, <2>3, <2>5, TotalChange
  <2>8. Total(f) + Total(k) + d.seized = Total(Collateral)
    <3>1. d.free[u] \in Nat /\ d.locked[u] \in Nat
      BY <1>0, <2>2
    <3> QED BY <1>0, <2>2, <2>4, <2>6, <2>7, <3>1
  <2>9. ASSUME NEW v \in Vaults PROVE k[v] = LockedIn(n, v)
    <3>1. /\ LockedIn(n, v) \in Nat
          /\ v = u => LockedIn(d, v) = a + LockedIn(n, v)
          /\ v # u => LockedIn(d, v) = LockedIn(n, v)
      BY <2>0, <2>1, ClosedLocked DEF u, a
    <3> QED BY <1>0, <2>2, <2>4, <2>5, <3>1
  <2> QED BY <2>1, <2>8, <2>9 DEF Backed, n
<1>3. CASE e \in Slashes
  <2> DEFINE i == e.index
             u == d.exits[i].vault
             a == d.exits[i].locked
             k == [d.locked EXCEPT ![u] = @ - a]
  <2>0. i \in settleable(d)
    BY <1>3, ByKind
  <2>1. /\ n = Slashed(d, i) /\ n \in Desks /\ n.free = d.free /\ n.locked = k /\ n.seized = d.seized + a
        /\ n.exits = Closed(d, i, "Slashed")
    BY <1>3, <2>0, ByKind, SlashedIs
  <2>2. u \in Vaults /\ a \in Nat /\ d.locked[u] >= a
    BY <2>0, LockCovers
  <2>3. k \in [Vaults -> Nat]
    BY <2>1, DeskFields
  <2> HIDE DEF u, a
  <2>4. k[u] = d.locked[u] - a
    BY <1>0, <2>2
  <2>5. \A w \in Vaults : w # u => k[w] = d.locked[w]
    BY <1>0, <2>2
  <2> HIDE DEF n, k
  <2>6. Total(d.free) \in Nat
    <3>1. \A w \in Vaults : w # u => d.free[w] = d.free[w]
      OBVIOUS
    <3> QED BY <1>0, <2>2, <3>1, TotalChange
  <2>7. Total(d.locked) \in Nat /\ Total(k) \in Nat /\ Total(k) + d.locked[u] = Total(d.locked) + k[u]
    BY <1>0, <2>2, <2>3, <2>5, TotalChange
  <2>8. Total(d.free) + Total(k) + (d.seized + a) = Total(Collateral)
    <3>1. d.locked[u] \in Nat
      BY <1>0, <2>2
    <3> QED BY <1>0, <2>2, <2>4, <2>6, <2>7, <3>1
  <2>9. ASSUME NEW v \in Vaults PROVE k[v] = LockedIn(n, v)
    <3>1. /\ LockedIn(n, v) \in Nat
          /\ v = u => LockedIn(d, v) = a + LockedIn(n, v)
          /\ v # u => LockedIn(d, v) = LockedIn(n, v)
      BY <2>0, <2>1, ClosedLocked DEF u, a
    <3> QED BY <1>0, <2>2, <2>4, <2>5, <3>1
  <2> QED BY <2>1, <2>8, <2>9 DEF Backed, n
<1>4. CASE e \in Letters
  <2>1. /\ n.exits = d.exits /\ n.free = d.free /\ n.locked = d.locked /\ n.seized = d.seized
        /\ n \in Desks
    <3>1. e.ref \in Refs
      BY <1>4 DEF Letters
    <3> QED BY <1>4, <3>1, ByKind, LetterIs
  <2> HIDE DEF n
  <2>2. \A v \in Vaults : LockedIn(n, v) = LockedIn(d, v)
    BY <2>1 DEF LockedIn, Held, settleable
  <2> QED BY <1>0, <2>1, <2>2 DEF Backed, n
<1> QED BY <1>1, <1>2, <1>3, <1>4 DEF Events

-----------------------------------------------------------------------------
(* What the desk knows of its burns and payouts *)

\* A burn has one exit, and is consumed.
Single(d) ==
    /\ \A i \in DOMAIN d.exits : d.exits[i].ref \in d.consumed
    /\ \A i, j \in DOMAIN d.exits : d.exits[i].ref = d.exits[j].ref => i = j

SettledFor(d, ref) == \E i \in DOMAIN d.exits : d.exits[i].ref = ref /\ d.exits[i].state = "Settled"

\* A payout that is consumed has settled the exit of the burn it names.
PaidFor(d) == \A r \in Releases : r.tx \in d.consumed => r.tx \in Refs \/ SettledFor(d, r.ref)

\* The event may be taken, and one that settles has a payout of that burn.
May(d, e) ==
    /\ replays(d, e)
    /\ e \in Settles => \E r \in Releases : r.tx = e.foreign_ref /\ r.ref = d.exits[e.index].ref

Good(d) == d \in Desks /\ Backed(d) /\ Single(d) /\ PaidFor(d)

\* The exits of a desk and one that is added or closed.
LEMMA OpenedExits ==
    ASSUME NEW d \in Desks, NEW e \in Opens, replays(d, e)
    PROVE  /\ DOMAIN d.exits = 1 .. Len(d.exits) /\ Len(d.exits) \in Nat
           /\ DOMAIN Opened(d, e).exits = DOMAIN d.exits \cup {Len(d.exits) + 1}
           /\ Len(d.exits) + 1 \notin DOMAIN d.exits
           /\ \A j \in DOMAIN d.exits : Opened(d, e).exits[j] = d.exits[j]
           /\ Opened(d, e).exits[Len(d.exits) + 1].ref = e.ref
           /\ Opened(d, e).exits[Len(d.exits) + 1].state = "Pending"
<1> DEFINE n == Opened(d, e)
           m == Len(d.exits)
<1>1. m \in Nat /\ DOMAIN d.exits = 1 .. m
  BY DeskFields
<1>2. /\ Len(n.exits) = m + 1 /\ n \in Desks /\ n.exits[m + 1] = NewExit(e)
      /\ \A j \in 1 .. m : n.exits[j] = d.exits[j]
  BY OpenedPending, OpenedIs
<1> HIDE DEF n, m
<1>3. DOMAIN n.exits = 1 .. (m + 1)
  BY <1>2, DeskFields
<1>4. NewExit(e).ref = e.ref /\ NewExit(e).state = "Pending"
  BY DEF NewExit
<1> QED BY <1>1, <1>2, <1>3, <1>4 DEF n, m

\* Closing an exit changes its state, and no burn of any exit.
LEMMA ClosedExits ==
    ASSUME NEW d \in Desks, NEW i \in settleable(d), NEW word \in {"Settled", "Slashed"},
           NEW n, n.exits = Closed(d, i, word)
    PROVE  /\ DOMAIN n.exits = DOMAIN d.exits /\ i \in DOMAIN d.exits
           /\ d.exits[i].state = "Pending" /\ n.exits[i].state = word
           /\ \A j \in DOMAIN d.exits : n.exits[j].ref = d.exits[j].ref
           /\ \A j \in DOMAIN d.exits : j # i => n.exits[j].state = d.exits[j].state
<1> DEFINE x == Closed(d, i, word)
<1>1. /\ x \in Seq(Exits) /\ Len(x) = Len(d.exits) /\ i \in 1 .. Len(d.exits) /\ d.exits[i] \in Exits
      /\ \A j \in 1 .. Len(d.exits) : j # i => x[j] = d.exits[j]
      /\ x[i] = WithState(d.exits[i], word)
  BY ClosedIs
<1>2. x[i].state = word /\ x[i].ref = d.exits[i].ref
  BY <1>1 DEF Exits, WithState
<1>3. DOMAIN d.exits = 1 .. Len(d.exits) /\ DOMAIN x = 1 .. Len(d.exits)
  BY <1>1, DeskFields
<1>4. d.exits[i].state = "Pending"
  BY DEF settleable
<1>5. n.exits = x
  OBVIOUS
<1> HIDE DEF x
<1> QED BY <1>1, <1>2, <1>3, <1>4, <1>5

\* What is consumed, and what is a dead letter, stays so.
LEMMA ReplayGrows ==
    ASSUME NEW d \in Desks, Backed(d), NEW e \in Events, replays(d, e)
    PROVE  /\ d.consumed \subseteq replay(d, e).consumed
           /\ Range(d.dead) \subseteq Range(replay(d, e).dead)
           /\ e \in Opens => e.ref \in replay(d, e).consumed
           /\ e \in Letters => e.ref \in Range(replay(d, e).dead)
           /\ settleable(d) \ {e.index} \subseteq settleable(replay(d, e))
           /\ e \in Opens \cup Letters => settleable(d) \subseteq settleable(replay(d, e))
<1> DEFINE n == replay(d, e)
<1>1. CASE e \in Opens
  <2>0. n = Opened(d, e)
    BY <1>1, ByKind
  <2>1. n = Opened(d, e) /\ n.consumed = d.consumed \cup {e.ref} /\ n.dead = d.dead
    <3> HIDE DEF n
    <3>1. Opened(d, e).consumed = d.consumed \cup {e.ref} /\ Opened(d, e).dead = d.dead
      BY <1>1, OpenedIs
    <3> QED BY <2>0, <3>1
  <2>2. settleable(d) \subseteq settleable(n) /\ e \notin Letters
    BY <1>1, <2>1, OpenedPending DEF Opens, Letters
  <2> QED BY <2>1, <2>2
<1>2. CASE e \in Settles
  <2> DEFINE i == e.index
             t == e.foreign_ref
  <2>1. i \in settleable(d) /\ t \in Txs /\ n = Settled(d, i, t)
    BY <1>2, ByKind DEF Settles
  <2> HIDE DEF n, i, t
  <2>2. n.exits = Closed(d, i, "Settled") /\ n.consumed = d.consumed \cup {t} /\ n.dead = d.dead
    BY <2>1, SettledIs
  <2>3. settleable(n) = settleable(d) \ {i}
    BY <2>1, <2>2, ClosedPending
  <2>4. e \notin Opens /\ e \notin Letters
    BY <1>2 DEF Opens, Letters, Settles
  <2> QED BY <2>2, <2>3, <2>4 DEF n, i
<1>3. CASE e \in Slashes
  <2> DEFINE i == e.index
  <2>1. i \in settleable(d) /\ n = Slashed(d, i)
    BY <1>3, ByKind
  <2> HIDE DEF n, i
  <2>2. n.exits = Closed(d, i, "Slashed") /\ n.consumed = d.consumed /\ n.dead = d.dead
    BY <2>1, SlashedIs
  <2>3. settleable(n) = settleable(d) \ {i}
    BY <2>1, <2>2, ClosedPending
  <2>4. e \notin Opens /\ e \notin Letters
    BY <1>3 DEF Opens, Letters, Slashes
  <2> QED BY <2>2, <2>3, <2>4 DEF n, i
<1>4. CASE e \in Letters
  <2> DEFINE r == e.ref
  <2>1. r \in Refs /\ n = Lettered(d, r) /\ e \notin Opens
    BY <1>4, ByKind DEF Letters, Opens
  <2> HIDE DEF n, r
  <2>2. n.exits = d.exits /\ n.consumed = d.consumed /\ n.dead = Append(d.dead, r)
    BY <2>1, LetterIs
  <2>3. Range(d.dead) \subseteq Range(n.dead) /\ r \in Range(n.dead)
    <3> DEFINE w == d.dead
               y == Append(w, r)
    <3>1. w \in Seq(Refs)
      BY DeskFields
    <3>2. /\ Len(w) \in Nat /\ DOMAIN w = 1 .. Len(w) /\ DOMAIN y = 1 .. (Len(w) + 1)
          /\ y[Len(w) + 1] = r /\ \A k \in 1 .. Len(w) : y[k] = w[k]
      <4> HIDE DEF w
      <4> QED BY <2>1, <3>1
    <3> HIDE DEF w, y
    <3>3. Range(w) \subseteq Range(y) /\ r \in Range(y)
      BY <3>2 DEF Range
    <3> QED BY <2>2, <3>3 DEF w, y
  <2>4. settleable(n) = settleable(d)
    BY <2>2 DEF settleable
  <2> QED BY <2>1, <2>2, <2>3, <2>4 DEF n, r
<1> QED BY <1>1, <1>2, <1>3, <1>4 DEF Events

\* An event that may be taken keeps a good desk good.
LEMMA ReplayGood ==
    ASSUME NEW d, Good(d), NEW e \in Events, May(d, e)
    PROVE  Good(replay(d, e))
<1> DEFINE n == replay(d, e)
<1>1. d \in Desks /\ Backed(d) /\ Single(d) /\ PaidFor(d) /\ replays(d, e)
  BY DEF Good, May
<1>2. n \in Desks /\ Backed(n)
  BY <1>1, ReplayBacked
<1>3. CASE e \in Opens
  <2> DEFINE m == Len(d.exits) + 1
             x == Opened(d, e).exits
  <2>1. n = Opened(d, e) /\ e.ref \notin d.consumed /\ e.ref \in Refs
    BY <1>1, <1>3, ByKind DEF Opens
  <2>2. Opened(d, e).consumed = d.consumed \cup {e.ref}
    BY <1>1, <1>3, OpenedIs
  <2>3. /\ DOMAIN x = DOMAIN d.exits \cup {m} /\ m \notin DOMAIN d.exits
        /\ \A j \in DOMAIN d.exits : x[j] = d.exits[j]
        /\ x[m].ref = e.ref
    BY <1>1, <1>3, OpenedExits
  <2> HIDE DEF n, m
  <2>4. n.exits = x
    BY <2>1
  <2> HIDE DEF x
  <2>5. Single(n)
    BY <1>1, <2>1, <2>2, <2>3, <2>4 DEF Single
  <2>6. \A r \in Releases : SettledFor(d, r.ref) => SettledFor(n, r.ref)
    BY <2>3, <2>4 DEF SettledFor
  <2>7. PaidFor(n)
    BY <1>1, <2>1, <2>2, <2>6 DEF PaidFor
  <2> QED BY <1>2, <2>5, <2>7 DEF Good, n
<1>4. CASE e \in Settles
  <2> DEFINE i == e.index
             t == e.foreign_ref
  <2>1. i \in settleable(d) /\ t \in Txs /\ n = Settled(d, i, t)
    BY <1>1, <1>4, ByKind DEF Settles
  <2>2. PICK q \in Releases : q.tx = t /\ q.ref = d.exits[i].ref
    BY <1>4 DEF May
  <2> HIDE DEF n, i, t
  <2>3. n.exits = Closed(d, i, "Settled") /\ n.consumed = d.consumed \cup {t}
    BY <1>1, <2>1, SettledIs
  <2>4. /\ DOMAIN n.exits = DOMAIN d.exits /\ i \in DOMAIN d.exits
        /\ d.exits[i].state = "Pending" /\ n.exits[i].state = "Settled"
        /\ \A j \in DOMAIN d.exits : n.exits[j].ref = d.exits[j].ref
        /\ \A j \in DOMAIN d.exits : j # i => n.exits[j].state = d.exits[j].state
    BY <1>1, <2>1, <2>3, ClosedExits
  <2>5. Single(n)
    BY <1>1, <2>3, <2>4 DEF Single
  <2>6. \A r \in Releases : SettledFor(d, r.ref) => SettledFor(n, r.ref)
    BY <2>4 DEF SettledFor
  <2>7. SettledFor(n, q.ref)
    BY <2>2, <2>4 DEF SettledFor
  <2>8. \A r \in Releases : r.tx = t => r = q
    BY <2>2, DeskAssumption
  <2>9. PaidFor(n)
    BY <1>1, <2>3, <2>6, <2>7, <2>8 DEF PaidFor
  <2> QED BY <1>2, <2>5, <2>9 DEF Good, n
<1>5. CASE e \in Slashes
  <2> DEFINE i == e.index
  <2>1. i \in settleable(d) /\ n = Slashed(d, i)
    BY <1>1, <1>5, ByKind
  <2> HIDE DEF n, i
  <2>3. n.exits = Closed(d, i, "Slashed") /\ n.consumed = d.consumed
    BY <1>1, <2>1, SlashedIs
  <2>4. /\ DOMAIN n.exits = DOMAIN d.exits /\ i \in DOMAIN d.exits
        /\ d.exits[i].state = "Pending"
        /\ \A j \in DOMAIN d.exits : n.exits[j].ref = d.exits[j].ref
        /\ \A j \in DOMAIN d.exits : j # i => n.exits[j].state = d.exits[j].state
    BY <1>1, <2>1, <2>3, ClosedExits
  <2>5. Single(n)
    BY <1>1, <2>3, <2>4 DEF Single
  <2>6. \A r \in Releases : SettledFor(d, r.ref) => SettledFor(n, r.ref)
    BY <2>4 DEF SettledFor
  <2>9. PaidFor(n)
    BY <1>1, <2>3, <2>6 DEF PaidFor
  <2> QED BY <1>2, <2>5, <2>9 DEF Good, n
<1>6. CASE e \in Letters
  <2> DEFINE r == e.ref
  <2>1. r \in Refs /\ n = Lettered(d, r)
    BY <1>6, ByKind DEF Letters
  <2> HIDE DEF n, r
  <2>2. n.exits = d.exits /\ n.consumed = d.consumed
    BY <1>1, <2>1, LetterIs
  <2>3. Single(n) /\ PaidFor(n)
    BY <1>1, <2>2 DEF Single, PaidFor, SettledFor
  <2> QED BY <1>2, <2>3 DEF Good, n
<1> QED BY <1>3, <1>4, <1>5, <1>6 DEF Events

-----------------------------------------------------------------------------
(* The journal *)

File(h, t, f) == [header |-> h, torn |-> t, frames |-> f]
Steps(s) == [i \in DOMAIN s |-> SubSeq(s, 1, i)]

\* The frames of a journal with one more event.
LEMMA StepsOne ==
    ASSUME NEW s \in Seq(Events), NEW e \in Events
    PROVE  /\ Steps(s) \in Seq(Seq(Events)) /\ Len(Steps(s)) = Len(s)
           /\ Append(s, e) \in Seq(Events)
           /\ Steps(Append(s, e)) = Append(Steps(s), Append(s, e))
<1> DEFINE t == Append(s, e)
           m == Len(s)
<1>1. /\ m \in Nat /\ DOMAIN s = 1 .. m /\ t \in Seq(Events) /\ Len(t) = m + 1 /\ DOMAIN t = 1 .. (m + 1)
      /\ \A k \in 1 .. m : t[k] = s[k]
  OBVIOUS
<1>2. \A i \in 1 .. m : SubSeq(t, 1, i) = SubSeq(s, 1, i)
  <2> TAKE i \in 1 .. m
  <2>1. /\ SubSeq(t, 1, i) \in Seq(Events) /\ SubSeq(s, 1, i) \in Seq(Events)
        /\ Len(SubSeq(t, 1, i)) = i /\ Len(SubSeq(s, 1, i)) = i
        /\ \A k \in 1 .. i : SubSeq(t, 1, i)[k] = t[k] /\ SubSeq(s, 1, i)[k] = s[k]
    <3> HIDE DEF t
    <3> QED BY <1>1
  <2>2. \A k \in 1 .. i : SubSeq(t, 1, i)[k] = SubSeq(s, 1, i)[k]
    BY <1>1, <2>1
  <2> DEFINE a == SubSeq(t, 1, i)
             b == SubSeq(s, 1, i)
  <2> HIDE DEF a, b
  <2>3. a \in Seq(Events) /\ b \in Seq(Events) /\ Len(a) = Len(b) /\ \A k \in 1 .. Len(a) : a[k] = b[k]
    BY <2>1, <2>2 DEF a, b
  <2>4. a = b
    BY <2>3, SeqEqual
  <2> QED BY <2>4 DEF a, b
<1>3. SubSeq(t, 1, m + 1) = t
  <2> HIDE DEF t
  <2> QED BY <1>1, SubSeqFull
<1>4. Steps(s) \in Seq(Seq(Events)) /\ Len(Steps(s)) = m
  <2>1. \A i \in 1 .. m : SubSeq(s, 1, i) \in Seq(Events)
    BY <1>1
  <2>2. Steps(s) \in [1 .. m -> Seq(Events)]
    BY <1>1, <2>1 DEF Steps
  <2> HIDE DEF m
  <2> QED BY <1>1, <2>2
<1>5. Steps(t) = Append(Steps(s), t)
  <2> DEFINE A == Steps(t)
             B == Append(Steps(s), t)
  <2>1. A \in Seq(Seq(Events)) /\ Len(A) = m + 1
    <3>1. \A i \in 1 .. (m + 1) : SubSeq(t, 1, i) \in Seq(Events)
      <4> HIDE DEF t
      <4> QED BY <1>1
    <3>2. A \in [1 .. (m + 1) -> Seq(Events)]
      <4> HIDE DEF t
      <4> QED BY <1>1, <3>1 DEF Steps
    <3> HIDE DEF A
    <3> QED BY <1>1, <3>2
  <2>2. /\ B \in Seq(Seq(Events)) /\ Len(B) = m + 1 /\ B[m + 1] = t
        /\ \A i \in 1 .. m : B[i] = Steps(s)[i]
    <3> HIDE DEF t
    <3> QED BY <1>1, <1>4
  <2>3. \A i \in 1 .. (m + 1) : A[i] = SubSeq(t, 1, i)
    <3> HIDE DEF t
    <3> QED BY <1>1 DEF Steps
  <2>4. \A i \in 1 .. m : Steps(s)[i] = SubSeq(s, 1, i)
    BY <1>1 DEF Steps
  <2>5. \A i \in 1 .. (m + 1) : A[i] = B[i]
    <3> HIDE DEF t, A, B
    <3> TAKE i \in 1 .. (m + 1)
    <3>1. CASE i = m + 1
      BY <1>1, <1>3, <2>2, <2>3, <3>1
    <3>2. CASE i \in 1 .. m
      BY <1>2, <2>2, <2>3, <2>4, <3>2
    <3> QED BY <1>1, <3>1, <3>2
  <2> HIDE DEF A, B
  <2>6. A = B
    BY <2>1, <2>2, <2>5, SeqEqual
  <2> QED BY <2>6 DEF A, B
<1> QED BY <1>1, <1>4, <1>5 DEF t, m

\* Compacted, Written and the file after an append, from their fields.
LEMMA Files ==
    ASSUME NEW s \in Seq(Events), NEW e \in Events
    PROVE  /\ Compacted(s) = File(s, FALSE, Steps(s))
           /\ Compacted(Append(s, e)) = File(Append(s, e), FALSE, Append(Steps(s), Append(s, e)))
           /\ Written(Compacted(s), Append(s, e)) =
                 {File(s, FALSE, Steps(s)), File(s, FALSE, Append(Steps(s), Append(s, e))),
                  File(Append(s, e), FALSE, Append(Steps(s), Append(s, e))),
                  File(s, TRUE, Append(Steps(s), Append(s, e)))}
           /\ [Compacted(s) EXCEPT !.header = Append(s, e), !.frames = Append(@, Append(s, e))]
                 = Compacted(Append(s, e))
<1> DEFINE t == Append(s, e)
           g == Append(Steps(s), t)
<1>1. Compacted(s) = File(s, FALSE, Steps(s))
  BY DEF Compacted, File, Steps
<1>2. Compacted(t) = File(t, FALSE, g)
  <2>1. Compacted(t) = File(t, FALSE, Steps(t))
    BY DEF Compacted, File, Steps
  <2> QED BY <2>1, StepsOne
<1>3. [Compacted(s) EXCEPT !.header = t, !.frames = Append(@, t)] = File(t, FALSE, g)
  <2> DEFINE F == File(s, FALSE, Steps(s))
  <2>1. [F EXCEPT !.header = t, !.frames = Append(@, t)] = [[F EXCEPT !.header = t] EXCEPT !.frames = g]
    BY DEF File
  <2> DEFINE no == FALSE
             G == File(s, no, Steps(s))
  <2> HIDE DEF t, g, no
  <2>2. [G EXCEPT !.header = t] = File(t, no, Steps(s))
    BY DEF File
  <2>3. [File(t, no, Steps(s)) EXCEPT !.frames = g] = File(t, no, g)
    BY DEF File
  <2>4. [[G EXCEPT !.header = t] EXCEPT !.frames = g] = File(t, no, g)
    BY <2>2, <2>3
  <2> QED BY <1>1, <2>1, <2>4 DEF no
<1>4. Written(Compacted(s), t) = {File(s, FALSE, Steps(s)), File(s, FALSE, g), File(t, FALSE, g), File(s, TRUE, g)}
  <2> DEFINE F == File(s, FALSE, Steps(s))
             R == [F EXCEPT !.frames = Append(@, t)]
  <2>1. R = [F EXCEPT !.frames = g]
    BY DEF File
  <2>2. Written(F, t) = {F, R, [R EXCEPT !.header = t], [R EXCEPT !.torn = TRUE]}
    BY DEF Written
  <2> HIDE DEF t, g, R
  <2> DEFINE no == FALSE
             yes == TRUE
  <2>3. R = File(s, no, g)
    BY <2>1 DEF File
  <2>4. [R EXCEPT !.header = t] = File(t, no, g)
    <3> HIDE DEF no
    <3> QED BY <2>3 DEF File
  <2>5. [R EXCEPT !.torn = yes] = File(s, yes, g)
    <3> HIDE DEF no, yes
    <3> QED BY <2>3 DEF File
  <2> QED BY <1>1, <2>2, <2>3, <2>4, <2>5
<1> HIDE DEF g
<1> QED BY <1>1, <1>2, <1>3, <1>4 DEF g

\* The events give this desk.
Gives(s, d) == s \in Seq(Events) /\ reconstruct(s).ok /\ reconstruct(s).desk = d

\* The events in memory give the desk.  The file holds them, and when the
\* journal is poisoned perhaps a part of one more that the desk could take.
Booked ==
    /\ Gives(known, desk)
    /\ poisoned \in BOOLEAN
    /\ ~poisoned => file = Compacted(known)
    /\ poisoned => \E e \in Events : May(desk, e) /\ file \in Written(Compacted(known), Append(known, e))

\* One more event gives the desk that has taken it.
LEMMA GivesOne ==
    ASSUME NEW s, NEW d, Gives(s, d), NEW e \in Events, replays(d, e)
    PROVE  Gives(Append(s, e), replay(d, e))
<1>1. reconstruct(Append(s, e)) = Took(reconstruct(s), e)
  BY ReconstructOne DEF Gives
<1> DEFINE r == reconstruct(s)
           n == replay(d, e)
<1>2. r.ok /\ r.desk = d
  BY DEF Gives
<1> HIDE DEF r, n
<1>3. Took(r, e) = [ok |-> TRUE, desk |-> n]
  BY <1>2 DEF Took, n
<1>4. Append(s, e) \in Seq(Events)
  BY DEF Gives
<1>5. Took(r, e).ok /\ Took(r, e).desk = n
  BY <1>3
<1> QED BY <1>1, <1>4, <1>5 DEF Gives, r, n

\* load_frames accepts a file whose frames begin with those of its header.
LEMMA Loads ==
    ASSUME NEW s \in Seq(Events), NEW e \in Events
    PROVE  /\ loads(Compacted(s))
           /\ loads(File(s, FALSE, Append(Steps(s), Append(s, e))))
<1> DEFINE t == Append(s, e)
           S == Steps(s)
<1>1. S \in Seq(Seq(Events)) /\ Len(S) = Len(s) /\ Len(s) \in Nat /\ DOMAIN s = 1 .. Len(s) /\ t \in Seq(Events)
  BY StepsOne
<1>2. \A i \in 1 .. Len(s) : S[i] = SubSeq(s, 1, i)
  BY DEF Steps
<1>3. Compacted(s) = File(s, FALSE, S)
  BY Files
<1> HIDE DEF S, t
<1>4. Len(Append(S, t)) = Len(s) + 1 /\ \A i \in 1 .. Len(s) : Append(S, t)[i] = S[i]
  BY <1>1
<1> DEFINE f == File(s, FALSE, S)
           g == File(s, FALSE, Append(S, t))
<1>5. f.header = s /\ f.frames = S /\ ~f.torn
  BY DEF File
<1>6. g.header = s /\ g.frames = Append(S, t) /\ ~g.torn
  BY DEF File
<1> HIDE DEF f, g
<1>7. loads(f)
  BY <1>1, <1>2, <1>5 DEF loads
<1>8. loads(g)
  BY <1>1, <1>2, <1>4, <1>6 DEF loads
<1> QED BY <1>3, <1>7, <1>8 DEF f, g, S, t

\* What can be on disk: the events in memory, or those and one more; unless
\* the header is cut off the next process reads one or the other.
LEMMA BookedFile ==
    ASSUME Booked
    PROVE  file.torn \/
           /\ loads(file)
           /\ \/ file.header = known
              \/ \E e \in Events : May(desk, e) /\ file.header = Append(known, e)
<1>1. known \in Seq(Events) /\ poisoned \in BOOLEAN
  BY DEF Booked, Gives
<1>2. CASE ~poisoned
  <2>0. file = Compacted(known)
    BY <1>2 DEF Booked
  <2>1. loads(file)
    <3>1. [kind |-> "Slash", index |-> 0] \in Events
      BY DEF Events, Slashes
    <3> QED BY <1>1, <2>0, <3>1, Loads
  <2>2. file.header = known
    BY <2>0 DEF Compacted
  <2> QED BY <2>1, <2>2
<1>3. CASE poisoned
  <2>1. PICK e \in Events : May(desk, e) /\ file \in Written(Compacted(known), Append(known, e))
    BY <1>3 DEF Booked
  <2> DEFINE t == Append(known, e)
             g == Append(Steps(known), t)
  <2>2. \/ file = Compacted(known) \/ file = File(known, FALSE, g)
        \/ file = Compacted(t) \/ file = File(known, TRUE, g)
    <3>1. Written(Compacted(known), t) =
             {File(known, FALSE, Steps(known)), File(known, FALSE, g), File(t, FALSE, g), File(known, TRUE, g)}
      BY <1>1, Files, Zenon
    <3>2. Compacted(known) = File(known, FALSE, Steps(known)) /\ Compacted(t) = File(t, FALSE, g)
      BY <1>1, Files, Zenon
    <3> HIDE DEF t, g
    <3> QED BY <2>1, <3>1, <3>2, Zenon DEF t
  <2>3. t \in Seq(Events)
    BY <1>1
  <2>4. loads(Compacted(known)) /\ loads(File(known, FALSE, g))
    BY <1>1, Loads
  <2> HIDE DEF t, g
  <2>5. loads(Compacted(t))
    BY <2>3, Loads
  <2>6. CASE file = Compacted(known)
    <3>1. file.header = known
      BY <2>6 DEF Compacted
    <3> QED BY <2>4, <2>6, <3>1
  <2>7. CASE file = File(known, FALSE, g)
    <3>1. file.header = known
      BY <2>7 DEF File
    <3> QED BY <2>4, <2>7, <3>1
  <2>8. CASE file = Compacted(t)
    <3>1. file.header = t
      BY <2>8 DEF Compacted
    <3> QED BY <2>1, <2>5, <2>8, <3>1 DEF t
  <2>9. CASE file = File(known, TRUE, g)
    <3>1. file.torn
      BY <2>9 DEF File
    <3> QED BY <3>1
  <2> QED BY <2>2, <2>6, <2>7, <2>8, <2>9
<1> QED BY <1>1, <1>2, <1>3

\* An event that is appended.
LEMMA BookedAppended ==
    ASSUME Booked, NEW e \in Events, May(desk, e), Appended(e), desk' = replay(desk, e)
    PROVE  Booked'
<1> DEFINE t == Append(known, e)
<1>1. ~poisoned /\ known' = t /\ poisoned' = poisoned
  BY DEF Appended
<1>2. Gives(t, desk')
  BY GivesOne DEF Booked, May
<1>3. known \in Seq(Events) /\ file = Compacted(known)
  BY <1>1 DEF Booked, Gives
<1>4. file' = [file EXCEPT !.header = t, !.frames = Append(@, t)]
  BY DEF Appended
<1>5. file' = Compacted(t)
  <2>1. file' = [Compacted(known) EXCEPT !.header = Append(known, e), !.frames = Append(@, Append(known, e))]
    BY <1>3, <1>4
  <2> QED BY <1>3, <2>1, Files
<1> HIDE DEF t
<1> QED BY <1>1, <1>2, <1>5 DEF Booked

\* An append that fails.
LEMMA BookedFails ==
    ASSUME Booked, NEW e \in Events, May(desk, e), AppendFails(e), desk' = desk
    PROVE  Booked'
<1>1. known' = known /\ Gives(known', desk') /\ poisoned \in BOOLEAN
  BY DEF AppendFails, Booked
<1>2. CASE poisoned /\ file' = file /\ poisoned' = poisoned
  BY <1>1, <1>2 DEF Booked
<1>3. CASE ~poisoned /\ file' = Compacted(known) /\ poisoned' = poisoned
  BY <1>1, <1>3 DEF Booked
<1>4. CASE ~poisoned /\ file' \in Written(file, Append(known, e)) /\ poisoned' = TRUE
  <2>1. file = Compacted(known)
    BY <1>4 DEF Booked
  <2> QED BY <1>1, <1>4, <2>1 DEF Booked
<1> QED BY <1>2, <1>3, <1>4 DEF AppendFails

\* A restart forgets nothing and may find an append that was cut off done.
LEMMA BookedRestart ==
    ASSUME Booked, Restart
    PROVE  /\ Booked'
           /\ desk' = desk \/ \E e \in Events : May(desk, e) /\ desk' = replay(desk, e)
<1>1. /\ loads(file) /\ file' = Compacted(file.header) /\ known' = file.header /\ poisoned' = FALSE
      /\ desk' = reconstruct(file.header).desk
  BY DEF Restart, StartsOn
<1>2. ~file.torn
  BY <1>1 DEF loads
<1>3. CASE file.header = known
  <2>1. Gives(known', desk') /\ desk' = desk
    BY <1>1, <1>3 DEF Booked, Gives
  <2> QED BY <1>1, <2>1 DEF Booked
<1>4. CASE \E e \in Events : May(desk, e) /\ file.header = Append(known, e)
  <2>1. PICK e \in Events : May(desk, e) /\ file.header = Append(known, e)
    BY <1>4
  <2>2. Gives(Append(known, e), replay(desk, e))
    BY <2>1, GivesOne DEF Booked, May
  <2>3. desk' = replay(desk, e) /\ Gives(known', desk')
    BY <1>1, <2>1, <2>2 DEF Gives
  <2> QED BY <1>1, <2>1, <2>3 DEF Booked
<1> QED BY <1>2, <1>3, <1>4, BookedFile

-----------------------------------------------------------------------------
(* The payout proofs that are kept *)

Kept(refs, s, x) == IF x.ref \in refs THEN Append(s, x) ELSE s

KeptUpto(refs, s, f) ==
    [n \in 0 .. Len(s) |-> IF n = 0 THEN <<>> ELSE Kept(refs, f[n - 1], s[n])]

\* naming is the last value of a function that is its own KeptUpto.
LEMMA NamingIs ==
    ASSUME NEW refs, NEW s
    PROVE  naming(refs, s) = (CHOOSE f : f = KeptUpto(refs, s, f))[Len(s)]
<1> DEFINE U(f) == [n \in 0 .. Len(s) |->
                       IF n = 0 THEN <<>>
                       ELSE IF s[n].ref \in refs THEN Append(f[n - 1], s[n]) ELSE f[n - 1]]
<1>1. naming(refs, s) = (CHOOSE f : f = U(f))[Len(s)]
  BY Zenon DEF naming
<1>2. \A f : U(f) = KeptUpto(refs, s, f)
  BY Zenon DEF KeptUpto, Kept
<1> HIDE DEF U
<1>3. (CHOOSE f : f = U(f)) = (CHOOSE f : f = KeptUpto(refs, s, f))
  BY <1>2
<1> QED BY <1>1, <1>3

\* A function that is its own KeptUpto exists, by induction on the length.
LEMMA KeptExists ==
    ASSUME NEW refs, NEW s, Len(s) \in Nat
    PROVE  \E f : f = KeptUpto(refs, s, f)
<1> DEFINE G(n, f) == f = [k \in 0 .. n |-> IF k = 0 THEN <<>> ELSE Kept(refs, f[k - 1], s[k])]
           N == {n \in Nat : \E f : G(n, f)}
<1>1. 0 \in N
  <2> DEFINE f == [k \in 0 .. 0 |-> <<>>]
  <2>1. G(0, f)
    OBVIOUS
  <2> HIDE DEF G
  <2> QED BY <2>1
<1>2. ASSUME NEW n \in N PROVE n + 1 \in N
  <2>1. PICK f : G(n, f)
    OBVIOUS
  <2> DEFINE g == [k \in 0 .. (n + 1) |-> IF k = 0 THEN <<>> ELSE Kept(refs, f[k - 1], s[k])]
  <2>2. \A k \in 0 .. n : g[k] = f[k]
    BY <2>1
  <2>3. \A k \in 0 .. (n + 1) : k # 0 => k - 1 \in 0 .. n
    OBVIOUS
  <2>4. G(n + 1, g)
    BY <2>2, <2>3
  <2> HIDE DEF G
  <2> QED BY <2>4
<1>3. N = Nat
  <2> HIDE DEF N
  <2>1. N \in SUBSET Nat
    BY DEF N
  <2> QED BY <1>1, <1>2, <2>1, Induct
<1>4. PICK f : G(Len(s), f)
  BY <1>3
<1> QED BY <1>4 DEF KeptUpto

\* Everything that names one of the burns is kept, and nothing is added.
LEMMA NamingKeeps ==
    ASSUME NEW refs, NEW s \in Seq(Releases)
    PROVE  /\ naming(refs, s) \in Seq(Releases)
           /\ Len(naming(refs, s)) <= Len(s)
           /\ \A r \in Range(s) : r.ref \in refs => r \in Range(naming(refs, s))
           /\ \A k \in 1 .. Len(naming(refs, s)) : naming(refs, s)[k].ref \in refs
<1> DEFINE f == CHOOSE h : h = KeptUpto(refs, s, h)
           m == Len(s)
<1>1. m \in Nat /\ DOMAIN s = 1 .. m /\ \A k \in 1 .. m : s[k] \in Releases
  OBVIOUS
<1>2. f = KeptUpto(refs, s, f)
  BY <1>1, KeptExists, Zenon
<1>3. naming(refs, s) = f[m]
  BY NamingIs, Zenon
<1> HIDE DEF f
<1>4. f[0] = <<>> /\ \A n \in Nat : n + 1 <= m => f[n + 1] = Kept(refs, f[n], s[n + 1])
  <2>1. f[0] = <<>>
    BY <1>1, <1>2 DEF KeptUpto
  <2>2. \A n \in Nat : n + 1 <= m => n + 1 \in 0 .. m /\ n + 1 # 0 /\ (n + 1) - 1 = n
    BY <1>1
  <2> QED BY <1>2, <2>1, <2>2 DEF KeptUpto
<1> DEFINE P(n) == /\ f[n] \in Seq(Releases) /\ Len(f[n]) <= n
                   /\ \A k \in 1 .. n : s[k].ref \in refs => \E j \in 1 .. Len(f[n]) : f[n][j] = s[k]
                   /\ \A j \in 1 .. Len(f[n]) : f[n][j].ref \in refs
           N == {n \in Nat : n <= m => P(n)}
<1>5. 0 \in N
  <2>1. /\ f[0] \in Seq(Releases) /\ Len(f[0]) = 0 /\ 1 .. Len(f[0]) = {} /\ 1 .. 0 = {}
    BY <1>4
  <2>2. P(0)
    BY <2>1
  <2> HIDE DEF P
  <2> QED BY <2>2
<1>6. ASSUME NEW n \in N PROVE n + 1 \in N
  <2> SUFFICES ASSUME n + 1 <= m PROVE P(n + 1)
    <3> HIDE DEF P
    <3> QED OBVIOUS
  <2>1. n \in Nat /\ P(n)
    BY <1>1
  <2> DEFINE a == f[n]
             b == f[n + 1]
             x == s[n + 1]
  <2>2. b = Kept(refs, a, x) /\ x \in Releases /\ n \in Nat
    BY <1>1, <1>4, <2>1
  <2>3. a \in Seq(Releases) /\ Len(a) <= n /\ Len(a) \in Nat
    BY <2>1
  <2>4. \A k \in 1 .. n : s[k].ref \in refs => \E j \in 1 .. Len(a) : a[j] = s[k]
    BY <2>1
  <2>5. \A j \in 1 .. Len(a) : a[j].ref \in refs
    BY <2>1
  <2>6. \A k \in 1 .. (n + 1) : k \in 1 .. n \/ k = n + 1
    BY <2>2
  <2> HIDE DEF P, N
  <2>7. CASE x.ref \in refs
    <3>1. b = Append(a, x)
      BY <2>2, <2>7 DEF Kept
    <3> HIDE DEF a, b
    <3>2. b \in Seq(Releases) /\ Len(b) = Len(a) + 1 /\ b[Len(a) + 1] = x /\ \A j \in 1 .. Len(a) : b[j] = a[j]
      BY <2>2, <2>3, <3>1
    <3> HIDE DEF x
    <3>3. \A k \in 1 .. n : s[k].ref \in refs => \E j \in 1 .. Len(b) : b[j] = s[k]
      BY <2>3, <2>4, <3>2
    <3>4. \E j \in 1 .. Len(b) : b[j] = x
      BY <2>3, <3>2
    <3>5. \A j \in 1 .. Len(b) : b[j].ref \in refs
      BY <2>3, <2>5, <2>7, <3>2
    <3>6. Len(b) <= n + 1
      BY <2>2, <2>3, <3>2
    <3> QED BY <2>6, <3>2, <3>3, <3>4, <3>5, <3>6 DEF P, b, x
  <2>8. CASE x.ref \notin refs
    <3>1. b = a
      BY <2>2, <2>8 DEF Kept
    <3>2. Len(a) <= n + 1
      BY <2>2, <2>3
    <3> QED BY <2>3, <2>4, <2>5, <2>6, <2>8, <3>1, <3>2 DEF P
  <2> QED BY <2>7, <2>8
<1>7. N = Nat
  <2> HIDE DEF N
  <2>1. N \in SUBSET Nat
    BY DEF N
  <2> QED BY <1>5, <1>6, <2>1, Induct
<1>8. P(m)
  BY <1>1, <1>7
<1> DEFINE y == naming(refs, s)
<1>9. /\ y \in Seq(Releases) /\ Len(y) <= m
      /\ \A k \in 1 .. m : s[k].ref \in refs => \E j \in 1 .. Len(y) : y[j] = s[k]
      /\ \A j \in 1 .. Len(y) : y[j].ref \in refs
  BY <1>3, <1>8
<1> HIDE DEF y
<1>10. \A r \in Range(s) : r.ref \in refs => r \in Range(y)
  <2>1. DOMAIN y = 1 .. Len(y)
    BY <1>9
  <2> QED BY <1>1, <1>9, <2>1 DEF Range
<1> QED BY <1>9, <1>10 DEF y

\* The least of a set of naturals.
LEMMA MinIn ==
    ASSUME NEW T, T \subseteq Nat, T # {}
    PROVE  Min(T) \in T /\ \A y \in T : Min(T) <= y
<1>1. \E x \in T : \A y \in T : x <= y
  BY LeastNatural
<1> QED BY <1>1, Zenon DEF Min

-----------------------------------------------------------------------------
(* Every step moves the desk and the journal together *)

Entries == Proofs \X Nat

Typed ==
    /\ scanned \in Nat /\ pending \in Seq(Entries) /\ work \in Seq(Entries)
    /\ phase \in {"drive", "settle", "slash"}
    /\ now \in Nat /\ clock \in Nat
    /\ held \in Seq(Releases) /\ queue \in Seq(Releases)
    /\ todo \subseteq settleable(desk)
    /\ phase # "drive" => work = <<>>

DeskInv == Good(desk) /\ Booked /\ Typed

\* An event is appended and taken, or its append fails.
Recorded(e) == May(desk, e) /\ Appended(e) /\ desk' = replay(desk, e)
Missed(e) == May(desk, e) /\ AppendFails(e) /\ desk' = desk
Moved(E) == UNCHANGED <<journal, desk>> \/ \E e \in E : Recorded(e) \/ Missed(e)

\* Such a step keeps the desk good and the journal booked: what was written
\* and what the desk took are the same event.
LEMMA MovedKeeps ==
    ASSUME Good(desk), Booked, NEW E \in SUBSET Events, Moved(E)
    PROVE  /\ Good(desk)' /\ Booked'
           /\ desk' = desk \/ \E e \in E : May(desk, e) /\ desk' = replay(desk, e)
<1>1. CASE UNCHANGED <<journal, desk>>
  BY <1>1 DEF journal, Good, Booked
<1>2. ASSUME NEW e \in E, Recorded(e)
      PROVE  /\ Good(desk)' /\ Booked' /\ May(desk, e) /\ desk' = replay(desk, e)
  <2>1. e \in Events /\ May(desk, e) /\ Appended(e) /\ desk' = replay(desk, e)
    BY <1>2 DEF Recorded
  <2>2. Good(desk')
    BY <2>1, ReplayGood
  <2> QED BY <2>1, <2>2, BookedAppended
<1>3. ASSUME NEW e \in E, Missed(e)
      PROVE  Good(desk)' /\ Booked' /\ desk' = desk
  <2>1. e \in Events /\ May(desk, e) /\ AppendFails(e) /\ desk' = desk
    BY <1>3 DEF Missed
  <2> QED BY <2>1, BookedFails
<1> QED BY <1>1, <1>2, <1>3 DEF Moved

\* open_exit opens an exit that reconstruct will accept.
LEMMA OpenMay ==
    ASSUME NEW d, Good(d), NEW p \in Proofs, NEW at \in Nat, open_error(d, p) = "none"
    PROVE  /\ OpenEvent(d, p, at) \in Opens /\ May(d, OpenEvent(d, p, at))
           /\ OpenEvent(d, p, at).ref = p.burn.ref
           /\ Opened(d, OpenEvent(d, p, at)) = replay(d, OpenEvent(d, p, at))
<1> DEFINE e == OpenEvent(d, p, at)
           q == required_collateral(p.burn.amount)
           v == lock_any(d, q)
<1>1. d \in Desks /\ p.burn \in Burns /\ p.burn.ref \in Refs /\ p.verdict \in Verdicts
  BY DEF Good, Proofs, Refs
<1>2. p.burn.ref \notin d.consumed /\ fitting(d, q) # {} /\ ~ledger_full(d)
  BY <1>1 DEF open_error, Verdicts
<1>3. q \in Nat
  BY <1>1, RequiredIsNatural
<1> HIDE DEF q
<1>4. v \in Vaults /\ d.free[v] >= q
  BY <1>1, <1>2, <1>3, LockAnyFits
<1> HIDE DEF v
<1>5. at + Window \in Nat /\ Len(d.exits) + 1 \in Nat
  BY <1>1, DeskAssumption, DeskFields
<1>6. /\ e.kind = "Open" /\ e.index = Len(d.exits) + 1 /\ e.ref = p.burn.ref /\ e.vault = v
      /\ e.locked = q
  BY DEF OpenEvent, q, v
<1>7. e \in Opens
  <2> DEFINE dl == at + Window
             ix == Len(d.exits) + 1
             rf == p.burn.ref
  <2>1. e = [kind |-> "Open", index |-> ix, ref |-> rf, vault |-> v, locked |-> q, deadline |-> dl]
    BY DEF OpenEvent, q, v
  <2>2. dl \in Nat /\ ix \in Nat /\ rf \in Refs
    BY <1>1, <1>5
  <2> HIDE DEF e, dl, ix, rf
  <2> QED BY <1>3, <1>4, <2>1, <2>2 DEF Opens
<1> HIDE DEF e
<1>8. replays(d, e)
  BY <1>2, <1>4, <1>6 DEF replays
<1>9. e \notin Settles
  BY <1>6 DEF Settles
<1>10. replay(d, e) = Opened(d, e)
  BY <1>7, ByKind
<1> QED BY <1>6, <1>7, <1>8, <1>9, <1>10 DEF May, e

\* A letter is one that reconstruct will accept.
LEMMA LetterMay ==
    ASSUME NEW d, Good(d), NEW b \in Burns
    PROVE  /\ DeadEvent(d, b) \in Letters /\ May(d, DeadEvent(d, b))
           /\ DeadEvent(d, b).ref = b.ref
           /\ Lettered(d, b.ref) = replay(d, DeadEvent(d, b))
<1> DEFINE e == DeadEvent(d, b)
<1>1. d \in Desks /\ b.ref \in Refs
  BY DEF Good, Refs
<1>2. Len(d.dead) + 1 \in Nat
  BY <1>1, DeskFields
<1>3. e.kind = "DeadLetter" /\ e.index = Len(d.dead) + 1 /\ e.ref = b.ref
  BY DEF DeadEvent
<1>4. e \in Letters
  BY <1>1, <1>2 DEF DeadEvent, Letters
<1> HIDE DEF e
<1>5. replays(d, e) /\ e \notin Settles
  BY <1>3 DEF replays, Settles
<1>6. replay(d, e) = Lettered(d, e.ref)
  BY <1>4, ByKind
<1> QED BY <1>3, <1>4, <1>5, <1>6 DEF May, e

\* A payout that confirm finds is of the exit's burn.
LEMMA ConfirmIs ==
    ASSUME Typed, NEW i, payouts(i) # {}
    PROVE  confirm(i) \in Releases /\ confirm(i).ref = desk.exits[i].ref
<1> DEFINE T == payouts(i)
<1>1. held \in Seq(Releases) /\ DOMAIN held = 1 .. Len(held) /\ Len(held) \in Nat
  BY DEF Typed
<1>2. T \subseteq Nat /\ T \subseteq DOMAIN held /\ T # {}
  BY <1>1 DEF payouts
<1> HIDE DEF T
<1>3. Min(T) \in T
  BY <1>2, MinIn
<1> QED BY <1>1, <1>2, <1>3 DEF confirm, payouts, T

\* What settle writes may be taken, and gives the desk that settle makes.
LEMMA SettleMay ==
    ASSUME Good(desk), Typed, NEW i \in settleable(desk), ~unproven(i), ~ledger_full(desk)
    PROVE  /\ SettleEvent(i, confirm(i).tx) \in Settles /\ May(desk, SettleEvent(i, confirm(i).tx))
           /\ SettleEvent(i, confirm(i).tx).index = i
           /\ Settled(desk, i, confirm(i).tx) = replay(desk, SettleEvent(i, confirm(i).tx))
<1> DEFINE r == confirm(i)
           e == SettleEvent(i, r.tx)
<1>1. r.tx \notin desk.consumed /\ r \in Releases /\ r.ref = desk.exits[i].ref
  BY ConfirmIs DEF unproven
<1> HIDE DEF r
<1>2. desk \in Desks /\ i \in Nat
  <2>1. desk \in Desks
    BY DEF Good
  <2> QED BY <2>1, ClosedIs
<1>3. e.kind = "Settle" /\ e.index = i /\ e.foreign_ref = r.tx
  BY DEF SettleEvent
<1>4. e \in Settles
  BY <1>1, <1>2 DEF SettleEvent, Settles, Txs
<1> HIDE DEF e
<1>5. replays(desk, e)
  BY <1>1, <1>3 DEF replays
<1>6. replay(desk, e) = Settled(desk, i, r.tx)
  BY <1>3, <1>4, ByKind
<1>7. May(desk, e)
  BY <1>1, <1>3, <1>5 DEF May
<1> QED BY <1>3, <1>4, <1>6, <1>7 DEF e, r

\* What close_overdue writes when it slashes may be taken, and gives the desk
\* that it makes.
LEMMA SlashMay ==
    ASSUME Good(desk), NEW i \in settleable(desk)
    PROVE  /\ SlashEvent(i) \in Slashes /\ May(desk, SlashEvent(i))
           /\ SlashEvent(i).index = i
           /\ Slashed(desk, i) = replay(desk, SlashEvent(i))
<1> DEFINE e == SlashEvent(i)
<1>2. desk \in Desks /\ i \in Nat
  <2>1. desk \in Desks
    BY DEF Good
  <2> QED BY <2>1, ClosedIs
<1>3. e.kind = "Slash" /\ e.index = i
  BY DEF SlashEvent
<1>4. e \in Slashes
  BY <1>2 DEF SlashEvent, Slashes
<1> HIDE DEF e
<1>5. replays(desk, e) /\ e \notin Settles
  BY <1>3 DEF replays, Settles
<1>6. replay(desk, e) = Slashed(desk, i)
  BY <1>3, <1>4, ByKind
<1> QED BY <1>3, <1>4, <1>5, <1>6 DEF May, e

\* drive opens the burn, or keeps it, or it was opened or is a dead letter.
LEMMA OpenExitDoes ==
    ASSUME DeskInv, OpenExit
    PROVE  /\ Moved(Opens \cup Letters)
           /\ work # <<>> /\ Head(work) \in Entries
           /\ \/ pending' = pending /\ Head(work)[1].burn.ref \in desk'.consumed \cup Range(desk'.dead)
              \/ \E n \in Nat : pending' = Append(pending, <<Head(work)[1], n>>)
<1> DEFINE p == Head(work)[1]
           a == Head(work)[2]
           e == OpenEvent(desk, p, now)
           l == DeadEvent(desk, p.burn)
           error == open_error(desk, p)
<1>1. work \in Seq(Entries) /\ work # <<>> /\ now \in Nat
  BY DEF OpenExit, DeskInv, Typed
<1>2. Head(work) \in Entries
  BY <1>1
<1>3. p \in Proofs /\ a \in Nat /\ p.burn \in Burns
  BY <1>2 DEF Entries, Proofs
<1>4. Good(desk) /\ desk \in Desks /\ Backed(desk)
  BY DEF DeskInv, Good
<1>5. more(a) \in Nat
  BY <1>3 DEF more
<1>6. \/ /\ error = "none"
         /\ \/ Appended(e) /\ desk' = Opened(desk, e) /\ pending' = pending
            \/ AppendFails(e) /\ pending' = Append(pending, <<p, more(a)>>) /\ desk' = desk
      \/ error = "ReplayedExit" /\ UNCHANGED <<journal, desk, pending>>
      \/ error \in retryable /\ pending' = Append(pending, <<p, more(a)>>) /\ UNCHANGED <<journal, desk>>
      \/ dead_letter(p, a)
  BY DEF OpenExit
<1> HIDE DEF p, a
<1>7. CASE error = "none" /\ Appended(e) /\ desk' = Opened(desk, e) /\ pending' = pending
  <2>1. e \in Opens /\ May(desk, e) /\ e.ref = p.burn.ref /\ desk' = replay(desk, e)
    BY <1>1, <1>3, <1>4, <1>7, OpenMay
  <2> HIDE DEF e
  <2>2. Moved(Opens \cup Letters)
    BY <1>7, <2>1 DEF Moved, Recorded
  <2>3. p.burn.ref \in desk'.consumed
    <3>1. e \in Events /\ replays(desk, e)
      BY <2>1 DEF Events, May
    <3> QED BY <1>4, <2>1, <3>1, ReplayGrows
  <2> QED BY <1>1, <1>2, <1>7, <2>2, <2>3 DEF p
<1>8. CASE error = "none" /\ AppendFails(e) /\ pending' = Append(pending, <<p, more(a)>>) /\ desk' = desk
  <2>1. e \in Opens /\ May(desk, e)
    BY <1>1, <1>3, <1>4, <1>8, OpenMay
  <2> HIDE DEF e
  <2>2. Moved(Opens \cup Letters)
    BY <1>8, <2>1 DEF Moved, Missed
  <2> QED BY <1>1, <1>2, <1>5, <1>8, <2>2 DEF p
<1>9. CASE error = "ReplayedExit" /\ UNCHANGED <<journal, desk, pending>>
  <2>1. p.verdict \in Verdicts
    BY <1>3 DEF Proofs
  <2>2. p.burn.ref \in desk.consumed
    BY <1>9, <2>1 DEF open_error, Verdicts
  <2> QED BY <1>1, <1>2, <1>9, <2>2 DEF p, Moved
<1>10. CASE error \in retryable /\ pending' = Append(pending, <<p, more(a)>>) /\ UNCHANGED <<journal, desk>>
  BY <1>1, <1>2, <1>5, <1>10 DEF p, Moved
<1>11. CASE dead_letter(p, a)
  <2>0. /\ l \in Letters /\ May(desk, l) /\ l.ref = p.burn.ref
        /\ Lettered(desk, p.burn.ref) = replay(desk, l)
    BY <1>3, <1>4, LetterMay
  <2>1. \/ p.burn.ref \in Range(desk.dead) /\ UNCHANGED <<journal, desk, pending>>
        \/ pending' = Append(pending, <<p, a>>) /\ UNCHANGED <<journal, desk>>
        \/ Appended(l) /\ desk' = Lettered(desk, p.burn.ref) /\ pending' = pending
        \/ AppendFails(l) /\ pending' = Append(pending, <<p, a>>) /\ desk' = desk
    BY <1>11 DEF dead_letter, Lettered
  <2> HIDE DEF l
  <2>2. CASE p.burn.ref \in Range(desk.dead) /\ UNCHANGED <<journal, desk, pending>>
    BY <1>1, <1>2, <2>2 DEF p, Moved
  <2>3. CASE pending' = Append(pending, <<p, a>>) /\ UNCHANGED <<journal, desk>>
    BY <1>1, <1>2, <1>3, <2>3 DEF p, Moved
  <2>4. CASE Appended(l) /\ desk' = Lettered(desk, p.burn.ref) /\ pending' = pending
    <3>1. Moved(Opens \cup Letters)
      BY <2>0, <2>4 DEF Moved, Recorded
    <3>2. p.burn.ref \in Range(desk'.dead)
      <4>1. l \in Events /\ replays(desk, l)
        BY <2>0 DEF Events, May
      <4> QED BY <1>4, <2>0, <2>4, <4>1, ReplayGrows
    <3> QED BY <1>1, <1>2, <2>4, <3>1, <3>2 DEF p
  <2>5. CASE AppendFails(l) /\ pending' = Append(pending, <<p, a>>) /\ desk' = desk
    <3>1. Moved(Opens \cup Letters)
      BY <2>0, <2>5 DEF Moved, Missed
    <3> QED BY <1>1, <1>2, <1>3, <2>5, <3>1 DEF p
  <2> QED BY <2>1, <2>2, <2>3, <2>4, <2>5
<1> QED BY <1>6, <1>7, <1>8, <1>9, <1>10, <1>11

\* retry_dead_letters opens the burn, or hands it to the feed.
LEMMA RetryDoes ==
    ASSUME DeskInv, NEW b \in Burns, NEW verdict \in Verdicts, RetryDeadLetter(b, verdict)
    PROVE  /\ Moved(Opens)
           /\ \/ pending' = pending
              \/ pending' = Append(pending, <<[burn |-> b, verdict |-> verdict], 0>>)
<1> DEFINE p == [burn |-> b, verdict |-> verdict]
           e == OpenEvent(desk, p, clock)
           again == IF Len(pending) < MAX_PENDING_BURNS THEN Append(pending, <<p, 0>>) ELSE pending
           error == open_error(desk, p)
<1>1. p \in Proofs /\ clock \in Nat /\ Good(desk)
  BY DEF Proofs, DeskInv, Typed
<1>2. \/ /\ error = "none"
         /\ \/ Appended(e) /\ desk' = Opened(desk, e) /\ pending' = pending
            \/ AppendFails(e) /\ pending' = again /\ desk' = desk
      \/ error \in retryable /\ pending' = again /\ UNCHANGED <<journal, desk>>
  BY DEF RetryDeadLetter
<1>3. again = pending \/ again = Append(pending, <<p, 0>>)
  OBVIOUS
<1> HIDE DEF p, again
<1>4. error = "none" => e \in Opens /\ May(desk, e) /\ Opened(desk, e) = replay(desk, e)
  BY <1>1, OpenMay
<1> HIDE DEF e
<1>5. Moved(Opens)
  BY <1>2, <1>4 DEF Moved, Recorded, Missed
<1> QED BY <1>2, <1>3, <1>5 DEF p

\* The events that close an exit.
Closes(i) == {e \in Settles \cup Slashes : e.index = i}

\* settle writes an event that closes the exit, or nothing.
LEMMA SettleDoes ==
    ASSUME Good(desk), Typed, NEW i \in settleable(desk), settle(i)
    PROVE  Moved(Closes(i))
<1> DEFINE e == SettleEvent(i, confirm(i).tx)
<1>1. CASE ledger_full(desk)
  BY <1>1 DEF settle, Moved
<1>2. CASE ~ledger_full(desk)
  <2>1. ~unproven(i)
    BY DEF settle
  <2>2. e \in Closes(i) /\ May(desk, e) /\ Settled(desk, i, confirm(i).tx) = replay(desk, e)
    BY <1>2, <2>1, SettleMay DEF Closes
  <2>3. \/ Appended(e) /\ desk' = Settled(desk, i, confirm(i).tx)
        \/ AppendFails(e) /\ desk' = desk
    BY <1>2 DEF settle
  <2> HIDE DEF e
  <2> QED BY <2>2, <2>3 DEF Moved, Recorded, Missed
<1> QED BY <1>1, <1>2

\* close_overdue writes an event that closes the exit, or nothing.
LEMMA CloseDoes ==
    ASSUME Good(desk), Typed, NEW i \in settleable(desk), close_overdue(i)
    PROVE  Moved(Closes(i))
<1> DEFINE e == SlashEvent(i)
           Tried == (Appended(e) /\ desk' = Slashed(desk, i)) \/ (AppendFails(e) /\ desk' = desk)
<1>1. CASE settle(i)
  BY <1>1, SettleDoes
<1>2. CASE Tried
  <2>1. e \in Closes(i) /\ May(desk, e) /\ Slashed(desk, i) = replay(desk, e)
    BY SlashMay DEF Closes
  <2> HIDE DEF e
  <2> QED BY <1>2, <2>1 DEF Moved, Recorded, Missed
<1>3. settle(i) \/ Tried
  BY DEF close_overdue
<1> HIDE DEF Tried
<1> QED BY <1>1, <1>2, <1>3

\* The gate's proofs after a sweep.
LEMMA SweepDoes ==
    ASSUME Typed, known_payouts
    PROVE  held' \in Seq(Releases) /\ queue' = <<>>
<1> DEFINE s == held \o queue
           k == naming(open_refs, s)
           x == IF Len(k) > MAX_PENDING_RELEASES THEN Len(k) - MAX_PENDING_RELEASES ELSE 0
<1>1. s \in Seq(Releases)
  BY DEF Typed
<1>2. k \in Seq(Releases)
  <2> HIDE DEF s
  <2> QED BY <1>1, NamingKeeps
<1>3. held' = SubSeq(k, x + 1, Len(k)) /\ queue' = <<>>
  BY DEF known_payouts
<1> HIDE DEF s, k
<1>4. x \in Nat
  BY <1>2, DeskAssumption
<1> HIDE DEF x
<1>5. \A j \in x + 1 .. Len(k) : k[j] \in Releases
  BY <1>2, <1>4
<1> DEFINE m == x + 1
           n == Len(k)
<1>6. m \in Int /\ n \in Int /\ \A j \in m .. n : k[j] \in Releases
  BY <1>2, <1>4, <1>5
<1> HIDE DEF m, n
<1>7. SubSeq(k, m, n) \in Seq(Releases)
  BY <1>6, SubSeqProperties
<1> QED BY <1>3, <1>7 DEF m, n

\* Has(s, b): an entry of the burn b waits in s.
Has(s, b) == \E w \in Range(s) : w[1].burn = b

\* What is in either of two sequences is in them one after the other.
LEMMA HasConcat ==
    ASSUME NEW s \in Seq(Entries), NEW t \in Seq(Entries), NEW b
    PROVE  /\ s \o t \in Seq(Entries)
           /\ Has(s, b) \/ Has(t, b) => Has(s \o t, b)
<1> DEFINE u == s \o t
<1>1. /\ u \in Seq(Entries) /\ Len(s) \in Nat /\ Len(t) \in Nat /\ DOMAIN u = 1 .. (Len(s) + Len(t))
      /\ DOMAIN s = 1 .. Len(s) /\ DOMAIN t = 1 .. Len(t)
      /\ \A i \in 1 .. Len(s) : u[i] = s[i]
      /\ \A i \in 1 .. Len(t) : u[i + Len(s)] = t[i]
  OBVIOUS
<1> HIDE DEF u
<1>2. \A i \in 1 .. Len(s) : i \in DOMAIN u
  BY <1>1
<1>3. \A i \in 1 .. Len(t) : i + Len(s) \in DOMAIN u
  BY <1>1
<1>4. Has(s, b) => Has(u, b)
  BY <1>1, <1>2 DEF Has, Range
<1>5. ASSUME Has(t, b) PROVE Has(u, b)
  <2>1. PICK i \in 1 .. Len(t) : t[i][1].burn = b
    BY <1>1, <1>5 DEF Has, Range
  <2>2. i + Len(s) \in DOMAIN u /\ u[i + Len(s)] = t[i]
    BY <1>1, <1>3
  <2> QED BY <2>1, <2>2 DEF Has, Range
<1> QED BY <1>1, <1>4, <1>5 DEF u

\* An entry that is put at the end of a list is in it, with the others.
LEMMA HasAppend ==
    ASSUME NEW s \in Seq(Entries), NEW x \in Entries, NEW b
    PROVE  /\ Append(s, x) \in Seq(Entries)
           /\ Has(s, b) => Has(Append(s, x), b)
           /\ x[1].burn = b => Has(Append(s, x), b)
<1> DEFINE u == Append(s, x)
<1>1. /\ u \in Seq(Entries) /\ Len(s) \in Nat /\ DOMAIN u = 1 .. (Len(s) + 1)
      /\ DOMAIN s = 1 .. Len(s)
      /\ \A i \in 1 .. Len(s) : u[i] = s[i]
      /\ u[Len(s) + 1] = x
  OBVIOUS
<1> HIDE DEF u
<1>2. \A i \in 1 .. Len(s) : i \in DOMAIN u
  BY <1>1
<1>3. Len(s) + 1 \in DOMAIN u
  BY <1>1
<1> QED BY <1>1, <1>2, <1>3 DEF Has, Range, u

\* A burn of a list is its first or in its rest.
LEMMA HasTail ==
    ASSUME NEW s \in Seq(Entries), s # <<>>, NEW b, Has(s, b)
    PROVE  Tail(s) \in Seq(Entries) /\ (Head(s)[1].burn = b \/ Has(Tail(s), b))
<1> DEFINE u == Tail(s)
<1>1. /\ u \in Seq(Entries) /\ Len(s) \in Nat \ {0} /\ DOMAIN u = 1 .. (Len(s) - 1)
      /\ DOMAIN s = 1 .. Len(s) /\ Head(s) = s[1]
      /\ \A i \in 1 .. (Len(s) - 1) : u[i] = s[i + 1]
  OBVIOUS
<1> HIDE DEF u
<1>2. PICK i \in 1 .. Len(s) : s[i][1].burn = b
  BY <1>1 DEF Has, Range
<1>3. CASE i = 1
  BY <1>1, <1>2, <1>3 DEF u
<1>4. CASE i # 1
  <2>1. i - 1 \in DOMAIN u /\ i - 1 \in 1 .. (Len(s) - 1) /\ (i - 1) + 1 = i
    BY <1>1, <1>4
  <2>2. u[i - 1] = s[i]
    BY <1>1, <2>1
  <2> QED BY <1>1, <1>2, <2>1, <2>2 DEF Has, Range, u
<1> QED BY <1>3, <1>4

\* poll: every burn up to the new height waits in the feed, unless it was
\* passed before or its block was hidden, and what waited before waits still.
LEMMA PollDoes ==
    ASSUME Typed, Poll
    PROVE  /\ scanned' \in Nat /\ work' \in Seq(Entries)
           /\ hidden \subseteq hidden'
           /\ \A b \in Burns : b.height <= scanned' /\ b.height \notin hidden' =>
                  b.height <= scanned \/ Has(work', b)
           /\ \A b \in Burns : Has(pending, b) => Has(work', b)
<1>1. CASE Len(pending) >= MAX_PENDING_BURNS
  BY <1>1 DEF Poll, Typed, watcher
<1>2. CASE ~(Len(pending) >= MAX_PENDING_BURNS)
  <2> DEFINE B(served) == {b \in Burns : b.height \in served}
             From(fresh, verdict) ==
                 [i \in DOMAIN fresh |-> <<[burn |-> fresh[i], verdict |-> verdict[i]], 0>>]
             Takes(h, served) ==
                 \E fresh \in ByHeight(B(served)) : \E verdict \in [DOMAIN fresh -> Verdicts] :
                    Watched(h, served) /\ work' = pending \o From(fresh, verdict)
  <2>0. PICK h \in Above(scanned) \cup {scanned} :
          \E served \in SUBSET Between(scanned, h) :
             Takes(h, served)
    BY <1>2 DEF Poll
  <2>1. PICK served \in SUBSET Between(scanned, h) :
             Takes(h, served)
    BY <2>0
  <2>2. PICK fresh \in ByHeight(B(served)) : \E verdict \in [DOMAIN fresh -> Verdicts] :
             Watched(h, served) /\ work' = pending \o From(fresh, verdict)
    BY <2>1
  <2>3. PICK verdict \in [DOMAIN fresh -> Verdicts] :
             Watched(h, served) /\ work' = pending \o From(fresh, verdict)
    BY <2>2
  <2>a. /\ scanned' = h /\ hidden' = hidden \cup (Between(scanned, h) \ served)
        /\ work' = pending \o From(fresh, verdict)
    BY <2>3 DEF Watched
  <2>4. h \in Nat /\ scanned \in Nat /\ pending \in Seq(Entries)
    BY <2>0, DeskAssumption DEF Heights, Above, Typed
  <2>5. IsFiniteSet(B(served)) /\ B(served) \subseteq Burns
    BY FS_Subset, DeskAssumption
  <2> DEFINE c == Cardinality(B(served))
  <2>6. c \in Nat
    <3> HIDE DEF B
    <3> QED BY <2>5, FS_CardinalityType
  <2>7. /\ fresh \in [1 .. c -> B(served)]
        /\ \A b \in B(served) : \E i \in 1 .. c : fresh[i] = b
    <3> HIDE DEF B
    <3>1. fresh \in Bijection(1 .. c, B(served))
      BY <2>2 DEF ByHeight
    <3> QED BY <3>1 DEF Bijection, Injection, Surjection
  <2> DEFINE x == [i \in DOMAIN fresh |-> <<[burn |-> fresh[i], verdict |-> verdict[i]], 0>>]
  <2>8. DOMAIN fresh = 1 .. c
    BY <2>7
  <2>9. \A i \in 1 .. c : x[i] \in Entries /\ x[i][1].burn = fresh[i]
    <3> TAKE i \in 1 .. c
    <3>1. fresh[i] \in Burns /\ verdict[i] \in Verdicts
      BY <2>3, <2>5, <2>7, <2>8
    <3>2. x[i] = <<[burn |-> fresh[i], verdict |-> verdict[i]], 0>>
      BY <2>8
    <3> QED BY <3>1, <3>2 DEF Entries, Proofs
  <2>10. x \in [1 .. c -> Entries]
    <3>1. x = [i \in 1 .. c |-> x[i]]
      BY <2>8
    <3> HIDE DEF x, c
    <3> QED BY <2>9, <3>1
  <2>11. x \in Seq(Entries) /\ DOMAIN x = 1 .. c
    <3>1. c \in Nat
      BY <2>6
    <3> HIDE DEF x, c
    <3> QED BY <2>10, <3>1
  <2>12. work' = pending \o x /\ scanned' = h /\ hidden' = hidden \cup (Between(scanned, h) \ served)
    BY <2>a
  <2>13. \A b \in B(served) : Has(x, b)
    <3> HIDE DEF x, c, B
    <3> QED BY <2>7, <2>9, <2>11 DEF Has, Range
  <2> HIDE DEF x
  <2>14. \A b \in Burns : b.height <= h /\ b.height \notin hidden' => b.height <= scanned \/ b \in B(served)
    BY <2>4, <2>12, DeskAssumption DEF Between, Heights
  <2> HIDE DEF B
  <2>15. pending \o x \in Seq(Entries)
    BY <2>4, <2>11, HasConcat
  <2>16. \A b : Has(pending, b) \/ Has(x, b) => Has(pending \o x, b)
    BY <2>4, <2>11, HasConcat
  <2> QED BY <2>4, <2>12, <2>13, <2>14, <2>15, <2>16
<1> QED BY <1>1, <1>2

\* A poll that fails: what the cursor passes is hidden.
LEMMA PollFailsDoes ==
    ASSUME Typed, PollFails
    PROVE  /\ scanned' \in Nat /\ hidden \subseteq hidden'
           /\ \A b \in Burns : b.height <= scanned' /\ b.height \notin hidden' => b.height <= scanned
<1>1. PICK h \in Above(scanned) \cup {scanned} : Watched(h, {})
  BY DEF PollFails
<1>2. scanned' = h /\ hidden' = hidden \cup Between(scanned, h)
  BY <1>1 DEF Watched
<1>3. h \in Nat /\ scanned \in Nat
  BY <1>1, DeskAssumption DEF Heights, Above, Typed
<1> QED BY <1>2, <1>3, DeskAssumption DEF Between, Heights

OneEvent == desk' = desk \/ \E e \in Events : May(desk, e) /\ desk' = replay(desk, e)

\* Exits that are pending stay so, but for the one that is closed.
LEMMA MovedPending ==
    ASSUME Good(desk), Booked, NEW E \in SUBSET Events, Moved(E)
    PROVE  /\ desk.consumed \subseteq desk'.consumed
           /\ Range(desk.dead) \subseteq Range(desk'.dead)
           /\ E \subseteq Opens \cup Letters => settleable(desk) \subseteq settleable(desk')
           /\ \A i : E = Closes(i) => settleable(desk) \ {i} \subseteq settleable(desk')
<1>1. desk \in Desks /\ Backed(desk)
  BY DEF Good
<1>2. CASE desk' = desk
  BY <1>2
<1>3. ASSUME NEW e \in E, May(desk, e), desk' = replay(desk, e)
      PROVE  /\ desk.consumed \subseteq desk'.consumed
             /\ Range(desk.dead) \subseteq Range(desk'.dead)
             /\ E \subseteq Opens \cup Letters => settleable(desk) \subseteq settleable(desk')
             /\ \A i : E = Closes(i) => settleable(desk) \ {i} \subseteq settleable(desk')
  <2>1. e \in Events /\ replays(desk, e)
    BY <1>3 DEF May
  <2>2. /\ desk.consumed \subseteq desk'.consumed
        /\ Range(desk.dead) \subseteq Range(desk'.dead)
        /\ settleable(desk) \ {e.index} \subseteq settleable(desk')
        /\ e \in Opens \cup Letters => settleable(desk) \subseteq settleable(desk')
    BY <1>1, <1>3, <2>1, ReplayGrows
  <2> QED BY <2>2 DEF Closes
<1>4. desk' = desk \/ \E e \in E : May(desk, e) /\ desk' = replay(desk, e)
  BY MovedKeeps
<1> QED BY <1>2, <1>3, <1>4

\* Every step keeps the invariant, and takes at most one event.
LEMMA DeskNext ==
    ASSUME DeskInv, [Next]_vars
    PROVE  DeskInv' /\ OneEvent
<1>0. Good(desk) /\ Booked /\ Typed
  BY DEF DeskInv
<1>a. /\ Opens \in SUBSET Events /\ Opens \cup Letters \in SUBSET Events
      /\ \A i : Closes(i) \in SUBSET Events
  BY DEF Events, Closes
<1>1. CASE Poll
  <2>1. UNCHANGED <<journal, desk>> /\ phase' = "drive" /\ now' = clock /\ todo' = todo /\ clock' = clock
        /\ held' = held /\ queue' = queue /\ pending' = <<>>
    BY <1>1 DEF Poll, gate
  <2>2. scanned' \in Nat /\ work' \in Seq(Entries)
    BY <1>0, <1>1, PollDoes
  <2>3. Typed'
    BY <1>0, <2>1, <2>2 DEF Typed
  <2>4. Good(desk)' /\ Booked' /\ OneEvent
    BY <1>0, <2>1 DEF journal, Booked, OneEvent
  <2> QED BY <2>3, <2>4 DEF DeskInv
<1>2. CASE PollFails
  <2>1. UNCHANGED <<journal, desk>> /\ phase' = "drive" /\ now' = clock /\ todo' = todo /\ clock' = clock
        /\ held' = held /\ queue' = queue /\ pending' = pending /\ work' = work
    BY <1>2 DEF PollFails, gate
  <2>2. scanned' \in Nat
    BY <1>0, <1>2, PollFailsDoes
  <2>3. Typed'
    BY <1>0, <2>1, <2>2 DEF Typed
  <2>4. Good(desk)' /\ Booked' /\ OneEvent
    BY <1>0, <2>1 DEF journal, Booked, OneEvent
  <2> QED BY <2>3, <2>4 DEF DeskInv
<1>3. CASE OpenExit
  <2>1. /\ Moved(Opens \cup Letters) /\ work # <<>> /\ Head(work) \in Entries
        /\ pending' = pending \/ \E n \in Nat : pending' = Append(pending, <<Head(work)[1], n>>)
    BY <1>3, OpenExitDoes
  <2>2. /\ work' = Tail(work) /\ phase' = phase /\ phase = "drive" /\ todo' = todo /\ now' = now /\ clock' = clock
        /\ held' = held /\ queue' = queue /\ scanned' = scanned
    BY <1>3 DEF OpenExit, gate, thread, watcher
  <2>3. Good(desk)' /\ Booked' /\ OneEvent
    BY <1>0, <1>a, <2>1, MovedKeeps DEF OneEvent
  <2>4. settleable(desk) \subseteq settleable(desk')
    BY <1>0, <1>a, <2>1, MovedPending
  <2>5. work' \in Seq(Entries)
    BY <1>0, <2>1, <2>2 DEF Typed
  <2>6. pending' \in Seq(Entries)
    <3>1. \A n \in Nat : <<Head(work)[1], n>> \in Entries
      BY <2>1 DEF Entries
    <3>2. pending \in Seq(Entries)
      BY <1>0 DEF Typed
    <3>3. \A x \in Entries : Append(pending, x) \in Seq(Entries)
      BY <3>2
    <3> QED BY <2>1, <3>1, <3>2, <3>3, Zenon
  <2>7. Typed'
    BY <1>0, <2>2, <2>4, <2>5, <2>6 DEF Typed
  <2> QED BY <2>3, <2>7 DEF DeskInv
<1>4. ASSUME NEW b \in Burns, NEW verdict \in Verdicts, RetryDeadLetter(b, verdict)
      PROVE  DeskInv' /\ OneEvent
  <2> DEFINE x == <<[burn |-> b, verdict |-> verdict], 0>>
  <2>1. Moved(Opens) /\ (pending' = pending \/ pending' = Append(pending, x))
    BY <1>4, RetryDoes
  <2>2. /\ work' = work /\ phase' = phase /\ todo' = todo /\ now' = now /\ clock' = clock
        /\ held' = held /\ queue' = queue /\ scanned' = scanned
    BY <1>4 DEF RetryDeadLetter, gate, thread, watcher
  <2>3. Good(desk)' /\ Booked' /\ OneEvent
    BY <1>0, <1>a, <2>1, MovedKeeps DEF OneEvent
  <2>4. settleable(desk) \subseteq settleable(desk')
    BY <1>0, <1>a, <2>1, MovedPending
  <2>6. pending' \in Seq(Entries)
    <3>1. x \in Entries
      BY DEF Entries, Proofs
    <3> HIDE DEF x
    <3> QED BY <1>0, <2>1, <3>1 DEF Typed
  <2>7. Typed'
    BY <1>0, <2>2, <2>4, <2>6 DEF Typed
  <2> QED BY <2>3, <2>7 DEF DeskInv
<1>5. CASE SweepSettle
  <2>1. /\ UNCHANGED <<journal, desk>> /\ phase' = "settle" /\ work = <<>> /\ work' = work /\ pending' = pending
        /\ scanned' = scanned /\ now' = now /\ clock' = clock /\ todo' \subseteq settleable(desk)
        /\ known_payouts
    BY <1>5 DEF SweepSettle, feed, watcher
  <2>2. held' \in Seq(Releases) /\ queue' = <<>>
    BY <1>0, <2>1, SweepDoes
  <2>3. Typed'
    BY <1>0, <2>1, <2>2 DEF Typed
  <2>4. Good(desk)' /\ Booked' /\ OneEvent
    BY <1>0, <2>1 DEF journal, Booked, OneEvent
  <2> QED BY <2>3, <2>4 DEF DeskInv
<1>6. CASE SweepSlash
  <2>1. /\ UNCHANGED <<journal, desk>> /\ phase = "settle" /\ phase' = "slash" /\ work' = work /\ pending' = pending
        /\ scanned' = scanned /\ now' = now /\ clock' = clock /\ todo' \subseteq settleable(desk)
        /\ known_payouts
    BY <1>6 DEF SweepSlash, feed, watcher, slashable
  <2>2. held' \in Seq(Releases) /\ queue' = <<>>
    BY <1>0, <2>1, SweepDoes
  <2>3. Typed'
    BY <1>0, <2>1, <2>2 DEF Typed
  <2>4. Good(desk)' /\ Booked' /\ OneEvent
    BY <1>0, <2>1 DEF journal, Booked, OneEvent
  <2> QED BY <2>3, <2>4 DEF DeskInv
<1>7. CASE SettleOne \/ CloseOne
  <2> DEFINE i == Min(todo)
  <2>1. /\ todo # {} /\ todo' = todo \ {i} /\ work' = work /\ pending' = pending /\ scanned' = scanned
        /\ phase' = phase /\ now' = now /\ clock' = clock /\ held' = held /\ queue' = queue
        /\ settle(i) \/ close_overdue(i) \/ UNCHANGED <<journal, desk>>
    BY <1>7 DEF SettleOne, CloseOne, feed, watcher, gate
  <2>2. i \in settleable(desk)
    <3>1. desk \in Desks /\ todo \subseteq settleable(desk)
      BY <1>0 DEF Good, Typed
    <3>2. todo \subseteq Nat
      BY <3>1, DeskFields DEF settleable
    <3> QED BY <2>1, <3>1, <3>2, MinIn
  <2> HIDE DEF i
  <2>3. Moved(Closes(i))
    BY <1>0, <2>1, <2>2, SettleDoes, CloseDoes DEF Moved
  <2>4. Good(desk)' /\ Booked' /\ OneEvent
    BY <1>0, <1>a, <2>3, MovedKeeps DEF OneEvent
  <2>5. settleable(desk) \ {i} \subseteq settleable(desk')
    BY <1>0, <1>a, <2>3, MovedPending
  <2>6. Typed'
    BY <1>0, <2>1, <2>5 DEF Typed
  <2> QED BY <2>4, <2>6 DEF DeskInv
<1>8. ASSUME NEW r \in Releases, SubmitBegin(r) \/ SubmitEnd(r) PROVE DeskInv' /\ OneEvent
  <2>1. /\ UNCHANGED <<journal, desk>> /\ work' = work /\ pending' = pending /\ scanned' = scanned
        /\ phase' = phase /\ now' = now /\ clock' = clock /\ held' = held /\ todo' = todo
        /\ queue' = queue \/ queue' = Pushed(queue, r, MAX_PENDING_RELEASES)
    BY <1>8 DEF SubmitBegin, SubmitEnd, feed, watcher, thread
  <2>2. queue' \in Seq(Releases)
    <3>1. queue \in Seq(Releases)
      BY <1>0 DEF Typed
    <3>2. MAX_PENDING_RELEASES \in Nat
      BY DeskAssumption
    <3>3. Pushed(queue, r, MAX_PENDING_RELEASES) \in Seq(Releases)
      <4>1. CASE queue = <<>>
        BY <4>1 DEF Pushed
      <4>2. CASE queue # <<>>
        BY <3>1, <4>2 DEF Pushed
      <4> QED BY <4>1, <4>2
    <3> QED BY <2>1, <3>1, <3>3
  <2>3. Typed'
    BY <1>0, <2>1, <2>2 DEF Typed
  <2>4. Good(desk)' /\ Booked' /\ OneEvent
    BY <1>0, <2>1 DEF journal, Booked, OneEvent
  <2> QED BY <2>3, <2>4 DEF DeskInv
<1>9. CASE Tick \/ UNCHANGED vars
  <2>1. /\ UNCHANGED <<journal, desk>> /\ work' = work /\ pending' = pending /\ scanned' = scanned
        /\ phase' = phase /\ now' = now /\ held' = held /\ todo' = todo /\ queue' = queue
        /\ clock' = clock \/ clock' = clock + 1
    BY <1>9 DEF Tick, vars, feed, watcher, thread, gate
  <2>3. Typed'
    BY <1>0, <2>1 DEF Typed
  <2>4. Good(desk)' /\ Booked' /\ OneEvent
    BY <1>0, <2>1 DEF journal, Booked, OneEvent
  <2> QED BY <2>3, <2>4 DEF DeskInv
<1>10. CASE Restart
  <2>1. Booked' /\ OneEvent
    BY <1>0, <1>10, BookedRestart DEF OneEvent
  <2>2. Good(desk)'
    <3>1. \A e \in Events : May(desk, e) => Good(replay(desk, e))
      BY <1>0, ReplayGood
    <3> QED BY <1>0, <2>1, <3>1 DEF OneEvent
  <2>3. /\ scanned' = 0 /\ pending' = <<>> /\ work' = <<>> /\ phase' = "slash" /\ todo' = {}
        /\ queue' = <<>> /\ held' = <<>> /\ now' = clock /\ clock' = clock
    BY <1>10 DEF Restart, StartsOn, Fresh
  <2>4. Typed'
    BY <1>0, <2>3 DEF Typed
  <2> QED BY <2>1, <2>2, <2>4 DEF DeskInv
<1> QED BY <1>1, <1>2, <1>3, <1>4, <1>5, <1>6, <1>7, <1>8, <1>9, <1>10 DEF Next

\* The service starts in the invariant.
LEMMA DeskStart == Init => DeskInv
<1> SUFFICES ASSUME Init PROVE DeskInv
  OBVIOUS
<1>1. /\ file = Compacted(<<>>) /\ known = <<>> /\ poisoned = FALSE /\ desk = NewDesk
      /\ scanned = 0 /\ pending = <<>> /\ work = <<>> /\ phase = "slash" /\ todo = {}
      /\ queue = <<>> /\ held = <<>> /\ now = 0 /\ clock = 0
  BY DEF Init, Fresh
<1>2. Good(desk)
  <2>1. NewDesk.exits = <<>> /\ NewDesk.consumed = {}
    BY DEF NewDesk
  <2>2. Single(NewDesk) /\ PaidFor(NewDesk)
    BY <2>1 DEF Single, PaidFor
  <2> QED BY <1>1, <2>2, NewDeskBacked DEF Good
<1>3. Gives(known, desk)
  <2>1. reconstruct(known) = Nothing /\ known \in Seq(Events)
    BY <1>1, ReconstructNone
  <2>2. Nothing.ok /\ Nothing.desk = NewDesk
    BY DEF Nothing
  <2> QED BY <1>1, <2>1, <2>2 DEF Gives
<1>4. Booked
  BY <1>1, <1>3 DEF Booked
<1>5. Typed
  BY <1>1 DEF Typed
<1> QED BY <1>2, <1>4, <1>5 DEF DeskInv

\* Every step of the service keeps the desk, its journal and the lists of the
\* thread in step: the desk is the one that the events in memory give, its
\* exits are of burns it consumed, one each, its vaults back them, a consumed
\* payout has settled the exit it names, and the file holds the same events
\* unless the journal is poisoned (exits.rs, journal.rs).
THEOREM DeskKept == Spec => []DeskInv
<1>1. DeskInv /\ [Next]_vars => DeskInv'
  BY DeskNext
<1> QED BY <1>1, DeskStart, PTL DEF Spec

\* Whatever appends failed before it stopped, the next process can start on
\* the journal that one leaves, unless a header was cut off (journal.rs:
\* append_frame, compact, load_frames; exits.rs: reconstruct).
THEOREM DeskRestarts == Spec => []RestartsUnlessTorn
<1>1. DeskInv => RestartsUnlessTorn
  <2> SUFFICES ASSUME DeskInv, ~file.torn PROVE loads(file) /\ reconstruct(file.header).ok
    BY DEF RestartsUnlessTorn
  <2>1. Booked /\ Gives(known, desk)
    BY DEF DeskInv, Booked
  <2>2. /\ loads(file)
        /\ \/ file.header = known
           \/ \E e \in Events : May(desk, e) /\ file.header = Append(known, e)
    BY <2>1, BookedFile
  <2>3. ASSUME NEW e \in Events, May(desk, e) PROVE reconstruct(Append(known, e)).ok
    <3>1. replays(desk, e)
      BY <2>3 DEF May
    <3>2. Gives(Append(known, e), replay(desk, e))
      BY <2>1, <3>1, GivesOne
    <3> QED BY <3>2 DEF Gives
  <2>4. reconstruct(known).ok
    BY <2>1 DEF Gives
  <2> QED BY <2>2, <2>3, <2>4
<1> QED BY <1>1, DeskKept, PTL

\* Collateral is neither made nor lost by any sequence of opens, settlements,
\* slashes, failed appends and restarts (vault.rs: lock_any, release, seize).
THEOREM CollateralIsKept == Spec => []VaultsBacked
<1>1. DeskInv => VaultsBacked
  BY BackedIs DEF DeskInv, Good
<1> QED BY <1>1, DeskKept, PTL

-----------------------------------------------------------------------------
(* No burn is lost *)

Waits(b) ==
    \/ b.ref \in desk.consumed \cup Range(desk.dead)
    \/ Has(pending, b) \/ Has(work, b)

\* NoBurnLost, with Waits.
LEMMA LostIs ==
    NoBurnLost <=> \A b \in Burns : b.height <= scanned /\ b.height \notin hidden => Waits(b)
  BY DEF NoBurnLost, Waits, Has

\* Every step keeps the burns that the watcher has gone past: one that is
\* taken from a list is consumed, a dead letter or in the other list, and a
\* restart begins to read at the start.
LEMMA BurnsNext ==
    ASSUME DeskInv, NoBurnLost, [Next]_vars
    PROVE  NoBurnLost'
<1>0. Good(desk) /\ Booked /\ Typed
  BY DEF DeskInv
<1>a. Opens \in SUBSET Events /\ Opens \cup Letters \in SUBSET Events /\ \A i : Closes(i) \in SUBSET Events
  BY DEF Events, Closes
<1>b. scanned \in Nat /\ pending \in Seq(Entries) /\ work \in Seq(Entries)
  BY <1>0 DEF Typed
<1> SUFFICES ASSUME NEW b \in Burns, b.height <= scanned', b.height \notin hidden' PROVE Waits(b)'
  <2>1. (\A b \in Burns : b.height <= scanned /\ b.height \notin hidden => Waits(b))' => NoBurnLost'
    BY LostIs, PTL
  <2> QED BY <2>1
<1>c. b.height <= scanned /\ b.height \notin hidden => Waits(b)
  BY LostIs
<1>d. b.height \in Nat \ {0}
  BY DeskAssumption
<1>1. CASE Poll
  <2>1. desk' = desk /\ pending' = <<>> /\ phase = "slash"
    BY <1>1 DEF Poll, Idle
  <2>2. work = <<>>
    BY <1>0, <2>1 DEF Typed
  <2>3. ~Has(work, b)
    BY <2>2 DEF Has, Range
  <2>4. /\ b.height <= scanned \/ Has(work', b)
        /\ b.height \notin hidden /\ (Has(pending, b) => Has(work', b))
    BY <1>0, <1>1, PollDoes
  <2> QED BY <1>c, <2>1, <2>3, <2>4 DEF Waits
<1>2. CASE watcher' = watcher /\ pending' = pending /\ work' = work /\ desk' = desk
  BY <1>c, <1>2 DEF Waits, watcher
<1>3. CASE OpenExit
  <2> DEFINE p == Head(work)[1]
  <2>1. /\ Moved(Opens \cup Letters) /\ work # <<>> /\ Head(work) \in Entries
        /\ \/ pending' = pending /\ p.burn.ref \in desk'.consumed \cup Range(desk'.dead)
           \/ \E n \in Nat : pending' = Append(pending, <<p, n>>)
    BY <1>3, OpenExitDoes
  <2>2. work' = Tail(work) /\ scanned' = scanned /\ hidden' = hidden
    BY <1>3 DEF OpenExit, watcher
  <2>3. desk.consumed \subseteq desk'.consumed /\ Range(desk.dead) \subseteq Range(desk'.dead)
    BY <1>0, <1>a, <2>1, MovedPending
  <2>4. Has(pending, b) => Has(pending', b)
    <3>1. \A n \in Nat : <<p, n>> \in Entries
      BY <2>1 DEF Entries
    <3>2. \A n \in Nat : Has(pending, b) => Has(Append(pending, <<p, n>>), b)
      BY <1>b, <3>1, HasAppend
    <3> QED BY <2>1, <3>2
  <2>5. Has(work, b) => p.burn = b \/ Has(work', b)
    BY <1>b, <2>1, <2>2, HasTail
  <2>6. p.burn = b => b.ref \in desk'.consumed \cup Range(desk'.dead) \/ Has(pending', b)
    <3>1. \A n \in Nat : <<p, n>> \in Entries
      BY <2>1 DEF Entries
    <3>2. \A n \in Nat : p.burn = b => Has(Append(pending, <<p, n>>), b)
      <4> TAKE n \in Nat
      <4> DEFINE x == <<p, n>>
      <4>1. x \in Entries /\ x[1] = p
        BY <3>1
      <4> HIDE DEF x, p
      <4>2. x[1].burn = b => Has(Append(pending, x), b)
        BY <1>b, <4>1, HasAppend
      <4> QED BY <4>1, <4>2 DEF x
    <3> HIDE DEF p
    <3> QED BY <2>1, <3>2
  <2> QED BY <1>c, <2>2, <2>3, <2>4, <2>5, <2>6 DEF Waits
<1>4. ASSUME NEW c \in Burns, NEW verdict \in Verdicts, RetryDeadLetter(c, verdict) PROVE Waits(b)'
  <2> DEFINE x == <<[burn |-> c, verdict |-> verdict], 0>>
  <2>1. Moved(Opens) /\ (pending' = pending \/ pending' = Append(pending, x))
    BY <1>4, RetryDoes
  <2>2. work' = work /\ scanned' = scanned /\ hidden' = hidden
    BY <1>4 DEF RetryDeadLetter, watcher
  <2>3. desk.consumed \subseteq desk'.consumed /\ Range(desk.dead) \subseteq Range(desk'.dead)
    BY <1>0, <1>a, <2>1, MovedPending
  <2>4. x \in Entries
    BY DEF Entries, Proofs
  <2> HIDE DEF x
  <2>5. Has(pending, b) => Has(pending', b)
    BY <1>b, <2>1, <2>4, HasAppend
  <2> QED BY <1>c, <2>2, <2>3, <2>5 DEF Waits
<1>5. CASE SettleOne \/ CloseOne
  <2> DEFINE i == Min(todo)
  <2>1. /\ todo # {} /\ work' = work /\ pending' = pending /\ scanned' = scanned /\ hidden' = hidden
        /\ settle(i) \/ close_overdue(i) \/ UNCHANGED <<journal, desk>>
    BY <1>5 DEF SettleOne, CloseOne, feed, watcher
  <2>2. i \in settleable(desk)
    <3>1. desk \in Desks /\ todo \subseteq settleable(desk)
      BY <1>0 DEF Good, Typed
    <3>2. todo \subseteq Nat
      BY <3>1, DeskFields DEF settleable
    <3> QED BY <2>1, <3>1, <3>2, MinIn
  <2> HIDE DEF i
  <2>3. Moved(Closes(i))
    BY <1>0, <2>1, <2>2, SettleDoes, CloseDoes DEF Moved
  <2>4. desk.consumed \subseteq desk'.consumed /\ Range(desk.dead) \subseteq Range(desk'.dead)
    BY <1>0, <1>a, <2>3, MovedPending
  <2> QED BY <1>c, <2>1, <2>4 DEF Waits
<1>6. CASE Restart
  <2>1. scanned' = 0
    BY <1>6 DEF Restart, StartsOn, Fresh
  <2> QED BY <1>d, <2>1
<1>7. CASE PollFails
  <2>1. desk' = desk /\ pending' = pending /\ work' = work
    BY <1>7 DEF PollFails
  <2>2. b.height <= scanned /\ b.height \notin hidden
    BY <1>0, <1>7, PollFailsDoes
  <2> QED BY <1>c, <2>1, <2>2 DEF Waits
<1>9. CASE SweepSettle \/ SweepSlash \/ Tick \/ UNCHANGED vars
  BY <1>2, <1>9 DEF SweepSettle, SweepSlash, Tick, vars, feed
<1>8. ASSUME NEW r \in Releases, SubmitBegin(r) \/ SubmitEnd(r) PROVE Waits(b)'
  BY <1>2, <1>8 DEF SubmitBegin, SubmitEnd, feed
<1> QED BY <1>1, <1>3, <1>4, <1>5, <1>6, <1>7, <1>8, <1>9 DEF Next

\* poll never returns to a height it has passed, and no burn at or below it
\* is forgotten by a failed append, a full queue, ledger or list of letters,
\* unless the node hid its block from the watcher
\* (feed.rs: drive and retry_dead_letters; watch.rs: poll).
THEOREM BurnsAreNotLost == Spec => []NoBurnLost
<1>1. Init => NoBurnLost
  BY DeskAssumption DEF Init, Fresh, NoBurnLost
<1>2. DeskInv /\ NoBurnLost /\ [Next]_vars => NoBurnLost'
  BY BurnsNext
<1> QED BY <1>1, <1>2, DeskKept, PTL DEF Spec

-----------------------------------------------------------------------------
(* The promise *)

StatusIn(d, ref) ==
    LET ids == {i \in DOMAIN d.exits : d.exits[i].ref = ref}
    IN IF ids = {} THEN "none" ELSE Word[d.exits[Max(ids)].state]

Status(d) == [ref \in Refs |-> StatusIn(d, ref)]
Spent(d) == d.consumed \cap Txs

\* The status of a burn is that of its one exit.
LEMMA StatusOne ==
    ASSUME NEW d \in Desks, Single(d), NEW ref
    PROVE  /\ (\A i \in DOMAIN d.exits : d.exits[i].ref # ref) => StatusIn(d, ref) = "none"
           /\ \A i \in DOMAIN d.exits : d.exits[i].ref = ref =>
                 StatusIn(d, ref) = CASE d.exits[i].state = "Pending" -> "open"
                                      [] d.exits[i].state = "Settled" -> "settled"
                                      [] d.exits[i].state = "Slashed" -> "slashed"
<1> DEFINE ids == {i \in DOMAIN d.exits : d.exits[i].ref = ref}
<1>1. ASSUME \A i \in DOMAIN d.exits : d.exits[i].ref # ref PROVE StatusIn(d, ref) = "none"
  <2>1. ids = {}
    BY <1>1
  <2> QED BY <2>1 DEF StatusIn
<1>2. ASSUME NEW i \in DOMAIN d.exits, d.exits[i].ref = ref
      PROVE  StatusIn(d, ref) = CASE d.exits[i].state = "Pending" -> "open"
                                  [] d.exits[i].state = "Settled" -> "settled"
                                  [] d.exits[i].state = "Slashed" -> "slashed"
  <2>1. ids = {i}
    BY <1>2 DEF Single
  <2>2. i \in Nat /\ d.exits[i] \in Exits
    BY DeskFields
  <2>3. Max({i}) = i
    <3>1. \E x \in {i} : \A y \in {i} : x >= y
      BY <2>2
    <3>2. Max({i}) \in {i}
      BY <3>1, Zenon DEF Max
    <3> QED BY <3>2
  <2>4. StatusIn(d, ref) = Word[d.exits[i].state]
    BY <2>1, <2>3 DEF StatusIn
  <2>5. d.exits[i].state \in {"Pending", "Settled", "Slashed"}
    BY <2>2 DEF Exits
  <2> QED BY <2>4, <2>5 DEF Word
<1> QED BY <1>1, <1>2

\* A step of ExitPromise from one desk to another.
StepsTo(d, n) ==
    \/ Status(n) = Status(d) /\ Spent(n) = Spent(d)
    \/ \E b \in Refs :
          /\ Status(d)[b] = "none" /\ Status(n) = [Status(d) EXCEPT ![b] = "open"] /\ Spent(n) = Spent(d)
    \/ \E b \in Refs :
          /\ Status(d)[b] = "open" /\ Status(n) = [Status(d) EXCEPT ![b] = "slashed"] /\ Spent(n) = Spent(d)
    \/ \E b \in Refs, p \in Txs :
          /\ Status(d)[b] = "open" /\ p \notin Spent(d)
          /\ Status(n) = [Status(d) EXCEPT ![b] = "settled"] /\ Spent(n) = Spent(d) \cup {p}

\* The status of the burns after one of them has changed.
LEMMA StatusChange ==
    ASSUME NEW d \in Desks, Single(d), NEW n \in Desks, Single(n), NEW b \in Refs, NEW word,
           StatusIn(n, b) = word,
           \A ref \in Refs : ref # b => StatusIn(n, ref) = StatusIn(d, ref)
    PROVE  Status(n) = [Status(d) EXCEPT ![b] = word]
  BY DEF Status

\* An event that the desk takes is a step of the promise.
LEMMA EventKeepsPromise ==
    ASSUME Refs \cap Txs = {}, NEW d, Good(d), NEW e \in Events, May(d, e)
    PROVE  StepsTo(d, replay(d, e))
<1> DEFINE n == replay(d, e)
<1>1. /\ d \in Desks /\ Backed(d) /\ Single(d) /\ replays(d, e)
      /\ n \in Desks /\ Single(n)
  BY ReplayGood DEF Good, May
<1>2. CASE e \in Opens
  <2> DEFINE m == Len(d.exits) + 1
             x == Opened(d, e).exits
             b == e.ref
  <2>1. n = Opened(d, e) /\ b \notin d.consumed /\ b \in Refs
    BY <1>1, <1>2, ByKind DEF Opens
  <2>2. Opened(d, e).consumed = d.consumed \cup {b}
    BY <1>1, <1>2, OpenedIs
  <2>3. /\ DOMAIN x = DOMAIN d.exits \cup {m} /\ m \notin DOMAIN d.exits
        /\ \A j \in DOMAIN d.exits : x[j] = d.exits[j]
        /\ x[m].ref = b /\ x[m].state = "Pending"
    BY <1>1, <1>2, OpenedExits
  <2> HIDE DEF n, m, b
  <2>4. n.exits = x /\ n.consumed = d.consumed \cup {b}
    BY <2>1, <2>2
  <2> HIDE DEF x
  <2>5. StatusIn(d, b) = "none"
    <3>1. \A i \in DOMAIN d.exits : d.exits[i].ref # b
      BY <1>1, <2>1 DEF Single
    <3> QED BY <1>1, <3>1, StatusOne
  <2>6. StatusIn(n, b) = "open"
    <3>1. m \in DOMAIN n.exits /\ n.exits[m].ref = b /\ n.exits[m].state = "Pending"
      BY <2>3, <2>4
    <3> QED BY <1>1, <3>1, StatusOne
  <2>7. ASSUME NEW ref \in Refs, ref # b PROVE StatusIn(n, ref) = StatusIn(d, ref)
    <3>1. {i \in DOMAIN n.exits : n.exits[i].ref = ref} = {i \in DOMAIN d.exits : d.exits[i].ref = ref}
      BY <2>3, <2>4, <2>7
    <3>2. CASE \A i \in DOMAIN d.exits : d.exits[i].ref # ref
      <4>1. \A i \in DOMAIN n.exits : n.exits[i].ref # ref
        BY <3>1, <3>2
      <4> QED BY <1>1, <3>2, <4>1, StatusOne
    <3>3. ASSUME NEW i \in DOMAIN d.exits, d.exits[i].ref = ref PROVE StatusIn(n, ref) = StatusIn(d, ref)
      <4>1. i \in DOMAIN n.exits /\ n.exits[i] = d.exits[i]
        BY <2>3, <2>4
      <4> QED BY <1>1, <3>3, <4>1, StatusOne
    <3> QED BY <3>2, <3>3
  <2>8. Status(n) = [Status(d) EXCEPT ![b] = "open"]
    BY <1>1, <2>1, <2>6, <2>7, StatusChange
  <2>9. Spent(n) = Spent(d) /\ Status(d)[b] = "none"
    BY <2>1, <2>4, <2>5 DEF Spent, Status
  <2> QED BY <2>1, <2>8, <2>9 DEF StepsTo, n
<1>3. ASSUME NEW i \in settleable(d), NEW word \in {"Settled", "Slashed"}, n.exits = Closed(d, i, word)
      PROVE  /\ d.exits[i].ref \in Refs /\ Status(d)[d.exits[i].ref] = "open"
             /\ word = "Settled" => Status(n) = [Status(d) EXCEPT ![d.exits[i].ref] = "settled"]
             /\ word = "Slashed" => Status(n) = [Status(d) EXCEPT ![d.exits[i].ref] = "slashed"]
  <2> DEFINE b == d.exits[i].ref
             said == IF word = "Settled" THEN "settled" ELSE "slashed"
  <2> HIDE DEF n
  <2>1. /\ DOMAIN n.exits = DOMAIN d.exits /\ i \in DOMAIN d.exits
        /\ d.exits[i].state = "Pending" /\ n.exits[i].state = word
        /\ \A j \in DOMAIN d.exits : n.exits[j].ref = d.exits[j].ref
        /\ \A j \in DOMAIN d.exits : j # i => n.exits[j].state = d.exits[j].state
    BY <1>1, <1>3, ClosedExits
  <2>2. b \in Refs
    <3>1. d.exits[i] \in Exits
      BY <1>1, <2>1, DeskFields
    <3> QED BY <3>1 DEF Exits
  <2>3. StatusIn(d, b) = "open"
    BY <1>1, <2>1, StatusOne
  <2>4. StatusIn(n, b) = said
    <3>1. i \in DOMAIN n.exits /\ n.exits[i].ref = b
      BY <2>1
    <3> HIDE DEF b
    <3> QED BY <1>1, <2>1, <3>1, StatusOne
  <2>5. ASSUME NEW ref \in Refs, ref # b PROVE StatusIn(n, ref) = StatusIn(d, ref)
    <3>2. CASE \A j \in DOMAIN d.exits : d.exits[j].ref # ref
      <4>1. \A j \in DOMAIN n.exits : n.exits[j].ref # ref
        BY <2>1, <3>2
      <4> QED BY <1>1, <3>2, <4>1, StatusOne
    <3>3. ASSUME NEW j \in DOMAIN d.exits, d.exits[j].ref = ref PROVE StatusIn(n, ref) = StatusIn(d, ref)
      <4>1. j \in DOMAIN n.exits /\ n.exits[j].state = d.exits[j].state /\ n.exits[j].ref = ref
        BY <2>1, <2>5, <3>3
      <4> QED BY <1>1, <3>3, <4>1, StatusOne
    <3> QED BY <3>2, <3>3
  <2> HIDE DEF b
  <2>6. Status(n) = [Status(d) EXCEPT ![b] = said]
    BY <1>1, <2>2, <2>4, <2>5, StatusChange
  <2>7. Status(d)[b] = "open"
    BY <2>2, <2>3 DEF Status
  <2> QED BY <2>2, <2>6, <2>7 DEF b
<1>4. CASE e \in Settles
  <2> DEFINE i == e.index
             t == e.foreign_ref
  <2>1. i \in settleable(d) /\ t \in Txs /\ t \notin d.consumed /\ n = Settled(d, i, t)
    BY <1>1, <1>4, ByKind DEF Settles
  <2> HIDE DEF n, i, t
  <2>2. n.exits = Closed(d, i, "Settled") /\ n.consumed = d.consumed \cup {t}
    <3>1. d \in Desks /\ Backed(d) /\ i \in settleable(d) /\ t \in Txs
      BY <1>1, <2>1
    <3>2. Settled(d, i, t).exits = Closed(d, i, "Settled") /\ Settled(d, i, t).consumed = d.consumed \cup {t}
      BY <3>1, SettledIs
    <3> QED BY <2>1, <3>2
  <2> DEFINE b == d.exits[i].ref
  <2>3. b \in Refs /\ Status(d)[b] = "open" /\ Status(n) = [Status(d) EXCEPT ![b] = "settled"]
    BY <1>3, <2>1, <2>2
  <2> HIDE DEF b
  <2>4. Spent(n) = Spent(d) \cup {t} /\ t \notin Spent(d)
    BY <2>1, <2>2 DEF Spent
  <2> QED BY <2>1, <2>3, <2>4 DEF StepsTo, n
<1>5. CASE e \in Slashes
  <2> DEFINE i == e.index
  <2>1. i \in settleable(d) /\ n = Slashed(d, i)
    BY <1>1, <1>5, ByKind
  <2> HIDE DEF n, i
  <2>2. n.exits = Closed(d, i, "Slashed") /\ n.consumed = d.consumed
    BY <1>1, <2>1, SlashedIs
  <2> DEFINE b == d.exits[i].ref
  <2>3. b \in Refs /\ Status(d)[b] = "open" /\ Status(n) = [Status(d) EXCEPT ![b] = "slashed"]
    BY <1>3, <2>1, <2>2
  <2> HIDE DEF b
  <2>4. Spent(n) = Spent(d)
    BY <2>2 DEF Spent
  <2> QED BY <2>3, <2>4 DEF StepsTo, n
<1>6. CASE e \in Letters
  <2> DEFINE r == e.ref
  <2>1. r \in Refs /\ n = Lettered(d, r)
    BY <1>6, ByKind DEF Letters
  <2> HIDE DEF n, r
  <2>2. n.exits = d.exits /\ n.consumed = d.consumed
    BY <1>1, <2>1, LetterIs
  <2>3. Status(n) = Status(d) /\ Spent(n) = Spent(d)
    BY <2>2 DEF Status, StatusIn, Spent
  <2> QED BY <2>3 DEF StepsTo, n
<1> QED BY <1>2, <1>4, <1>5, <1>6 DEF Events

\* StepsTo is a step of ExitPromise under the refinement mapping.
LEMMA PromiseNext ==
    ASSUME StepsTo(desk, desk')
    PROVE  [Promise!Next]_<<[ref \in {b.ref : b \in Burns} |-> StatusOf(ref)],
                             desk.consumed \cap {r.tx : r \in Releases}>>
<1> DEFINE s == [ref \in {b.ref : b \in Burns} |-> StatusOf(ref)]
           c == desk.consumed \cap {r.tx : r \in Releases}
<1>1. s = Status(desk) /\ c = Spent(desk) /\ s' = Status(desk') /\ c' = Spent(desk')
  BY DEF Status, StatusIn, StatusOf, Spent, Refs, Txs
<1>2. CASE Status(desk') = Status(desk) /\ Spent(desk') = Spent(desk)
  <2>1. s' = s /\ c' = c
    BY <1>1, <1>2
  <2> QED BY <2>1
<1>3. ASSUME NEW b \in Refs, Status(desk)[b] = "none",
             Status(desk') = [Status(desk) EXCEPT ![b] = "open"], Spent(desk') = Spent(desk)
      PROVE  Promise!Next
  <2>1. Promise!Open(b)
    <3>1. s[b] = "none" /\ s' = [s EXCEPT ![b] = "open"] /\ c' = c
      BY <1>1, <1>3
    <3> QED BY <3>1 DEF Promise!Open
  <2> QED BY <2>1 DEF Promise!Next, Refs
<1>4. ASSUME NEW b \in Refs, Status(desk)[b] = "open",
             Status(desk') = [Status(desk) EXCEPT ![b] = "slashed"], Spent(desk') = Spent(desk)
      PROVE  Promise!Next
  <2>1. Promise!Slash(b)
    <3>1. s[b] = "open" /\ s' = [s EXCEPT ![b] = "slashed"] /\ c' = c
      BY <1>1, <1>4
    <3> QED BY <3>1 DEF Promise!Slash
  <2> QED BY <2>1 DEF Promise!Next, Refs
<1>5. ASSUME NEW b \in Refs, NEW p \in Txs, Status(desk)[b] = "open", p \notin Spent(desk),
             Status(desk') = [Status(desk) EXCEPT ![b] = "settled"], Spent(desk') = Spent(desk) \cup {p}
      PROVE  Promise!Next
  <2>1. Promise!Settle(b, p)
    <3>1. s[b] = "open" /\ s' = [s EXCEPT ![b] = "settled"] /\ p \notin c /\ c' = c \cup {p}
      BY <1>1, <1>5
    <3> QED BY <3>1 DEF Promise!Settle
  <2> QED BY <2>1 DEF Promise!Next, Refs, Txs
<1> QED BY <1>2, <1>3, <1>4, <1>5 DEF StepsTo

\* The desk implements ExitPromise: with every failed append, stop and
\* rescan, a burn has one exit, that is closed once, by a payout that closes
\* no other.  Burns and payouts have different hashes; ledger.rs keeps both
\* in one set.
THEOREM PromiseIsKept ==
    ASSUME Refs \cap Txs = {}
    PROVE  Spec => KeepsPromise
<1> DEFINE s == [ref \in {b.ref : b \in Burns} |-> StatusOf(ref)]
           c == desk.consumed \cap {r.tx : r \in Releases}
<1>1. Init => Promise!Init
  <2> SUFFICES ASSUME Init PROVE Promise!Init
    OBVIOUS
  <2>1. desk.exits = <<>> /\ desk.consumed = {}
    BY DEF Init, NewDesk
  <2>2. \A ref : StatusOf(ref) = "none"
    BY <2>1 DEF StatusOf
  <2> QED BY <2>1, <2>2 DEF Promise!Init
<1>2. DeskInv /\ [Next]_vars => [Promise!Next]_<<s, c>>
  <2> SUFFICES ASSUME DeskInv, [Next]_vars PROVE [Promise!Next]_<<s, c>>
    OBVIOUS
  <2>1. OneEvent
    BY DeskNext
  <2>2. CASE desk' = desk
    <3>1. StepsTo(desk, desk')
      BY <2>2 DEF StepsTo
    <3> QED BY <3>1, PromiseNext
  <2>3. ASSUME NEW e \in Events, May(desk, e), desk' = replay(desk, e)
        PROVE  [Promise!Next]_<<s, c>>
    <3>1. StepsTo(desk, replay(desk, e))
      BY <2>3, EventKeepsPromise DEF DeskInv
    <3>2. StepsTo(desk, desk')
      BY <2>3, <3>1
    <3> QED BY <3>2, PromiseNext
  <2> QED BY <2>1, <2>2, <2>3 DEF OneEvent
<1> QED BY <1>1, <1>2, DeskKept, PTL DEF Spec, KeepsPromise, Promise!Spec

-----------------------------------------------------------------------------
(* A payout in time is not slashed *)

\* As many proofs as the gate can hold.
WithinLimits ==
    /\ IsFiniteSet(Releases)
    /\ Cardinality(Releases) <= MAX_PENDING_RELEASES
    /\ Cardinality(Releases) <= MAX_SEEN_RELEASES

Distinct(s) == \A i, j \in DOMAIN s : s[i] = s[j] => i = j
OpenIn(d) == {d.exits[i].ref : i \in settleable(d)}

\* The gate knows the proofs of open exits that it has taken: they are with
\* the thread or in the queue, and those taken before a sweep are with the
\* thread.  None is of a burn that is yet to be opened.
GateInv ==
    /\ seen \in Seq(Txs) /\ Distinct(seen)
    /\ Len(held) + Len(queue) <= Len(seen)
    /\ expected \subseteq desk.consumed
    /\ \A r \in submitting : r.ref \in desk.consumed
    /\ swept \subseteq Range(seen)
    /\ \A r \in Releases : r.tx \in Range(seen) =>
          /\ r.ref \in desk.consumed
          /\ r.ref \in OpenIn(desk) => r \in Range(held) \cup Range(queue)
    /\ \A r \in Releases : r.tx \in swept /\ r.ref \in OpenIn(desk) => r \in Range(held)

\* The gate has taken no more payouts than there are.
LEMMA SeenBound ==
    ASSUME WithinLimits, NEW s \in Seq(Txs), Distinct(s)
    PROVE  Len(s) \in Nat /\ Len(s) <= MAX_PENDING_RELEASES /\ Len(s) <= MAX_SEEN_RELEASES
<1> DEFINE m == Len(s)
           D == 1 .. m
           f == [k \in D |-> CHOOSE r \in Releases : r.tx = s[k]]
<1>1. m \in Nat /\ DOMAIN s = D /\ \A k \in D : s[k] \in Txs
  OBVIOUS
<1>2. \A k \in D : f[k] \in Releases /\ f[k].tx = s[k]
  <2> TAKE k \in D
  <2>1. \E r \in Releases : r.tx = s[k]
    BY <1>1 DEF Txs
  <2>2. f[k] = CHOOSE r \in Releases : r.tx = s[k]
    OBVIOUS
  <2> QED BY <2>1, <2>2, Zenon
<1>3. f \in [D -> Releases]
  <2>1. f = [k \in D |-> f[k]]
    OBVIOUS
  <2> HIDE DEF f
  <2> QED BY <1>2, <2>1
<1> HIDE DEF f
<1>4. f \in Injection(D, Releases)
  <2>1. \A i, j \in D : f[i] = f[j] => i = j
    BY <1>1, <1>2 DEF Distinct
  <2> QED BY <1>3, <2>1 DEF Injection, IsInjective
<1>5. IsFiniteSet(D) /\ Cardinality(D) = m
  <2> HIDE DEF m
  <2>1. 1 \in Int /\ m \in Int
    BY <1>1
  <2>2. IsFiniteSet(1 .. m) /\ Cardinality(1 .. m) = IF 1 > m THEN 0 ELSE m - 1 + 1
    BY <2>1, FS_Interval
  <2> QED BY <1>1, <2>2
<1>6. Cardinality(D) <= Cardinality(Releases)
  <2> HIDE DEF D
  <2> QED BY <1>4, FS_Injection DEF WithinLimits, ExistsInjection
<1>7. Cardinality(Releases) \in Nat
  BY FS_CardinalityType DEF WithinLimits
<1> HIDE DEF m, D
<1> QED BY <1>1, <1>5, <1>6, <1>7, DeskAssumption DEF WithinLimits, m

\* An exit that was closed is not opened again.
LEMMA NoReopen ==
    ASSUME NEW d, Good(d), NEW e \in Events, May(d, e)
    PROVE  /\ d.consumed \subseteq replay(d, e).consumed
           /\ \A ref \in d.consumed : ref \in OpenIn(replay(d, e)) => ref \in OpenIn(d)
<1> DEFINE n == replay(d, e)
<1>1. d \in Desks /\ Backed(d) /\ replays(d, e)
  BY DEF Good, May
<1>2. d.consumed \subseteq n.consumed
  BY <1>1, ReplayGrows
<1>3. CASE e \in Opens
  <2> DEFINE m == Len(d.exits) + 1
             x == Opened(d, e)
  <2>1. n = x /\ e.ref \notin d.consumed
    BY <1>1, <1>3, ByKind
  <2>2. settleable(x) = settleable(d) \cup {m} /\ settleable(d) \subseteq DOMAIN d.exits
    BY <1>1, <1>3, OpenedPending DEF settleable
  <2>3. x.exits[m].ref = e.ref /\ \A j \in DOMAIN d.exits : x.exits[j] = d.exits[j]
    BY <1>1, <1>3, OpenedExits
  <2> HIDE DEF n, m, x
  <2> QED BY <1>2, <2>1, <2>2, <2>3 DEF OpenIn, n
<1>4. ASSUME NEW i \in settleable(d), NEW word \in {"Settled", "Slashed"}, n.exits = Closed(d, i, word)
      PROVE  OpenIn(n) \subseteq OpenIn(d)
  <2> HIDE DEF n
  <2>1. settleable(n) = settleable(d) \ {i} /\ settleable(d) \subseteq DOMAIN d.exits
    BY <1>1, <1>4, ClosedPending DEF settleable
  <2>2. \A j \in DOMAIN d.exits : n.exits[j].ref = d.exits[j].ref
    BY <1>1, <1>4, ClosedExits
  <2> QED BY <2>1, <2>2 DEF OpenIn
<1>5. CASE e \in Settles
  <2> DEFINE i == e.index
             t == e.foreign_ref
  <2>1. i \in settleable(d) /\ t \in Txs /\ n = Settled(d, i, t)
    BY <1>1, <1>5, ByKind DEF Settles
  <2> HIDE DEF n, i, t
  <2>2. n.exits = Closed(d, i, "Settled")
    BY <1>1, <2>1, SettledIs
  <2>3. OpenIn(n) \subseteq OpenIn(d)
    BY <1>4, <2>1, <2>2
  <2> QED BY <1>2, <2>3 DEF n
<1>6. CASE e \in Slashes
  <2> DEFINE i == e.index
  <2>1. i \in settleable(d) /\ n = Slashed(d, i)
    BY <1>1, <1>6, ByKind
  <2> HIDE DEF n, i
  <2>2. n.exits = Closed(d, i, "Slashed")
    BY <1>1, <2>1, SlashedIs
  <2>3. OpenIn(n) \subseteq OpenIn(d)
    BY <1>4, <2>1, <2>2
  <2> QED BY <1>2, <2>3 DEF n
<1>7. CASE e \in Letters
  <2> DEFINE r == e.ref
  <2>1. r \in Refs /\ n = Lettered(d, r)
    BY <1>7, ByKind DEF Letters
  <2> HIDE DEF n, r
  <2>2. n.exits = d.exits
    BY <1>1, <2>1, LetterIs
  <2>3. OpenIn(n) = OpenIn(d)
    BY <2>2 DEF OpenIn, settleable
  <2> QED BY <1>2, <2>3 DEF n
<1> QED BY <1>3, <1>5, <1>6, <1>7 DEF Events

\* The gate's part is kept by a step that leaves the gate alone.
LEMMA GateAlone ==
    ASSUME DeskInv, GateInv, OneEvent, UNCHANGED gate
    PROVE  GateInv'
<1>1. desk.consumed \subseteq desk'.consumed /\ \A ref \in desk.consumed : ref \in OpenIn(desk') => ref \in OpenIn(desk)
  <2>1. CASE desk' = desk
    BY <2>1
  <2>2. ASSUME NEW e \in Events, May(desk, e), desk' = replay(desk, e)
        PROVE  desk.consumed \subseteq desk'.consumed
               /\ \A ref \in desk.consumed : ref \in OpenIn(desk') => ref \in OpenIn(desk)
    BY <2>2, NoReopen DEF DeskInv
  <2> QED BY <2>1, <2>2 DEF OneEvent
<1>2. /\ expected' = expected /\ seen' = seen /\ queue' = queue /\ held' = held
      /\ submitting' = submitting /\ swept' = swept
  BY DEF gate
<1>3. \A r \in Releases : r.tx \in swept => r.tx \in Range(seen) /\ r.ref \in desk.consumed
  BY DEF GateInv
<1> QED BY <1>1, <1>2, <1>3 DEF GateInv

\* A sweep hands every proof of an open exit to the thread.
LEMMA SweepTakes ==
    ASSUME WithinLimits, DeskInv, GateInv, known_payouts, desk' = desk
    PROVE  GateInv'
<1> DEFINE s == held \o queue
           k == naming(open_refs, s)
           x == IF Len(k) > MAX_PENDING_RELEASES THEN Len(k) - MAX_PENDING_RELEASES ELSE 0
<1>1. held \in Seq(Releases) /\ queue \in Seq(Releases)
  BY DEF DeskInv, Typed
<1>2. s \in Seq(Releases) /\ Len(s) = Len(held) + Len(queue) /\ Len(s) \in Nat
  BY <1>1
<1>3. Range(held) \cup Range(queue) \subseteq Range(s)
  <2>1. Range(s) = Range(held) \cup Range(queue)
    BY <1>1, RangeConcatenation
  <2> QED BY <2>1
<1>4. /\ k \in Seq(Releases) /\ Len(k) <= Len(s) /\ Len(k) \in Nat
      /\ \A r \in Range(s) : r.ref \in open_refs => r \in Range(k)
  <2> HIDE DEF s
  <2>1. /\ k \in Seq(Releases) /\ Len(k) <= Len(s)
        /\ \A r \in Range(s) : r.ref \in open_refs => r \in Range(k)
    BY <1>2, NamingKeeps
  <2> QED BY <2>1
<1>5. /\ held' = SubSeq(k, x + 1, Len(k)) /\ queue' = <<>> /\ expected' = open_refs /\ swept' = Range(seen)
      /\ seen' = seen /\ submitting' = submitting
  BY DEF known_payouts
<1>6. Len(seen) \in Nat /\ Len(seen) <= MAX_PENDING_RELEASES /\ Len(s) <= Len(seen)
  BY <1>2, SeenBound DEF GateInv
<1> HIDE DEF s, k
<1>7. x = 0
  BY <1>2, <1>4, <1>6, DeskAssumption
<1>8. held' = k
  <2>1. held' = SubSeq(k, 1, Len(k))
    BY <1>5, <1>7
  <2> QED BY <1>4, <2>1, SubSeqFull
<1>9. open_refs = OpenIn(desk) /\ open_refs \subseteq desk.consumed
  <2>1. open_refs = OpenIn(desk)
    BY DEF open_refs, OpenIn
  <2> QED BY <2>1 DEF OpenIn, settleable, DeskInv, Good, Single
<1>10. \A r \in Releases : r.tx \in Range(seen) =>
          r.ref \in desk.consumed /\ (r.ref \in OpenIn(desk) => r \in Range(held'))
  BY <1>3, <1>4, <1>8, <1>9 DEF GateInv
<1>11. Len(held') + Len(queue') <= Len(seen')
  <2>1. Len(held') = Len(k)
    BY <1>8
  <2>2. Len(queue') = 0
    BY <1>5
  <2>3. Len(seen') = Len(seen)
    BY <1>5
  <2> QED BY <1>4, <1>6, <2>1, <2>2, <2>3
<1> HIDE DEF x
<1> QED BY <1>5, <1>9, <1>10, <1>11 DEF GateInv

\* A proof is handed in.
LEMMA SubmitTakes ==
    ASSUME WithinLimits, DeskInv, GateInv, NEW r \in Releases, SubmitEnd(r)
    PROVE  GateInv'
<1>1. /\ r \in submitting /\ submitting' = submitting \ {r} /\ desk' = desk
      /\ expected' = expected /\ held' = held /\ swept' = swept
  BY DEF SubmitEnd
<1>2. CASE seen' = seen /\ queue' = queue
  BY <1>1, <1>2 DEF GateInv
<1>3. CASE r.tx \notin Range(seen)
  <2> DEFINE u == Append(seen, r.tx)
             q == Append(queue, r)
  <2>1. seen \in Seq(Txs) /\ queue \in Seq(Releases) /\ held \in Seq(Releases) /\ r.tx \in Txs /\ Distinct(seen)
    BY DEF GateInv, DeskInv, Typed, Txs
  <2>2. /\ u \in Seq(Txs) /\ Len(u) = Len(seen) + 1 /\ Len(seen) \in Nat
        /\ DOMAIN u = 1 .. (Len(seen) + 1) /\ DOMAIN seen = 1 .. Len(seen)
        /\ u[Len(seen) + 1] = r.tx /\ \A i \in 1 .. Len(seen) : u[i] = seen[i]
    BY <2>1
  <2>3. /\ q \in Seq(Releases) /\ Len(q) = Len(queue) + 1 /\ Len(queue) \in Nat
        /\ DOMAIN q = 1 .. (Len(queue) + 1) /\ DOMAIN queue = 1 .. Len(queue)
        /\ q[Len(queue) + 1] = r /\ \A i \in 1 .. Len(queue) : q[i] = queue[i]
    BY <2>1
  <2> HIDE DEF u, q
  <2>4. Distinct(u)
    <3> SUFFICES ASSUME NEW i \in 1 .. (Len(seen) + 1), NEW j \in 1 .. (Len(seen) + 1), u[i] = u[j]
                 PROVE  i = j
      BY <2>2 DEF Distinct
    <3>1. \A k \in 1 .. Len(seen) : seen[k] # r.tx
      BY <1>3, <2>2 DEF Range
    <3>2. CASE i \in 1 .. Len(seen) /\ j \in 1 .. Len(seen)
      BY <2>1, <2>2, <3>2 DEF Distinct
    <3>3. CASE i = Len(seen) + 1 /\ j \in 1 .. Len(seen)
      BY <2>2, <3>1, <3>3
    <3>4. CASE i \in 1 .. Len(seen) /\ j = Len(seen) + 1
      BY <2>2, <3>1, <3>4
    <3> QED BY <2>2, <3>2, <3>3, <3>4
  <2>5. Len(u) <= MAX_PENDING_RELEASES /\ Len(u) <= MAX_SEEN_RELEASES
    BY <2>2, <2>4, SeenBound
  <2>6. Len(held) + Len(queue) <= Len(seen) /\ Len(held) \in Nat
    BY <2>1 DEF GateInv
  <2>7. ~(Len(seen) >= MAX_SEEN_RELEASES) /\ ~(Len(queue) >= MAX_PENDING_RELEASES)
    BY <2>2, <2>3, <2>5, <2>6, DeskAssumption
  <2>8. seen' = u /\ queue' = q
    BY <1>3, <2>7 DEF SubmitEnd, Pushed, u, q
  <2>9. Range(u) = Range(seen) \cup {r.tx} /\ Range(q) = Range(queue) \cup {r}
    <3>1. Range(u) = Range(seen) \cup {r.tx}
      BY <2>2 DEF Range
    <3>2. Range(q) = Range(queue) \cup {r}
      BY <2>3 DEF Range
    <3> QED BY <3>1, <3>2
  <2>10. \A t \in Releases : t.tx = r.tx => t = r
    BY DeskAssumption
  <2>11. r.ref \in desk.consumed
    BY <1>1 DEF GateInv
  <2>12. Len(held') + Len(queue') <= Len(seen')
    BY <1>1, <2>2, <2>3, <2>6, <2>8
  <2>13. seen' \in Seq(Txs) /\ Distinct(seen)'
    BY <2>2, <2>4, <2>8
  <2>14. \A t \in Releases : t.tx \in Range(u) =>
           t.ref \in desk.consumed /\ (t.ref \in OpenIn(desk) => t \in Range(held) \cup Range(q))
    BY <2>9, <2>10, <2>11 DEF GateInv
  <2>15. swept \subseteq Range(u)
    BY <2>9 DEF GateInv
  <2> QED BY <1>1, <2>8, <2>12, <2>13, <2>14, <2>15 DEF GateInv
<1> QED BY <1>2, <1>3 DEF SubmitEnd

\* An empty list.
LEMMA NothingIn == Range(<<>>) = {} /\ Distinct(<<>>) /\ <<>> \in Seq(Txs)
BY DEF Range, Distinct

\* The gate of a new process holds nothing.
LEMMA GateEmpty ==
    ASSUME expected' = {}, seen' = <<>>, queue' = <<>>, held' = <<>>, submitting' = {}, swept' = {}
    PROVE  GateInv'
<1>1. Range(seen') = {} /\ Distinct(seen') /\ seen' \in Seq(Txs)
  BY NothingIn
<1>2. Len(held') + Len(queue') <= Len(seen')
  OBVIOUS
<1> QED BY <1>1, <1>2 DEF GateInv

\* The gate's part of the invariant is kept by every step.
LEMMA GateNext ==
    ASSUME WithinLimits, DeskInv, GateInv, [Next]_vars
    PROVE  GateInv'
<1>1. OneEvent
  BY DeskNext
<1>2. CASE UNCHANGED gate
  BY <1>1, <1>2, GateAlone
<1>3. CASE Poll \/ PollFails \/ OpenExit \/ SettleOne \/ CloseOne \/ Tick \/ UNCHANGED vars
  <2>1. UNCHANGED gate
    BY <1>3 DEF Poll, PollFails, OpenExit, SettleOne, CloseOne, Tick, vars
  <2> QED BY <1>2, <2>1
<1>4. ASSUME NEW b \in Burns, NEW verdict \in Verdicts, RetryDeadLetter(b, verdict)
      PROVE  UNCHANGED gate
  BY <1>4 DEF RetryDeadLetter
<1>5. CASE SweepSettle \/ SweepSlash
  <2>1. known_payouts /\ desk' = desk
    BY <1>5 DEF SweepSettle, SweepSlash
  <2> QED BY <2>1, SweepTakes
<1>6. ASSUME NEW r \in Releases, SubmitBegin(r) PROVE GateInv'
  <2>1. /\ r.ref \in expected /\ submitting' = submitting \cup {r} /\ desk' = desk
        /\ expected' = expected /\ seen' = seen /\ queue' = queue /\ held' = held /\ swept' = swept
    BY <1>6 DEF SubmitBegin
  <2>2. \A t \in submitting' : t.ref \in desk.consumed
    BY <2>1 DEF GateInv
  <2> QED BY <2>1, <2>2 DEF GateInv
<1>7. ASSUME NEW r \in Releases, SubmitEnd(r) PROVE GateInv'
  BY <1>7, SubmitTakes
<1>8. CASE Restart
  <2>1. /\ expected' = {} /\ seen' = <<>> /\ queue' = <<>> /\ held' = <<>>
        /\ submitting' = {} /\ swept' = {}
    BY <1>8 DEF Restart, StartsOn, Fresh
  <2> QED BY <2>1, GateEmpty
<1> QED BY <1>2, <1>3, <1>4, <1>5, <1>6, <1>7, <1>8 DEF Next

\* The only step that writes that exit i is slashed is the one that closes
\* it, and it finds no payout.
LEMMA SlashedByClose ==
    ASSUME DeskInv, [Next]_vars, NEW i \in settleable(desk), ~poisoned,
           known' = Append(known, SlashEvent(i))
    PROVE  CloseOne /\ Min(todo) = i /\ unproven(i)
<1> DEFINE e == SlashEvent(i)
           m == Min(todo)
<1>1. Good(desk) /\ Booked /\ Typed /\ known \in Seq(Events) /\ file = Compacted(known)
  BY DEF DeskInv, Booked, Gives
<1>2. e \in Events /\ e \in Slashes /\ e.kind = "Slash" /\ e.index = i
  BY <1>1, SlashMay DEF Events, SlashEvent
<1>3. known' = Append(known, e)
  OBVIOUS
<1> HIDE DEF e
<1>4. known' # known
  <2>1. Len(Append(known, e)) = Len(known) + 1 /\ Len(known) \in Nat
    BY <1>1, <1>2
  <2> QED BY <1>3, <2>1
<1>5. \A f \in Events : known' = Append(known, f) => f = e
  <2> TAKE f \in Events
  <2> HAVE known' = Append(known, f)
  <2>1. Append(known, f)[Len(known) + 1] = f /\ Append(known, e)[Len(known) + 1] = e
    BY <1>1, <1>2
  <2> QED BY <1>3, <2>1
<1>6. ASSUME NEW E \in SUBSET Events, Moved(E) PROVE e \in E
  <2>1. ~UNCHANGED <<journal, desk>>
    BY <1>4 DEF journal
  <2>2. PICK f \in E : Recorded(f) \/ Missed(f)
    BY <1>6, <2>1 DEF Moved
  <2>3. ~Missed(f)
    BY <1>4 DEF Missed, AppendFails
  <2>4. known' = Append(known, f)
    BY <2>2, <2>3 DEF Recorded, Appended
  <2> QED BY <1>5, <2>4
<1>7. ~OpenExit
  <2> SUFFICES ASSUME OpenExit PROVE FALSE
    OBVIOUS
  <2>1. Moved(Opens \cup Letters) /\ Opens \cup Letters \in SUBSET Events
    BY OpenExitDoes DEF Events
  <2>2. e \in Opens \cup Letters
    BY <1>6, <2>1
  <2> QED BY <1>2, <2>2 DEF Opens, Letters
<1>8. ASSUME NEW b \in Burns, NEW verdict \in Verdicts, RetryDeadLetter(b, verdict) PROVE FALSE
  <2>1. Moved(Opens) /\ Opens \in SUBSET Events
    BY <1>8, RetryDoes DEF Events
  <2>2. e \in Opens
    BY <1>6, <2>1
  <2> QED BY <1>2, <2>2 DEF Opens
<1>9. ASSUME NEW j \in settleable(desk), settle(j) PROVE FALSE
  <2> DEFINE s == SettleEvent(j, confirm(j).tx)
  <2>1. ~UNCHANGED journal
    BY <1>4 DEF journal
  <2>2. ~unproven(j) /\ ~ledger_full(desk)
    BY <1>9, <2>1 DEF settle
  <2>3. s \in Settles /\ s.kind = "Settle"
    BY <1>1, <2>2, SettleMay DEF SettleEvent
  <2>4. Appended(s)
    BY <1>4, <1>9, <2>2 DEF settle, AppendFails
  <2> HIDE DEF s
  <2>5. s = e
    BY <1>5, <2>3, <2>4 DEF Appended, Events
  <2> QED BY <1>2, <2>3, <2>5
<1>10. todo # {} => m \in settleable(desk)
  <2> SUFFICES ASSUME todo # {} PROVE m \in settleable(desk)
    OBVIOUS
  <2>1. todo \subseteq settleable(desk) /\ settleable(desk) \subseteq Nat
    <3>1. desk \in Desks
      BY <1>1 DEF Good
    <3>2. \A j \in settleable(desk) : j \in Nat
      BY <3>1, ClosedIs
    <3> QED BY <1>1, <3>2 DEF Typed
  <2>2. m \in todo
    BY <2>1, MinIn
  <2> QED BY <2>1, <2>2
<1>11. ~SettleOne
  <2> SUFFICES ASSUME SettleOne PROVE FALSE
    OBVIOUS
  <2>1. todo # {} /\ (settle(m) \/ UNCHANGED journal)
    BY DEF SettleOne
  <2> QED BY <1>4, <1>9, <1>10, <2>1 DEF journal
<1>12. ~Restart
  <2> SUFFICES ASSUME Restart PROVE FALSE
    OBVIOUS
  <2>1. known' = file.header
    BY DEF Restart, StartsOn
  <2>2. file.header = known
    BY <1>1 DEF Compacted
  <2> QED BY <1>4, <2>1, <2>2
<1>13. ~UNCHANGED journal
  BY <1>4 DEF journal
<1>14. CloseOne
  <2>1. /\ ~Poll /\ ~PollFails /\ ~SweepSettle /\ ~SweepSlash /\ ~Tick /\ ~UNCHANGED vars
        /\ \A r \in Releases : ~SubmitBegin(r) /\ ~SubmitEnd(r)
    BY <1>13 DEF Poll, PollFails, SweepSettle, SweepSlash, Tick, SubmitBegin, SubmitEnd, vars
  <2> QED BY <1>7, <1>8, <1>11, <1>12, <2>1 DEF Next
<1>15. todo # {} /\ close_overdue(m) /\ m \in settleable(desk)
  BY <1>10, <1>14 DEF CloseOne
<1>16. unproven(m) /\ Appended(SlashEvent(m))
  BY <1>4, <1>9, <1>15 DEF close_overdue, AppendFails
<1>17. m = i
  <2>1. SlashEvent(m) \in Events /\ SlashEvent(m).index = m
    BY <1>1, <1>15, SlashMay DEF Events
  <2>2. SlashEvent(m) = e
    BY <1>5, <1>16, <2>1 DEF Appended
  <2> QED BY <1>2, <2>1, <2>2
<1> QED BY <1>14, <1>16, <1>17

\* A payout that the gate had a proof of before the sweep began is not
\* answered by a slash, whatever appends failed (exits.rs: sweep_slash,
\* close_overdue; boot.rs: known_payouts, submit_release).  For as many
\* proofs as the gate can hold: beyond that the oldest are dropped.
THEOREM PaidIsNotSlashed ==
    ASSUME Refs \cap Txs = {}, WithinLimits
    PROVE  Spec => PaidNotSlashed
<1>1. Init => GateInv
  <2> SUFFICES ASSUME Init PROVE GateInv
    OBVIOUS
  <2>1. /\ expected = {} /\ seen = <<>> /\ queue = <<>> /\ held = <<>>
        /\ submitting = {} /\ swept = {}
    BY DEF Init, Fresh
  <2>2. Range(<<>>) = {} /\ Distinct(<<>>) /\ <<>> \in Seq(Txs)
    BY NothingIn
  <2> QED BY <2>1, <2>2 DEF GateInv
<1>2. DeskInv /\ GateInv /\ [Next]_vars => GateInv'
  BY GateNext
<1>3. ASSUME DeskInv, GateInv, [Next]_vars, NEW i \in settleable(desk), ~poisoned,
             known' = Append(known, SlashEvent(i)),
             NEW r \in Releases, r.ref = desk.exits[i].ref, r.tx \in swept
      PROVE  FALSE
  <2>1. unproven(i)
    BY <1>3, SlashedByClose
  <2>2. r \in Range(held)
    BY <1>3 DEF GateInv, OpenIn
  <2>3. PICK k \in DOMAIN held : held[k] = r
    BY <2>2 DEF Range
  <2>4. payouts(i) # {}
    BY <1>3, <2>3 DEF payouts
  <2>5. confirm(i).tx \in desk.consumed /\ confirm(i) \in Releases /\ confirm(i).ref = desk.exits[i].ref
    BY <1>3, <2>1, <2>4, ConfirmIs DEF unproven, DeskInv
  <2>6. confirm(i).tx \notin Refs
    BY <2>5 DEF Txs
  <2>7. SettledFor(desk, desk.exits[i].ref)
    BY <1>3, <2>5, <2>6 DEF DeskInv, Good, PaidFor
  <2>8. i \in DOMAIN desk.exits /\ desk.exits[i].state = "Pending"
    BY <1>3 DEF settleable
  <2> QED BY <1>3, <2>7, <2>8 DEF SettledFor, DeskInv, Good, Single
<1> DEFINE Action == \A i \in settleable(desk) :
          ~poisoned /\ known' = Append(known, SlashEvent(i)) =>
              \A r \in Releases : r.ref = desk.exits[i].ref => r.tx \notin swept
<1>4. DeskInv /\ GateInv /\ [Next]_vars => [Action]_vars
  BY <1>3
<1> HIDE DEF Action
<1>5. Spec => [][Action]_vars
  BY <1>1, <1>2, <1>4, DeskKept, PTL DEF Spec
<1> QED BY <1>5 DEF PaidNotSlashed, Action
=============================================================================
