---------------------------- MODULE DaemonProofs ----------------------------
(***************************************************************************)
(* Theorems about four parts of the daemon.  The chain clock, the          *)
(* administrative audit log and the startup share only the snapshot.  The  *)
(* HTTP service is for any number of connections, addresses and requests   *)
(* and any limits: every shared count of it is the size of a set of        *)
(* threads, or a sum over one, and each step of a thread moves that thread *)
(* alone into or out of the sets, so that the lemmas on counts are about   *)
(* functions conn that differ at one thread.                               *)
(***************************************************************************)
EXTENDS Daemon, FrontDoor, Inductions

-----------------------------------------------------------------------------
(* Arithmetic the clock keeps needing *)

\* Time, or processes, that have passed are counted by adding.
LEMMA Distributes ==
    ASSUME NEW a \in Int, NEW b \in Int, NEW c \in Int
    PROVE  /\ (a + b) * c = a * c + b * c
           /\ (a - b) * c = a * c - b * c
           /\ (a + 1) * c = a * c + c
           /\ a * c \in Int
OBVIOUS

\* A number of blocks or of seconds is never negative.
LEMMA ProductsOfNaturals ==
    ASSUME NEW a \in Nat, NEW c \in Nat
    PROVE  a * c \in Nat
OBVIOUS

-----------------------------------------------------------------------------
(* The inductive invariant of the clock *)

\* The types of the clock's state.
ClockType ==
    /\ height \in Nat /\ epoch \in Nat
    /\ saved \in [height : Nat, epoch : Nat]
    /\ first_boot \in ExpectedHeads
    /\ origin \in [height : Nat, at : Nat \cup {None}]
    /\ epoch_moved \in Nat \cup {None}
    /\ fresh \in BOOLEAN
    /\ now \in Nat /\ boots \in Nat \ {0} /\ moves \in Nat

\* A head that slack for n processes allows by time t, from the expected x.
Allowed(x, t, n) == greater(x, 0) + t * Rate + n * CLOCK_SLACK_BLOCKS

(***************************************************************************)
(* What one expected head x bounds: the height and the saved height with   *)
(* the slack of every process so far; the origin, and the height before    *)
(* there is one, with the slack of the earlier processes only, because     *)
(* this one has still to spend its own.  Before its first good tick a      *)
(* process has the height it was restored with.                            *)
(***************************************************************************)
HeadsFrom(x) ==
    /\ height <= Allowed(x, now, boots)
    /\ saved.height <= Allowed(x, now, boots)
    /\ origin.at = None =>
          /\ height = saved.height
          /\ height <= Allowed(x, now, boots - 1)
    /\ origin.at # None =>
          /\ origin.at <= now
          /\ origin.height <= Allowed(x, origin.at, boots - 1)

\* The moves of the epoch are paid for by the time of the last one; a
\* process that has made none has its free one left.
MovesPaid ==
    /\ epoch_moved = None => moves * Gap <= now + (boots - 1) * Gap
    /\ epoch_moved # None => /\ epoch_moved <= now
                             /\ moves * Gap <= epoch_moved + boots * Gap

ClockInv == ClockType /\ (\E x \in ExpectedHeads : HeadsFrom(x)) /\ MovesPaid

\* Allowed is a number, and grows with the time and with the processes.
LEMMA AllowedGrows ==
    ASSUME NEW x \in ExpectedHeads, NEW t \in Nat, NEW n \in Nat
    PROVE  /\ Allowed(x, t, n) \in Nat
           /\ greater(x, 0) <= Allowed(x, t, n)
           /\ Allowed(x, t + 1, n) = Allowed(x, t, n) + Rate
           /\ Allowed(x, t, n + 1) = Allowed(x, t, n) + CLOCK_SLACK_BLOCKS
           /\ n # 0 => /\ Allowed(x, t, n - 1) \in Nat
                       /\ Allowed(x, t, n) = Allowed(x, t, n - 1) + CLOCK_SLACK_BLOCKS
           /\ \A s \in Nat : s <= t =>
                 /\ Allowed(x, s, n) \in Nat
                 /\ Allowed(x, s, n) + (t - s) * Rate = Allowed(x, t, n)
<1>1. greater(x, 0) \in Nat
  BY ClockAssumption DEF greater, None
<1>2. Rate \in Nat /\ CLOCK_SLACK_BLOCKS \in Nat
  BY ClockAssumption
<1>3. t * Rate \in Nat /\ n * CLOCK_SLACK_BLOCKS \in Nat
  BY <1>2, ProductsOfNaturals
<1>4. (t + 1) * Rate = t * Rate + Rate
  BY <1>2, Distributes
<1>5. (n + 1) * CLOCK_SLACK_BLOCKS = n * CLOCK_SLACK_BLOCKS + CLOCK_SLACK_BLOCKS
  BY <1>2, Distributes
<1>6. ASSUME NEW s \in Nat, s <= t
      PROVE  /\ Allowed(x, s, n) \in Nat
             /\ Allowed(x, s, n) + (t - s) * Rate = Allowed(x, t, n)
  <2>1. (t - s) * Rate = t * Rate - s * Rate /\ s * Rate \in Nat
    BY <1>2, Distributes, ProductsOfNaturals
  <2> QED BY <1>1, <1>3, <2>1 DEF Allowed
<1>7. ASSUME n # 0
      PROVE  /\ Allowed(x, t, n - 1) \in Nat
             /\ Allowed(x, t, n) = Allowed(x, t, n - 1) + CLOCK_SLACK_BLOCKS
  <2>1. n - 1 \in Nat /\ n = (n - 1) + 1
    BY <1>7
  <2>2. (n - 1) * CLOCK_SLACK_BLOCKS \in Nat
    BY <1>2, <2>1, ProductsOfNaturals
  <2>3. ((n - 1) + 1) * CLOCK_SLACK_BLOCKS = (n - 1) * CLOCK_SLACK_BLOCKS + CLOCK_SLACK_BLOCKS
    BY <1>2, <2>1, Distributes
  <2> QED BY <1>1, <1>2, <1>3, <2>1, <2>2, <2>3 DEF Allowed
<1>8. /\ Allowed(x, t, n) \in Nat
      /\ greater(x, 0) <= Allowed(x, t, n)
      /\ Allowed(x, t + 1, n) = Allowed(x, t, n) + Rate
      /\ Allowed(x, t, n + 1) = Allowed(x, t, n) + CLOCK_SLACK_BLOCKS
  BY <1>1, <1>2, <1>3, <1>4, <1>5 DEF Allowed
<1> QED BY <1>6, <1>7, <1>8

\* A daemon that has not ticked yet is bounded by any expected head.
LEMMA ClockStarts == Init => ClockInv
<1> SUFFICES ASSUME Init PROVE ClockInv
  OBVIOUS
<1>1. ClockType
  <2>1. NoOrigin \in [height : Nat, at : Nat \cup {None}]
    BY DEF NoOrigin
  <2>2. saved \in [height : Nat, epoch : Nat]
    BY DEF Init
  <2>3. fresh \in BOOLEAN /\ epoch_moved \in Nat \cup {None} /\ origin = NoOrigin
    BY DEF Init
  <2>4. now \in Nat /\ boots \in Nat \ {0} /\ moves \in Nat /\ height \in Nat /\ epoch \in Nat
    BY DEF Init
  <2> QED BY <2>1, <2>2, <2>3, <2>4 DEF Init, ClockType
<1>2. HeadsFrom(first_boot)
  <2>1. first_boot \in ExpectedHeads
    BY DEF Init
  <2>2. Allowed(first_boot, 0, 1) \in Nat /\ Allowed(first_boot, 0, 0) \in Nat
    BY <2>1, AllowedGrows
  <2> QED BY <2>2 DEF Init, HeadsFrom, NoOrigin, None
<1>3. MovesPaid
  BY ClockAssumption DEF Init, MovesPaid, None
<1> QED BY <1>1, <1>2, <1>3 DEF ClockInv, Init

\* The clock's first answer of a process stays below what some expected head
\* allows the earlier processes.
LEMMA FirstAnswerBounded ==
    ASSUME ClockType, NEW x \in ExpectedHeads, HeadsFrom(x), origin.at = None,
           NEW reported \in Nat,
           height # 0 \/ first_boot # None
    PROVE  /\ first_answer(reported) \in Nat
           /\ \E y \in ExpectedHeads :
                 /\ first_answer(reported) <= Allowed(y, now, boots - 1)
                 /\ saved.height <= Allowed(y, now, boots - 1)
<1>1. first_boot \in ExpectedHeads /\ first_boot \in Nat \cup {None}
  BY ClockAssumption DEF ClockType
<1>2. boots - 1 \in Nat /\ now \in Nat /\ height \in Nat
  BY DEF ClockType
<1>3. CASE height # 0
  BY <1>2, <1>3 DEF first_answer, HeadsFrom
<1>4. CASE height = 0
  <2>1. first_boot \in Nat
    BY <1>1, <1>4
  <2>2. wall_clock_head_cap \in Nat
    <3>1. now + Age \in Nat /\ Rate \in Nat /\ CLOCK_SLACK_BLOCKS \in Nat
      BY <1>2, ClockAssumption
    <3>2. (now + Age) * Rate \in Nat
      BY <3>1, ProductsOfNaturals
    <3> QED BY <3>1, <3>2 DEF wall_clock_head_cap
  <2>3. first_answer(reported) \in Nat /\ first_answer(reported) <= greater(first_boot, 0)
    BY <1>4, <2>1, <2>2 DEF first_answer, greater, smaller
  <2>4. /\ greater(first_boot, 0) <= Allowed(first_boot, now, boots - 1)
        /\ Allowed(first_boot, now, boots - 1) \in Nat
    BY <1>1, <1>2, AllowedGrows
  <2>5. saved.height = 0
    BY <1>4 DEF HeadsFrom
  <2>6. greater(first_boot, 0) \in Nat
    BY <2>1 DEF greater
  <2> QED BY <1>1, <2>3, <2>4, <2>5, <2>6
<1> QED BY <1>3, <1>4

\* A tick keeps the bound: the head it takes is at most one slack above what
\* the origin and the time since it allow.
LEMMA TickKeepsHeads ==
    ASSUME ClockInv, NEW h \in Heads, NEW e \in Epochs, Tick(h, e)
    PROVE  /\ height' \in Nat /\ origin' \in [height : Nat, at : Nat \cup {None}]
           /\ \E x \in ExpectedHeads : HeadsFrom(x)'
<1> DEFINE started == origin.at # None
           from == IF started THEN origin
                   ELSE [height |-> first_answer(h), at |-> now]
           base == IF started THEN height ELSE from.height
           head == smaller(bounded_head(from, h), wall_clock_head_cap)
<1>1. PICK x \in ExpectedHeads : HeadsFrom(x)
  BY DEF ClockInv
<1>2. /\ ClockType /\ h \in Nat /\ boots - 1 \in Nat
      /\ Rate \in Nat /\ CLOCK_SLACK_BLOCKS \in Nat
  BY ClockAssumption DEF ClockInv, ClockType
<1>3. /\ origin' = from /\ height' = greater(base, head)
      /\ started \/ height # 0 \/ first_boot # None
      /\ UNCHANGED <<saved, now, boots>>
  BY DEF Tick
<1>4. PICK y \in ExpectedHeads :
         /\ from \in [height : Nat, at : Nat] /\ from.at <= now
         /\ from.height <= Allowed(y, from.at, boots - 1)
         /\ base \in Nat /\ base <= Allowed(y, now, boots)
         /\ saved.height <= Allowed(y, now, boots)
  <2>1. CASE started
    BY <1>1, <1>2, <2>1 DEF HeadsFrom, ClockType
  <2>2. CASE ~started
    <3>1. PICK y \in ExpectedHeads :
             /\ first_answer(h) \in Nat
             /\ first_answer(h) <= Allowed(y, now, boots - 1)
             /\ saved.height <= Allowed(y, now, boots - 1)
      BY <1>1, <1>2, <1>3, <2>2, FirstAnswerBounded
    <3>2. /\ Allowed(y, now, boots) = Allowed(y, now, boots - 1) + CLOCK_SLACK_BLOCKS
          /\ Allowed(y, now, boots - 1) \in Nat
      <4>1. boots \in Nat /\ boots # 0 /\ now \in Nat
        BY <1>2 DEF ClockType
      <4> QED BY <4>1, AllowedGrows
    <3> QED BY <1>2, <2>2, <3>1, <3>2 DEF ClockType
  <2> QED BY <2>1, <2>2
<1> HIDE DEF started, from, base
<1>5. head \in Int /\ head <= Allowed(y, now, boots)
  <2>1. wall_clock_head_cap \in Int
    <3>1. now + Age \in Nat /\ Rate \in Nat /\ CLOCK_SLACK_BLOCKS \in Nat
      BY <1>2, ClockAssumption DEF ClockType
    <3>2. (now + Age) * Rate \in Nat
      BY <3>1, ProductsOfNaturals
    <3> QED BY <3>1, <3>2 DEF wall_clock_head_cap
  <2>2. /\ Allowed(y, from.at, boots - 1) + (now - from.at) * Rate = Allowed(y, now, boots - 1)
        /\ Allowed(y, from.at, boots - 1) \in Nat
        /\ (now - from.at) * Rate \in Int
    <3>1. from.at \in Nat /\ now \in Nat /\ Rate \in Int /\ now - from.at \in Int
      BY <1>2, <1>4 DEF ClockType
    <3>2. (now - from.at) * Rate \in Int
      BY <3>1, Distributes
    <3> QED BY <1>2, <1>4, <3>1, <3>2, AllowedGrows
  <2>3. /\ Allowed(y, now, boots) = Allowed(y, now, boots - 1) + CLOCK_SLACK_BLOCKS
        /\ Allowed(y, now, boots - 1) \in Nat
    <3>1. boots \in Nat /\ boots # 0 /\ now \in Nat
      BY <1>2 DEF ClockType
    <3> QED BY <3>1, AllowedGrows
  <2>4. /\ bounded_head(from, h) \in Int
        /\ bounded_head(from, h) <= Allowed(y, now, boots)
    BY <1>2, <1>4, <2>2, <2>3 DEF bounded_head, smaller
  <2>5. Allowed(y, now, boots) \in Nat
    BY <1>2, <2>3
  <2> QED BY <2>1, <2>4, <2>5 DEF smaller
<1>6. height' \in Nat /\ height' <= Allowed(y, now, boots)
  BY <1>3, <1>4, <1>5 DEF greater
<1>7. HeadsFrom(y)'
  <2>1. Allowed(y, now', boots') = Allowed(y, now, boots)
    BY <1>3
  <2>2. origin'.at # None
    BY <1>3, <1>4 DEF None
  <2>3. origin'.at <= now' /\ origin'.height <= Allowed(y, origin'.at, boots' - 1)
    BY <1>3, <1>4
  <2> QED BY <1>3, <1>4, <1>6, <2>1, <2>2, <2>3 DEF HeadsFrom, Allowed
<1> QED BY <1>3, <1>4, <1>6, <1>7

\* A move of the epoch is paid for by the gap since the last one, or is the
\* free one of its process.
LEMMA TickKeepsMoves ==
    ASSUME ClockInv, NEW h \in Heads, NEW e \in Epochs, Tick(h, e)
    PROVE  /\ epoch' \in Nat /\ epoch_moved' \in Nat \cup {None}
           /\ moves' \in Nat /\ fresh' \in BOOLEAN
           /\ MovesPaid'
<1>1. PICK f \in BOOLEAN :
         /\ fresh' = f
         /\ IF takes_epoch(f, e)
            THEN epoch' = e /\ epoch_moved' = now /\ moves' = moves + 1
            ELSE UNCHANGED <<epoch, epoch_moved, moves>>
         /\ UNCHANGED <<now, boots>>
  BY DEF Tick, ClockInv, ClockType
<1>2. ClockType /\ MovesPaid /\ Gap \in Nat /\ e \in Nat \cup {None}
  BY ClockAssumption DEF ClockInv
<1>3. CASE takes_epoch(f, e)
  <2>1. e \in Nat /\ (epoch_moved # None => now - epoch_moved >= Gap)
    BY <1>2, <1>3 DEF takes_epoch, spaced
  <2>2. /\ (moves + 1) * Gap = moves * Gap + Gap
        /\ boots * Gap = (boots - 1) * Gap + Gap
        /\ moves * Gap \in Int /\ boots * Gap \in Int
    <3>1. moves \in Int /\ boots \in Int /\ boots - 1 \in Int /\ boots = (boots - 1) + 1
      BY <1>2 DEF ClockType
    <3>2. moves * Gap \in Int /\ boots * Gap \in Int /\ (moves + 1) * Gap = moves * Gap + Gap
      BY <1>2, <3>1, Distributes
    <3>3. ((boots - 1) + 1) * Gap = (boots - 1) * Gap + Gap
      BY <1>2, <3>1, Distributes
    <3> QED BY <3>1, <3>2, <3>3
  <2>3. (moves + 1) * Gap <= now + boots * Gap
    <3>1. CASE epoch_moved = None
      BY <1>2, <2>2, <3>1 DEF MovesPaid, ClockType
    <3>2. CASE epoch_moved # None
      BY <1>2, <2>1, <2>2, <3>2 DEF MovesPaid, ClockType
    <3> QED BY <3>1, <3>2
  <2>4. MovesPaid'
    BY <1>1, <1>2, <1>3, <2>3 DEF MovesPaid, ClockType, None
  <2> QED BY <1>1, <1>2, <1>3, <2>1, <2>4 DEF ClockType
<1>4. CASE ~takes_epoch(f, e)
  BY <1>1, <1>2, <1>4 DEF MovesPaid, ClockType
<1> QED BY <1>3, <1>4

\* Every step of the clock, of the time and of the process keeps the
\* invariant.
LEMMA ClockSteps == ClockInv /\ [Next]_vars => ClockInv'
<1> SUFFICES ASSUME ClockInv, [Next]_vars PROVE ClockInv'
  OBVIOUS
<1> USE DEF ClockInv
<1>1. PICK x \in ExpectedHeads : HeadsFrom(x)
  OBVIOUS
<1>2. /\ boots \in Nat /\ boots - 1 \in Nat /\ now \in Nat
      /\ Gap \in Nat /\ Rate \in Nat /\ CLOCK_SLACK_BLOCKS \in Nat
  BY ClockAssumption DEF ClockType
<1>3. ASSUME NEW h \in Heads, NEW e \in Epochs, Tick(h, e) PROVE ClockInv'
  <2>1. saved' = saved /\ first_boot' = first_boot /\ now' = now /\ boots' = boots
    BY <1>3 DEF Tick
  <2>2. ClockType'
    BY <1>3, <2>1, TickKeepsHeads, TickKeepsMoves DEF ClockType
  <2> QED BY <1>3, <2>2, TickKeepsHeads, TickKeepsMoves
<1>4. CASE RefusedTick
  <2>1. HeadsFrom(x)'
    BY <1>1, <1>4 DEF RefusedTick, HeadsFrom, Allowed
  <2> QED BY <1>4, <2>1 DEF RefusedTick, ClockType, MovesPaid
<1>5. CASE Pass
  <2>1. Allowed(x, now', boots') = Allowed(x, now, boots) + Rate
    BY <1>2, <1>5, AllowedGrows DEF Pass
  <2>2. Allowed(x, now', boots' - 1) = Allowed(x, now, boots - 1) + Rate
    BY <1>2, <1>5, AllowedGrows DEF Pass
  <2>3. Allowed(x, now, boots) \in Nat /\ Allowed(x, now, boots - 1) \in Nat
    BY <1>2, AllowedGrows
  <2>4. now <= now' /\ now' \in Nat
    BY <1>2, <1>5 DEF Pass
  <2>5. HeadsFrom(x)'
    <3>1. height' <= Allowed(x, now', boots') /\ saved'.height <= Allowed(x, now', boots')
      BY <1>1, <1>2, <1>5, <2>1, <2>3 DEF Pass, HeadsFrom, ClockType
    <3>2. origin'.at = None =>
             height' = saved'.height /\ height' <= Allowed(x, now', boots' - 1)
      BY <1>1, <1>2, <1>5, <2>2, <2>3 DEF Pass, HeadsFrom, ClockType
    <3>3. origin'.at # None =>
             origin'.at <= now' /\ origin'.height <= Allowed(x, origin'.at, boots' - 1)
      BY <1>1, <1>2, <1>5, <2>4 DEF Pass, HeadsFrom, ClockType
    <3> QED BY <3>1, <3>2, <3>3 DEF HeadsFrom, Allowed
  <2>6. MovesPaid'
    <3>1. moves * Gap \in Int /\ boots * Gap \in Int /\ (boots - 1) * Gap \in Int
      BY <1>2, Distributes DEF ClockType
    <3> QED BY <1>2, <1>5, <2>4, <3>1 DEF Pass, MovesPaid, ClockType
  <2> QED BY <1>5, <2>4, <2>5, <2>6 DEF Pass, ClockType
<1>6. CASE Save
  <2>1. HeadsFrom(x)'
    BY <1>1, <1>6 DEF Save, HeadsFrom, Allowed
  <2> QED BY <1>6, <2>1 DEF Save, ClockType, MovesPaid
<1>7. CASE Restart
  <2>1. Allowed(x, now, boots + 1) = Allowed(x, now, boots) + CLOCK_SLACK_BLOCKS
    BY <1>2, AllowedGrows
  <2>2. Allowed(x, now, boots) \in Nat
    BY <1>2, AllowedGrows
  <2>3. boots' - 1 = boots /\ boots' = boots + 1 /\ now' = now
    BY <1>2, <1>7 DEF Restart
  <2>4. HeadsFrom(x)'
    <3>1. saved'.height = height' /\ height' = saved.height /\ origin'.at = None
      BY <1>7 DEF Restart, NoOrigin
    <3>2. saved.height \in Nat /\ saved.height <= Allowed(x, now, boots)
      BY <1>1 DEF HeadsFrom, ClockType
    <3>3. /\ height' <= Allowed(x, now', boots')
          /\ height' <= Allowed(x, now', boots' - 1)
      BY <1>2, <2>1, <2>2, <2>3, <3>1, <3>2
    <3> QED BY <3>1, <3>3 DEF HeadsFrom, Allowed
  <2>5. MovesPaid'
    <3>1. (boots + 1) * Gap = boots * Gap + Gap /\ boots * Gap = (boots - 1) * Gap + Gap
      <4>1. boots = (boots - 1) + 1 /\ boots - 1 \in Int /\ boots \in Int /\ Gap \in Int
        BY <1>2
      <4>2. ((boots - 1) + 1) * Gap = (boots - 1) * Gap + Gap
        BY <4>1, Distributes
      <4> QED BY <4>1, <4>2, Distributes
    <3>2. moves * Gap \in Int /\ boots * Gap \in Int /\ (boots - 1) * Gap \in Int
      BY <1>2, Distributes DEF ClockType
    <3>3. moves * Gap <= now + boots * Gap
      BY <1>2, <3>1, <3>2 DEF MovesPaid, ClockType
    <3> QED BY <1>7, <2>3, <3>3 DEF Restart, MovesPaid
  <2>6. ClockType'
    <3>1. NoOrigin \in [height : Nat, at : Nat \cup {None}]
      BY DEF NoOrigin
    <3>2. height' \in Nat /\ epoch' \in Nat /\ saved' \in [height : Nat, epoch : Nat]
      BY <1>7 DEF Restart, ClockType
    <3>3. fresh' \in BOOLEAN /\ epoch_moved' \in Nat \cup {None} /\ origin' = NoOrigin
      BY <1>7 DEF Restart
    <3>4. boots' \in Nat \ {0} /\ now' \in Nat /\ moves' \in Nat
      BY <1>2, <1>7 DEF Restart, ClockType
    <3> QED BY <1>7, <3>1, <3>2, <3>3, <3>4 DEF Restart, ClockType
  <2> QED BY <2>4, <2>5, <2>6
<1>8. CASE UNCHANGED vars
  <2>1. HeadsFrom(x)'
    BY <1>1, <1>8 DEF vars, HeadsFrom, Allowed
  <2> QED BY <1>8, <2>1 DEF vars, ClockType, MovesPaid
<1> QED BY <1>3, <1>4, <1>5, <1>6, <1>7, <1>8 DEF Next

(***************************************************************************)
(* ChainClock::tick: whatever the node answers and however often the       *)
(* daemon restarts, the height stays below an expected head, the block     *)
(* rate times the time and one slack for each process.                     *)
(***************************************************************************)
THEOREM LyingNodeIsBounded == Spec => []HeadBounded
<1>1. ClockInv => HeadBounded
  BY DEF ClockInv, HeadsFrom, Allowed, HeadBounded
<1> QED BY ClockStarts, ClockSteps, <1>1, PTL DEF Spec

(***************************************************************************)
(* ChainClock::tick: the epoch is moved at most once in each gap, apart    *)
(* from one move of every new process.                                     *)
(***************************************************************************)
THEOREM EpochIsPaced == Spec => []EpochMovesPaced
<1>1. ClockInv => EpochMovesPaced
  <2> SUFFICES ASSUME ClockInv PROVE EpochMovesPaced
    OBVIOUS
  <2>1. /\ boots \in Int /\ boots - 1 \in Int /\ boots = (boots - 1) + 1
        /\ moves \in Int /\ Gap \in Nat /\ now \in Nat
    BY ClockAssumption DEF ClockInv, ClockType
  <2>2. boots * Gap = (boots - 1) * Gap + Gap /\ (boots - 1) * Gap \in Int
    <3>1. ((boots - 1) + 1) * Gap = (boots - 1) * Gap + Gap /\ (boots - 1) * Gap \in Int
      BY <2>1, Distributes
    <3> QED BY <2>1, <3>1
  <2>3. moves * Gap \in Int
    BY <2>1, Distributes
  <2> QED BY <2>1, <2>2, <2>3 DEF ClockInv, ClockType, MovesPaid, EpochMovesPaced
<1> QED BY ClockStarts, ClockSteps, <1>1, PTL DEF Spec

-----------------------------------------------------------------------------
(* The audit log *)

Entries == Orders \cup Reports

TrailType ==
    /\ up \in BOOLEAN
    /\ log \in Seq(Entries) /\ known \in Seq(Entries) /\ records \in Seq(Entries)
    /\ anchor \in Seq(Entries) /\ guard_file.anchor \in Seq(Entries)

\* s is where t begins, entry by entry.
Begins(s, t) == Len(s) <= Len(t) /\ \A i \in 1 .. Len(s) : s[i] = t[i]

(***************************************************************************)
(* Both anchors, the gateway's and the one on disk, are prefixes of the    *)
(* log; the orders in force, in the gateway and on disk, are in the log;   *)
(* and what was answered with success is in both guards, in the gateway's  *)
(* for as long as the process that answered runs.                          *)
(***************************************************************************)
TrailInv ==
    /\ TrailType
    /\ Begins(anchor, log) /\ Begins(guard_file.anchor, log)
    /\ inforce \cap Orders \subseteq Trail!Range(log)
    /\ guard_file.inforce \cap Orders \subseteq Trail!Range(log)
    /\ acked \subseteq guard_file.inforce
    /\ up => acked \subseteq inforce

\* Where a log begins is a prefix of it.
LEMMA BeginsIsPrefix ==
    ASSUME NEW s \in Seq(Entries), NEW t \in Seq(Entries), Begins(s, t)
    PROVE  Trail!IsPrefix(s, t)
  BY DEF Begins, Trail!IsPrefix

\* An append keeps what the log began with and the entries it had, and adds
\* the entries that were appended.
LEMMA Grows ==
    ASSUME NEW t \in Seq(Entries), NEW u \in Seq(Entries)
    PROVE  /\ t \o u \in Seq(Entries)
           /\ Begins(t \o u, t \o u)
           /\ \A s \in Seq(Entries) : Begins(s, t) => Begins(s, t \o u)
           /\ Trail!Range(t \o u) = Trail!Range(t) \cup Trail!Range(u)
<1>1. /\ t \o u \in Seq(Entries) /\ Len(t \o u) = Len(t) + Len(u)
      /\ \A i \in 1 .. Len(t) : (t \o u)[i] = t[i]
      /\ \A i \in 1 .. Len(u) : (t \o u)[Len(t) + i] = u[i]
  OBVIOUS
<1>2. Begins(t \o u, t \o u)
  BY <1>1 DEF Begins
<1>3. ASSUME NEW s \in Seq(Entries), Begins(s, t) PROVE Begins(s, t \o u)
  BY <1>1, <1>3 DEF Begins
<1>4. Trail!Range(t \o u) \subseteq Trail!Range(t) \cup Trail!Range(u)
  <2> SUFFICES ASSUME NEW i \in 1 .. Len(t \o u)
               PROVE  (t \o u)[i] \in Trail!Range(t) \cup Trail!Range(u)
    BY <1>1 DEF Trail!Range
  <2>1. CASE i \in 1 .. Len(t)
    BY <1>1, <2>1 DEF Trail!Range
  <2>2. CASE i \notin 1 .. Len(t)
    <3>1. i - Len(t) \in 1 .. Len(u) /\ i = Len(t) + (i - Len(t))
      BY <1>1, <2>2
    <3> QED BY <1>1, <3>1 DEF Trail!Range
  <2> QED BY <2>1, <2>2
<1>5. Trail!Range(t) \cup Trail!Range(u) \subseteq Trail!Range(t \o u)
  <2>1. ASSUME NEW i \in 1 .. Len(t) PROVE t[i] \in Trail!Range(t \o u)
    <3>1. i \in 1 .. Len(t \o u)
      BY <1>1
    <3> QED BY <1>1, <3>1 DEF Trail!Range
  <2>2. ASSUME NEW i \in 1 .. Len(u) PROVE u[i] \in Trail!Range(t \o u)
    <3>1. Len(t) + i \in 1 .. Len(t \o u)
      BY <1>1
    <3> QED BY <1>1, <3>1 DEF Trail!Range
  <2>3. DOMAIN t = 1 .. Len(t) /\ DOMAIN u = 1 .. Len(u)
    OBVIOUS
  <2>4. Trail!Range(t) \subseteq Trail!Range(t \o u)
    BY <2>1, <2>3 DEF Trail!Range
  <2>5. Trail!Range(u) \subseteq Trail!Range(t \o u)
    BY <2>2, <2>3 DEF Trail!Range
  <2> QED BY <2>4, <2>5
<1> QED BY <1>1, <1>2, <1>3, <1>4, <1>5

\* What was appended last is in the log.
LEMMA LastIsIn ==
    ASSUME NEW t \in Seq(Entries), NEW o \in Entries
    PROVE  Append(t, o) \in Seq(Entries) /\ o \in Trail!Range(Append(t, o))
<1>1. Len(t) + 1 \in DOMAIN Append(t, o) /\ Append(t, o)[Len(t) + 1] = o
  OBVIOUS
<1> QED BY <1>1 DEF Trail!Range

\* A write that fails appends some of the records, all of them or none.
LEMMA FailedWriteAppends ==
    ASSUME TrailType, NEW recs \in Seq(Entries), Trail!NotRecorded(recs)
    PROVE  (\E u \in Seq(Entries) : log' = log \o u) /\ known' \in Seq(Entries)
<1>1. log \in Seq(Entries) /\ known \in Seq(Entries)
  BY DEF TrailType
<1>2. CASE UNCHANGED <<log, torn, known>>
  <2>1. <<>> \in Seq(Entries) /\ log = log \o <<>>
    BY <1>1
  <2> QED BY <1>1, <1>2, <2>1
<1>3. CASE /\ \E k \in 0 .. Len(recs) : log' = log \o SubSeq(recs, 1, k)
           /\ UNCHANGED known
  <2>1. PICK k \in 0 .. Len(recs) : log' = log \o SubSeq(recs, 1, k)
    BY <1>3
  <2>2. SubSeq(recs, 1, k) \in Seq(Entries)
    OBVIOUS
  <2> QED BY <1>1, <1>3, <2>1, <2>2
<1>4. CASE Trail!Recorded(recs)
  BY <1>1, <1>4, Grows DEF Trail!Recorded
<1> QED BY <1>2, <1>3, <1>4 DEF Trail!NotRecorded

\* Nothing is logged, in force or answered when the daemon is first started.
LEMMA TrailStarts == Trail!Init => TrailInv
<1> SUFFICES ASSUME Trail!Init PROVE TrailInv
  OBVIOUS
<1>1. TrailType
  BY DEF Trail!Init, TrailType
<1>2. Begins(<<>>, <<>>)
  BY DEF Begins
<1> QED BY <1>1, <1>2 DEF Trail!Init, TrailInv

\* A step that only appends to the log keeps every part of the invariant
\* that is about guards it leaves alone.
LEMMA AppendKeeps ==
    ASSUME TrailInv, NEW u \in Seq(Entries), log' = log \o u
    PROVE  /\ log' \in Seq(Entries) /\ Begins(log', log')
           /\ Begins(anchor, log') /\ Begins(guard_file.anchor, log')
           /\ inforce \cap Orders \subseteq Trail!Range(log')
           /\ guard_file.inforce \cap Orders \subseteq Trail!Range(log')
           /\ Trail!Range(u) \subseteq Trail!Range(log')
<1>1. /\ log \in Seq(Entries) /\ anchor \in Seq(Entries)
      /\ guard_file.anchor \in Seq(Entries)
  BY DEF TrailInv, TrailType
<1> QED BY <1>1, Grows DEF TrailInv

\* The guard that is saved, or left as it was, keeps its part.
LEMMA SaveKeeps ==
    ASSUME NEW upto \in Seq(Entries), NEW orders, Begins(upto, log'),
           orders \cap Orders \subseteq Trail!Range(log'), acked' \subseteq orders,
           guard_file' = Trail!Guard(upto, orders)
    PROVE  /\ guard_file'.anchor \in Seq(Entries)
           /\ Begins(guard_file'.anchor, log')
           /\ guard_file'.inforce \cap Orders \subseteq Trail!Range(log')
           /\ acked' \subseteq guard_file'.inforce
<1>1. guard_file'.anchor = upto /\ guard_file'.inforce = orders
  BY DEF Trail!Guard
<1> QED BY <1>1

\* Every request, tick of the reserve watch, crash and restart keeps the
\* invariant.
LEMMA TrailSteps ==
    ASSUME Orders \cap Reports = {}
    PROVE  TrailInv /\ [Trail!Next]_(Trail!vars) => TrailInv'
<1> SUFFICES ASSUME TrailInv, [Trail!Next]_(Trail!vars) PROVE TrailInv'
  OBVIOUS
<1>0. /\ TrailType /\ log \in Seq(Entries) /\ known \in Seq(Entries)
      /\ records \in Seq(Entries) /\ anchor \in Seq(Entries)
      /\ guard_file.anchor \in Seq(Entries) /\ <<>> \in Seq(Entries) /\ up \in BOOLEAN
  BY DEF TrailInv, TrailType
<1>1. ASSUME NEW o \in Orders, Trail!OrderAccepted(o) PROVE TrailInv'
  <2>1. Append(records, o) \in Seq(Entries) /\ o \in Trail!Range(Append(records, o))
    BY <1>0, LastIsIn DEF Entries
  <2>2. log' = log \o Append(records, o) /\ known' = log'
    BY <1>1 DEF Trail!OrderAccepted, Trail!Recorded
  <2>3. /\ records' = <<>> /\ anchor' = log' /\ inforce' = inforce \cup {o}
        /\ guard_file' = Trail!Guard(log', inforce') /\ acked' = acked \cup {o}
        /\ up /\ up' = up
    BY <1>1 DEF Trail!OrderAccepted
  <2>4. /\ log' \in Seq(Entries) /\ Begins(log', log')
        /\ inforce' \cap Orders \subseteq Trail!Range(log')
    BY <2>1, <2>2, <2>3, AppendKeeps
  <2>5. acked' \subseteq inforce'
    BY <2>3 DEF TrailInv
  <2>6. /\ guard_file'.anchor \in Seq(Entries) /\ Begins(guard_file'.anchor, log')
        /\ guard_file'.inforce \cap Orders \subseteq Trail!Range(log')
        /\ acked' \subseteq guard_file'.inforce
    BY <2>3, <2>4, <2>5, SaveKeeps
  <2>7. TrailType'
    BY <1>0, <2>2, <2>3, <2>4, <2>6 DEF TrailType
  <2> QED BY <2>3, <2>4, <2>5, <2>6, <2>7 DEF TrailInv
<1>2. ASSUME NEW o \in Orders, Trail!OrderNotSaved(o) PROVE TrailInv'
  <2>1. Append(records, o) \in Seq(Entries) /\ o \in Trail!Range(Append(records, o))
    BY <1>0, LastIsIn DEF Entries
  <2>2. log' = log \o Append(records, o) /\ known' = log'
    BY <1>2 DEF Trail!OrderNotSaved, Trail!Recorded
  <2>3. /\ records' = <<>> /\ UNCHANGED <<up, anchor, inforce, acked>> /\ up
        /\ guard_file' = guard_file \/ guard_file' = Trail!Guard(log', inforce \cup {o})
    BY <1>2 DEF Trail!OrderNotSaved, Trail!MaybeSaved
  <2>4. /\ log' \in Seq(Entries) /\ Begins(log', log') /\ Begins(anchor, log')
        /\ inforce \cap Orders \subseteq Trail!Range(log') /\ o \in Trail!Range(log')
        /\ Begins(guard_file.anchor, log')
        /\ guard_file.inforce \cap Orders \subseteq Trail!Range(log')
    BY <2>1, <2>2, AppendKeeps
  <2>5. acked' \subseteq inforce
    BY <2>3 DEF TrailInv
  <2>6. /\ guard_file'.anchor \in Seq(Entries) /\ Begins(guard_file'.anchor, log')
        /\ guard_file'.inforce \cap Orders \subseteq Trail!Range(log')
        /\ acked' \subseteq guard_file'.inforce
    <3>1. CASE guard_file' = guard_file
      BY <1>0, <2>3, <2>4, <3>1 DEF TrailInv
    <3>2. CASE guard_file' = Trail!Guard(log', inforce \cup {o})
      BY <2>4, <2>5, <3>2, SaveKeeps
    <3> QED BY <2>3, <3>1, <3>2
  <2>7. TrailType'
    BY <1>0, <2>2, <2>3, <2>4, <2>6 DEF TrailType
  <2> QED BY <2>3, <2>4, <2>5, <2>6, <2>7 DEF TrailInv
<1>3. ASSUME NEW o \in Orders, Trail!OrderNotRecorded(o) PROVE TrailInv'
  <2>1. Append(records, o) \in Seq(Entries)
    BY <1>0, LastIsIn DEF Entries
  <2>2. PICK u \in Seq(Entries) : log' = log \o u
    BY <1>0, <1>3, <2>1, FailedWriteAppends DEF Trail!OrderNotRecorded
  <2>3. known' \in Seq(Entries)
    BY <1>0, <1>3, <2>1, FailedWriteAppends DEF Trail!OrderNotRecorded
  <2>4. records' = <<>> /\ UNCHANGED <<up, anchor, inforce, guard_file, acked>>
    BY <1>3 DEF Trail!OrderNotRecorded
  <2>5. TrailType'
    BY <1>0, <2>2, <2>3, <2>4, AppendKeeps DEF TrailType
  <2> QED BY <2>2, <2>4, <2>5, AppendKeeps DEF TrailInv
<1>4. CASE Trail!DepositSaved
  <2>1. /\ UNCHANGED <<up, log, torn, known, records, anchor, inforce, acked>> /\ up
        /\ guard_file' = Trail!Guard(anchor, inforce)
    BY <1>4 DEF Trail!DepositSaved, Trail!file, Trail!memory
  <2>2. /\ guard_file'.anchor \in Seq(Entries) /\ Begins(guard_file'.anchor, log')
        /\ guard_file'.inforce \cap Orders \subseteq Trail!Range(log')
        /\ acked' \subseteq guard_file'.inforce
    <3>1. /\ Begins(anchor, log') /\ inforce \cap Orders \subseteq Trail!Range(log')
          /\ acked' \subseteq inforce
      BY <2>1 DEF TrailInv
    <3> QED BY <1>0, <2>1, <3>1, SaveKeeps
  <2> QED BY <1>0, <2>1, <2>2 DEF TrailInv, TrailType
<1>5. CASE Trail!DepositNotSaved
  <2>1. /\ UNCHANGED <<up, log, torn, known, anchor, inforce, acked>> /\ up
        /\ records' = <<>>
        /\ guard_file' = guard_file \/ guard_file' = Trail!Guard(anchor, inforce)
    BY <1>5 DEF Trail!DepositNotSaved, Trail!file, Trail!MaybeSaved
  <2>2. /\ guard_file'.anchor \in Seq(Entries) /\ Begins(guard_file'.anchor, log')
        /\ guard_file'.inforce \cap Orders \subseteq Trail!Range(log')
        /\ acked' \subseteq guard_file'.inforce
    <3>1. /\ Begins(anchor, log') /\ inforce \cap Orders \subseteq Trail!Range(log')
          /\ acked' \subseteq inforce
      BY <2>1 DEF TrailInv
    <3>2. CASE guard_file' = guard_file
      BY <1>0, <2>1, <3>2 DEF TrailInv
    <3> QED BY <1>0, <2>1, <3>1, <3>2, SaveKeeps
  <2> QED BY <1>0, <2>1, <2>2 DEF TrailInv, TrailType
<1>6. ASSUME NEW r \in Reports, Trail!ReserveReport(r) PROVE TrailInv'
  <2>1. /\ UNCHANGED <<up, log, torn, known, anchor, guard_file, acked>> /\ up
        /\ inforce' = inforce \cup {r} /\ records' = Append(records, r)
    BY <1>6 DEF Trail!ReserveReport, Trail!file
  <2>2. inforce' \cap Orders = inforce \cap Orders
    BY <2>1
  <2>3. records' \in Seq(Entries)
    BY <1>0, <2>1, LastIsIn DEF Entries
  <2>4. acked' \subseteq inforce'
    BY <2>1 DEF TrailInv
  <2> QED BY <1>0, <2>1, <2>2, <2>3, <2>4 DEF TrailInv, TrailType
<1>7. CASE Trail!TickRecorded
  <2>1. log' = log \o records /\ known' = log'
    BY <1>7 DEF Trail!TickRecorded, Trail!Recorded
  <2>2. /\ records' = <<>> /\ anchor' = log' /\ UNCHANGED <<up, inforce, acked>> /\ up
        /\ guard_file' = guard_file \/ guard_file' = Trail!Guard(log', inforce)
    BY <1>7 DEF Trail!TickRecorded, Trail!MaybeSaved
  <2>3. /\ log' \in Seq(Entries) /\ Begins(log', log')
        /\ inforce \cap Orders \subseteq Trail!Range(log')
        /\ Begins(guard_file.anchor, log')
        /\ guard_file.inforce \cap Orders \subseteq Trail!Range(log')
    BY <1>0, <2>1, AppendKeeps
  <2>4. acked' \subseteq inforce
    BY <2>2 DEF TrailInv
  <2>5. /\ guard_file'.anchor \in Seq(Entries) /\ Begins(guard_file'.anchor, log')
        /\ guard_file'.inforce \cap Orders \subseteq Trail!Range(log')
        /\ acked' \subseteq guard_file'.inforce
    <3>1. CASE guard_file' = guard_file
      BY <1>0, <2>2, <2>3, <3>1 DEF TrailInv
    <3>2. CASE guard_file' = Trail!Guard(log', inforce)
      BY <2>3, <2>4, <3>2, SaveKeeps
    <3> QED BY <2>2, <3>1, <3>2
  <2> QED BY <1>0, <2>1, <2>2, <2>3, <2>4, <2>5 DEF TrailInv, TrailType
<1>8. CASE Trail!TickNotRecorded
  <2>1. PICK u \in Seq(Entries) : log' = log \o u
    BY <1>0, <1>8, FailedWriteAppends DEF Trail!TickNotRecorded
  <2>2. /\ UNCHANGED <<up, records, anchor, inforce, acked>> /\ up
        /\ guard_file' = guard_file \/ guard_file' = Trail!Guard(anchor, inforce)
    BY <1>8 DEF Trail!TickNotRecorded, Trail!MaybeSaved
  <2>3. known' \in Seq(Entries)
    BY <1>0, <1>8, FailedWriteAppends DEF Trail!TickNotRecorded
  <2>4. /\ log' \in Seq(Entries) /\ Begins(anchor, log')
        /\ inforce \cap Orders \subseteq Trail!Range(log')
        /\ Begins(guard_file.anchor, log')
        /\ guard_file.inforce \cap Orders \subseteq Trail!Range(log')
    BY <2>1, AppendKeeps
  <2>5. acked' \subseteq inforce
    BY <2>2 DEF TrailInv
  <2>6. /\ guard_file'.anchor \in Seq(Entries) /\ Begins(guard_file'.anchor, log')
        /\ guard_file'.inforce \cap Orders \subseteq Trail!Range(log')
        /\ acked' \subseteq guard_file'.inforce
    <3>1. CASE guard_file' = guard_file
      BY <1>0, <2>2, <2>4, <3>1 DEF TrailInv
    <3>2. CASE guard_file' = Trail!Guard(anchor, inforce)
      BY <1>0, <2>4, <2>5, <3>2, SaveKeeps
    <3> QED BY <2>2, <3>1, <3>2
  <2> QED BY <1>0, <2>2, <2>3, <2>4, <2>5, <2>6 DEF TrailInv, TrailType
<1>9. CASE Trail!Crash
  <2>1. /\ UNCHANGED <<log, guard_file, acked>> /\ up' = FALSE
        /\ known' = <<>> /\ records' = <<>> /\ anchor' = <<>> /\ inforce' = {}
    BY <1>9 DEF Trail!Crash, Trail!file
  <2>2. Begins(<<>>, log)
    BY <1>0 DEF Begins
  <2> QED BY <1>0, <2>1, <2>2 DEF TrailInv, TrailType
<1>10. CASE Trail!Start
  <2>1. /\ UNCHANGED <<log, guard_file, acked>> /\ up' = TRUE
        /\ known' = log /\ records' = <<>> /\ anchor' = guard_file.anchor
        /\ inforce' = guard_file.inforce
    BY <1>10 DEF Trail!Start, Trail!file
  <2> QED BY <1>0, <2>1 DEF TrailInv, TrailType
<1>11. CASE UNCHANGED Trail!vars
  BY <1>11 DEF Trail!vars, TrailInv, TrailType
<1> QED BY <1>1, <1>2, <1>3, <1>4, <1>5, <1>6, <1>7, <1>8, <1>9, <1>10, <1>11 DEF Trail!Next

(***************************************************************************)
(* The audit log is written ahead of the guard (http.rs persist_if_advanced):*)
(* an order that the guard on disk holds is in the log, and what was       *)
(* answered with success is in the guard on disk, for any orders and any   *)
(* length of the log.  A reserve report is no order.                       *)
(***************************************************************************)
THEOREM LogWrittenAhead ==
    ASSUME Orders \cap Reports = {}
    PROVE  Trail!Spec => []LoggedBeforeSaved
<1>1. TrailInv => LoggedBeforeSaved
  BY DEF TrailInv, LoggedBeforeSaved, Trail!LoggedBeforeSaved
<1>2. TrailInv /\ [Trail!Next]_(Trail!vars) => TrailInv'
  BY TrailSteps
<1> QED BY TrailStarts, <1>1, <1>2, PTL DEF Trail!Spec

(***************************************************************************)
(* The daemon comes up again on what it left behind unless a write was cut *)
(* short inside an entry (persist.rs verify_audit, record_admin).          *)
(***************************************************************************)
THEOREM DaemonRestarts ==
    ASSUME Orders \cap Reports = {}
    PROVE  Trail!Spec => []StartsUnlessTorn
<1>1. TrailInv => StartsUnlessTorn
  <2> SUFFICES ASSUME TrailInv PROVE StartsUnlessTorn
    OBVIOUS
  <2>1. Trail!IsPrefix(guard_file.anchor, log)
    BY BeginsIsPrefix DEF TrailInv, TrailType
  <2> QED BY <2>1 DEF StartsUnlessTorn, Trail!StartsUnlessTorn, Trail!verify_audit
<1>2. TrailInv /\ [Trail!Next]_(Trail!vars) => TrailInv'
  BY TrailSteps
<1> QED BY TrailStarts, <1>1, <1>2, PTL DEF Trail!Spec

-----------------------------------------------------------------------------
(* The startup of daemons on one snapshot *)

\* The steps of run at which the lock is held, at which the guard has been
\* read, and at which the snapshot file has been written if there was none.
Locked == {"claimed", "restored", "saved", "prepared", "serving"}
Read == {"restored", "saved", "prepared", "serving"}
Written == {"saved", "prepared", "serving"}

\* A guard whose reserve figures are the reported ones where there is one.
IsGuard(g) ==
    /\ g = [used |-> g.used, reserve |-> g.reserve]
    /\ g.reserve = [p \in Pools |-> g.reserve[p]]
    /\ \A p \in Pools :
          /\ g.reserve[p].reported \in Nat
          /\ g.reserve[p].reported > 0 =>
                g.reserve[p].figure = <<"reported", g.reserve[p].reported>>

BootType ==
    /\ at \in [Daemons -> {"down", "opened"} \cup Locked]
    /\ first \in [Daemons -> BOOLEAN]
    /\ guard = [d \in Daemons |-> guard[d]]
    /\ \A d \in Daemons : IsGuard(guard[d])
    /\ minted \in [Deposits -> Nat]
    /\ snapshot # <<>> => IsGuard(snapshot[1].guard)

\* A guard knows every deposit that was acknowledged.
KnowsMinted(m, g) == \A x \in Deposits : m[x] > 0 => x \in g.used

\* No report of the snapshot is missing from guard g.
HasReportsOf(s, g) ==
    \A p \in Pools : s.reserve[p].reported <= g.reserve[p].reported

(***************************************************************************)
(* A daemon that holds the lock holds it alone.  A daemon that was         *)
(* launched on a snapshot, and one that has passed the first save, has one *)
(* on disk.  The snapshot, and the guard of a daemon that has read it,     *)
(* know every deposit that was acknowledged, and the daemon's guard has    *)
(* the reports of the snapshot.                                            *)
(***************************************************************************)
BootInv ==
    /\ BootType
    /\ \A d \in Daemons : at[d] \in Locked => holder = {d}
    /\ \A d \in Daemons :
          (at[d] # "down" /\ ~first[d]) \/ at[d] \in Written => snapshot # <<>>
    /\ \A x \in Deposits : minted[x] <= 1
    /\ (\E x \in Deposits : minted[x] > 0) => snapshot # <<>>
    /\ snapshot # <<>> => KnowsMinted(minted, snapshot[1].guard)
    /\ \A d \in Daemons : at[d] \in Read =>
          /\ KnowsMinted(minted, guard[d])
          /\ snapshot # <<>> => HasReportsOf(snapshot[1].guard, guard[d])

\* The guard of a first boot is empty.
LEMMA FreshIsGuard == IsGuard(Boot!Fresh) /\ Boot!Fresh.used = {}
<1>1. \A p \in Pools : Boot!Fresh.reserve[p] = [figure |-> <<"none">>, reported |-> 0]
  BY DEF Boot!Fresh
<1>2. Boot!Fresh.reserve = [p \in Pools |-> Boot!Fresh.reserve[p]]
  BY DEF Boot!Fresh
<1>3. Boot!Fresh = [used |-> Boot!Fresh.used, reserve |-> Boot!Fresh.reserve]
  BY DEF Boot!Fresh
<1> QED BY <1>1, <1>2, <1>3 DEF IsGuard, Boot!Fresh

\* Reports are counted.
LEMMA ReportsAreCounted ==
    ASSUME NEW g, IsGuard(g)
    PROVE  HasReportsOf(g, g) /\ \A p \in Pools : g.reserve[p].reported \in Nat
<1>1. \A p \in Pools : g.reserve[p].reported \in Nat
  BY DEF IsGuard
<1> QED BY <1>1 DEF HasReportsOf

\* A deposit that is taken changes the replay set and nothing else.
LEMMA TakenIsGuard ==
    ASSUME NEW g, NEW x, IsGuard(g)
    PROVE  /\ IsGuard(Boot!taken(g, x))
           /\ Boot!taken(g, x).used = g.used \cup {x}
           /\ Boot!taken(g, x).reserve = g.reserve
<1>1. PICK u, r : g = [used |-> u, reserve |-> r]
  BY DEF IsGuard
<1>2. Boot!taken(g, x) = [used |-> u \cup {x}, reserve |-> r]
  BY <1>1 DEF Boot!taken
<1> QED BY <1>1, <1>2 DEF IsGuard

\* Configured figures go only where no report has been taken.
LEMMA ApplyKeepsReports ==
    ASSUME NEW g, NEW v, IsGuard(g)
    PROVE  LET a == Boot!apply_reserves(g, v)
           IN /\ IsGuard(a) /\ a.used = g.used
              /\ \A p \in Pools : a.reserve[p].reported = g.reserve[p].reported
<1> DEFINE a == Boot!apply_reserves(g, v)
           f(p) == <<"configured", CHOOSE n \in 0 .. MAX_U128 :
                        \E entry \in Boot!Range(Boot!configured(v)) :
                            entry[1][2] = p /\ entry[2][2] = n>>
           r(p) == IF g.reserve[p].reported # 0 THEN g.reserve[p]
                   ELSE [figure |-> f(p), reported |-> 0]
<1>1. a = [used |-> g.used, reserve |-> [p \in Pools |-> r(p)]]
  <2>1. PICK u, w : g = [used |-> u, reserve |-> w]
    BY DEF IsGuard
  <2> HIDE DEF f
  <2>2. a = [g EXCEPT !.reserve = [p \in Pools |-> r(p)]]
    BY DEF Boot!apply_reserves, f
  <2> HIDE DEF a, r
  <2> QED BY <2>1, <2>2
<1> HIDE DEF f, a
<1>2. \A p \in Pools : r(p).reported = g.reserve[p].reported
  BY DEF IsGuard
<1>3. \A p \in Pools : r(p).reported > 0 => r(p) = g.reserve[p]
  BY <1>2 DEF IsGuard
<1> HIDE DEF r
<1>4. a.reserve = [p \in Pools |-> r(p)] /\ a.used = g.used
  BY <1>1
<1>5. \A p \in Pools : a.reserve[p] = r(p)
  BY <1>4
<1>6. IsGuard(a)
  <2>1. a = [used |-> a.used, reserve |-> a.reserve]
    BY <1>1, <1>4
  <2>2. a.reserve = [p \in Pools |-> a.reserve[p]]
    BY <1>4, <1>5
  <2> QED BY <1>2, <1>3, <1>5, <2>1, <2>2 DEF IsGuard
<1>7. a.used = g.used /\ \A p \in Pools : a.reserve[p].reported = g.reserve[p].reported
  BY <1>2, <1>4, <1>5
<1> QED BY <1>6, <1>7 DEF a

\* With no snapshot there is nothing to know.
LEMMA BootStarts == Boot!Init => BootInv
<1> SUFFICES ASSUME Boot!Init PROVE BootInv
  OBVIOUS
<1>1. BootType
  BY FreshIsGuard DEF Boot!Init, BootType
<1> QED BY <1>1 DEF Boot!Init, BootInv, Locked, Read, Written

\* A daemon that ends, of its own or not, leaves the others and the disk alone.
LEMMA EndKeeps ==
    ASSUME BootInv, NEW d \in Daemons, Boot!Refuse(d)
    PROVE  BootInv'
<1>1. /\ at' = [at EXCEPT ![d] = "down"] /\ first' = [first EXCEPT ![d] = FALSE]
      /\ guard' = [guard EXCEPT ![d] = Boot!Fresh] /\ holder' = holder \ {d}
      /\ UNCHANGED <<snapshot, minted>>
  BY DEF Boot!Refuse, Boot!Down
<1>2. at' \in [Daemons -> {"down", "opened"} \cup Locked] /\ first' \in [Daemons -> BOOLEAN]
  BY <1>1 DEF BootInv, BootType
<1>3. \A e \in Daemons : /\ guard'[e] = IF e = d THEN Boot!Fresh ELSE guard[e]
                         /\ at'[e] = IF e = d THEN "down" ELSE at[e]
                         /\ e # d => first'[e] = first[e]
  BY <1>1 DEF BootInv, BootType
<1>4. guard' = [e \in Daemons |-> guard'[e]]
  BY <1>1 DEF BootInv, BootType
<1>5. BootType'
  BY <1>1, <1>2, <1>3, <1>4, FreshIsGuard DEF BootInv, BootType
<1>6. \A e \in Daemons : at'[e] \in Locked => holder' = {e}
  <2> SUFFICES ASSUME NEW e \in Daemons, at'[e] \in Locked PROVE holder' = {e}
    OBVIOUS
  <2>1. e # d /\ at[e] \in Locked
    BY <1>3 DEF Locked
  <2>2. holder = {e}
    BY <2>1 DEF BootInv
  <2> QED BY <1>1, <2>1, <2>2
<1> QED BY <1>1, <1>3, <1>5, <1>6 DEF BootInv, Locked, Read, Written, KnowsMinted

\* A daemon that goes on to a step of run without touching a guard or the disk.
LEMMA MoveKeeps ==
    ASSUME BootInv, NEW d \in Daemons, NEW s \in {"opened"} \cup Locked,
           at' = [at EXCEPT ![d] = s], UNCHANGED <<guard, snapshot, minted>>,
           first' \in [Daemons -> BOOLEAN],
           \A e \in Daemons : e # d => first'[e] = first[e],
           ~first'[d] \/ s \in Written => snapshot # <<>>,
           \A e \in Daemons : at'[e] \in Locked => holder' = {e},
           s \in Read => at[d] \in Read
    PROVE  BootInv'
<1>1. at' \in [Daemons -> {"down", "opened"} \cup Locked]
  BY DEF BootInv, BootType
<1>2. \A e \in Daemons : at'[e] = IF e = d THEN s ELSE at[e]
  BY DEF BootInv, BootType
<1>3. BootType'
  BY <1>1 DEF BootInv, BootType
<1>4. \A e \in Daemons : at'[e] \in Read => at[e] \in Read
  BY <1>2
<1>5. \A e \in Daemons :
         (at'[e] # "down" /\ ~first'[e]) \/ at'[e] \in Written => snapshot' # <<>>
  BY <1>2 DEF BootInv
<1> QED BY <1>3, <1>4, <1>5 DEF BootInv, KnowsMinted

\* The holder of the lock writes its guard to the disk, whatever is there.
LEMMA SaveBoot ==
    ASSUME BootInv, NEW d \in Daemons, at[d] \in Read, NEW s \in Read,
           at' = [at EXCEPT ![d] = s], UNCHANGED <<first, holder>>,
           NEW g, snapshot' = Boot!saved(d, g), IsGuard(g),
           guard' = [guard EXCEPT ![d] = guard'[d]], IsGuard(guard'[d]),
           minted' \in [Deposits -> Nat], \A x \in Deposits : minted'[x] <= 1,
           KnowsMinted(minted', g), KnowsMinted(minted', guard'[d]), HasReportsOf(g, guard'[d])
    PROVE  BootInv'
<1>1. snapshot' # <<>> /\ snapshot'[1].guard = g
  BY DEF Boot!saved
<1>2. at' \in [Daemons -> {"down", "opened"} \cup Locked]
  BY DEF BootInv, BootType, Read, Locked
<1>3. \A e \in Daemons : /\ at'[e] = IF e = d THEN s ELSE at[e]
                         /\ e # d => guard'[e] = guard[e]
  BY DEF BootInv, BootType
<1>4. holder = {d}
  BY DEF BootInv, Read, Locked
<1>5. \A e \in Daemons : e # d => at[e] \notin Locked
  BY <1>4 DEF BootInv
<1>6. guard' = [e \in Daemons |-> guard'[e]]
  BY DEF BootInv, BootType
<1>7. BootType'
  BY <1>1, <1>2, <1>3, <1>6 DEF BootInv, BootType
<1>8. \A e \in Daemons : at'[e] \in Locked => holder' = {e}
  BY <1>3, <1>4, <1>5
<1>9. \A e \in Daemons : at'[e] \in Read => e = d
  BY <1>3, <1>5 DEF Read, Locked
<1>10. KnowsMinted(minted', snapshot'[1].guard)
  BY <1>1 DEF KnowsMinted
<1>11. ASSUME NEW e \in Daemons, at'[e] \in Read
       PROVE  KnowsMinted(minted', guard'[e]) /\ HasReportsOf(snapshot'[1].guard, guard'[e])
  BY <1>1, <1>9, <1>11
<1> QED BY <1>1, <1>7, <1>8, <1>10, <1>11 DEF BootInv

\* Every step of run, deposit, report and crash of any daemon keeps the
\* invariant.
LEMMA BootSteps == BootInv /\ [Boot!Next]_(Boot!vars) => BootInv'
<1> SUFFICES ASSUME BootInv, [Boot!Next]_(Boot!vars) PROVE BootInv'
  OBVIOUS
<1>0. /\ at \in [Daemons -> {"down", "opened"} \cup Locked]
      /\ first \in [Daemons -> BOOLEAN] /\ minted \in [Deposits -> Nat]
      /\ guard = [d \in Daemons |-> guard[d]] /\ \A d \in Daemons : IsGuard(guard[d])
      /\ snapshot # <<>> => IsGuard(snapshot[1].guard)
  BY DEF BootInv, BootType
<1>1. ASSUME NEW d \in Daemons, Boot!Launch(d) PROVE BootInv'
  <2>1. /\ at[d] = "down" /\ at' = [at EXCEPT ![d] = "opened"]
        /\ first' = [first EXCEPT ![d] = snapshot = <<>>]
        /\ UNCHANGED <<guard, snapshot, holder, minted>>
    BY <1>1 DEF Boot!Launch
  <2>2. /\ first' \in [Daemons -> BOOLEAN] /\ \A e \in Daemons : e # d => first'[e] = first[e]
        /\ ~first'[d] => snapshot # <<>>
    BY <1>0, <2>1
  <2>3. \A e \in Daemons : at'[e] \in Locked => holder' = {e}
    BY <1>0, <2>1 DEF BootInv, Locked
  <2> QED BY <2>1, <2>2, <2>3, MoveKeeps DEF Written, Read, Locked
<1>2. ASSUME NEW d \in Daemons, Boot!Claim(d) PROVE BootInv'
  <2>1. CASE Boot!Refuse(d)
    BY <2>1, EndKeeps
  <2>2. CASE /\ Boot!claims(d) /\ holder' = holder \cup {d}
             /\ at' = [at EXCEPT ![d] = "claimed"]
             /\ UNCHANGED <<env, first, guard, snapshot, minted>>
    <3>1. holder' = {d} /\ at[d] = "opened"
      BY <1>2, <2>2 DEF Boot!claims, Boot!Claim
    <3>2. \A e \in Daemons : at'[e] \in Locked => holder' = {e}
      BY <1>0, <2>2, <3>1 DEF BootInv, Locked, Boot!claims
    <3>3. ~first'[d] => snapshot # <<>>
      BY <2>2, <3>1 DEF BootInv
    <3> QED BY <1>0, <2>2, <3>2, <3>3, MoveKeeps DEF Written, Read, Locked
  <2> QED BY <1>2, <2>1, <2>2 DEF Boot!Claim
<1>3. ASSUME NEW d \in Daemons, Boot!Restore(d) PROVE BootInv'
  <2>1. CASE Boot!Refuse(d)
    BY <2>1, EndKeeps
  <2>2. CASE ~Boot!Refuse(d)
    <3> DEFINE g == IF snapshot = <<>> THEN Boot!Fresh ELSE snapshot[1].guard
    <3>1. /\ at[d] = "claimed" /\ at' = [at EXCEPT ![d] = "restored"]
          /\ guard' = [guard EXCEPT ![d] = g]
          /\ UNCHANGED <<first, snapshot, holder, minted>>
      BY <1>3, <2>2 DEF Boot!Restore
    <3>2. IsGuard(g)
      BY <1>0, FreshIsGuard
    <3>3. KnowsMinted(minted, g)
      BY DEF BootInv, KnowsMinted
    <3>4. snapshot # <<>> => HasReportsOf(snapshot[1].guard, g)
      BY <1>0 DEF HasReportsOf, IsGuard
    <3> HIDE DEF g
    <3>5. \A e \in Daemons : /\ guard'[e] = IF e = d THEN g ELSE guard[e]
                             /\ at'[e] = IF e = d THEN "restored" ELSE at[e]
      BY <1>0, <3>1
    <3>6. BootType'
      <4>1. at' \in [Daemons -> {"down", "opened"} \cup Locked]
        BY <1>0, <3>1 DEF Locked
      <4>2. guard' = [e \in Daemons |-> guard'[e]]
        BY <1>0, <3>1
      <4> QED BY <1>0, <3>1, <3>2, <3>5, <4>1, <4>2 DEF BootType
    <3>7. \A e \in Daemons : at'[e] \in Locked => holder' = {e}
      BY <3>1, <3>5 DEF BootInv, Locked
    <3>8. \A e \in Daemons :
             (at'[e] # "down" /\ ~first'[e]) \/ at'[e] \in Written => snapshot' # <<>>
      BY <3>1, <3>5 DEF BootInv, Written
    <3>9. \A e \in Daemons : at'[e] \in Read =>
             /\ KnowsMinted(minted', guard'[e])
             /\ snapshot' # <<>> => HasReportsOf(snapshot'[1].guard, guard'[e])
      BY <3>1, <3>3, <3>4, <3>5 DEF BootInv, KnowsMinted, HasReportsOf
    <3> QED BY <3>1, <3>6, <3>7, <3>8, <3>9 DEF BootInv, KnowsMinted
  <2> QED BY <2>1, <2>2
<1>4. ASSUME NEW d \in Daemons, Boot!FirstSave(d) PROVE BootInv'
  <2>1. /\ at[d] = "restored" /\ at' = [at EXCEPT ![d] = "saved"]
        /\ snapshot' = IF first[d] THEN Boot!saved(d, guard[d]) ELSE snapshot
        /\ UNCHANGED <<first, guard, holder, minted>>
    BY <1>4 DEF Boot!FirstSave
  <2>2. CASE first[d]
    <3>1. KnowsMinted(minted', guard[d]) /\ KnowsMinted(minted, guard[d])
      BY <2>1 DEF BootInv, Read, KnowsMinted
    <3>2. HasReportsOf(guard[d], guard[d])
      BY <1>0, ReportsAreCounted
    <3>3. guard' = [guard EXCEPT ![d] = guard'[d]] /\ guard'[d] = guard[d]
      BY <1>0, <2>1
    <3>4. \A x \in Deposits : minted'[x] <= 1
      BY <2>1 DEF BootInv
    <3>5. minted' \in [Deposits -> Nat] /\ UNCHANGED <<first, holder>>
      BY <1>0, <2>1
    <3>6. "saved" \in Read /\ at[d] \in Read
      BY <2>1 DEF Read
    <3>7. KnowsMinted(minted', guard'[d]) /\ HasReportsOf(guard[d], guard'[d])
      BY <3>1, <3>2, <3>3 DEF KnowsMinted
    <3>8. IsGuard(guard[d]) /\ IsGuard(guard'[d])
      BY <1>0, <3>3
    <3> QED BY <2>1, <2>2, <3>1, <3>3, <3>4, <3>5, <3>6, <3>7, <3>8, SaveBoot
  <2>3. CASE ~first[d]
    <3>1. snapshot # <<>> /\ snapshot' = snapshot
      BY <2>1, <2>3 DEF BootInv
    <3>2. \A e \in Daemons : at'[e] \in Locked => holder' = {e}
      BY <1>0, <2>1 DEF BootInv, Locked
    <3> QED BY <1>0, <2>1, <3>1, <3>2, MoveKeeps DEF Written, Read, Locked
  <2> QED BY <2>2, <2>3
<1>5. ASSUME NEW d \in Daemons, Boot!Prepare(d) PROVE BootInv'
  <2>1. CASE Boot!Refuse(d)
    BY <2>1, EndKeeps
  <2>2. CASE ~Boot!Refuse(d)
    <3> DEFINE g == Boot!apply_reserves(guard[d], env[d].RESERVES)
    <3>1. /\ at[d] = "saved" /\ at' = [at EXCEPT ![d] = "prepared"]
          /\ guard' = [guard EXCEPT ![d] = g]
          /\ UNCHANGED <<first, snapshot, holder, minted>>
      BY <1>5, <2>2 DEF Boot!Prepare
    <3>2. /\ IsGuard(g) /\ g.used = guard[d].used
          /\ \A p \in Pools : g.reserve[p].reported = guard[d].reserve[p].reported
      BY <1>0, ApplyKeepsReports
    <3>3. KnowsMinted(minted, g)
      BY <3>1, <3>2 DEF BootInv, KnowsMinted, Read
    <3>4. HasReportsOf(snapshot[1].guard, g) /\ snapshot # <<>>
      BY <3>1, <3>2 DEF BootInv, HasReportsOf, Read, Written
    <3> HIDE DEF g
    <3>5. \A e \in Daemons : /\ guard'[e] = IF e = d THEN g ELSE guard[e]
                             /\ at'[e] = IF e = d THEN "prepared" ELSE at[e]
      BY <1>0, <3>1
    <3>6. BootType'
      <4>1. at' \in [Daemons -> {"down", "opened"} \cup Locked]
        BY <1>0, <3>1 DEF Locked
      <4>2. guard' = [e \in Daemons |-> guard'[e]]
        BY <1>0, <3>1
      <4> QED BY <1>0, <3>1, <3>2, <3>5, <4>1, <4>2 DEF BootType
    <3>7. \A e \in Daemons : at'[e] \in Locked => holder' = {e}
      BY <3>1, <3>5 DEF BootInv, Locked
    <3>9. \A e \in Daemons : at'[e] \in Read =>
             /\ KnowsMinted(minted', guard'[e])
             /\ snapshot' # <<>> => HasReportsOf(snapshot'[1].guard, guard'[e])
      BY <3>1, <3>3, <3>4, <3>5 DEF BootInv, KnowsMinted, HasReportsOf
    <3> QED BY <3>1, <3>4, <3>6, <3>7, <3>9 DEF BootInv, KnowsMinted
  <2> QED BY <2>1, <2>2
<1>6. ASSUME NEW d \in Daemons, Boot!Serve(d) PROVE BootInv'
  <2>1. CASE Boot!Refuse(d)
    BY <2>1, EndKeeps
  <2>2. CASE ~Boot!Refuse(d)
    <3>1. /\ at[d] = "prepared" /\ at' = [at EXCEPT ![d] = "serving"]
          /\ UNCHANGED <<first, guard, snapshot, holder, minted>>
      BY <1>6, <2>2 DEF Boot!Serve
    <3>2. \A e \in Daemons : at'[e] \in Locked => holder' = {e}
      BY <1>0, <3>1 DEF BootInv, Locked
    <3>3. snapshot # <<>>
      BY <3>1 DEF BootInv, Written
    <3> QED BY <1>0, <3>1, <3>2, <3>3, MoveKeeps DEF Written, Read, Locked
  <2> QED BY <2>1, <2>2
<1>7. ASSUME NEW d \in Daemons, NEW x \in Deposits, Boot!Mint(d, x) PROVE BootInv'
  <2> DEFINE g == Boot!taken(guard[d], x)
  <2>1. /\ at[d] = "serving" /\ x \notin guard[d].used
        /\ UNCHANGED <<at, first, holder>>
    BY <1>7 DEF Boot!Mint
  <2>2. IsGuard(g) /\ g.used = guard[d].used \cup {x} /\ g.reserve = guard[d].reserve
    BY <1>0, TakenIsGuard
  <2>3. KnowsMinted(minted, guard[d]) /\ minted[x] = 0
    BY <1>0, <2>1 DEF BootInv, Read, KnowsMinted
  <2>4. HasReportsOf(g, guard[d]) /\ HasReportsOf(g, g)
    BY <1>0, <2>2, ReportsAreCounted DEF HasReportsOf
  <2>5. "serving" \in Read /\ at' = [at EXCEPT ![d] = "serving"] /\ at[d] \in Read
    BY <1>0, <2>1 DEF Read
  <2> HIDE DEF g
  <2>6. CASE /\ guard' = [guard EXCEPT ![d] = g] /\ snapshot' = Boot!saved(d, g)
             /\ minted' = [minted EXCEPT ![x] = @ + 1]
    <3>1. guard'[d] = g /\ guard' = [guard EXCEPT ![d] = guard'[d]]
      BY <1>0, <2>6
    <3>2. minted' \in [Deposits -> Nat] /\ \A y \in Deposits : minted'[y] <= 1
      BY <1>0, <2>3, <2>6 DEF BootInv
    <3>3. \A y \in Deposits : minted'[y] > 0 => y = x \/ minted[y] > 0
      BY <1>0, <2>6
    <3>4. KnowsMinted(minted', g) /\ KnowsMinted(minted', guard'[d])
      BY <2>2, <2>3, <3>1, <3>3 DEF KnowsMinted
    <3> QED BY <2>1, <2>2, <2>4, <2>5, <2>6, <3>1, <3>2, <3>4, SaveBoot
  <2>7. CASE snapshot' = Boot!saved(d, g) /\ UNCHANGED <<guard, minted>>
    <3>1. guard'[d] = guard[d] /\ guard' = [guard EXCEPT ![d] = guard'[d]]
      BY <1>0, <2>7
    <3>2. minted' \in [Deposits -> Nat] /\ \A y \in Deposits : minted'[y] <= 1
      BY <1>0, <2>7 DEF BootInv
    <3>3. KnowsMinted(minted', g) /\ KnowsMinted(minted', guard'[d])
      BY <2>2, <2>3, <2>7 DEF KnowsMinted
    <3>4. IsGuard(guard'[d]) /\ HasReportsOf(g, guard'[d])
      BY <1>0, <2>4, <3>1
    <3> QED BY <2>1, <2>2, <2>5, <2>7, <3>1, <3>2, <3>3, <3>4, SaveBoot
  <2>8. CASE UNCHANGED <<guard, snapshot, minted>>
    BY <2>1, <2>8 DEF BootInv, BootType, KnowsMinted
  <2> QED BY <1>7, <2>6, <2>7, <2>8 DEF Boot!Mint, g
<1>8. ASSUME NEW d \in Daemons, NEW p \in Pools, Boot!Report(d, p) PROVE BootInv'
  <2> DEFINE n == guard[d].reserve[p].reported + 1
             r == [guard[d].reserve EXCEPT ![p] = [figure |-> <<"reported", n>>, reported |-> n]]
             g == [used |-> guard[d].used, reserve |-> r]
  <2>1. UNCHANGED <<at, first, snapshot, holder, minted>>
    BY <1>8 DEF Boot!Report
  <2>2. IsGuard(guard[d]) /\ n \in Nat /\ n > guard[d].reserve[p].reported
    BY <1>0 DEF IsGuard
  <2>3. guard' = [guard EXCEPT ![d] = g]
    <3>1. PICK u, w : guard[d] = [used |-> u, reserve |-> w]
      <4> HIDE DEF n, r, g
      <4> QED BY <2>2 DEF IsGuard
    <3>2. guard' = [guard EXCEPT ![d] = [guard[d] EXCEPT !.reserve = r]]
      BY <1>8 DEF Boot!Report
    <3> HIDE DEF r
    <3>3. [guard[d] EXCEPT !.reserve = r] = g
      BY <3>1
    <3> QED BY <3>2, <3>3
  <2>4. \A q \in Pools : g.reserve[q] = IF q = p THEN [figure |-> <<"reported", n>>, reported |-> n]
                                        ELSE guard[d].reserve[q]
    BY <2>2 DEF IsGuard
  <2>5. IsGuard(g) /\ g.used = guard[d].used
    <3>1. g.reserve = [q \in Pools |-> g.reserve[q]]
      BY <2>2 DEF IsGuard
    <3> HIDE DEF n, r
    <3> QED BY <2>2, <2>4, <3>1 DEF IsGuard
  <2>6. \A q \in Pools : guard[d].reserve[q].reported <= g.reserve[q].reported
    BY <2>2, <2>4 DEF IsGuard
  <2> HIDE DEF g
  <2>7. \A e \in Daemons : guard'[e] = IF e = d THEN g ELSE guard[e]
    BY <1>0, <2>3
  <2>8. guard' = [e \in Daemons |-> guard'[e]]
    BY <1>0, <2>3
  <2>9. BootType'
    BY <1>0, <2>1, <2>5, <2>7, <2>8 DEF BootType
  <2>10. ASSUME NEW e \in Daemons, at'[e] \in Read
         PROVE  /\ KnowsMinted(minted', guard'[e])
                /\ snapshot' # <<>> => HasReportsOf(snapshot'[1].guard, guard'[e])
    <3>1. /\ KnowsMinted(minted, guard[e])
          /\ snapshot # <<>> => HasReportsOf(snapshot[1].guard, guard[e])
      BY <2>1, <2>10 DEF BootInv
    <3>2. CASE e # d
      BY <2>1, <2>7, <3>1, <3>2 DEF KnowsMinted, HasReportsOf
    <3>3. CASE e = d
      <4>1. KnowsMinted(minted', guard'[e])
        BY <2>1, <2>5, <2>7, <3>1, <3>3 DEF KnowsMinted
      <4>2. ASSUME snapshot' # <<>> PROVE HasReportsOf(snapshot'[1].guard, guard'[e])
        BY <1>0, <2>1, <2>2, <2>5, <2>6, <2>7, <3>1, <3>3, <4>2 DEF HasReportsOf, IsGuard
      <4> QED BY <4>1, <4>2
    <3> QED BY <3>2, <3>3
  <2> QED BY <2>1, <2>9, <2>10 DEF BootInv, KnowsMinted
<1>9. ASSUME NEW d \in Daemons, Boot!Crash(d) PROVE BootInv'
  BY <1>9, EndKeeps DEF Boot!Crash
<1>10. CASE UNCHANGED Boot!vars
  BY <1>10 DEF Boot!vars, BootInv, BootType, KnowsMinted
<1> QED BY <1>1, <1>2, <1>3, <1>4, <1>5, <1>6, <1>7, <1>8, <1>9, <1>10 DEF Boot!Next

(***************************************************************************)
(* Any number of daemons in any environments on one snapshot (boot.rs run, *)
(* GuardStore::claim): a deposit is acknowledged once, a daemon that serves*)
(* knows every one that was, and has every reserve report that was saved.  *)
(***************************************************************************)
THEOREM RestartsForgetNothing == Boot!Spec => []ReplaySetSurvives
<1>1. BootInv => ReplaySetSurvives
  <2> SUFFICES ASSUME BootInv PROVE ReplaySetSurvives
    OBVIOUS
  <2>1. ASSUME NEW d \in Daemons, at[d] = "serving"
        PROVE  /\ KnowsMinted(minted, guard[d]) /\ HasReportsOf(snapshot[1].guard, guard[d])
               /\ IsGuard(guard[d])
    BY <2>1 DEF BootInv, BootType, Read, Written
  <2> QED BY <2>1 DEF BootInv, ReplaySetSurvives, Boot!ReplaySetSurvives, KnowsMinted, HasReportsOf, IsGuard
<1> QED BY BootStarts, BootSteps, <1>1, PTL DEF Boot!Spec

-----------------------------------------------------------------------------
(* The HTTP service: the inductive invariant *)

Stages == {"head", "body", "route", "commit", "verify", "install"}

ConnState ==
    [pc: Stages, peer: Addrs, client: Addrs, left: Nat, held: Nat,
     class: SUBSET Classes, kind: Requests \cup {"unknown"},
     before: Seq(Updates), update: Updates \cup {0}]

\* A thread that verifies does so for the one class of its request, and a
\* rotation under way was prechecked against the store it has copied.
Prepared(r) ==
    /\ r.pc \in {"route", "verify"} => r.class = proof_class(r.kind)
    /\ r.pc = "verify" => r.kind \in {"deposit", "rotation"}
    /\ r.pc = "install" \/ (r.pc = "verify" /\ r.kind = "rotation") =>
           r.update \in Updates /\ r.update.period = Len(r.before)

LiveIn(f) == {c \in Conns : f[c].pc # "none"}
OfKey(f, k) == {c \in LiveIn(f) : client_key(f[c].peer) = k}
Verifying(f, k) == {c \in LiveIn(f) : f[c].pc = "verify" /\ k \in f[c].class}
HeldIn(f) == [c \in LiveIn(f) |-> f[c].held]

Counts(f, l, i, b) ==
    /\ l.total = Cardinality(LiveIn(f))
    /\ \A k \in Keys : l.per_ip[k] = Cardinality(OfKey(f, k))
    /\ i = SumFunction(HeldIn(f))
    /\ \A k \in Classes : b[k] = Cardinality(Verifying(f, k))

DoorType ==
    /\ conn \in [Conns -> ConnState \cup {NoConn}]
    /\ limiter \in [total: Nat, per_ip: [Keys -> Nat]]
    /\ inflight \in Nat
    /\ busy \in [Classes -> Nat]
    /\ store \in Seq(Updates)

DoorInv ==
    /\ DoorType
    /\ \A c \in Conns : conn[c] # NoConn => Prepared(conn[c])
    /\ Counts(conn, limiter, inflight, busy)

-----------------------------------------------------------------------------
(* Counts *)

\* A thread is live when it has a state.
LEMMA Lives ==
    ASSUME NEW f \in [Conns -> ConnState \cup {NoConn}], NEW c \in Conns
    PROVE  /\ c \in LiveIn(f) <=> f[c] \in ConnState
           /\ c \notin LiveIn(f) <=> f[c] = NoConn
  BY DEF LiveIn, ConnState, NoConn, Stages

\* Sizes of sets of threads.
LEMMA Sizes ==
    ASSUME NEW S, S \subseteq Conns
    PROVE  /\ IsFiniteSet(S) /\ Cardinality(S) \in Nat
           /\ \A c \in S : Cardinality(S \ {c}) = Cardinality(S) - 1
           /\ \A c \in Conns \ S : Cardinality(S \cup {c}) = Cardinality(S) + 1
<1>1. IsFiniteSet(S)
  BY DoorAssumption, FS_Subset
<1> QED BY <1>1, FS_CardinalityType, FS_RemoveElement, FS_AddElement

\* The bytes that are held.
LEMMA HeldTyped ==
    ASSUME NEW f \in [Conns -> ConnState \cup {NoConn}]
    PROVE  /\ IsFiniteSet(LiveIn(f)) /\ HeldIn(f) \in [LiveIn(f) -> Nat]
           /\ SumFunction(HeldIn(f)) \in Nat
<1>1. LiveIn(f) \subseteq Conns
  BY DEF LiveIn
<1>2. IsFiniteSet(LiveIn(f))
  BY <1>1, Sizes
<1>3. HeldIn(f) \in [LiveIn(f) -> Nat]
  BY <1>1, Lives DEF HeldIn, ConnState
<1> QED BY <1>2, <1>3, SumRemove

Left(f, g, c) ==
    /\ LiveIn(g) = LiveIn(f) \ {c}
    /\ \A k \in Keys : OfKey(g, k) = OfKey(f, k) \ {c}
    /\ \A k \in Classes : Verifying(g, k) = Verifying(f, k) \ {c}
    /\ SumFunction(HeldIn(f)) = f[c].held + SumFunction(HeldIn(g))

\* One thread leaves.
LEMMA ThreadLeaves ==
    ASSUME NEW f \in [Conns -> ConnState \cup {NoConn}], NEW c \in LiveIn(f),
           NEW g, g = [f EXCEPT ![c] = NoConn]
    PROVE  Left(f, g, c)
<1>1. c \in Conns /\ \A d \in Conns : g[d] = IF d = c THEN NoConn ELSE f[d]
  BY DEF LiveIn
<1>2. LiveIn(g) = LiveIn(f) \ {c}
  BY <1>1 DEF LiveIn, NoConn
<1>3. \A k : OfKey(g, k) = OfKey(f, k) \ {c}
  <2> TAKE k
  <2>1. \A d \in Conns : d # c => g[d] = f[d]
    BY <1>1
  <2>2. LiveIn(f) \subseteq Conns
    BY DEF LiveIn
  <2> QED BY <1>2, <2>1, <2>2 DEF OfKey
<1>4. \A k : Verifying(g, k) = Verifying(f, k) \ {c}
  <2>1. \A d \in Conns : d # c => g[d] = f[d]
    BY <1>1
  <2>2. LiveIn(f) \subseteq Conns
    BY DEF LiveIn
  <2> QED BY <1>2, <2>1, <2>2 DEF Verifying
<1>5. HeldIn(g) = [d \in LiveIn(f) \ {c} |-> HeldIn(f)[d]]
  BY <1>1, <1>2 DEF HeldIn, LiveIn
<1>6. HeldIn(f)[c] = f[c].held
  BY DEF HeldIn
<1>7. IsFiniteSet(LiveIn(f)) /\ HeldIn(f) \in [LiveIn(f) -> Nat]
  BY HeldTyped
<1>8. SumFunction(HeldIn(f)) = HeldIn(f)[c] + SumFunction([d \in LiveIn(f) \ {c} |-> HeldIn(f)[d]])
  <2> DEFINE w == HeldIn(f)
             S == LiveIn(f)
  <2>1. IsFiniteSet(S) /\ w \in [S -> Nat] /\ c \in S
    BY <1>7
  <2> HIDE DEF w, S
  <2>2. \A x \in S : SumFunction(w) = w[x] + SumFunction([y \in S \ {x} |-> w[y]])
    BY ONLY <2>1, SumRemove
  <2>3. SumFunction(w) = w[c] + SumFunction([d \in S \ {c} |-> w[d]])
    BY <2>1, <2>2, Zenon
  <2> QED BY <2>3 DEF w, S
<1> QED BY <1>2, <1>3, <1>4, <1>5, <1>6, <1>8 DEF Left

Moved(f, g, c, r) ==
    /\ LiveIn(g) = LiveIn(f)
    /\ \A k \in Keys : OfKey(g, k) = OfKey(f, k)
    /\ \A k \in Classes : Verifying(g, k) = IF r.pc = "verify" /\ k \in r.class
                                            THEN Verifying(f, k) \cup {c}
                                            ELSE Verifying(f, k) \ {c}
    /\ SumFunction(HeldIn(g)) + f[c].held = SumFunction(HeldIn(f)) + r.held

\* One thread goes on.
LEMMA ThreadMoves ==
    ASSUME NEW f \in [Conns -> ConnState \cup {NoConn}], NEW c \in LiveIn(f),
           NEW r \in ConnState, r.peer = f[c].peer,
           NEW g, g = [f EXCEPT ![c] = r]
    PROVE  Moved(f, g, c, r)
<1>1. c \in Conns /\ g[c] = r /\ \A d \in Conns : d # c => g[d] = f[d]
  BY DEF LiveIn
<1>2. g \in [Conns -> ConnState \cup {NoConn}]
  BY <1>1
<1>3. LiveIn(g) = LiveIn(f)
  BY <1>1 DEF LiveIn, ConnState, Stages
<1>4. LiveIn(f) \subseteq Conns
  BY DEF LiveIn
<1>5. \A k : OfKey(g, k) = OfKey(f, k)
  BY <1>1, <1>3, <1>4 DEF OfKey
<1>6. \A k : Verifying(g, k) = IF r.pc = "verify" /\ k \in r.class
                               THEN Verifying(f, k) \cup {c}
                               ELSE Verifying(f, k) \ {c}
  BY <1>1, <1>3, <1>4 DEF Verifying
<1>7. /\ IsFiniteSet(LiveIn(f)) /\ HeldIn(f) \in [LiveIn(f) -> Nat]
      /\ HeldIn(g) \in [LiveIn(f) -> Nat]
  BY <1>2, <1>3, HeldTyped
<1>8. /\ HeldIn(f)[c] = f[c].held /\ HeldIn(g)[c] = r.held
      /\ \A d \in LiveIn(f) : d # c => HeldIn(g)[d] = HeldIn(f)[d]
  BY <1>1, <1>3, <1>4 DEF HeldIn
<1>9. SumFunction(HeldIn(g)) + HeldIn(f)[c] = SumFunction(HeldIn(f)) + HeldIn(g)[c]
  <2> DEFINE v == HeldIn(g)
             w == HeldIn(f)
             S == LiveIn(f)
  <2>1. /\ IsFiniteSet(S) /\ w \in [S -> Nat] /\ v \in [S -> Nat] /\ c \in S
        /\ \A d \in S : d # c => v[d] = w[d]
    BY <1>7, <1>8
  <2> HIDE DEF v, w, S
  <2>2. SumFunction(v) + w[c] = SumFunction(w) + v[c]
    BY <2>1, SumChange
  <2> QED BY <2>2 DEF v, w
<1> QED BY <1>3, <1>5, <1>6, <1>8, <1>9 DEF Moved

Started(f, g, c, r) ==
    /\ LiveIn(g) = LiveIn(f) \cup {c}
    /\ \A k \in Keys : OfKey(g, k) = IF client_key(r.peer) = k
                                     THEN OfKey(f, k) \cup {c} ELSE OfKey(f, k)
    /\ \A k \in Classes : Verifying(g, k) = Verifying(f, k)
    /\ SumFunction(HeldIn(g)) = SumFunction(HeldIn(f))

\* One thread starts.
LEMMA ThreadStarts ==
    ASSUME NEW f \in [Conns -> ConnState \cup {NoConn}], NEW c \in Conns \ LiveIn(f),
           NEW r \in ConnState, r.held = 0, r.pc = "head",
           NEW g, g = [f EXCEPT ![c] = r]
    PROVE  Started(f, g, c, r)
<1>1. g[c] = r /\ \A d \in Conns : d # c => g[d] = f[d]
  OBVIOUS
<1>2. LiveIn(g) = LiveIn(f) \cup {c}
  BY <1>1 DEF LiveIn
<1>3. LiveIn(f) \subseteq Conns
  BY DEF LiveIn
<1>4. ASSUME NEW k \in Keys
      PROVE  OfKey(g, k) = IF client_key(r.peer) = k THEN OfKey(f, k) \cup {c}
                                                     ELSE OfKey(f, k)
  <2>1. \A d \in LiveIn(f) : g[d] = f[d]
    BY <1>1, <1>3
  <2>2. CASE client_key(r.peer) = k
    BY <1>1, <1>2, <2>1, <2>2 DEF OfKey
  <2>3. CASE client_key(r.peer) # k
    BY <1>1, <1>2, <2>1, <2>3 DEF OfKey
  <2> QED BY <2>2, <2>3
<1>5. \A k : Verifying(g, k) = Verifying(f, k)
  BY <1>1, <1>2, <1>3 DEF Verifying
<1>6. SumFunction(HeldIn(g)) = SumFunction(HeldIn(f))
  <2> DEFINE w == HeldIn(f)
             S == LiveIn(f)
             v == [d \in S \cup {c} |-> IF d = c THEN 0 ELSE w[d]]
  <2>1. HeldIn(g) = v
    BY <1>1, <1>2, <1>3 DEF HeldIn
  <2>2. IsFiniteSet(S) /\ w \in [S -> Nat] /\ c \notin S /\ SumFunction(w) \in Nat
    BY HeldTyped
  <2> HIDE DEF w, S
  <2>3. SumFunction(v) = SumFunction(w) + 0
    <3>1. IsFiniteSet(S) /\ w \in [S -> Nat] /\ c \notin S /\ 0 \in Nat
      BY <2>2
    <3> QED BY ONLY <3>1, SumAdd
  <2> HIDE DEF v
  <2> QED BY <2>1, <2>2, <2>3 DEF w
<1> QED BY <1>2, <1>4, <1>5, <1>6 DEF Started

-----------------------------------------------------------------------------
(* Leaving, moving and starting keep the counts *)

\* The guards give back exactly what the thread held.
LEMMA LeaveKeeps ==
    ASSUME DoorInv, NEW c \in Conns, conn[c] # NoConn, Leave(c), store' \in Seq(Updates)
    PROVE  DoorInv'
<1>0. DoorType /\ conn \in [Conns -> ConnState \cup {NoConn}]
  BY DEF DoorInv, DoorType
<1>1. c \in LiveIn(conn) /\ conn[c] \in ConnState /\ Prepared(conn[c])
  BY <1>0, Lives DEF DoorInv
<1>2. conn' = [conn EXCEPT ![c] = NoConn]
  BY DEF Leave
<1>3. conn' \in [Conns -> ConnState \cup {NoConn}]
  BY <1>0, <1>2
<1>4. /\ LiveIn(conn') = LiveIn(conn) \ {c}
      /\ \A k \in Keys : OfKey(conn', k) = OfKey(conn, k) \ {c}
      /\ \A k \in Classes : Verifying(conn', k) = Verifying(conn, k) \ {c}
      /\ SumFunction(HeldIn(conn)) = conn[c].held + SumFunction(HeldIn(conn'))
  <2>1. Left(conn, conn', c)
    BY <1>0, <1>1, <1>2, ThreadLeaves
  <2> QED BY <2>1 DEF Left
<1> DEFINE key == client_key(conn[c].peer)
<1>5. key \in Keys
  BY <1>1 DEF Keys, ConnState
<1>6. Counts(conn, limiter, inflight, busy)
  BY DEF DoorInv
<1>7. /\ limiter'.total = Cardinality(LiveIn(conn'))
      /\ limiter' = [total |-> limiter'.total, per_ip |-> limiter'.per_ip]
      /\ limiter'.per_ip = [limiter.per_ip EXCEPT ![key] = @ - 1]
  <2>1. limiter' = [limiter EXCEPT !.total = @ - 1, !.per_ip[key] = @ - 1]
    BY DEF Leave, SlotGuard, release
  <2> HIDE DEF key
  <2>2. /\ limiter'.total = limiter.total - 1
        /\ limiter' = [total |-> limiter'.total, per_ip |-> limiter'.per_ip]
        /\ limiter'.per_ip = [limiter.per_ip EXCEPT ![key] = @ - 1]
    BY <1>0, <2>1 DEF DoorType
  <2>3. Cardinality(LiveIn(conn) \ {c}) = Cardinality(LiveIn(conn)) - 1
    <3>1. LiveIn(conn) \subseteq Conns
      BY DEF LiveIn
    <3> QED BY <1>1, <3>1, Sizes
  <2> QED BY <1>4, <1>6, <2>2, <2>3 DEF Counts
<1>8. ASSUME NEW k \in Keys PROVE limiter'.per_ip[k] = Cardinality(OfKey(conn', k))
  <2>1. limiter.per_ip[k] = Cardinality(OfKey(conn, k)) /\ OfKey(conn, k) \subseteq Conns
    BY <1>6 DEF Counts, OfKey, LiveIn
  <2>2. limiter.per_ip \in [Keys -> Nat]
    BY <1>0 DEF DoorType
  <2>3. CASE k = key
    <3>1. c \in OfKey(conn, k)
      BY <1>1, <2>3 DEF OfKey
    <3> HIDE DEF key
    <3> QED BY <1>4, <1>5, <1>7, <2>1, <2>2, <2>3, <3>1, Sizes
  <2>4. CASE k # key
    <3>1. OfKey(conn, k) \ {c} = OfKey(conn, k)
      BY <2>4 DEF OfKey
    <3> HIDE DEF key
    <3> QED BY <1>4, <1>7, <2>1, <2>2, <2>4, <3>1
  <2> QED BY <2>3, <2>4
<1>9. inflight' = SumFunction(HeldIn(conn')) /\ inflight' \in Nat
  <2>1. SumFunction(HeldIn(conn')) \in Nat
    BY <1>3, HeldTyped
  <2>2. conn[c].held \in Nat
    BY <1>1 DEF ConnState
  <2> QED BY <1>4, <1>6, <2>1, <2>2 DEF Leave, BodyGuard, Counts
<1>10. ASSUME NEW k \in Classes PROVE busy'[k] = Cardinality(Verifying(conn', k))
  <2>1. busy[k] = Cardinality(Verifying(conn, k)) /\ Verifying(conn, k) \subseteq Conns
    BY <1>6 DEF Counts, Verifying, LiveIn
  <2>2. busy'[k] = IF k \in slot_of(c) THEN busy[k] - 1 ELSE busy[k]
    BY DEF Leave, ProofSlot
  <2>3. k \in slot_of(c) <=> c \in Verifying(conn, k)
    BY <1>1 DEF slot_of, Verifying
  <2>4. CASE k \in slot_of(c)
    BY <1>4, <2>1, <2>2, <2>3, <2>4, Sizes
  <2>5. CASE k \notin slot_of(c)
    <3>1. Verifying(conn, k) \ {c} = Verifying(conn, k)
      BY <2>3, <2>5
    <3> QED BY <1>4, <2>1, <2>2, <2>5, <3>1
  <2> QED BY <2>4, <2>5
<1>11. Counts(conn', limiter', inflight', busy')
  BY <1>7, <1>8, <1>9, <1>10 DEF Counts
<1>12. DoorType'
  <2>1. \A S \in SUBSET Conns : Cardinality(S) \in Nat
    BY Sizes
  <2>2. limiter'.total \in Nat
    BY <1>7, <2>1 DEF LiveIn
  <2>3. limiter'.per_ip \in [Keys -> Nat]
    <3>1. DOMAIN limiter'.per_ip = Keys /\ limiter'.per_ip = [k \in Keys |-> limiter'.per_ip[k]]
      BY <1>0, <1>7 DEF DoorType
    <3>2. \A k \in Keys : limiter'.per_ip[k] \in Nat
      BY <1>8, <2>1 DEF OfKey, LiveIn
    <3> QED BY <3>1, <3>2
  <2>4. limiter' \in [total: Nat, per_ip: [Keys -> Nat]]
    BY <1>7, <2>2, <2>3
  <2>5. busy' \in [Classes -> Nat]
    <3>1. busy' = [k \in Classes |-> busy'[k]]
      BY DEF Leave, ProofSlot
    <3>2. \A k \in Classes : busy'[k] \in Nat
      BY <1>10, <2>1 DEF Verifying, LiveIn
    <3> QED BY <3>1, <3>2
  <2> QED BY <1>3, <1>9, <2>4, <2>5 DEF DoorType
<1>13. \A d \in Conns : conn'[d] # NoConn => Prepared(conn'[d])
  BY <1>0, <1>2 DEF DoorInv
<1> QED BY <1>11, <1>12, <1>13 DEF DoorInv

Verifies(r, k) == r.pc = "verify" /\ k \in r.class

\* A thread that goes on and pays for what it takes.
LEMMA ThreadMoveKeeps ==
    ASSUME DoorInv, NEW c \in Conns, conn[c] # NoConn,
           NEW r \in ConnState, Prepared(r), r.peer = conn[c].peer,
           conn' = [conn EXCEPT ![c] = r],
           limiter' = limiter,
           inflight' + conn[c].held = inflight + r.held, inflight' \in Nat,
           busy' = [k \in Classes |->
                      IF Verifies(r, k) /\ ~Verifies(conn[c], k) THEN busy[k] + 1
                      ELSE IF ~Verifies(r, k) /\ Verifies(conn[c], k) THEN busy[k] - 1
                      ELSE busy[k]],
           store' \in Seq(Updates)
    PROVE  DoorInv'
<1>0. DoorType /\ conn \in [Conns -> ConnState \cup {NoConn}]
  BY DEF DoorInv, DoorType
<1>1. c \in LiveIn(conn) /\ conn[c] \in ConnState
  BY <1>0, Lives
<1>2. conn' \in [Conns -> ConnState \cup {NoConn}]
  BY <1>0
<1>3. Moved(conn, conn', c, r)
  BY <1>0, <1>1, ThreadMoves
<1>4. Counts(conn, limiter, inflight, busy)
  BY DEF DoorInv
<1>5. /\ limiter'.total = Cardinality(LiveIn(conn'))
      /\ \A k \in Keys : limiter'.per_ip[k] = Cardinality(OfKey(conn', k))
  BY <1>3, <1>4 DEF Moved, Counts
<1>6. inflight' = SumFunction(HeldIn(conn'))
  <2>1. SumFunction(HeldIn(conn')) \in Nat /\ SumFunction(HeldIn(conn)) \in Nat
    BY <1>0, <1>2, HeldTyped
  <2>2. conn[c].held \in Nat /\ r.held \in Nat
    BY <1>1 DEF ConnState
  <2>3. SumFunction(HeldIn(conn')) + conn[c].held = SumFunction(HeldIn(conn)) + r.held
    BY <1>3 DEF Moved
  <2>4. inflight = SumFunction(HeldIn(conn))
    BY <1>4 DEF Counts
  <2> QED BY <2>1, <2>2, <2>3, <2>4
<1>7. ASSUME NEW k \in Classes PROVE busy'[k] = Cardinality(Verifying(conn', k))
  <2>1. busy[k] = Cardinality(Verifying(conn, k)) /\ Verifying(conn, k) \subseteq Conns
    BY <1>4 DEF Counts, Verifying, LiveIn
  <2>2. Verifies(conn[c], k) <=> c \in Verifying(conn, k)
    BY <1>1 DEF Verifies, Verifying
  <2>3. Verifying(conn', k) = IF Verifies(r, k) THEN Verifying(conn, k) \cup {c}
                                                ELSE Verifying(conn, k) \ {c}
    BY <1>3 DEF Moved, Verifies
  <2>4. CASE Verifies(r, k) /\ ~Verifies(conn[c], k)
    <3>1. busy'[k] = busy[k] + 1
      BY <2>4
    <3>2. Verifying(conn', k) = Verifying(conn, k) \cup {c} /\ c \in Conns \ Verifying(conn, k)
      BY <2>2, <2>3, <2>4
    <3>3. Cardinality(Verifying(conn, k) \cup {c}) = Cardinality(Verifying(conn, k)) + 1
      BY <2>1, <3>2, Sizes
    <3> QED BY <2>1, <3>1, <3>2, <3>3
  <2>5. CASE ~Verifies(r, k) /\ Verifies(conn[c], k)
    <3>1. busy'[k] = busy[k] - 1
      BY <2>5
    <3>2. Verifying(conn', k) = Verifying(conn, k) \ {c} /\ c \in Verifying(conn, k)
      BY <2>2, <2>3, <2>5
    <3>3. Cardinality(Verifying(conn, k) \ {c}) = Cardinality(Verifying(conn, k)) - 1
      BY <2>1, <3>2, Sizes
    <3> QED BY <2>1, <3>1, <3>2, <3>3
  <2>6. CASE Verifies(r, k) <=> Verifies(conn[c], k)
    <3>1. busy'[k] = busy[k]
      BY <2>6
    <3>2. Verifying(conn', k) = Verifying(conn, k)
      BY <2>2, <2>3, <2>6
    <3> QED BY <2>1, <3>1, <3>2
  <2> QED BY <2>4, <2>5, <2>6
<1>8. busy' \in [Classes -> Nat]
  <2>1. \A k \in Classes : busy'[k] \in Nat
    BY <1>7, Sizes DEF Verifying, LiveIn
  <2> QED BY <2>1
<1>9. \A d \in Conns : conn'[d] # NoConn => Prepared(conn'[d])
  BY <1>0 DEF DoorInv
<1> QED BY <1>0, <1>2, <1>5, <1>6, <1>7, <1>8, <1>9 DEF DoorInv, DoorType, Counts

\* A thread that goes on without a verifier.
LEMMA PlainMove ==
    ASSUME DoorInv, NEW c \in Conns, conn[c] # NoConn, conn[c].pc # "verify",
           NEW r \in ConnState, Prepared(r), r.peer = conn[c].peer, r.pc # "verify",
           conn' = [conn EXCEPT ![c] = r],
           UNCHANGED <<limiter, busy, store>>,
           inflight' + conn[c].held = inflight + r.held, inflight' \in Nat
    PROVE  DoorInv'
<1>1. busy' = [k \in Classes |->
                 IF Verifies(r, k) /\ ~Verifies(conn[c], k) THEN busy[k] + 1
                 ELSE IF ~Verifies(r, k) /\ Verifies(conn[c], k) THEN busy[k] - 1
                 ELSE busy[k]]
  BY DEF Verifies, DoorInv, DoorType
<1>2. store' \in Seq(Updates)
  BY DEF DoorInv, DoorType
<1> QED BY <1>1, <1>2, ThreadMoveKeeps

\* A connection that is taken is counted.
LEMMA AcceptInv ==
    ASSUME DoorInv, NEW c \in Conns, NEW ip \in Addrs, Accept(c, ip)
    PROVE  DoorInv'
<1>0. DoorType /\ conn \in [Conns -> ConnState \cup {NoConn}] /\ <<>> \in Seq(Updates)
  BY DEF DoorInv, DoorType
<1>1. UNCHANGED <<inflight, busy, store>>
  BY DEF Accept
<1>2. CASE UNCHANGED <<limiter, conn>>
  BY <1>1, <1>2 DEF DoorInv, DoorType, Counts
<1>3. CASE can_admit(ip)
  <2> DEFINE r == [pc |-> "head", peer |-> ip, client |-> ip, left |-> 0,
                   held |-> 0, class |-> {}, kind |-> "unknown",
                   before |-> <<>>, update |-> 0]
             key == client_key(ip)
  <2>1. /\ limiter' = [limiter EXCEPT !.total = @ + 1, !.per_ip[key] = @ + 1]
        /\ conn' = [conn EXCEPT ![c] = r]
        /\ conn[c].pc = "none"
    BY <1>3 DEF Accept, counted, is_at
  <2>2. c \in Conns \ LiveIn(conn)
    BY <2>1 DEF LiveIn
  <2>3. r \in ConnState /\ Prepared(r) /\ r.held = 0 /\ r.pc = "head" /\ r.peer = ip
    BY <1>0 DEF ConnState, Prepared, Stages
  <2>4. key \in Keys
    BY DEF Keys
  <2> HIDE DEF r
  <2>5. conn' \in [Conns -> ConnState \cup {NoConn}]
    BY <1>0, <2>1, <2>3
  <2>6. Started(conn, conn', c, r)
    BY <1>0, <2>1, <2>2, <2>3, ThreadStarts
  <2>7. Counts(conn, limiter, inflight, busy)
    BY DEF DoorInv
  <2> HIDE DEF key
  <2>8. /\ limiter'.total = limiter.total + 1
        /\ limiter'.per_ip = [limiter.per_ip EXCEPT ![key] = @ + 1]
        /\ limiter' \in [total: Nat, per_ip: [Keys -> Nat]]
    <3>1. /\ limiter.total \in Nat /\ limiter.per_ip \in [Keys -> Nat]
          /\ limiter = [total |-> limiter.total, per_ip |-> limiter.per_ip]
      BY <1>0 DEF DoorType
    <3>2. PICK t, p : limiter = [total |-> t, per_ip |-> p] /\ t \in Nat /\ p \in [Keys -> Nat]
      BY <3>1
    <3>3. limiter' = [total |-> t + 1, per_ip |-> [p EXCEPT ![key] = @ + 1]]
      BY <2>1, <3>2
    <3>4. t + 1 \in Nat /\ [p EXCEPT ![key] = @ + 1] \in [Keys -> Nat]
      BY <2>4, <3>2
    <3> QED BY <3>2, <3>3, <3>4
  <2>9. limiter'.total = Cardinality(LiveIn(conn'))
    <3>1. LiveIn(conn) \subseteq Conns
      BY DEF LiveIn
    <3> QED BY <2>2, <2>6, <2>7, <2>8, <3>1, Sizes DEF Started, Counts
  <2>10. ASSUME NEW k \in Keys PROVE limiter'.per_ip[k] = Cardinality(OfKey(conn', k))
    <3>1. limiter.per_ip[k] = Cardinality(OfKey(conn, k)) /\ OfKey(conn, k) \subseteq Conns
      BY <2>7 DEF Counts, OfKey, LiveIn
    <3>2. limiter.per_ip \in [Keys -> Nat]
      BY <1>0 DEF DoorType
    <3>3. OfKey(conn', k) = IF key = k THEN OfKey(conn, k) \cup {c} ELSE OfKey(conn, k)
      BY <2>3, <2>6 DEF Started, key
    <3>4. c \in Conns \ OfKey(conn, k)
      BY <2>2 DEF OfKey
    <3>5. CASE key = k
      BY <2>4, <2>8, <3>1, <3>2, <3>3, <3>4, <3>5, Sizes
    <3>6. CASE key # k
      BY <2>4, <2>8, <3>1, <3>2, <3>3, <3>6
    <3> QED BY <3>5, <3>6
  <2>11. inflight' = SumFunction(HeldIn(conn'))
    BY <1>1, <2>6, <2>7 DEF Started, Counts
  <2>12. \A k \in Classes : busy'[k] = Cardinality(Verifying(conn', k))
    BY <1>1, <2>6, <2>7 DEF Started, Counts
  <2>13. \A d \in Conns : conn'[d] # NoConn => Prepared(conn'[d])
    BY <1>0, <2>1, <2>3 DEF DoorInv
  <2>14. DoorType'
    BY <1>0, <1>1, <2>5, <2>8 DEF DoorType
  <2> QED BY <2>9, <2>10, <2>11, <2>12, <2>13, <2>14 DEF DoorInv, Counts
<1> QED BY <1>2, <1>3 DEF Accept

-----------------------------------------------------------------------------
(* The steps of a thread *)

\* A thread that is somewhere has a state.
LEMMA SomeWhere ==
    ASSUME DoorInv, NEW c \in Conns, conn[c].pc # "none"
    PROVE  conn[c] # NoConn /\ conn[c] \in ConnState /\ Prepared(conn[c])
<1>1. conn[c] # NoConn
  BY DEF NoConn
<1> QED BY <1>1 DEF DoorInv, DoorType

\* Every way out that leaves the store alone.
LEMMA LeavesInv ==
    ASSUME DoorInv, NEW c \in Conns, conn[c].pc # "none", Leave(c), store' = store
    PROVE  DoorInv'
<1>1. store' \in Seq(Updates)
  BY DEF DoorInv, DoorType
<1> QED BY <1>1, SomeWhere, LeaveKeeps

\* A head that is read, refused or too long.
LEMMA ReadHeadInv ==
    ASSUME DoorInv, NEW c \in Conns, NEW client \in Addrs, NEW length \in 0 .. MAX_BODY + 1,
           NEW post \in BOOLEAN, ReadHead(c, client, length, post)
    PROVE  DoorInv'
<1>1. conn[c].pc = "head" /\ store' = store
  BY DEF ReadHead, is_at
<1>2. CASE Leave(c)
  BY <1>1, <1>2, LeavesInv
<1>3. CASE /\ conn' = [conn EXCEPT ![c].pc = "body", ![c].client = client, ![c].left = length]
           /\ UNCHANGED <<limiter, inflight, busy>>
  <2> DEFINE r == [conn[c] EXCEPT !.pc = "body", !.client = client, !.left = length]
  <2>1. conn[c] \in ConnState /\ conn[c] # NoConn /\ conn \in [Conns -> ConnState \cup {NoConn}]
    BY <1>1, SomeWhere DEF DoorInv, DoorType
  <2>2. length \in Nat
    BY DoorAssumption
  <2>3. /\ r \in ConnState /\ r.pc = "body" /\ r.held = conn[c].held
        /\ r.peer = conn[c].peer
    BY <2>1, <2>2 DEF ConnState, Stages
  <2>4. conn' = [conn EXCEPT ![c] = r]
    BY <1>3, <2>1
  <2> HIDE DEF r
  <2>5. Prepared(r)
    BY <2>3 DEF Prepared
  <2>6. inflight' + conn[c].held = inflight + r.held /\ inflight' \in Nat
    BY <1>3, <2>3 DEF DoorInv, DoorType
  <2> QED BY <1>1, <1>3, <2>1, <2>3, <2>4, <2>5, <2>6, PlainMove
<1> QED BY <1>2, <1>3 DEF ReadHead

\* Bytes that are read are held.
LEMMA ReadBodyInv ==
    ASSUME DoorInv, NEW c \in Conns, NEW n \in 1 .. MAX_BODY, ReadBody(c, n)
    PROVE  DoorInv'
<1>1. conn[c].pc = "body" /\ store' = store /\ n \in 1 .. conn[c].left
  BY DEF ReadBody, is_at
<1>2. CASE Leave(c)
  BY <1>1, <1>2, LeavesInv
<1>3. CASE /\ inflight' = inflight + n
           /\ conn' = [conn EXCEPT ![c].left = @ - n, ![c].held = @ + n]
           /\ UNCHANGED <<limiter, busy>>
  <2> DEFINE r == [conn[c] EXCEPT !.left = @ - n, !.held = @ + n]
  <2>1. conn[c] \in ConnState /\ conn[c] # NoConn /\ conn \in [Conns -> ConnState \cup {NoConn}]
    BY <1>1, SomeWhere DEF DoorInv, DoorType
  <2>2. n \in Nat /\ conn[c].left - n \in Nat /\ conn[c].held + n \in Nat /\ conn[c].held \in Nat
    BY <1>1, <2>1, DoorAssumption DEF ConnState
  <2>3. /\ r \in ConnState /\ r.pc = "body" /\ r.held = conn[c].held + n
        /\ r.peer = conn[c].peer
    BY <1>1, <2>1, <2>2 DEF ConnState
  <2>4. conn' = [conn EXCEPT ![c] = r]
    BY <1>3, <2>1
  <2> HIDE DEF r
  <2>5. Prepared(r)
    BY <2>3 DEF Prepared
  <2>6. inflight' + conn[c].held = inflight + r.held /\ inflight' \in Nat
    BY <1>3, <2>2, <2>3 DEF DoorInv, DoorType
  <2> QED BY <1>1, <1>3, <2>1, <2>3, <2>4, <2>5, <2>6, PlainMove
<1> QED BY <1>2, <1>3 DEF ReadBody

\* A request goes on with the class its kind has.
LEMMA DispatchInv ==
    ASSUME DoorInv, NEW c \in Conns, NEW kind \in Kinds, Dispatch(c, kind)
    PROVE  DoorInv'
<1>1. conn[c].pc = "body" /\ store' = store
  BY DEF Dispatch, is_at
<1>2. CASE Leave(c)
  BY <1>1, <1>2, LeavesInv
<1>3. CASE /\ conn' = [conn EXCEPT ![c].pc = "route", ![c].kind = kind,
                                   ![c].class = proof_class(kind)]
           /\ UNCHANGED <<limiter, inflight, busy>>
  <2> DEFINE r == [conn[c] EXCEPT !.pc = "route", !.kind = kind, !.class = proof_class(kind)]
  <2>1. conn[c] \in ConnState /\ conn[c] # NoConn /\ conn \in [Conns -> ConnState \cup {NoConn}]
    BY <1>1, SomeWhere DEF DoorInv, DoorType
  <2>2. kind \in Requests /\ proof_class(kind) \in SUBSET Classes
    BY DoorAssumption DEF proof_class, Classes
  <2>3. /\ r \in ConnState /\ r.pc = "route" /\ r.held = conn[c].held
        /\ r.peer = conn[c].peer /\ r.kind = kind /\ r.class = proof_class(kind)
    BY <2>1, <2>2 DEF ConnState, Stages
  <2>4. conn' = [conn EXCEPT ![c] = r]
    BY <1>3, <2>1
  <2> HIDE DEF r
  <2>5. Prepared(r)
    BY <2>3 DEF Prepared
  <2>6. inflight' + conn[c].held = inflight + r.held /\ inflight' \in Nat
    BY <1>3, <2>3 DEF DoorInv, DoorType
  <2> QED BY <1>1, <1>3, <2>1, <2>3, <2>4, <2>5, <2>6, PlainMove
<1> QED BY <1>2, <1>3 DEF Dispatch

\* On to the write lock.
LEMMA PrepareInv ==
    ASSUME DoorInv, NEW c \in Conns, Prepare(c) PROVE DoorInv'
<1>1. /\ conn[c].pc = "route" /\ conn' = [conn EXCEPT ![c].pc = "commit"]
      /\ UNCHANGED <<limiter, inflight, busy, store>>
  BY DEF Prepare, is_at
<1> DEFINE r == [conn[c] EXCEPT !.pc = "commit"]
<1>2. conn[c] \in ConnState /\ conn[c] # NoConn /\ conn \in [Conns -> ConnState \cup {NoConn}]
  BY <1>1, SomeWhere DEF DoorInv, DoorType
<1>3. r \in ConnState /\ r.pc = "commit" /\ r.held = conn[c].held /\ r.peer = conn[c].peer
  BY <1>2 DEF ConnState, Stages
<1>4. conn' = [conn EXCEPT ![c] = r]
  BY <1>1, <1>2
<1> HIDE DEF r
<1>5. Prepared(r)
  BY <1>3 DEF Prepared
<1>6. inflight' + conn[c].held = inflight + r.held /\ inflight' \in Nat
  BY <1>1, <1>3 DEF DoorInv, DoorType
<1> QED BY <1>1, <1>2, <1>3, <1>4, <1>5, <1>6, PlainMove

\* A verifier is taken for the class of the request.
LEMMA TakeVerifierInv ==
    ASSUME DoorInv, NEW c \in Conns, conn[c].pc = "route",
           NEW k \in Classes, conn[c].class = {k},
           conn[c].kind \in {"deposit", "rotation"},
           NEW copy \in Seq(Updates), NEW u \in Updates \cup {0},
           conn[c].kind = "rotation" => u \in Updates /\ u.period = Len(copy),
           TakeVerifier(c, copy, u)
    PROVE  DoorInv'
<1>1. (CHOOSE j \in conn[c].class : TRUE) = k
  OBVIOUS
<1>2. store' = store
  BY DEF TakeVerifier
<1>3. CASE Leave(c)
  BY <1>2, <1>3, LeavesInv
<1>4. CASE ~Leave(c)
  <2>1. /\ busy' = [busy EXCEPT ![k] = @ + 1]
        /\ conn' = [conn EXCEPT ![c].pc = "verify", ![c].before = copy, ![c].update = u]
        /\ UNCHANGED <<limiter, inflight>>
    BY <1>1, <1>4 DEF TakeVerifier
  <2> DEFINE r == [conn[c] EXCEPT !.pc = "verify", !.before = copy, !.update = u]
  <2>2. /\ conn[c] \in ConnState /\ conn[c] # NoConn /\ Prepared(conn[c])
        /\ conn \in [Conns -> ConnState \cup {NoConn}]
    BY SomeWhere DEF DoorInv, DoorType
  <2>3. /\ r \in ConnState /\ r.pc = "verify" /\ r.held = conn[c].held
        /\ r.peer = conn[c].peer /\ r.kind = conn[c].kind /\ r.class = {k}
        /\ r.before = copy /\ r.update = u
    BY <2>2 DEF ConnState, Stages
  <2>4. conn' = [conn EXCEPT ![c] = r]
    BY <2>1, <2>2
  <2> HIDE DEF r
  <2>5. Prepared(r)
    BY <2>2, <2>3 DEF Prepared
  <2>6. inflight' + conn[c].held = inflight + r.held /\ inflight' \in Nat
    BY <2>1, <2>3 DEF DoorInv, DoorType
  <2>7. busy' = [j \in Classes |->
                   IF Verifies(r, j) /\ ~Verifies(conn[c], j) THEN busy[j] + 1
                   ELSE IF ~Verifies(r, j) /\ Verifies(conn[c], j) THEN busy[j] - 1
                   ELSE busy[j]]
    <3>1. busy \in [Classes -> Nat]
      BY DEF DoorInv, DoorType
    <3> QED BY <2>1, <2>3, <3>1 DEF Verifies
  <2>8. store' \in Seq(Updates)
    BY <1>2 DEF DoorInv, DoorType
  <2> QED BY <2>1, <2>2, <2>3, <2>4, <2>5, <2>6, <2>7, <2>8, ThreadMoveKeeps
<1> QED BY <1>3, <1>4

\* A deposit with a proof.
LEMMA PrepareDepositInv ==
    ASSUME DoorInv, NEW c \in Conns, PrepareDeposit(c) PROVE DoorInv'
<1>1. conn[c].pc = "route" /\ conn[c].kind = "deposit" /\ TakeVerifier(c, <<>>, 0)
  BY DEF PrepareDeposit, is_at
<1>2. conn[c].class = {"Deposit"} /\ "Deposit" \in Classes
  BY <1>1, SomeWhere DEF Prepared, proof_class, Classes
<1>3. <<>> \in Seq(Updates)
  OBVIOUS
<1> QED BY <1>1, <1>2, <1>3, TakeVerifierInv

\* A rotation, with a copy of the store as it is.
LEMMA PrepareRotationInv ==
    ASSUME DoorInv, NEW c \in Conns, NEW u \in Updates, PrepareRotation(c, u) PROVE DoorInv'
<1>1. /\ conn[c].pc = "route" /\ conn[c].kind = "rotation" /\ TakeVerifier(c, store, u)
      /\ u.period = Len(store)
  BY DEF PrepareRotation, is_at, precheck_ethereum_rotation
<1>2. conn[c].class = {"Rotation"} /\ "Rotation" \in Classes
  BY <1>1, SomeWhere DEF Prepared, proof_class, Classes
<1>3. store \in Seq(Updates)
  BY DEF DoorInv, DoorType
<1> QED BY <1>1, <1>2, <1>3, TakeVerifierInv

\* A proof that holds gives the verifier back and goes on.
LEMMA VerifyInv ==
    ASSUME DoorInv, NEW c \in Conns, Verify(c) PROVE DoorInv'
<1> DEFINE p == IF "Rotation" \in conn[c].class THEN "install" ELSE "commit"
           r == [conn[c] EXCEPT !.pc = p]
<1>1. /\ conn[c].pc = "verify" /\ conn' = [conn EXCEPT ![c].pc = p]
      /\ UNCHANGED <<limiter, inflight, store>>
      /\ busy' = [k \in Classes |-> IF k \in conn[c].class THEN busy[k] - 1 ELSE busy[k]]
  BY DEF Verify, is_at, ProofSlot, slot_of
<1>2. /\ conn[c] \in ConnState /\ conn[c] # NoConn /\ Prepared(conn[c])
      /\ conn \in [Conns -> ConnState \cup {NoConn}]
  BY <1>1, SomeWhere DEF DoorInv, DoorType
<1>3. p \in {"install", "commit"} /\ (p = "install" => conn[c].kind = "rotation")
  BY <1>1, <1>2 DEF Prepared, proof_class
<1> HIDE DEF p
<1>4. /\ r \in ConnState /\ r.pc = p /\ r.held = conn[c].held /\ r.peer = conn[c].peer
      /\ r.update = conn[c].update /\ r.before = conn[c].before
  BY <1>2, <1>3 DEF ConnState, Stages
<1>5. conn' = [conn EXCEPT ![c] = r]
  BY <1>1, <1>2
<1> HIDE DEF r
<1>6. Prepared(r)
  BY <1>1, <1>2, <1>3, <1>4 DEF Prepared
<1>7. inflight' + conn[c].held = inflight + r.held /\ inflight' \in Nat
  BY <1>1, <1>4 DEF DoorInv, DoorType
<1>8. busy' = [k \in Classes |->
                 IF Verifies(r, k) /\ ~Verifies(conn[c], k) THEN busy[k] + 1
                 ELSE IF ~Verifies(r, k) /\ Verifies(conn[c], k) THEN busy[k] - 1
                 ELSE busy[k]]
  BY <1>1, <1>3, <1>4 DEF Verifies
<1>9. store' \in Seq(Updates)
  BY <1>1 DEF DoorInv, DoorType
<1> QED BY <1>1, <1>2, <1>4, <1>5, <1>6, <1>7, <1>8, <1>9, ThreadMoveKeeps

\* A rotation is installed over the store it was verified against, or not.
LEMMA InstallDoes ==
    ASSUME DoorInv, NEW c \in Conns, Install(c)
    PROVE  /\ conn[c].update \in Updates
           /\ store' = store \/
                 (store' = Append(store, conn[c].update) /\ conn[c].update.period = Len(store))
<1>1. /\ conn[c].pc = "install"
      /\ store' = IF store = conn[c].before THEN Append(conn[c].before, conn[c].update)
                                            ELSE store
  BY DEF Install, is_at, install_ethereum_rotation, rotate_ethereum_store
<1>2. Prepared(conn[c])
  BY <1>1, SomeWhere
<1> QED BY <1>1, <1>2 DEF Prepared

\* And so the store stays a list of updates.
LEMMA InstallInv ==
    ASSUME DoorInv, NEW c \in Conns, Install(c) PROVE DoorInv'
<1>1. Leave(c) /\ conn[c].pc = "install"
  BY DEF Install, is_at
<1>2. store' \in Seq(Updates)
  <2>1. store \in Seq(Updates)
    BY DEF DoorInv, DoorType
  <2> QED BY <2>1, InstallDoes
<1> QED BY <1>1, <1>2, SomeWhere, LeaveKeeps

-----------------------------------------------------------------------------
(* The theorems *)

\* No one is connected.
LEMMA DoorInitInv == DoorInit => DoorInv
<1> SUFFICES ASSUME DoorInit PROVE DoorInv
  OBVIOUS
<1>1. conn \in [Conns -> ConnState \cup {NoConn}] /\ LiveIn(conn) = {}
  BY DEF DoorInit, LiveIn, NoConn
<1>2. DoorType
  BY <1>1 DEF DoorInit, DoorType, Empty, Zero
<1>3. \A k : OfKey(conn, k) = {} /\ Verifying(conn, k) = {}
  BY <1>1 DEF OfKey, Verifying
<1>4. SumFunction(HeldIn(conn)) = 0
  <2>1. IsFiniteSet(LiveIn(conn)) /\ HeldIn(conn) \in [LiveIn(conn) -> Nat]
    BY <1>1, HeldTyped
  <2> QED BY <1>1, <2>1, SumRemove
<1>5. Cardinality({}) = 0
  BY FS_EmptySet
<1>6. Counts(conn, limiter, inflight, busy)
  BY <1>1, <1>3, <1>4, <1>5 DEF DoorInit, Counts, Empty, Zero
<1>7. \A c \in Conns : conn[c] # NoConn => Prepared(conn[c])
  BY DEF DoorInit
<1> QED BY <1>2, <1>6, <1>7 DEF DoorInv

\* A window that rolls over is none of the counts.
LEMMA SameInv ==
    ASSUME DoorInv, UNCHANGED <<conn, limiter, inflight, busy, store>> PROVE DoorInv'
<1>1. DoorType'
  BY DEF DoorInv, DoorType
<1>2. Counts(conn', limiter', inflight', busy')
  BY DEF DoorInv
<1> QED BY <1>1, <1>2 DEF DoorInv

\* One case per action.
LEMMA DoorNextInv == DoorInv /\ [DoorNext]_door_vars => DoorInv'
<1> SUFFICES ASSUME DoorInv, [DoorNext]_door_vars PROVE DoorInv'
  OBVIOUS
<1>1. ASSUME NEW c \in Conns, Step(c) PROVE DoorInv'
  <2>1. CASE TimesOut(c) \/ AnswerAtOnce(c) \/ VerifyFails(c) \/ Commit(c)
    <3>1. Leave(c) /\ conn[c].pc # "none" /\ store' = store
      BY <2>1 DEF TimesOut, missing, AnswerAtOnce, VerifyFails, Commit, is_at
    <3> QED BY <3>1, LeavesInv
  <2>2. CASE Prepare(c)
    BY <2>2, PrepareInv
  <2>3. CASE PrepareDeposit(c)
    BY <2>3, PrepareDepositInv
  <2>4. CASE Verify(c)
    BY <2>4, VerifyInv
  <2>5. CASE Install(c)
    BY <2>5, InstallInv
  <2>6. CASE \E kind \in Kinds : Dispatch(c, kind)
    BY <2>6, DispatchInv
  <2>7. CASE \E u \in Updates : PrepareRotation(c, u)
    BY <2>7, PrepareRotationInv
  <2> QED BY <1>1, <2>1, <2>2, <2>3, <2>4, <2>5, <2>6, <2>7 DEF Step
<1>2. ASSUME NEW c \in Conns, Arrives(c) PROVE DoorInv'
  <2>1. CASE BadHead(c) \/ HangsUp(c)
    <3>1. Leave(c) /\ conn[c].pc # "none" /\ store' = store
      BY <2>1 DEF BadHead, HangsUp, is_at
    <3> QED BY <3>1, LeavesInv
  <2>2. CASE \E client \in Addrs, length \in 0 .. MAX_BODY + 1, post \in BOOLEAN :
                ReadHead(c, client, length, post)
    BY <2>2, ReadHeadInv
  <2>3. CASE \E n \in 1 .. MAX_BODY : ReadBody(c, n)
    BY <2>3, ReadBodyInv
  <2> QED BY <1>2, <2>1, <2>2, <2>3 DEF Arrives
<1>3. CASE \E c \in Conns, ip \in Addrs : Accept(c, ip)
  BY <1>3, AcceptInv
<1>4. CASE RollRate \/ (\E class \in Classes : Roll(class)) \/ UNCHANGED door_vars
  BY <1>4, SameInv DEF RollRate, Roll, door_vars
<1> QED BY <1>1, <1>2, <1>3, <1>4 DEF DoorNext

\* The invariant holds.
LEMMA DoorInvariance == DoorSpec => []DoorInv
  BY DoorInitInv, DoorNextInv, PTL DEF DoorSpec

(***************************************************************************)
(* However threads start, stall, fail and end, the shared counts are what  *)
(* the live ones hold, for any number of threads and any limits            *)
(* (http.rs Drop of SlotGuard, BodyGuard, ProofSlot).                      *)
(***************************************************************************)
THEOREM GuardsGiveBack == DoorSpec => []NothingLeaks
<1>1. DoorInv => NothingLeaks
  <2> SUFFICES ASSUME DoorInv PROVE NothingLeaks
    OBVIOUS
  <2>1. Live = LiveIn(conn)
    BY DEF Live, LiveIn
  <2>2. Counts(conn, limiter, inflight, busy)
    BY DEF DoorInv
  <2> QED BY <2>1, <2>2 DEF NothingLeaks, Counts, OfKey, Verifying, HeldIn
<1> QED BY <1>1, DoorInvariance, PTL

\* Only install_ethereum_rotation changes the store.
LEMMA StoreGrows ==
    ASSUME DoorInv, [DoorNext]_door_vars, store' # store
    PROVE  store' = Append(store, Last(store')) /\ Last(store').period = Len(store)
<1>1. \E c \in Conns : Install(c)
  <2>1. ASSUME NEW c \in Conns, Step(c) PROVE Install(c)
    BY <2>1 DEF Step, TimesOut, AnswerAtOnce, Prepare, PrepareDeposit, Verify,
                VerifyFails, Commit, Dispatch, PrepareRotation, TakeVerifier
  <2>2. ASSUME NEW c \in Conns, Arrives(c) PROVE FALSE
    BY <2>2 DEF Arrives, BadHead, HangsUp, ReadHead, ReadBody
  <2> QED BY <2>1, <2>2 DEF DoorNext, Accept, RollRate, Roll, door_vars
<1>2. PICK c \in Conns : Install(c)
  BY <1>1
<1> DEFINE u == conn[c].update
<1>3. u \in Updates /\ store' = Append(store, u) /\ u.period = Len(store)
  BY <1>2, InstallDoes
<1>4. store \in Seq(Updates)
  BY DEF DoorInv, DoorType
<1> HIDE DEF u
<1>5. Last(store') = u
  BY <1>3, <1>4 DEF Last
<1> QED BY <1>3, <1>5

(***************************************************************************)
(* However rotations overlap, each one that is installed was verified      *)
(* against the store it extends (install_ethereum_rotation).               *)
(***************************************************************************)
THEOREM RotationsBuildOn == DoorSpec => RotationBuildsOn
<1>1. DoorInv /\ [DoorNext]_door_vars =>
          [store' # store => /\ store' = Append(store, Last(store'))
                             /\ Last(store').period = Len(store)]_store
  BY StoreGrows
<1> QED BY <1>1, DoorInvariance, PTL DEF DoorSpec, RotationBuildsOn
=============================================================================
