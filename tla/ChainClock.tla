----------------------------- MODULE ChainClock -----------------------------
(***************************************************************************)
(* The chain clock of q-runtime/src/clock.rs: what ChainClock::tick makes  *)
(* of the head and the epoch a node reports.  The node may report anything *)
(* (an unsigned head, and an epoch that is never signed), so Tick takes    *)
(* any answer; the clock bounds what it does with one by the time that has *)
(* passed.  Of the gateway only the height and the epoch are kept, and of  *)
(* the disk the pair that was last saved along with some request.          *)
(***************************************************************************)
EXTENDS Integers

CONSTANTS
    Heads, Epochs,      \* answers of the node; an epoch may be None
    ExpectedHeads,      \* what Q_ORACLE_EXPECTED_HEAD may be, None when unset
    ExpectedEpoch,      \* Q_ORACLE_EXPECTED_EPOCH
    Rate,               \* max_blocks_per_sec
    CLOCK_SLACK_BLOCKS,
    Gap,                \* min_epoch_gap in seconds
    Age,                \* seconds between genesis and the first boot
    MaxTime, MaxBoots   \* bounds of the instance

None == -1

ASSUME ClockAssumption ==
    /\ Heads \subseteq Nat /\ Epochs \subseteq Nat \cup {None}
    /\ ExpectedHeads \subseteq Nat \cup {None} /\ ExpectedEpoch \in Nat
    /\ Rate \in Nat /\ CLOCK_SLACK_BLOCKS \in Nat /\ Gap \in Nat /\ Age \in Nat
    /\ MaxTime \in Nat /\ MaxBoots \in Nat

VARIABLES
    height, epoch,      \* current_height and current_epoch of the gateway
    saved,              \* the same two in the guard snapshot
    first_boot,         \* the expected head this process was started with
    origin,             \* [height, at], at = None before the first good tick
    epoch_moved,        \* when this process last moved the epoch, or None
    fresh,              \* this process started with no saved height
    now,                \* seconds since the first boot
    boots,              \* history: processes started
    moves               \* history: times the epoch has been moved

vars == <<height, epoch, saved, first_boot, origin, epoch_moved, fresh, now,
          boots, moves>>

smaller(a, b) == IF a <= b THEN a ELSE b
greater(a, b) == IF a >= b THEN a ELSE b

NoOrigin == [height |-> 0, at |-> None]

Init ==
    /\ height = 0 /\ epoch = 0
    /\ saved = [height |-> 0, epoch |-> 0]
    /\ first_boot \in ExpectedHeads
    /\ origin = NoOrigin
    /\ epoch_moved = None
    /\ fresh = FALSE
    /\ now = 0
    /\ boots = 1
    /\ moves = 0

wall_clock_head_cap == (now + Age) * Rate + CLOCK_SLACK_BLOCKS

\* Fault: the time that has passed is not looked at.
unbounded_head(from, reported) == reported

bounded_head(from, reported) ==
    smaller(reported,
            from.height + (now - from.at) * Rate + CLOCK_SLACK_BLOCKS)

\* The first answer of a process.  With no saved height the head is taken
\* only as far as the operator expects it, and not at all without that.
first_answer(reported) ==
    IF height = 0
    THEN greater(height, smaller(smaller(reported, first_boot),
                                 wall_clock_head_cap))
    ELSE height

\* Fault: no wait between two moves.
spaced_always == TRUE

spaced == epoch_moved = None \/ now - epoch_moved >= Gap

\* The epoch the node reports is taken: on a first boot up to the expected
\* one, afterwards when the last move is long enough ago.
takes_epoch(is_fresh, reported) ==
    /\ reported # None
    /\ reported > epoch
    /\ \/ is_fresh /\ epoch_moved = None
          /\ reported <= (IF first_boot = None THEN 0 ELSE ExpectedEpoch)
       \/ (~is_fresh \/ epoch_moved # None) /\ spaced

Tick(reported, reported_epoch) ==
    LET started == origin.at # None
        is_fresh == IF started THEN fresh ELSE height = 0
        from == IF started THEN origin
                ELSE [height |-> first_answer(reported), at |-> now]
        base == IF started THEN height ELSE from.height
        head == smaller(bounded_head(from, reported), wall_clock_head_cap)
    IN /\ started \/ ~is_fresh \/ first_boot # None
       /\ origin' = from
       /\ fresh' = is_fresh
       /\ height' = greater(base, head)
       /\ IF takes_epoch(is_fresh, reported_epoch)
          THEN /\ epoch' = reported_epoch
               /\ epoch_moved' = now
               /\ moves' = moves + 1
          ELSE UNCHANGED <<epoch, epoch_moved, moves>>
       /\ UNCHANGED <<saved, first_boot, now, boots>>

\* On a first boot without an expected head the tick fails every time.
RefusedTick ==
    /\ origin.at = None /\ height = 0 /\ first_boot = None
    /\ fresh' = TRUE
    /\ UNCHANGED <<height, epoch, saved, first_boot, origin, epoch_moved, now,
                   boots, moves>>

Pass ==
    /\ now < MaxTime
    /\ now' = now + 1
    /\ UNCHANGED <<height, epoch, saved, first_boot, origin, epoch_moved, fresh,
                   boots, moves>>

\* Some request changes the guard and saves it; the clock itself never does.
Save ==
    /\ saved' = [height |-> height, epoch |-> epoch]
    /\ UNCHANGED <<height, epoch, first_boot, origin, epoch_moved, fresh, now,
                   boots, moves>>

\* A new process, with a new clock on the saved guard; the operator may
\* have changed the expected head.
Restart ==
    /\ boots < MaxBoots
    /\ first_boot' \in ExpectedHeads
    /\ height' = saved.height
    /\ epoch' = saved.epoch
    /\ origin' = NoOrigin
    /\ epoch_moved' = None
    /\ fresh' = FALSE
    /\ boots' = boots + 1
    /\ UNCHANGED <<saved, now, moves>>

Next ==
    \/ \E h \in Heads, e \in Epochs : Tick(h, e)
    \/ RefusedTick
    \/ Pass
    \/ Save
    \/ Restart

Spec == Init /\ [][Next]_vars

-----------------------------------------------------------------------------
(* Properties *)

(***************************************************************************)
(* A lying node cannot run the clock ahead: however it answers and however *)
(* often the daemon restarts, the height stays below a head the operator   *)
(* expected plus what the block rate allows for the time since the first   *)
(* boot, plus one slack for each process (clock.rs bounded_head).          *)
(***************************************************************************)
HeadBounded ==
    \E x \in ExpectedHeads :
        height <= greater(x, 0) + now * Rate + boots * CLOCK_SLACK_BLOCKS

(***************************************************************************)
(* The epoch caps are not reset at will: the epoch is moved at most once   *)
(* in each gap of the time since the first boot, apart from one move that  *)
(* every new process may make at once (clock.rs epoch_moved).              *)
(***************************************************************************)
EpochMovesPaced == moves * Gap <= now + boots * Gap
=============================================================================
