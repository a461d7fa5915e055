----------------------------- MODULE ExitPromise -----------------------------
(***************************************************************************)
(* What the exit desk promises, whatever fails: a burn is opened as an     *)
(* exit at most once, an exit is settled against one foreign payout or     *)
(* slashed, never both and never undone, and a payout settles one exit.    *)
(***************************************************************************)
CONSTANTS Burns, Payouts

VARIABLES
    status,      \* [Burns -> "none", "open", "settled", "slashed"]
    spent        \* payouts that have settled an exit

Init ==
    /\ status = [b \in Burns |-> "none"]
    /\ spent = {}

Open(b) ==
    /\ status[b] = "none"
    /\ status' = [status EXCEPT ![b] = "open"]
    /\ UNCHANGED spent

Settle(b, p) ==
    /\ status[b] = "open"
    /\ p \notin spent
    /\ status' = [status EXCEPT ![b] = "settled"]
    /\ spent' = spent \cup {p}

Slash(b) ==
    /\ status[b] = "open"
    /\ status' = [status EXCEPT ![b] = "slashed"]
    /\ UNCHANGED spent

Next ==
    \E b \in Burns : Open(b) \/ Slash(b) \/ \E p \in Payouts : Settle(b, p)

Spec == Init /\ [][Next]_<<status, spent>>
=============================================================================
