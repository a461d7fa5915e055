---------------------------- MODULE QuorumRules ----------------------------
(***************************************************************************)
(* How the gateway counts operator signatures (q-gateway operators.rs and  *)
(* the quorum arithmetic of gateway.rs).  A signature list is a sequence   *)
(* of records [operator_id, good]: good says that the bytes verify under   *)
(* the key registered for operator_id, for the message and domain at hand. *)
(***************************************************************************)
EXTENDS Naturals, Sequences, FiniteSets

larger(a, b) == IF a >= b THEN a ELSE b

supermajority_floor(size) == larger((2 * size) \div 3 + 1, 2)

\* Signatures an order needs from a set with this many members.
quorum_need(size, threshold) == larger(threshold, supermajority_floor(size))

\* Fault: the corridor's quorum is not held to the floor.
corridor_need_no_floor(size, threshold, quorum) ==
    IF quorum > 0 THEN quorum ELSE threshold

\* A corridor may ask for more than the set's threshold, never for less
\* than the floor; a corridor quorum of 0 means "not set".
corridor_need(size, threshold, quorum) ==
    IF quorum > 0 THEN larger(quorum, supermajority_floor(size))
                  ELSE quorum_need(size, threshold)

(***************************************************************************)
(* verified_quorum walks the list once and keeps the distinct registered   *)
(* operators that have a good signature in it: a repeated operator counts  *)
(* once, and a bad signature does not spoil a good one of the same         *)
(* operator.  A list longer than the set is refused whole.                 *)
(***************************************************************************)
verified_quorum(sigs, set) ==
    {o \in set : /\ Len(sigs) <= Cardinality(set)
                 /\ \E i \in DOMAIN sigs :
                        sigs[i].operator_id = o /\ sigs[i].good}
=============================================================================
