----------------------------- MODULE MCAttestor -----------------------------
EXTENDS Attestor

\* One deposit on the source chain.
OneReal == [r \in Refs |-> "c1"]

\* Both operators on the lying endpoint; one on each; one on each, but one of
\* them has not declared it.
ThreeSetups ==
    {[feed |-> <<"e1", "e1">>, declared |-> <<"e1", "e1">>],
     [feed |-> <<"e1", "e2">>, declared |-> <<"e1", "e2">>],
     [feed |-> <<"e1", "e2">>, declared |-> <<"e1", None>>]}

\* One operator on its own, on the lying endpoint.
Alone == {[feed |-> <<"e1">>, declared |-> <<"e1">>]}

-----------------------------------------------------------------------------
(* Two lives: a crew of two over a few blocks, whose signatures are gathered, *)
(* and the first operator with the other one down, through more saves,        *)
(* restarts and expiries.                                                     *)

CONSTANTS CrewHeight, CrewSeq   \* the bounds of the crew

LoneSetup == [feed |-> <<"e1", "e1">>, declared |-> <<None, None>>]
FourSetups == ThreeSetups \cup {LoneSetup}

Crew == /\ height <= CrewHeight
        /\ \A o \in Operators :
               disk[o].journal = None \/ disk[o].journal.seq <= CrewSeq
Lone == op[2] = None

mcNext == Next /\ (IF declared = LoneSetup.declared THEN Lone ELSE Crew)'
mcSpec == Init /\ [][mcNext]_vars
=============================================================================
