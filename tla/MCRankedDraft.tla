---------------------------- MODULE MCRankedDraft ----------------------------
(* A TLC instance of RankedDraft. *)
EXTENDS RankedDraft, TLC, FiniteSets

\* No more than three handlers at work at a time.  A draft that is over, its lobby left and
\* its completion ended, is not followed: nothing a property is about changes any more.
ThreeAtWork == Cardinality({a \in Actors : pc[a] # "idle"}) <= 3
Over == lobby # "active" /\ completing = Free /\ (bot => lobby = "gone")
Bounded == ThreeAtWork /\ ~Over

\* A disconnect and an error meet in two ways: the disconnect follows an error that was
\* repaired, or the error strikes a completion that finds somebody absent.
FaultsMeet ==
    /\ drops' > drops => ~NeedsHelp /\ leaked = 0
    /\ throws' > throws => drops = 0 \/ (completing # Free /\ absent # {})
=============================================================================
