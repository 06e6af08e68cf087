----------------------------- MODULE MCPreviews -----------------------------
(***************************************************************************)
(* Previews on two small instances of PreviewSlots, whose variables they   *)
(* share: "active" names the one at work.  Swept has two Previews at one   *)
(* slot while a sweep goes on; the instance of the cfg itself has one      *)
(* Preview whose head moves, with more retries.                            *)
(***************************************************************************)
EXTENDS PreviewSlots

VARIABLE active

Swept == INSTANCE PreviewSlots WITH MaxRetries <- 1, MaxRevision <- 1

ASSUME MCPreviewsAssumption == Swept!PreviewAssumption

MCPreviewsInit == active \in {"swept", "rolling"} /\ Init

\* While "rolling" is at work, only one Intent is ever in review.
MCPreviewsNext ==
    /\ \/ active = "swept" /\ Swept!Next
       \/ active = "rolling" /\ Next /\ intent'[2] = 0
    /\ UNCHANGED active

MCPreviewsSpec == MCPreviewsInit /\ [][MCPreviewsNext]_<<active, vars>>
=============================================================================
