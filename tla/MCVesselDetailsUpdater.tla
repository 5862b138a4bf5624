----------------------- MODULE MCVesselDetailsUpdater -----------------------
(* The vessel details update for TLC: clocks that differ.                    *)
EXTENDS VesselDetailsUpdater

AheadAndBehind == {-1, 1}
=============================================================================
