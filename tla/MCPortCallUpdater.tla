------------------------- MODULE MCPortCallUpdater -------------------------
(* The port call update for TLC: clocks that differ.                          *)
EXTENDS PortCallUpdater

AheadAndBehind == {-1, 1}
=============================================================================
