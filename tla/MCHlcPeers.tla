---------------------------- MODULE MCHlcPeers ----------------------------
EXTENDS HlcPeers, TLC

CONSTANTS p1, p2

\* p1 may read as p2 does, or be far ahead of the window.
OneClockWrong == p1 :> {2, 4} @@ p2 :> {1, 2}

=============================================================================
