------------------------- MODULE MCCaptureSessions --------------------------
(* CaptureSessions on a small instance. *)
EXTENDS CaptureSessions, TLC

CONSTANTS r1, a1, l1, d1, h1, s1

MCCli == {r1}
MCApp == {a1}
MCLives == {l1}
MCDictators == {d1}
MCHosts == {h1}
MCStoppers == {s1}
=============================================================================
