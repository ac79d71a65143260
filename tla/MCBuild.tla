------------------------------ MODULE MCBuild -------------------------------
(***************************************************************************)
(* An instance of BuildCache for TLC: one process with three keys, the     *)
(* binary of each being looked at in its own way.                          *)
(***************************************************************************)
EXTENDS BuildCache

CONSTANTS
    engine,     \* an engine that a client plays with
    tested,     \* an engine that the smoke worker checks
    fastchess   \* the program that plays the games
=============================================================================
