------------------------------- MODULE MCRun --------------------------------
(***************************************************************************)
(* Instances of RunProcess for TLC.                                        *)
(***************************************************************************)
EXTENDS RunProcess, TLC

CONSTANTS engine, game

\* A program that answers its stdin, and one that ignores it and starts others.
EngineReads == engine :> 2 @@ game :> 0
BothWrite == engine :> 2 @@ game :> 1
NothingToRead == game :> 0
OneLine == game :> 1

\* Two programs that read their stdin.
OneLineEach == engine :> 1 @@ game :> 1
=============================================================================
