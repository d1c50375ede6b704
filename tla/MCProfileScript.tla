-------------------------- MODULE MCProfileScript --------------------------
(***************************************************************************)
(* Two runs of the script test and one of mplayer, which has no source and *)
(* leaves temp behind.                                                     *)
(***************************************************************************)
EXTENDS ProfileScript

CONSTANTS r1, r2, r3

SomeRuns == (r1 :> "test") @@ (r2 :> "test") @@ (r3 :> "mplayer")
=============================================================================
