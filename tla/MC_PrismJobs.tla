---------------------------- MODULE MC_PrismJobs ----------------------------
(***************************************************************************)
(* The clicks the configurations allow an analyst, and what is alike.      *)
(***************************************************************************)
EXTENDS PrismJobs, TLC

NoClicks == {}
Controls == {"pause", "resume", "cancel", "disconnect"}
PauseResume == {"pause", "resume"}
JustCancel == {"cancel"}

\* Workers are alike, and so are analysts.
Alike == Permutations(Workers) \cup Permutations(Users)
=============================================================================
