------------------------ MODULE MCSharedSubmission --------------------------
(* Small instances of SharedSubmission for TLC.                            *)
EXTENDS SharedSubmission, TLC

RequestSymmetry == Permutations(Request)
RankingSymmetry == Permutations(Request) \cup Permutations(Run)
CleanerSymmetry == Permutations(Cleaner)
=============================================================================
