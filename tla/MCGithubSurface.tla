--------------------------- MODULE MCGithubSurface ---------------------------
(***************************************************************************)
(* Small instances of GithubSurface: posters of two runs of a pull request *)
(* and of one run's check.                                                 *)
(***************************************************************************)
EXTENDS GithubSurface, TLC

PosterSymmetry == Permutations(Posters)
=============================================================================
