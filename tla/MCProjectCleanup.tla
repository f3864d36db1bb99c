-------------------------- MODULE MCProjectCleanup --------------------------
(***************************************************************************)
(* A small instance of ProjectCleanup: two uploads, and an eager and a     *)
(* cron pass over a prefix with one object to a page.                      *)
(***************************************************************************)
EXTENDS ProjectCleanup

CONSTANTS u1, u2, eager, cron
=============================================================================
