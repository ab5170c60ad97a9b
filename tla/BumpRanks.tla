------------------------------ MODULE BumpRanks ------------------------------
(* The bumps a release may need, by BUMP_RANK in scripts/release_common.py. *)
EXTENDS Integers

Skip == 0
Patch == 1
Minor == 2
Major == 3
Bumps == {Skip, Patch, Minor, Major}
=============================================================================
