------------------------------ MODULE MCBuild -------------------------------
(* Invocations of the launcher, and an editor.                             *)
EXTENDS Build, TLC

CONSTANTS s1, s2, s3, f1, f2

Symmetric == Permutations({s1, s2, s3}) \cup Permutations({f1, f2})

=============================================================================
