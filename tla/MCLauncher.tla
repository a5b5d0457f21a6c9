----------------------------- MODULE MCLauncher -----------------------------
(* Three invocations of the launcher, of any commands, at any time.        *)
EXTENDS Launcher, TLC

CONSTANTS s1, s2, s3

\* The invocations differ in nothing but what they do.
Symmetric == Permutations({s1, s2, s3})

=============================================================================
