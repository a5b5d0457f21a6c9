----------------------------- MODULE MCCollator -----------------------------
(* Two processes of two builds of the collator on one base path.           *)
EXTENDS Collator, TLC

CONSTANTS p1, p2, c1, c2

\* The relay chain of the chain specification, or that of the launcher.
MCRelayArgs == {[base |-> None, chain |-> "spec"]}

Symmetric == Permutations({p1, p2}) \cup Permutations({c1, c2})

=============================================================================
