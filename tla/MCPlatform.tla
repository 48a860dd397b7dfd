----------------------------- MODULE MCPlatform -----------------------------
(* Instances of Platform for TLC. *)
EXTENDS TeardownRefinement, Quiescence, TLC

\* Two declarations under the ceiling, one above it, and none at all.
MCSmall == [cpu |-> 1, memory |-> 1, pods |-> 0]
MCLarge == [cpu |-> 2, memory |-> 1, pods |-> 1]
MCHuge  == [cpu |-> 9, memory |-> 0, pods |-> 0]

MCOneResource  == {MCSmall}
MCAllResources == {NilResources, MCSmall, MCLarge, MCHuge}
MCOptionalResource == {NilResources, MCSmall}

\* Claims are interchangeable.
MCClaimSymmetry == Permutations(Claims)

\* Images are interchangeable.
MCImageSymmetry == Permutations(Images)

MCCeiling == [cpu |-> 4, memory |-> 0, pods |-> 4]
=============================================================================
