------------------------ MODULE MCOwnershipConflict -------------------------
(* Instances of OwnershipConflict for TLC. *)
EXTENDS OwnershipConflict

\* Claims are created with declared resources; an edit may take them away.
MCDeclared == [cpu |-> 1, memory |-> 0, pods |-> 0]
MCResources == {NilResources, MCDeclared}
MCFirstSpecs == Teams \X {MCDeclared}
=============================================================================
