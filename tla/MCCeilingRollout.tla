-------------------------- MODULE MCCeilingRollout --------------------------
(* Instances of CeilingRollout for TLC: an int32 of three bits. *)
EXTENDS CeilingRollout

MCDeclarations ==
    {NilResources} \cup {[cpu |-> c, memory |-> m, pods |-> p] :
                            c \in 0..2, m \in 0..1, p \in {0, 1, 3}}

\* No ceiling; a ceiling on everything; on the cpu alone; and three pods
\* ceilings that int32 turns into 1, into 0 and into a negative number.
MCFlagSettings ==
    {[cpu |-> 0, memory |-> 0, pods |-> 0], [cpu |-> 1, memory |-> 1, pods |-> 2],
     [cpu |-> 1, memory |-> 0, pods |-> 9], [cpu |-> 2, memory |-> 0, pods |-> 8],
     [cpu |-> 0, memory |-> 1, pods |-> 5]}
=============================================================================
