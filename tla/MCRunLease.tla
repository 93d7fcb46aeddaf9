---------------------------- MODULE MCRunLease ----------------------------
(* Three runs in two linked worktrees, a child of each of two of them, and *)
(* an operator's shell.                                                    *)
EXTENDS RunLease

CONSTANTS r1, r2, r3, child1, child2, shell, here, there

Runs == {r1, r2, r3}
Shells == {child1, child2, shell}
Homes == [p \in {r1, r2, r3, child1, child2, shell} |->
             IF p \in {r1, child1, shell} THEN here ELSE there]
Parents == [c \in {child1, child2, shell} |->
               IF c = child1 THEN r1 ELSE IF c = child2 THEN r2 ELSE None]
=============================================================================
