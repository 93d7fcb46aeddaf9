---------------------------- MODULE MCRefStore ----------------------------
(* A task and its dependent, two clones, one of them with two worktrees.   *)
EXTENDS RefStore

CONSTANTS a, b, c1, c2, w1, w2, w3, closer, writer, adder, again, syncer

Tasks == {a, b}
Clones == {c1, c2}
Trees == {w1, w2, w3}
Clones_Of == [w \in Trees |-> IF w = w3 THEN c2 ELSE c1]

\* closer settles a, or gives it up, and releases b; again is the same command,
\* run again; writer changes b; adder puts a on the board; syncer repairs the
\* edges of b.
Closing(kind) == [p \in Process |->
    CASE p \in {closer, again} -> kind
      [] p = adder -> "add"
      [] p = syncer -> "sync"
      [] OTHER -> "write"]
Kinds == Closing("settle")
KindsLocal == Closing("abandon")
Targets == [p \in Process |-> IF p = writer THEN b ELSE a]
Releases == [p \in Process |->
                IF p \in {closer, again, syncer} THEN {b} ELSE {}]

\* Where the commands run: in two worktrees of one clone, or in two clones.
Near == [p \in Process |-> IF p \in {closer, adder} THEN w1 ELSE w2]
Far == [p \in Process |-> IF p = writer THEN w3
                        ELSE IF p \in {adder, syncer} THEN w2 ELSE w1]
=============================================================================
