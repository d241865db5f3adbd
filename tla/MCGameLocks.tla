----------------------------- MODULE MCGameLocks -----------------------------
(* Instances of GameLocks for TLC: the processes are interchangeable.       *)
EXTENDS GameLocks, TLC

ProcSymmetry == Permutations(Proc)

\* target and raced are read at the points of a check only, and set when one
\* starts: what an earlier check left in them distinguishes no behaviours.
LiveChecks ==
    <<lock, users, mounts, pc, role, game, mode, locked, lockless, scan,
      [p \in Proc |-> IF pc[p] \in CheckPc \cup ActPc
                      THEN [target |-> target[p], raced |-> raced[p]]
                      ELSE [target |-> None, raced |-> FALSE]]>>
=============================================================================
