--------------------------- MODULE OneGamePerPrefix ---------------------------
(***************************************************************************)
(* What the per-game lock and the check of the running processes promise   *)
(* together: a game's prefix is prepared by one launch at a time, and only *)
(* while nothing runs in it.  Launches may end, or be killed, before the   *)
(* processes they started.  Nothing is promised any more of a game whose   *)
(* lock a launch could not have.                                           *)
(***************************************************************************)
CONSTANTS Proc, Game, None

VARIABLES
    owner,   \* the launch each game was granted to
    active,  \* whether processes run in the game's prefix
    lost     \* the games a launch went on with without the lock

Init ==
    /\ owner = [g \in Game |-> None]
    /\ active = [g \in Game |-> FALSE]
    /\ lost = {}

Grant(p, g) ==
    /\ g \notin lost /\ owner[g] = None /\ ~active[g]
    /\ owner' = [owner EXCEPT ![g] = p]
    /\ UNCHANGED <<active, lost>>

Begin(p, g) ==
    /\ owner[g] = p /\ ~active[g]
    /\ active' = [active EXCEPT ![g] = TRUE]
    /\ UNCHANGED <<owner, lost>>

End(g) ==
    /\ active[g]
    /\ active' = [active EXCEPT ![g] = FALSE]
    /\ UNCHANGED <<owner, lost>>

Release(p, g) ==
    /\ owner[g] = p
    /\ owner' = [owner EXCEPT ![g] = None]
    /\ UNCHANGED <<active, lost>>

\* The lock of g could not be had: g is out of the promise from now on.
Lose(g) ==
    /\ g \notin lost
    /\ lost' = lost \cup {g}
    /\ owner' = [owner EXCEPT ![g] = None]
    /\ active' = [active EXCEPT ![g] = FALSE]

Next == \E g \in Game : \/ End(g) \/ Lose(g)
                        \/ \E p \in Proc : Grant(p, g) \/ Begin(p, g) \/ Release(p, g)

Spec == Init /\ [][Next]_<<owner, active, lost>>
=============================================================================
