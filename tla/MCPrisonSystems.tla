--------------------------- MODULE MCPrisonSystems --------------------------
(***************************************************************************)
(* The prison for TLC: three players, one of each role that counts, who    *)
(* play on a small layout, and six players whose roles are dealt only.     *)
(***************************************************************************)
EXTENDS PrisonSystems, TLC

CONSTANTS p1, p2, p3

\* The order of the IDs is left open, so that players may be exchanged.
MCCasts == SetToSeqs({p1, p2, p3}) \cup {<<"a", "b", "c", "d", "e", "f">>}

\* Every kind of ability, and those together that work on each other.
Deal3(w, d, l) == [warden |-> w, deputy |-> d, leader |-> l]

MCDeals ==
    {Deal3("alarm", "search", "locksmith"), Deal3("camera_man", "search", "hacker"),
     Deal3("detainer", "search", "chameleon"), Deal3("tracker", "search", "pick_pocket")}

MCCooldown == [a \in Abilities |-> 1]

MCEffectTicks == [e \in Effects \ {"chameleon"} |-> 1]

PlayerSymmetry == Permutations({p1, p2, p3})

=============================================================================
