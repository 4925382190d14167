------------------------------ MODULE MCEconomy -----------------------------
(***************************************************************************)
(* The economy of a match for TLC: the items that the rules single out,    *)
(* and low prices, so that a few periods pay for them.                     *)
(***************************************************************************)
EXTENDS Economy

MCItemOrder ==
    <<"baton", "bullet", "golden_bullet", "metal_slab", "pistol", "satchel", "shiv", "wood">>

MCCost ==
    [i \in Items |-> CASE i \in {"golden_bullet", "satchel"} -> 1
                       [] i = "shiv" -> 2
                       [] OTHER -> 0]

\* Two prisoners and no authority: trade, bribes, tasks.
Trade == [commands |-> [ann |-> 5, bob |-> 3], authority |-> {}, mortal |-> {"bob"},
          traded |-> {"golden_bullet", "satchel"}]

\* The warden and a prisoner: weapons, searches and the new day's sidearms.
Arms == [commands |-> [warden |-> 3, ann |-> 3], authority |-> {"warden"}, mortal |-> {"warden"},
         traded |-> {"baton", "pistol", "satchel"}]

MCMatches == {Trade, Arms}

=============================================================================
