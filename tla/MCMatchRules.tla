---------------------------- MODULE MCMatchRules ----------------------------
(***************************************************************************)
(* The rules of a match for TLC: a warden, a gang leader and a gang member,*)
(* each player named after the role it starts with.                        *)
(***************************************************************************)
EXTENDS MatchRules

MCPlayers == {"warden", "leader", "member"}

MCAssignment == [p \in MCPlayers |-> p]

=============================================================================
