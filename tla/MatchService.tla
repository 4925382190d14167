---------------------------- MODULE MatchService ----------------------------
(***************************************************************************)
(* What the match manager promises to its players, without its locks,      *)
(* loops and calls: a match is a lobby, then runs, then is over, and never *)
(* goes back; a player is in one match at a time and is free when it ends. *)
(*                                                                         *)
(* After the manager has been closed it keeps its lobbies, with players    *)
(* who are nowhere: they may come back, or join another lobby, and the end *)
(* of their first one then takes them out of that one too.                 *)
(***************************************************************************)
EXTENDS Integers, FiniteSets

CONSTANTS Players, MinPlayers, MaxPlayers, MaxMatches

VARIABLES
    stage,    \* of every match: "none", "lobby", "running" or "game_over"
    roster,   \* its players, kept when it is over
    member,   \* the match a player is in, or 0
    down      \* the manager has been closed

service == <<stage, roster, member, down>>

Init ==
    /\ stage = [m \in 1 .. MaxMatches |-> "none"]
    /\ roster = [m \in 1 .. MaxMatches |-> {}]
    /\ member = [p \in Players |-> 0]
    /\ down = FALSE

Open(m) ==
    /\ stage[m] = "none"
    /\ stage' = [stage EXCEPT ![m] = "lobby"]
    /\ UNCHANGED <<roster, member, down>>

Join(p, m) ==
    /\ member[p] = 0
    /\ stage[m] = "lobby"
    /\ Cardinality(roster[m]) < MaxPlayers
    /\ roster' = [roster EXCEPT ![m] = @ \cup {p}]
    /\ member' = [member EXCEPT ![p] = m]
    /\ UNCHANGED <<stage, down>>

\* Only who was put out by the close can come back.
Return(p, m) ==
    /\ down
    /\ stage[m] \in {"lobby", "running"}
    /\ p \in roster[m] /\ member[p] = 0
    /\ member' = [member EXCEPT ![p] = m]
    /\ UNCHANGED <<stage, roster, down>>

Begin(m) ==
    /\ stage[m] = "lobby"
    /\ Cardinality(roster[m]) >= MinPlayers
    /\ stage' = [stage EXCEPT ![m] = "running"]
    /\ UNCHANGED <<roster, member, down>>

Leaves(p, m) == member[p] = m \/ (down /\ p \in roster[m])

Over(m) ==
    /\ stage[m] \in {"lobby", "running"}
    /\ stage' = [stage EXCEPT ![m] = "game_over"]
    /\ member' = [p \in Players |-> IF Leaves(p, m) THEN 0 ELSE member[p]]
    /\ UNCHANGED <<roster, down>>

Shutdown ==
    /\ down' = TRUE
    /\ stage' = [m \in 1 .. MaxMatches |-> IF stage[m] = "running" THEN "game_over" ELSE stage[m]]
    /\ member' = [p \in Players |-> 0]
    /\ UNCHANGED roster

Next ==
    \/ \E m \in 1 .. MaxMatches :
          \/ Open(m) \/ Begin(m) \/ Over(m)
          \/ \E p \in Players : Join(p, m) \/ Return(p, m)
    \/ Shutdown

Spec == Init /\ [][Next]_service

=============================================================================
