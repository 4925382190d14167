--------------------------- MODULE MatchLifecycle ---------------------------
(***************************************************************************)
(* The life of the server's matches (internal/server/game/manager.go):     *)
(* creating, joining, resuming, starting and ending matches, the goroutine *)
(* that runs each one, and Manager.Close.                                  *)
(*                                                                         *)
(* Any goroutine may call the Manager.  A call that is one critical        *)
(* section of Manager.mu is one action.  StartMatch, EndMatch and Close    *)
(* also do something after they unlock, so a caller of one of them stays   *)
(* in that call for a second step: StartMatch reads session.loopDone and   *)
(* spawns the loop, EndMatch and Close wait for loops to close their done  *)
(* channel.  A match starts at most once, so it has one context and one    *)
(* done channel.                                                           *)
(***************************************************************************)
EXTENDS Integers, FiniteSets

CONSTANTS
    Players,
    Callers,      \* goroutines that call StartMatch, EndMatch and Close
    MinPlayers,   \* config.MinPlayers
    MaxPlayers,   \* config.MaxPlayers
    MaxMatches,   \* bound: matches created
    MaxTick       \* bound: ticks of one match

ASSUME LobbyAssumption == IsFiniteSet(Players) /\ MinPlayers \in Nat /\ MaxPlayers \in Nat
ASSUME LifecycleBoundAssumption == MaxMatches \in Nat /\ MaxTick \in Nat

Matches == 1 .. MaxMatches

NoMatch == 0

VARIABLES
    nextMatchSequence,  \* Manager.nextMatchSequence; matches up to it exist
    status,             \* session.status of every match ("none": not created)
    players,            \* session.players
    playerToMatch,      \* Manager.playerToMatch; NoMatch when absent
    tickID,             \* session.tickID
    loopCancel,         \* session.loopCancel # nil
    loopDone,           \* session.loopDone # nil
    cancelled,          \* the loop's context has been cancelled
    loop,               \* the match's goroutine: "none", "running" or "exited"
    loopArg,            \* the done channel it was given: "none", "nil" or "done"
    doneClosed,         \* that match's done channel is closed
    calls,              \* the call each caller is in, and the matches it is about
    endEvents,          \* match_ended and server_shutdown events, per match
    closed,             \* history: Close has been called
    panicked            \* a goroutine panicked; the process is gone

manager == <<nextMatchSequence, status, players, playerToMatch, tickID>>
loops   == <<loopCancel, loopDone, cancelled, loop, loopArg, doneClosed>>
vars    == <<manager, loops, calls, endEvents, closed, panicked>>

Idle == [op |-> "idle", matches |-> {}]

Live(m) == status[m] \in {"lobby", "running"}

\* The caller has set the match running and has not spawned its loop yet.
Starting(c, m) == calls[c] = [op |-> "start", matches |-> {m}]

\* The caller waits for the match's done channel.
WaitsFor(c, m) == calls[c].op \in {"end", "close"} /\ m \in calls[c].matches

-----------------------------------------------------------------------------
(* Lobbies *)

Init ==
    /\ nextMatchSequence = 0
    /\ status = [m \in Matches |-> "none"]
    /\ players = [m \in Matches |-> {}]
    /\ playerToMatch = [p \in Players |-> NoMatch]
    /\ tickID = [m \in Matches |-> 0]
    /\ loopCancel = [m \in Matches |-> FALSE]
    /\ loopDone = [m \in Matches |-> FALSE]
    /\ cancelled = [m \in Matches |-> FALSE]
    /\ loop = [m \in Matches |-> "none"]
    /\ loopArg = [m \in Matches |-> "none"]
    /\ doneClosed = [m \in Matches |-> FALSE]
    /\ calls = [c \in Callers |-> Idle]
    /\ endEvents = [m \in Matches |-> 0]
    /\ closed = FALSE
    /\ panicked = FALSE

CreateMatch ==
    /\ nextMatchSequence < MaxMatches
    /\ nextMatchSequence' = nextMatchSequence + 1
    /\ status' = [status EXCEPT ![nextMatchSequence + 1] = "lobby"]
    /\ UNCHANGED <<players, playerToMatch, tickID, loops, calls, endEvents, closed>>

\* ErrPlayerAlreadyInMatch
AlreadyJoined(p) == playerToMatch[p] # NoMatch

\* Seeded fault: one player too many.
HasRoom_OffByOne(m) == Cardinality(players[m]) <= MaxPlayers

\* Not ErrMatchFull
HasRoom(m) == Cardinality(players[m]) < MaxPlayers

JoinMatch(m, p) ==
    /\ ~AlreadyJoined(p)
    /\ status[m] = "lobby"
    /\ HasRoom(m)
    /\ players' = [players EXCEPT ![m] = @ \cup {p}]
    /\ playerToMatch' = [playerToMatch EXCEPT ![p] = m]
    /\ UNCHANGED <<nextMatchSequence, status, tickID, loops, calls, endEvents, closed>>

\* A reconnecting player is mapped to the match that already has it.
ResumePlayer(m, p) ==
    /\ Live(m)
    /\ playerToMatch[p] \in {NoMatch, m}
    /\ p \in players[m]
    /\ playerToMatch' = [playerToMatch EXCEPT ![p] = m]
    /\ UNCHANGED <<nextMatchSequence, status, players, tickID, loops, calls, endEvents, closed>>

-----------------------------------------------------------------------------
(* Starting *)

StartMatch(c, m) ==
    /\ calls[c] = Idle
    /\ status[m] = "lobby"
    /\ Cardinality(players[m]) >= MinPlayers
    /\ status' = [status EXCEPT ![m] = "running"]
    /\ tickID' = [tickID EXCEPT ![m] = 0]
    /\ loopCancel' = [loopCancel EXCEPT ![m] = TRUE]
    /\ loopDone' = [loopDone EXCEPT ![m] = TRUE]
    /\ calls' = [calls EXCEPT ![c] = [op |-> "start", matches |-> {m}]]
    /\ UNCHANGED <<nextMatchSequence, players, playerToMatch, cancelled, loop, loopArg,
                   doneClosed, endEvents, closed>>

\* The go statement, after the unlock.  Its argument session.loopDone is read without
\* the lock: once EndMatch or Close has set it to nil, the read may return nil, or
\* the channel when it came first.
SpawnLoop(c) ==
    /\ calls[c].op = "start"
    /\ \E m \in calls[c].matches :
          /\ loop' = [loop EXCEPT ![m] = "running"]
          /\ \E arg \in (IF loopDone[m] THEN {"done"} ELSE {"done", "nil"}) :
                loopArg' = [loopArg EXCEPT ![m] = arg]
    /\ calls' = [calls EXCEPT ![c] = Idle]
    /\ UNCHANGED <<manager, loopCancel, loopDone, cancelled, doneClosed, endEvents, closed>>

-----------------------------------------------------------------------------
(* The match loop *)

LoopTick(m) ==
    /\ loop[m] = "running"
    /\ status[m] = "running"
    /\ tickID[m] < MaxTick
    /\ tickID' = [tickID EXCEPT ![m] = @ + 1]
    /\ UNCHANGED <<nextMatchSequence, status, players, playerToMatch, loops, calls,
                   endEvents, closed>>

\* Seeded fault: the players stay mapped to the match.
WithoutPlayersOf_Kept(ended) == playerToMatch

\* playerToMatch without the players of the given matches, whatever match each of
\* them is mapped to.
WithoutPlayersOf(ended) ==
    [p \in Players |-> IF \E m \in ended : p \in players[m] THEN NoMatch ELSE playerToMatch[p]]

\* A tick whose win evaluation has an outcome.  The loop's own handles stay set.
LoopTickGameOver(m) ==
    /\ loop[m] = "running"
    /\ status[m] = "running"
    /\ tickID[m] < MaxTick
    /\ tickID' = [tickID EXCEPT ![m] = @ + 1]
    /\ status' = [status EXCEPT ![m] = "game_over"]
    /\ playerToMatch' = WithoutPlayersOf({m})
    /\ endEvents' = [endEvents EXCEPT ![m] = @ + 1]
    /\ UNCHANGED <<nextMatchSequence, players, loops, calls, closed>>

\* Seeded fault: the loop returns without closing its channel.
CloseDone_Forgotten(m) == doneClosed' = doneClosed /\ panicked' = panicked

\* The deferred close(done), which panics on a nil channel.
CloseDone(m) ==
    IF loopArg[m] = "done"
    THEN doneClosed' = [doneClosed EXCEPT ![m] = TRUE] /\ panicked' = panicked
    ELSE doneClosed' = doneClosed /\ panicked' = TRUE

\* Seeded fault: a tick of an ended match does not end the loop.
MustStop_CancelOnly(m) == cancelled[m]

\* The context is cancelled, or a tick finds the match ended.  With both a tick and the
\* cancellation ready, select may take either.
MustStop(m) == cancelled[m] \/ status[m] # "running"

LoopStops(m) ==
    /\ loop[m] = "running"
    /\ MustStop(m)
    /\ loop' = [loop EXCEPT ![m] = "exited"]
    /\ CloseDone(m)
    /\ UNCHANGED <<manager, loopCancel, loopDone, cancelled, loopArg, calls, endEvents, closed>>

-----------------------------------------------------------------------------
(* Ending *)

\* Neither ErrMatchNotFound nor ErrMatchAlreadyEnded: a lobby may be ended too.
EndMatchGuard(m) == Live(m)

\* Seeded fault: EndMatch does not wait for the loop it stops.
EndMatchWait_Skipped(m) == Idle

\* What EndMatch does after it unlocks: wait for the loop it took the handle of.
EndMatchWait(m) ==
    IF loopCancel[m] /\ loopDone[m] THEN [op |-> "end", matches |-> {m}] ELSE Idle

EndMatch(c, m) ==
    /\ calls[c] = Idle
    /\ EndMatchGuard(m)
    /\ status' = [status EXCEPT ![m] = "game_over"]
    /\ playerToMatch' = WithoutPlayersOf({m})
    /\ endEvents' = [endEvents EXCEPT ![m] = @ + 1]
    /\ cancelled' = [cancelled EXCEPT ![m] = @ \/ loopCancel[m]]
    /\ calls' = [calls EXCEPT ![c] = EndMatchWait(m)]
    /\ loopCancel' = [loopCancel EXCEPT ![m] = FALSE]
    /\ loopDone' = [loopDone EXCEPT ![m] = @ /\ ~loopCancel[m]]
    /\ UNCHANGED <<nextMatchSequence, players, tickID, loop, loopArg, doneClosed, closed>>

\* Close ends the running matches, takes every player out of playerToMatch (a lobby
\* keeps its status and its players), cancels every loop and waits for those whose
\* handle is still there.
Close(c) ==
    /\ calls[c] = Idle
    /\ closed' = TRUE
    /\ playerToMatch' = WithoutPlayersOf({m \in Matches : status[m] # "none"})
    /\ status' = [m \in Matches |-> IF status[m] = "running" THEN "game_over" ELSE status[m]]
    /\ endEvents' = [m \in Matches |-> IF status[m] = "running" THEN endEvents[m] + 1
                                                                ELSE endEvents[m]]
    /\ cancelled' = [m \in Matches |-> cancelled[m] \/ loopCancel[m]]
    /\ loopCancel' = [m \in Matches |-> FALSE]
    /\ loopDone' = [m \in Matches |-> FALSE]
    /\ LET waits == {m \in Matches : loopDone[m]}
       IN calls' = [calls EXCEPT ![c] = IF waits = {} THEN Idle
                                        ELSE [op |-> "close", matches |-> waits]]
    /\ UNCHANGED <<nextMatchSequence, players, tickID, loop, loopArg, doneClosed>>

\* EndMatch or Close has received from every channel it waits for.
WaitReturns(c) ==
    /\ calls[c].op \in {"end", "close"}
    /\ \A m \in calls[c].matches : doneClosed[m]
    /\ calls' = [calls EXCEPT ![c] = Idle]
    /\ UNCHANGED <<manager, loops, endEvents, closed>>

-----------------------------------------------------------------------------
(* The specification *)

\* Everything but a loop's exit leaves panicked alone.
Lobby == /\ UNCHANGED panicked
         /\ \/ CreateMatch
            \/ \E m \in Matches, p \in Players : JoinMatch(m, p) \/ ResumePlayer(m, p)

Call(c) == /\ UNCHANGED panicked
           /\ \/ \E m \in Matches : StartMatch(c, m) \/ EndMatch(c, m)
              \/ SpawnLoop(c)
              \/ Close(c)
              \/ WaitReturns(c)

Loop(m) == \/ UNCHANGED panicked /\ (LoopTick(m) \/ LoopTickGameOver(m))
           \/ LoopStops(m)

Next ==
    /\ ~panicked
    /\ \/ Lobby
       \/ \E c \in Callers : Call(c)
       \/ \E m \in Matches : Loop(m)

Spec == Init /\ [][Next]_vars

\* Goroutines that can run do run: a spawned loop reaches its select, a caller past
\* its unlock goes on.
Fairness ==
    /\ \A c \in Callers : WF_vars(~panicked /\ UNCHANGED panicked /\ (SpawnLoop(c) \/ WaitReturns(c)))
    /\ \A m \in Matches : WF_vars(~panicked /\ LoopStops(m))

FairSpec == Spec /\ Fairness

-----------------------------------------------------------------------------
(* Properties *)

\* The type of the manager's state; no match has more than MaxPlayers players.
LifecycleTypeOK ==
    /\ nextMatchSequence \in 0 .. MaxMatches
    /\ status \in [Matches -> {"none", "lobby", "running", "game_over"}]
    /\ players \in [Matches -> SUBSET Players]
    /\ \A m \in Matches : Cardinality(players[m]) <= MaxPlayers
    /\ playerToMatch \in [Players -> Matches \cup {NoMatch}]
    /\ tickID \in [Matches -> 0 .. MaxTick]
    /\ loopCancel \in [Matches -> BOOLEAN]
    /\ loopDone \in [Matches -> BOOLEAN]
    /\ cancelled \in [Matches -> BOOLEAN]
    /\ loop \in [Matches -> {"none", "running", "exited"}]
    /\ loopArg \in [Matches -> {"none", "nil", "done"}]
    /\ doneClosed \in [Matches -> BOOLEAN]
    /\ calls \in [Callers -> [op : {"idle", "start", "end", "close"}, matches : SUBSET Matches]]
    /\ endEvents \in [Matches -> Nat]
    /\ closed \in BOOLEAN
    /\ panicked \in BOOLEAN

\* A player is mapped to a match only while that match is live and has the player;
\* and until the manager is closed, everyone in a live match is mapped to it, so
\* that nobody is in two live matches.
MappingExact ==
    \A p \in Players, m \in Matches :
        /\ playerToMatch[p] = m => Live(m) /\ p \in players[m]
        /\ ~closed /\ Live(m) /\ p \in players[m] => playerToMatch[p] = m

\* EndMatch, Close and the loop's own game over can meet; the match ends once, with
\* one event.
EndsOnce == \A m \in Matches : endEvents[m] = IF status[m] = "game_over" THEN 1 ELSE 0

\* A loop that has been created and has not exited can still be waited for: the
\* session holds its channel, or some EndMatch or Close call is waiting on it.
NoOrphanLoop ==
    \A m \in Matches :
        (loop[m] = "running" \/ \E c \in Callers : Starting(c, m))
            => loopDone[m] \/ \E c \in Callers : WaitsFor(c, m)

\* What the players are promised.
Service == INSTANCE MatchService WITH
    stage <- status, roster <- players, member <- playerToMatch, down <- closed

\* Whatever calls, loops and shutdowns overlap, the manager implements the service of
\* module MatchService: a match ends once and frees its own players, nobody is moved
\* from one match to another, and no match starts or admits players twice.
ServiceKept == Service!Spec

-----------------------------------------------------------------------------
(* The inductive strengthening *)

\* Matches are created in order, and one that does not exist has no players.
FreshInv ==
    \A m \in Matches : /\ status[m] = "none" <=> m > nextMatchSequence
                       /\ status[m] = "none" => players[m] = {}

\* The stages of a loop: nothing before StartMatch, one caller between StartMatch and
\* the go statement, then a goroutine whose channel is closed only by its own exit.
LoopInv ==
    /\ \A m \in Matches : status[m] \in {"none", "lobby"} => loop[m] = "none"
    /\ \A m \in Matches : doneClosed[m] => loop[m] = "exited"
    /\ \A c \in Callers, m \in Matches :
          Starting(c, m) => loop[m] = "none" /\ status[m] \in {"running", "game_over"}
    /\ \A c, d \in Callers, m \in Matches : Starting(c, m) /\ Starting(d, m) => c = d
    /\ \A c \in Callers : calls[c].op = "start" => \E m \in Matches : Starting(c, m)

LifecycleInv ==
    /\ LifecycleTypeOK
    /\ FreshInv
    /\ MappingExact
    /\ EndsOnce
    /\ LoopInv
    /\ NoOrphanLoop

-----------------------------------------------------------------------------
(* Liveness, and what the code does not keep *)

\* The loop of a match that is over stops, unless the process dies.
EndedLoopStops ==
    \A m \in Matches :
        (status[m] = "game_over" /\ loop[m] = "running") ~> (loop[m] = "exited" \/ panicked)

\* Every call of StartMatch, EndMatch and Close returns, unless the process dies.
CallsReturn == \A c \in Callers : (calls[c] # Idle) ~> (calls[c] = Idle \/ panicked)

\* "EndMatch() ... cleanly stops loop" and "Close() gracefully ends running loops"
\* (t-006): no call of the Manager's interface brings the process down.
NoPanic == ~panicked

=============================================================================
