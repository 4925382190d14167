------------------------------ MODULE ClientApp -----------------------------
(***************************************************************************)
(* The client application: the stages of the pre-match flow, the           *)
(* goroutines that connect and that fetch the lobbies, the channels they   *)
(* answer through, and the sessions and the shell of module Prediction.    *)
(*                                                                         *)
(* One thread runs Update in a loop.  It is cut where it takes a lock or   *)
(* reads a channel, because connection attempts, sessions and the server   *)
(* go on meanwhile.  The process may end at any time; the next one plays   *)
(* as the same player.  Attempts are numbered through all processes.       *)
(***************************************************************************)
EXTENDS Prediction

CONSTANTS
    ResultSlots,      \* capacity of connectResults and lobbyFetchResults
    PreferredMatch    \* the configuration names a match

ASSUME ClientAppAssumption ==
    /\ ResultSlots \in Nat \ {0}
    /\ PreferredMatch \in BOOLEAN
    /\ \A b \in Bounds : {b.fetches, b.processes} \subseteq Nat

VARIABLES
    app,                 \* the fields of ClientApp that Update uses
    attempts,            \* the connection attempts
    fetching,            \* the lobby fetches under way
    connectResults,
    lobbyFetchResults,
    lost                 \* history: attempts whose result found the channel full

clientVars == <<sessions, shell, process, issued>>

channels == <<attempts, fetching, connectResults, lobbyFetchResults, lost>>

vars == <<serverVars, clientVars, app, channels>>

NewApp ==
    [pc |-> "async", stage |-> "main_menu", lastStage |-> "main_menu", meta |-> 0,
     connectAttemptID |-> 0, lobbyFetchAttemptID |-> 0, session |-> 0,
     lobbies |-> FALSE, lastClientSeq |-> 0]

Init ==
    /\ PredictionInit
    /\ app = NewApp
    /\ attempts = <<>>
    /\ fetching = {}
    /\ connectResults = <<>>
    /\ lobbyFetchResults = <<>>
    /\ lost = {}

-----------------------------------------------------------------------------
(* Goroutines.  Joins and fetches end by their deadlines. *)

\* The context is looked at before every read of the handshake, not during one.
Handshake(i) ==
    /\ attempts[i].pc = "dialing" /\ ~attempts[i].canceled
    /\ attempts' = [attempts EXCEPT ![i].pc = "reading"]
    /\ UNCHANGED <<serverVars, clientVars, app, fetching, connectResults, lobbyFetchResults, lost>>

\* The goroutine of startConnect puts the result in the channel or drops it, session and all.
Deliver(i, ok, joined) ==
    /\ attempts' = [attempts EXCEPT ![i].pc = "done"]
    /\ IF Len(connectResults) < ResultSlots
       THEN /\ connectResults' = Append(connectResults, [id |-> i, ok |-> ok])
            /\ sessions' = joined
            /\ UNCHANGED lost
       ELSE /\ sessions' = IF ok THEN Close(joined, i) ELSE joined
            /\ lost' = lost \cup {i}
            /\ UNCHANGED connectResults
    /\ UNCHANGED <<serverVars, shell, process, issued, app, fetching, lobbyFetchResults>>

DialAndJoin(i) ==
    /\ attempts[i].pc = "reading"
    /\ ~attempts[i].player => running
    /\ Deliver(i, TRUE, [sessions EXCEPT ![i] = Joined(attempts[i].player)])

DialFails(i) ==
    /\ attempts[i].pc \in {"dialing", "reading"}
    /\ Deliver(i, FALSE, sessions)

FetchLobbies(f) ==
    /\ f \in fetching
    /\ fetching' = fetching \ {f}
    /\ \E ok, found \in BOOLEAN :
          lobbyFetchResults' = IF Len(lobbyFetchResults) < ResultSlots
                               THEN Append(lobbyFetchResults,
                                           [id |-> f, ok |-> ok, lobbies |-> ok /\ found])
                               ELSE lobbyFetchResults
    /\ UNCHANGED <<serverVars, clientVars, app, attempts, connectResults, lost>>

-----------------------------------------------------------------------------
(* Parts of Update *)

\* Seeded fault: the seed is what the server has acknowledged.
seedClientSeq_Acked(i) == AckAt(sessions[i].tick)

\* The number the controller of session i goes on from.
seedClientSeq(i) == MaxOf({app.lastClientSeq, AckAt(sessions[i].tick)})

ShellFor(i) == NewShell(i, IF sessions[i].player THEN seedClientSeq(i) ELSE 0)

cancelActiveConnect(as) ==
    [i \in DOMAIN as |->
        IF i = app.connectAttemptID THEN [as[i] EXCEPT !.canceled = TRUE] ELSE as[i]]

CanFetch == app.lobbyFetchAttemptID < bound.fetches

refreshLobbies == fetching' = fetching \cup {app.lobbyFetchAttemptID + 1}

\* Seeded fault: the error is only written down.
OnConnectError_Quiet == app

OnConnectError == [app EXCEPT !.stage = "error_notice"]

\* The new session replaces the one there is.
onConnectSuccess(i) ==
    /\ sessions' = Close(sessions, app.session)
    /\ IF sessions[i].running
       THEN app' = [app EXCEPT !.session = i, !.stage = "in_match"] /\ shell' = ShellFor(i)
       ELSE app' = [app EXCEPT !.session = i, !.stage = "lobby_wait"] /\ shell' = NoShell

\* Seeded fault: an answer that is out of date is only skipped.
Discard_Skips(result) == sessions

Discard(result) == IF result.ok THEN Close(sessions, result.id) ELSE sessions

\* Seeded fault: whatever comes is taken for the answer.
Overtaken_Never(result) == FALSE

\* A later attempt was started since.
Overtaken(result) == result.id # app.connectAttemptID

\* Results are taken until the channels are empty; of two channels, either may be first.
TakeConnectResult ==
    /\ app.pc = "async"
    /\ connectResults # <<>>
    /\ connectResults' = Tail(connectResults)
    /\ LET result == Head(connectResults)
       IN CASE Overtaken(result) ->
                  /\ sessions' = Discard(result)
                  /\ UNCHANGED <<app, shell>>
            [] ~Overtaken(result) /\ ~result.ok ->
                  app' = OnConnectError /\ UNCHANGED <<sessions, shell>>
            [] OTHER -> onConnectSuccess(result.id)
    /\ UNCHANGED <<serverVars, process, issued, attempts, fetching, lobbyFetchResults, lost>>

TakeFetchResult ==
    /\ app.pc = "async"
    /\ lobbyFetchResults # <<>>
    /\ lobbyFetchResults' = Tail(lobbyFetchResults)
    /\ LET result == Head(lobbyFetchResults)
       IN CASE result.id # app.lobbyFetchAttemptID -> UNCHANGED app
            [] result.id = app.lobbyFetchAttemptID /\ ~result.ok ->
                  app' = OnConnectError
            [] OTHER -> app' = [app EXCEPT !.lobbies = result.lobbies]
    /\ UNCHANGED <<serverVars, clientVars, attempts, fetching, connectResults, lost>>

\* The stage once syncStageFromSession has looked at the session.
StageAfterSync ==
    LET i == app.session
    IN CASE i # 0 /\ sessions[i].err -> "error_notice"
         [] i # 0 /\ ~sessions[i].err /\ app.stage = "lobby_wait" /\ sessions[i].running -> "in_match"
         [] OTHER -> app.stage

\* The channels are empty: syncStageFromSession, then handleStageTransition.
SyncStage ==
    /\ app.pc = "async"
    /\ connectResults = <<>> /\ lobbyFetchResults = <<>>
    /\ LET i == app.session
           leave == i # 0 /\ sessions[i].err
           stage == StageAfterSync
           entered(s) == stage = s /\ app.lastStage # s
       IN /\ sessions' = IF leave THEN Close(sessions, i) ELSE sessions
          /\ shell' = IF leave THEN NoShell
                      ELSE IF stage = "in_match" /\ i # 0 /\ shell = NoShell THEN ShellFor(i)
                      ELSE shell
          /\ app' = [app EXCEPT !.pc = "update", !.stage = stage, !.lastStage = stage,
                                !.session = IF leave THEN 0 ELSE i,
                                !.lobbyFetchAttemptID = IF entered("lobby_list") THEN @ + 1 ELSE @]
          /\ IF entered("lobby_list") THEN refreshLobbies ELSE UNCHANGED fetching
          /\ attempts' = IF entered("main_menu") THEN cancelActiveConnect(attempts) ELSE attempts
    /\ UNCHANGED <<serverVars, process, issued, connectResults, lobbyFetchResults, lost>>

-----------------------------------------------------------------------------
(* The handlers of the stages.  Update is over when pc is "async" again. *)

Shows(stage) == app.pc = "update" /\ app.stage = stage

Goto(stage) == app' = [app EXCEPT !.pc = "async", !.stage = stage]

\* No key that matters was pressed.
NoKey ==
    /\ app.pc = "update"
    /\ app.stage = "in_match" => shell = NoShell \/ shell.paused
    /\ app' = [app EXCEPT !.pc = "async"]
    /\ UNCHANGED <<serverVars, clientVars, channels>>

\* startConnect: the attempt under way is canceled and the session is left first.  A
\* spectator needs a match to be named.
startConnect(player, named) ==
    /\ Len(attempts) < bound.sessions
    /\ sessions' = Close(sessions, app.session)
    /\ shell' = NoShell
    /\ LET start == player \/ named \/ PreferredMatch
       IN /\ app' = [app EXCEPT !.pc = "async", !.session = 0,
                                !.connectAttemptID = Len(attempts) + 1,
                                !.stage = IF start THEN "connecting" ELSE "error_notice"]
          /\ attempts' = Append(cancelActiveConnect(attempts),
                                [pc |-> IF start THEN "dialing" ELSE "done",
                                 player |-> player, canceled |-> FALSE])
    /\ UNCHANGED <<serverVars, process, issued, fetching, connectResults, lobbyFetchResults, lost>>

updateMainMenu ==
    /\ Shows("main_menu")
    /\ \/ \E player \in BOOLEAN : startConnect(player, FALSE)
       \/ /\ (CanFetch /\ Goto("lobby_list")) \/ Goto("tutorial")
          /\ UNCHANGED <<serverVars, clientVars, channels>>

updateLobbyList ==
    /\ Shows("lobby_list")
    /\ \/ app.lobbies /\ \E player \in BOOLEAN : startConnect(player, TRUE)
       \/ /\ ~app.lobbies
          /\ Goto("error_notice")
          /\ UNCHANGED <<serverVars, clientVars, channels>>
       \/ /\ Goto("main_menu")
          /\ UNCHANGED <<serverVars, clientVars, channels>>
       \/ /\ CanFetch
          /\ refreshLobbies
          /\ app' = [app EXCEPT !.pc = "async", !.lobbyFetchAttemptID = @ + 1]
          /\ UNCHANGED <<serverVars, clientVars, attempts, connectResults, lobbyFetchResults, lost>>

\* Tutorial and error notice.
BackToMainMenu ==
    /\ Shows("tutorial") \/ Shows("error_notice")
    /\ Goto("main_menu")
    /\ UNCHANGED <<serverVars, clientVars, channels>>

\* The attempt keeps its number: its answer still counts.
updateConnecting ==
    /\ Shows("connecting")
    /\ attempts' = cancelActiveConnect(attempts)
    /\ Goto("main_menu")
    /\ UNCHANGED <<serverVars, clientVars, fetching, connectResults, lobbyFetchResults, lost>>

\* From the lobby, and from the pause menu of a match.
leaveSessionToMenu ==
    /\ Shows("lobby_wait") \/ (Shows("in_match") /\ shell # NoShell /\ shell.paused)
    /\ sessions' = Close(sessions, app.session)
    /\ shell' = NoShell
    /\ app' = [app EXCEPT !.pc = "async", !.stage = "main_menu", !.session = 0]
    /\ attempts' = cancelActiveConnect(attempts)
    /\ UNCHANGED <<serverVars, process, issued, fetching, connectResults, lobbyFetchResults, lost>>

TogglePauseMenu ==
    /\ Shows("in_match") /\ shell # NoShell
    /\ shell' = [shell EXCEPT !.paused = ~@]
    /\ app' = [app EXCEPT !.pc = "async"]
    /\ UNCHANGED <<serverVars, sessions, process, issued, channels>>

-----------------------------------------------------------------------------
(* The shell: three reads of the store, each under its own lock *)

\* LatestSnapshotMeta, in Update and in Draw.
ReadMeta ==
    /\ app.stage = "in_match" /\ shell # NoShell
    /\ \/ app.pc = "update" /\ ~shell.paused
       \/ app.pc = "async"
    /\ LET meta == sessions[app.session].tick
           fresh == meta > shell.lastReconciledTick
       IN /\ app.pc = "async" => fresh
          /\ app' = [app EXCEPT
                       !.meta = IF fresh THEN meta ELSE 0,
                       !.pc = CASE ~fresh -> "build"
                                [] fresh /\ app.pc = "update" -> "accept"
                                [] OTHER -> "draw"]
    /\ UNCHANGED <<serverVars, clientVars, channels>>

\* CurrentState, which may be newer than what was read before.
reconcilePredictionFromStore ==
    /\ app.pc \in {"accept", "draw"}
    /\ shell' = AcceptAuthoritativeSnapshot(shell, app.meta, sessions[app.session].tick)
    /\ app' = [app EXCEPT !.pc = IF @ = "accept" THEN "build" ELSE "async", !.meta = 0]
    /\ UNCHANGED <<serverVars, sessions, process, issued, channels>>

\* The rest of Update: the commands for the tick after the state, recorded and sent.
UpdateShell(keys) ==
    /\ app.pc = "build"
    /\ LET i == app.session
           target == sessions[i].tick + 1
           commands == BuildCommands(shell, keys, target)
       IN /\ shell.nextClientSeq + Len(commands) <= bound.commands
          /\ shell' = AfterBuild(shell, commands, target)
          /\ issued' = issued \cup ToSet(commands)
          /\ sessions' = [sessions EXCEPT ![i] = SendInputCommand(@, commands)]
          /\ app' = [app EXCEPT !.pc = "async",
                                !.lastClientSeq = MaxOf({@} \cup {c.seq : c \in ToSet(commands)})]
    /\ UNCHANGED <<serverVars, process, channels>>

\* The process ends and is started again.
Restart ==
    /\ process < bound.processes
    /\ process' = process + 1
    /\ app' = NewApp
    /\ shell' = NoShell
    /\ sessions' = [i \in Ids |-> IF sessions[i].state = "none" THEN NoSession
                                  ELSE [sessions[i] EXCEPT !.state = "closed"]]
    /\ attempts' = [i \in DOMAIN attempts |-> [attempts[i] EXCEPT !.pc = "done"]]
    /\ fetching' = {}
    /\ connectResults' = <<>>
    /\ lobbyFetchResults' = <<>>
    /\ UNCHANGED <<serverVars, issued, lost>>

-----------------------------------------------------------------------------

Update ==
    \/ TakeConnectResult \/ TakeFetchResult \/ SyncStage
    \/ updateMainMenu \/ updateLobbyList \/ BackToMainMenu \/ updateConnecting
    \/ leaveSessionToMenu \/ TogglePauseMenu \/ NoKey
    \/ ReadMeta \/ reconcilePredictionFromStore
    \/ \E keys \in SUBSET Keys : UpdateShell(keys)

Network ==
    \/ StartMatch \/ ServerTick
    \/ \E i \in Ids :
          \/ onAuthoritativeSnapshot(i)
          \/ \E barred \in BOOLEAN : SubmitInput(i, barred)
          \/ \E failed \in BOOLEAN : LoseConnection(i, failed) \/ LoseSent(i, failed)

Next ==
    \/ Update
    \/ \E i \in DOMAIN attempts : Handshake(i) \/ DialAndJoin(i) \/ DialFails(i)
    \/ \E f \in fetching : FetchLobbies(f)
    \/ Network /\ UNCHANGED <<app, channels>>
    \/ Restart

AllIds == UNION {1 .. b.sessions : b \in Bounds}

\* Update is called again and again, the user may press no key, and a connection
\* attempt ends because its dial, its write and its reads have deadlines.
Fairness ==
    /\ WF_vars(TakeConnectResult) /\ WF_vars(TakeFetchResult) /\ WF_vars(SyncStage)
    /\ WF_vars(NoKey)
    /\ WF_vars(ReadMeta) /\ WF_vars(reconcilePredictionFromStore) /\ WF_vars(UpdateShell({}))
    /\ \A i \in AllIds : WF_vars(i \in DOMAIN attempts /\ (DialAndJoin(i) \/ DialFails(i)))

Spec == Init /\ [][Next]_vars /\ Fairness

-----------------------------------------------------------------------------
(* Properties *)

\* A process never uses a client_seq twice, through lost commands, lost connections and
\* new sessions (seedClientSeq, recordClientSeq), so that a command is refused as a
\* duplicate only if another process of the client used its number: the client leaves the
\* match on the message of the refusal.
SeqsFresh ==
    /\ shell # NoShell /\ shell.player =>
          \A c \in issued : c.by = process => c.seq <= shell.nextClientSeq
    /\ \A i \in Ids : \A c \in ToSet(sessions[i].sent) :
          Seen(c.seq) => \E d \in issued : d.seq = c.seq /\ d.by # c.by

\* No session stays open that nobody will close: it is the application's, or its result
\* is in the channel, whatever attempts were canceled, overtaken, answered late or
\* dropped because the channel was full (startConnect, processAsyncResults).
NoSessionLeak ==
    \A i \in Ids :
        sessions[i].state \in {"open", "lost"} =>
            i = app.session \/ \E k \in DOMAIN connectResults : connectResults[k].id = i

\* Connecting does not last: the answer of the attempt takes the player out of it, except
\* when the channel was full and the answer was dropped (startConnect).
ConnectingEnds ==
    app.stage = "connecting" ~>
        app.stage # "connecting" \/ app.connectAttemptID \in lost

\* What has become of an attempt: its connection is being made, is ready to be used, is
\* the application's, or is over.
Life(i) ==
    IF attempts[i].pc # "done" THEN "asked"
    ELSE IF sessions[i].state \notin {"open", "lost"} THEN "over"
    ELSE IF i = app.session THEN "used"
    ELSE "ready"

Lives == [i \in DOMAIN attempts |-> Life(i)]

Connections == INSTANCE ConnectionService WITH life <- Lives

\* Whatever answers come late, out of order or not at all, the application implements the
\* service of module ConnectionService: it uses the connection it asked for last and no
\* other, turns away only those that were overtaken, and never goes back to one it left
\* (startConnect, processAsyncResults, leaveSessionOnly).
ConnectionsKept == Connections!Spec

-----------------------------------------------------------------------------
(* The inductive strengthening *)

CommandRecords == [seq : Nat, by : Nat, type : {"move", "aim", "act"}, target : Nat]

PlacedRecords == [seq : Nat, by : Nat, type : {"move", "aim", "act"}, at : Nat]

SessionRecords ==
    [state : {"none", "open", "lost", "closed"}, player : BOOLEAN, err : BOOLEAN, tick : Nat,
     running : BOOLEAN, sent : Seq(CommandRecords)]

ShellRecords ==
    [history : Seq(Nat), pending : SUBSET CommandRecords, player : BOOLEAN,
     lastReconciledTick : Nat, nextClientSeq : Nat, lastMoveTargetTick : Nat,
     lastAimTargetTick : Nat, paused : BOOLEAN]

Stages ==
    {"main_menu", "lobby_list", "tutorial", "connecting", "lobby_wait", "in_match", "error_notice"}

AppRecords ==
    [pc : {"async", "update", "accept", "draw", "build"}, stage : Stages, lastStage : Stages,
     meta : Nat, connectAttemptID : Nat, lobbyFetchAttemptID : Nat, session : Nat,
     lobbies : BOOLEAN, lastClientSeq : Nat]

AttemptRecords == [pc : {"dialing", "reading", "done"}, player : BOOLEAN, canceled : BOOLEAN]

ClientTypeOK ==
    /\ bound \in Bounds /\ running \in BOOLEAN /\ tick \in Nat /\ process \in Nat
    /\ issued \subseteq CommandRecords
    /\ scheduled \subseteq PlacedRecords /\ applied \subseteq PlacedRecords
    /\ sessions \in [Ids -> SessionRecords]
    /\ shell \in ShellRecords \cup {NoShell}
    /\ app \in AppRecords
    /\ attempts \in Seq(AttemptRecords) /\ Len(attempts) <= bound.sessions
    /\ fetching \subseteq Nat
    /\ connectResults \in Seq([id : Nat, ok : BOOLEAN])
    /\ lobbyFetchResults \in Seq([id : Nat, ok : BOOLEAN, lobbies : BOOLEAN])

\* Numbers are used once by a process.
Same(c, d) == c.seq = d.seq /\ c.by = d.by

IssuedInv ==
    /\ \A c \in issued : /\ c.seq <= bound.commands /\ c.by <= process /\ c.target <= tick + 1
                         /\ c.by = process => c.seq <= app.lastClientSeq
    /\ \A c, d \in issued : Same(c, d) => c = d

\* A command is applied for its target or later.
PlacedInv == \A d \in scheduled \cup applied : \E c \in issued : Same(c, d) /\ c.target <= d.at

\* A command under way is nowhere else.
SentInv ==
    \A i \in Ids :
        /\ sessions[i].tick <= tick
        /\ Len(sessions[i].sent) <= SendQueueDepth
        /\ \A k \in DOMAIN sessions[i].sent :
              /\ sessions[i].sent[k] \in issued
              /\ \A d \in scheduled \cup applied : ~Same(sessions[i].sent[k], d)
              /\ \A j \in Ids : \A l \in DOMAIN sessions[j].sent :
                    Same(sessions[i].sent[k], sessions[j].sent[l]) => i = j /\ k = l

ShellInv ==
    /\ shell # NoShell => /\ shell.pending \subseteq issued
                          /\ shell.player => app.lastClientSeq <= shell.nextClientSeq
                          /\ app.session # 0
    /\ app.pc \in {"accept", "draw", "build"} => shell # NoShell

\* An attempt has a session when it has ended well, and its result is one of its own.
AttemptInv ==
    /\ app.session # 0 => app.session \in Ids /\ sessions[app.session].state # "none"
    /\ \A i \in Ids : (i \in DOMAIN attempts => attempts[i].pc # "done") => sessions[i].state = "none"
    /\ \A k \in DOMAIN connectResults :
          /\ connectResults[k].id \in DOMAIN attempts
          /\ attempts[connectResults[k].id].pc = "done"
          /\ connectResults[k].ok <=> sessions[connectResults[k].id].state # "none"

\* The application waits for the answer of the latest attempt; a new process for none.
LatestInv ==
    \/ app.connectAttemptID = Len(attempts)
    \/ connectResults = <<>> /\ \A i \in DOMAIN attempts : attempts[i].pc = "done"

ClientInv ==
    /\ ClientTypeOK /\ IssuedInv /\ PlacedInv /\ SentInv /\ ShellInv
    /\ AttemptInv /\ NoSessionLeak

=============================================================================
