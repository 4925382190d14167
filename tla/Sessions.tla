------------------------------ MODULE Sessions ------------------------------
(***************************************************************************)
(* The server's sessions: connections and whom they speak for              *)
(* (server/networking), the choice of a lobby (server/matchmaking), and    *)
(* the manager's players with the flag that says who is connected          *)
(* (server/game).                                                          *)
(*                                                                         *)
(* Every connection has a goroutine, its read pump, that handles one       *)
(* message at a time; any goroutine may close a connection at any time.    *)
(* The server, the matchmaker and the manager each have a lock of their    *)
(* own, so a join is a sequence of steps, one for each critical section,   *)
(* and so is a close: first the connection goes, then the manager is told. *)
(*                                                                         *)
(* Regions and latencies are those a request names; a lobby's age is its   *)
(* number.  Tokens are left out: a join names the player it is for.  The   *)
(* queue of the matchmaker holds a ticket only while its lock is held.     *)
(***************************************************************************)
EXTENDS Integers, Sequences, FiniteSets

CONSTANTS
    Players,
    Conns,        \* the connections that are ever made
    Requests,     \* bound: the join requests, as records
    MinPlayers,
    MaxPlayers,
    MaxMatches,   \* bound: matches created
    MaxJoins,     \* bound: join messages handled
    None          \* no player, no connection

DefaultRegion == "global"

UnknownLatency == 2001   \* MaxRegionLatencyMS and one

\* A request prefers a region or "", knows some latencies, and names a match or 0.
ASSUME SessionsAssumption ==
    /\ MinPlayers \in 1 .. MaxPlayers
    /\ {MaxPlayers, MaxMatches, MaxJoins} \subseteq Nat
    /\ None \notin Players \cup Conns
    /\ \A req \in Requests :
          /\ req.match \in 0 .. MaxMatches
          /\ \A region \in DOMAIN req.latency : req.latency[region] \in 1 .. UnknownLatency - 1

VARIABLES
    conns,               \* the connections, open or not, and what they are bound to
    playerToConnection,
    matchToConnections,
    pump,                \* what the read pump of a connection is doing
    reports,             \* closed connections whose player is yet to be reported
    matches,             \* the manager's matches with the matchmaker's regions
    playerToMatch,       \* 0: in no match
    joins,               \* join messages so far
    disturbed            \* history: players whose joins and closes overlapped

server == <<conns, playerToConnection, matchToConnections>>

manager == <<matches, playerToMatch>>

vars == <<server, pump, reports, manager, joins, disturbed>>

Unbound == [state |-> "open", player |-> None, match |-> 0]

Idle == [pc |-> "idle", player |-> None, match |-> 0, request |-> None,
         tried |-> FALSE, stale |-> None]

Init ==
    /\ conns = [c \in Conns |-> [Unbound EXCEPT !.state = "unused"]]
    /\ playerToConnection = [p \in Players |-> None]
    /\ matchToConnections = [m \in 1 .. MaxMatches |-> {}]
    /\ pump = [c \in Conns |-> Idle]
    /\ reports = {}
    /\ matches = <<>>
    /\ playerToMatch = [p \in Players |-> 0]
    /\ joins = 0
    /\ disturbed = {}

-----------------------------------------------------------------------------
(* server/matchmaking *)

Exists(m) == m \in DOMAIN matches

\* lobbyFromMatchSnapshot
Joinable(m) ==
    /\ matches[m].status = "lobby"
    /\ Cardinality(matches[m].players) < MaxPlayers

Latency(req, region) ==
    IF region \in DOMAIN req.latency THEN req.latency[region] ELSE UnknownLatency

\* sortLobbiesForRequest among joinable lobbies: the region asked for, then the
\* lower latency, then the fuller lobby, then the older one.
Rank(req, m) ==
    << IF req.preferred # "" /\ matches[m].region # req.preferred THEN 1 ELSE 0,
       Latency(req, matches[m].region),
       MaxPlayers - Cardinality(matches[m].players),
       m >>

SortsBefore(req, m, n) ==
    LET r == Rank(req, m)
        s == Rank(req, n)
    IN \E i \in DOMAIN r : r[i] < s[i] /\ \A j \in 1 .. i - 1 : r[j] = s[j]

\* chooseCreationRegion: of regions with the same latency, any (their names decide).
CreationRegions(req) ==
    CASE req.preferred # "" -> {req.preferred}
      [] req.preferred = "" /\ req.latency = <<>> -> {DefaultRegion}
      [] OTHER -> {r \in DOMAIN req.latency :
                      \A s \in DOMAIN req.latency : req.latency[r] <= req.latency[s]}

NewMatch(region) ==
    [status |-> "lobby", region |-> region, players |-> {}, connected |-> {}]

Candidates(req, excluded) ==
    {m \in DOMAIN matches \ excluded :
        Joinable(m) /\ (req.preferred # "" => matches[m].region = req.preferred)}

\* FindOrCreateLobbyForRequest gives the match m.
FindOrCreateLobby(req, excluded, m) ==
    LET found == Candidates(req, excluded)
    IN IF found # {}
       THEN /\ m \in found
            /\ \A n \in found \ {m} : SortsBefore(req, m, n)
            /\ UNCHANGED matches
       ELSE /\ m = Len(matches) + 1
            /\ m <= MaxMatches
            /\ \E region \in CreationRegions(req) :
                  matches' = Append(matches, NewMatch(region))

-----------------------------------------------------------------------------
(* Presence: connected is the set of the players shown as connected *)

setPlayerConnected(m, p, connected) ==
    matches' = [matches EXCEPT ![m].connected = IF connected THEN @ \cup {p} ELSE @ \ {p}]

\* A player's own joins that are being handled.
JoinsOf(p) == {c \in Conns : pump[c].pc # "idle" /\ pump[c].player = p}

ReportsOf(p) == {r \in reports : r.player = p}

-----------------------------------------------------------------------------
(* handleJoinGame, one step for each critical section *)

To(c, pc) == pump' = [pump EXCEPT ![c].pc = pc]

Return(c) == pump' = [pump EXCEPT ![c] = Idle]

registerConnection(c) ==
    /\ conns[c].state = "unused"
    /\ conns' = [conns EXCEPT ![c] = Unbound]
    /\ UNCHANGED <<playerToConnection, matchToConnections, pump, reports, manager, joins, disturbed>>

\* The match: the one named, the one the player is in, or one the matchmaker gives.
handleJoinGame(c, p, req) ==
    /\ conns[c].state = "open"
    /\ pump[c].pc = "idle"
    /\ joins < MaxJoins
    /\ joins' = joins + 1
    /\ \E m \in 1 .. MaxMatches :
          /\ CASE req.match # 0 -> m = req.match /\ UNCHANGED matches
               [] req.match = 0 /\ playerToMatch[p] # 0 -> m = playerToMatch[p] /\ UNCHANGED matches
               [] OTHER -> FindOrCreateLobby(req, {}, m)
          /\ pump' = [pump EXCEPT ![c] = [Idle EXCEPT !.pc = "join", !.player = p,
                                                      !.match = m, !.request = req]]
    /\ disturbed' = disturbed \cup (IF JoinsOf(p) # {} THEN {p} ELSE {})
    /\ UNCHANGED <<server, reports, playerToMatch>>

\* ErrMatchFull, ErrMatchNotJoinable, ErrMatchNotFound: once, and for quick play
\* only, another lobby is looked for.
Refused(c) ==
    IF pump[c].request.match = 0 /\ ~pump[c].tried THEN To(c, "fallback") ELSE Return(c)

\* Seeded fault: a lobby is full one player early.
HasRoom_OffByOne(m) == Cardinality(matches[m].players) + 1 < MaxPlayers

HasRoom(m) == Cardinality(matches[m].players) < MaxPlayers

JoinMatch(c) ==
    /\ pump[c].pc = "join"
    /\ LET p == pump[c].player
           m == pump[c].match
       IN CASE playerToMatch[p] # 0 ->
                  To(c, "resume") /\ UNCHANGED manager
            [] playerToMatch[p] = 0 /\ Exists(m) /\ matches[m].status = "lobby" /\ HasRoom(m) ->
                  /\ matches' = [matches EXCEPT ![m].players = @ \cup {p},
                                                ![m].connected = @ \cup {p}]
                  /\ playerToMatch' = [playerToMatch EXCEPT ![p] = m]
                  /\ To(c, "bind")
            [] OTHER -> Refused(c) /\ UNCHANGED manager
    /\ UNCHANGED <<server, reports, joins, disturbed>>

ResumePlayer(c) ==
    /\ pump[c].pc = "resume"
    /\ LET p == pump[c].player
           m == pump[c].match
       IN CASE ~Exists(m) \/ matches[m].status = "game_over" ->
                  Refused(c) /\ UNCHANGED manager
            [] OTHER ->
                  IF playerToMatch[p] \in {0, m} /\ p \in matches[m].players
                  THEN /\ playerToMatch' = [playerToMatch EXCEPT ![p] = m]
                       /\ setPlayerConnected(m, p, TRUE)
                       /\ To(c, "bind")
                  ELSE Return(c) /\ UNCHANGED manager
    /\ UNCHANGED <<server, reports, joins, disturbed>>

FallbackLobby(c) ==
    /\ pump[c].pc = "fallback"
    /\ \E m \in 1 .. MaxMatches :
          /\ FindOrCreateLobby(pump[c].request, {pump[c].match}, m)
          /\ pump' = [pump EXCEPT ![c] = [@ EXCEPT !.pc = "join", !.match = m, !.tried = TRUE]]
    /\ UNCHANGED <<server, reports, playerToMatch, joins, disturbed>>

\* Spectators name a running match; its state and the binding are two steps.
handleJoinGameAsSpectator(c, m) ==
    /\ conns[c].state = "open"
    /\ pump[c].pc = "idle"
    /\ joins < MaxJoins
    /\ joins' = joins + 1
    /\ Exists(m) /\ matches[m].status = "running"
    /\ pump' = [pump EXCEPT ![c] = [Idle EXCEPT !.pc = "bind", !.match = m]]
    /\ UNCHANGED <<server, reports, manager, disturbed>>

\* The connection the player had before, which the new one replaces.
PreviousOf(c) ==
    LET p == pump[c].player
    IN IF p = None \/ playerToConnection[p] \in {None, c} THEN {} ELSE {playerToConnection[p]}

\* Seeded fault: the connection replaced keeps the name of the player.
Rebound_Named(c) ==
    [d \in Conns |->
        CASE d = c -> [state |-> "open", player |-> pump[c].player, match |-> pump[c].match]
          [] d \in PreviousOf(c) -> [conns[d] EXCEPT !.match = 0]
          [] OTHER -> conns[d]]

\* The connections after bindConnection: the one replaced speaks for nobody.
Rebound(c) ==
    [d \in Conns |->
        CASE d = c -> [state |-> "open", player |-> pump[c].player, match |-> pump[c].match]
          [] d \in PreviousOf(c) -> Unbound
          [] OTHER -> conns[d]]

\* A join that leaves a player without a connection, or races with a close.
Disturbs(c) ==
    IF conns[c].state # "open" THEN {pump[c].player}
    ELSE {p \in {pump[c].player} : ReportsOf(p) # {}} \cup ({conns[c].player} \ {pump[c].player})

\* A connection that is gone by now is not bound, and nobody is told.
bindConnection(c) ==
    /\ pump[c].pc = "bind"
    /\ LET p == pump[c].player
           previous == PreviousOf(c)
       IN IF conns[c].state # "open"
          THEN /\ (IF p = None THEN Return(c) ELSE To(c, "start"))
               /\ UNCHANGED server
          ELSE /\ conns' = Rebound(c)
               /\ playerToConnection' =
                     [q \in Players |-> IF q = p THEN c
                                        ELSE IF q = conns[c].player THEN None
                                        ELSE playerToConnection[q]]
               /\ matchToConnections' =
                     [m \in 1 .. MaxMatches |->
                         (matchToConnections[m] \ ({c} \cup previous))
                           \cup (IF m = pump[c].match THEN {c} ELSE {})]
               /\ IF p = None THEN Return(c)
                  ELSE pump' = [pump EXCEPT ![c] =
                          [@ EXCEPT !.pc = "mark",
                                    !.stale = IF previous = {} THEN None
                                              ELSE CHOOSE d \in previous : TRUE]]
    /\ disturbed' = disturbed \cup (Disturbs(c) \ {None})
    /\ UNCHANGED <<reports, manager, joins>>

-----------------------------------------------------------------------------
(* Closing *)

\* Seeded fault: nobody is told about the player of a closed connection.
ReportOf_Nobody(c) == {}

ReportOf(c) ==
    IF conns[c].player = None THEN {}
    ELSE {[conn |-> c, player |-> conns[c].player, match |-> conns[c].match]}

\* unregisterConnection under the server's lock.
unregisterConnection(c) ==
    /\ conns' = [conns EXCEPT ![c].state = "closed"]
    /\ playerToConnection' =
          [p \in Players |-> IF playerToConnection[p] = c THEN None ELSE playerToConnection[p]]
    /\ matchToConnections' = [m \in 1 .. MaxMatches |-> matchToConnections[m] \ {c}]
    /\ reports' = reports \cup ReportOf(c)

\* A close during a join may be reported before the join sets the flag.
Interrupts(c) == (IF pump[c].pc = "idle" THEN {} ELSE {pump[c].player}) \ {None}

\* A leave, a lost connection, a full send queue.
CloseConnection(c) ==
    /\ conns[c].state = "open"
    /\ unregisterConnection(c)
    /\ disturbed' = disturbed \cup Interrupts(c)
    /\ UNCHANGED <<pump, manager, joins>>

\* The rest of unregisterConnection.
ReportDisconnected(r) ==
    /\ r \in reports
    /\ reports' = reports \ {r}
    /\ setPlayerConnected(r.match, r.player, FALSE)
    /\ UNCHANGED <<server, pump, playerToMatch, joins, disturbed>>

\* bindConnection closes the connection it has replaced, unless that is closed already.
CloseStale(c) ==
    /\ pump[c].pc = "mark"
    /\ pump[c].stale # None
    /\ LET d == pump[c].stale
       IN IF conns[d].state = "open"
          THEN /\ unregisterConnection(d)
               /\ disturbed' = disturbed \cup Interrupts(d)
               /\ To(c, "drain")
          ELSE /\ pump' = [pump EXCEPT ![c].stale = None]
               /\ UNCHANGED <<server, reports, disturbed>>
    /\ UNCHANGED <<manager, joins>>

\* The rest of bindConnection, once the close it made has been reported.
MarkConnected(c) ==
    /\ \/ pump[c].pc = "mark" /\ pump[c].stale = None
       \/ pump[c].pc = "drain" /\ \A r \in reports : r.conn # pump[c].stale
    /\ setPlayerConnected(pump[c].match, pump[c].player, TRUE)
    /\ To(c, "start")
    /\ UNCHANGED <<server, reports, playerToMatch, joins, disturbed>>

-----------------------------------------------------------------------------
(* Matches *)

maybeAutoStartMatch(c) ==
    /\ pump[c].pc = "start"
    /\ LET m == pump[c].match
       IN IF matches[m].status = "lobby" /\ Cardinality(matches[m].players) >= MinPlayers
          THEN matches' = [matches EXCEPT ![m].status = "running"]
          ELSE UNCHANGED matches
    /\ Return(c)
    /\ UNCHANGED <<server, reports, playerToMatch, joins, disturbed>>

\* The match loop finds that the match is decided.
GameOver(m) ==
    /\ Exists(m) /\ matches[m].status = "running"
    /\ matches' = [matches EXCEPT ![m].status = "game_over"]
    /\ playerToMatch' = [p \in Players |-> IF playerToMatch[p] = m THEN 0 ELSE playerToMatch[p]]
    /\ UNCHANGED <<server, pump, reports, joins, disturbed>>

Next ==
    \/ \E c \in Conns :
          \/ registerConnection(c)
          \/ \E p \in Players, req \in Requests : handleJoinGame(c, p, req)
          \/ \E m \in 1 .. MaxMatches : handleJoinGameAsSpectator(c, m)
          \/ JoinMatch(c) \/ ResumePlayer(c) \/ FallbackLobby(c) \/ bindConnection(c)
          \/ CloseStale(c) \/ MarkConnected(c) \/ maybeAutoStartMatch(c)
          \/ CloseConnection(c)
    \/ \E r \in reports : ReportDisconnected(r)
    \/ \E m \in 1 .. MaxMatches : GameOver(m)

Spec == Init /\ [][Next]_vars

-----------------------------------------------------------------------------
(* Properties *)

\* The server's two indexes say what the connections say, in every interleaving of
\* joins, second joins of a player or of a connection, and closes: a player has one
\* connection, which is open and speaks for that player alone, and a match's
\* broadcasts go to the open connections that are bound to it (bindConnection,
\* unregisterConnection).
BindingsAgree ==
    /\ \A p \in Players, c \in Conns :
          playerToConnection[p] = c <=> conns[c].state = "open" /\ conns[c].player = p
    /\ \A m \in 1 .. MaxMatches :
          matchToConnections[m] = {c \in Conns : conns[c].state = "open" /\ conns[c].match = m}

\* Who is shown as connected is connected, and the other way round, whenever no join
\* and no close of the player is under way, unless a close overlapped with a join of
\* the player, two joins of the player overlapped, or the player's connection went on
\* to join as somebody else: then the flag may stay wrong for good, because the last
\* of two unordered writes wins or nobody writes it (unregisterConnection and
\* bindConnection tell the manager after they have let go of the lock).
PresenceExact ==
    \A p \in Players \ disturbed : \A m \in DOMAIN matches :
        /\ matches[m].status # "game_over"
        /\ p \in matches[m].players
        /\ JoinsOf(p) = {} /\ ReportsOf(p) = {}
        => (p \in matches[m].connected <=> playerToConnection[p] # None)

\* Quick play does not scatter players: a region never has two lobbies that can be
\* joined, though lobbies fill and start between the choice and the join, and the
\* lobby that turned a player away is excluded from the second choice
\* (FindOrCreateLobbyForRequest, handleJoinGame).
OneOpenLobby ==
    \A m, n \in DOMAIN matches :
        Joinable(m) /\ Joinable(n) /\ matches[m].region = matches[n].region => m = n

-----------------------------------------------------------------------------
(* The inductive strengthening *)

Regions ==
    {DefaultRegion} \cup {req.preferred : req \in Requests}
        \cup UNION {DOMAIN req.latency : req \in Requests}

Matches == [status : {"lobby", "running", "game_over"}, region : Regions,
            players : SUBSET Players, connected : SUBSET Players]

Connections == [state : {"unused", "open", "closed"}, player : Players \cup {None},
                match : 0 .. MaxMatches]

Pumps == [pc : {"idle", "join", "resume", "fallback", "bind", "mark", "drain", "start"},
          player : Players \cup {None}, match : 0 .. MaxMatches, request : Requests \cup {None},
          tried : BOOLEAN, stale : Conns \cup {None}]

SessionsTypeOK ==
    /\ conns \in [Conns -> Connections]
    /\ playerToConnection \in [Players -> Conns \cup {None}]
    /\ matchToConnections \in [1 .. MaxMatches -> SUBSET Conns]
    /\ pump \in [Conns -> Pumps]
    /\ reports \subseteq [conn : Conns, player : Players, match : 0 .. MaxMatches]
    /\ matches \in Seq(Matches) /\ Len(matches) <= MaxMatches
    /\ \A m \in DOMAIN matches : IsFiniteSet(matches[m].players)
    /\ playerToMatch \in [Players -> 0 .. MaxMatches]
    /\ joins \in Nat
    /\ disturbed \subseteq Players

\* What a handler knows of its match: quick play was given one that exists; one that
\* turned the player away stays closed to others; who is bound was let in.
HandlerOf(c) ==
    LET u == pump[c] IN
    /\ u.pc \in {"join", "resume", "fallback"} =>
          /\ u.player \in Players /\ u.request \in Requests
          /\ u.request.match = 0 => Exists(u.match)
    /\ u.pc = "fallback" => u.request.match = 0 /\ ~Joinable(u.match)
    /\ u.pc \in {"bind", "mark", "drain", "start"} => Exists(u.match)
    /\ u.pc \in {"mark", "drain", "start"} => u.player \in Players

HandlerInv ==
    /\ \A p \in Players : playerToMatch[p] # 0 => Exists(playerToMatch[p])
    /\ \A c \in Conns : HandlerOf(c)

LiveIn(p, m) == Exists(m) /\ matches[m].status # "game_over" /\ p \in matches[m].players

\* A player is in no live match but the one the manager has for the player.
MemberInv == \A p \in Players : \A m \in DOMAIN matches : LiveIn(p, m) => playerToMatch[p] = m

\* A join of p is in one of these places.
JoinAt(p, places) == \E c \in JoinsOf(p) : pump[c].pc \in places

\* The presence of a player p whose joins and closes did not overlap, also while a join
\* or a close is under way.
PresenceOf(p) ==
    /\ \A c, d \in JoinsOf(p) : c = d
    /\ ReportsOf(p) # {} => playerToConnection[p] = None
    /\ \A c \in JoinsOf(p) :
          /\ pump[c].pc \in {"mark", "drain", "start"} => playerToConnection[p] = c
          /\ pump[c].pc \in {"bind", "mark", "drain", "start"} =>
                \A m \in DOMAIN matches : LiveIn(p, m) => pump[c].match = m
    /\ \A m \in DOMAIN matches : LiveIn(p, m) =>
          /\ ~JoinAt(p, {"bind"}) =>
                /\ \A c \in Conns : playerToConnection[p] = c => conns[c].match = m
                /\ \A r \in ReportsOf(p) : r.match = m
          /\ ~JoinAt(p, {"bind", "mark", "drain"}) =>
                /\ playerToConnection[p] # None => p \in matches[m].connected
                /\ playerToConnection[p] = None /\ ReportsOf(p) = {} => p \notin matches[m].connected

PresenceInv == \A p \in Players \ disturbed : PresenceOf(p)

SessionsInv ==
    /\ SessionsTypeOK /\ BindingsAgree /\ HandlerInv
    /\ OneOpenLobby /\ MemberInv /\ PresenceInv

=============================================================================
