--------------------------- MODULE SessionsProofs ---------------------------
(***************************************************************************)
(* Proofs about Sessions, for any connections, players, requests and       *)
(* number of matches.                                                      *)
(***************************************************************************)
EXTENDS Sessions, SequenceTheorems, FiniteSetTheorems, TLAPS

USE SessionsAssumption

\* The actions every inductive argument below cases on.
LEMMA SessionsCases ==
    ASSUME [Next]_vars
    PROVE  \/ \E c \in Conns : registerConnection(c)
           \/ \E c \in Conns, p \in Players, req \in Requests : handleJoinGame(c, p, req)
           \/ \E c \in Conns, m \in 1 .. MaxMatches : handleJoinGameAsSpectator(c, m)
           \/ \E c \in Conns : JoinMatch(c)
           \/ \E c \in Conns : ResumePlayer(c)
           \/ \E c \in Conns : FallbackLobby(c)
           \/ \E c \in Conns : bindConnection(c)
           \/ \E c \in Conns : CloseStale(c)
           \/ \E c \in Conns : MarkConnected(c)
           \/ \E c \in Conns : maybeAutoStartMatch(c)
           \/ \E c \in Conns : CloseConnection(c)
           \/ \E r \in reports : ReportDisconnected(r)
           \/ \E m \in 1 .. MaxMatches : GameOver(m)
           \/ UNCHANGED vars
BY DEF Next

-----------------------------------------------------------------------------
(* What a step does to the matches *)

\* Matches are added and never removed; they do not change region, nobody leaves one,
\* and none becomes a lobby again.
Evolves ==
    /\ matches' \in Seq(Matches) /\ Len(matches) <= Len(matches') /\ Len(matches') <= MaxMatches
    /\ \A m \in DOMAIN matches' : IsFiniteSet(matches'[m].players)
    /\ \A m \in DOMAIN matches :
          /\ m \in DOMAIN matches'
          /\ matches'[m].region = matches[m].region
          /\ matches[m].players \subseteq matches'[m].players
          /\ matches'[m].status = "lobby" => matches[m].status = "lobby"
    /\ \A m \in DOMAIN matches' \ DOMAIN matches : matches'[m].players = {}

LEMMA MatchesDomain ==
    ASSUME SessionsTypeOK
    PROVE  /\ Len(matches) \in Nat
           /\ DOMAIN matches = 1 .. Len(matches)
           /\ DOMAIN matches \subseteq 1 .. MaxMatches
           /\ \A m \in DOMAIN matches : matches[m] \in Matches
<1>1. Len(matches) \in Nat /\ DOMAIN matches = 1 .. Len(matches) /\ Len(matches) <= MaxMatches
      /\ matches \in [1 .. Len(matches) -> Matches]
  BY LenProperties DEF SessionsTypeOK
<1>. QED
  BY <1>1

LEMMA SameMatches ==
    ASSUME SessionsTypeOK, UNCHANGED matches
    PROVE  Evolves
<1>1. Len(matches) \in Nat
  BY MatchesDomain
<1>. QED
  BY <1>1 DEF SessionsTypeOK, Evolves

\* One match changes.
LEMMA OneMatch ==
    ASSUME SessionsTypeOK, NEW m \in DOMAIN matches, NEW r \in Matches,
           matches' = [matches EXCEPT ![m] = r],
           r.region = matches[m].region, matches[m].players \subseteq r.players,
           IsFiniteSet(r.players), r.status = "lobby" => matches[m].status = "lobby"
    PROVE  /\ Evolves
           /\ DOMAIN matches' = DOMAIN matches
           /\ \A k \in DOMAIN matches : matches'[k] = IF k = m THEN r ELSE matches[k]
<1>1. /\ Len(matches) \in Nat /\ DOMAIN matches = 1 .. Len(matches)
      /\ \A k \in DOMAIN matches : matches[k] \in Matches
  BY MatchesDomain
<1>2. /\ matches' \in Seq(Matches)
      /\ Len(matches') = Len(matches)
      /\ \A k \in 1 .. Len(matches) : matches'[k] = IF k = m THEN r ELSE matches[k]
  BY <1>1, ExceptSeq DEF SessionsTypeOK
<1>3. DOMAIN matches' = DOMAIN matches
  OBVIOUS
<1>4. \A k \in DOMAIN matches : IsFiniteSet(matches[k].players)
  BY DEF SessionsTypeOK
<1>5. Len(matches) <= MaxMatches
  BY DEF SessionsTypeOK
<1>. QED
  BY <1>1, <1>2, <1>3, <1>4, <1>5 DEF Evolves

\* The presence flag is a match's own; nothing but the flag changes, and only for p.
LEMMA FlagSet ==
    ASSUME SessionsTypeOK, NEW m, NEW p \in Players, NEW on \in BOOLEAN, setPlayerConnected(m, p, on)
    PROVE  /\ Evolves
           /\ DOMAIN matches' = DOMAIN matches
           /\ \A k \in DOMAIN matches :
                 /\ matches'[k].status = matches[k].status
                 /\ matches'[k].players = matches[k].players
                 /\ \A q \in Players : q # p \/ k # m =>
                       (q \in matches'[k].connected <=> q \in matches[k].connected)
           /\ m \in DOMAIN matches /\ on => p \in matches'[m].connected
           /\ m \in DOMAIN matches /\ ~on => p \notin matches'[m].connected
<1>1. CASE m \in DOMAIN matches
  <2> DEFINE r == [matches[m] EXCEPT !.connected = IF on THEN @ \cup {p} ELSE @ \ {p}]
  <2>1. matches[m] \in Matches /\ IsFiniteSet(matches[m].players)
    BY <1>1, MatchesDomain DEF SessionsTypeOK
  <2>2. /\ r \in Matches /\ r.region = matches[m].region /\ r.players = matches[m].players
        /\ r.status = matches[m].status
        /\ r.connected = IF on THEN matches[m].connected \cup {p} ELSE matches[m].connected \ {p}
    BY <2>1 DEF Matches
  <2>3. matches' = [matches EXCEPT ![m] = r]
    BY DEF setPlayerConnected
  <2> HIDE DEF r
  <2>4. /\ Evolves
        /\ DOMAIN matches' = DOMAIN matches
        /\ \A k \in DOMAIN matches : matches'[k] = IF k = m THEN r ELSE matches[k]
    BY <1>1, <2>1, <2>2, <2>3, OneMatch
  <2>. QED
    BY <1>1, <2>2, <2>4
<1>2. CASE m \notin DOMAIN matches
  <2>1. matches' = matches
    <3>1. matches \in [1 .. Len(matches) -> Matches] /\ DOMAIN matches = 1 .. Len(matches)
      BY LenProperties DEF SessionsTypeOK
    <3>. QED
      BY <1>2, <3>1 DEF setPlayerConnected
  <2>. QED
    BY <1>2, <2>1, SameMatches
<1>. QED
  BY <1>1, <1>2

\* The matchmaker gives a lobby that exists from then on.  One that it has created is
\* empty, and no lobby of its region could be joined but those excluded.
LEMMA LobbyGiven ==
    ASSUME SessionsTypeOK, NEW req \in Requests, NEW excluded, NEW m \in 1 .. MaxMatches,
           FindOrCreateLobby(req, excluded, m)
    PROVE  /\ Evolves
           /\ m \in DOMAIN matches'
           /\ \/ UNCHANGED matches
              \/ /\ Len(matches') = Len(matches) + 1
                 /\ \A k \in DOMAIN matches : matches'[k] = matches[k]
                 /\ \A k \in DOMAIN matches \ excluded :
                       Joinable(k) => matches[k].region # matches'[Len(matches) + 1].region
<1>1. /\ Len(matches) \in Nat /\ DOMAIN matches = 1 .. Len(matches) /\ Len(matches) <= MaxMatches
      /\ \A k \in DOMAIN matches : matches[k] \in Matches /\ IsFiniteSet(matches[k].players)
  BY MatchesDomain DEF SessionsTypeOK
<1>2. CASE Candidates(req, excluded) # {}
  <2>1. m \in DOMAIN matches /\ UNCHANGED matches
    BY <1>2 DEF FindOrCreateLobby, Candidates
  <2>. QED
    BY <2>1, SameMatches
<1>3. CASE Candidates(req, excluded) = {}
  <2>1. PICK region \in CreationRegions(req) : matches' = Append(matches, NewMatch(region))
    BY <1>3 DEF FindOrCreateLobby
  <2>2. m = Len(matches) + 1
    BY <1>3 DEF FindOrCreateLobby
  <2>3. NewMatch(region) \in Matches
    <3>1. region \in Regions
      BY DEF CreationRegions, Regions
    <3>. QED
      BY <3>1 DEF NewMatch, Matches
  <2>4. /\ matches' \in Seq(Matches) /\ Len(matches') = Len(matches) + 1
        /\ \A k \in 1 .. Len(matches) : matches'[k] = matches[k]
        /\ matches'[Len(matches) + 1] = NewMatch(region)
    BY <2>1, <2>3, AppendProperties DEF SessionsTypeOK
  <2>5. DOMAIN matches' = 1 .. Len(matches) + 1
    BY <2>4, LenProperties
  <2>6. NewMatch(region).players = {} /\ NewMatch(region).region = region
    BY DEF NewMatch
  <2>7. Evolves
    <3>1. \A k \in DOMAIN matches' : k \in DOMAIN matches \/ k = Len(matches) + 1
      BY <1>1, <2>5
    <3>2. \A k \in DOMAIN matches : k \in DOMAIN matches' /\ matches'[k] = matches[k]
      BY <1>1, <2>4, <2>5
    <3>3. matches'[Len(matches) + 1].players = {} /\ IsFiniteSet({})
      BY <2>4, <2>6, FS_EmptySet
    <3>4. Len(matches) <= Len(matches') /\ Len(matches') <= MaxMatches
      BY <1>1, <2>2, <2>4
    <3>5. \A k \in DOMAIN matches' : IsFiniteSet(matches'[k].players)
      BY <1>1, <3>1, <3>2, <3>3
    <3>. QED
      BY <2>4, <3>1, <3>2, <3>3, <3>4, <3>5 DEF Evolves
  <2>8. ASSUME NEW k \in DOMAIN matches \ excluded, Joinable(k)
        PROVE  matches[k].region # region
    <3>1. req.preferred # "" /\ matches[k].region # req.preferred
      BY <1>3, <2>8 DEF Candidates
    <3>2. CreationRegions(req) = {req.preferred}
      BY <3>1, Zenon DEF CreationRegions
    <3>3. region = req.preferred
      BY <3>2
    <3>. QED
      BY <3>1, <3>3
  <2>. QED
    BY <1>1, <2>2, <2>4, <2>5, <2>6, <2>7, <2>8
<1>. QED
  BY <1>2, <1>3

\* A lobby that could not be joined cannot be joined later.
LEMMA ClosedStaysClosed ==
    ASSUME SessionsTypeOK, Evolves, NEW m \in DOMAIN matches, Joinable(m)'
    PROVE  Joinable(m)
<1>1. IsFiniteSet(matches'[m].players) /\ matches[m].players \subseteq matches'[m].players
  BY DEF Evolves
<1>2. /\ Cardinality(matches[m].players) <= Cardinality(matches'[m].players)
      /\ Cardinality(matches[m].players) \in Nat /\ Cardinality(matches'[m].players) \in Nat
  BY <1>1, FS_Subset, FS_CardinalityType
<1>. QED
  BY <1>2 DEF Joinable, Evolves

-----------------------------------------------------------------------------
(* What a step does to a read pump *)

LEMMA PumpSet ==
    ASSUME SessionsTypeOK, NEW c \in Conns, NEW u \in Pumps, pump' = [pump EXCEPT ![c] = u]
    PROVE  /\ pump' \in [Conns -> Pumps]
           /\ pump'[c] = u
           /\ \A d \in Conns : d # c => pump'[d] = pump[d]
BY DEF SessionsTypeOK

LEMMA ToDoes ==
    ASSUME SessionsTypeOK, NEW c \in Conns,
           NEW pc \in {"join", "resume", "fallback", "bind", "drain", "start"}, To(c, pc)
    PROVE  /\ pump' \in [Conns -> Pumps]
           /\ pump'[c] = [pump[c] EXCEPT !.pc = pc]
           /\ pump'[c].pc = pc /\ pump'[c].player = pump[c].player
           /\ pump'[c].match = pump[c].match /\ pump'[c].request = pump[c].request
           /\ pump'[c].stale = pump[c].stale
           /\ \A d \in Conns : d # c => pump'[d] = pump[d]
<1> DEFINE u == [pump[c] EXCEPT !.pc = pc]
<1>1. pump[c] \in Pumps
  BY DEF SessionsTypeOK
<1>2. /\ u \in Pumps /\ u.pc = pc /\ u.player = pump[c].player
      /\ u.match = pump[c].match /\ u.request = pump[c].request /\ u.stale = pump[c].stale
  BY <1>1 DEF Pumps
<1>3. pump' = [pump EXCEPT ![c] = u]
  BY DEF To
<1> HIDE DEF u
<1>4. pump' \in [Conns -> Pumps] /\ pump'[c] = u /\ \A d \in Conns : d # c => pump'[d] = pump[d]
  BY <1>2, <1>3, PumpSet
<1>. QED
  BY <1>2, <1>4 DEF u

LEMMA IdleTyped ==
    /\ Idle \in Pumps
    /\ Idle.pc = "idle" /\ Idle.player = None /\ Idle.match = 0 /\ Idle.stale = None
BY DEF Idle, Pumps

LEMMA ReturnDoes ==
    ASSUME SessionsTypeOK, NEW c \in Conns, Return(c)
    PROVE  /\ pump' \in [Conns -> Pumps]
           /\ pump'[c].pc = "idle" /\ pump'[c].player = None
           /\ \A d \in Conns : d # c => pump'[d] = pump[d]
BY IdleTyped, PumpSet DEF Return

LEMMA RefusedDoes ==
    ASSUME SessionsTypeOK, NEW c \in Conns, Refused(c)
    PROVE  \/ Return(c)
           \/ To(c, "fallback") /\ pump[c].request.match = 0
BY DEF Refused

LEMMA JoinBegins ==
    ASSUME SessionsTypeOK, NEW c \in Conns, NEW p \in Players, NEW m \in 0 .. MaxMatches,
           NEW req \in Requests,
           pump' = [pump EXCEPT ![c] = [Idle EXCEPT !.pc = "join", !.player = p,
                                                    !.match = m, !.request = req]]
    PROVE  /\ pump' \in [Conns -> Pumps]
           /\ pump'[c].pc = "join" /\ pump'[c].player = p
           /\ pump'[c].match = m /\ pump'[c].request = req
           /\ \A d \in Conns : d # c => pump'[d] = pump[d]
<1> DEFINE u == [Idle EXCEPT !.pc = "join", !.player = p, !.match = m, !.request = req]
<1>1. u \in Pumps /\ u.pc = "join" /\ u.player = p /\ u.match = m /\ u.request = req
  BY DEF Idle, Pumps
<1>2. pump' = [pump EXCEPT ![c] = u]
  OBVIOUS
<1> HIDE DEF u
<1>. QED
  BY <1>1, <1>2, PumpSet

LEMMA JoinGoesOn ==
    ASSUME SessionsTypeOK, NEW c \in Conns, NEW m \in 0 .. MaxMatches,
           pump' = [pump EXCEPT ![c] = [@ EXCEPT !.pc = "join", !.match = m, !.tried = TRUE]]
    PROVE  /\ pump' \in [Conns -> Pumps]
           /\ pump'[c].pc = "join" /\ pump'[c].player = pump[c].player
           /\ pump'[c].match = m /\ pump'[c].request = pump[c].request
           /\ \A d \in Conns : d # c => pump'[d] = pump[d]
<1> DEFINE u == [pump[c] EXCEPT !.pc = "join", !.match = m, !.tried = TRUE]
<1>1. pump[c] \in Pumps
  BY DEF SessionsTypeOK
<1>2. /\ u \in Pumps /\ u.pc = "join" /\ u.match = m
      /\ u.player = pump[c].player /\ u.request = pump[c].request
  BY <1>1 DEF Pumps
<1>3. pump' = [pump EXCEPT ![c] = u]
  OBVIOUS
<1> HIDE DEF u
<1>. QED
  BY <1>2, <1>3, PumpSet

LEMMA SpectatorBegins ==
    ASSUME SessionsTypeOK, NEW c \in Conns, NEW m \in 0 .. MaxMatches,
           pump' = [pump EXCEPT ![c] = [Idle EXCEPT !.pc = "bind", !.match = m]]
    PROVE  /\ pump' \in [Conns -> Pumps]
           /\ pump'[c].pc = "bind" /\ pump'[c].player = None /\ pump'[c].match = m
           /\ \A d \in Conns : d # c => pump'[d] = pump[d]
<1> DEFINE u == [Idle EXCEPT !.pc = "bind", !.match = m]
<1>1. u \in Pumps /\ u.pc = "bind" /\ u.player = None /\ u.match = m
  BY DEF Idle, Pumps
<1>2. pump' = [pump EXCEPT ![c] = u]
  OBVIOUS
<1> HIDE DEF u
<1>. QED
  BY <1>1, <1>2, PumpSet

\* A join that has been bound, and the connection it has to close.
LEMMA BoundDoes ==
    ASSUME SessionsTypeOK, NEW c \in Conns, bindConnection(c), conns[c].state = "open",
           pump[c].player # None
    PROVE  /\ pump' \in [Conns -> Pumps]
           /\ pump'[c].pc = "mark" /\ pump'[c].player = pump[c].player
           /\ pump'[c].match = pump[c].match
           /\ \A d \in Conns : d # c => pump'[d] = pump[d]
<1> DEFINE stale == IF PreviousOf(c) = {} THEN None ELSE CHOOSE d \in PreviousOf(c) : TRUE
           u == [pump[c] EXCEPT !.pc = "mark", !.stale = stale]
<1>1. pump[c] \in Pumps
  BY DEF SessionsTypeOK
<1>2. stale \in Conns \cup {None}
  <2>1. PreviousOf(c) \subseteq Conns
    <3>1. pump[c].player \in Players
      BY <1>1 DEF Pumps
    <3>2. playerToConnection[pump[c].player] \in Conns \cup {None}
      BY <3>1 DEF SessionsTypeOK
    <3>. QED
      BY <3>2 DEF PreviousOf
  <2>2. PreviousOf(c) # {} => (CHOOSE d \in PreviousOf(c) : TRUE) \in PreviousOf(c)
    BY Zenon
  <2>. QED
    BY <2>1, <2>2
<1>3. pump' = [pump EXCEPT ![c] = u]
  BY DEF bindConnection
<1> HIDE DEF stale
<1>4. u \in Pumps /\ u.pc = "mark" /\ u.player = pump[c].player /\ u.match = pump[c].match
  BY <1>1, <1>2 DEF Pumps
<1> HIDE DEF u
<1>. QED
  BY <1>3, <1>4, PumpSet

LEMMA StaleDropped ==
    ASSUME SessionsTypeOK, NEW c \in Conns, pump' = [pump EXCEPT ![c].stale = None]
    PROVE  /\ pump' \in [Conns -> Pumps]
           /\ \A d \in Conns : /\ pump'[d].pc = pump[d].pc /\ pump'[d].player = pump[d].player
                                /\ pump'[d].match = pump[d].match
                                /\ pump'[d].request = pump[d].request
<1> DEFINE u == [pump[c] EXCEPT !.stale = None]
<1>1. pump[c] \in Pumps
  BY DEF SessionsTypeOK
<1>2. /\ u \in Pumps /\ u.pc = pump[c].pc /\ u.player = pump[c].player
      /\ u.match = pump[c].match /\ u.request = pump[c].request
  BY <1>1 DEF Pumps
<1>3. pump' = [pump EXCEPT ![c] = u]
  OBVIOUS
<1> HIDE DEF u
<1>. QED
  BY <1>2, <1>3, PumpSet

-----------------------------------------------------------------------------
(* What the actions that change a match do *)

\* A join lets the player in, goes on as a resume, or is refused.
LEMMA JoinDoes ==
    ASSUME SessionsTypeOK, HandlerInv, NEW c \in Conns, JoinMatch(c)
    PROVE  LET p == pump[c].player
               m == pump[c].match
           IN /\ Evolves
              /\ p \in Players
              /\ \/ /\ playerToMatch[p] # 0
                    /\ To(c, "resume") /\ UNCHANGED manager
                 \/ /\ playerToMatch[p] = 0 /\ m \in DOMAIN matches
                    /\ DOMAIN matches' = DOMAIN matches
                    /\ \A k \in DOMAIN matches :
                          /\ matches'[k].status = matches[k].status
                          /\ matches'[k].players =
                                IF k = m THEN matches[k].players \cup {p} ELSE matches[k].players
                          /\ matches'[k].connected =
                                IF k = m THEN matches[k].connected \cup {p} ELSE matches[k].connected
                    /\ playerToMatch' = [playerToMatch EXCEPT ![p] = m]
                    /\ To(c, "bind")
                 \/ /\ playerToMatch[p] = 0
                    /\ m \in DOMAIN matches => ~Joinable(m)
                    /\ Refused(c) /\ UNCHANGED manager
<1> DEFINE p == pump[c].player
           m == pump[c].match
<1>1. pump[c].pc = "join" /\ p \in Players
  BY DEF JoinMatch, HandlerInv, HandlerOf
<1>2. CASE playerToMatch[p] # 0
  <2>1. To(c, "resume") /\ UNCHANGED manager
    BY <1>2, Zenon DEF JoinMatch
  <2>2. Evolves
    BY <2>1, SameMatches DEF manager
  <2>. QED
    BY <1>1, <1>2, <2>1, <2>2
<1>3. CASE playerToMatch[p] = 0 /\ Exists(m) /\ matches[m].status = "lobby" /\ HasRoom(m)
  <2> DEFINE r == [matches[m] EXCEPT !.players = @ \cup {p}, !.connected = @ \cup {p}]
  <2>1. /\ matches' = [matches EXCEPT ![m].players = @ \cup {p}, ![m].connected = @ \cup {p}]
        /\ playerToMatch' = [playerToMatch EXCEPT ![p] = m] /\ To(c, "bind")
    BY <1>3 DEF JoinMatch
  <2>2. m \in DOMAIN matches /\ matches[m] \in Matches /\ IsFiniteSet(matches[m].players)
    BY <1>3, MatchesDomain DEF Exists, SessionsTypeOK
  <2>3. /\ r \in Matches /\ r.region = matches[m].region /\ r.status = matches[m].status
        /\ r.players = matches[m].players \cup {p}
        /\ r.connected = matches[m].connected \cup {p}
    BY <1>1, <2>2 DEF Matches
  <2>4. matches' = [matches EXCEPT ![m] = r]
    BY <2>1, <2>2
  <2>5. IsFiniteSet(r.players)
    BY <2>2, <2>3, FS_AddElement, SMTT(30)
  <2> HIDE DEF r, m, p
  <2>6. /\ Evolves
        /\ DOMAIN matches' = DOMAIN matches
        /\ \A k \in DOMAIN matches : matches'[k] = IF k = m THEN r ELSE matches[k]
    BY <2>2, <2>3, <2>4, <2>5, OneMatch
  <2>7. \A k \in DOMAIN matches :
            /\ matches'[k].status = matches[k].status
            /\ matches'[k].players =
                  IF k = m THEN matches[k].players \cup {p} ELSE matches[k].players
            /\ matches'[k].connected =
                  IF k = m THEN matches[k].connected \cup {p} ELSE matches[k].connected
    BY <2>3, <2>6
  <2>. QED
    BY <1>1, <1>3, <2>1, <2>2, <2>6, <2>7, Zenon DEF p, m
<1>4. CASE playerToMatch[p] = 0 /\ ~(Exists(m) /\ matches[m].status = "lobby" /\ HasRoom(m))
  <2>1. Refused(c) /\ UNCHANGED manager
    BY <1>4, Zenon DEF JoinMatch
  <2>2. Evolves
    BY <2>1, SameMatches DEF manager
  <2>3. m \in DOMAIN matches => ~Joinable(m)
    BY <1>4 DEF Exists, HasRoom, Joinable
  <2>. QED
    BY <1>1, <1>4, <2>1, <2>2, <2>3
<1>. QED
  BY <1>2, <1>3, <1>4

\* A resume sets the flag of a player who is in the match, or is refused.
LEMMA ResumeDoes ==
    ASSUME SessionsTypeOK, HandlerInv, NEW c \in Conns, ResumePlayer(c)
    PROVE  LET p == pump[c].player
               m == pump[c].match
           IN /\ Evolves
              /\ p \in Players
              /\ \/ /\ m \in DOMAIN matches => ~Joinable(m)
                    /\ Refused(c) /\ UNCHANGED manager
                 \/ /\ LiveIn(p, m) /\ playerToMatch[p] \in {0, m}
                    /\ playerToMatch' = [playerToMatch EXCEPT ![p] = m]
                    /\ setPlayerConnected(m, p, TRUE)
                    /\ To(c, "bind")
                 \/ Return(c) /\ UNCHANGED manager
<1> DEFINE p == pump[c].player
           m == pump[c].match
<1>1. pump[c].pc = "resume" /\ p \in Players
  BY DEF ResumePlayer, HandlerInv, HandlerOf
<1>2. CASE ~Exists(m) \/ matches[m].status = "game_over"
  <2>1. Refused(c) /\ UNCHANGED manager
    BY <1>2, Zenon DEF ResumePlayer
  <2>2. Evolves
    BY <2>1, SameMatches DEF manager
  <2>3. m \in DOMAIN matches => ~Joinable(m)
    BY <1>2 DEF Exists, Joinable
  <2>. QED
    BY <1>1, <2>1, <2>2, <2>3
<1>3. CASE /\ Exists(m) /\ matches[m].status # "game_over"
           /\ playerToMatch[p] \in {0, m} /\ p \in matches[m].players
  <2>1. /\ playerToMatch' = [playerToMatch EXCEPT ![p] = m]
        /\ setPlayerConnected(m, p, TRUE) /\ To(c, "bind")
    BY <1>3, Zenon DEF ResumePlayer
  <2>2. Evolves
    BY <1>1, <2>1, FlagSet
  <2>. QED
    BY <1>1, <1>3, <2>1, <2>2 DEF LiveIn
<1>4. CASE /\ Exists(m) /\ matches[m].status # "game_over"
           /\ ~(playerToMatch[p] \in {0, m} /\ p \in matches[m].players)
  <2>1. Return(c) /\ UNCHANGED manager
    BY <1>4, Zenon DEF ResumePlayer
  <2>2. Evolves
    BY <2>1, SameMatches DEF manager
  <2>. QED
    BY <1>1, <2>1, <2>2
<1>. QED
  BY <1>2, <1>3, <1>4

\* A match changes its status and nothing else.
LEMMA StatusSet ==
    ASSUME SessionsTypeOK, NEW m \in DOMAIN matches, NEW s \in {"running", "game_over"},
           matches' = [matches EXCEPT ![m].status = s]
    PROVE  /\ Evolves
           /\ DOMAIN matches' = DOMAIN matches
           /\ \A k \in DOMAIN matches :
                 /\ matches'[k].status = IF k = m THEN s ELSE matches[k].status
                 /\ matches'[k].players = matches[k].players
                 /\ matches'[k].connected = matches[k].connected
<1> DEFINE r == [matches[m] EXCEPT !.status = s]
<1>1. matches[m] \in Matches /\ IsFiniteSet(matches[m].players)
  BY MatchesDomain DEF SessionsTypeOK
<1>2. /\ r \in Matches /\ r.region = matches[m].region /\ r.status = s
      /\ r.players = matches[m].players /\ r.connected = matches[m].connected
  BY <1>1 DEF Matches
<1>3. matches' = [matches EXCEPT ![m] = r]
  OBVIOUS
<1> HIDE DEF r
<1>4. /\ Evolves
      /\ DOMAIN matches' = DOMAIN matches
      /\ \A k \in DOMAIN matches : matches'[k] = IF k = m THEN r ELSE matches[k]
  BY <1>1, <1>2, <1>3, OneMatch
<1>. QED
  BY <1>2, <1>4

\* The handler that starts a match.
LEMMA StartDoes ==
    ASSUME SessionsTypeOK, HandlerInv, NEW c \in Conns, maybeAutoStartMatch(c)
    PROVE  /\ Evolves
           /\ DOMAIN matches' = DOMAIN matches
           /\ \A k \in DOMAIN matches :
                 /\ matches'[k].status = "game_over" <=> matches[k].status = "game_over"
                 /\ matches'[k].players = matches[k].players
                 /\ matches'[k].connected = matches[k].connected
<1> DEFINE m == pump[c].match
<1>1. m \in DOMAIN matches
  BY DEF maybeAutoStartMatch, HandlerInv, HandlerOf, Exists
<1>2. CASE matches[m].status = "lobby" /\ matches' = [matches EXCEPT ![m].status = "running"]
  <2>1. /\ Evolves
        /\ DOMAIN matches' = DOMAIN matches
        /\ \A k \in DOMAIN matches :
              /\ matches'[k].status = IF k = m THEN "running" ELSE matches[k].status
              /\ matches'[k].players = matches[k].players
              /\ matches'[k].connected = matches[k].connected
    BY <1>1, <1>2, StatusSet
  <2>. QED
    BY <1>2, <2>1
<1>3. CASE UNCHANGED matches
  BY <1>3, SameMatches
<1>. QED
  BY <1>2, <1>3 DEF maybeAutoStartMatch

\* A join begins with the match it names, the player's own, or one it is given.
LEMMA QuickPlayDoes ==
    ASSUME SessionsTypeOK, HandlerInv, NEW c \in Conns, NEW p \in Players, NEW req \in Requests,
           handleJoinGame(c, p, req)
    PROVE  /\ Evolves
           /\ UNCHANGED matches \/ \E m \in 1 .. MaxMatches : FindOrCreateLobby(req, {}, m)
           /\ pump' \in [Conns -> Pumps]
           /\ pump'[c].pc = "join" /\ pump'[c].player = p /\ pump'[c].request = req
           /\ req.match = 0 => pump'[c].match \in DOMAIN matches'
           /\ \A d \in Conns : d # c => pump'[d] = pump[d]
<1>1. PICK m \in 1 .. MaxMatches :
          /\ CASE req.match # 0 -> m = req.match /\ UNCHANGED matches
               [] req.match = 0 /\ playerToMatch[p] # 0 -> m = playerToMatch[p] /\ UNCHANGED matches
               [] OTHER -> FindOrCreateLobby(req, {}, m)
          /\ pump' = [pump EXCEPT ![c] = [Idle EXCEPT !.pc = "join", !.player = p,
                                                      !.match = m, !.request = req]]
  BY DEF handleJoinGame
<1>2. m \in 0 .. MaxMatches
  OBVIOUS
<1>3. /\ pump' \in [Conns -> Pumps]
      /\ pump'[c].pc = "join" /\ pump'[c].player = p
      /\ pump'[c].match = m /\ pump'[c].request = req
      /\ \A d \in Conns : d # c => pump'[d] = pump[d]
  BY <1>1, <1>2, JoinBegins
<1>4. CASE req.match # 0
  BY <1>1, <1>3, <1>4, SameMatches
<1>5. CASE req.match = 0 /\ playerToMatch[p] # 0
  <2>1. m = playerToMatch[p] /\ UNCHANGED matches
    BY <1>1, <1>5, Zenon
  <2>2. m \in DOMAIN matches'
    BY <1>5, <2>1 DEF HandlerInv, Exists
  <2>. QED
    BY <1>3, <2>1, <2>2, SameMatches
<1>6. CASE req.match = 0 /\ playerToMatch[p] = 0
  <2>1. FindOrCreateLobby(req, {}, m)
    BY <1>1, <1>6, Zenon
  <2>2. Evolves /\ m \in DOMAIN matches'
    BY <2>1, LobbyGiven
  <2>. QED
    BY <1>3, <2>1, <2>2
<1>. QED
  BY <1>4, <1>5, <1>6

LEMMA FallbackDoes ==
    ASSUME SessionsTypeOK, HandlerInv, NEW c \in Conns, FallbackLobby(c)
    PROVE  /\ Evolves
           /\ pump[c].request \in Requests
           /\ \E m \in 1 .. MaxMatches : FindOrCreateLobby(pump[c].request, {pump[c].match}, m)
           /\ pump' \in [Conns -> Pumps]
           /\ pump'[c].pc = "join" /\ pump'[c].player = pump[c].player
           /\ pump'[c].request = pump[c].request /\ pump'[c].match \in DOMAIN matches'
           /\ \A d \in Conns : d # c => pump'[d] = pump[d]
<1>1. PICK m \in 1 .. MaxMatches :
          /\ FindOrCreateLobby(pump[c].request, {pump[c].match}, m)
          /\ pump' = [pump EXCEPT ![c] = [@ EXCEPT !.pc = "join", !.match = m, !.tried = TRUE]]
  BY DEF FallbackLobby
<1>2. pump[c].request \in Requests /\ m \in 0 .. MaxMatches
  BY DEF FallbackLobby, HandlerInv, HandlerOf
<1>3. Evolves /\ m \in DOMAIN matches'
  BY <1>1, <1>2, LobbyGiven
<1>4. /\ pump' \in [Conns -> Pumps]
      /\ pump'[c].pc = "join" /\ pump'[c].player = pump[c].player
      /\ pump'[c].match = m /\ pump'[c].request = pump[c].request
      /\ \A d \in Conns : d # c => pump'[d] = pump[d]
  BY <1>1, <1>2, JoinGoesOn
<1>. QED
  BY <1>1, <1>2, <1>3, <1>4

LEMMA ReportDoes ==
    ASSUME SessionsTypeOK, NEW r \in reports, ReportDisconnected(r)
    PROVE  r.player \in Players /\ r.match \in 0 .. MaxMatches /\ r.conn \in Conns
           /\ setPlayerConnected(r.match, r.player, FALSE)
BY DEF SessionsTypeOK, ReportDisconnected

LEMMA GameOverDoes ==
    ASSUME SessionsTypeOK, NEW m, GameOver(m)
    PROVE  /\ m \in DOMAIN matches
           /\ Evolves
           /\ DOMAIN matches' = DOMAIN matches
           /\ \A k \in DOMAIN matches :
                 /\ matches'[k].status = IF k = m THEN "game_over" ELSE matches[k].status
                 /\ matches'[k].players = matches[k].players
                 /\ matches'[k].connected = matches[k].connected
<1>1. m \in DOMAIN matches /\ matches' = [matches EXCEPT ![m].status = "game_over"]
  BY DEF GameOver, Exists
<1>. QED
  BY <1>1, StatusSet

\* Every step lets the matches evolve.
LEMMA StepEvolves ==
    ASSUME SessionsTypeOK, HandlerInv, [Next]_vars
    PROVE  Evolves
<1>1. ASSUME NEW c \in Conns, NEW p \in Players, NEW req \in Requests, handleJoinGame(c, p, req)
      PROVE  Evolves
  BY <1>1, QuickPlayDoes
<1>2. ASSUME NEW c \in Conns, JoinMatch(c)
      PROVE  Evolves
  BY <1>2, JoinDoes
<1>3. ASSUME NEW c \in Conns, ResumePlayer(c)
      PROVE  Evolves
  BY <1>3, ResumeDoes
<1>4. ASSUME NEW c \in Conns, FallbackLobby(c)
      PROVE  Evolves
  BY <1>4, FallbackDoes
<1>5. ASSUME NEW c \in Conns, maybeAutoStartMatch(c)
      PROVE  Evolves
  BY <1>5, StartDoes
<1>6. ASSUME NEW c \in Conns, MarkConnected(c)
      PROVE  Evolves
  <2>1. pump[c].player \in Players /\ setPlayerConnected(pump[c].match, pump[c].player, TRUE)
    BY <1>6 DEF MarkConnected, HandlerInv, HandlerOf
  <2>. QED
    BY <2>1, FlagSet
<1>7. ASSUME NEW r \in reports, ReportDisconnected(r)
      PROVE  Evolves
  BY <1>7, ReportDoes, FlagSet
<1>8. ASSUME NEW m, GameOver(m)
      PROVE  Evolves
  BY <1>8, GameOverDoes
<1>9. ASSUME NEW c \in Conns, NEW m, \/ registerConnection(c) \/ handleJoinGameAsSpectator(c, m)
                                   \/ bindConnection(c) \/ CloseStale(c) \/ CloseConnection(c)
      PROVE  Evolves
  <2>1. UNCHANGED matches
    BY <1>9 DEF registerConnection, handleJoinGameAsSpectator, bindConnection, CloseStale,
                CloseConnection, manager
  <2>. QED
    BY <2>1, SameMatches
<1>10. CASE UNCHANGED vars
  BY <1>10, SameMatches DEF vars, manager
<1>. QED
  BY <1>1, <1>2, <1>3, <1>4, <1>5, <1>6, <1>7, <1>8, <1>9, <1>10, SessionsCases

-----------------------------------------------------------------------------
(* Types *)

LEMMA ConnTyped ==
    ASSUME SessionsTypeOK, NEW c \in Conns
    PROVE  /\ conns[c] \in Connections /\ conns[c].player \in Players \cup {None}
           /\ conns[c].match \in 0 .. MaxMatches
           /\ pump[c] \in Pumps /\ pump[c].player \in Players \cup {None}
           /\ pump[c].match \in 0 .. MaxMatches /\ pump[c].stale \in Conns \cup {None}
           /\ pump[c].pc \in {"idle", "join", "resume", "fallback", "bind", "mark", "drain", "start"}
<1>1. conns[c] \in Connections /\ pump[c] \in Pumps
  BY DEF SessionsTypeOK
<1>. QED
  BY <1>1 DEF Connections, Pumps

LEMMA PumpStep ==
    ASSUME SessionsTypeOK, HandlerInv, [Next]_vars
    PROVE  pump' \in [Conns -> Pumps]
<1>1. ASSUME NEW c \in Conns, NEW p \in Players, NEW req \in Requests, handleJoinGame(c, p, req)
      PROVE  pump' \in [Conns -> Pumps]
  BY <1>1, QuickPlayDoes
<1>2. ASSUME NEW c \in Conns, NEW m \in 1 .. MaxMatches, handleJoinGameAsSpectator(c, m)
      PROVE  pump' \in [Conns -> Pumps]
  <2>1. m \in 0 .. MaxMatches
    OBVIOUS
  <2>. QED
    BY <1>2, <2>1, SpectatorBegins DEF handleJoinGameAsSpectator
<1>3. ASSUME NEW c \in Conns, JoinMatch(c)
      PROVE  pump' \in [Conns -> Pumps]
  BY <1>3, JoinDoes, RefusedDoes, ToDoes, ReturnDoes
<1>4. ASSUME NEW c \in Conns, ResumePlayer(c)
      PROVE  pump' \in [Conns -> Pumps]
  BY <1>4, ResumeDoes, RefusedDoes, ToDoes, ReturnDoes
<1>5. ASSUME NEW c \in Conns, FallbackLobby(c)
      PROVE  pump' \in [Conns -> Pumps]
  BY <1>5, FallbackDoes
<1>6. ASSUME NEW c \in Conns, bindConnection(c)
      PROVE  pump' \in [Conns -> Pumps]
  <2>1. CASE conns[c].state # "open" \/ pump[c].player = None
    BY <1>6, <2>1, ToDoes, ReturnDoes DEF bindConnection
  <2>2. CASE conns[c].state = "open" /\ pump[c].player # None
    BY <1>6, <2>2, BoundDoes
  <2>. QED
    BY <2>1, <2>2
<1>7. ASSUME NEW c \in Conns, CloseStale(c)
      PROVE  pump' \in [Conns -> Pumps]
  BY <1>7, ToDoes, StaleDropped DEF CloseStale
<1>8. ASSUME NEW c \in Conns, MarkConnected(c)
      PROVE  pump' \in [Conns -> Pumps]
  BY <1>8, ToDoes DEF MarkConnected
<1>9. ASSUME NEW c \in Conns, maybeAutoStartMatch(c)
      PROVE  pump' \in [Conns -> Pumps]
  BY <1>9, ReturnDoes DEF maybeAutoStartMatch
<1>10. CASE \/ \E c \in Conns : registerConnection(c) \/ CloseConnection(c)
            \/ \E r \in reports : ReportDisconnected(r)
            \/ \E m \in 1 .. MaxMatches : GameOver(m)
            \/ UNCHANGED vars
  <2>1. UNCHANGED pump
    BY <1>10 DEF registerConnection, CloseConnection, ReportDisconnected, GameOver, vars
  <2>. QED
    BY <2>1 DEF SessionsTypeOK
<1>. QED
  BY <1>1, <1>2, <1>3, <1>4, <1>5, <1>6, <1>7, <1>8, <1>9, <1>10, SessionsCases

\* A connection goes.
LEMMA UnregisterDoes ==
    ASSUME SessionsTypeOK, BindingsAgree, NEW c \in Conns, conns[c].state = "open",
           unregisterConnection(c)
    PROVE  /\ conns' \in [Conns -> Connections]
           /\ playerToConnection' \in [Players -> Conns \cup {None}]
           /\ matchToConnections' \in [1 .. MaxMatches -> SUBSET Conns]
           /\ reports' \subseteq [conn : Conns, player : Players, match : 0 .. MaxMatches]
           /\ BindingsAgree'
<1> DEFINE u == [conns[c] EXCEPT !.state = "closed"]
<1>1. conns[c] \in Connections /\ conns[c].player \in Players \cup {None} /\ conns[c].match \in 0 .. MaxMatches
  BY ConnTyped
<1>2. u \in Connections /\ u.state = "closed"
  BY <1>1 DEF Connections
<1>3. conns' = [conns EXCEPT ![c] = u]
  BY DEF unregisterConnection
<1> HIDE DEF u
<1>4. /\ conns' \in [Conns -> Connections] /\ conns'[c] = u
      /\ \A d \in Conns : d # c => conns'[d] = conns[d]
  BY <1>2, <1>3 DEF SessionsTypeOK
<1>5. playerToConnection' \in [Players -> Conns \cup {None}]
  BY DEF SessionsTypeOK, unregisterConnection
<1>6. matchToConnections' \in [1 .. MaxMatches -> SUBSET Conns]
  BY DEF SessionsTypeOK, unregisterConnection
<1>7. reports' \subseteq [conn : Conns, player : Players, match : 0 .. MaxMatches]
  BY <1>1 DEF SessionsTypeOK, unregisterConnection, ReportOf
<1>8. ASSUME NEW p \in Players, NEW d \in Conns
      PROVE  playerToConnection'[p] = d <=> conns'[d].state = "open" /\ conns'[d].player = p
  <2>1. playerToConnection'[p] = IF playerToConnection[p] = c THEN None ELSE playerToConnection[p]
    BY DEF unregisterConnection
  <2>2. playerToConnection[p] = d <=> conns[d].state = "open" /\ conns[d].player = p
    BY DEF BindingsAgree
  <2>. QED
    BY <1>2, <1>4, <2>1, <2>2
<1>9. ASSUME NEW m \in 1 .. MaxMatches
      PROVE  matchToConnections'[m] =
                {d \in Conns : conns'[d].state = "open" /\ conns'[d].match = m}
  <2>1. matchToConnections'[m] = matchToConnections[m] \ {c}
    BY DEF unregisterConnection
  <2>2. matchToConnections[m] = {d \in Conns : conns[d].state = "open" /\ conns[d].match = m}
    BY DEF BindingsAgree
  <2>. QED
    BY <1>2, <1>4, <2>1, <2>2
<1>. QED
  BY <1>4, <1>5, <1>6, <1>7, <1>8, <1>9 DEF BindingsAgree

\* A connection is bound.
LEMMA BindDoes ==
    ASSUME SessionsTypeOK, BindingsAgree, NEW c \in Conns, conns[c].state = "open",
           bindConnection(c)
    PROVE  /\ conns' \in [Conns -> Connections]
           /\ playerToConnection' \in [Players -> Conns \cup {None}]
           /\ matchToConnections' \in [1 .. MaxMatches -> SUBSET Conns]
           /\ BindingsAgree'
<1> DEFINE p == pump[c].player
           previous == PreviousOf(c)
<1>1. /\ p \in Players \cup {None} /\ pump[c].match \in 0 .. MaxMatches
      /\ \A d \in Conns : conns[d] \in Connections
  BY ConnTyped
<1>2. /\ conns' = Rebound(c)
      /\ playerToConnection' =
            [q \in Players |-> IF q = p THEN c
                               ELSE IF q = conns[c].player THEN None ELSE playerToConnection[q]]
      /\ matchToConnections' =
            [m \in 1 .. MaxMatches |->
                (matchToConnections[m] \ ({c} \cup previous))
                  \cup (IF m = pump[c].match THEN {c} ELSE {})]
  BY DEF bindConnection
<1>3. /\ previous \subseteq Conns \ {c}
      /\ \A d \in Conns : d \in previous <=> p # None /\ playerToConnection[p] = d /\ d # c
  <2>1. p # None => playerToConnection[p] \in Conns \cup {None}
    BY <1>1 DEF SessionsTypeOK
  <2>. QED
    BY <2>1 DEF PreviousOf
<1> DEFINE bound == [state |-> "open", player |-> pump[c].player, match |-> pump[c].match]
<1>4. /\ bound \in Connections /\ bound.state = "open" /\ bound.player = p
      /\ bound.match = pump[c].match
  BY <1>1 DEF Connections
<1>5. /\ Unbound \in Connections /\ Unbound.player = None /\ Unbound.match = 0
  BY DEF Unbound, Connections
<1>6. \A d \in Conns : conns'[d] = CASE d = c -> bound
                                     [] d \in previous -> Unbound
                                     [] OTHER -> conns[d]
  BY <1>2 DEF Rebound
<1> HIDE DEF previous, bound, p
<1>7. /\ conns'[c] = bound
      /\ \A d \in previous : conns'[d] = Unbound
      /\ \A d \in Conns \ ({c} \cup previous) : conns'[d] = conns[d]
  BY <1>3, <1>6
<1>8. conns' \in [Conns -> Connections]
  <2>1. DOMAIN conns' = Conns /\ conns' = [d \in Conns |-> conns'[d]]
    BY <1>2 DEF Rebound
  <2>2. \A d \in Conns : conns'[d] \in Connections
    BY <1>1, <1>3, <1>4, <1>5, <1>7
  <2>. QED
    BY <2>1, <2>2
<1>9. playerToConnection' \in [Players -> Conns \cup {None}]
  BY <1>2 DEF SessionsTypeOK
<1>10. matchToConnections' \in [1 .. MaxMatches -> SUBSET Conns]
  BY <1>2 DEF SessionsTypeOK
<1>11. ASSUME NEW q \in Players, NEW d \in Conns
       PROVE  playerToConnection'[q] = d <=> conns'[d].state = "open" /\ conns'[d].player = q
  <2>1. playerToConnection'[q] = IF q = p THEN c
                                 ELSE IF q = conns[c].player THEN None ELSE playerToConnection[q]
    BY <1>2
  <2>2. \A r \in Players, e \in Conns :
            playerToConnection[r] = e <=> conns[e].state = "open" /\ conns[e].player = r
    BY DEF BindingsAgree
  <2>3. CASE d = c
    BY <1>4, <1>7, <2>1, <2>2, <2>3
  <2>4. CASE d \in previous
    BY <1>1, <1>3, <1>5, <1>7, <2>1, <2>2, <2>4
  <2>5. CASE d \notin previous /\ d # c
    BY <1>1, <1>3, <1>7, <2>1, <2>2, <2>5
  <2>. QED
    BY <2>3, <2>4, <2>5
<1>12. ASSUME NEW m \in 1 .. MaxMatches
       PROVE  matchToConnections'[m] =
                 {d \in Conns : conns'[d].state = "open" /\ conns'[d].match = m}
  <2>1. matchToConnections'[m] = (matchToConnections[m] \ ({c} \cup previous))
                                   \cup (IF m = pump[c].match THEN {c} ELSE {})
    BY <1>2
  <2>2. matchToConnections[m] = {d \in Conns : conns[d].state = "open" /\ conns[d].match = m}
    BY DEF BindingsAgree
  <2>3. ASSUME NEW d \in Conns
        PROVE  d \in matchToConnections'[m] <=> conns'[d].state = "open" /\ conns'[d].match = m
    <3>1. CASE d = c
      BY <1>4, <1>7, <2>1, <3>1
    <3>2. CASE d \in previous
      BY <1>3, <1>5, <1>7, <2>1, <3>2
    <3>3. CASE d # c /\ d \notin previous
      BY <1>7, <2>1, <2>2, <3>3
    <3>. QED
      BY <3>1, <3>2, <3>3
  <2>4. matchToConnections'[m] \subseteq Conns
    BY <1>10
  <2>. QED
    BY <2>3, <2>4
<1>. QED
  BY <1>8, <1>9, <1>10, <1>11, <1>12 DEF BindingsAgree

\* The server's own state: its types, and that the indexes follow the connections.
LEMMA ServerStep ==
    ASSUME SessionsTypeOK, BindingsAgree, [Next]_vars
    PROVE  /\ conns' \in [Conns -> Connections]
           /\ playerToConnection' \in [Players -> Conns \cup {None}]
           /\ matchToConnections' \in [1 .. MaxMatches -> SUBSET Conns]
           /\ reports' \subseteq [conn : Conns, player : Players, match : 0 .. MaxMatches]
           /\ BindingsAgree'
<1> DEFINE Goal == /\ conns' \in [Conns -> Connections]
                   /\ playerToConnection' \in [Players -> Conns \cup {None}]
                   /\ matchToConnections' \in [1 .. MaxMatches -> SUBSET Conns]
                   /\ reports' \subseteq [conn : Conns, player : Players, match : 0 .. MaxMatches]
                   /\ BindingsAgree'
<1>1. ASSUME UNCHANGED server, reports' \subseteq reports
      PROVE  Goal
  BY <1>1 DEF SessionsTypeOK, BindingsAgree, server
<1>2. ASSUME NEW c \in Conns, registerConnection(c)
      PROVE  Goal
  <2>1. /\ Unbound \in Connections /\ Unbound.player = None /\ Unbound.match = 0
    BY DEF Unbound, Connections
  <2>2. /\ conns' \in [Conns -> Connections] /\ conns'[c] = Unbound
        /\ \A d \in Conns : d # c => conns'[d] = conns[d]
    BY <1>2, <2>1 DEF registerConnection, SessionsTypeOK
  <2>3. /\ conns[c].state = "unused"
        /\ UNCHANGED <<playerToConnection, matchToConnections, reports>>
    BY <1>2 DEF registerConnection
  <2>4. ASSUME NEW p \in Players, NEW d \in Conns
        PROVE  playerToConnection'[p] = d <=> conns'[d].state = "open" /\ conns'[d].player = p
    BY <2>1, <2>2, <2>3 DEF BindingsAgree
  <2>5. ASSUME NEW m \in 1 .. MaxMatches
        PROVE  matchToConnections'[m] =
                  {d \in Conns : conns'[d].state = "open" /\ conns'[d].match = m}
    <3>1. matchToConnections[m] = {d \in Conns : conns[d].state = "open" /\ conns[d].match = m}
      BY DEF BindingsAgree
    <3>2. m # 0
      OBVIOUS
    <3>. QED
      BY <2>1, <2>2, <2>3, <3>1, <3>2
  <2>. QED
    BY <2>2, <2>3, <2>4, <2>5 DEF SessionsTypeOK, BindingsAgree
<1>3. ASSUME NEW c \in Conns, bindConnection(c)
      PROVE  Goal
  <2>1. UNCHANGED reports
    BY <1>3 DEF bindConnection
  <2>2. CASE conns[c].state # "open"
    BY <1>1, <1>3, <2>1, <2>2 DEF bindConnection
  <2>3. CASE conns[c].state = "open"
    BY <1>3, <2>1, <2>3, BindDoes DEF SessionsTypeOK
  <2>. QED
    BY <2>2, <2>3
<1>4. ASSUME NEW c \in Conns, CloseConnection(c)
      PROVE  Goal
  BY <1>4, UnregisterDoes DEF CloseConnection
<1>5. ASSUME NEW c \in Conns, CloseStale(c)
      PROVE  Goal
  <2>1. pump[c].stale \in Conns
    BY <1>5, ConnTyped DEF CloseStale
  <2>2. CASE conns[pump[c].stale].state = "open"
    BY <1>5, <2>1, <2>2, UnregisterDoes DEF CloseStale
  <2>3. CASE conns[pump[c].stale].state # "open"
    BY <1>1, <1>5, <2>3 DEF CloseStale
  <2>. QED
    BY <2>2, <2>3
<1>6. CASE \/ \E c \in Conns, p \in Players, req \in Requests : handleJoinGame(c, p, req)
           \/ \E c \in Conns, m \in 1 .. MaxMatches : handleJoinGameAsSpectator(c, m)
           \/ \E c \in Conns : \/ JoinMatch(c) \/ ResumePlayer(c) \/ FallbackLobby(c)
                               \/ MarkConnected(c) \/ maybeAutoStartMatch(c)
           \/ \E r \in reports : ReportDisconnected(r)
           \/ \E m \in 1 .. MaxMatches : GameOver(m)
           \/ UNCHANGED vars
  <2>1. UNCHANGED server /\ reports' \subseteq reports
    BY <1>6 DEF handleJoinGame, handleJoinGameAsSpectator, JoinMatch, ResumePlayer, FallbackLobby,
                MarkConnected, maybeAutoStartMatch, ReportDisconnected, GameOver, vars
  <2>. QED
    BY <1>1, <2>1, SMTT(30)
<1>. QED
  BY <1>2, <1>3, <1>4, <1>5, <1>6, SessionsCases

\* The remaining variables.
LEMMA CountersStep ==
    ASSUME SessionsTypeOK, HandlerInv, [Next]_vars
    PROVE  /\ playerToMatch' \in [Players -> 0 .. MaxMatches]
           /\ joins' \in Nat
           /\ disturbed' \subseteq Players /\ disturbed \subseteq disturbed'
<1>1. playerToMatch' \in [Players -> 0 .. MaxMatches]
  <2>1. ASSUME NEW c \in Conns, JoinMatch(c) \/ ResumePlayer(c)
        PROVE  playerToMatch' \in [Players -> 0 .. MaxMatches]
    <3>1. \/ UNCHANGED manager
          \/ playerToMatch' = [playerToMatch EXCEPT ![pump[c].player] = pump[c].match]
      BY <2>1, JoinDoes, ResumeDoes
    <3>2. pump[c].match \in 0 .. MaxMatches
      BY ConnTyped
    <3>. QED
      BY <3>1, <3>2 DEF SessionsTypeOK, manager
  <2>2. ASSUME NEW m, GameOver(m)
        PROVE  playerToMatch' \in [Players -> 0 .. MaxMatches]
    BY <2>2 DEF GameOver, SessionsTypeOK
  <2>3. CASE UNCHANGED playerToMatch
    BY <2>3 DEF SessionsTypeOK
  <2>4. CASE \/ \E c \in Conns : \/ registerConnection(c) \/ FallbackLobby(c) \/ bindConnection(c)
                                 \/ CloseStale(c) \/ MarkConnected(c) \/ maybeAutoStartMatch(c)
                                 \/ CloseConnection(c)
             \/ \E c \in Conns, p \in Players, req \in Requests : handleJoinGame(c, p, req)
             \/ \E c \in Conns, m \in 1 .. MaxMatches : handleJoinGameAsSpectator(c, m)
             \/ \E r \in reports : ReportDisconnected(r)
             \/ UNCHANGED vars
    <3>1. UNCHANGED playerToMatch
      BY <2>4, ZenonT(30) DEF registerConnection, FallbackLobby, bindConnection, CloseStale, MarkConnected,
                  maybeAutoStartMatch, CloseConnection, handleJoinGame, handleJoinGameAsSpectator,
                  ReportDisconnected, vars, manager
    <3>. QED
      BY <2>3, <3>1, SMTT(30)
  <2>. QED
    BY <2>1, <2>2, <2>4, SessionsCases
<1>2. joins' \in Nat
  <2>1. joins' = joins \/ joins' = joins + 1
    BY SessionsCases, ZenonT(30)
              DEF registerConnection, FallbackLobby, bindConnection, CloseStale, MarkConnected,
                  maybeAutoStartMatch, CloseConnection, handleJoinGame, handleJoinGameAsSpectator,
                  ReportDisconnected, vars, JoinMatch, ResumePlayer, GameOver
  <2>. QED
    BY <2>1 DEF SessionsTypeOK
<1>3. disturbed' \subseteq Players /\ disturbed \subseteq disturbed'
  <2>1. \/ UNCHANGED disturbed
        \/ \E p \in Players : disturbed' = disturbed \cup (IF JoinsOf(p) # {} THEN {p} ELSE {})
        \/ \E c \in Conns : disturbed' = disturbed \cup (Disturbs(c) \ {None})
        \/ \E c \in Conns : disturbed' = disturbed \cup Interrupts(c)
    <3>1. ASSUME NEW c \in Conns, CloseStale(c)
          PROVE  UNCHANGED disturbed \/ \E d \in Conns : disturbed' = disturbed \cup Interrupts(d)
      <4>1. pump[c].stale \in Conns
        BY <3>1, ConnTyped DEF CloseStale
      <4>. QED
        BY <3>1, <4>1 DEF CloseStale
    <3>. QED
      BY <3>1, SessionsCases DEF registerConnection, FallbackLobby, bindConnection, MarkConnected,
                  maybeAutoStartMatch, CloseConnection, handleJoinGame, handleJoinGameAsSpectator,
                  ReportDisconnected, vars, JoinMatch, ResumePlayer, GameOver
  <2>2. ASSUME NEW c \in Conns
        PROVE  Disturbs(c) \ {None} \subseteq Players /\ Interrupts(c) \subseteq Players
    BY ConnTyped DEF Disturbs, Interrupts
  <2>. QED
    BY <2>1, <2>2, SMTT(30) DEF SessionsTypeOK
<1>. QED
  BY <1>1, <1>2, <1>3

LEMMA TypeStep ==
    ASSUME SessionsTypeOK, BindingsAgree, HandlerInv, [Next]_vars
    PROVE  SessionsTypeOK'
<1>1. Evolves
  BY StepEvolves
<1>2. matches' \in Seq(Matches) /\ Len(matches') <= MaxMatches
      /\ \A m \in DOMAIN matches' : IsFiniteSet(matches'[m].players)
  BY <1>1 DEF Evolves
<1>. QED
  BY <1>2, PumpStep, ServerStep, CountersStep DEF SessionsTypeOK

-----------------------------------------------------------------------------
(* What the handlers know *)

\* A handler at rest still knows what it knew.
LEMMA HandlerFrame ==
    ASSUME SessionsTypeOK, Evolves, NEW d \in Conns, HandlerOf(d),
           pump'[d].pc = pump[d].pc, pump'[d].player = pump[d].player,
           pump'[d].match = pump[d].match, pump'[d].request = pump[d].request
    PROVE  HandlerOf(d)'
<1>1. DOMAIN matches \subseteq DOMAIN matches'
  BY DEF Evolves
<1>2. \A m \in DOMAIN matches : Joinable(m)' => Joinable(m)
  BY ClosedStaysClosed
<1>3. pump[d].pc = "fallback" => pump[d].match \in DOMAIN matches /\ ~Joinable(pump[d].match)
  BY DEF HandlerOf, Exists
<1>4. pump[d].pc = "fallback" => ~Joinable(pump[d].match)'
  BY <1>2, <1>3 DEF Joinable
<1>. QED
  BY <1>1, <1>4 DEF HandlerOf, Exists

LEMMA HandlerStep ==
    ASSUME SessionsTypeOK, HandlerInv, [Next]_vars
    PROVE  HandlerInv'
<1>1. Evolves
  BY StepEvolves
<1>2. DOMAIN matches \subseteq DOMAIN matches'
  BY <1>1 DEF Evolves
<1>3. ASSUME NEW p \in Players, playerToMatch'[p] # 0
      PROVE  playerToMatch'[p] \in DOMAIN matches'
  <2>1. \/ UNCHANGED playerToMatch
        \/ \E m : GameOver(m)
        \/ \E c \in Conns : /\ pump[c].match \in DOMAIN matches
                            /\ playerToMatch' = [playerToMatch EXCEPT ![pump[c].player] = pump[c].match]
    <3>1. ASSUME NEW c \in Conns, JoinMatch(c)
          PROVE  \/ UNCHANGED playerToMatch
                 \/ /\ pump[c].match \in DOMAIN matches
                    /\ playerToMatch' = [playerToMatch EXCEPT ![pump[c].player] = pump[c].match]
      BY <3>1, JoinDoes DEF manager
    <3>2. ASSUME NEW c \in Conns, ResumePlayer(c)
          PROVE  \/ UNCHANGED playerToMatch
                 \/ /\ pump[c].match \in DOMAIN matches
                    /\ playerToMatch' = [playerToMatch EXCEPT ![pump[c].player] = pump[c].match]
      BY <3>2, ResumeDoes DEF manager, LiveIn, Exists
    <3>3. CASE \/ \E c \in Conns : \/ registerConnection(c) \/ FallbackLobby(c) \/ bindConnection(c)
                                   \/ CloseStale(c) \/ MarkConnected(c) \/ maybeAutoStartMatch(c)
                                   \/ CloseConnection(c)
               \/ \E c \in Conns, q \in Players, req \in Requests : handleJoinGame(c, q, req)
               \/ \E c \in Conns, m \in 1 .. MaxMatches : handleJoinGameAsSpectator(c, m)
               \/ \E r \in reports : ReportDisconnected(r)
               \/ UNCHANGED vars
      BY <3>3 DEF registerConnection, FallbackLobby, bindConnection, CloseStale, MarkConnected,
                  maybeAutoStartMatch, CloseConnection, handleJoinGame, handleJoinGameAsSpectator,
                  ReportDisconnected, vars, manager
    <3>. QED
      BY <3>1, <3>2, <3>3, SessionsCases
  <2>2. playerToMatch[p] # 0 => playerToMatch[p] \in DOMAIN matches
    BY DEF HandlerInv, Exists
  <2>3. DOMAIN playerToMatch = Players
    BY DEF SessionsTypeOK
  <2>. QED
    BY <1>2, <1>3, <2>1, <2>2, <2>3 DEF GameOver
<1>4. ASSUME NEW d \in Conns, pump'[d] = pump[d]
      PROVE  HandlerOf(d)'
  BY <1>1, <1>4, HandlerFrame DEF HandlerInv
<1>5. \A d \in Conns : pump'[d].pc = "idle" => HandlerOf(d)'
  BY DEF HandlerOf
<1>6. ASSUME NEW c \in Conns, NEW p \in Players, NEW req \in Requests, handleJoinGame(c, p, req)
      PROVE  \A d \in Conns : HandlerOf(d)'
  <2>1. HandlerOf(c)'
    BY <1>6, QuickPlayDoes DEF HandlerOf, Exists
  <2>. QED
    BY <1>4, <1>6, <2>1, QuickPlayDoes
<1>7. ASSUME NEW c \in Conns, NEW m \in 1 .. MaxMatches, handleJoinGameAsSpectator(c, m)
      PROVE  \A d \in Conns : HandlerOf(d)'
  <2>1. m \in 0 .. MaxMatches /\ m \in DOMAIN matches'
    BY <1>2, <1>7 DEF handleJoinGameAsSpectator, Exists
  <2>2. /\ pump'[c].pc = "bind" /\ pump'[c].match = m
        /\ \A d \in Conns : d # c => pump'[d] = pump[d]
    BY <1>7, <2>1, SpectatorBegins DEF handleJoinGameAsSpectator
  <2>3. HandlerOf(c)'
    BY <2>1, <2>2 DEF HandlerOf, Exists
  <2>. QED
    BY <1>4, <2>2, <2>3
<1>8. ASSUME NEW c \in Conns, pump[c].pc \in {"join", "resume"}, Refused(c), UNCHANGED matches,
             pump[c].match \in DOMAIN matches => ~Joinable(pump[c].match)
      PROVE  \A d \in Conns : HandlerOf(d)'
  <2>1. CASE Return(c)
    BY <1>4, <1>5, <2>1, ReturnDoes
  <2>2. CASE To(c, "fallback") /\ pump[c].request.match = 0
    <3>1. /\ pump'[c].pc = "fallback" /\ pump'[c].player = pump[c].player
          /\ pump'[c].match = pump[c].match /\ pump'[c].request = pump[c].request
          /\ \A d \in Conns : d # c => pump'[d] = pump[d]
      BY <2>2, ToDoes
    <3>2. HandlerOf(c)
      BY DEF HandlerInv
    <3>3. HandlerOf(c)'
      BY <1>8, <2>2, <3>1, <3>2 DEF HandlerOf, Exists, Joinable
    <3>. QED
      BY <1>4, <3>1, <3>3
  <2>. QED
    BY <1>8, <2>1, <2>2, RefusedDoes
<1>9. ASSUME NEW c \in Conns, NEW pc \in {"resume", "bind", "drain", "start"}, To(c, pc),
             pc = "resume" => pump[c].pc = "join",
             pc # "resume" => pump[c].match \in DOMAIN matches,
             pc \in {"drain", "start"} => pump[c].player \in Players
      PROVE  \A d \in Conns : HandlerOf(d)'
  <2>1. /\ pump'[c].pc = pc /\ pump'[c].player = pump[c].player
        /\ pump'[c].match = pump[c].match /\ pump'[c].request = pump[c].request
        /\ \A d \in Conns : d # c => pump'[d] = pump[d]
    BY <1>9, ToDoes
  <2>2. HandlerOf(c)
    BY DEF HandlerInv
  <2>3. HandlerOf(c)'
    BY <1>2, <1>9, <2>1, <2>2 DEF HandlerOf, Exists
  <2>. QED
    BY <1>4, <2>1, <2>3
<1>10. ASSUME NEW c \in Conns, JoinMatch(c)
       PROVE  \A d \in Conns : HandlerOf(d)'
  <2>1. pump[c].pc = "join"
    BY <1>10 DEF JoinMatch
  <2>2. \/ To(c, "resume")
        \/ To(c, "bind") /\ pump[c].match \in DOMAIN matches
        \/ /\ pump[c].match \in DOMAIN matches => ~Joinable(pump[c].match)
           /\ Refused(c) /\ UNCHANGED matches
    BY <1>10, JoinDoes DEF manager
  <2>. QED
    BY <1>8, <1>9, <2>1, <2>2
<1>11. ASSUME NEW c \in Conns, ResumePlayer(c)
       PROVE  \A d \in Conns : HandlerOf(d)'
  <2>1. pump[c].pc = "resume"
    BY <1>11 DEF ResumePlayer
  <2>2. \/ Return(c)
        \/ To(c, "bind") /\ pump[c].match \in DOMAIN matches
        \/ /\ pump[c].match \in DOMAIN matches => ~Joinable(pump[c].match)
           /\ Refused(c) /\ UNCHANGED matches
    BY <1>11, ResumeDoes DEF manager, LiveIn, Exists
  <2>3. CASE Return(c)
    BY <1>4, <1>5, <2>3, ReturnDoes
  <2>. QED
    BY <1>8, <1>9, <2>1, <2>2, <2>3
<1>12. ASSUME NEW c \in Conns, FallbackLobby(c)
       PROVE  \A d \in Conns : HandlerOf(d)'
  <2>1. pump[c].player \in Players /\ pump[c].request \in Requests
    BY <1>12 DEF FallbackLobby, HandlerInv, HandlerOf
  <2>2. HandlerOf(c)'
    BY <1>12, <2>1, FallbackDoes DEF HandlerOf, Exists
  <2>. QED
    BY <1>4, <1>12, <2>2, FallbackDoes
<1>13. ASSUME NEW c \in Conns, bindConnection(c)
       PROVE  \A d \in Conns : HandlerOf(d)'
  <2>1. pump[c].match \in DOMAIN matches /\ pump[c].player \in Players \cup {None}
    BY <1>13, ConnTyped DEF bindConnection, HandlerInv, HandlerOf, Exists
  <2>2. CASE pump[c].player = None
    <3>1. Return(c)
      BY <1>13, <2>2 DEF bindConnection
    <3>. QED
      BY <1>4, <1>5, <3>1, ReturnDoes
  <2>3. CASE pump[c].player # None /\ conns[c].state # "open"
    BY <1>9, <1>13, <2>1, <2>3 DEF bindConnection
  <2>4. CASE pump[c].player # None /\ conns[c].state = "open"
    <3>1. /\ pump'[c].pc = "mark" /\ pump'[c].player = pump[c].player
          /\ pump'[c].match = pump[c].match
          /\ \A d \in Conns : d # c => pump'[d] = pump[d]
      BY <1>13, <2>4, BoundDoes
    <3>2. HandlerOf(c)'
      BY <1>2, <2>1, <2>4, <3>1 DEF HandlerOf, Exists
    <3>. QED
      BY <1>4, <3>1, <3>2
  <2>. QED
    BY <2>2, <2>3, <2>4
<1>14. ASSUME NEW c \in Conns, CloseStale(c)
       PROVE  \A d \in Conns : HandlerOf(d)'
  <2>1. pump[c].match \in DOMAIN matches /\ pump[c].player \in Players
    BY <1>14 DEF CloseStale, HandlerInv, HandlerOf, Exists
  <2>2. CASE To(c, "drain")
    BY <1>9, <2>1, <2>2
  <2>3. CASE pump' = [pump EXCEPT ![c].stale = None]
    <3>1. \A d \in Conns : /\ pump'[d].pc = pump[d].pc /\ pump'[d].player = pump[d].player
                           /\ pump'[d].match = pump[d].match
                           /\ pump'[d].request = pump[d].request
      BY <2>3, StaleDropped
    <3>. QED
      BY <1>1, <3>1, HandlerFrame DEF HandlerInv
  <2>. QED
    BY <1>14, <2>2, <2>3 DEF CloseStale
<1>15. ASSUME NEW c \in Conns, MarkConnected(c)
       PROVE  \A d \in Conns : HandlerOf(d)'
  <2>1. pump[c].match \in DOMAIN matches /\ pump[c].player \in Players
    BY <1>15 DEF MarkConnected, HandlerInv, HandlerOf, Exists
  <2>2. To(c, "start")
    BY <1>15 DEF MarkConnected
  <2>. QED
    BY <1>9, <2>1, <2>2
<1>16. ASSUME NEW c \in Conns, maybeAutoStartMatch(c)
       PROVE  \A d \in Conns : HandlerOf(d)'
  BY <1>4, <1>5, <1>16, ReturnDoes DEF maybeAutoStartMatch
<1>17. ASSUME \/ \E c \in Conns : registerConnection(c) \/ CloseConnection(c)
              \/ \E r \in reports : ReportDisconnected(r)
              \/ \E m \in 1 .. MaxMatches : GameOver(m)
              \/ UNCHANGED vars
       PROVE  \A d \in Conns : HandlerOf(d)'
  <2>1. UNCHANGED pump
    BY <1>17 DEF registerConnection, CloseConnection, ReportDisconnected, GameOver, vars
  <2>. QED
    BY <1>4, <2>1
<1>18. \A d \in Conns : HandlerOf(d)'
  BY <1>6, <1>7, <1>10, <1>11, <1>12, <1>13, <1>14, <1>15, <1>16, <1>17, SessionsCases
<1>. QED
  BY <1>3, <1>18 DEF HandlerInv, Exists

-----------------------------------------------------------------------------
(* Lobbies *)

\* The matchmaker keeps one open lobby in a region if the excluded ones are closed.
LEMMA GivenKeepsOneOpen ==
    ASSUME SessionsTypeOK, OneOpenLobby, NEW req \in Requests, NEW excluded,
           NEW m \in 1 .. MaxMatches, FindOrCreateLobby(req, excluded, m),
           \A k \in excluded : k \in DOMAIN matches => ~Joinable(k)
    PROVE  OneOpenLobby'
<1>1. Evolves
  BY LobbyGiven
<1>2. \A k \in DOMAIN matches : Joinable(k)' => Joinable(k)
  BY <1>1, ClosedStaysClosed
<1>3. \A k \in DOMAIN matches : matches'[k].region = matches[k].region
  BY <1>1 DEF Evolves
<1>4. CASE UNCHANGED matches
  BY <1>4 DEF OneOpenLobby, Joinable
<1>5. CASE /\ Len(matches') = Len(matches) + 1
           /\ \A k \in DOMAIN matches \ excluded :
                 Joinable(k) => matches[k].region # matches'[Len(matches) + 1].region
  <2>1. DOMAIN matches = 1 .. Len(matches) /\ Len(matches) \in Nat
    BY MatchesDomain
  <2>2. DOMAIN matches' = 1 .. Len(matches')
    BY <1>1, LenProperties DEF Evolves
  <2>3. \A k \in DOMAIN matches' : k \in DOMAIN matches \/ k = Len(matches) + 1
    BY <1>5, <2>1, <2>2
  <2>4. \A k \in DOMAIN matches : Joinable(k)' => matches'[k].region # matches'[Len(matches) + 1].region
    BY <1>2, <1>3, <1>5
  <2>. QED
    BY <1>2, <1>3, <2>3, <2>4 DEF OneOpenLobby
<1>. QED
  BY <1>4, <1>5, LobbyGiven

LEMMA OneOpenStep ==
    ASSUME SessionsTypeOK, HandlerInv, OneOpenLobby, [Next]_vars
    PROVE  OneOpenLobby'
<1>1. Evolves
  BY StepEvolves
<1>2. ASSUME DOMAIN matches' = DOMAIN matches
      PROVE  OneOpenLobby'
  <2>1. \A k \in DOMAIN matches : Joinable(k)' => Joinable(k)
    BY <1>1, ClosedStaysClosed
  <2>2. \A k \in DOMAIN matches : matches'[k].region = matches[k].region
    BY <1>1 DEF Evolves
  <2>. QED
    BY <1>2, <2>1, <2>2 DEF OneOpenLobby
<1>3. ASSUME NEW c \in Conns, NEW p \in Players, NEW req \in Requests, handleJoinGame(c, p, req)
      PROVE  OneOpenLobby'
  <2>1. UNCHANGED matches \/ \E m \in 1 .. MaxMatches : FindOrCreateLobby(req, {}, m)
    BY <1>3, QuickPlayDoes
  <2>. QED
    BY <1>2, <2>1, GivenKeepsOneOpen
<1>4. ASSUME NEW c \in Conns, FallbackLobby(c)
      PROVE  OneOpenLobby'
  <2>1. PICK m \in 1 .. MaxMatches : FindOrCreateLobby(pump[c].request, {pump[c].match}, m)
    BY <1>4, FallbackDoes
  <2>2. pump[c].request \in Requests
    BY <1>4, FallbackDoes
  <2>3. ~Joinable(pump[c].match)
    BY <1>4 DEF FallbackLobby, HandlerInv, HandlerOf
  <2>. QED
    BY <2>1, <2>2, <2>3, GivenKeepsOneOpen
<1>5. ASSUME NEW c \in Conns, JoinMatch(c)
      PROVE  OneOpenLobby'
  BY <1>2, <1>5, JoinDoes DEF manager
<1>6. ASSUME NEW c \in Conns, ResumePlayer(c)
      PROVE  OneOpenLobby'
  BY <1>2, <1>6, ResumeDoes, FlagSet DEF manager
<1>7. ASSUME NEW c \in Conns, MarkConnected(c)
      PROVE  OneOpenLobby'
  <2>1. pump[c].player \in Players /\ setPlayerConnected(pump[c].match, pump[c].player, TRUE)
    BY <1>7 DEF MarkConnected, HandlerInv, HandlerOf
  <2>. QED
    BY <1>2, <2>1, FlagSet
<1>8. ASSUME NEW c \in Conns, maybeAutoStartMatch(c)
      PROVE  OneOpenLobby'
  BY <1>2, <1>8, StartDoes
<1>9. ASSUME NEW r \in reports, ReportDisconnected(r)
      PROVE  OneOpenLobby'
  BY <1>2, <1>9, ReportDoes, FlagSet
<1>10. ASSUME NEW m, GameOver(m)
       PROVE  OneOpenLobby'
  BY <1>2, <1>10, GameOverDoes
<1>11. CASE \/ \E c \in Conns : \/ registerConnection(c) \/ bindConnection(c)
                                \/ CloseStale(c) \/ CloseConnection(c)
            \/ \E c \in Conns, m \in 1 .. MaxMatches : handleJoinGameAsSpectator(c, m)
            \/ UNCHANGED vars
  <2>1. UNCHANGED matches
    BY <1>11 DEF registerConnection, bindConnection, CloseStale, CloseConnection,
                 handleJoinGameAsSpectator, vars, manager
  <2>. QED
    BY <1>2, <2>1
<1>. QED
  BY <1>3, <1>4, <1>5, <1>6, <1>7, <1>8, <1>9, <1>10, <1>11, SessionsCases

-----------------------------------------------------------------------------
(* Membership *)

\* To the player p a step changes nothing in the matches that p is in.
Quiet(p) ==
    \A m \in DOMAIN matches' : LiveIn(p, m)' =>
        /\ LiveIn(p, m)
        /\ p \in matches'[m].connected <=> p \in matches[m].connected

LEMMA QuietSame ==
    ASSUME UNCHANGED matches, NEW p \in Players
    PROVE  Quiet(p)
BY DEF Quiet, LiveIn, Exists

LEMMA QuietGiven ==
    ASSUME SessionsTypeOK, NEW req \in Requests, NEW excluded, NEW m \in 1 .. MaxMatches,
           FindOrCreateLobby(req, excluded, m), NEW p \in Players
    PROVE  Quiet(p)
<1>1. Evolves
  BY LobbyGiven
<1>2. CASE UNCHANGED matches
  BY <1>2, QuietSame
<1>3. CASE \A k \in DOMAIN matches : matches'[k] = matches[k]
  BY <1>1, <1>3 DEF Evolves, Quiet, LiveIn, Exists
<1>. QED
  BY <1>2, <1>3, LobbyGiven

\* A flag that is set is the flag of one player in one match.
LEMMA QuietFlag ==
    ASSUME SessionsTypeOK, NEW m, NEW p \in Players,
           setPlayerConnected(m, p, TRUE) \/ setPlayerConnected(m, p, FALSE)
    PROVE  /\ \A q \in Players, k \in DOMAIN matches' : LiveIn(q, k)' => LiveIn(q, k)
           /\ \A q \in Players : q # p => Quiet(q)
<1>1. /\ DOMAIN matches' = DOMAIN matches
      /\ \A k \in DOMAIN matches :
            /\ matches'[k].status = matches[k].status
            /\ matches'[k].players = matches[k].players
            /\ \A q \in Players : q # p \/ k # m =>
                  (q \in matches'[k].connected <=> q \in matches[k].connected)
  BY FlagSet
<1>2. \A q \in Players, k \in DOMAIN matches' : LiveIn(q, k)' => LiveIn(q, k)
  BY <1>1 DEF LiveIn, Exists
<1>. QED
  BY <1>1, <1>2 DEF Quiet

LEMMA MemberStep ==
    ASSUME SessionsTypeOK, HandlerInv, MemberInv, [Next]_vars
    PROVE  MemberInv'
<1>1. ASSUME \A q \in Players, k \in DOMAIN matches' : LiveIn(q, k)' => LiveIn(q, k),
             UNCHANGED playerToMatch
      PROVE  MemberInv'
  BY <1>1 DEF MemberInv, LiveIn, Exists
<1>2. ASSUME \A q \in Players : Quiet(q), UNCHANGED playerToMatch
      PROVE  MemberInv'
  BY <1>1, <1>2 DEF Quiet
<1>3. ASSUME NEW c \in Conns, NEW p \in Players, NEW req \in Requests, handleJoinGame(c, p, req)
      PROVE  MemberInv'
  <2>1. UNCHANGED matches \/ \E m \in 1 .. MaxMatches : FindOrCreateLobby(req, {}, m)
    BY <1>3, QuickPlayDoes
  <2>2. UNCHANGED playerToMatch
    BY <1>3 DEF handleJoinGame
  <2>. QED
    BY <1>2, <2>1, <2>2, QuietSame, QuietGiven
<1>4. ASSUME NEW c \in Conns, FallbackLobby(c)
      PROVE  MemberInv'
  <2>1. PICK m \in 1 .. MaxMatches : FindOrCreateLobby(pump[c].request, {pump[c].match}, m)
    BY <1>4, FallbackDoes
  <2>2. pump[c].request \in Requests
    BY <1>4, FallbackDoes
  <2>3. \A q \in Players : Quiet(q)
    BY <2>1, <2>2, QuietGiven
  <2>4. UNCHANGED playerToMatch
    BY <1>4 DEF FallbackLobby
  <2>. QED
    BY <1>2, <2>3, <2>4
<1>5. ASSUME NEW c \in Conns, JoinMatch(c)
      PROVE  MemberInv'
  <2> DEFINE p == pump[c].player
             m == pump[c].match
  <2>1. CASE UNCHANGED manager
    BY <1>2, <2>1, QuietSame DEF manager
  <2>2. CASE /\ playerToMatch[p] = 0 /\ m \in DOMAIN matches
             /\ DOMAIN matches' = DOMAIN matches
             /\ \A k \in DOMAIN matches :
                   /\ matches'[k].status = matches[k].status
                   /\ matches'[k].players =
                         IF k = m THEN matches[k].players \cup {p} ELSE matches[k].players
             /\ playerToMatch' = [playerToMatch EXCEPT ![p] = m]
    <3>1. p \in Players /\ DOMAIN playerToMatch = Players
      BY <1>5, JoinDoes DEF SessionsTypeOK
    <3>2. \A k \in DOMAIN matches : k # 0
      BY MatchesDomain
    <3>3. \A k \in DOMAIN matches : ~LiveIn(p, k)
      BY <2>2, <3>1, <3>2 DEF MemberInv
    <3> HIDE DEF p, m
    <3>4. ASSUME NEW q \in Players, NEW k \in DOMAIN matches', LiveIn(q, k)'
          PROVE  playerToMatch'[q] = k
      <4>1. CASE q = p
        <5>1. k = m
          BY <2>2, <3>3, <3>4, <4>1 DEF LiveIn, Exists
        <5>. QED
          BY <2>2, <3>1, <4>1, <5>1
      <4>2. CASE q # p
        <5>1. LiveIn(q, k)
          BY <2>2, <3>4, <4>2 DEF LiveIn, Exists
        <5>. QED
          BY <2>2, <3>1, <4>2, <5>1 DEF MemberInv
      <4>. QED
        BY <4>1, <4>2
    <3>. QED
      BY <3>4 DEF MemberInv
  <2>. QED
    BY <1>5, <2>1, <2>2, JoinDoes
<1>6. ASSUME NEW c \in Conns, ResumePlayer(c)
      PROVE  MemberInv'
  <2> DEFINE p == pump[c].player
             m == pump[c].match
  <2>1. CASE UNCHANGED manager
    BY <1>2, <2>1, QuietSame DEF manager
  <2>2. CASE /\ LiveIn(p, m)
             /\ playerToMatch' = [playerToMatch EXCEPT ![p] = m]
             /\ setPlayerConnected(m, p, TRUE)
    <3>1. p \in Players /\ playerToMatch \in [Players -> 0 .. MaxMatches]
      BY <1>6, ResumeDoes DEF SessionsTypeOK
    <3>2. playerToMatch[p] = m
      BY <2>2, <3>1 DEF MemberInv, LiveIn, Exists
    <3>3. UNCHANGED playerToMatch
      BY <2>2, <3>1, <3>2
    <3>4. \A q \in Players, k \in DOMAIN matches' : LiveIn(q, k)' => LiveIn(q, k)
      BY <2>2, <3>1, QuietFlag
    <3>. QED
      BY <1>1, <3>3, <3>4
  <2>. QED
    BY <1>6, <2>1, <2>2, ResumeDoes
<1>7. ASSUME NEW c \in Conns, MarkConnected(c)
      PROVE  MemberInv'
  <2>1. pump[c].player \in Players /\ setPlayerConnected(pump[c].match, pump[c].player, TRUE)
        /\ UNCHANGED playerToMatch
    BY <1>7 DEF MarkConnected, HandlerInv, HandlerOf
  <2>2. \A q \in Players, k \in DOMAIN matches' : LiveIn(q, k)' => LiveIn(q, k)
    BY <2>1, QuietFlag
  <2>. QED
    BY <1>1, <2>1, <2>2
<1>8. ASSUME NEW c \in Conns, maybeAutoStartMatch(c)
      PROVE  MemberInv'
  <2>1. \A q \in Players : Quiet(q)
    BY <1>8, StartDoes DEF Quiet, LiveIn, Exists
  <2>2. UNCHANGED playerToMatch
    BY <1>8 DEF maybeAutoStartMatch
  <2>. QED
    BY <1>2, <2>1, <2>2
<1>9. ASSUME NEW r \in reports, ReportDisconnected(r)
      PROVE  MemberInv'
  <2>1. \A q \in Players, k \in DOMAIN matches' : LiveIn(q, k)' => LiveIn(q, k)
    BY <1>9, ReportDoes, QuietFlag
  <2>2. UNCHANGED playerToMatch
    BY <1>9 DEF ReportDisconnected
  <2>. QED
    BY <1>1, <2>1, <2>2
<1>10. ASSUME NEW m, GameOver(m)
       PROVE  MemberInv'
  <2>1. \A q \in Players, k \in DOMAIN matches' : LiveIn(q, k)' => LiveIn(q, k) /\ k # m
    BY <1>10, GameOverDoes DEF LiveIn, Exists
  <2>2. \A q \in Players : playerToMatch'[q] = IF playerToMatch[q] = m THEN 0 ELSE playerToMatch[q]
    BY <1>10 DEF GameOver
  <2>. QED
    BY <2>1, <2>2 DEF MemberInv, LiveIn, Exists
<1>11. CASE \/ \E c \in Conns : \/ registerConnection(c) \/ bindConnection(c)
                                \/ CloseStale(c) \/ CloseConnection(c)
            \/ \E c \in Conns, m \in 1 .. MaxMatches : handleJoinGameAsSpectator(c, m)
            \/ UNCHANGED vars
  <2>1. UNCHANGED manager
    BY <1>11 DEF registerConnection, bindConnection, CloseStale, CloseConnection,
                 handleJoinGameAsSpectator, vars
  <2>. QED
    BY <1>2, <2>1, QuietSame DEF manager
<1>. QED
  BY <1>3, <1>4, <1>5, <1>6, <1>7, <1>8, <1>9, <1>10, <1>11, SessionsCases

-----------------------------------------------------------------------------
(* Presence *)

\* The handler stays at the same place of its join, or goes from closing the stale
\* connection to waiting for its report.
SamePlace(c) ==
    /\ pump'[c].match = pump[c].match
    /\ pump'[c].pc = "bind" <=> pump[c].pc = "bind"
    /\ pump'[c].pc \in {"mark", "drain"} <=> pump[c].pc \in {"mark", "drain"}
    /\ pump'[c].pc = "start" <=> pump[c].pc = "start"

\* The joins of p that have got into a match stay where they are.
JoinsKeep(p) ==
    /\ \A c, d \in JoinsOf(p)' : c = d
    /\ \A c \in JoinsOf(p)' :
          pump'[c].pc \in {"bind", "mark", "drain", "start"} => c \in JoinsOf(p) /\ SamePlace(c)
    /\ \A c \in JoinsOf(p) :
          pump[c].pc \in {"bind", "mark", "drain"} => c \in JoinsOf(p)' /\ SamePlace(c)

\* A step of somebody else's join.
LEMMA OthersKeep ==
    ASSUME NEW p \in Players, PresenceOf(p), NEW c \in Conns,
           \A d \in Conns : d # c => pump'[d] = pump[d],
           c \notin JoinsOf(p), c \notin JoinsOf(p)'
    PROVE  JoinsKeep(p)
<1>1. \A d \in Conns : d # c => (d \in JoinsOf(p)' <=> d \in JoinsOf(p)) /\ SamePlace(d)
  BY DEF JoinsOf, SamePlace
<1>2. \A d, e \in JoinsOf(p) : d = e
  BY DEF PresenceOf
<1>3. JoinsOf(p)' = JoinsOf(p) /\ JoinsOf(p) \subseteq Conns
  BY <1>1 DEF JoinsOf
<1>. QED
  BY <1>1, <1>2, <1>3 DEF JoinsKeep

\* A step of a join of p before it has got into a match, or after the flag is set.
LEMMA OwnKeeps ==
    ASSUME NEW p \in Players, PresenceOf(p), NEW c \in Conns,
           \A d \in Conns : d # c => pump'[d] = pump[d],
           c \in JoinsOf(p), pump[c].pc \in {"join", "resume", "fallback", "start"},
           pump'[c].pc \in {"idle", "join", "resume", "fallback"}
    PROVE  JoinsKeep(p)
<1>1. \A d \in Conns : d # c => (d \in JoinsOf(p)' <=> d \in JoinsOf(p)) /\ SamePlace(d)
  BY DEF JoinsOf, SamePlace
<1>2. \A d, e \in JoinsOf(p) : d = e
  BY DEF PresenceOf
<1>3. JoinsOf(p)' \subseteq JoinsOf(p) /\ JoinsOf(p) \subseteq Conns
  BY <1>1 DEF JoinsOf
<1>. QED
  BY <1>1, <1>2, <1>3 DEF JoinsKeep

LEMMA PumpsKeep ==
    ASSUME NEW p \in Players, PresenceOf(p),
           \A d \in Conns : /\ pump'[d].pc = pump[d].pc /\ pump'[d].player = pump[d].player
                            /\ pump'[d].match = pump[d].match
    PROVE  JoinsKeep(p)
<1>1. JoinsOf(p)' = JoinsOf(p) /\ JoinsOf(p) \subseteq Conns /\ \A d \in Conns : SamePlace(d)
  BY DEF JoinsOf, SamePlace
<1>2. \A d, e \in JoinsOf(p) : d = e
  BY DEF PresenceOf
<1>. QED
  BY <1>1, <1>2 DEF JoinsKeep

\* The parts of PresenceOf, each a fact about the joins of p.
LEMMA PresenceFrame ==
    ASSUME NEW p \in Players, PresenceOf(p), Quiet(p), JoinsKeep(p),
           ReportsOf(p)' = ReportsOf(p), playerToConnection'[p] = playerToConnection[p],
           \A c \in Conns : playerToConnection[p] = c => conns'[c].match = conns[c].match
    PROVE  PresenceOf(p)'
<1>1. \A m \in DOMAIN matches' : LiveIn(p, m)' => m \in DOMAIN matches /\ LiveIn(p, m)
  BY DEF Quiet, LiveIn, Exists
<1>2. /\ \A c, d \in JoinsOf(p)' : c = d
      /\ ReportsOf(p)' # {} => playerToConnection'[p] = None
  BY DEF JoinsKeep, PresenceOf
<1>3. ASSUME NEW c \in JoinsOf(p)'
      PROVE  /\ pump'[c].pc \in {"mark", "drain", "start"} => playerToConnection'[p] = c
             /\ pump'[c].pc \in {"bind", "mark", "drain", "start"} =>
                   \A m \in DOMAIN matches' : LiveIn(p, m)' => pump'[c].match = m
  <2>1. pump'[c].pc \in {"bind", "mark", "drain", "start"} =>
            c \in JoinsOf(p) /\ SamePlace(c)
    BY <1>3 DEF JoinsKeep
  <2>. QED
    BY <1>1, <2>1 DEF PresenceOf, SamePlace
<1>4. /\ JoinAt(p, {"bind"}) => JoinAt(p, {"bind"})'
      /\ JoinAt(p, {"bind", "mark", "drain"}) => JoinAt(p, {"bind", "mark", "drain"})'
  BY DEF JoinAt, JoinsKeep, SamePlace
<1>5. ASSUME NEW m \in DOMAIN matches', LiveIn(p, m)'
      PROVE  /\ ~JoinAt(p, {"bind"})' =>
                  /\ \A c \in Conns : playerToConnection'[p] = c => conns'[c].match = m
                  /\ \A r \in ReportsOf(p)' : r.match = m
             /\ ~JoinAt(p, {"bind", "mark", "drain"})' =>
                  /\ playerToConnection'[p] # None => p \in matches'[m].connected
                  /\ playerToConnection'[p] = None /\ ReportsOf(p)' = {} =>
                        p \notin matches'[m].connected
  <2>1. m \in DOMAIN matches /\ LiveIn(p, m)
        /\ (p \in matches'[m].connected <=> p \in matches[m].connected)
    BY <1>1, <1>5 DEF Quiet
  <2>. QED
    BY <1>4, <2>1 DEF PresenceOf
<1>. QED
  BY <1>2, <1>3, <1>5 DEF PresenceOf

\* A join of p gets into a match.
LEMMA PresenceEntered ==
    ASSUME SessionsTypeOK, NEW c \in Conns, NEW p \in Players, p = pump[c].player, PresenceOf(p),
           pump[c].pc \in {"join", "resume"}, To(c, "bind"),
           MemberInv', playerToMatch'[p] = pump[c].match,
           UNCHANGED <<server, reports>>
    PROVE  PresenceOf(p)'
<1>1. /\ pump'[c].pc = "bind" /\ pump'[c].player = p /\ pump'[c].match = pump[c].match
      /\ \A d \in Conns : d # c => pump'[d] = pump[d]
  BY ToDoes
<1>2. c \in JoinsOf(p) /\ c \in JoinsOf(p)' /\ JoinsOf(p)' = JoinsOf(p)
  BY <1>1 DEF JoinsOf
<1>3. \A d \in JoinsOf(p)' : d = c
  BY <1>2 DEF PresenceOf
<1>4. JoinAt(p, {"bind"})' /\ JoinAt(p, {"bind", "mark", "drain"})'
  BY <1>1, <1>2 DEF JoinAt
<1>5. ReportsOf(p)' # {} => playerToConnection'[p] = None
  BY DEF PresenceOf, ReportsOf, server
<1>6. \A m \in DOMAIN matches' : LiveIn(p, m)' => pump'[c].match = m
  BY <1>1 DEF MemberInv
<1>. QED
  BY <1>1, <1>3, <1>4, <1>5, <1>6 DEF PresenceOf

\* The connection of a join of p is bound.
LEMMA PresenceBound ==
    ASSUME SessionsTypeOK, NEW c \in Conns, NEW p \in Players, p = pump[c].player, PresenceOf(p),
           bindConnection(c), conns[c].state = "open", ReportsOf(p) = {}
    PROVE  PresenceOf(p)'
<1>1. /\ pump'[c].pc = "mark" /\ pump'[c].player = p /\ pump'[c].match = pump[c].match
      /\ \A d \in Conns : d # c => pump'[d] = pump[d]
  BY BoundDoes
<1>2. pump[c].pc = "bind"
  BY DEF bindConnection
<1>3. c \in JoinsOf(p) /\ c \in JoinsOf(p)' /\ JoinsOf(p)' = JoinsOf(p)
  BY <1>1, <1>2 DEF JoinsOf
<1>4. \A d \in JoinsOf(p)' : d = c
  BY <1>3 DEF PresenceOf
<1>5. JoinAt(p, {"bind", "mark", "drain"})'
  BY <1>1, <1>3 DEF JoinAt
<1>6. playerToConnection'[p] = c
  BY DEF bindConnection
<1>7. conns'[c].match = pump[c].match
  BY DEF bindConnection, Rebound, PreviousOf
<1>8. ReportsOf(p)' = {}
  BY DEF ReportsOf, bindConnection
<1>9. UNCHANGED matches
  BY DEF bindConnection, manager
<1>10. \A m \in DOMAIN matches' : LiveIn(p, m)' => pump[c].match = m
  BY <1>2, <1>3, <1>9 DEF PresenceOf, LiveIn, Exists
<1>11. \A d \in Conns : playerToConnection'[p] = d => d = c
  BY <1>6
<1>. QED
  BY <1>1, <1>4, <1>5, <1>6, <1>7, <1>8, <1>10, <1>11 DEF PresenceOf

\* A connection goes; if it spoke for p, no join of p ran on it.
LEMMA PresenceClosed ==
    ASSUME SessionsTypeOK, BindingsAgree, NEW d \in Conns, NEW p \in Players, PresenceOf(p),
           conns[d].state = "open", unregisterConnection(d), UNCHANGED matches,
           JoinsKeep(p), d \notin JoinsOf(p)
    PROVE  PresenceOf(p)'
<1>1. Quiet(p)
  BY QuietSame
<1>2. playerToConnection[p] = d <=> conns[d].player = p
  BY DEF BindingsAgree
<1>3. playerToConnection'[p] = IF playerToConnection[p] = d THEN None ELSE playerToConnection[p]
  BY DEF unregisterConnection
<1>4. CASE conns[d].player # p
  <2>1. ReportsOf(p)' = ReportsOf(p)
    BY <1>4 DEF ReportsOf, unregisterConnection, ReportOf
  <2>2. \A c \in Conns : c # d => conns'[c] = conns[c]
    BY DEF unregisterConnection, SessionsTypeOK
  <2>. QED
    BY <1>1, <1>2, <1>3, <1>4, <2>1, <2>2, PresenceFrame
<1>5. CASE conns[d].player = p
  <2>1. playerToConnection[p] = d /\ playerToConnection'[p] = None /\ ReportsOf(p) = {}
    BY <1>2, <1>3, <1>5 DEF PresenceOf
  <2>2. ReportsOf(p)' = {[conn |-> d, player |-> p, match |-> conns[d].match]}
    <3>1. reports' = reports \cup {[conn |-> d, player |-> p, match |-> conns[d].match]}
      BY <1>5 DEF unregisterConnection, ReportOf
    <3>. QED
      BY <2>1, <3>1 DEF ReportsOf
  <2>3. \A c \in JoinsOf(p) : pump[c].pc \notin {"mark", "drain", "start"}
    BY <2>1 DEF PresenceOf
  <2>4. \A c \in JoinsOf(p)' :
            /\ pump'[c].pc \notin {"mark", "drain", "start"}
            /\ pump'[c].pc = "bind" => c \in JoinsOf(p) /\ SamePlace(c)
    BY <2>3 DEF JoinsKeep, SamePlace
  <2>5. JoinAt(p, {"bind"}) => JoinAt(p, {"bind"})'
    BY DEF JoinAt, JoinsKeep, SamePlace
  <2>6. ASSUME NEW m \in DOMAIN matches', LiveIn(p, m)'
        PROVE  m \in DOMAIN matches /\ LiveIn(p, m)
    BY <2>6 DEF LiveIn, Exists
  <2>7. \A c, e \in JoinsOf(p)' : c = e
    BY DEF JoinsKeep
  <2>8. ASSUME NEW c \in JoinsOf(p)', pump'[c].pc = "bind", NEW m \in DOMAIN matches', LiveIn(p, m)'
        PROVE  pump'[c].match = m
    BY <2>4, <2>6, <2>8 DEF PresenceOf, SamePlace
  <2>9. ASSUME NEW m \in DOMAIN matches', LiveIn(p, m)', ~JoinAt(p, {"bind"})'
        PROVE  \A r \in ReportsOf(p)' : r.match = m
    <3>1. conns[d].match = m
      BY <2>1, <2>5, <2>6, <2>9 DEF PresenceOf
    <3>. QED
      BY <2>2, <3>1
  <2>10. ReportsOf(p)' # {} /\ None \notin Conns
    BY <2>2
  <2>. QED
    BY <2>1, <2>4, <2>7, <2>8, <2>9, <2>10 DEF PresenceOf
<1>. QED
  BY <1>4, <1>5

\* The close of a connection of p is reported.
LEMMA PresenceReported ==
    ASSUME SessionsTypeOK, NEW r \in reports, ReportDisconnected(r), NEW p \in Players,
           p = r.player, PresenceOf(p)
    PROVE  PresenceOf(p)'
<1>1. r \in ReportsOf(p) /\ ReportsOf(p)' = ReportsOf(p) \ {r}
  BY DEF ReportsOf, ReportDisconnected
<1>2. playerToConnection[p] = None /\ playerToConnection'[p] = None
  BY <1>1 DEF PresenceOf, ReportDisconnected, server
<1>3. setPlayerConnected(r.match, p, FALSE) /\ UNCHANGED pump
  BY DEF ReportDisconnected
<1>4. JoinsOf(p)' = JoinsOf(p)
  BY <1>3 DEF JoinsOf
<1>5. \A c \in JoinsOf(p) : pump[c].pc \notin {"mark", "drain", "start"}
  <2>1. JoinsOf(p) \subseteq Conns
    BY DEF JoinsOf
  <2>. QED
    BY <1>2, <2>1 DEF PresenceOf
<1>6. /\ DOMAIN matches' = DOMAIN matches
      /\ \A k \in DOMAIN matches :
            matches'[k].status = matches[k].status /\ matches'[k].players = matches[k].players
      /\ r.match \in DOMAIN matches => p \notin matches'[r.match].connected
  BY <1>3, FlagSet
<1>7. ASSUME NEW m \in DOMAIN matches', LiveIn(p, m)'
      PROVE  m \in DOMAIN matches /\ LiveIn(p, m)
  BY <1>6, <1>7 DEF LiveIn, Exists
<1>8. /\ JoinAt(p, {"bind"})' <=> JoinAt(p, {"bind"})
      /\ JoinAt(p, {"bind", "mark", "drain"})' <=> JoinAt(p, {"bind"})
  BY <1>3, <1>4, <1>5 DEF JoinAt
<1>9. ASSUME NEW m \in DOMAIN matches', LiveIn(p, m)', ~JoinAt(p, {"bind"})
      PROVE  p \notin matches'[m].connected /\ \A s \in ReportsOf(p)' : s.match = m
  <2>1. \A s \in ReportsOf(p) : s.match = m
    BY <1>7, <1>9 DEF PresenceOf
  <2>. QED
    BY <1>1, <1>6, <1>9, <2>1
<1>10. ASSUME NEW c \in JoinsOf(p)'
       PROVE  /\ pump'[c].pc \notin {"mark", "drain", "start"}
              /\ pump'[c].pc = "bind" =>
                    \A m \in DOMAIN matches' : LiveIn(p, m)' => pump'[c].match = m
  BY <1>3, <1>4, <1>5, <1>7 DEF PresenceOf
<1>11. \A c, e \in JoinsOf(p)' : c = e
  BY <1>4 DEF PresenceOf
<1>. QED
  BY <1>2, <1>8, <1>9, <1>10, <1>11 DEF PresenceOf

\* The flag of p is set by the join that has been bound.
LEMMA PresenceMarked ==
    ASSUME SessionsTypeOK, NEW c \in Conns, MarkConnected(c), NEW p \in Players,
           p = pump[c].player, PresenceOf(p)
    PROVE  PresenceOf(p)'
<1>1. /\ To(c, "start") /\ setPlayerConnected(pump[c].match, p, TRUE)
      /\ UNCHANGED <<server, reports>> /\ pump[c].pc \in {"mark", "drain"}
  BY DEF MarkConnected
<1>2. /\ pump'[c].pc = "start" /\ pump'[c].player = p /\ pump'[c].match = pump[c].match
      /\ \A d \in Conns : d # c => pump'[d] = pump[d]
  BY <1>1, ToDoes
<1>3. c \in JoinsOf(p) /\ c \in JoinsOf(p)' /\ JoinsOf(p)' = JoinsOf(p)
  BY <1>1, <1>2 DEF JoinsOf
<1>4. /\ \A d \in JoinsOf(p) : d = c
      /\ playerToConnection[p] = c /\ ReportsOf(p) = {}
  BY <1>1, <1>3 DEF PresenceOf
<1>5. ~JoinAt(p, {"bind"})
  BY <1>1, <1>4 DEF JoinAt
<1>6. /\ DOMAIN matches' = DOMAIN matches
      /\ \A k \in DOMAIN matches :
            matches'[k].status = matches[k].status /\ matches'[k].players = matches[k].players
      /\ pump[c].match \in DOMAIN matches => p \in matches'[pump[c].match].connected
  <2> DEFINE m == pump[c].match
  <2>1. setPlayerConnected(m, p, TRUE)
    BY <1>1
  <2> HIDE DEF m
  <2>2. /\ DOMAIN matches' = DOMAIN matches
        /\ \A k \in DOMAIN matches :
              matches'[k].status = matches[k].status /\ matches'[k].players = matches[k].players
    BY <2>1, FlagSet
  <2>3. m \in DOMAIN matches /\ TRUE => p \in matches'[m].connected
    BY <2>1, FlagSet, Zenon
  <2>. QED
    BY <2>2, <2>3 DEF m
<1>7. ASSUME NEW m \in DOMAIN matches', LiveIn(p, m)'
      PROVE  /\ pump[c].match = m /\ p \in matches'[m].connected
             /\ conns[c].match = m
  <2>1. m \in DOMAIN matches /\ LiveIn(p, m)
    BY <1>6, <1>7 DEF LiveIn, Exists
  <2>. QED
    BY <1>1, <1>3, <1>4, <1>5, <1>6, <2>1 DEF PresenceOf
<1>8. /\ playerToConnection'[p] = c /\ ReportsOf(p)' = {} /\ conns' = conns
  BY <1>1, <1>4 DEF server, ReportsOf
<1>. QED
  BY <1>2, <1>3, <1>4, <1>7, <1>8 DEF PresenceOf

LEMMA PresenceStep ==
    ASSUME SessionsTypeOK, BindingsAgree, HandlerInv, MemberInv, PresenceInv, [Next]_vars
    PROVE  PresenceInv'
<1>1. SUFFICES ASSUME NEW p \in Players, p \notin disturbed'
               PROVE  PresenceOf(p)'
  BY DEF PresenceInv
<1>2. p \notin disturbed /\ PresenceOf(p)
  <2>1. disturbed \subseteq disturbed'
    BY CountersStep
  <2>. QED
    BY <1>1, <2>1 DEF PresenceInv
<1>3. ASSUME UNCHANGED <<server, reports>>, Quiet(p), JoinsKeep(p)
      PROVE  PresenceOf(p)'
  <2>1. ReportsOf(p)' = ReportsOf(p)
    BY <1>3 DEF ReportsOf
  <2>. QED
    BY <1>2, <1>3, <2>1, PresenceFrame DEF server
<1>4. MemberInv'
  BY MemberStep
<1>5. ASSUME NEW c \in Conns, registerConnection(c)
      PROVE  PresenceOf(p)'
  <2>1. conns[c].state = "unused" /\ UNCHANGED <<playerToConnection, pump, reports, matches>>
    BY <1>5 DEF registerConnection, manager
  <2>2. \A d \in Conns : d # c => conns'[d] = conns[d]
    BY <1>5 DEF registerConnection, SessionsTypeOK
  <2>3. playerToConnection[p] # c
    BY <2>1 DEF BindingsAgree
  <2>4. Quiet(p) /\ JoinsKeep(p) /\ ReportsOf(p)' = ReportsOf(p)
    BY <1>2, <2>1, QuietSame, PumpsKeep DEF ReportsOf
  <2>. QED
    BY <1>2, <2>1, <2>2, <2>3, <2>4, PresenceFrame
<1>6. ASSUME NEW c \in Conns, NEW q \in Players, NEW req \in Requests, handleJoinGame(c, q, req)
      PROVE  PresenceOf(p)'
  <2>1. /\ UNCHANGED <<server, reports>> /\ pump[c].pc = "idle"
        /\ disturbed' = disturbed \cup (IF JoinsOf(q) # {} THEN {q} ELSE {})
    BY <1>6 DEF handleJoinGame
  <2>2. UNCHANGED matches \/ \E m \in 1 .. MaxMatches : FindOrCreateLobby(req, {}, m)
    BY <1>6, QuickPlayDoes
  <2>3. Quiet(p)
    BY <2>2, QuietSame, QuietGiven
  <2>4. /\ pump'[c].pc = "join" /\ pump'[c].player = q
        /\ \A d \in Conns : d # c => pump'[d] = pump[d]
    BY <1>6, QuickPlayDoes
  <2>5. CASE q # p
    <3>1. c \notin JoinsOf(p) /\ c \notin JoinsOf(p)'
      BY <2>1, <2>4, <2>5 DEF JoinsOf
    <3>2. JoinsKeep(p)
      BY <1>2, <2>4, <3>1, OthersKeep
    <3>. QED
      BY <1>3, <2>1, <2>3, <3>2
  <2>6. CASE q = p
    <3>1. JoinsOf(p) = {}
      BY <1>1, <2>1, <2>6
    <3>2. JoinsOf(p)' = {c}
      BY <2>4, <2>6, <3>1 DEF JoinsOf
    <3>3. JoinsKeep(p)
      BY <2>4, <3>1, <3>2 DEF JoinsKeep
    <3>. QED
      BY <1>3, <2>1, <2>3, <3>3
  <2>. QED
    BY <2>5, <2>6
<1>7. ASSUME NEW c \in Conns, NEW m \in 1 .. MaxMatches, handleJoinGameAsSpectator(c, m)
      PROVE  PresenceOf(p)'
  <2>1. UNCHANGED <<server, reports>> /\ pump[c].pc = "idle" /\ UNCHANGED matches
    BY <1>7 DEF handleJoinGameAsSpectator, manager
  <2>2. m \in 0 .. MaxMatches
    OBVIOUS
  <2>3. /\ pump'[c].player = None
        /\ \A d \in Conns : d # c => pump'[d] = pump[d]
    BY <1>7, <2>2, SpectatorBegins DEF handleJoinGameAsSpectator
  <2>4. c \notin JoinsOf(p) /\ c \notin JoinsOf(p)'
    BY <2>1, <2>3 DEF JoinsOf
  <2>5. JoinsKeep(p) /\ Quiet(p)
    BY <1>2, <2>1, <2>3, <2>4, OthersKeep, QuietSame
  <2>. QED
    BY <1>3, <2>1, <2>5
\* Refusals and other steps of a join that is in no match yet, or is at its end.
<1>8. ASSUME NEW c \in Conns, UNCHANGED <<server, reports>>, Quiet(p),
             \A d \in Conns : d # c => pump'[d] = pump[d],
             pump'[c].player \in {pump[c].player, None},
             pump[c].pc \in {"join", "resume", "fallback", "start"},
             pump'[c].pc \in {"idle", "join", "resume", "fallback"}
      PROVE  PresenceOf(p)'
  <2>1. CASE pump[c].player = p
    <3>1. c \in JoinsOf(p)
      BY <1>8, <2>1 DEF JoinsOf
    <3>2. JoinsKeep(p)
      BY <1>2, <1>8, <3>1, OwnKeeps
    <3>. QED
      BY <1>3, <1>8, <3>2
  <2>2. CASE pump[c].player # p
    <3>1. c \notin JoinsOf(p) /\ c \notin JoinsOf(p)'
      BY <1>8, <2>2 DEF JoinsOf
    <3>2. JoinsKeep(p)
      BY <1>2, <1>8, <3>1, OthersKeep
    <3>. QED
      BY <1>3, <1>8, <3>2
  <2>. QED
    BY <2>1, <2>2
<1>9. ASSUME NEW c \in Conns, pump[c].pc \in {"join", "resume"}, Refused(c) \/ Return(c),
             UNCHANGED <<server, reports>>, UNCHANGED manager
      PROVE  PresenceOf(p)'
  <2>1. Quiet(p)
    BY <1>9, QuietSame DEF manager
  <2>2. /\ \A d \in Conns : d # c => pump'[d] = pump[d]
        /\ pump'[c].player \in {pump[c].player, None} /\ pump'[c].pc \in {"idle", "fallback"}
    <3>1. CASE Return(c)
      BY <3>1, ReturnDoes
    <3>2. CASE To(c, "fallback")
      BY <3>2, ToDoes
    <3>. QED
      BY <1>9, <3>1, <3>2, RefusedDoes
  <2>. QED
    BY <1>8, <1>9, <2>1, <2>2
\* A step of another player's join.
<1>10. ASSUME NEW c \in Conns, UNCHANGED <<server, reports>>, Quiet(p),
              NEW pc \in {"bind", "start"}, To(c, pc), pump[c].player # p
       PROVE  PresenceOf(p)'
  <2>1. /\ \A d \in Conns : d # c => pump'[d] = pump[d]
        /\ pump'[c].player = pump[c].player
    BY <1>10, ToDoes
  <2>2. c \notin JoinsOf(p) /\ c \notin JoinsOf(p)'
    BY <1>10, <2>1 DEF JoinsOf
  <2>3. JoinsKeep(p)
    BY <1>2, <2>1, <2>2, OthersKeep
  <2>. QED
    BY <1>3, <1>10, <2>3
<1>11. ASSUME NEW c \in Conns, JoinMatch(c)
       PROVE  PresenceOf(p)'
  <2>1. UNCHANGED <<server, reports>> /\ pump[c].pc = "join" /\ pump[c].player \in Players
    BY <1>11, JoinDoes DEF JoinMatch
  <2>2. CASE To(c, "resume") /\ UNCHANGED manager
    <3>1. Quiet(p)
      BY <2>2, QuietSame DEF manager
    <3>2. /\ \A d \in Conns : d # c => pump'[d] = pump[d]
          /\ pump'[c].player = pump[c].player /\ pump'[c].pc = "resume"
      BY <2>2, ToDoes
    <3>. QED
      BY <1>8, <2>1, <3>1, <3>2
  <2>3. CASE Refused(c) /\ UNCHANGED manager
    BY <1>9, <2>1, <2>3
  <2>4. CASE /\ DOMAIN matches' = DOMAIN matches
             /\ \A k \in DOMAIN matches :
                   /\ matches'[k].status = matches[k].status
                   /\ matches'[k].players = IF k = pump[c].match
                                            THEN matches[k].players \cup {pump[c].player}
                                            ELSE matches[k].players
                   /\ matches'[k].connected = IF k = pump[c].match
                                              THEN matches[k].connected \cup {pump[c].player}
                                              ELSE matches[k].connected
             /\ playerToMatch' = [playerToMatch EXCEPT ![pump[c].player] = pump[c].match]
             /\ To(c, "bind")
    <3>1. CASE pump[c].player = p
      <4>1. playerToMatch'[p] = pump[c].match
        BY <2>4, <3>1 DEF SessionsTypeOK
      <4>. QED
        BY <1>2, <1>4, <2>1, <2>4, <3>1, <4>1, PresenceEntered
    <3>2. CASE pump[c].player # p
      <4>1. Quiet(p)
        <5> DEFINE q == pump[c].player
        <5>1. /\ DOMAIN matches' = DOMAIN matches
              /\ \A k \in DOMAIN matches :
                    /\ matches'[k].status = matches[k].status
                    /\ matches'[k].players \in {matches[k].players, matches[k].players \cup {q}}
                    /\ matches'[k].connected \in {matches[k].connected, matches[k].connected \cup {q}}
          BY <2>4
        <5>2. q # p
          BY <3>2
        <5> HIDE DEF q
        <5>3. \A k \in DOMAIN matches : /\ p \in matches'[k].players <=> p \in matches[k].players
                                        /\ p \in matches'[k].connected <=> p \in matches[k].connected
          BY <5>1, <5>2
        <5>. QED
          BY <5>1, <5>3 DEF Quiet, LiveIn, Exists
      <4>. QED
        BY <1>10, <2>1, <2>4, <3>2, <4>1
    <3>. QED
      BY <3>1, <3>2
  <2>. QED
    BY <1>11, <2>2, <2>3, <2>4, JoinDoes
<1>12. ASSUME NEW c \in Conns, ResumePlayer(c)
       PROVE  PresenceOf(p)'
  <2>1. UNCHANGED <<server, reports>> /\ pump[c].pc = "resume" /\ pump[c].player \in Players
    BY <1>12, ResumeDoes DEF ResumePlayer
  <2>2. CASE (Refused(c) \/ Return(c)) /\ UNCHANGED manager
    BY <1>9, <2>1, <2>2
  <2>3. CASE /\ playerToMatch' = [playerToMatch EXCEPT ![pump[c].player] = pump[c].match]
             /\ setPlayerConnected(pump[c].match, pump[c].player, TRUE)
             /\ To(c, "bind")
    <3>1. CASE pump[c].player = p
      <4>1. playerToMatch'[p] = pump[c].match
        BY <2>3, <3>1 DEF SessionsTypeOK
      <4>. QED
        BY <1>2, <1>4, <2>1, <2>3, <3>1, <4>1, PresenceEntered
    <3>2. CASE pump[c].player # p
      <4>1. Quiet(p)
        BY <2>1, <2>3, <3>2, QuietFlag
      <4>. QED
        BY <1>10, <2>1, <2>3, <3>2, <4>1
    <3>. QED
      BY <3>1, <3>2
  <2>. QED
    BY <1>12, <2>2, <2>3, ResumeDoes
<1>13. ASSUME NEW c \in Conns, FallbackLobby(c)
       PROVE  PresenceOf(p)'
  <2>1. UNCHANGED <<server, reports>> /\ pump[c].pc = "fallback"
    BY <1>13 DEF FallbackLobby
  <2>2. PICK m \in 1 .. MaxMatches : FindOrCreateLobby(pump[c].request, {pump[c].match}, m)
    BY <1>13, FallbackDoes
  <2>3. /\ pump[c].request \in Requests
        /\ pump'[c].pc = "join" /\ pump'[c].player = pump[c].player
        /\ \A d \in Conns : d # c => pump'[d] = pump[d]
    BY <1>13, FallbackDoes
  <2>4. Quiet(p)
    BY <2>2, <2>3, QuietGiven
  <2>. QED
    BY <1>8, <2>1, <2>3, <2>4
<1>14. ASSUME NEW c \in Conns, bindConnection(c)
       PROVE  PresenceOf(p)'
  <2>1. /\ pump[c].pc = "bind" /\ UNCHANGED <<reports, matches>>
        /\ disturbed' = disturbed \cup (Disturbs(c) \ {None})
    BY <1>14 DEF bindConnection, manager
  <2>2. Quiet(p) /\ ReportsOf(p)' = ReportsOf(p)
    BY <2>1, QuietSame DEF ReportsOf
  <2>3. p # None /\ p \notin Disturbs(c)
    BY <1>1, <2>1
  <2>4. ASSUME pump[c].player # p
        PROVE  JoinsKeep(p)
    <3>1. /\ pump'[c].player # p
          /\ \A d \in Conns : d # c => pump'[d] = pump[d]
      <4>1. CASE pump[c].player = None
        BY <1>14, <2>3, <4>1, ReturnDoes DEF bindConnection
      <4>2. CASE pump[c].player # None /\ conns[c].state # "open"
        BY <1>14, <2>4, <4>2, ToDoes DEF bindConnection
      <4>3. CASE pump[c].player # None /\ conns[c].state = "open"
        BY <1>14, <2>4, <4>3, BoundDoes
      <4>. QED
        BY <4>1, <4>2, <4>3
    <3>2. c \notin JoinsOf(p) /\ c \notin JoinsOf(p)'
      BY <2>4, <3>1 DEF JoinsOf
    <3>. QED
      BY <1>2, <3>1, <3>2, OthersKeep
  <2>5. CASE conns[c].state # "open"
    <3>1. pump[c].player # p
      BY <2>3, <2>5 DEF Disturbs
    <3>2. UNCHANGED server
      BY <1>14, <2>5 DEF bindConnection
    <3>. QED
      BY <1>3, <2>1, <2>2, <2>4, <3>1, <3>2
  <2>6. CASE conns[c].state = "open" /\ pump[c].player = p
    <3>1. ReportsOf(p) = {}
      BY <2>3, <2>6 DEF Disturbs
    <3>. QED
      BY <1>2, <1>14, <2>6, <3>1, PresenceBound
  <2>7. CASE conns[c].state = "open" /\ pump[c].player # p
    <3>1. conns[c].player # p
      BY <2>3, <2>7 DEF Disturbs
    <3>2. playerToConnection'[p] = playerToConnection[p]
      BY <1>14, <2>7, <3>1 DEF bindConnection
    <3>3. ASSUME NEW d \in Conns, playerToConnection[p] = d
          PROVE  conns'[d] = conns[d]
      <4>1. conns[d].state = "open" /\ conns[d].player = p
        BY <3>3 DEF BindingsAgree
      <4>2. d # c
        BY <3>1, <4>1
      <4>3. d \notin PreviousOf(c)
        <5>1. pump[c].player \in Players \cup {None}
          BY ConnTyped
        <5>2. pump[c].player \in Players => playerToConnection[pump[c].player] # d
          BY <2>7, <4>1 DEF BindingsAgree
        <5>. QED
          BY <5>1, <5>2 DEF PreviousOf
      <4>4. conns' = Rebound(c)
        BY <1>14, <2>7 DEF bindConnection
      <4>. QED
        BY <4>2, <4>3, <4>4 DEF Rebound
    <3>. QED
      BY <1>2, <2>2, <2>4, <2>7, <3>2, <3>3, PresenceFrame
  <2>. QED
    BY <2>5, <2>6, <2>7
<1>15. ASSUME NEW c \in Conns, CloseConnection(c)
       PROVE  PresenceOf(p)'
  <2>1. /\ conns[c].state = "open" /\ unregisterConnection(c) /\ UNCHANGED <<pump, matches>>
        /\ p \notin Interrupts(c)
    BY <1>1, <1>15 DEF CloseConnection, manager
  <2>2. c \notin JoinsOf(p)
    BY <2>1 DEF Interrupts, JoinsOf
  <2>3. JoinsKeep(p)
    BY <1>2, <2>1, PumpsKeep
  <2>. QED
    BY <1>2, <2>1, <2>2, <2>3, PresenceClosed
<1>16. ASSUME NEW c \in Conns, CloseStale(c)
       PROVE  PresenceOf(p)'
  <2> DEFINE d == pump[c].stale
  <2>1. d \in Conns /\ UNCHANGED matches /\ pump[c].pc = "mark"
    BY <1>16, ConnTyped DEF CloseStale, manager
  <2>2. CASE conns[d].state = "open"
    <3>1. unregisterConnection(d) /\ To(c, "drain") /\ p \notin Interrupts(d)
      BY <1>1, <1>16, <2>2 DEF CloseStale
    <3>2. d \notin JoinsOf(p)
      BY <3>1 DEF Interrupts, JoinsOf
    <3>3. /\ pump'[c].pc = "drain" /\ pump'[c].player = pump[c].player
          /\ pump'[c].match = pump[c].match
          /\ \A e \in Conns : e # c => pump'[e] = pump[e]
      BY <3>1, ToDoes
    <3>4. JoinsOf(p)' = JoinsOf(p) /\ \A e \in Conns : SamePlace(e)
      BY <2>1, <3>3 DEF JoinsOf, SamePlace
    <3>5. JoinsKeep(p)
      <4>1. JoinsOf(p) \subseteq Conns /\ \A e, g \in JoinsOf(p) : e = g
        BY <1>2 DEF JoinsOf, PresenceOf
      <4>. QED
        BY <3>4, <4>1 DEF JoinsKeep
    <3> HIDE DEF d
    <3>. QED
      BY <1>2, <2>1, <2>2, <3>1, <3>2, <3>5, PresenceClosed
  <2>3. CASE conns[d].state # "open"
    <3>1. pump' = [pump EXCEPT ![c].stale = None] /\ UNCHANGED <<server, reports>>
      BY <1>16, <2>3 DEF CloseStale
    <3>2. JoinsKeep(p) /\ Quiet(p)
      BY <1>2, <2>1, <3>1, StaleDropped, PumpsKeep, QuietSame
    <3>. QED
      BY <1>3, <3>1, <3>2
  <2>. QED
    BY <2>2, <2>3
<1>17. ASSUME NEW c \in Conns, MarkConnected(c)
       PROVE  PresenceOf(p)'
  <2>1. CASE pump[c].player = p
    BY <1>2, <1>17, <2>1, PresenceMarked
  <2>2. CASE pump[c].player # p
    <3>1. /\ UNCHANGED <<server, reports>> /\ To(c, "start") /\ pump[c].player \in Players
          /\ setPlayerConnected(pump[c].match, pump[c].player, TRUE)
      BY <1>17 DEF MarkConnected, HandlerInv, HandlerOf
    <3>2. Quiet(p)
      BY <2>2, <3>1, QuietFlag
    <3>. QED
      BY <1>10, <2>2, <3>1, <3>2
  <2>. QED
    BY <2>1, <2>2
<1>18. ASSUME NEW c \in Conns, maybeAutoStartMatch(c)
       PROVE  PresenceOf(p)'
  <2>1. UNCHANGED <<server, reports>> /\ Return(c) /\ pump[c].pc = "start"
    BY <1>18 DEF maybeAutoStartMatch
  <2>2. Quiet(p)
    BY <1>18, StartDoes DEF Quiet, LiveIn, Exists
  <2>3. /\ pump'[c].pc = "idle" /\ pump'[c].player = None
        /\ \A d \in Conns : d # c => pump'[d] = pump[d]
    BY <2>1, ReturnDoes
  <2>. QED
    BY <1>8, <2>1, <2>2, <2>3
<1>19. ASSUME NEW r \in reports, ReportDisconnected(r)
       PROVE  PresenceOf(p)'
  <2>1. CASE r.player = p
    BY <1>2, <1>19, <2>1, PresenceReported
  <2>2. CASE r.player # p
    <3>1. /\ UNCHANGED server /\ UNCHANGED pump /\ r.player \in Players
          /\ setPlayerConnected(r.match, r.player, FALSE)
      BY <1>19, ReportDoes DEF ReportDisconnected
    <3>2. Quiet(p)
      BY <2>2, <3>1, QuietFlag
    <3>3. ReportsOf(p)' = ReportsOf(p)
      BY <1>19, <2>2 DEF ReportDisconnected, ReportsOf
    <3>4. JoinsKeep(p)
      BY <1>2, <3>1, PumpsKeep
    <3>. QED
      BY <1>2, <3>1, <3>2, <3>3, <3>4, PresenceFrame DEF server
  <2>. QED
    BY <2>1, <2>2
<1>20. ASSUME NEW m, GameOver(m)
       PROVE  PresenceOf(p)'
  <2>1. UNCHANGED <<server, reports>> /\ UNCHANGED pump
    BY <1>20 DEF GameOver
  <2>2. Quiet(p)
    BY <1>20, GameOverDoes DEF Quiet, LiveIn, Exists
  <2>3. JoinsKeep(p)
    BY <1>2, <2>1, PumpsKeep
  <2>. QED
    BY <1>3, <2>1, <2>2, <2>3
<1>21. CASE UNCHANGED vars
  <2>1. UNCHANGED <<server, reports>> /\ UNCHANGED pump /\ UNCHANGED matches
    BY <1>21 DEF vars, manager
  <2>2. JoinsKeep(p) /\ Quiet(p)
    BY <1>2, <2>1, PumpsKeep, QuietSame
  <2>. QED
    BY <1>3, <2>1, <2>2
<1>. QED
  BY <1>5, <1>6, <1>7, <1>11, <1>12, <1>13, <1>14, <1>15, <1>16, <1>17, <1>18, <1>19, <1>20,
     <1>21, SessionsCases

-----------------------------------------------------------------------------
(* The theorems *)

LEMMA SessionsInit ==
    ASSUME Init
    PROVE  SessionsInv
<1>1. /\ [Unbound EXCEPT !.state = "unused"] \in Connections
      /\ [Unbound EXCEPT !.state = "unused"].player = None
      /\ [Unbound EXCEPT !.state = "unused"].state = "unused"
  BY DEF Unbound, Connections
<1>2. /\ Idle \in Pumps /\ Idle.pc = "idle"
  BY IdleTyped
<1>3. /\ matches \in Seq(Matches) /\ Len(matches) = 0 /\ DOMAIN matches = {}
  BY DEF Init
<1>4. /\ \A c \in Conns : /\ conns[c].state = "unused" /\ conns[c].player = None
                           /\ pump[c].pc = "idle"
      /\ \A p \in Players : playerToConnection[p] = None /\ playerToMatch[p] = 0
      /\ reports = {}
  BY <1>1, <1>2 DEF Init
<1>5. SessionsTypeOK
  BY <1>1, <1>2, <1>3 DEF Init, SessionsTypeOK
<1>6. BindingsAgree
  <2>1. \A m \in 1 .. MaxMatches : matchToConnections[m] = {}
    BY DEF Init
  <2>. QED
    BY <1>4, <2>1 DEF BindingsAgree
<1>7. HandlerInv /\ OneOpenLobby /\ MemberInv
  BY <1>3, <1>4 DEF HandlerInv, HandlerOf, OneOpenLobby, MemberInv
<1>8. PresenceInv
  <2>1. \A p \in Players : JoinsOf(p) = {} /\ ReportsOf(p) = {}
    BY <1>4 DEF JoinsOf, ReportsOf
  <2>. QED
    BY <1>3, <2>1 DEF PresenceInv, PresenceOf
<1>. QED
  BY <1>5, <1>6, <1>7, <1>8 DEF SessionsInv

\* The inductive invariant: the types, the server's indexes, what every handler knows
\* of its match, one open lobby in a region, the manager's members, and the presence of
\* every undisturbed player while joins and closes are under way.
THEOREM SessionsInvariant == Spec => []SessionsInv
<1>1. Init => SessionsInv
  BY SessionsInit
<1>2. SessionsInv /\ [Next]_vars => SessionsInv'
  <2>1. SUFFICES ASSUME SessionsInv, [Next]_vars
                 PROVE  SessionsInv'
    OBVIOUS
  <2>2. SessionsTypeOK /\ BindingsAgree /\ HandlerInv /\ OneOpenLobby /\ MemberInv /\ PresenceInv
    BY <2>1 DEF SessionsInv
  <2>3. SessionsTypeOK' /\ BindingsAgree' /\ HandlerInv' /\ OneOpenLobby' /\ MemberInv' /\ PresenceInv'
    BY <2>1, <2>2, TypeStep, ServerStep, HandlerStep, OneOpenStep, MemberStep, PresenceStep
  <2>. QED
    BY <2>3 DEF SessionsInv
<1>. QED
  BY <1>1, <1>2, PTL DEF Spec

\* The server's indexes say what its connections say, however many connections, players
\* and matches there are: a player has one connection, it is open and speaks for that
\* player, and a match's broadcasts go to the open connections bound to it
\* (bindConnection, unregisterConnection).
THEOREM BindingsCorrect == Spec => []BindingsAgree
<1>1. SessionsInv => BindingsAgree
  BY DEF SessionsInv
<1>. QED
  BY <1>1, SessionsInvariant, PTL

\* A player is shown as connected exactly while connected, once no join and no close of
\* the player is under way, unless two of them overlapped (bindConnection,
\* unregisterConnection, SetPlayerConnected).
THEOREM PresenceCorrect == Spec => []PresenceExact
<1>1. SessionsInv => PresenceExact
  <2>1. SUFFICES ASSUME SessionsInv, NEW p \in Players \ disturbed, NEW m \in DOMAIN matches,
                        matches[m].status # "game_over", p \in matches[m].players,
                        JoinsOf(p) = {}, ReportsOf(p) = {}
                 PROVE  p \in matches[m].connected <=> playerToConnection[p] # None
    BY DEF PresenceExact
  <2>2. PresenceOf(p) /\ LiveIn(p, m)
    BY <2>1 DEF SessionsInv, PresenceInv, LiveIn, Exists
  <2>3. ~JoinAt(p, {"bind", "mark", "drain"})
    BY <2>1 DEF JoinAt
  <2>. QED
    BY <2>1, <2>2, <2>3 DEF PresenceOf
<1>. QED
  BY <1>1, SessionsInvariant, PTL

\* A region never has two lobbies that can be joined, whatever the requests and however
\* joins, refusals, starts and second choices interleave (FindOrCreateLobbyForRequest).
THEOREM LobbiesNotScattered == Spec => []OneOpenLobby
<1>1. SessionsInv => OneOpenLobby
  BY DEF SessionsInv
<1>. QED
  BY <1>1, SessionsInvariant, PTL

=============================================================================
