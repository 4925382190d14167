--------------------------- MODULE ClientAppProofs --------------------------
(***************************************************************************)
(* Proofs about Prediction and ClientApp, for any bounds of a behaviour,   *)
(* any set of keys, and any depth of the queues and channels.              *)
(***************************************************************************)
EXTENDS ClientApp, SequenceTheorems, WellFoundedInduction, TLAPS

-----------------------------------------------------------------------------
(* Numbers *)

LEMMA GreatestExists ==
    ASSUME NEW n \in Nat, NEW S \in SUBSET (0 .. n), S # {}
    PROVE  \E x \in S : \A y \in S : y <= x
<1> DEFINE T == {n - x : x \in S}
<1>1. PICK x0 \in S : TRUE
  OBVIOUS
<1>2. T \in SUBSET Nat /\ n - x0 \in T
  OBVIOUS
<1>3. PICK m \in T : \A k \in T : ~(<<k, m>> \in OpToRel(<, Nat))
  BY <1>2, NatLessThanWellFounded, WFMin, Zenon
<1>4. PICK x \in S : m = n - x
  OBVIOUS
<1>5. ASSUME NEW y \in S
      PROVE  y <= x
  <2>1. n - y \in T /\ n - y \in Nat /\ m \in Nat
    BY <1>2
  <2>2. ~(<<n - y, m>> \in OpToRel(<, Nat))
    BY <1>3, <2>1
  <2>3. ~(n - y < m)
    BY <2>1, <2>2, Zenon DEF OpToRel
  <2>. QED
    BY <1>4, <2>1, <2>3
<1>. QED
  BY <1>5

LEMMA MaxFacts ==
    ASSUME NEW n \in Nat, NEW S \in SUBSET (0 .. n), S # {}
    PROVE  MaxOf(S) \in S /\ MaxOf(S) \in Nat /\ \A m \in S : m <= MaxOf(S)
<1>1. \E x \in S : \A y \in S : y <= x
  BY GreatestExists
<1>2. MaxOf(S) \in S /\ \A m \in S : m <= MaxOf(S)
  BY <1>1 DEF MaxOf
<1>3. \A x \in S : x \in Nat
  OBVIOUS
<1>. QED
  BY <1>2, <1>3

-----------------------------------------------------------------------------
(* What the type invariant says of each part of the state *)

LEMMA BoundFacts ==
    ASSUME ClientInv
    PROVE  /\ bound.sessions \in Nat /\ bound.commands \in Nat /\ tick \in Nat /\ process \in Nat
           /\ 0 \notin Ids /\ Ids \subseteq Nat
<1>1. bound \in Bounds /\ tick \in Nat /\ process \in Nat
  BY DEF ClientInv, ClientTypeOK
<1>2. bound.sessions \in Nat /\ bound.commands \in Nat
  BY <1>1, PredictionAssumption
<1>. QED
  BY <1>1, <1>2 DEF Ids

LEMMA SessionFacts ==
    ASSUME NEW s \in SessionRecords
    PROVE  /\ s.state \in {"none", "open", "lost", "closed"} /\ s.player \in BOOLEAN
           /\ s.err \in BOOLEAN /\ s.tick \in Nat /\ s.running \in BOOLEAN
           /\ s.sent \in Seq(CommandRecords)
BY DEF SessionRecords

LEMMA ShellFacts ==
    ASSUME NEW s \in ShellRecords
    PROVE  /\ s.history \in Seq(Nat) /\ s.pending \subseteq CommandRecords /\ s.player \in BOOLEAN
           /\ s.lastReconciledTick \in Nat /\ s.nextClientSeq \in Nat
           /\ s.lastMoveTargetTick \in Nat /\ s.lastAimTargetTick \in Nat /\ s.paused \in BOOLEAN
BY DEF ShellRecords

LEMMA AppFacts ==
    ASSUME NEW a \in AppRecords
    PROVE  /\ a.pc \in {"async", "update", "accept", "draw", "build"} /\ a.stage \in Stages
           /\ a.lastStage \in Stages /\ a.meta \in Nat /\ a.connectAttemptID \in Nat
           /\ a.lobbyFetchAttemptID \in Nat /\ a.session \in Nat /\ a.lobbies \in BOOLEAN
           /\ a.lastClientSeq \in Nat
BY DEF AppRecords

LEMMA CommandFacts ==
    ASSUME NEW c \in CommandRecords
    PROVE  c.seq \in Nat /\ c.by \in Nat /\ c.type \in {"move", "aim", "act"} /\ c.target \in Nat
BY DEF CommandRecords

LEMMA PlacedFacts ==
    ASSUME NEW c \in PlacedRecords
    PROVE  c.seq \in Nat /\ c.by \in Nat /\ c.at \in Nat
BY DEF PlacedRecords

\* The acknowledgement of any snapshot is a number that was issued, or 0.
LEMMA AckFacts ==
    ASSUME ClientInv, NEW t
    PROVE  AckAt(t) \in 0 .. bound.commands
<1> DEFINE S == {0} \cup {c.seq : c \in {d \in applied : d.at <= t}}
<1>1. bound.commands \in Nat
  BY BoundFacts
<1>2. ASSUME NEW d \in applied
      PROVE  d.seq \in 0 .. bound.commands
  <2>1. PICK c \in issued : Same(c, d)
    BY DEF ClientInv, PlacedInv
  <2>2. c.seq \in Nat /\ c.seq <= bound.commands /\ c.seq = d.seq
    BY <2>1, CommandFacts DEF ClientInv, ClientTypeOK, IssuedInv, Same
  <2>. QED
    BY <1>1, <2>2
<1>3. S \in SUBSET (0 .. bound.commands) /\ S # {}
  BY <1>1, <1>2
<1>4. AckAt(t) = MaxOf(S)
  BY DEF AckAt
<1> HIDE DEF S
<1>5. MaxOf(S) \in S
  BY <1>1, <1>3, MaxFacts
<1>. QED
  BY <1>3, <1>4, <1>5

-----------------------------------------------------------------------------
(* The commands through a step *)

CommandsOK == IssuedInv /\ PlacedInv /\ SentInv

\* Nothing is sent, and what is under way stays so or is lost.
SentKept ==
    \A i \in Ids : /\ sessions'[i].sent \in {sessions[i].sent, <<>>}
                   /\ sessions'[i].tick \in 0 .. tick'

LEMMA SentStays ==
    ASSUME ClientInv, bound' = bound, issued' = issued, SentKept,
           scheduled' \cup applied' = scheduled \cup applied
    PROVE  SentInv'
<1>1. Ids' = Ids /\ tick \in Nat /\ SentInv
  BY BoundFacts DEF Ids, ClientInv
<1>2. \A i \in Ids : \A k \in DOMAIN sessions'[i].sent :
          sessions'[i].sent = sessions[i].sent
  BY DEF SentKept
<1>3. \A i \in Ids : sessions'[i].tick <= tick'
  BY DEF SentKept
<1>4. \A i \in Ids : Len(sessions'[i].sent) <= SendQueueDepth
  <2>1. Len(<<>>) <= SendQueueDepth
    BY PredictionAssumption
  <2>. QED
    BY <1>1, <2>1 DEF SentKept, SentInv
<1>5. ASSUME NEW i \in Ids, NEW k \in DOMAIN sessions'[i].sent
      PROVE  /\ sessions'[i].sent[k] \in issued'
             /\ \A d \in scheduled' \cup applied' : ~Same(sessions'[i].sent[k], d)
             /\ \A j \in Ids : \A l \in DOMAIN sessions'[j].sent :
                   Same(sessions'[i].sent[k], sessions'[j].sent[l]) => i = j /\ k = l
  <2>1. sessions'[i].sent = sessions[i].sent /\ k \in DOMAIN sessions[i].sent
    BY <1>2
  <2>. QED
    BY <1>1, <1>2, <2>1 DEF SentInv
<1>. QED
  BY <1>1, <1>3, <1>4, <1>5 DEF SentInv, Same

\* A step that issues no command and places none.
LEMMA CommandsStay ==
    ASSUME ClientInv, bound' = bound, issued' = issued, SentKept,
           scheduled' \cup applied' = scheduled \cup applied, tick' \in {tick, tick + 1},
           \/ process' = process /\ app'.lastClientSeq = app.lastClientSeq
           \/ process' = process + 1
    PROVE  CommandsOK'
<1>1. SentInv'
  BY SentStays
<1>2. PlacedInv'
  BY DEF ClientInv, PlacedInv, Same
<1>3. IssuedInv'
  <2>1. /\ tick \in Nat /\ process \in Nat /\ IssuedInv
        /\ \A c \in issued : c.seq \in Nat /\ c.by \in Nat /\ c.target \in Nat
    BY BoundFacts, CommandFacts DEF ClientInv, ClientTypeOK
  <2>2. ASSUME NEW c \in issued
        PROVE  /\ c.seq <= bound'.commands /\ c.by <= process' /\ c.target <= tick' + 1
               /\ c.by = process' => c.seq <= app'.lastClientSeq
    <3>1. /\ c.seq <= bound.commands /\ c.by <= process /\ c.target <= tick + 1
          /\ c.by = process => c.seq <= app.lastClientSeq
      BY <2>1 DEF IssuedInv
    <3>2. c.target <= tick' + 1
      BY <2>1, <3>1
    <3>3. CASE process' = process /\ app'.lastClientSeq = app.lastClientSeq
      BY <3>1, <3>2, <3>3
    <3>4. CASE process' = process + 1
      BY <2>1, <3>1, <3>2, <3>4
    <3>. QED
      BY <3>3, <3>4
  <2>. QED
    BY <2>1, <2>2 DEF IssuedInv, Same
<1>. QED
  BY <1>1, <1>2, <1>3 DEF CommandsOK

-----------------------------------------------------------------------------
(* The parts of the invariant *)

ServerOK ==
    /\ bound \in Bounds /\ running \in BOOLEAN /\ tick \in Nat /\ process \in Nat
    /\ issued \subseteq CommandRecords
    /\ scheduled \subseteq PlacedRecords /\ applied \subseteq PlacedRecords

SessionsOK == sessions \in [Ids -> SessionRecords]

ShellOK == shell \in ShellRecords \cup {NoShell} /\ ShellInv

AppOK == app \in AppRecords

ChannelsOK ==
    /\ attempts \in Seq(AttemptRecords) /\ Len(attempts) <= bound.sessions
    /\ fetching \subseteq Nat
    /\ connectResults \in Seq([id : Nat, ok : BOOLEAN])
    /\ lobbyFetchResults \in Seq([id : Nat, ok : BOOLEAN, lobbies : BOOLEAN])

AttemptsOK == AttemptInv /\ NoSessionLeak

LEMMA InvParts ==
    ClientInv <=> /\ ServerOK /\ SessionsOK /\ ShellOK /\ AppOK /\ ChannelsOK /\ CommandsOK
                  /\ AttemptsOK
BY DEF ClientInv, ClientTypeOK, ServerOK, SessionsOK, ShellOK, AppOK, ChannelsOK, CommandsOK,
       AttemptsOK

StepOK ==
    /\ ServerOK' /\ SessionsOK' /\ ShellOK' /\ AppOK' /\ ChannelsOK' /\ CommandsOK' /\ AttemptsOK'

LEMMA InvNext == StepOK => ClientInv'
BY DEF StepOK, ClientInv, ClientTypeOK, ServerOK, SessionsOK, ShellOK, AppOK, ChannelsOK,
       CommandsOK, AttemptsOK

\* No session begins, and none that is closed opens again.
StatesKept ==
    \A i \in Ids : /\ sessions'[i].state = "none" <=> sessions[i].state = "none"
                   /\ sessions'[i].state \in {"open", "lost"} => sessions[i].state \in {"open", "lost"}

\* Attempts that have ended stay so, and the session the application leaves is closed.
LEMMA AttemptsStay ==
    ASSUME ClientInv, bound' = bound, StatesKept, connectResults' = connectResults,
           \A i \in DOMAIN attempts : /\ i \in DOMAIN attempts'
                                      /\ attempts[i].pc = "done" => attempts'[i].pc = "done",
           \/ app'.session = app.session
           \/ /\ app'.session = 0
              /\ app.session # 0 => sessions'[app.session].state \notin {"open", "lost"}
    PROVE  AttemptsOK'
<1>1. Ids' = Ids /\ AttemptInv /\ NoSessionLeak /\ 0 \notin Ids
      /\ attempts \in Seq(AttemptRecords) /\ Len(attempts) <= bound.sessions
      /\ Len(attempts) \in Nat /\ bound.sessions \in Nat
  BY BoundFacts, LenProperties DEF Ids, ClientInv, ClientTypeOK
<1>2. DOMAIN attempts \subseteq Ids
  BY <1>1, LenProperties DEF Ids
<1>3. app'.session # 0 => app'.session \in Ids /\ sessions'[app'.session].state # "none"
  BY <1>1 DEF AttemptInv, StatesKept
<1>4. \A i \in Ids : (i \in DOMAIN attempts' => attempts'[i].pc # "done")
                        => sessions'[i].state = "none"
  BY <1>1 DEF AttemptInv, StatesKept
<1>5. \A k \in DOMAIN connectResults :
          /\ connectResults[k].id \in DOMAIN attempts'
          /\ attempts'[connectResults[k].id].pc = "done"
          /\ connectResults[k].ok <=> sessions'[connectResults[k].id].state # "none"
  BY <1>1, <1>2 DEF AttemptInv, StatesKept
<1>6. ASSUME NEW i \in Ids, sessions'[i].state \in {"open", "lost"}
      PROVE  i = app'.session \/ \E k \in DOMAIN connectResults : connectResults[k].id = i
  <2>1. i = app.session \/ \E k \in DOMAIN connectResults : connectResults[k].id = i
    BY <1>1, <1>6 DEF StatesKept, NoSessionLeak
  <2>. QED
    BY <1>1, <1>6, <2>1
<1>. QED
  BY <1>1, <1>3, <1>4, <1>5, <1>6 DEF AttemptsOK, AttemptInv, NoSessionLeak

LEMMA SameDomain ==
    ASSUME attempts' = attempts
    PROVE  \A i \in DOMAIN attempts : /\ i \in DOMAIN attempts'
                                      /\ attempts[i].pc = "done" => attempts'[i].pc = "done"
OBVIOUS

\* Sessions that are not touched.
LEMMA SessionsSame ==
    ASSUME ClientInv, sessions' = sessions, bound' = bound, tick' \in {tick, tick + 1}
    PROVE  SessionsOK' /\ SentKept /\ StatesKept
<1>1. Ids' = Ids /\ sessions \in [Ids -> SessionRecords] /\ tick \in Nat /\ SentInv
  BY BoundFacts DEF Ids, ClientInv, ClientTypeOK
<1>2. \A i \in Ids : sessions[i].tick \in Nat /\ sessions[i].tick <= tick
  BY <1>1, SessionFacts DEF SentInv
<1>. QED
  BY <1>1, <1>2 DEF SessionsOK, SentKept, StatesKept

\* Session i becomes s, which has sent no more.
LEMMA OneSession ==
    ASSUME ClientInv, NEW i \in Ids, NEW s \in SessionRecords, bound' = bound, tick' = tick,
           sessions' = [sessions EXCEPT ![i] = s], s.sent \in {sessions[i].sent, <<>>},
           s.tick <= tick
    PROVE  /\ SessionsOK' /\ SentKept /\ sessions'[i] = s
           /\ \A j \in Ids \ {i} : sessions'[j] = sessions[j]
<1>1. Ids' = Ids /\ sessions \in [Ids -> SessionRecords] /\ tick \in Nat /\ SentInv
  BY BoundFacts DEF Ids, ClientInv, ClientTypeOK
<1>2. \A j \in Ids : sessions[j].tick \in Nat /\ sessions[j].tick <= tick
  BY <1>1, SessionFacts DEF SentInv
<1>3. s.tick \in Nat
  BY SessionFacts
<1>. QED
  BY <1>1, <1>2, <1>3 DEF SessionsOK, SentKept

\* A step of the network or of the server that places no command.
LEMMA QuietNetwork ==
    ASSUME ClientInv, UNCHANGED <<bound, shell, process, issued>>, UNCHANGED <<app, channels>>,
           ServerOK', SessionsOK', SentKept, StatesKept, tick' \in {tick, tick + 1},
           scheduled' \cup applied' = scheduled \cup applied
    PROVE  StepOK
<1>1. UNCHANGED <<attempts, fetching, connectResults, lobbyFetchResults>>
  BY DEF channels
<1>2. CommandsOK'
  BY CommandsStay
<1>3. AttemptsOK'
  BY <1>1, AttemptsStay
<1>4. ShellOK' /\ AppOK' /\ ChannelsOK'
  BY <1>1, InvParts DEF ShellOK, ShellInv, AppOK, ChannelsOK
<1>. QED
  BY <1>2, <1>3, <1>4 DEF StepOK

LEMMA ServerStep ==
    ASSUME ClientInv, StartMatch \/ ServerTick, UNCHANGED <<app, channels>>
    PROVE  StepOK
<1>1. ServerOK /\ tick \in Nat
  BY InvParts, BoundFacts
<1>2. /\ UNCHANGED <<bound, shell, process, issued>> /\ sessions' = sessions
      /\ running' \in BOOLEAN /\ tick' \in {tick, tick + 1}
      /\ scheduled' \cup applied' = scheduled \cup applied
  <2>1. CASE StartMatch
    BY <1>1, <2>1 DEF StartMatch, ServerOK
  <2>2. CASE ServerTick
    BY <1>1, <2>2 DEF ServerTick, ServerOK
  <2>. QED
    BY <2>1, <2>2
<1>3. ServerOK'
  BY <1>1, <1>2 DEF ServerOK
<1>4. SessionsOK' /\ SentKept /\ StatesKept
  BY <1>2, SessionsSame
<1>. QED
  BY <1>2, <1>3, <1>4, QuietNetwork

LEMMA SessionStep ==
    ASSUME ClientInv, NEW i \in Ids, NEW failed \in BOOLEAN, UNCHANGED <<app, channels>>,
           onAuthoritativeSnapshot(i) \/ LoseConnection(i, failed) \/ LoseSent(i, failed)
    PROVE  StepOK
<1>1. /\ UNCHANGED <<bound, running, tick, scheduled, applied>>
      /\ UNCHANGED <<bound, shell, process, issued>>
  BY DEF onAuthoritativeSnapshot, LoseConnection, LoseSent, serverVars
<1>2. ServerOK /\ tick \in Nat /\ SentInv /\ sessions \in [Ids -> SessionRecords]
  BY InvParts, BoundFacts DEF SessionsOK, CommandsOK
<1>3. sessions[i] \in SessionRecords /\ sessions[i].tick <= tick /\ sessions[i].tick \in Nat
      /\ sessions[i].sent \in Seq(CommandRecords)
  BY <1>2, SessionFacts DEF SentInv
<1>4. ServerOK'
  BY <1>1, <1>2 DEF ServerOK
<1>5. PICK s \in SessionRecords :
          /\ sessions' = [sessions EXCEPT ![i] = s] /\ s.sent \in {sessions[i].sent, <<>>}
          /\ s.tick <= tick /\ s.state # "none" /\ sessions[i].state # "none"
          /\ s.state \in {"open", "lost"} => sessions[i].state \in {"open", "lost"}
  <2>1. CASE onAuthoritativeSnapshot(i)
    <3>1. PICK t \in sessions[i].tick .. tick :
              sessions' = [sessions EXCEPT ![i].tick = t, ![i].running = TRUE]
      BY <2>1 DEF onAuthoritativeSnapshot
    <3>0. t \in Nat /\ t <= tick
      <4>1. PICK n \in Nat : n = sessions[i].tick
        BY <1>3
      <4>. QED
        BY <1>2, <4>1
    <3> DEFINE s == [sessions[i] EXCEPT !.tick = t, !.running = TRUE]
    <3>2. sessions' = [sessions EXCEPT ![i] = s]
      BY <1>2, <3>1
    <3>3. s \in SessionRecords /\ s.tick = t /\ s.sent = sessions[i].sent /\ s.state = sessions[i].state
      BY <1>3, <3>0 DEF SessionRecords
    <3>4. sessions[i].state = "open"
      BY <2>1 DEF onAuthoritativeSnapshot
    <3> HIDE DEF s
    <3>. QED
      BY <3>0, <3>2, <3>3, <3>4
  <2>2. CASE LoseConnection(i, failed)
    <3> DEFINE s == [sessions[i] EXCEPT !.state = "lost", !.err = sessions[i].err \/ failed]
    <3>1. sessions' = [sessions EXCEPT ![i] = s] /\ sessions[i].state = "open"
      BY <1>2, <2>2 DEF LoseConnection
    <3>2. s \in SessionRecords /\ s.tick = sessions[i].tick /\ s.sent = sessions[i].sent /\ s.state = "lost"
      BY <1>3 DEF SessionRecords
    <3> HIDE DEF s
    <3>. QED
      BY <1>3, <3>1, <3>2
  <2>3. CASE LoseSent(i, failed)
    <3> DEFINE s == [sessions[i] EXCEPT !.sent = <<>>, !.err = sessions[i].err \/ failed]
    <3>1. sessions' = [sessions EXCEPT ![i] = s] /\ sessions[i].state \in {"lost", "closed"}
      BY <1>2, <2>3 DEF LoseSent
    <3>2. s \in SessionRecords /\ s.tick = sessions[i].tick /\ s.sent = <<>> /\ s.state = sessions[i].state
      <4>1. <<>> \in Seq(CommandRecords)
        OBVIOUS
      <4>. QED
        BY <1>3, <4>1 DEF SessionRecords
    <3> HIDE DEF s
    <3>. QED
      BY <1>3, <3>1, <3>2
  <2>. QED
    BY <2>1, <2>2, <2>3
<1>6. /\ SessionsOK' /\ SentKept /\ sessions'[i] = s
      /\ \A j \in Ids \ {i} : sessions'[j] = sessions[j]
  BY <1>1, <1>5, OneSession
<1>7. StatesKept
  BY <1>5, <1>6 DEF StatesKept
<1>. QED
  BY <1>1, <1>4, <1>6, <1>7, QuietNetwork

\* The server moves a command to a later tick, never to an earlier one: no client aims
\* past the next tick.
LEMMA ScheduledFacts ==
    ASSUME tick \in Nat, NEW c \in CommandRecords, c.target <= tick + 1
    PROVE  scheduledTick(c) \in Nat /\ c.target <= scheduledTick(c)
<1>1. PICK t \in Nat : t = c.target /\ t <= tick + 1
  BY CommandFacts
<1>2. scheduledTick(c) = IF t < tick + 1 THEN tick + 1 ELSE t
  BY <1>1 DEF scheduledTick
<1>. QED
  BY <1>1, <1>2

LEMMA SubmitStep ==
    ASSUME ClientInv, NEW i \in Ids, NEW barred \in BOOLEAN, UNCHANGED <<app, channels>>,
           SubmitInput(i, barred)
    PROVE  StepOK
<1> DEFINE q == sessions[i].sent
           c == Head(q)
           refused == barred \/ Seen(c.seq) \/ TooLate(c)
           placed == IF refused THEN {}
                     ELSE {[seq |-> c.seq, by |-> c.by, type |-> c.type, at |-> scheduledTick(c)]}
<1>1. /\ UNCHANGED <<bound, running, tick, applied, shell, process, issued>>
      /\ UNCHANGED <<attempts, fetching, connectResults, lobbyFetchResults>>
      /\ q # <<>> /\ scheduled' = scheduled \cup placed
      /\ sessions' = [sessions EXCEPT ![i].sent = Tail(@), ![i].err = @ \/ refused]
  BY DEF SubmitInput, channels
<1>2. /\ ServerOK /\ tick \in Nat /\ IssuedInv /\ PlacedInv /\ SentInv
      /\ sessions \in [Ids -> SessionRecords] /\ issued \subseteq CommandRecords /\ Ids' = Ids
  BY <1>1, InvParts, BoundFacts DEF SessionsOK, CommandsOK, ServerOK, Ids
<1>3. sessions[i] \in SessionRecords /\ q \in Seq(CommandRecords)
  BY <1>2, SessionFacts
<1>4. /\ Len(q) \in Nat \ {0} /\ DOMAIN q = 1 .. Len(q) /\ c = q[1] /\ Tail(q) \in Seq(CommandRecords)
      /\ Len(Tail(q)) = Len(q) - 1 /\ DOMAIN Tail(q) = 1 .. Len(q) - 1
      /\ \A k \in 1 .. Len(q) - 1 : Tail(q)[k] = q[k + 1]
  <2>1. Len(q) \in Nat /\ Len(q) # 0 /\ DOMAIN q = 1 .. Len(q)
    BY <1>1, <1>3, EmptySeq, LenProperties
  <2>. QED
    BY <1>1, <1>3, <2>1, HeadTailProperties, LenProperties
<1>5. 1 \in DOMAIN q /\ c \in issued
  BY <1>2, <1>4 DEF SentInv
<1>6. /\ c \in CommandRecords /\ c.seq \in Nat /\ c.by \in Nat /\ c.type \in {"move", "aim", "act"}
      /\ c.target <= tick + 1
  BY <1>2, <1>5, CommandFacts DEF IssuedInv
<1>7. scheduledTick(c) \in Nat /\ c.target <= scheduledTick(c)
  BY <1>2, <1>6, ScheduledFacts
<1>8. \A d \in placed : d \in PlacedRecords /\ Same(c, d) /\ c.target <= d.at
  BY <1>6, <1>7 DEF PlacedRecords, Same
<1> HIDE DEF placed
<1>9. ServerOK'
  BY <1>1, <1>2, <1>8 DEF ServerOK
<1>10. PICK s \in SessionRecords :
           /\ sessions' = [sessions EXCEPT ![i] = s] /\ s.sent = Tail(q)
           /\ s.tick = sessions[i].tick /\ s.state = sessions[i].state
  <2>1. PICK e \in BOOLEAN : e = (sessions[i].err \/ refused)
    OBVIOUS
  <2> HIDE DEF refused
  <2> DEFINE s == [sessions[i] EXCEPT !.sent = Tail(q), !.err = e]
  <2>2. sessions' = [sessions EXCEPT ![i] = s]
    BY <1>1, <1>2, <2>1
  <2>3. /\ s \in SessionRecords /\ s.sent = Tail(q) /\ s.tick = sessions[i].tick
        /\ s.state = sessions[i].state
    BY <1>3, <1>4 DEF SessionRecords
  <2> HIDE DEF s
  <2>. QED
    BY <2>2, <2>3
<1>11. /\ SessionsOK' /\ sessions'[i] = s
       /\ \A j \in Ids \ {i} : sessions'[j] = sessions[j]
  BY <1>2, <1>10 DEF SessionsOK
<1>12. StatesKept
  BY <1>10, <1>11 DEF StatesKept
<1>13. AttemptsOK'
  BY <1>1, <1>12, AttemptsStay
<1>14. ShellOK' /\ AppOK' /\ ChannelsOK'
  BY <1>1, InvParts DEF ShellOK, ShellInv, AppOK, ChannelsOK
<1>15. IssuedInv'
  BY <1>1, <1>2 DEF IssuedInv, Same
<1>16. PlacedInv'
  <2>1. ASSUME NEW d \in scheduled' \cup applied'
        PROVE  \E x \in issued : Same(x, d) /\ x.target <= d.at
    <3>1. CASE d \in scheduled \cup applied
      BY <1>2, <3>1 DEF PlacedInv
    <3>2. CASE d \in placed
      BY <1>5, <1>8, <3>2
    <3>. QED
      BY <1>1, <2>1, <3>1, <3>2
  <2>. QED
    BY <1>1, <2>1 DEF PlacedInv, Same
<1> HIDE DEF c, q
<1>17. ASSUME NEW j \in Ids, NEW k \in DOMAIN sessions'[j].sent
       PROVE  \E n \in DOMAIN sessions[j].sent :
                 /\ sessions'[j].sent[k] = sessions[j].sent[n]
                 /\ n = IF j = i THEN k + 1 ELSE k
                 /\ j = i => n # 1
  <2>1. CASE j = i
    <3>1. k \in 1 .. Len(q) - 1 /\ sessions'[j].sent = Tail(q) /\ sessions[j].sent = q
      BY <1>4, <1>10, <1>11, <1>17, <2>1 DEF q
    <3>2. k + 1 \in DOMAIN q /\ k + 1 # 1 /\ Tail(q)[k] = q[k + 1]
      BY <1>4, <3>1
    <3>. QED
      BY <2>1, <3>1, <3>2
  <2>2. CASE j # i
    BY <1>11, <1>17, <2>2
  <2>. QED
    BY <2>1, <2>2
<1>18. ASSUME NEW j \in Ids, NEW k \in DOMAIN sessions'[j].sent
       PROVE  /\ sessions'[j].sent[k] \in issued'
              /\ \A d \in scheduled' \cup applied' : ~Same(sessions'[j].sent[k], d)
              /\ \A h \in Ids : \A l \in DOMAIN sessions'[h].sent :
                    Same(sessions'[j].sent[k], sessions'[h].sent[l]) => j = h /\ k = l
  <2>1. PICK n \in DOMAIN sessions[j].sent :
            /\ sessions'[j].sent[k] = sessions[j].sent[n]
            /\ n = IF j = i THEN k + 1 ELSE k
            /\ j = i => n # 1
    BY <1>17
  <2> DEFINE m == sessions[j].sent[n]
  <2>2. /\ m \in issued /\ \A d \in scheduled \cup applied : ~Same(m, d)
        /\ \A h \in Ids : \A l \in DOMAIN sessions[h].sent :
              Same(m, sessions[h].sent[l]) => j = h /\ n = l
    BY <1>2 DEF SentInv
  <2>3. ~Same(m, c)
    <3>1. Same(m, sessions[i].sent[1]) => j = i /\ n = 1
      BY <1>5, <2>2 DEF q
    <3>. QED
      BY <1>4, <2>1, <3>1 DEF q
  <2> HIDE DEF m
  <2>4. \A d \in placed : ~Same(m, d)
    BY <1>8, <2>3 DEF Same
  <2>5. \A d \in scheduled' \cup applied' : ~Same(m, d)
    BY <1>1, <2>2, <2>4
  <2>6. ASSUME NEW h \in Ids, NEW l \in DOMAIN sessions'[h].sent, Same(m, sessions'[h].sent[l])
        PROVE  j = h /\ k = l
    <3>1. PICK o \in DOMAIN sessions[h].sent :
              /\ sessions'[h].sent[l] = sessions[h].sent[o]
              /\ o = IF h = i THEN l + 1 ELSE l
      BY <1>17
    <3>2. j = h /\ n = o
      BY <2>2, <2>6, <3>1
    <3>3. CASE j = i
      <4>1. k \in Nat /\ l \in Nat
        BY <1>4, <1>10, <1>11, <2>6, <3>2, <3>3
      <4>. QED
        BY <2>1, <3>1, <3>2, <3>3, <4>1
    <3>4. CASE j # i
      BY <2>1, <3>1, <3>2, <3>4
    <3>. QED
      BY <3>3, <3>4
  <2>7. m \in issued' /\ sessions'[j].sent[k] = m
    BY <1>1, <2>1, <2>2 DEF m
  <2>. QED
    BY <2>5, <2>6, <2>7
<1>19. \A j \in Ids : /\ sessions'[j].tick <= tick'
                      /\ Len(sessions'[j].sent) <= SendQueueDepth
  <2>1. \A j \in Ids : sessions[j].tick <= tick /\ Len(sessions[j].sent) <= SendQueueDepth
    BY <1>2 DEF SentInv
  <2>2. Len(Tail(q)) <= SendQueueDepth
    <3>1. Len(q) <= SendQueueDepth /\ SendQueueDepth \in Nat
      BY <2>1, PredictionAssumption DEF q
    <3>. QED
      BY <1>4, <3>1
  <2>. QED
    BY <1>1, <1>10, <1>11, <2>1, <2>2
<1>20. SentInv'
  BY <1>2, <1>18, <1>19 DEF SentInv, Same
<1>. QED
  BY <1>9, <1>11, <1>13, <1>14, <1>15, <1>16, <1>20 DEF StepOK, CommandsOK

-----------------------------------------------------------------------------
(* Steps of the application *)

LEMMA NetworkStep ==
    ASSUME ClientInv, Network, UNCHANGED <<app, channels>>
    PROVE  StepOK
BY ServerStep, SessionStep, SubmitStep DEF Network

LEMMA NoShellFacts == NoShell \notin ShellRecords
<1>1. DOMAIN NoShell = {"history"}
  BY DEF NoShell
<1>2. \A s \in ShellRecords : "paused" \in DOMAIN s
  BY DEF ShellRecords
<1>. QED
  BY <1>1, <1>2

\* The session of the application, its shell and the results it waits for.
LEMMA Facts ==
    ASSUME ClientInv
    PROVE  /\ app \in AppRecords /\ sessions \in [Ids -> SessionRecords]
           /\ shell \in ShellRecords \cup {NoShell}
           /\ app.session \in Ids \cup {0}
           /\ app.session # 0 => sessions[app.session].state # "none"
           /\ app.pc \in {"accept", "draw", "build"} => shell # NoShell
           /\ shell # NoShell => shell \in ShellRecords /\ app.session \in Ids
           /\ attempts \in Seq(AttemptRecords) /\ Len(attempts) \in Nat
           /\ Len(attempts) <= bound.sessions /\ DOMAIN attempts = 1 .. Len(attempts)
           /\ DOMAIN attempts \subseteq Ids
           /\ connectResults \in Seq([id : Nat, ok : BOOLEAN])
           /\ lobbyFetchResults \in Seq([id : Nat, ok : BOOLEAN, lobbies : BOOLEAN])
           /\ fetching \subseteq Nat /\ bound.sessions \in Nat /\ bound.commands \in Nat
           /\ tick \in Nat /\ 0 \notin Ids
<1>1. /\ app \in AppRecords /\ sessions \in [Ids -> SessionRecords]
      /\ shell \in ShellRecords \cup {NoShell} /\ fetching \subseteq Nat
      /\ attempts \in Seq(AttemptRecords) /\ Len(attempts) <= bound.sessions
      /\ connectResults \in Seq([id : Nat, ok : BOOLEAN])
      /\ lobbyFetchResults \in Seq([id : Nat, ok : BOOLEAN, lobbies : BOOLEAN])
      /\ AttemptInv /\ ShellInv
  BY DEF ClientInv, ClientTypeOK
<1>2. bound.sessions \in Nat /\ bound.commands \in Nat /\ tick \in Nat /\ 0 \notin Ids
  BY BoundFacts
<1>3. Len(attempts) \in Nat /\ DOMAIN attempts = 1 .. Len(attempts)
  BY <1>1, LenProperties
<1>4. DOMAIN attempts \subseteq Ids
  BY <1>1, <1>2, <1>3 DEF Ids
<1>5. /\ app.session # 0 => app.session \in Ids /\ sessions[app.session].state # "none"
      /\ app.pc \in {"accept", "draw", "build"} => shell # NoShell
      /\ shell # NoShell => app.session # 0
  BY <1>1 DEF AttemptInv, ShellInv
<1>. QED
  BY <1>1, <1>2, <1>3, <1>4, <1>5

LEMMA CloseFacts ==
    ASSUME ClientInv, NEW i \in Ids \cup {0}, i # 0 => sessions[i].state # "none",
           sessions' = Close(sessions, i), bound' = bound, tick' = tick
    PROVE  /\ SessionsOK' /\ SentKept /\ StatesKept
           /\ i # 0 => sessions'[i].state = "closed"
<1>1. CASE i = 0
  <2>1. sessions' = sessions
    BY <1>1 DEF Close
  <2>. QED
    BY <1>1, <2>1, SessionsSame
<1>2. CASE i # 0
  <2>1. i \in Ids /\ sessions' = [sessions EXCEPT ![i].state = "closed"]
    BY <1>2 DEF Close
  <2>2. sessions \in [Ids -> SessionRecords] /\ sessions[i] \in SessionRecords /\ SentInv
    BY <2>1, Facts DEF ClientInv
  <2> DEFINE s == [sessions[i] EXCEPT !.state = "closed"]
  <2>3. sessions' = [sessions EXCEPT ![i] = s]
    BY <2>1, <2>2
  <2>4. /\ s \in SessionRecords /\ s.sent = sessions[i].sent /\ s.tick = sessions[i].tick
        /\ s.state = "closed"
    BY <2>2 DEF SessionRecords
  <2> HIDE DEF s
  <2>5. s.tick <= tick
    BY <2>1, <2>2, <2>4 DEF SentInv
  <2>6. /\ SessionsOK' /\ SentKept /\ sessions'[i] = s
        /\ \A j \in Ids \ {i} : sessions'[j] = sessions[j]
    BY <2>1, <2>3, <2>4, <2>5, OneSession
  <2>. QED
    BY <1>2, <2>1, <2>4, <2>6 DEF StatesKept
<1>. QED
  BY <1>1, <1>2

LEMMA CancelFacts ==
    ASSUME ClientInv
    PROVE  /\ cancelActiveConnect(attempts) \in Seq(AttemptRecords)
           /\ Len(cancelActiveConnect(attempts)) = Len(attempts)
           /\ DOMAIN cancelActiveConnect(attempts) = DOMAIN attempts
           /\ \A i \in DOMAIN attempts : cancelActiveConnect(attempts)[i].pc = attempts[i].pc
<1> DEFINE as == cancelActiveConnect(attempts)
<1>1. /\ attempts \in Seq(AttemptRecords) /\ Len(attempts) \in Nat
      /\ DOMAIN attempts = 1 .. Len(attempts)
  BY Facts
<1>2. ASSUME NEW i \in 1 .. Len(attempts)
      PROVE  as[i] \in AttemptRecords /\ as[i].pc = attempts[i].pc
  <2>1. attempts[i] \in AttemptRecords
    BY <1>1, ElementOfSeq
  <2>2. /\ [attempts[i] EXCEPT !.canceled = TRUE] \in AttemptRecords
        /\ [attempts[i] EXCEPT !.canceled = TRUE].pc = attempts[i].pc
    BY <2>1 DEF AttemptRecords
  <2>. QED
    BY <1>1, <2>1, <2>2 DEF cancelActiveConnect
<1>3. as = [i \in 1 .. Len(attempts) |-> as[i]] /\ DOMAIN as = 1 .. Len(attempts)
  BY <1>1 DEF cancelActiveConnect
<1> HIDE DEF as
<1>4. as \in [1 .. Len(attempts) -> AttemptRecords]
  BY <1>2, <1>3
<1>5. as \in Seq(AttemptRecords)
  BY <1>1, <1>4, SeqDef
<1>6. Len(as) = Len(attempts)
  BY <1>1, <1>3, <1>5, LenProperties
<1>. QED
  BY <1>1, <1>2, <1>3, <1>5, <1>6 DEF as

\* A shell starts with nothing pending, past every number of the process.
LEMMA ShellForFacts ==
    ASSUME ClientInv, NEW i \in Ids
    PROVE  /\ ShellFor(i) \in ShellRecords /\ ShellFor(i).pending = {}
           /\ ShellFor(i).player => app.lastClientSeq <= ShellFor(i).nextClientSeq
<1> DEFINE ack == AckAt(sessions[i].tick)
<1>1. sessions[i] \in SessionRecords /\ app \in AppRecords /\ bound.commands \in Nat
  BY Facts
<1>2. ack \in 0 .. bound.commands
  BY AckFacts
<1>3. PICK n \in Nat : n = app.lastClientSeq
  BY <1>1, AppFacts
<1>4. PICK a \in Nat : a = ack
  BY <1>1, <1>2
<1>5. MaxOf({n, a}) \in Nat /\ n <= MaxOf({n, a})
  BY MaxFacts, n + a \in Nat, {n, a} \in SUBSET (0 .. n + a)
<1>6. seedClientSeq(i) \in Nat /\ n <= seedClientSeq(i)
  BY <1>3, <1>4, <1>5 DEF seedClientSeq
<1> DEFINE seed == IF sessions[i].player THEN seedClientSeq(i) ELSE 0
<1>7. seed \in Nat /\ (sessions[i].player => n <= seed)
  BY <1>6
<1> HIDE DEF seed, ack
<1>8. /\ sessions[i].tick \in Nat /\ sessions[i].player \in BOOLEAN
      /\ <<sessions[i].tick>> \in Seq(Nat)
  BY <1>1, SessionFacts
<1>9. NewShell(i, seed) \in ShellRecords
  BY <1>7, <1>8 DEF NewShell, ShellRecords
<1>10. /\ NewShell(i, seed).pending = {} /\ NewShell(i, seed).player = sessions[i].player
       /\ NewShell(i, seed).nextClientSeq = seed
  BY DEF NewShell
<1>11. ShellFor(i) = NewShell(i, seed)
  BY DEF ShellFor, seed
<1>. QED
  BY <1>3, <1>7, <1>9, <1>10, <1>11

\* A step of the client that issues no command.
LEMMA QuietStep ==
    ASSUME ClientInv, UNCHANGED serverVars, issued' = issued, process' \in {process, process + 1},
           process' = process => app'.lastClientSeq = app.lastClientSeq,
           SessionsOK', SentKept, ShellOK', AppOK', ChannelsOK', AttemptsOK'
    PROVE  StepOK
<1>1. UNCHANGED <<bound, running, tick, scheduled, applied>>
  BY DEF serverVars
<1>2. CommandsOK'
  BY <1>1, CommandsStay
<1>3. ServerOK'
  BY <1>1, InvParts DEF ServerOK
<1>. QED
  BY <1>2, <1>3 DEF StepOK

\* One that leaves the sessions and the shell alone.
LEMMA AppStep ==
    ASSUME ClientInv, UNCHANGED <<serverVars, clientVars>>, AppOK', ChannelsOK',
           connectResults' = connectResults,
           \A i \in DOMAIN attempts : /\ i \in DOMAIN attempts'
                                      /\ attempts[i].pc = "done" => attempts'[i].pc = "done",
           app'.session = app.session, app'.lastClientSeq = app.lastClientSeq,
           app'.pc \in {"async", "update"} \/ shell # NoShell
    PROVE  StepOK
<1>1. UNCHANGED <<serverVars, bound, tick, sessions, shell, process, issued>>
  BY DEF serverVars, clientVars
<1>2. SessionsOK' /\ SentKept /\ StatesKept
  BY <1>1, SessionsSame
<1>3. AttemptsOK'
  BY <1>1, <1>2, AttemptsStay
<1>4. ShellOK'
  BY <1>1, InvParts DEF ShellOK, ShellInv
<1>. QED
  BY <1>1, <1>2, <1>3, <1>4, QuietStep

\* One that leaves the session.
LEMMA LeaveStep ==
    ASSUME ClientInv, UNCHANGED <<serverVars, process, issued>>, AppOK', ChannelsOK',
           sessions' = Close(sessions, app.session), shell' = NoShell,
           connectResults' = connectResults,
           \A i \in DOMAIN attempts : /\ i \in DOMAIN attempts'
                                      /\ attempts[i].pc = "done" => attempts'[i].pc = "done",
           app'.session = 0, app'.lastClientSeq = app.lastClientSeq,
           app'.pc \in {"async", "update"}
    PROVE  StepOK
<1>1. bound' = bound /\ tick' = tick
  BY DEF serverVars
<1>2. app.session \in Ids \cup {0} /\ (app.session # 0 => sessions[app.session].state # "none")
  BY Facts
<1>3. /\ SessionsOK' /\ SentKept /\ StatesKept
      /\ app.session # 0 => sessions'[app.session].state = "closed"
  BY <1>1, <1>2, CloseFacts
<1>4. AttemptsOK'
  BY <1>1, <1>3, AttemptsStay
<1>5. ShellOK'
  BY DEF ShellOK, ShellInv
<1>. QED
  BY <1>3, <1>4, <1>5, QuietStep

LEMMA QuietChannels ==
    ASSUME ClientInv, bound' = bound, UNCHANGED channels
    PROVE  /\ ChannelsOK' /\ attempts' = attempts /\ connectResults' = connectResults
BY InvParts DEF ChannelsOK, channels

LEMMA HandshakeStep ==
    ASSUME ClientInv, NEW i \in DOMAIN attempts, Handshake(i)
    PROVE  StepOK
<1>1. /\ UNCHANGED <<serverVars, clientVars, app, fetching, connectResults, lobbyFetchResults>>
      /\ attempts' = [attempts EXCEPT ![i].pc = "reading"] /\ attempts[i].pc = "dialing"
  BY DEF Handshake
<1>2. /\ attempts \in Seq(AttemptRecords) /\ Len(attempts) \in Nat
      /\ DOMAIN attempts = 1 .. Len(attempts) /\ attempts[i] \in AttemptRecords
  BY Facts, ElementOfSeq
<1> DEFINE a == [attempts[i] EXCEPT !.pc = "reading"]
<1>3. a \in AttemptRecords
  BY <1>2 DEF AttemptRecords
<1>4. attempts' = [attempts EXCEPT ![i] = a]
  BY <1>1, <1>2
<1> HIDE DEF a
<1>5. /\ attempts' \in Seq(AttemptRecords) /\ Len(attempts') = Len(attempts)
      /\ DOMAIN attempts' = DOMAIN attempts
      /\ \A j \in DOMAIN attempts : attempts[j].pc = "done" => attempts'[j] = attempts[j]
  <2>1. attempts' \in Seq(AttemptRecords) /\ Len(attempts') = Len(attempts)
    BY <1>2, <1>3, <1>4, ExceptSeq
  <2>2. DOMAIN attempts' = DOMAIN attempts
    BY <1>4
  <2>. QED
    BY <1>1, <1>2, <1>4, <2>1, <2>2
<1>6. ChannelsOK' /\ AppOK' /\ bound' = bound
  BY <1>1, <1>5, InvParts DEF ChannelsOK, AppOK, serverVars
<1>7. app.pc \in {"async", "update"} \/ shell # NoShell
  BY Facts, AppFacts
<1>. QED
  BY <1>1, <1>5, <1>6, <1>7, AppStep

LEMMA FetchStep ==
    ASSUME ClientInv, NEW f \in fetching, FetchLobbies(f)
    PROVE  StepOK
<1> DEFINE R == [id : Nat, ok : BOOLEAN, lobbies : BOOLEAN]
<1>1. /\ UNCHANGED <<serverVars, clientVars, app, attempts, connectResults>>
      /\ fetching' \subseteq fetching
      /\ \E r \in R : lobbyFetchResults' \in {lobbyFetchResults, Append(lobbyFetchResults, r)}
  <2>1. f \in Nat
    BY Facts
  <2>. QED
    BY <2>1 DEF FetchLobbies
<1>2. lobbyFetchResults' \in Seq(R)
  <2>1. PICK r \in R : lobbyFetchResults' \in {lobbyFetchResults, Append(lobbyFetchResults, r)}
    BY <1>1
  <2> HIDE DEF R
  <2>2. lobbyFetchResults \in Seq(R)
    BY Facts DEF R
  <2>. QED
    BY <2>1, <2>2, AppendProperties
<1>3. ChannelsOK' /\ AppOK' /\ bound' = bound
  BY <1>1, <1>2, InvParts DEF ChannelsOK, AppOK, serverVars
<1>4. app.pc \in {"async", "update"} \/ shell # NoShell
  BY Facts, AppFacts
<1>. QED
  BY <1>1, <1>3, <1>4, SameDomain, AppStep

LEMMA TakeFetchStep ==
    ASSUME ClientInv, TakeFetchResult
    PROVE  StepOK
<1> DEFINE R == [id : Nat, ok : BOOLEAN, lobbies : BOOLEAN]
           result == Head(lobbyFetchResults)
<1>1. /\ UNCHANGED <<serverVars, clientVars, attempts, fetching, connectResults>>
      /\ lobbyFetchResults # <<>> /\ lobbyFetchResults' = Tail(lobbyFetchResults)
      /\ app.pc = "async"
  BY DEF TakeFetchResult
<1>2. app \in AppRecords /\ lobbyFetchResults \in Seq(R)
  BY Facts
<1>3. result \in R /\ Tail(lobbyFetchResults) \in Seq(R)
  BY <1>1, <1>2, HeadTailProperties
<1>4. \/ app' = app
      \/ app' = [app EXCEPT !.stage = "error_notice"]
      \/ app' = [app EXCEPT !.lobbies = result.lobbies]
  BY DEF TakeFetchResult, OnConnectError
<1>5. /\ app' \in AppRecords /\ app'.session = app.session
      /\ app'.lastClientSeq = app.lastClientSeq /\ app'.pc = app.pc
  <2>1. result.lobbies \in BOOLEAN
    BY <1>3
  <2> HIDE DEF result
  <2>. QED
    BY <1>2, <1>4, <2>1 DEF AppRecords, Stages
<1>6. ChannelsOK' /\ AppOK' /\ bound' = bound
  BY <1>1, <1>3, <1>5, InvParts DEF ChannelsOK, AppOK, serverVars
<1>. QED
  BY <1>1, <1>5, <1>6, SameDomain, AppStep

\* The program counter and the stage move, and nothing else.
LEMMA GotoStep ==
    ASSUME ClientInv, UNCHANGED <<serverVars, clientVars, channels>>, NEW stage \in Stages,
           app' = [app EXCEPT !.pc = "async", !.stage = stage]
    PROVE  StepOK
<1>1. app \in AppRecords /\ bound' = bound
  BY Facts DEF serverVars
<1>2. /\ app' \in AppRecords /\ app'.session = app.session
      /\ app'.lastClientSeq = app.lastClientSeq /\ app'.pc = "async"
  BY <1>1 DEF AppRecords
<1>3. ChannelsOK' /\ attempts' = attempts /\ connectResults' = connectResults
  BY <1>1, QuietChannels
<1>4. AppOK'
  BY <1>2 DEF AppOK
<1>. QED
  BY <1>2, <1>3, <1>4, SameDomain, AppStep

LEMMA NoKeyStep ==
    ASSUME ClientInv, NoKey
    PROVE  StepOK
<1>1. app \in AppRecords
  BY Facts
<1>2. app' = [app EXCEPT !.pc = "async", !.stage = app.stage] /\ app.stage \in Stages
  BY <1>1 DEF NoKey, AppRecords
<1>3. UNCHANGED <<serverVars, clientVars, channels>>
  BY DEF NoKey
<1>. QED
  BY <1>2, <1>3, GotoStep

LEMMA BackStep ==
    ASSUME ClientInv, BackToMainMenu
    PROVE  StepOK
<1>1. UNCHANGED <<serverVars, clientVars, channels>> /\ "main_menu" \in Stages
  BY DEF BackToMainMenu, Stages
<1>2. app' = [app EXCEPT !.pc = "async", !.stage = "main_menu"]
  BY DEF BackToMainMenu, Goto
<1>. QED
  BY <1>1, <1>2, GotoStep

\* Canceling changes no attempt but in its flag.
LEMMA CanceledStep ==
    ASSUME ClientInv, bound' = bound, attempts' = cancelActiveConnect(attempts),
           UNCHANGED <<fetching, connectResults, lobbyFetchResults>>
    PROVE  /\ ChannelsOK'
           /\ \A i \in DOMAIN attempts : /\ i \in DOMAIN attempts'
                                         /\ attempts[i].pc = "done" => attempts'[i].pc = "done"
<1>1. /\ attempts' \in Seq(AttemptRecords) /\ Len(attempts') = Len(attempts)
      /\ DOMAIN attempts' = DOMAIN attempts
      /\ \A i \in DOMAIN attempts : attempts'[i].pc = attempts[i].pc
  BY CancelFacts, Zenon
<1>2. ChannelsOK
  BY InvParts
<1>3. ChannelsOK'
  BY <1>1, <1>2 DEF ChannelsOK
<1>. QED
  BY <1>1, <1>3

LEMMA ConnectingStep ==
    ASSUME ClientInv, updateConnecting
    PROVE  StepOK
<1>1. /\ UNCHANGED <<serverVars, clientVars>> /\ attempts' = cancelActiveConnect(attempts)
      /\ UNCHANGED <<fetching, connectResults, lobbyFetchResults>> /\ bound' = bound
      /\ app' = [app EXCEPT !.pc = "async", !.stage = "main_menu"] /\ app \in AppRecords
  BY Facts DEF updateConnecting, Goto, serverVars
<1>2. /\ app' \in AppRecords /\ app'.session = app.session
      /\ app'.lastClientSeq = app.lastClientSeq /\ app'.pc = "async"
  BY <1>1 DEF AppRecords, Stages
<1>3. /\ ChannelsOK'
      /\ \A i \in DOMAIN attempts : /\ i \in DOMAIN attempts'
                                    /\ attempts[i].pc = "done" => attempts'[i].pc = "done"
  BY <1>1, CanceledStep
<1>4. AppOK'
  BY <1>2 DEF AppOK
<1>. QED
  BY <1>1, <1>2, <1>3, <1>4, AppStep

LEMMA LeaveSessionStep ==
    ASSUME ClientInv, leaveSessionToMenu
    PROVE  StepOK
<1>1. /\ UNCHANGED <<serverVars, process, issued>> /\ attempts' = cancelActiveConnect(attempts)
      /\ UNCHANGED <<fetching, connectResults, lobbyFetchResults>> /\ bound' = bound
      /\ sessions' = Close(sessions, app.session) /\ shell' = NoShell
      /\ app' = [app EXCEPT !.pc = "async", !.stage = "main_menu", !.session = 0]
      /\ app \in AppRecords
  BY Facts DEF leaveSessionToMenu, serverVars
<1>2. /\ app' \in AppRecords /\ app'.session = 0
      /\ app'.lastClientSeq = app.lastClientSeq /\ app'.pc = "async"
  BY <1>1 DEF AppRecords, Stages
<1>3. /\ ChannelsOK'
      /\ \A i \in DOMAIN attempts : /\ i \in DOMAIN attempts'
                                    /\ attempts[i].pc = "done" => attempts'[i].pc = "done"
  BY <1>1, CanceledStep
<1>4. AppOK'
  BY <1>2 DEF AppOK
<1>. QED
  BY <1>1, <1>2, <1>3, <1>4, LeaveStep

LEMMA StartConnectStep ==
    ASSUME ClientInv, NEW player \in BOOLEAN, NEW named \in BOOLEAN, startConnect(player, named)
    PROVE  StepOK
<1> DEFINE start == player \/ named \/ PreferredMatch
           a == [pc |-> IF start THEN "dialing" ELSE "done", player |-> player, canceled |-> FALSE]
           as == cancelActiveConnect(attempts)
<1>1. /\ UNCHANGED <<serverVars, process, issued>> /\ attempts' = Append(as, a)
      /\ UNCHANGED <<fetching, connectResults, lobbyFetchResults>> /\ bound' = bound
      /\ sessions' = Close(sessions, app.session) /\ shell' = NoShell
      /\ app' = [app EXCEPT !.pc = "async", !.session = 0, !.connectAttemptID = Len(attempts) + 1,
                            !.stage = IF start THEN "connecting" ELSE "error_notice"]
      /\ Len(attempts) < bound.sessions
  BY DEF startConnect, serverVars
<1>2. /\ app \in AppRecords /\ Len(attempts) \in Nat /\ bound.sessions \in Nat
      /\ attempts \in Seq(AttemptRecords)
  BY Facts
<1>3. /\ app' \in AppRecords /\ app'.session = 0
      /\ app'.lastClientSeq = app.lastClientSeq /\ app'.pc = "async"
  <2>1. PICK st \in Stages : st = IF start THEN "connecting" ELSE "error_notice"
    BY DEF Stages
  <2>2. PICK n \in Nat : n = Len(attempts) + 1
    BY <1>2
  <2> HIDE DEF start
  <2>3. app' = [app EXCEPT !.pc = "async", !.session = 0, !.connectAttemptID = n, !.stage = st]
    BY <1>1, <2>1, <2>2
  <2>. QED
    BY <1>2, <2>3 DEF AppRecords
<1>4. a \in AttemptRecords
  <2>1. (IF start THEN "dialing" ELSE "done") \in {"dialing", "reading", "done"}
    OBVIOUS
  <2> HIDE DEF start
  <2>. QED
    BY <2>1 DEF AttemptRecords
<1>5. /\ as \in Seq(AttemptRecords) /\ Len(as) = Len(attempts) /\ DOMAIN as = DOMAIN attempts
      /\ \A i \in DOMAIN attempts : as[i].pc = attempts[i].pc
  BY CancelFacts
<1> HIDE DEF a, as
<1>6. /\ attempts' \in Seq(AttemptRecords) /\ Len(attempts') = Len(attempts) + 1
      /\ \A i \in 1 .. Len(as) : attempts'[i] = as[i]
  <2>1. /\ Append(as, a) \in Seq(AttemptRecords) /\ Len(Append(as, a)) = Len(as) + 1
        /\ \A i \in 1 .. Len(as) : Append(as, a)[i] = as[i]
    <3>1. as \in Seq(AttemptRecords) /\ a \in AttemptRecords
      BY <1>4, <1>5
    <3>2. ASSUME NEW S, NEW q \in Seq(S), NEW e \in S
          PROVE  /\ Append(q, e) \in Seq(S) /\ Len(Append(q, e)) = Len(q) + 1
                 /\ \A i \in 1 .. Len(q) : Append(q, e)[i] = q[i]
      BY AppendProperties
    <3>. QED
      BY <3>1, <3>2, Zenon
  <2>2. attempts' = Append(as, a)
    BY <1>1
  <2>. QED
    BY <1>5, <2>1, <2>2
<1>7. DOMAIN attempts = 1 .. Len(attempts) /\ DOMAIN attempts' = 1 .. Len(attempts) + 1
  BY <1>2, <1>6, LenProperties
<1>8. \A i \in DOMAIN attempts : /\ i \in DOMAIN attempts'
                                 /\ attempts[i].pc = "done" => attempts'[i].pc = "done"
  <2>1. ASSUME NEW i \in DOMAIN attempts
        PROVE  i \in DOMAIN attempts' /\ i \in 1 .. Len(as)
    BY <1>2, <1>5, <1>7
  <2>. QED
    BY <1>5, <1>6, <2>1
<1>9. Len(attempts') <= bound'.sessions
  BY <1>1, <1>2, <1>6
<1>10. ChannelsOK' /\ AppOK'
  BY <1>1, <1>3, <1>6, <1>9, InvParts DEF ChannelsOK, AppOK
<1>. QED
  BY <1>1, <1>3, <1>8, <1>10, LeaveStep

LEMMA MainMenuStep ==
    ASSUME ClientInv, updateMainMenu
    PROVE  StepOK
<1>1. CASE \E player \in BOOLEAN : startConnect(player, FALSE)
  BY <1>1, StartConnectStep
<1>2. CASE /\ UNCHANGED <<serverVars, clientVars, channels>>
           /\ Goto("lobby_list") \/ Goto("tutorial")
  <2>1. "lobby_list" \in Stages /\ "tutorial" \in Stages
    BY DEF Stages
  <2>. QED
    BY <1>2, <2>1, GotoStep DEF Goto
<1>. QED
  BY <1>1, <1>2 DEF updateMainMenu

LEMMA LobbyListStep ==
    ASSUME ClientInv, updateLobbyList
    PROVE  StepOK
<1>1. CASE \E player \in BOOLEAN : startConnect(player, TRUE)
  BY <1>1, StartConnectStep
<1>2. CASE /\ UNCHANGED <<serverVars, clientVars, channels>>
           /\ Goto("error_notice") \/ Goto("main_menu")
  <2>1. "error_notice" \in Stages /\ "main_menu" \in Stages
    BY DEF Stages
  <2>. QED
    BY <1>2, <2>1, GotoStep DEF Goto
<1>3. CASE /\ refreshLobbies
           /\ app' = [app EXCEPT !.pc = "async", !.lobbyFetchAttemptID = @ + 1]
           /\ UNCHANGED <<serverVars, clientVars, attempts, connectResults, lobbyFetchResults, lost>>
  <2>1. app \in AppRecords /\ fetching \subseteq Nat /\ app.lobbyFetchAttemptID \in Nat
    BY Facts, AppFacts
  <2>2. PICK n \in Nat : n = app.lobbyFetchAttemptID + 1
    BY <2>1
  <2>3. app' = [app EXCEPT !.pc = "async", !.lobbyFetchAttemptID = n] /\ fetching' \subseteq Nat
    BY <1>3, <2>1, <2>2 DEF refreshLobbies
  <2>4. /\ app' \in AppRecords /\ app'.session = app.session
        /\ app'.lastClientSeq = app.lastClientSeq /\ app'.pc = "async"
    BY <2>1, <2>3 DEF AppRecords
  <2>5. ChannelsOK' /\ AppOK' /\ attempts' = attempts /\ connectResults' = connectResults
    BY <1>3, <2>3, <2>4, InvParts DEF ChannelsOK, AppOK, serverVars
  <2>. QED
    BY <1>3, <2>4, <2>5, SameDomain, AppStep
<1>. QED
  BY <1>1, <1>2, <1>3 DEF updateLobbyList

LEMMA ReadMetaStep ==
    ASSUME ClientInv, ReadMeta
    PROVE  StepOK
<1>1. UNCHANGED <<serverVars, clientVars, channels>> /\ shell # NoShell /\ bound' = bound
  BY DEF ReadMeta, serverVars
<1>2. app \in AppRecords /\ app.session \in Ids /\ sessions[app.session] \in SessionRecords
  BY <1>1, Facts
<1>3. PICK m \in Nat, pc \in {"async", "update", "accept", "draw", "build"} :
          app' = [app EXCEPT !.meta = m, !.pc = pc]
  <2>1. sessions[app.session].tick \in Nat
    BY <1>2, SessionFacts
  <2> DEFINE meta == sessions[app.session].tick
             fresh == meta > shell.lastReconciledTick
             m == IF fresh THEN meta ELSE 0
             pc == CASE ~fresh -> "build"
                     [] fresh /\ app.pc = "update" -> "accept"
                     [] OTHER -> "draw"
  <2>2. m \in Nat
    BY <2>1
  <2>3. pc \in {"async", "update", "accept", "draw", "build"}
    <3> HIDE DEF fresh
    <3>. QED
      OBVIOUS
  <2>4. app' = [app EXCEPT !.meta = m, !.pc = pc]
    BY DEF ReadMeta
  <2> HIDE DEF m, pc
  <2>. QED
    BY <2>2, <2>3, <2>4
<1>4. /\ app' \in AppRecords /\ app'.session = app.session
      /\ app'.lastClientSeq = app.lastClientSeq
  BY <1>2, <1>3 DEF AppRecords
<1>5. ChannelsOK' /\ attempts' = attempts /\ connectResults' = connectResults
  BY <1>1, QuietChannels
<1>6. AppOK'
  BY <1>4 DEF AppOK
<1>. QED
  BY <1>1, <1>4, <1>5, <1>6, SameDomain, AppStep

\* The shell changes, and keeps its numbers; nothing becomes pending.
LEMMA ShellStep ==
    ASSUME ClientInv, UNCHANGED <<serverVars, sessions, process, issued, channels>>,
           shell # NoShell, shell' \in ShellRecords, shell'.pending \subseteq shell.pending,
           shell'.player = shell.player, shell'.nextClientSeq = shell.nextClientSeq,
           AppOK', app'.session = app.session, app'.lastClientSeq = app.lastClientSeq
    PROVE  StepOK
<1>1. bound' = bound /\ tick' = tick
  BY DEF serverVars
<1>2. ChannelsOK' /\ attempts' = attempts /\ connectResults' = connectResults
  BY <1>1, QuietChannels
<1>3. SessionsOK' /\ SentKept /\ StatesKept
  BY <1>1, SessionsSame
<1>4. AttemptsOK'
  BY <1>1, <1>2, <1>3, SameDomain, AttemptsStay
<1>5. ShellOK'
  <2>1. /\ shell.pending \subseteq issued /\ app.session # 0
        /\ shell.player => app.lastClientSeq <= shell.nextClientSeq
    BY InvParts DEF ShellOK, ShellInv
  <2>2. shell' # NoShell
    BY NoShellFacts
  <2>3. NoShell' = NoShell
    BY DEF NoShell
  <2>. QED
    BY <2>1, <2>2, <2>3 DEF ShellOK, ShellInv
<1>. QED
  BY <1>2, <1>3, <1>4, <1>5, QuietStep

LEMMA TogglePauseStep ==
    ASSUME ClientInv, TogglePauseMenu
    PROVE  StepOK
<1>1. /\ UNCHANGED <<serverVars, sessions, process, issued, channels>> /\ shell # NoShell
      /\ app' = [app EXCEPT !.pc = "async"] /\ shell' = [shell EXCEPT !.paused = ~@]
  BY DEF TogglePauseMenu
<1>2. app \in AppRecords /\ shell \in ShellRecords
  BY <1>1, Facts
<1>3. /\ app' \in AppRecords /\ app'.session = app.session
      /\ app'.lastClientSeq = app.lastClientSeq
  BY <1>1, <1>2 DEF AppRecords
<1>4. /\ shell' \in ShellRecords /\ shell'.pending = shell.pending
      /\ shell'.player = shell.player /\ shell'.nextClientSeq = shell.nextClientSeq
  <2>1. PICK p \in BOOLEAN : p = ~shell.paused
    OBVIOUS
  <2>2. shell' = [shell EXCEPT !.paused = p]
    BY <1>1, <1>2, <2>1
  <2>. QED
    BY <1>2, <2>2 DEF ShellRecords
<1>. QED
  BY <1>1, <1>3, <1>4, ShellStep DEF AppOK

LEMMA ReconcileStep ==
    ASSUME ClientInv, reconcilePredictionFromStore
    PROVE  StepOK
<1> DEFINE t == sessions[app.session].tick
           ack == AckAt(app.meta)
           h == insertFrame(shell.history, t)
           p == IF ack = 0 THEN shell.pending ELSE DropAckedInputs(shell.pending, ack)
<1>1. /\ UNCHANGED <<serverVars, sessions, process, issued, channels>>
      /\ app.pc \in {"accept", "draw"}
      /\ shell' = AcceptAuthoritativeSnapshot(shell, app.meta, t)
      /\ app' = [app EXCEPT !.pc = IF @ = "accept" THEN "build" ELSE "async", !.meta = 0]
  BY DEF reconcilePredictionFromStore
<1>2. /\ app \in AppRecords /\ shell # NoShell /\ shell \in ShellRecords /\ app.session \in Ids
      /\ sessions[app.session] \in SessionRecords
  BY <1>1, Facts
<1>3. t \in Nat /\ shell.history \in Seq(Nat) /\ app.meta \in Nat /\ shell.pending \subseteq CommandRecords
  BY <1>2, SessionFacts, ShellFacts, AppFacts
<1>4. h \in Seq(Nat)
  <2> HIDE DEF t
  <2> DEFINE f == Append(shell.history, t)
  <2>1. f \in Seq(Nat) /\ Len(f) = Len(shell.history) + 1 /\ Len(f) \in Nat
    BY <1>3, AppendProperties, LenProperties
  <2>2. h = IF Len(f) <= HistoryLimit THEN f ELSE SubSeq(f, Len(f) - HistoryLimit + 1, Len(f))
    BY DEF insertFrame
  <2> HIDE DEF f, h
  <2>3. HistoryLimit \in Nat \ {0}
    BY PredictionAssumption
  <2>4. ASSUME Len(f) > HistoryLimit
        PROVE  SubSeq(f, Len(f) - HistoryLimit + 1, Len(f)) \in Seq(Nat)
    BY <2>1, <2>3, <2>4, SubSeqProperties
  <2>. QED
    BY <2>1, <2>2, <2>3, <2>4
<1>5. p \subseteq shell.pending
  BY DEF DropAckedInputs
<1>6. shell' = [shell EXCEPT !.history = h, !.pending = p, !.lastReconciledTick = app.meta]
  BY <1>1, <1>2 DEF AcceptAuthoritativeSnapshot
<1> HIDE DEF t, ack, h, p
<1>7. /\ shell' \in ShellRecords /\ shell'.pending = p
      /\ shell'.player = shell.player /\ shell'.nextClientSeq = shell.nextClientSeq
  BY <1>2, <1>3, <1>4, <1>5, <1>6 DEF ShellRecords
<1>8. /\ app' \in AppRecords /\ app'.session = app.session
      /\ app'.lastClientSeq = app.lastClientSeq
  BY <1>1, <1>2 DEF AppRecords
<1>. QED
  BY <1>1, <1>2, <1>5, <1>7, <1>8, ShellStep DEF AppOK

LEMMA FreshShell ==
    ASSUME ClientInv, NEW i \in Ids, shell' = ShellFor(i), issued' = issued,
           app'.lastClientSeq = app.lastClientSeq, app'.session # 0
    PROVE  ShellOK'
<1>1. PICK s \in ShellRecords :
          /\ s = ShellFor(i) /\ s.pending = {}
          /\ s.player => app.lastClientSeq <= s.nextClientSeq
  BY ShellForFacts
<1>2. shell' = s /\ s # NoShell /\ NoShell' = NoShell
  BY <1>1, NoShellFacts DEF NoShell
<1>. QED
  BY <1>1, <1>2 DEF ShellOK, ShellInv

LEMMA SyncStep ==
    ASSUME ClientInv, SyncStage
    PROVE  StepOK
<1> DEFINE i == app.session
           leave == i # 0 /\ sessions[i].err
           stage == StageAfterSync
           entered(s) == stage = s /\ app.lastStage # s
           n == IF entered("lobby_list") THEN app.lobbyFetchAttemptID + 1 ELSE app.lobbyFetchAttemptID
           after == IF leave THEN 0 ELSE i
<1>1. /\ UNCHANGED <<serverVars, process, issued, connectResults, lobbyFetchResults>>
      /\ sessions' = (IF leave THEN Close(sessions, i) ELSE sessions)
      /\ shell' = (IF leave THEN NoShell
                   ELSE IF stage = "in_match" /\ i # 0 /\ shell = NoShell THEN ShellFor(i)
                   ELSE shell)
      /\ fetching' \in {fetching, fetching \cup {app.lobbyFetchAttemptID + 1}}
      /\ attempts' \in {attempts, cancelActiveConnect(attempts)}
      /\ bound' = bound /\ tick' = tick
  BY DEF SyncStage, refreshLobbies, serverVars
<1>2. app' = [app EXCEPT !.pc = "update", !.stage = stage, !.lastStage = stage,
                         !.session = after, !.lobbyFetchAttemptID = n]
  BY DEF SyncStage
<1>3. /\ app \in AppRecords /\ app.lobbyFetchAttemptID \in Nat /\ fetching \subseteq Nat
      /\ app.session \in Ids \cup {0} /\ app.session \in Nat /\ app.stage \in Stages
  BY Facts, AppFacts
<1>4. stage \in Stages /\ n \in Nat /\ after \in Nat
  <2>1. stage \in Stages
    BY <1>3 DEF StageAfterSync, Stages
  <2> HIDE DEF leave, stage
  <2>. QED
    BY <1>3, <2>1
<1> HIDE DEF stage, n, leave
<1>5. /\ app' \in AppRecords /\ app'.session = after
      /\ app'.lastClientSeq = app.lastClientSeq /\ app'.pc = "update"
  BY <1>2, <1>3, <1>4 DEF AppRecords
<1>6. AppOK'
  BY <1>5 DEF AppOK
<1>7. fetching' \subseteq Nat
  BY <1>1, <1>3
<1>8. /\ attempts' \in Seq(AttemptRecords) /\ Len(attempts') <= bound'.sessions
      /\ \A j \in DOMAIN attempts : /\ j \in DOMAIN attempts'
                                    /\ attempts[j].pc = "done" => attempts'[j].pc = "done"
  BY <1>1, Facts, CancelFacts
<1>9. ChannelsOK'
  BY <1>1, <1>7, <1>8, InvParts DEF ChannelsOK
<1>10. CASE leave
  BY <1>1, <1>5, <1>6, <1>8, <1>9, <1>10, LeaveStep
<1>11. CASE ~leave
  <2>1. sessions' = sessions /\ app'.session = app.session
    BY <1>1, <1>5, <1>11
  <2>2. SessionsOK' /\ SentKept /\ StatesKept
    BY <1>1, <2>1, SessionsSame
  <2>3. AttemptsOK'
    BY <1>1, <1>8, <2>1, <2>2, AttemptsStay
  <2>4. ShellOK'
    <3>1. CASE shell' = shell
      <4>1. ShellOK
        BY InvParts
      <4>. QED
        BY <1>1, <1>5, <2>1, <3>1, <4>1 DEF ShellOK, ShellInv
    <3>2. CASE i # 0 /\ shell' = ShellFor(i)
      BY <1>1, <1>3, <1>5, <2>1, <3>2, FreshShell
    <3>. QED
      BY <1>1, <1>11, <3>1, <3>2
  <2>. QED
    BY <1>1, <1>5, <1>6, <1>9, <2>2, <2>3, <2>4, QuietStep
<1>. QED
  BY <1>10, <1>11

\* Attempt i ends: its result is in the channel, or its session is not open.
LEMMA Delivered ==
    ASSUME ClientInv, NEW i \in DOMAIN attempts, NEW ok \in BOOLEAN, attempts[i].pc # "done",
           attempts' = [attempts EXCEPT ![i].pc = "done"],
           UNCHANGED <<serverVars, shell, process, issued, app, fetching, lobbyFetchResults>>,
           SessionsOK', SentKept, ok <=> sessions'[i].state # "none",
           \A j \in Ids \ {i} : sessions'[j].state = sessions[j].state,
           \/ connectResults' = Append(connectResults, [id |-> i, ok |-> ok])
           \/ connectResults' = connectResults /\ sessions'[i].state \notin {"open", "lost"}
    PROVE  StepOK
<1> DEFINE R == [id : Nat, ok : BOOLEAN]
<1>1. /\ attempts \in Seq(AttemptRecords) /\ Len(attempts) \in Nat
      /\ DOMAIN attempts = 1 .. Len(attempts) /\ DOMAIN attempts \subseteq Ids
      /\ connectResults \in Seq(R) /\ bound' = bound /\ Ids' = Ids
      /\ AttemptInv /\ NoSessionLeak /\ i \in Nat /\ Ids \subseteq Nat
  BY Facts, BoundFacts DEF serverVars, Ids, ClientInv
<1>2. /\ attempts' \in Seq(AttemptRecords) /\ Len(attempts') = Len(attempts)
      /\ DOMAIN attempts' = DOMAIN attempts /\ attempts'[i].pc = "done"
      /\ \A j \in DOMAIN attempts \ {i} : attempts'[j] = attempts[j]
  <2> DEFINE a == [attempts[i] EXCEPT !.pc = "done"]
  <2>1. a \in AttemptRecords /\ a.pc = "done"
    <3>1. attempts[i] \in AttemptRecords
      BY <1>1, ElementOfSeq
    <3>. QED
      BY <3>1 DEF AttemptRecords
  <2>2. attempts' = [attempts EXCEPT ![i] = a]
    OBVIOUS
  <2> HIDE DEF a
  <2>3. attempts' \in Seq(AttemptRecords) /\ Len(attempts') = Len(attempts)
    <3>1. attempts \in Seq(AttemptRecords) /\ i \in 1 .. Len(attempts)
      BY <1>1
    <3>. QED
      BY <2>1, <2>2, <3>1, ExceptSeq
  <2>. QED
    BY <1>1, <2>1, <2>2, <2>3
<1>3. i \in Ids /\ sessions[i].state = "none" /\ app.session # i
  BY <1>1 DEF AttemptInv
<1> DEFINE r == [id |-> i, ok |-> ok]
<1>4. r \in R /\ r.id = i /\ r.ok = ok
  BY <1>1
<1> HIDE DEF r, R
<1>5. /\ connectResults' \in Seq(R) /\ DOMAIN connectResults \subseteq DOMAIN connectResults'
      /\ \A k \in DOMAIN connectResults : connectResults'[k] = connectResults[k]
      /\ \A k \in DOMAIN connectResults' : k \in DOMAIN connectResults \/ connectResults'[k] = r
      /\ sessions'[i].state \in {"open", "lost"} =>
            \E k \in DOMAIN connectResults' : connectResults'[k] = r
  <2>1. CASE connectResults' = connectResults /\ sessions'[i].state \notin {"open", "lost"}
    BY <1>1, <2>1
  <2>2. CASE connectResults' = Append(connectResults, r)
    <3>1. ASSUME NEW S, NEW q \in Seq(S), NEW e \in S
          PROVE  /\ Append(q, e) \in Seq(S) /\ Len(q) \in Nat /\ DOMAIN q = 1 .. Len(q)
                 /\ DOMAIN Append(q, e) = 1 .. Len(q) + 1
                 /\ \A k \in 1 .. Len(q) : Append(q, e)[k] = q[k]
                 /\ Append(q, e)[Len(q) + 1] = e
      BY AppendProperties, LenProperties
    <3>2. PICK n \in Nat : n = Len(connectResults)
      BY <1>1, <3>1, <1>4
    <3>3. /\ connectResults' \in Seq(R) /\ DOMAIN connectResults = 1 .. n
          /\ DOMAIN connectResults' = 1 .. n + 1
          /\ \A k \in 1 .. n : connectResults'[k] = connectResults[k]
          /\ connectResults'[n + 1] = r
      <4>1. connectResults \in Seq(R) /\ r \in R /\ connectResults' = Append(connectResults, r)
        BY <1>1, <1>4, <2>2
      <4>. QED
        BY <3>1, <3>2, <4>1
    <3>. QED
      BY <3>2, <3>3
  <2>. QED
    BY <2>1, <2>2 DEF r
<1>6. ChannelsOK'
  BY <1>1, <1>2, <1>5, InvParts DEF ChannelsOK, R
<1>7. AttemptsOK'
  <2>1. app.session # 0 => app.session \in Ids /\ sessions'[app.session].state # "none"
    BY <1>1, <1>3 DEF AttemptInv
  <2>2. \A j \in Ids : (j \in DOMAIN attempts' => attempts'[j].pc # "done")
                          => sessions'[j].state = "none"
    BY <1>1, <1>2, <1>3 DEF AttemptInv
  <2>3. ASSUME NEW k \in DOMAIN connectResults'
        PROVE  /\ connectResults'[k].id \in DOMAIN attempts'
               /\ attempts'[connectResults'[k].id].pc = "done"
               /\ connectResults'[k].ok <=> sessions'[connectResults'[k].id].state # "none"
    <3>1. CASE connectResults'[k] = r
      BY <1>2, <1>4, <3>1
    <3>2. CASE k \in DOMAIN connectResults
      <4>1. /\ connectResults'[k] = connectResults[k] /\ connectResults[k].id \in DOMAIN attempts
            /\ attempts[connectResults[k].id].pc = "done"
            /\ connectResults[k].ok <=> sessions[connectResults[k].id].state # "none"
        BY <1>1, <1>5, <3>2 DEF AttemptInv
      <4>2. connectResults[k].id # i
        BY <4>1
      <4>. QED
        BY <1>1, <1>2, <4>1, <4>2
    <3>. QED
      BY <1>5, <2>3, <3>1, <3>2
  <2>4. ASSUME NEW j \in Ids, sessions'[j].state \in {"open", "lost"}
        PROVE  j = app.session \/ \E k \in DOMAIN connectResults' : connectResults'[k].id = j
    <3>1. CASE j = i
      BY <1>4, <1>5, <2>4, <3>1
    <3>2. CASE j # i
      <4>1. j = app.session \/ \E k \in DOMAIN connectResults : connectResults[k].id = j
        BY <1>1, <2>4, <3>2 DEF NoSessionLeak
      <4>. QED
        BY <1>5, <4>1
    <3>. QED
      BY <3>1, <3>2
  <2>. QED
    BY <1>1, <2>1, <2>2, <2>3, <2>4 DEF AttemptsOK, AttemptInv, NoSessionLeak
<1>8. ShellOK' /\ AppOK'
  BY InvParts DEF ShellOK, ShellInv, AppOK
<1>. QED
  BY <1>6, <1>7, <1>8, QuietStep

LEMMA DialFailsStep ==
    ASSUME ClientInv, NEW i \in DOMAIN attempts, DialFails(i)
    PROVE  StepOK
<1>1. /\ attempts[i].pc # "done" /\ attempts' = [attempts EXCEPT ![i].pc = "done"]
      /\ UNCHANGED <<serverVars, shell, process, issued, app, fetching, lobbyFetchResults>>
      /\ sessions' = sessions /\ bound' = bound /\ tick' = tick
      /\ connectResults' \in {connectResults, Append(connectResults, [id |-> i, ok |-> FALSE])}
  BY DEF DialFails, Deliver, serverVars
<1>2. i \in Ids /\ sessions[i].state = "none"
  BY <1>1, Facts DEF ClientInv, AttemptInv
<1>3. SessionsOK' /\ SentKept
  BY <1>1, SessionsSame
<1>4. PICK ok \in BOOLEAN : ok = FALSE
  OBVIOUS
<1>. QED
  BY <1>1, <1>2, <1>3, <1>4, Delivered

LEMMA NoSessionFacts ==
    NoSession \in SessionRecords /\ NoSession.sent = <<>> /\ NoSession.tick = 0 /\ NoSession.state = "none"
<1>1. <<>> \in Seq(CommandRecords)
  OBVIOUS
<1>. QED
  BY <1>1 DEF SessionRecords, NoSession

LEMMA JoinedFacts ==
    ASSUME ClientInv, NEW player \in BOOLEAN
    PROVE  /\ Joined(player) \in SessionRecords /\ Joined(player).state = "open"
           /\ Joined(player).sent = <<>> /\ Joined(player).tick = tick
<1>1. tick \in Nat /\ running \in BOOLEAN
  BY DEF ClientInv, ClientTypeOK
<1>2. PICK x \in SessionRecords : x = NoSession /\ x.sent = <<>>
  BY NoSessionFacts
<1>3. PICK p \in BOOLEAN, t \in Nat, r \in BOOLEAN : p = player /\ t = tick /\ r = running
  BY <1>1
<1> DEFINE s == [x EXCEPT !.state = "open", !.player = p, !.tick = t, !.running = r]
<1>4. s \in SessionRecords /\ s.state = "open" /\ s.sent = x.sent /\ s.tick = t
  BY DEF SessionRecords
<1>5. Joined(player) = s
  BY <1>2, <1>3, Zenon DEF Joined
<1> HIDE DEF s
<1>. QED
  BY <1>2, <1>3, <1>4, <1>5

LEMMA DialAndJoinStep ==
    ASSUME ClientInv, NEW i \in DOMAIN attempts, DialAndJoin(i)
    PROVE  StepOK
<1> DEFINE joined == [sessions EXCEPT ![i] = Joined(attempts[i].player)]
<1>1. /\ attempts[i].pc # "done" /\ attempts' = [attempts EXCEPT ![i].pc = "done"]
      /\ UNCHANGED <<serverVars, shell, process, issued, app, fetching, lobbyFetchResults>>
      /\ bound' = bound /\ tick' = tick
      /\ \/ /\ connectResults' = Append(connectResults, [id |-> i, ok |-> TRUE])
            /\ sessions' = joined
         \/ /\ connectResults' = connectResults
            /\ sessions' = Close(joined, i)
  BY DEF DialAndJoin, Deliver, serverVars
<1>2. /\ i \in Ids /\ 0 \notin Ids /\ tick \in Nat /\ sessions \in [Ids -> SessionRecords]
      /\ attempts[i] \in AttemptRecords
  BY Facts, ElementOfSeq
<1>3. PICK j \in SessionRecords : /\ j = Joined(attempts[i].player) /\ j.state = "open"
                                  /\ j.sent = <<>> /\ j.tick = tick
  <2>1. attempts[i].player \in BOOLEAN
    BY <1>2 DEF AttemptRecords
  <2>. QED
    BY <2>1, JoinedFacts
<1>4. PICK s \in SessionRecords :
          /\ sessions' = [sessions EXCEPT ![i] = s] /\ s.sent = <<>> /\ s.tick = tick
          /\ s.state # "none"
          /\ \/ connectResults' = Append(connectResults, [id |-> i, ok |-> TRUE])
             \/ connectResults' = connectResults /\ s.state \notin {"open", "lost"}
  <2>1. CASE /\ connectResults' = Append(connectResults, [id |-> i, ok |-> TRUE])
             /\ sessions' = joined
    BY <1>3, <2>1
  <2>2. CASE connectResults' = connectResults /\ sessions' = Close(joined, i)
    <3> DEFINE s == [j EXCEPT !.state = "closed"]
    <3>1. s \in SessionRecords /\ s.sent = <<>> /\ s.tick = tick /\ s.state = "closed"
      BY <1>3 DEF SessionRecords
    <3>2. joined = [sessions EXCEPT ![i] = j]
      BY <1>3
    <3>3. Close(joined, i) = [sessions EXCEPT ![i] = s]
      BY <1>2, <3>2 DEF Close
    <3> HIDE DEF s
    <3>. QED
      BY <2>2, <3>1, <3>3
  <2>. QED
    BY <1>1, <2>1, <2>2
<1>5. /\ SessionsOK' /\ SentKept /\ sessions'[i] = s
      /\ \A h \in Ids \ {i} : sessions'[h] = sessions[h]
  <2>1. s.sent \in {sessions[i].sent, <<>>} /\ s.tick <= tick /\ s \in SessionRecords
    BY <1>2, <1>4
  <2>2. sessions' = [sessions EXCEPT ![i] = s]
    BY <1>4
  <2>. QED
    BY <1>1, <1>2, <2>1, <2>2, OneSession
<1>6. PICK ok \in BOOLEAN : ok = TRUE
  OBVIOUS
<1>. QED
  BY <1>1, <1>4, <1>5, <1>6, Delivered

\* A result is taken: session i of it is the application's now, or is not open.
LEMMA ResultTaken ==
    ASSUME ClientInv, bound' = bound, StatesKept, attempts' = attempts, connectResults # <<>>,
           connectResults' = Tail(connectResults),
           app'.session # 0 => app'.session \in Ids /\ sessions'[app'.session].state # "none",
           \A i \in {app.session, Head(connectResults).id} \ {0, app'.session} :
               sessions'[i].state \notin {"open", "lost"}
    PROVE  AttemptsOK'
<1> DEFINE R == [id : Nat, ok : BOOLEAN]
<1>1. /\ connectResults \in Seq(R) /\ Ids' = Ids /\ AttemptInv /\ NoSessionLeak /\ 0 \notin Ids
      /\ DOMAIN attempts \subseteq Ids
  BY Facts DEF Ids, ClientInv
<1>2. ASSUME NEW S, NEW q \in Seq(S), q # <<>>
      PROVE  /\ Len(q) \in Nat \ {0} /\ DOMAIN q = 1 .. Len(q) /\ Head(q) = q[1]
             /\ DOMAIN Tail(q) = 1 .. Len(q) - 1
             /\ \A k \in 1 .. Len(q) - 1 : Tail(q)[k] = q[k + 1]
  BY <1>2, HeadTailProperties, LenProperties, EmptySeq
<1>3. PICK n \in Nat \ {0} :
          /\ DOMAIN connectResults = 1 .. n /\ Head(connectResults) = connectResults[1]
          /\ DOMAIN connectResults' = 1 .. n - 1
          /\ \A k \in 1 .. n - 1 : connectResults'[k] = connectResults[k + 1]
  BY <1>1, <1>2
<1>4. ASSUME NEW k \in DOMAIN connectResults'
      PROVE  /\ connectResults'[k].id \in DOMAIN attempts
             /\ attempts[connectResults'[k].id].pc = "done"
             /\ connectResults'[k].ok <=> sessions'[connectResults'[k].id].state # "none"
  <2>1. k + 1 \in DOMAIN connectResults /\ connectResults'[k] = connectResults[k + 1]
    BY <1>3
  <2>. QED
    BY <1>1, <2>1 DEF AttemptInv, StatesKept
<1>5. ASSUME NEW i \in Ids, sessions'[i].state \in {"open", "lost"}
      PROVE  i = app'.session \/ \E k \in DOMAIN connectResults' : connectResults'[k].id = i
  <2>1. i # app'.session => i \notin {app.session, connectResults[1].id}
    BY <1>1, <1>3, <1>5
  <2>2. ASSUME i # app'.session
        PROVE  \E k \in DOMAIN connectResults' : connectResults'[k].id = i
    <3>1. PICK k \in DOMAIN connectResults : connectResults[k].id = i
      BY <1>1, <1>5, <2>1, <2>2 DEF StatesKept, NoSessionLeak
    <3>2. k # 1
      BY <2>1, <2>2, <3>1
    <3>3. k - 1 \in DOMAIN connectResults' /\ connectResults'[k - 1] = connectResults[k]
      BY <1>3, <3>1, <3>2
    <3>. QED
      BY <3>1, <3>3
  <2>. QED
    BY <2>2
<1>6. \A i \in Ids : (i \in DOMAIN attempts => attempts[i].pc # "done") => sessions'[i].state = "none"
  BY <1>1 DEF AttemptInv, StatesKept
<1>. QED
  BY <1>1, <1>4, <1>5, <1>6 DEF AttemptsOK, AttemptInv, NoSessionLeak

LEMMA TakeConnectStep ==
    ASSUME ClientInv, TakeConnectResult
    PROVE  StepOK
<1> DEFINE R == [id : Nat, ok : BOOLEAN]
           r == Head(connectResults)
<1>1. /\ UNCHANGED <<serverVars, process, issued, attempts, fetching, lobbyFetchResults>>
      /\ connectResults # <<>> /\ connectResults' = Tail(connectResults) /\ app.pc = "async"
      /\ bound' = bound /\ tick' = tick
  BY DEF TakeConnectResult, serverVars
<1>2. \/ sessions' = Discard(r) /\ UNCHANGED <<app, shell>>
      \/ ~r.ok /\ app' = OnConnectError /\ UNCHANGED <<sessions, shell>>
      \/ r.ok /\ onConnectSuccess(r.id)
  <2>1. CASE Overtaken(r)
    BY <2>1 DEF TakeConnectResult
  <2>2. CASE ~Overtaken(r) /\ ~r.ok
    BY <2>2 DEF TakeConnectResult
  <2>3. CASE ~Overtaken(r) /\ r.ok
    BY <2>3 DEF TakeConnectResult
  <2>. QED
    BY <2>1, <2>2, <2>3
<1>3. /\ app \in AppRecords /\ connectResults \in Seq(R) /\ 0 \notin Ids
      /\ app.session \in Ids \cup {0} /\ (app.session # 0 => sessions[app.session].state # "none")
      /\ DOMAIN attempts \subseteq Ids /\ AttemptInv /\ ShellOK /\ ShellInv /\ Ids \subseteq Nat
  BY Facts, InvParts, BoundFacts DEF AttemptsOK, ShellOK
<1>4. connectResults[1] = r /\ r \in R /\ Tail(connectResults) \in Seq(R) /\ 1 \in DOMAIN connectResults
  <2>1. Len(connectResults) \in Nat /\ Len(connectResults) # 0
        /\ DOMAIN connectResults = 1 .. Len(connectResults)
    BY <1>1, <1>3, LenProperties, EmptySeq
  <2>2. connectResults \in Seq(R) /\ connectResults # <<>>
    BY <1>1, <1>3
  <2> HIDE DEF R
  <2>. QED
    BY <2>1, <2>2, HeadTailProperties
<1>5. r.id \in Ids /\ r.id # 0 /\ (r.ok <=> sessions[r.id].state # "none")
  BY <1>3, <1>4 DEF AttemptInv
<1> HIDE DEF r, R
<1>6. ChannelsOK'
  BY <1>1, <1>4, InvParts DEF ChannelsOK, R
<1>7. CASE sessions' = Discard(r) /\ UNCHANGED <<app, shell>>
  <2> DEFINE i == IF r.ok THEN r.id ELSE 0
  <2>1. sessions' = Close(sessions, i)
    BY <1>5, <1>7 DEF Discard, Close
  <2>2. i \in Ids \cup {0} /\ (i # 0 => sessions[i].state # "none")
    BY <1>5
  <2>3. /\ SessionsOK' /\ SentKept /\ StatesKept
        /\ i # 0 => sessions'[i].state = "closed"
    BY <1>1, <2>1, <2>2, CloseFacts
  <2>4. sessions'[r.id].state \notin {"open", "lost"}
    BY <1>5, <2>3 DEF StatesKept
  <2>5. AttemptsOK'
    <3>1. app'.session # 0 => app'.session \in Ids /\ sessions'[app'.session].state # "none"
      BY <1>3, <1>7, <2>3 DEF StatesKept
    <3>2. \A j \in {app.session, Head(connectResults).id} \ {0, app'.session} :
              sessions'[j].state \notin {"open", "lost"}
      BY <1>7, <2>4 DEF r
    <3>. QED
      BY <1>1, <2>3, <3>1, <3>2, ResultTaken
  <2>6. ShellOK' /\ AppOK'
    BY <1>1, <1>3, <1>7 DEF ShellOK, ShellInv, AppOK
  <2>. QED
    BY <1>1, <1>6, <1>7, <2>3, <2>5, <2>6, QuietStep
<1>8. CASE ~r.ok /\ app' = OnConnectError /\ UNCHANGED <<sessions, shell>>
  <2>1. /\ app' \in AppRecords /\ app'.session = app.session
        /\ app'.lastClientSeq = app.lastClientSeq /\ app'.pc = app.pc
    BY <1>3, <1>8 DEF AppRecords, OnConnectError, Stages
  <2>2. SessionsOK' /\ SentKept /\ StatesKept
    BY <1>1, <1>8, SessionsSame
  <2>3. AttemptsOK'
    <3>1. app'.session # 0 => app'.session \in Ids /\ sessions'[app'.session].state # "none"
      BY <1>3, <1>8, <2>1
    <3>2. \A j \in {app.session, Head(connectResults).id} \ {0, app'.session} :
              sessions'[j].state \notin {"open", "lost"}
      BY <1>5, <1>8, <2>1 DEF r
    <3>. QED
      BY <1>1, <2>2, <3>1, <3>2, ResultTaken
  <2>4. ShellOK' /\ AppOK'
    BY <1>1, <1>3, <1>8, <2>1 DEF ShellOK, ShellInv, AppOK
  <2>. QED
    BY <1>1, <1>6, <2>1, <2>2, <2>3, <2>4, QuietStep
<1>9. CASE r.ok /\ onConnectSuccess(r.id)
  <2>1. PICK st \in Stages : app' = [app EXCEPT !.session = r.id, !.stage = st]
    BY <1>9 DEF onConnectSuccess, Stages
  <2>2. /\ app' \in AppRecords /\ app'.session = r.id
        /\ app'.lastClientSeq = app.lastClientSeq /\ app'.pc = "async"
    BY <1>1, <1>3, <1>5, <2>1 DEF AppRecords
  <2>3. sessions' = Close(sessions, app.session) /\ shell' \in {NoShell, ShellFor(r.id)}
    BY <1>9 DEF onConnectSuccess
  <2>4. /\ SessionsOK' /\ SentKept /\ StatesKept
        /\ app.session # 0 => sessions'[app.session].state = "closed"
    BY <1>1, <1>3, <2>3, CloseFacts
  <2>5. AttemptsOK'
    <3>1. app'.session # 0 => app'.session \in Ids /\ sessions'[app'.session].state # "none"
      BY <1>5, <1>9, <2>2, <2>4 DEF StatesKept
    <3>2. \A j \in {app.session, Head(connectResults).id} \ {0, app'.session} :
              sessions'[j].state \notin {"open", "lost"}
      BY <2>2, <2>4 DEF r
    <3>. QED
      BY <1>1, <2>4, <3>1, <3>2, ResultTaken
  <2>6. ShellOK'
    <3>1. CASE shell' = NoShell
      BY <2>2, <3>1 DEF ShellOK, ShellInv
    <3>2. CASE shell' = ShellFor(r.id)
      BY <1>1, <1>5, <2>2, <3>2, FreshShell
    <3>. QED
      BY <2>3, <3>1, <3>2
  <2>7. AppOK'
    BY <2>2 DEF AppOK
  <2>. QED
    BY <1>1, <1>6, <2>2, <2>4, <2>5, <2>6, <2>7, QuietStep
<1>. QED
  BY <1>2, <1>7, <1>8, <1>9

LEMMA RestartStep ==
    ASSUME ClientInv, Restart
    PROVE  StepOK
<1>1. /\ UNCHANGED <<serverVars, issued>> /\ process' = process + 1 /\ app' = NewApp
      /\ shell' = NoShell /\ fetching' = {} /\ connectResults' = <<>> /\ lobbyFetchResults' = <<>>
      /\ sessions' = [i \in Ids |-> IF sessions[i].state = "none" THEN NoSession
                                    ELSE [sessions[i] EXCEPT !.state = "closed"]]
      /\ attempts' = [i \in DOMAIN attempts |-> [attempts[i] EXCEPT !.pc = "done"]]
      /\ bound' = bound /\ tick' = tick
  BY DEF Restart, serverVars
<1>2. /\ attempts \in Seq(AttemptRecords) /\ Len(attempts) \in Nat /\ tick \in Nat
      /\ DOMAIN attempts = 1 .. Len(attempts) /\ Len(attempts) <= bound.sessions
      /\ sessions \in [Ids -> SessionRecords] /\ AttemptInv /\ Ids' = Ids /\ SentInv
      /\ process \in Nat
  BY <1>1, Facts, BoundFacts DEF ClientInv, Ids
<1>3. /\ NewApp \in AppRecords /\ NewApp.session = 0 /\ NewApp.pc = "async"
  BY DEF NewApp, AppRecords, Stages
<1>4. ASSUME NEW i \in Ids
      PROVE  /\ sessions'[i] \in SessionRecords /\ sessions'[i].state \in {"none", "closed"}
             /\ sessions'[i].state = "none" <=> sessions[i].state = "none"
             /\ sessions'[i].sent \in {sessions[i].sent, <<>>}
             /\ sessions'[i].tick \in 0 .. tick
  <2> DEFINE s == [sessions[i] EXCEPT !.state = "closed"]
  <2>1. sessions[i] \in SessionRecords /\ sessions[i].tick <= tick /\ sessions[i].tick \in Nat
    BY <1>2, SessionFacts DEF SentInv
  <2>2. /\ s \in SessionRecords /\ s.state = "closed" /\ s.sent = sessions[i].sent
        /\ s.tick = sessions[i].tick
    BY <2>1 DEF SessionRecords
  <2>3. sessions'[i] = IF sessions[i].state = "none" THEN NoSession ELSE s
    BY <1>1
  <2> HIDE DEF s
  <2>4. sessions[i].tick \in 0 .. tick /\ 0 \in 0 .. tick
    BY <1>2, <2>1
  <2>. QED
    BY <2>2, <2>3, <2>4, NoSessionFacts
<1>5. SessionsOK' /\ SentKept
  <2>1. DOMAIN sessions' = Ids /\ sessions' = [i \in Ids |-> sessions'[i]]
    BY <1>1
  <2>. QED
    BY <1>1, <1>2, <1>4, <2>1 DEF SessionsOK, SentKept
<1>6. /\ attempts' \in Seq(AttemptRecords) /\ Len(attempts') = Len(attempts)
      /\ DOMAIN attempts' = DOMAIN attempts /\ \A i \in DOMAIN attempts : attempts'[i].pc = "done"
  <2>1. ASSUME NEW i \in 1 .. Len(attempts)
        PROVE  attempts'[i] \in AttemptRecords /\ attempts'[i].pc = "done"
    <3>1. attempts[i] \in AttemptRecords
      BY <1>2, ElementOfSeq
    <3>2. /\ [attempts[i] EXCEPT !.pc = "done"] \in AttemptRecords
          /\ [attempts[i] EXCEPT !.pc = "done"].pc = "done"
      BY <3>1 DEF AttemptRecords
    <3>. QED
      BY <1>1, <1>2, <3>2
  <2>2. attempts' = [i \in 1 .. Len(attempts) |-> attempts'[i]] /\ DOMAIN attempts' = 1 .. Len(attempts)
    BY <1>1, <1>2
  <2>3. attempts' \in [1 .. Len(attempts) -> AttemptRecords]
    BY <2>1, <2>2
  <2>4. attempts' \in Seq(AttemptRecords)
    BY <1>2, <2>3, SeqDef
  <2>5. Len(attempts') = Len(attempts)
    BY <1>2, <2>2, <2>4, LenProperties
  <2>. QED
    BY <1>2, <2>1, <2>2, <2>4, <2>5
<1>7. ChannelsOK' /\ AppOK'
  <2>1. /\ connectResults' \in Seq([id : Nat, ok : BOOLEAN])
        /\ lobbyFetchResults' \in Seq([id : Nat, ok : BOOLEAN, lobbies : BOOLEAN])
    BY <1>1
  <2>. QED
    BY <1>1, <1>2, <1>3, <1>6, <2>1 DEF ChannelsOK, AppOK
<1>8. ShellOK'
  BY <1>1, <1>3 DEF ShellOK, ShellInv
<1>9. AttemptsOK'
  <2>1. \A i \in Ids : (i \in DOMAIN attempts' => attempts'[i].pc # "done")
                          => sessions'[i].state = "none"
    BY <1>2, <1>4, <1>6 DEF AttemptInv
  <2>2. \A i \in Ids : sessions'[i].state \notin {"open", "lost"}
    BY <1>4
  <2>3. app'.session = 0 /\ DOMAIN connectResults' = {}
    BY <1>1, <1>3
  <2>. QED
    BY <1>2, <2>1, <2>2, <2>3 DEF AttemptsOK, AttemptInv, NoSessionLeak
<1>. QED
  BY <1>1, <1>2, <1>5, <1>7, <1>8, <1>9, QuietStep

-----------------------------------------------------------------------------
(* A frame's commands *)

\* The commands of a frame have the numbers that follow the last one.
LEMMA BuildFacts ==
    ASSUME ClientInv, NEW sh \in ShellRecords, NEW keys, NEW t \in Nat
    PROVE  LET commands == BuildCommands(sh, keys, t)
           IN /\ commands \in Seq(CommandRecords)
              /\ \A k \in DOMAIN commands : /\ commands[k].seq = sh.nextClientSeq + k
                                            /\ commands[k].by = process
                                            /\ commands[k].target = t
              /\ ~sh.player => DOMAIN commands = {}
<1> DEFINE T == {"move", "aim", "act"}
           If(type, due) == IF type \in keys /\ due THEN <<type>> ELSE <<>>
           types == IF sh.player THEN Wanted(sh, keys, t) ELSE <<>>
           commands == BuildCommands(sh, keys, t)
<1>1. process \in Nat /\ sh.nextClientSeq \in Nat
  BY BoundFacts, ShellFacts
<1>2. types \in Seq(T) /\ (~sh.player => types = <<>>)
  <2>1. PICK a \in Seq(T), b \in Seq(T), c \in Seq(T) : Wanted(sh, keys, t) = a \o b \o c
    <3>1. \A type \in T : <<type>> \in Seq(T) /\ <<>> \in Seq(T)
      OBVIOUS
    <3>2. PICK a \in Seq(T) : a = If("move", t # sh.lastMoveTargetTick)
      BY <3>1
    <3>3. PICK b \in Seq(T) : b = If("aim", t # sh.lastAimTargetTick)
      BY <3>1
    <3>4. PICK c \in Seq(T) : c = If("act", TRUE)
      BY <3>1
    <3>5. Wanted(sh, keys, t) = a \o b \o c
      BY <3>2, <3>3, <3>4 DEF Wanted
    <3>. QED
      BY <3>5
  <2> HIDE DEF T
  <2>2. a \o b \o c \in Seq(T)
    BY ConcatProperties
  <2>3. <<>> \in Seq(T)
    OBVIOUS
  <2>. QED
    BY <2>1, <2>2, <2>3
<1>3. commands = [k \in DOMAIN types |-> newCommand(types[k], sh.nextClientSeq + k, t)]
  BY DEF BuildCommands
<1> HIDE DEF types, commands
<1>4. PICK m \in Nat : m = Len(types) /\ DOMAIN types = 1 .. m /\ (~sh.player => m = 0)
  BY <1>2, LenProperties
<1>5. ASSUME NEW k \in 1 .. m
      PROVE  /\ commands[k] \in CommandRecords /\ commands[k].seq = sh.nextClientSeq + k
             /\ commands[k].by = process /\ commands[k].target = t
  <2>1. types[k] \in T
    BY <1>2, <1>4, ElementOfSeq
  <2>2. PICK q \in Nat : q = sh.nextClientSeq + k
    BY <1>1
  <2>3. commands[k] = [seq |-> q, by |-> process, type |-> types[k], target |-> t]
    BY <1>3, <1>4, <2>2 DEF newCommand
  <2>. QED
    BY <1>1, <2>1, <2>2, <2>3 DEF CommandRecords
<1>6. DOMAIN commands = 1 .. m /\ commands = [k \in 1 .. m |-> commands[k]]
  BY <1>3, <1>4
<1>7. commands \in [1 .. m -> CommandRecords]
  BY <1>5, <1>6
<1>8. commands \in Seq(CommandRecords)
  BY <1>7, SeqDef
<1>. QED
  BY <1>4, <1>5, <1>6, <1>8 DEF commands

\* A prefix of them is sent, in order, and no more than there is room for.
LEMMA SendFacts ==
    ASSUME NEW s \in SessionRecords, NEW q \in Seq(CommandRecords), Len(s.sent) <= SendQueueDepth
    PROVE  LET r == SendInputCommand(s, q)
           IN /\ r \in SessionRecords /\ r.state = s.state /\ r.tick = s.tick
              /\ \E p \in Seq(CommandRecords) :
                    /\ r.sent = s.sent \o p /\ Len(p) <= Len(q)
                    /\ \A k \in 1 .. Len(p) : p[k] = q[k]
                    /\ Len(s.sent) + Len(p) <= SendQueueDepth
<1> DEFINE room == SendQueueDepth - Len(s.sent)
           kept == IF Len(q) <= room THEN q ELSE SubSeq(q, 1, room)
           r == SendInputCommand(s, q)
<1>1. PICK n \in Nat, o \in Nat, d \in Nat :
          n = Len(s.sent) /\ o = Len(q) /\ d = SendQueueDepth /\ n <= d
  BY SessionFacts, LenProperties, PredictionAssumption
<1>2. s.sent \in Seq(CommandRecords) /\ room = d - n
  BY <1>1, SessionFacts
<1>3. CASE s.player /\ s.state = "open"
  <2>1. /\ kept \in Seq(CommandRecords) /\ Len(kept) <= o /\ n + Len(kept) <= d
        /\ \A k \in 1 .. Len(kept) : kept[k] = q[k]
    <3>1. CASE o <= d - n
      <4>1. kept = q
        BY <1>1, <1>2, <3>1
      <4> HIDE DEF kept
      <4>. QED
        BY <1>1, <3>1, <4>1
    <3>2. CASE ~(o <= d - n)
      <4>1. kept = SubSeq(q, 1, d - n)
        BY <1>1, <1>2, <3>2
      <4>2. PICK m \in Nat : m = d - n /\ m < o
        <5>1. n <= d
          BY <1>1
        <5>2. d - n \in Nat /\ d - n < o
          BY <3>2, <5>1
        <5>. QED
          BY <5>2, Zenon
      <4>3. \A k \in 1 .. m : q[k] \in CommandRecords
        BY <1>1, <4>2, ElementOfSeq
      <4>4. /\ SubSeq(q, 1, m) \in Seq(CommandRecords)
            /\ Len(SubSeq(q, 1, m)) = (IF 1 <= m THEN m - 1 + 1 ELSE 0)
            /\ \A k \in 1 .. m - 1 + 1 : SubSeq(q, 1, m)[k] = q[1 + k - 1]
        BY <4>3, SubSeqProperties
      <4>5. /\ Len(SubSeq(q, 1, m)) = m /\ \A k \in 1 .. m : SubSeq(q, 1, m)[k] = q[k]
        BY <4>2, <4>4
      <4> HIDE DEF kept
      <4>. QED
        <5>1. n <= d /\ n + m = d /\ m <= o
          BY <1>1, <4>2
        <5>2. kept = SubSeq(q, 1, m)
          BY <4>1, <4>2
        <5>3. kept \in Seq(CommandRecords) /\ Len(kept) = m
          BY <4>4, <4>5, <5>2
        <5>4. \A k \in 1 .. m : kept[k] = q[k]
          BY <4>5, <5>2
        <5>5. Len(kept) <= o /\ n + Len(kept) <= d
          BY <5>1, <5>3
        <5>. QED
          BY <5>3, <5>4, <5>5
    <3>. QED
      BY <3>1, <3>2
  <2>2. r = [s EXCEPT !.sent = s.sent \o kept]
    BY <1>3 DEF SendInputCommand
  <2> HIDE DEF kept, r
  <2>3. s.sent \o kept \in Seq(CommandRecords)
    BY <1>2, <2>1, ConcatProperties
  <2>4. /\ r \in SessionRecords /\ r.state = s.state /\ r.tick = s.tick
        /\ r.sent = s.sent \o kept
    BY <2>2, <2>3 DEF SessionRecords
  <2>. QED
    BY <1>1, <2>1, <2>4 DEF r
<1>4. CASE ~(s.player /\ s.state = "open")
  <2>1. r = s
    BY <1>4 DEF SendInputCommand
  <2>2. <<>> \in Seq(CommandRecords) /\ Len(<<>>) = 0
    OBVIOUS
  <2>3. s.sent = s.sent \o <<>>
    BY <1>2, ConcatEmptySeq
  <2>4. \A k \in 1 .. Len(<<>>) : <<>>[k] = q[k]
    BY <2>2
  <2>5. Len(<<>>) <= Len(q) /\ Len(s.sent) + Len(<<>>) <= SendQueueDepth
    BY <1>1, <2>2
  <2> HIDE DEF r
  <2>. QED
    BY <2>1, <2>2, <2>3, <2>4, <2>5 DEF r
<1>. QED
  BY <1>3, <1>4

\* Commands with fresh numbers may be sent: session i has sent p more.
LEMMA SentMore ==
    ASSUME ClientInv, UNCHANGED serverVars, NEW i \in Ids, NEW C \in SUBSET CommandRecords,
           issued' = issued \cup C, \A c \in C, d \in issued : ~Same(c, d),
           NEW p \in Seq(CommandRecords), \A k \in 1 .. Len(p) : p[k] \in C,
           \A k, l \in 1 .. Len(p) : p[k].seq = p[l].seq => k = l,
           sessions'[i].sent = sessions[i].sent \o p, sessions'[i].tick = sessions[i].tick,
           Len(sessions[i].sent) + Len(p) <= SendQueueDepth,
           \A j \in Ids \ {i} : sessions'[j] = sessions[j]
    PROVE  SentInv'
<1>1. /\ Ids' = Ids /\ SentInv /\ PlacedInv /\ sessions[i] \in SessionRecords
      /\ scheduled' \cup applied' = scheduled \cup applied /\ tick' = tick
  BY Facts DEF Ids, serverVars, ClientInv
<1>2. sessions[i].sent \in Seq(CommandRecords)
  BY <1>1, SessionFacts
<1>3. PICK n \in Nat, m \in Nat :
          /\ n = Len(sessions[i].sent) /\ DOMAIN sessions[i].sent = 1 .. n
          /\ m = Len(p) /\ DOMAIN p = 1 .. m
  <2>1. Len(p) \in Nat /\ DOMAIN p = 1 .. Len(p)
    BY LenProperties
  <2>2. Len(sessions[i].sent) \in Nat /\ DOMAIN sessions[i].sent = 1 .. Len(sessions[i].sent)
    BY <1>2, LenProperties
  <2>. QED
    BY <2>1, <2>2, Zenon
<1>4. /\ Len(sessions'[i].sent) = n + m /\ DOMAIN sessions'[i].sent = 1 .. n + m
      /\ \A k \in 1 .. n + m : sessions'[i].sent[k] =
            IF k <= n THEN sessions[i].sent[k] ELSE p[k - n]
  <2>1. ASSUME NEW S, NEW a \in Seq(S), NEW b \in Seq(S)
        PROVE  /\ Len(a \o b) = Len(a) + Len(b) /\ DOMAIN (a \o b) = 1 .. Len(a) + Len(b)
               /\ \A k \in 1 .. Len(a) + Len(b) :
                     (a \o b)[k] = IF k <= Len(a) THEN a[k] ELSE b[k - Len(a)]
    BY ConcatProperties, LenProperties
  <2>. QED
    BY <1>2, <1>3, <2>1
<1>5. \A j \in Ids : sessions'[j].tick <= tick' /\ Len(sessions'[j].sent) <= SendQueueDepth
  BY <1>1, <1>3, <1>4 DEF SentInv
<1> DEFINE Old(j, k) == /\ k \in DOMAIN sessions[j].sent
                        /\ sessions'[j].sent[k] = sessions[j].sent[k]
           New(j, k) == /\ j = i /\ k \in Nat /\ k - n \in 1 .. m
                        /\ sessions'[j].sent[k] = p[k - n]
<1>6. ASSUME NEW j \in Ids, NEW k \in DOMAIN sessions'[j].sent
      PROVE  Old(j, k) \/ New(j, k)
  <2>1. CASE j # i
    BY <1>6, <2>1
  <2>2. CASE j = i
    <3>1. k \in 1 .. n + m
      BY <1>4, <1>6, <2>2
    <3>2. CASE k <= n
      BY <1>3, <1>4, <2>2, <3>1, <3>2
    <3>3. CASE k > n
      BY <1>3, <1>4, <2>2, <3>1, <3>3
    <3>. QED
      BY <3>1, <3>2, <3>3
  <2>. QED
    BY <2>1, <2>2
<1>7. \A j \in Ids : \A k \in DOMAIN sessions'[j].sent :
          /\ Old(j, k) => sessions'[j].sent[k] \in issued
          /\ New(j, k) => sessions'[j].sent[k] \in C
  BY <1>1, <1>3 DEF SentInv
<1>8. \A c \in C, d \in issued : ~Same(c, d) /\ ~Same(d, c)
  BY DEF Same
<1>9. ASSUME NEW j \in Ids, NEW k \in DOMAIN sessions'[j].sent
      PROVE  \A d \in scheduled' \cup applied' : ~Same(sessions'[j].sent[k], d)
  <2>1. CASE Old(j, k)
    BY <1>1, <2>1 DEF SentInv
  <2>2. CASE New(j, k)
    <3>1. ASSUME NEW d \in scheduled \cup applied, Same(sessions'[j].sent[k], d)
          PROVE  FALSE
      <4>1. PICK c \in issued : Same(c, d)
        BY <1>1 DEF PlacedInv
      <4>2. Same(sessions'[j].sent[k], c)
        BY <3>1, <4>1 DEF Same
      <4>. QED
        BY <1>7, <1>8, <1>9, <2>2, <4>2
    <3>. QED
      BY <1>1, <3>1
  <2>. QED
    BY <1>6, <1>9, <2>1, <2>2
<1>10. ASSUME NEW j \in Ids, NEW k \in DOMAIN sessions'[j].sent,
              NEW h \in Ids, NEW l \in DOMAIN sessions'[h].sent,
              Same(sessions'[j].sent[k], sessions'[h].sent[l])
       PROVE  j = h /\ k = l
  <2>1. CASE Old(j, k) /\ Old(h, l)
    BY <1>1, <1>10, <2>1 DEF SentInv
  <2>2. CASE New(j, k) /\ New(h, l)
    <3>1. k - n \in 1 .. m /\ l - n \in 1 .. m /\ p[k - n].seq = p[l - n].seq
      BY <1>10, <2>2 DEF Same
    <3>2. k - n = l - n
      BY <1>3, <3>1
    <3>. QED
      BY <1>3, <2>2, <3>2
  <2>3. CASE Old(j, k) /\ New(h, l)
    BY <1>7, <1>8, <1>10, <2>3
  <2>4. CASE New(j, k) /\ Old(h, l)
    BY <1>7, <1>8, <1>10, <2>4
  <2>. QED
    BY <1>6, <1>10, <2>1, <2>2, <2>3, <2>4
<1>11. ASSUME NEW j \in Ids, NEW k \in DOMAIN sessions'[j].sent
       PROVE  sessions'[j].sent[k] \in issued'
  BY <1>6, <1>7, <1>11
<1> HIDE DEF Old, New
<1>. QED
  BY <1>1, <1>5, <1>9, <1>10, <1>11 DEF SentInv, Same

LEMMA UpdateShellStep ==
    ASSUME ClientInv, NEW keys, UpdateShell(keys)
    PROVE  StepOK
<1> DEFINE i == app.session
           target == sessions[i].tick + 1
           commands == BuildCommands(shell, keys, target)
           C == ToSet(commands)
           seqs == {app.lastClientSeq} \cup {c.seq : c \in C}
           s == SendInputCommand(sessions[i], commands)
<1>1. /\ UNCHANGED <<serverVars, process>> /\ UNCHANGED channels /\ app.pc = "build"
      /\ shell.nextClientSeq + Len(commands) <= bound.commands
      /\ shell' = AfterBuild(shell, commands, target) /\ issued' = issued \cup C
      /\ app' = [app EXCEPT !.pc = "async", !.lastClientSeq = MaxOf(seqs)]
      /\ UNCHANGED <<bound, running, tick, scheduled, applied>>
  BY DEF UpdateShell, serverVars
<1>2. /\ app \in AppRecords /\ shell \in ShellRecords /\ i \in Ids /\ shell # NoShell
      /\ sessions \in [Ids -> SessionRecords] /\ sessions[i] \in SessionRecords
      /\ bound.commands \in Nat /\ tick \in Nat /\ process \in Nat /\ Ids' = Ids
  BY <1>1, Facts, BoundFacts DEF Ids
<1>3. /\ ServerOK /\ IssuedInv /\ PlacedInv /\ SentInv /\ ShellInv /\ issued \subseteq CommandRecords
  BY InvParts DEF CommandsOK, ShellOK, ServerOK
<1>4. /\ shell.nextClientSeq \in Nat /\ app.lastClientSeq \in Nat /\ sessions[i].tick \in Nat
      /\ sessions[i].tick <= tick
  BY <1>2, <1>3, AppFacts, ShellFacts, SessionFacts DEF SentInv
<1>5. target \in Nat /\ target <= tick + 1
  <2>1. PICK t \in Nat : t = sessions[i].tick /\ t <= tick
    BY <1>4
  <2>. QED
    BY <1>2, <2>1
<1>6. sessions' = [sessions EXCEPT ![i] = s]
  BY <1>2 DEF UpdateShell
<1> HIDE DEF target
<1>7. /\ commands \in Seq(CommandRecords)
      /\ \A k \in DOMAIN commands : /\ commands[k].seq = shell.nextClientSeq + k
                                    /\ commands[k].by = process
                                    /\ commands[k].target = target
      /\ ~shell.player => DOMAIN commands = {}
  BY <1>2, <1>5, BuildFacts
<1> HIDE DEF commands
<1>8. PICK n \in Nat, m \in Nat, last \in Nat :
          /\ n = shell.nextClientSeq /\ m = Len(commands) /\ DOMAIN commands = 1 .. m
          /\ last = app.lastClientSeq /\ n + m <= bound.commands
          /\ shell.player => last <= n
  <2>1. Len(commands) \in Nat /\ DOMAIN commands = 1 .. Len(commands)
    BY <1>7, LenProperties
  <2>2. shell.player => app.lastClientSeq <= shell.nextClientSeq
    BY <1>2, <1>3 DEF ShellInv
  <2>. QED
    BY <1>1, <1>4, <2>1, <2>2
<1>9. ASSUME NEW c \in C
      PROVE  /\ c \in CommandRecords /\ c.seq \in (n + 1) .. (n + m) /\ c.by = process
             /\ c.target = target /\ shell.player /\ last <= n
  <2>1. PICK k \in DOMAIN commands : c = commands[k]
    BY DEF ToSet
  <2>2. k \in 1 .. m /\ c \in CommandRecords
    BY <1>7, <1>8, <2>1, ElementOfSeq
  <2>3. c.seq = n + k /\ c.by = process /\ c.target = target /\ shell.player
    BY <1>7, <1>8, <2>1
  <2>. QED
    BY <1>8, <2>2, <2>3
<1>10. \A c, d \in C : c.seq = d.seq => c = d
  <2>1. ASSUME NEW k \in DOMAIN commands, NEW l \in DOMAIN commands,
               commands[k].seq = commands[l].seq
        PROVE  k = l
    <3>1. k \in Nat /\ l \in Nat /\ n + k = n + l
      BY <1>7, <1>8, <2>1
    <3>. QED
      BY <3>1
  <2>. QED
    BY <2>1 DEF ToSet
<1>11. \A k \in 1 .. m : commands[k] \in C /\ commands[k].seq = n + k
  BY <1>7, <1>8 DEF ToSet
<1> HIDE DEF C
<1>12. MaxOf(seqs) \in seqs /\ MaxOf(seqs) \in Nat /\ \A x \in seqs : x <= MaxOf(seqs)
  <2>1. seqs \in SUBSET (0 .. last + n + m) /\ seqs # {} /\ last + n + m \in Nat
    <3>1. \A c \in C : c.seq \in 0 .. last + n + m
      BY <1>9
    <3>2. last \in 0 .. last + n + m
      OBVIOUS
    <3>3. seqs = {last} \cup {c.seq : c \in C}
      BY <1>8
    <3> HIDE DEF seqs
    <3>. QED
      BY <3>1, <3>2, <3>3
  <2> HIDE DEF seqs
  <2>. QED
    BY <2>1, MaxFacts
<1>13. PICK top \in Nat :
           /\ top = MaxOf(seqs) /\ last <= top /\ (\A c \in C : c.seq <= top)
           /\ shell.player => top <= n + m
  <2>1. last <= MaxOf(seqs) /\ \A c \in C : c.seq <= MaxOf(seqs)
    BY <1>8, <1>12
  <2>2. shell.player => \A x \in seqs : x <= n + m
    BY <1>8, <1>9
  <2> HIDE DEF seqs
  <2>. QED
    BY <1>12, <2>1, <2>2
<1>14. /\ app' \in AppRecords /\ app'.session = app.session /\ app'.pc = "async"
       /\ app'.lastClientSeq = top
  BY <1>1, <1>2, <1>13 DEF AppRecords
<1> HIDE DEF seqs
<1>15. AppOK'
  BY <1>14 DEF AppOK
<1>16. ServerOK'
  BY <1>1, <1>3, <1>9 DEF ServerOK
<1>17. PICK p \in Seq(CommandRecords) :
           /\ s \in SessionRecords /\ s.state = sessions[i].state /\ s.tick = sessions[i].tick
           /\ s.sent = sessions[i].sent \o p /\ Len(p) <= Len(commands)
           /\ \A k \in 1 .. Len(p) : p[k] = commands[k]
           /\ Len(sessions[i].sent) + Len(p) <= SendQueueDepth
  <2>1. Len(sessions[i].sent) <= SendQueueDepth
    BY <1>2, <1>3 DEF SentInv
  <2>. QED
    BY <1>2, <1>7, <2>1, SendFacts
<1> HIDE DEF s
<1>18. /\ SessionsOK' /\ sessions'[i] = s /\ \A j \in Ids \ {i} : sessions'[j] = sessions[j]
  BY <1>2, <1>6, <1>17 DEF SessionsOK
<1>19. StatesKept
  BY <1>17, <1>18 DEF StatesKept
<1>20. ChannelsOK' /\ attempts' = attempts /\ connectResults' = connectResults
  BY <1>1, QuietChannels
<1>21. AttemptsOK'
  BY <1>1, <1>14, <1>19, <1>20, SameDomain, AttemptsStay
<1>22. \A c \in C, d \in issued : ~Same(c, d)
  <2>1. ASSUME NEW c \in C, NEW d \in issued, Same(c, d)
        PROVE  FALSE
    <3>1. d.by = process /\ d.seq = c.seq
      BY <1>9, <2>1 DEF Same
    <3>2. d.seq <= last
      BY <1>3, <1>8, <3>1 DEF IssuedInv
    <3>. QED
      BY <1>9, <3>1, <3>2
  <2>. QED
    BY <2>1
<1>23. SentInv'
  <2>1. PICK o \in Nat : o = Len(p) /\ o <= m
    BY <1>8, <1>17, LenProperties
  <2>2. \A k \in 1 .. o : p[k] \in C /\ p[k].seq = n + k
    <3>1. \A k \in 1 .. o : p[k] = commands[k] /\ k \in 1 .. m
      BY <1>17, <2>1
    <3>. QED
      BY <1>11, <3>1
  <2>3. \A k, l \in 1 .. o : p[k].seq = p[l].seq => k = l
    BY <2>2
  <2>4. C \in SUBSET CommandRecords
    BY <1>9
  <2>. QED
    BY <1>1, <1>2, <1>17, <1>18, <1>22, <2>1, <2>2, <2>3, <2>4, SentMore
<1>24. PlacedInv'
  BY <1>1, <1>3 DEF PlacedInv, Same
<1>25. IssuedInv'
  <2>1. ASSUME NEW c \in issued \cup C
        PROVE  /\ c.seq <= bound.commands /\ c.by <= process /\ c.target <= tick + 1
               /\ c.by = process => c.seq <= top
    <3>1. CASE c \in issued
      <4>1. /\ c.seq \in Nat /\ c.seq <= bound.commands /\ c.by <= process /\ c.target <= tick + 1
            /\ c.by = process => c.seq <= last
        BY <1>3, <1>8, <3>1, CommandFacts DEF IssuedInv
      <4>. QED
        BY <1>13, <4>1
    <3>2. CASE c \in C
      <4>1. PICK x \in Nat : x = c.seq /\ x <= n + m /\ x <= top
        BY <1>9, <1>13, <3>2
      <4>2. c.by = process /\ c.target = target
        BY <1>9, <3>2
      <4>3. x <= bound.commands
        BY <1>2, <1>8, <4>1
      <4>4. c.by <= process /\ c.target <= tick + 1
        BY <1>2, <1>5, <4>2
      <4>. QED
        BY <4>1, <4>3, <4>4
    <3>. QED
      BY <2>1, <3>1, <3>2
  <2>2. \A c, d \in issued \cup C : Same(c, d) => c = d
    BY <1>3, <1>10, <1>22 DEF IssuedInv, Same
  <2>. QED
    BY <1>1, <1>14, <2>1, <2>2 DEF IssuedInv, Same
<1>26. ShellOK'
  <2> DEFINE pend == RecordLocalCommands(shell.pending, commands)
             nx == shell.nextClientSeq + Len(commands)
             mv == TargetAfter(commands, "move", target, shell.lastMoveTargetTick)
             am == TargetAfter(commands, "aim", target, shell.lastAimTargetTick)
  <2>1. shell' = [shell EXCEPT !.pending = pend, !.nextClientSeq = nx,
                               !.lastMoveTargetTick = mv, !.lastAimTargetTick = am]
    BY <1>1, <1>2 DEF AfterBuild
  <2>2. nx = n + m /\ nx \in Nat
    BY <1>8
  <2>3. mv \in Nat /\ am \in Nat
    BY <1>2, <1>5, ShellFacts DEF TargetAfter
  <2>4. pend \subseteq shell.pending \cup C
    BY DEF RecordLocalCommands, trimPending, C
  <2>5. pend \subseteq issued' /\ pend \subseteq CommandRecords
    BY <1>1, <1>2, <1>3, <1>9, <2>4 DEF ShellInv
  <2> HIDE DEF pend, nx, mv, am
  <2>6. /\ shell' \in ShellRecords /\ shell'.pending = pend /\ shell'.nextClientSeq = nx
        /\ shell'.player = shell.player
    BY <1>2, <2>1, <2>2, <2>3, <2>5 DEF ShellRecords
  <2>7. shell'.player => app'.lastClientSeq <= shell'.nextClientSeq
    BY <1>13, <1>14, <2>2, <2>6
  <2>8. app'.session # 0
    BY <1>2, <1>3, <1>14 DEF ShellInv
  <2>. QED
    BY <1>14, <2>5, <2>6, <2>7, <2>8 DEF ShellOK, ShellInv
<1>. QED
  BY <1>15, <1>16, <1>18, <1>20, <1>21, <1>23, <1>24, <1>25, <1>26 DEF StepOK, CommandsOK

-----------------------------------------------------------------------------
(* The invariant *)

LEMMA InitInv ==
    ASSUME Init
    PROVE  ClientInv
<1>1. /\ bound \in Bounds /\ running = FALSE /\ tick = 0 /\ scheduled = {} /\ applied = {}
      /\ sessions = [i \in Ids |-> NoSession] /\ shell = NoShell /\ process = 1 /\ issued = {}
      /\ app = NewApp /\ attempts = <<>> /\ fetching = {} /\ connectResults = <<>>
      /\ lobbyFetchResults = <<>>
  BY DEF Init, PredictionInit
<1>2. bound.sessions \in Nat
  BY <1>1, PredictionAssumption
<1>3. \A i \in Ids : sessions[i] = NoSession
  BY <1>1
<1>4. /\ NewApp \in AppRecords /\ NewApp.session = 0 /\ NewApp.pc = "async"
  BY DEF NewApp, AppRecords, Stages
<1>5. \A S : <<>> \in Seq(S) /\ Len(<<>>) = 0 /\ DOMAIN <<>> = {}
  OBVIOUS
<1>6. ClientTypeOK
  <2>1. attempts \in Seq(AttemptRecords) /\ Len(attempts) <= bound.sessions
    BY <1>1, <1>2, <1>5
  <2>2. /\ connectResults \in Seq([id : Nat, ok : BOOLEAN])
        /\ lobbyFetchResults \in Seq([id : Nat, ok : BOOLEAN, lobbies : BOOLEAN])
    BY <1>1, <1>5
  <2>. QED
    BY <1>1, <1>4, <2>1, <2>2, NoSessionFacts DEF ClientTypeOK
<1>7. IssuedInv /\ PlacedInv
  BY <1>1 DEF IssuedInv, PlacedInv
<1>8. SentInv
  <2>1. \A i \in Ids : sessions[i].tick = 0 /\ sessions[i].sent = <<>>
    BY <1>3, NoSessionFacts
  <2>2. 0 <= SendQueueDepth
    BY PredictionAssumption
  <2>3. \A i \in Ids : DOMAIN sessions[i].sent = {} /\ Len(sessions[i].sent) = 0
    BY <1>5, <2>1
  <2>. QED
    BY <1>1, <2>1, <2>2, <2>3 DEF SentInv
<1>9. ShellInv
  BY <1>1, <1>4 DEF ShellInv
<1>10. AttemptInv /\ NoSessionLeak
  <2>1. \A i \in Ids : sessions[i].state = "none"
    BY <1>3, NoSessionFacts
  <2>2. DOMAIN connectResults = {}
    BY <1>1, <1>5
  <2>. QED
    BY <1>1, <1>4, <2>1, <2>2 DEF AttemptInv, NoSessionLeak
<1>. QED
  BY <1>6, <1>7, <1>8, <1>9, <1>10 DEF ClientInv

LEMMA NextInv ==
    ASSUME ClientInv, [Next]_vars
    PROVE  ClientInv'
<1>1. ASSUME UNCHANGED vars
      PROVE  StepOK
  <2>1. UNCHANGED <<serverVars, clientVars>> /\ UNCHANGED <<bound, app>> /\ UNCHANGED channels
    BY <1>1 DEF vars, serverVars
  <2>2. ChannelsOK' /\ AppOK' /\ attempts' = attempts /\ connectResults' = connectResults
    BY <2>1, InvParts, QuietChannels DEF AppOK
  <2>3. app.pc \in {"async", "update"} \/ shell # NoShell
    BY Facts, AppFacts
  <2>. QED
    BY <2>1, <2>2, <2>3, SameDomain, AppStep
<1>2. ASSUME Next
      PROVE  StepOK
  <2>1. CASE Update
    <3>1. CASE TakeConnectResult \/ TakeFetchResult \/ SyncStage
      BY <3>1, TakeConnectStep, TakeFetchStep, SyncStep
    <3>2. CASE updateMainMenu \/ updateLobbyList \/ BackToMainMenu \/ updateConnecting
      BY <3>2, MainMenuStep, LobbyListStep, BackStep, ConnectingStep
    <3>3. CASE leaveSessionToMenu \/ TogglePauseMenu \/ NoKey
      BY <3>3, LeaveSessionStep, TogglePauseStep, NoKeyStep
    <3>4. CASE ReadMeta \/ reconcilePredictionFromStore
      BY <3>4, ReadMetaStep, ReconcileStep
    <3>5. CASE \E keys \in SUBSET Keys : UpdateShell(keys)
      BY <3>5, UpdateShellStep
    <3>. QED
      BY <2>1, <3>1, <3>2, <3>3, <3>4, <3>5 DEF Update
  <2>2. CASE \E i \in DOMAIN attempts : Handshake(i) \/ DialAndJoin(i) \/ DialFails(i)
    BY <2>2, HandshakeStep, DialAndJoinStep, DialFailsStep
  <2>3. CASE \E f \in fetching : FetchLobbies(f)
    BY <2>3, FetchStep
  <2>4. CASE Network /\ UNCHANGED <<app, channels>>
    BY <2>4, NetworkStep
  <2>5. CASE Restart
    BY <2>5, RestartStep
  <2>. QED
    BY <1>2, <2>1, <2>2, <2>3, <2>4, <2>5 DEF Next
<1>. QED
  BY <1>1, <1>2, InvNext

\* In every reachable state the client keeps ClientInv: a command under way, pending or
\* placed was issued, and its number is its own within its process; the server places it
\* for its target or later; a shell goes on past every number of its process; and an
\* attempt has a session exactly when it ended well (UpdateShell, SubmitInput, NewShell,
\* startConnect and the handlers of client_app.go).
THEOREM ClientInvariant == Spec => []ClientInv
<1>1. Init => ClientInv
  BY InitInv
<1>2. ClientInv /\ [Next]_vars => ClientInv'
  BY NextInv
<1>. QED
  BY <1>1, <1>2, PTL DEF Spec

\* Every session that is open, or lost and not yet closed, is the application's or has its
\* result in the channel: whatever attempts overtake, outlive or displace each other, and
\* however few results the channel holds, none is forgotten (processAsyncResults,
\* startConnect, onConnectSuccess).
THEOREM SessionsNotLeaked == Spec => []NoSessionLeak
<1>1. ClientInv => NoSessionLeak
  BY DEF ClientInv
<1>. QED
  BY <1>1, ClientInvariant, PTL

\* A process never uses a client_seq twice, and a command on its way is refused as a
\* duplicate only when another process used its number (seedClientSeq, recordClientSeq,
\* BuildCommands).
THEOREM NumbersFresh == Spec => []SeqsFresh
<1>1. ASSUME ClientInv
      PROVE  SeqsFresh
  <2>1. /\ issued \subseteq CommandRecords /\ app \in AppRecords /\ IssuedInv /\ PlacedInv
        /\ SentInv /\ ShellInv /\ (shell # NoShell => shell \in ShellRecords)
    BY <1>1, Facts DEF ClientInv, ClientTypeOK
  <2>2. ASSUME shell # NoShell, shell.player, NEW c \in issued, c.by = process
        PROVE  c.seq <= shell.nextClientSeq
    <3>1. PICK a \in Nat, b \in Nat, d \in Nat :
              a = c.seq /\ b = app.lastClientSeq /\ d = shell.nextClientSeq
      BY <2>1, <2>2, CommandFacts, AppFacts, ShellFacts
    <3>2. c.seq <= app.lastClientSeq /\ app.lastClientSeq <= shell.nextClientSeq
      BY <2>1, <2>2 DEF IssuedInv, ShellInv
    <3>. QED
      BY <3>1, <3>2
  <2>3. ASSUME NEW i \in Ids, NEW c \in ToSet(sessions[i].sent), Seen(c.seq)
        PROVE  \E d \in issued : d.seq = c.seq /\ d.by # c.by
    <3>1. PICK k \in DOMAIN sessions[i].sent : c = sessions[i].sent[k]
      BY DEF ToSet
    <3>2. PICK e \in scheduled \cup applied : e.seq = c.seq
      BY <2>3 DEF Seen
    <3>3. ~Same(c, e)
      BY <2>1, <3>1 DEF SentInv
    <3>4. PICK d \in issued : Same(d, e)
      BY <2>1 DEF PlacedInv
    <3>. QED
      BY <3>2, <3>3, <3>4 DEF Same
  <2>. QED
    BY <2>2, <2>3 DEF SeqsFresh
<1>. QED
  BY <1>1, ClientInvariant, PTL

\* A predicted move is never added to a frame that has it already, whichever frame is
\* drawn and however the acknowledgement and the state were read (RenderState,
\* replayPendingMovement, reconcilePredictionFromStore).
THEOREM NoMoveTwice == Spec => []NoDoubleStep
<1>1. ASSUME ClientInv
      PROVE  NoDoubleStep
  <2>1. /\ issued \subseteq CommandRecords /\ applied \subseteq PlacedRecords
        /\ IssuedInv /\ PlacedInv /\ ShellInv /\ (shell # NoShell => shell \in ShellRecords)
    BY <1>1, Facts DEF ClientInv, ClientTypeOK
  <2>2. ASSUME NEW t \in ToSet(shell.history), NEW c \in Replayed(shell, t),
               NEW d \in applied, d.seq = c.seq, d.by = c.by, d.at <= t
        PROVE  FALSE
    <3>1. PICK k \in DOMAIN shell.history : t = shell.history[k]
      BY DEF ToSet
    <3>2. shell # NoShell
      <4>1. DOMAIN NoShell.history = {}
        BY DEF NoShell
      <4>. QED
        BY <3>1, <4>1
    <3>3. t \in Nat
      <4>1. shell.history \in Seq(Nat)
        BY <2>1, <3>2, ShellFacts
      <4>. QED
        BY <3>1, <4>1, ElementOfSeq, LenProperties
    <3>4. c \in issued /\ c.target > t
      BY <2>1, <3>2 DEF Replayed, ShellInv
    <3>5. PICK x \in issued : Same(x, d) /\ x.target <= d.at
      BY <2>1 DEF PlacedInv
    <3>6. x = c
      BY <2>1, <2>2, <3>4, <3>5 DEF IssuedInv, Same
    <3>7. c.target \in Nat /\ d.at \in Nat
      BY <2>1, <3>4, CommandFacts, PlacedFacts
    <3>. QED
      BY <2>2, <3>3, <3>4, <3>5, <3>6, <3>7
  <2>. QED
    BY <2>2 DEF NoDoubleStep
<1>. QED
  BY <1>1, ClientInvariant, PTL

-----------------------------------------------------------------------------
(* The application implements the service of ConnectionService *)

Live(s) == s.state \in {"open", "lost"}

LEMMA LifeIs ==
    ASSUME NEW i
    PROVE  Life(i) = IF attempts[i].pc # "done" THEN "asked"
                     ELSE IF ~Live(sessions[i]) THEN "over"
                     ELSE IF i = app.session THEN "used" ELSE "ready"
BY DEF Life, Live

LEMMA LivesFacts ==
    ASSUME ClientInv
    PROVE  /\ DOMAIN Lives = DOMAIN attempts /\ DOMAIN Lives = 1 .. Len(attempts)
           /\ \A i \in DOMAIN attempts : Lives[i] = Life(i)
           /\ Lives \in Seq({"asked", "ready", "used", "over"}) /\ Len(Lives) = Len(attempts)
<1>1. Len(attempts) \in Nat /\ DOMAIN attempts = 1 .. Len(attempts)
  BY Facts
<1>2. \A i : Life(i) \in {"asked", "ready", "used", "over"}
  BY DEF Life
<1>3. Lives \in [1 .. Len(attempts) -> {"asked", "ready", "used", "over"}]
  BY <1>1, <1>2 DEF Lives
<1>4. Lives \in Seq({"asked", "ready", "used", "over"})
  BY <1>1, <1>3, SeqDef
<1>5. Len(Lives) = Len(attempts)
  BY <1>1, <1>3, <1>4, LenProperties
<1>. QED
  BY <1>1, <1>3, <1>4, <1>5 DEF Lives

LEMMA SameLives ==
    ASSUME DOMAIN attempts' = DOMAIN attempts, app'.session = app.session,
           \A i \in DOMAIN attempts : /\ attempts'[i].pc = "done" <=> attempts[i].pc = "done"
                                      /\ Live(sessions'[i]) <=> Live(sessions[i])
    PROVE  Lives' = Lives
<1>1. \A i \in DOMAIN attempts : Life(i)' = Life(i)
  BY DEF Life, Live
<1>. QED
  BY <1>1 DEF Lives

\* The application's session is closed, and it has none.
LEMMA LeftLives ==
    ASSUME ClientInv, DOMAIN attempts' = DOMAIN attempts, app'.session = 0,
           \A i \in DOMAIN attempts : attempts'[i].pc = attempts[i].pc,
           sessions' = Close(sessions, app.session)
    PROVE  Connections!Leave
<1>1. /\ sessions \in [Ids -> SessionRecords] /\ DOMAIN attempts \subseteq Ids /\ 0 \notin Ids
      /\ app.session \in Ids \cup {0}
  BY Facts
<1>2. ASSUME NEW i \in DOMAIN attempts
      PROVE  Life(i)' = IF Life(i) = "used" THEN "over" ELSE Life(i)
  <2>1. i \in Ids /\ i # 0
    BY <1>1
  <2>2. Live(sessions'[i]) <=> Live(sessions[i]) /\ i # app.session
    <3>1. CASE app.session = 0
      BY <2>1, <3>1 DEF Close
    <3>2. CASE app.session # 0
      <4>1. sessions' = [sessions EXCEPT ![app.session].state = "closed"] /\ app.session \in Ids
        BY <1>1, <3>2 DEF Close
      <4>2. i = app.session => sessions'[i].state = "closed"
        BY <1>1, <2>1, <4>1 DEF SessionRecords
      <4>3. i # app.session => sessions'[i] = sessions[i]
        BY <1>1, <2>1, <4>1
      <4>. QED
        BY <4>2, <4>3 DEF Live
    <3>. QED
      BY <3>1, <3>2
  <2>3. Life(i)' = IF attempts[i].pc # "done" THEN "asked"
                   ELSE IF ~Live(sessions'[i]) THEN "over"
                   ELSE "ready"
    BY <2>1 DEF Life, Live
  <2>. QED
    BY <2>2, <2>3, LifeIs
<1>3. /\ DOMAIN Lives = DOMAIN attempts
      /\ Lives' = [i \in DOMAIN attempts |-> Life(i)']
      /\ \A i \in DOMAIN attempts : Lives[i] = Life(i)
  BY DEF Lives
<1>. QED
  BY <1>2, <1>3 DEF Connections!Leave, Connections!GivenUp

\* One session changes, and is open as before.
LEMMA SessionLives ==
    ASSUME ClientInv, NEW j, NEW s, sessions' = [sessions EXCEPT ![j] = s],
           j \in Ids => (Live(s) <=> Live(sessions[j])),
           attempts' = attempts, app'.session = app.session
    PROVE  Lives' = Lives
<1>1. sessions \in [Ids -> SessionRecords] /\ DOMAIN attempts \subseteq Ids
  BY Facts
<1>2. \A i \in Ids : sessions'[i] = IF i = j THEN s ELSE sessions[i]
  BY <1>1
<1>. QED
  BY <1>1, <1>2, SameLives

LEMMA NetworkLives ==
    ASSUME ClientInv, Network, UNCHANGED <<app, channels>>
    PROVE  Lives' = Lives
<1>1. attempts' = attempts /\ app' = app /\ sessions \in [Ids -> SessionRecords]
  BY Facts DEF channels
<1>2. CASE StartMatch \/ ServerTick
  BY <1>1, <1>2, SameLives DEF StartMatch, ServerTick
<1>3. ASSUME NEW j \in Ids, NEW barred \in BOOLEAN, SubmitInput(j, barred)
      PROVE  Lives' = Lives
  <2> DEFINE refused == barred \/ Seen(Head(sessions[j].sent).seq) \/ TooLate(Head(sessions[j].sent))
             s == [sessions[j] EXCEPT !.sent = Tail(sessions[j].sent), !.err = sessions[j].err \/ refused]
  <2>1. sessions' = [sessions EXCEPT ![j] = s]
    BY <1>1, <1>3 DEF SubmitInput
  <2>2. Live(s) <=> Live(sessions[j])
    BY <1>1 DEF Live, SessionRecords
  <2> HIDE DEF s
  <2>. QED
    BY <1>1, <2>1, <2>2, SessionLives
<1>4. ASSUME NEW j \in Ids, onAuthoritativeSnapshot(j)
      PROVE  Lives' = Lives
  <2>1. PICK t : sessions' = [sessions EXCEPT ![j].tick = t, ![j].running = TRUE]
    BY <1>4 DEF onAuthoritativeSnapshot
  <2> DEFINE s == [sessions[j] EXCEPT !.tick = t, !.running = TRUE]
  <2>2. sessions' = [sessions EXCEPT ![j] = s]
    BY <1>1, <2>1
  <2>3. Live(s) <=> Live(sessions[j])
    BY <1>1 DEF Live, SessionRecords
  <2> HIDE DEF s
  <2>. QED
    BY <1>1, <2>2, <2>3, SessionLives
<1>5. ASSUME NEW j \in Ids, NEW failed \in BOOLEAN, LoseConnection(j, failed)
      PROVE  Lives' = Lives
  <2> DEFINE s == [sessions[j] EXCEPT !.state = "lost", !.err = sessions[j].err \/ failed]
  <2>1. sessions' = [sessions EXCEPT ![j] = s] /\ sessions[j].state = "open"
    BY <1>1, <1>5 DEF LoseConnection
  <2>2. Live(s) <=> Live(sessions[j])
    BY <1>1, <2>1 DEF Live, SessionRecords
  <2> HIDE DEF s
  <2>. QED
    BY <1>1, <2>1, <2>2, SessionLives
<1>6. ASSUME NEW j \in Ids, NEW failed \in BOOLEAN, LoseSent(j, failed)
      PROVE  Lives' = Lives
  <2> DEFINE s == [sessions[j] EXCEPT !.sent = <<>>, !.err = sessions[j].err \/ failed]
  <2>1. sessions' = [sessions EXCEPT ![j] = s]
    BY <1>1, <1>6 DEF LoseSent
  <2>2. Live(s) <=> Live(sessions[j])
    BY <1>1 DEF Live, SessionRecords
  <2> HIDE DEF s
  <2>. QED
    BY <1>1, <2>1, <2>2, SessionLives
<1>. QED
  BY <1>2, <1>3, <1>4, <1>5, <1>6 DEF Network

LEMMA BuildLives ==
    ASSUME ClientInv, NEW keys, UpdateShell(keys)
    PROVE  Lives' = Lives
<1> DEFINE j == app.session
           commands == BuildCommands(shell, keys, sessions[j].tick + 1)
           s == SendInputCommand(sessions[j], commands)
<1>1. /\ sessions' = [sessions EXCEPT ![j] = s] /\ attempts' = attempts
      /\ app \in AppRecords /\ sessions \in [Ids -> SessionRecords]
  BY Facts DEF UpdateShell, channels
<1>2. app'.session = app.session
  <2>1. \E n : app' = [app EXCEPT !.pc = "async", !.lastClientSeq = n]
    BY <1>1 DEF UpdateShell, AppRecords
  <2>. QED
    BY <1>1, <2>1 DEF AppRecords
<1>3. j \in Ids => (Live(s) <=> Live(sessions[j]))
  <2> HIDE DEF commands
  <2>. QED
    BY <1>1 DEF SendInputCommand, Live, SessionRecords
<1> HIDE DEF s, j
<1>. QED
  BY <1>1, <1>2, <1>3, SessionLives

\* Menus, pauses, fetches and the reading of the store concern no connection.
LEMMA QuietLives ==
    ASSUME ClientInv,
           \/ TakeFetchResult \/ BackToMainMenu \/ updateConnecting \/ TogglePauseMenu \/ NoKey
           \/ ReadMeta \/ reconcilePredictionFromStore \/ \E f \in fetching : FetchLobbies(f)
    PROVE  Lives' = Lives
<1>1. app \in AppRecords
  BY Facts
<1>2. sessions' = sessions
  BY DEF TakeFetchResult, BackToMainMenu, updateConnecting, TogglePauseMenu, NoKey, ReadMeta,
         reconcilePredictionFromStore, FetchLobbies, clientVars
<1>3. attempts' = attempts \/ attempts' = cancelActiveConnect(attempts)
  BY DEF TakeFetchResult, BackToMainMenu, updateConnecting, TogglePauseMenu, NoKey, ReadMeta,
         reconcilePredictionFromStore, FetchLobbies, channels
<1>4. app'.session = app.session
  <2>1. CASE TakeFetchResult
    <3>1. \/ app' = app \/ app' = OnConnectError
          \/ \E b : app' = [app EXCEPT !.lobbies = b]
      BY <2>1 DEF TakeFetchResult
    <3>. QED
      BY <1>1, <3>1 DEF OnConnectError, AppRecords
  <2>2. CASE BackToMainMenu \/ updateConnecting \/ TogglePauseMenu \/ NoKey
    BY <1>1, <2>2 DEF BackToMainMenu, updateConnecting, Goto, TogglePauseMenu, NoKey, AppRecords
  <2>3. CASE ReadMeta
    <3>1. \E m, pc : app' = [app EXCEPT !.meta = m, !.pc = pc]
      BY <2>3 DEF ReadMeta
    <3>. QED
      BY <1>1, <3>1 DEF AppRecords
  <2>4. CASE reconcilePredictionFromStore
    <3>1. \E pc : app' = [app EXCEPT !.pc = pc, !.meta = 0]
      BY <1>1, <2>4 DEF reconcilePredictionFromStore, AppRecords
    <3>. QED
      BY <1>1, <3>1 DEF AppRecords
  <2>5. CASE \E f \in fetching : FetchLobbies(f)
    BY <2>5 DEF FetchLobbies
  <2>. QED
    BY <2>1, <2>2, <2>3, <2>4, <2>5
<1>. QED
  BY <1>2, <1>3, <1>4, CancelFacts, SameLives

\* Appending, element by element.
LEMMA AppendIs ==
    ASSUME NEW S, NEW q \in Seq(S), NEW e \in S
    PROVE  Append(q, e) = [i \in 1 .. Len(q) + 1 |-> IF i = Len(q) + 1 THEN e ELSE q[i]]
<1>1. /\ Append(q, e) \in Seq(S) /\ Len(Append(q, e)) = Len(q) + 1
      /\ \A i \in 1 .. Len(q) : Append(q, e)[i] = q[i]
      /\ Append(q, e)[Len(q) + 1] = e
      /\ Len(q) \in Nat
  BY AppendProperties, LenProperties
<1> DEFINE p == Append(q, e)
<1>2. p \in Seq(S) /\ Len(p) = Len(q) + 1
  BY <1>1
<1>3. /\ \A i \in 1 .. Len(q) : p[i] = q[i]
      /\ p[Len(q) + 1] = e
  BY <1>1
<1> HIDE DEF p
<1>4. p \in [1 .. Len(p) -> S]
  BY <1>2, LenProperties
<1>5. p = [i \in 1 .. Len(q) + 1 |-> p[i]]
  BY <1>2, <1>4
<1>6. \A i \in 1 .. Len(q) + 1 : p[i] = IF i = Len(q) + 1 THEN e ELSE q[i]
  BY <1>1, <1>3
<1>7. p = [i \in 1 .. Len(q) + 1 |-> IF i = Len(q) + 1 THEN e ELSE q[i]]
  BY <1>5, <1>6
<1>. QED
  BY <1>7 DEF p

\* An attempt is asked for, and what was used is left.
LEMMA AskLives ==
    ASSUME ClientInv, NEW player \in BOOLEAN, NEW named, startConnect(player, named)
    PROVE  Connections!Ask
<1>0. PICK n \in Nat : n = Len(attempts)
  BY Facts
<1> DEFINE start == player \/ named \/ PreferredMatch
           a == [pc |-> IF start THEN "dialing" ELSE "done", player |-> player, canceled |-> FALSE]
           told == cancelActiveConnect(attempts)
           outcome == IF start THEN "asked" ELSE "over"
           S == {"asked", "ready", "used", "over"}
           G == Connections!GivenUp
<1>1. /\ attempts' = Append(told, a) /\ n < bound.sessions
      /\ sessions' = Close(sessions, app.session) /\ app'.session = 0
  <2>1. app \in AppRecords
    BY Facts
  <2>. QED
    BY <1>0, <2>1 DEF startConnect, AppRecords
<1>2. /\ attempts \in Seq(AttemptRecords) /\ DOMAIN attempts = 1 .. n
      /\ bound.sessions \in Nat /\ sessions \in [Ids -> SessionRecords] /\ 0 \notin Ids
      /\ app.session \in Ids \cup {0} /\ DOMAIN attempts \subseteq Ids
      /\ app.session # 0 => sessions[app.session].state # "none"
  BY <1>0, Facts
<1>3. /\ DOMAIN told = 1 .. n
      /\ \A i \in 1 .. n : told[i].pc = attempts[i].pc
      /\ Append(told, a) = [i \in 1 .. n + 1 |-> IF i = n + 1 THEN a ELSE told[i]]
  <2>1. told \in Seq(AttemptRecords) /\ Len(told) = n /\ DOMAIN told = DOMAIN attempts
    BY <1>0, CancelFacts
  <2>2. a \in AttemptRecords
    BY DEF AttemptRecords
  <2>3. \A i \in 1 .. n : told[i].pc = attempts[i].pc
    BY <1>2, CancelFacts
  <2> DEFINE T == AttemptRecords
  <2>4. told \in Seq(T) /\ a \in T
    BY <2>1, <2>2
  <2> HIDE DEF told, a, T
  <2>5. Append(told, a) = [i \in 1 .. Len(told) + 1 |-> IF i = Len(told) + 1 THEN a ELSE told[i]]
    <3>1. \A q \in Seq(T) : \A e \in T :
            Append(q, e) = [i \in 1 .. Len(q) + 1 |-> IF i = Len(q) + 1 THEN e ELSE q[i]]
      BY AppendIs
    <3>. QED
      BY <2>4, <3>1
  <2>. QED
    BY <1>2, <2>1, <2>3, <2>5
<1>a. /\ a.pc = "done" <=> outcome = "over"
      /\ outcome \in {"asked", "over"}
  OBVIOUS
<1> HIDE DEF told, a, outcome
<1>b. /\ DOMAIN attempts' = 1 .. n + 1 /\ attempts'[n + 1] = a /\ n + 1 \in 1 .. n + 1
      /\ \A i \in 1 .. n : attempts'[i].pc = attempts[i].pc
  <2>1. attempts' = [i \in 1 .. n + 1 |-> IF i = n + 1 THEN a ELSE told[i]]
    BY <1>1, <1>3
  <2>2. n + 1 \in 1 .. n + 1 /\ \A i \in 1 .. n : i \in 1 .. n + 1 /\ i # n + 1
    OBVIOUS
  <2>. QED
    BY <1>3, <2>1, <2>2
<1>4. /\ DOMAIN G = 1 .. n /\ G \in Seq(S) /\ Len(G) = n
      /\ \A i \in 1 .. n : G[i] = IF Life(i) = "used" THEN "over" ELSE Life(i)
  <2>1. DOMAIN Lives = 1 .. n /\ \A i \in 1 .. n : Lives[i] = Life(i) /\ Life(i) \in S
    BY <1>2, LivesFacts DEF Life
  <2>2. G = [i \in 1 .. n |-> IF Lives[i] = "used" THEN "over" ELSE Lives[i]]
    BY <2>1 DEF Connections!GivenUp
  <2> HIDE DEF G
  <2>3. G \in [1 .. n -> S] /\ \A i \in 1 .. n : G[i] = IF Life(i) = "used" THEN "over" ELSE Life(i)
    BY <2>1, <2>2
  <2> HIDE DEF S
  <2>4. G \in Seq(S)
    BY <1>2, <2>3, SeqDef
  <2>. QED
    BY <1>2, <2>3, <2>4, LenProperties
<1>5. Append(G, outcome) = [i \in 1 .. n + 1 |-> IF i = n + 1 THEN outcome ELSE G[i]]
  <2>1. outcome \in S
    BY <1>a
  <2> HIDE DEF G, S
  <2>2. Append(G, outcome) = [i \in 1 .. Len(G) + 1 |-> IF i = Len(G) + 1 THEN outcome ELSE G[i]]
    BY <1>4, <2>1, AppendIs
  <2>. QED
    BY <1>4, <2>2
<1>6. ASSUME NEW i \in 1 .. n
      PROVE  Life(i)' = G[i]
  <2>1. attempts'[i].pc = attempts[i].pc /\ i \in Ids /\ i # 0
    BY <1>2, <1>b
  <2>2. Live(sessions'[i]) <=> Live(sessions[i]) /\ i # app.session
    <3>1. CASE app.session = 0
      BY <1>1, <2>1, <3>1 DEF Close
    <3>2. CASE app.session # 0
      <4>1. sessions' = [sessions EXCEPT ![app.session].state = "closed"] /\ app.session \in Ids
        BY <1>1, <1>2, <3>2 DEF Close
      <4>2. i = app.session => sessions'[i].state = "closed"
        BY <1>2, <2>1, <4>1 DEF SessionRecords
      <4>3. i # app.session => sessions'[i] = sessions[i]
        BY <1>2, <2>1, <4>1
      <4>. QED
        BY <4>2, <4>3 DEF Live
    <3>. QED
      BY <3>1, <3>2
  <2>3. Life(i)' = IF attempts[i].pc # "done" THEN "asked"
                   ELSE IF ~Live(sessions'[i]) THEN "over"
                   ELSE "ready"
    BY <1>1, <2>1 DEF Life, Live
  <2>. QED
    BY <1>4, <2>2, <2>3, LifeIs
<1>7. Life(n + 1)' = outcome
  <2>1. n + 1 \in Ids /\ n + 1 \notin DOMAIN attempts
    BY <1>1, <1>2 DEF Ids
  <2>2. sessions[n + 1].state = "none"
    BY <2>1 DEF ClientInv, AttemptInv
  <2>3. app.session # n + 1
    BY <1>2, <2>1, <2>2
  <2>4. sessions'[n + 1] = sessions[n + 1]
    BY <1>1, <1>2, <2>1, <2>3 DEF Close
  <2>5. attempts'[n + 1].pc # "done" \/ outcome = "over"
    BY <1>a, <1>b
  <2>6. attempts'[n + 1].pc = "done" \/ outcome = "asked"
    BY <1>a, <1>b
  <2>. QED
    BY <1>a, <1>b, <2>2, <2>4, <2>5, <2>6 DEF Life
<1>8. Lives' = [i \in 1 .. n + 1 |-> Life(i)']
  BY <1>b DEF Lives
<1>9. Lives' = Append(G, outcome)
  <2>1. \A i \in 1 .. n + 1 : Life(i)' = IF i = n + 1 THEN outcome ELSE G[i]
    BY <1>2, <1>6, <1>7
  <2> HIDE DEF G, outcome
  <2>. QED
    BY <1>5, <1>8, <2>1
<1>. QED
  BY <1>9, <1>a DEF Connections!Ask

LEMMA AnswerLives ==
    ASSUME ClientInv, NEW i \in DOMAIN attempts, DialAndJoin(i) \/ DialFails(i)
    PROVE  Connections!Next
<1>1. PICK ok, joined :
        /\ attempts[i].pc # "done"
        /\ Deliver(i, ok, joined)
        /\ \/ joined = sessions
           \/ \E s : joined = [sessions EXCEPT ![i] = s]
  BY DEF DialAndJoin, DialFails
<1>2. /\ sessions \in [Ids -> SessionRecords] /\ DOMAIN attempts \subseteq Ids /\ 0 \notin Ids
      /\ attempts \in Seq(AttemptRecords) /\ app.session \in Ids \cup {0}
      /\ app.session # 0 => sessions[app.session].state # "none"
      /\ DOMAIN attempts = 1 .. Len(attempts)
  BY Facts
<1>3. i \in Ids /\ i # app.session
  BY <1>1, <1>2 DEF ClientInv, AttemptInv
<1>4. /\ DOMAIN attempts' = DOMAIN attempts /\ attempts'[i].pc = "done"
      /\ \A j \in DOMAIN attempts : j # i => attempts'[j] = attempts[j]
      /\ app' = app
  <2>1. attempts' = [attempts EXCEPT ![i].pc = "done"] /\ app' = app
    BY <1>1 DEF Deliver
  <2>2. attempts[i] \in AttemptRecords
    BY <1>2, ElementOfSeq
  <2>. QED
    BY <1>2, <2>1, <2>2 DEF AttemptRecords
<1>5. \A j \in Ids : j # i => sessions'[j] = sessions[j]
  <2>1. sessions' = joined \/ sessions' = Close(joined, i)
    BY <1>1 DEF Deliver
  <2>. QED
    BY <1>1, <1>2, <1>3, <2>1 DEF Close
<1>6. Life(i) = "asked" /\ Life(i)' \in {"ready", "over"}
  BY <1>1, <1>3, <1>4 DEF Life
<1>7. \A j \in DOMAIN attempts : j # i => Life(j)' = Life(j)
  BY <1>2, <1>4, <1>5 DEF Life
<1>8. Lives = [j \in DOMAIN attempts |-> Life(j)] /\ Lives' = [j \in DOMAIN attempts |-> Life(j)']
  BY <1>4 DEF Lives
<1>9. Lives' = [Lives EXCEPT ![i] = Life(i)'] /\ Lives[i] = "asked" /\ i \in DOMAIN Lives
  BY <1>6, <1>7, <1>8
<1>10. Connections!Answer(i)
  BY <1>6, <1>9 DEF Connections!Answer
<1>. QED
  BY <1>9, <1>10 DEF Connections!Next

\* A result is taken: of the latest attempt, to be used or to report that it failed; of
\* another, to be turned away.
LEMMA TakenLives ==
    ASSUME ClientInv, LatestInv, TakeConnectResult
    PROVE  [Connections!Next]_Lives
<1> DEFINE r == Head(connectResults)
<1>0. PICK i : i = r.id
  OBVIOUS
<1>1. /\ attempts' = attempts /\ connectResults # <<>>
      /\ \/ Overtaken(r) /\ sessions' = Discard(r) /\ UNCHANGED <<app, shell>>
         \/ ~Overtaken(r) /\ ~r.ok /\ app' = OnConnectError /\ UNCHANGED sessions
         \/ ~Overtaken(r) /\ r.ok /\ onConnectSuccess(r.id)
  <2>1. CASE Overtaken(r)
    BY <2>1 DEF TakeConnectResult
  <2>2. CASE ~Overtaken(r) /\ ~r.ok
    BY <2>2 DEF TakeConnectResult
  <2>3. CASE ~Overtaken(r) /\ r.ok
    BY <2>3 DEF TakeConnectResult
  <2>. QED
    BY <2>1, <2>2, <2>3
<1>2. /\ sessions \in [Ids -> SessionRecords] /\ DOMAIN attempts \subseteq Ids /\ 0 \notin Ids
      /\ app \in AppRecords /\ app.session \in Ids \cup {0}
      /\ connectResults \in Seq([id : Nat, ok : BOOLEAN])
  BY Facts
<1>3. 1 \in DOMAIN connectResults /\ r = connectResults[1]
  <2>1. DOMAIN connectResults = 1 .. Len(connectResults) /\ Len(connectResults) \in Nat
        /\ Len(connectResults) # 0
    BY <1>1, <1>2, LenProperties, EmptySeq
  <2>2. r = connectResults[1]
    <3> DEFINE R == [id : Nat, ok : BOOLEAN]
    <3>1. connectResults \in Seq(R) /\ connectResults # <<>>
      BY <1>1, <1>2
    <3> HIDE DEF R
    <3>. QED
      BY <3>1, HeadTailProperties
  <2>. QED
    BY <2>1, <2>2
<1>4. i \in DOMAIN attempts /\ attempts[i].pc = "done" /\ i \in Ids /\ i # 0
  BY <1>0, <1>2, <1>3 DEF ClientInv, AttemptInv
<1>5. app.connectAttemptID = Len(attempts)
  BY <1>1 DEF LatestInv
<1>6. /\ DOMAIN Lives = DOMAIN attempts /\ Len(Lives) = Len(attempts)
      /\ \A j \in DOMAIN attempts : Lives[j] = Life(j)
      /\ Lives = [j \in DOMAIN attempts |-> Lives[j]]
  BY LivesFacts DEF Lives
<1>7. Lives' = [j \in DOMAIN attempts |-> Life(j)']
  BY <1>1 DEF Lives
<1>a. /\ Overtaken(r) <=> i # Len(Lives)
      /\ Discard(r) = sessions \/ Discard(r) = Close(sessions, i)
  BY <1>0, <1>5, <1>6 DEF Overtaken, Discard
<1>b. onConnectSuccess(r.id) => sessions' = Close(sessions, app.session) /\ app'.session = i
  BY <1>0, <1>2 DEF onConnectSuccess, AppRecords
<1> HIDE DEF r
<1>8. CASE Overtaken(r) /\ sessions' = Discard(r) /\ UNCHANGED <<app, shell>>
  <2>1. i # Len(Lives)
    BY <1>a, <1>8
  <2>2. CASE sessions' = sessions
    BY <1>1, <1>8, <2>2, SameLives
  <2>3. CASE sessions' # sessions
    <3>1. sessions' = [sessions EXCEPT ![i].state = "closed"]
      BY <1>4, <1>8, <1>a, <2>3 DEF Close
    <3>2. /\ sessions'[i].state = "closed"
          /\ \A j \in DOMAIN attempts : j # i => sessions'[j] = sessions[j]
      BY <1>2, <1>4, <3>1 DEF SessionRecords
    <3>3. Life(i)' = "over" /\ \A j \in DOMAIN attempts : j # i => Life(j)' = Life(j)
      BY <1>1, <1>4, <1>8, <3>2 DEF Life
    <3>4. Lives' = [Lives EXCEPT ![i] = "over"]
      BY <1>4, <1>6, <1>7, <3>3
    <3>5. CASE Lives[i] = "ready"
      <4>1. Connections!Discard(i)
        BY <2>1, <3>4, <3>5 DEF Connections!Discard
      <4>. QED
        BY <1>4, <1>6, <4>1 DEF Connections!Next
    <3>6. CASE Lives[i] = "over"
      BY <1>4, <1>6, <3>4, <3>6
    <3>7. CASE Lives[i] = "used"
      <4>1. i = app.session
        BY <1>4, <1>6, <3>7 DEF Life
      <4>2. \A j \in DOMAIN attempts : Lives[j] = "used" => j = i
        BY <1>6, <4>1 DEF Life
      <4>3. Connections!Leave
        BY <1>4, <1>6, <3>4, <3>7, <4>2 DEF Connections!Leave, Connections!GivenUp
      <4>. QED
        BY <4>3 DEF Connections!Next
    <3>. QED
      BY <1>4, <1>6, <3>5, <3>6, <3>7 DEF Life
  <2>. QED
    BY <2>2, <2>3
<1>9. CASE app' = OnConnectError /\ UNCHANGED sessions
  <2>1. app'.session = app.session
    BY <1>2, <1>9 DEF OnConnectError, AppRecords
  <2>. QED
    BY <1>1, <1>9, <2>1, SameLives
<1>10. CASE ~Overtaken(r) /\ r.ok /\ onConnectSuccess(r.id)
  <2>1. i = Len(Lives)
    BY <1>a, <1>10
  <2>2. sessions' = Close(sessions, app.session) /\ app'.session = i
    BY <1>b, <1>10
  <2>3. /\ app.session # 0 => sessions'[app.session].state = "closed"
        /\ \A j \in DOMAIN attempts : j # app.session => sessions'[j] = sessions[j]
    BY <1>2, <2>2 DEF Close, SessionRecords
  <2>4. \A j \in DOMAIN attempts : j # i => Life(j)' = IF Life(j) = "used" THEN "over" ELSE Life(j)
    <3>1. ASSUME NEW j \in DOMAIN attempts, j # i
          PROVE  Life(j)' = IF Life(j) = "used" THEN "over" ELSE Life(j)
      <4>1. CASE j = app.session
        BY <1>1, <1>2, <2>3, <3>1, <4>1 DEF Life
      <4>2. CASE j # app.session
        BY <1>1, <2>2, <2>3, <3>1, <4>2 DEF Life
      <4>. QED
        BY <4>1, <4>2
    <3>. QED
      BY <3>1
  <2>5. CASE i # app.session /\ Live(sessions[i])
    <3>1. Life(i) = "ready" /\ Life(i)' = "used"
      BY <1>1, <1>4, <2>2, <2>3, <2>5 DEF Life, Live
    <3>2. /\ Connections!GivenUp = [j \in DOMAIN attempts |-> IF Life(j) = "used" THEN "over" ELSE Life(j)]
      BY <1>6 DEF Connections!GivenUp
    <3>3. Lives' = [Connections!GivenUp EXCEPT ![i] = "used"]
      BY <1>4, <1>7, <2>4, <3>1, <3>2
    <3>4. Lives # <<>>
      BY <1>4, <1>6
    <3>5. Connections!Use
      BY <1>4, <1>6, <2>1, <3>1, <3>3, <3>4 DEF Connections!Use
    <3>. QED
      BY <3>5 DEF Connections!Next
  <2>6. CASE ~(i # app.session /\ Live(sessions[i]))
    <3>1. Life(i)' = IF Life(i) = "used" THEN "over" ELSE Life(i)
      <4>1. CASE i = app.session
        BY <1>1, <1>2, <1>4, <2>2, <2>3, <4>1 DEF Life
      <4>2. CASE i # app.session /\ ~Live(sessions[i])
        BY <1>1, <1>4, <2>2, <2>3, <4>2 DEF Life, Live
      <4>. QED
        BY <2>6, <4>1, <4>2
    <3>2. Connections!Leave
      BY <1>6, <1>7, <2>4, <3>1 DEF Connections!Leave, Connections!GivenUp
    <3>. QED
      BY <3>2 DEF Connections!Next
  <2>. QED
    BY <2>5, <2>6
<1>. QED
  BY <1>1, <1>8, <1>9, <1>10

LEMMA SyncLives ==
    ASSUME ClientInv, SyncStage
    PROVE  [Connections!Next]_Lives
<1> DEFINE i == app.session
           leave == i # 0 /\ sessions[i].err
<1>1. /\ attempts' = attempts \/ attempts' = cancelActiveConnect(attempts)
      /\ sessions' = IF leave THEN Close(sessions, i) ELSE sessions
  BY DEF SyncStage
<1>2. app'.session = IF leave THEN 0 ELSE i
  <2>1. app \in AppRecords
    BY Facts
  <2>. QED
    BY <2>1 DEF SyncStage, AppRecords
<1>3. /\ DOMAIN attempts' = DOMAIN attempts
      /\ \A j \in DOMAIN attempts : attempts'[j].pc = attempts[j].pc
  BY <1>1, CancelFacts
<1>4. CASE leave
  <2>1. Connections!Leave
    BY <1>1, <1>2, <1>3, <1>4, LeftLives
  <2>. QED
    BY <2>1 DEF Connections!Next
<1>5. CASE ~leave
  BY <1>1, <1>2, <1>3, <1>5, SameLives
<1>. QED
  BY <1>4, <1>5

LEMMA LeaveLives ==
    ASSUME ClientInv, leaveSessionToMenu
    PROVE  Connections!Next
<1>1. /\ attempts' = cancelActiveConnect(attempts) /\ sessions' = Close(sessions, app.session)
      /\ app'.session = 0
  <2>1. app \in AppRecords
    BY Facts
  <2>. QED
    BY <2>1 DEF leaveSessionToMenu, AppRecords
<1>2. Connections!Leave
  BY <1>1, CancelFacts, LeftLives
<1>. QED
  BY <1>2 DEF Connections!Next

LEMMA StopLives ==
    ASSUME ClientInv, Restart
    PROVE  Connections!Next
<1>1. /\ DOMAIN attempts' = DOMAIN attempts
      /\ \A i \in DOMAIN attempts : attempts'[i].pc = "done" /\ sessions'[i].state \in {"none", "closed"}
  <2>1. /\ sessions \in [Ids -> SessionRecords] /\ DOMAIN attempts \subseteq Ids
        /\ attempts \in Seq(AttemptRecords) /\ DOMAIN attempts = 1 .. Len(attempts)
    BY Facts
  <2>2. \A i \in DOMAIN attempts : attempts[i] \in AttemptRecords
    BY <2>1, ElementOfSeq
  <2>3. DOMAIN attempts' = DOMAIN attempts /\ \A i \in DOMAIN attempts : attempts'[i].pc = "done"
    BY <2>2 DEF Restart, AttemptRecords
  <2>4. ASSUME NEW i \in DOMAIN attempts
        PROVE  sessions'[i].state \in {"none", "closed"}
    <3>1. i \in Ids /\ sessions[i] \in SessionRecords
      BY <2>1
    <3>2. sessions'[i] = IF sessions[i].state = "none" THEN NoSession
                         ELSE [sessions[i] EXCEPT !.state = "closed"]
      BY <3>1 DEF Restart
    <3>. QED
      BY <3>1, <3>2 DEF NoSession, SessionRecords
  <2>. QED
    BY <2>3, <2>4
<1>2. \A i \in DOMAIN attempts : Life(i)' = "over"
  BY <1>1 DEF Life
<1>3. Connections!Stop
  BY <1>1, <1>2 DEF Lives, Connections!Stop
<1>. QED
  BY <1>3 DEF Connections!Next

LEMMA HandshakeLives ==
    ASSUME ClientInv, NEW i \in DOMAIN attempts, Handshake(i)
    PROVE  Lives' = Lives
<1>1. /\ attempts \in Seq(AttemptRecords) /\ DOMAIN attempts = 1 .. Len(attempts)
      /\ attempts' = [attempts EXCEPT ![i].pc = "reading"] /\ attempts[i].pc = "dialing"
      /\ sessions' = sessions /\ app' = app
  BY Facts DEF Handshake, clientVars
<1>2. attempts[i] \in AttemptRecords
  BY <1>1, ElementOfSeq
<1>3. attempts'[i].pc = "reading" /\ \A j \in DOMAIN attempts : j # i => attempts'[j] = attempts[j]
  BY <1>1, <1>2 DEF AttemptRecords
<1>. QED
  BY <1>1, <1>3, SameLives

LEMMA ConnectionStep ==
    ASSUME ClientInv, LatestInv, [Next]_vars
    PROVE  [Connections!Next]_Lives
<1>1. CASE UNCHANGED vars
  BY <1>1, SameLives DEF vars, clientVars, channels
<1>2. CASE Update
  <2>1. CASE TakeConnectResult \/ SyncStage
    BY <2>1, TakenLives, SyncLives
  <2>2. CASE \E player \in BOOLEAN, named \in BOOLEAN : startConnect(player, named)
    BY <2>2, AskLives DEF Connections!Next
  <2>3. CASE updateMainMenu \/ updateLobbyList
    <3>1. CASE sessions' = sessions /\ attempts' = attempts /\ app'.session = app.session
      BY <3>1, SameLives
    <3>2. \/ \E player \in BOOLEAN, named \in BOOLEAN : startConnect(player, named)
          \/ sessions' = sessions /\ attempts' = attempts /\ app'.session = app.session
      <4>1. app \in AppRecords
        BY Facts
      <4>. QED
        BY <2>3, <4>1 DEF updateMainMenu, updateLobbyList, Goto, clientVars, channels, AppRecords
    <3>. QED
      BY <2>2, <3>1, <3>2
  <2>4. CASE leaveSessionToMenu
    BY <2>4, LeaveLives
  <2>5. CASE \E keys \in SUBSET Keys : UpdateShell(keys)
    BY <2>5, BuildLives
  <2>6. CASE \/ TakeFetchResult \/ BackToMainMenu \/ updateConnecting \/ TogglePauseMenu \/ NoKey
             \/ ReadMeta \/ reconcilePredictionFromStore
    BY <2>6, QuietLives
  <2>. QED
    BY <1>2, <2>1, <2>3, <2>4, <2>5, <2>6 DEF Update
<1>3. CASE \E i \in DOMAIN attempts : Handshake(i) \/ DialAndJoin(i) \/ DialFails(i)
  BY <1>3, HandshakeLives, AnswerLives
<1>4. CASE \E f \in fetching : FetchLobbies(f)
  BY <1>4, QuietLives
<1>5. CASE Network /\ UNCHANGED <<app, channels>>
  BY <1>5, NetworkLives
<1>6. CASE Restart
  BY <1>6, StopLives
<1>. QED
  BY <1>1, <1>2, <1>3, <1>4, <1>5, <1>6 DEF Next

\* The answer waited for is that of the latest attempt.
LEMMA LatestStep ==
    ASSUME ClientInv, LatestInv, [Next]_vars
    PROVE  LatestInv'
<1>1. /\ app \in AppRecords /\ attempts \in Seq(AttemptRecords) /\ Len(attempts) \in Nat
      /\ DOMAIN attempts = 1 .. Len(attempts)
      /\ Len(cancelActiveConnect(attempts)) = Len(attempts)
      /\ cancelActiveConnect(attempts) \in Seq(AttemptRecords)
      /\ DOMAIN cancelActiveConnect(attempts) = DOMAIN attempts
      /\ \A i \in DOMAIN attempts : cancelActiveConnect(attempts)[i].pc = attempts[i].pc
  BY Facts, CancelFacts
<1>2. ASSUME attempts' = attempts \/ attempts' = cancelActiveConnect(attempts),
             connectResults' = connectResults, app'.connectAttemptID = app.connectAttemptID
      PROVE  LatestInv'
  BY <1>1, <1>2 DEF LatestInv
<1>3. CASE UNCHANGED vars
  BY <1>2, <1>3 DEF vars, channels
<1>4. CASE TakeConnectResult
  <2> DEFINE r == Head(connectResults)
  <2>1. connectResults # <<>> /\ attempts' = attempts
    BY <1>4 DEF TakeConnectResult
  <2>2. \/ app' = app \/ app' = OnConnectError \/ onConnectSuccess(r.id)
    <3>1. CASE Overtaken(r)
      BY <1>4, <3>1 DEF TakeConnectResult
    <3>2. CASE ~Overtaken(r) /\ ~r.ok
      BY <1>4, <3>2 DEF TakeConnectResult
    <3>3. CASE ~Overtaken(r) /\ r.ok
      BY <1>4, <3>3 DEF TakeConnectResult
    <3>. QED
      BY <3>1, <3>2, <3>3
  <2>3. app'.connectAttemptID = app.connectAttemptID
    BY <1>1, <2>2 DEF OnConnectError, onConnectSuccess, AppRecords
  <2>. QED
    BY <2>1, <2>3 DEF LatestInv
<1>5. ASSUME NEW player, NEW named, startConnect(player, named)
      PROVE  LatestInv'
  <2> DEFINE start == player \/ named \/ PreferredMatch
             a == [pc |-> IF start THEN "dialing" ELSE "done", player |-> player, canceled |-> FALSE]
             as == cancelActiveConnect(attempts)
  <2>1. attempts' = Append(as, a)
    BY <1>5 DEF startConnect
  <2>2. app'.connectAttemptID = Len(attempts) + 1
    BY <1>1, <1>5 DEF startConnect, AppRecords
  <2> HIDE DEF a
  <2>3. Len(Append(as, a)) = Len(as) + 1
    <3> HIDE DEF as
    <3>. QED
      BY <1>1 DEF as
  <2>. QED
    BY <1>1, <2>1, <2>2, <2>3 DEF LatestInv
<1>6. CASE \/ TakeFetchResult \/ SyncStage \/ BackToMainMenu \/ updateConnecting \/ leaveSessionToMenu
           \/ TogglePauseMenu \/ NoKey \/ ReadMeta \/ reconcilePredictionFromStore
           \/ \E keys \in SUBSET Keys : UpdateShell(keys)
           \/ \E f \in fetching : FetchLobbies(f)
  <2>1. connectResults' = connectResults
    BY <1>6 DEF TakeFetchResult, SyncStage, BackToMainMenu, updateConnecting, leaveSessionToMenu,
                TogglePauseMenu, NoKey, ReadMeta, reconcilePredictionFromStore, UpdateShell,
                FetchLobbies, channels
  <2>2. attempts' = attempts \/ attempts' = cancelActiveConnect(attempts)
    BY <1>6 DEF TakeFetchResult, SyncStage, BackToMainMenu, updateConnecting, leaveSessionToMenu,
                TogglePauseMenu, NoKey, ReadMeta, reconcilePredictionFromStore, UpdateShell,
                FetchLobbies, channels
  <2>3. app'.connectAttemptID = app.connectAttemptID
    <3>1. CASE TakeFetchResult
      <4>1. \/ app' = app \/ app' = OnConnectError
            \/ \E b : app' = [app EXCEPT !.lobbies = b]
        BY <3>1 DEF TakeFetchResult
      <4>. QED
        BY <1>1, <4>1 DEF OnConnectError, AppRecords
    <3>2. CASE BackToMainMenu \/ updateConnecting \/ TogglePauseMenu \/ NoKey \/ leaveSessionToMenu
      BY <1>1, <3>2 DEF BackToMainMenu, updateConnecting, Goto, TogglePauseMenu, NoKey,
                        leaveSessionToMenu, AppRecords
    <3>3. CASE ReadMeta
      <4>1. \E m, pc : app' = [app EXCEPT !.meta = m, !.pc = pc]
        BY <3>3 DEF ReadMeta
      <4>. QED
        BY <1>1, <4>1 DEF AppRecords
    <3>4. CASE reconcilePredictionFromStore
      <4>1. \E pc : app' = [app EXCEPT !.pc = pc, !.meta = 0]
        BY <1>1, <3>4 DEF reconcilePredictionFromStore, AppRecords
      <4>. QED
        BY <1>1, <4>1 DEF AppRecords
    <3>5. CASE SyncStage
      BY <1>1, <3>5 DEF SyncStage, AppRecords
    <3>6. CASE \E keys \in SUBSET Keys : UpdateShell(keys)
      <4>1. \E n : app' = [app EXCEPT !.pc = "async", !.lastClientSeq = n]
        BY <1>1, <3>6 DEF UpdateShell, AppRecords
      <4>. QED
        BY <1>1, <4>1 DEF AppRecords
    <3>7. CASE \E f \in fetching : FetchLobbies(f)
      BY <3>7 DEF FetchLobbies
    <3>. QED
      BY <1>6, <3>1, <3>2, <3>3, <3>4, <3>5, <3>6, <3>7
  <2>. QED
    BY <1>2, <2>1, <2>2, <2>3
<1>7. CASE updateMainMenu \/ updateLobbyList
  <2>1. \/ \E player, named : startConnect(player, named)
        \/ /\ attempts' = attempts /\ connectResults' = connectResults
           /\ app'.connectAttemptID = app.connectAttemptID
    BY <1>1, <1>7 DEF updateMainMenu, updateLobbyList, Goto, channels, AppRecords
  <2>. QED
    BY <1>2, <1>5, <2>1
<1>8. CASE \E i \in DOMAIN attempts : Handshake(i) \/ DialAndJoin(i) \/ DialFails(i)
  <2>1. PICK i \in DOMAIN attempts : Handshake(i) \/ DialAndJoin(i) \/ DialFails(i)
    BY <1>8
  <2>2. attempts[i].pc # "done" /\ app' = app /\ \E pc : attempts' = [attempts EXCEPT ![i].pc = pc]
    BY <2>1 DEF Handshake, DialAndJoin, DialFails, Deliver
  <2>3. app.connectAttemptID = Len(attempts)
    BY <2>1, <2>2 DEF LatestInv
  <2>4. Len(attempts') = Len(attempts)
    BY <1>1, <2>2
  <2>. QED
    BY <2>2, <2>3, <2>4 DEF LatestInv
<1>9. CASE Network /\ UNCHANGED <<app, channels>>
  BY <1>2, <1>9 DEF channels
<1>10. CASE Restart
  <2>1. /\ connectResults' = <<>>
        /\ attempts' = [i \in DOMAIN attempts |-> [attempts[i] EXCEPT !.pc = "done"]]
    BY <1>10 DEF Restart
  <2>2. \A i \in DOMAIN attempts : attempts[i] \in AttemptRecords
    BY <1>1, ElementOfSeq
  <2>3. \A i \in DOMAIN attempts' : attempts'[i].pc = "done"
    BY <2>1, <2>2 DEF AttemptRecords
  <2>. QED
    BY <2>1, <2>3 DEF LatestInv
<1>. QED
  BY <1>3, <1>4, <1>6, <1>7, <1>8, <1>9, <1>10 DEF Next, Update

\* The application, with its goroutines, channels and late answers, implements the service
\* of ConnectionService: it uses one connection at a time, the one it asked for last, turns away only
\* those that were overtaken, and never goes back to one it left (startConnect,
\* processAsyncResults, onConnectSuccess, syncStageFromSession, leaveSessionOnly).
THEOREM ClientImplementsService == Spec => ConnectionsKept
<1>1. ASSUME Init
      PROVE  Connections!Init /\ LatestInv
  <2>1. attempts = <<>> /\ app.connectAttemptID = 0
    BY <1>1 DEF Init, NewApp
  <2>2. Lives = <<>>
    BY <2>1 DEF Lives
  <2>. QED
    BY <2>1, <2>2 DEF Connections!Init, LatestInv
<1>2. ASSUME ClientInv, LatestInv, [Next]_vars
      PROVE  LatestInv' /\ [Connections!Next]_Lives
  BY <1>2, LatestStep, ConnectionStep
<1>. QED
  BY <1>1, <1>2, ClientInvariant, PTL DEF Spec, ConnectionsKept, Connections!Spec

=============================================================================
