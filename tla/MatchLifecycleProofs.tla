------------------------ MODULE MatchLifecycleProofs ------------------------
(***************************************************************************)
(* Proofs about MatchLifecycle, for any number of players, callers and     *)
(* matches.                                                                *)
(***************************************************************************)
EXTENDS MatchLifecycle, FiniteSetTheorems, TLAPS

USE LobbyAssumption, LifecycleBoundAssumption DEF Matches, NoMatch

\* The actions every inductive argument below cases on.
LEMMA LifecycleCases ==
    ASSUME [Next]_vars
    PROVE  \/ CreateMatch /\ UNCHANGED panicked
           \/ \E m \in Matches, p \in Players : JoinMatch(m, p) /\ UNCHANGED panicked
           \/ \E m \in Matches, p \in Players : ResumePlayer(m, p) /\ UNCHANGED panicked
           \/ \E c \in Callers, m \in Matches : StartMatch(c, m) /\ UNCHANGED panicked
           \/ \E c \in Callers : SpawnLoop(c) /\ UNCHANGED panicked
           \/ \E m \in Matches : LoopTick(m) /\ UNCHANGED panicked
           \/ \E m \in Matches : LoopTickGameOver(m) /\ UNCHANGED panicked
           \/ \E m \in Matches : LoopStops(m)
           \/ \E c \in Callers, m \in Matches : EndMatch(c, m) /\ UNCHANGED panicked
           \/ \E c \in Callers : Close(c) /\ UNCHANGED panicked
           \/ \E c \in Callers : WaitReturns(c) /\ UNCHANGED panicked
           \/ UNCHANGED vars
BY DEF Next, Lobby, Call, Loop

\* The empty manager satisfies the inductive invariant.
LEMMA LifecycleInitInv == Init => LifecycleInv
<1> SUFFICES ASSUME Init PROVE LifecycleInv
  OBVIOUS
<1>1. LifecycleTypeOK
  <2>1. Cardinality({}) = 0
    BY FS_EmptySet
  <2>2. \A m \in Matches : Cardinality(players[m]) <= MaxPlayers
    BY <2>1 DEF Init
  <2>3. calls \in [Callers -> [op : {"idle", "start", "end", "close"}, matches : SUBSET Matches]]
    BY DEF Init, Idle
  <2>4. /\ loopCancel \in [Matches -> BOOLEAN]
        /\ loopDone \in [Matches -> BOOLEAN]
        /\ cancelled \in [Matches -> BOOLEAN]
        /\ doneClosed \in [Matches -> BOOLEAN]
        /\ closed \in BOOLEAN
        /\ panicked \in BOOLEAN
    BY DEF Init
  <2> QED
    BY <2>2, <2>3, <2>4 DEF Init, LifecycleTypeOK
<1>2. FreshInv /\ MappingExact /\ EndsOnce
  BY DEF Init, FreshInv, MappingExact, EndsOnce, Live
<1>3. \A c \in Callers, m \in Matches : ~Starting(c, m) /\ calls[c].op = "idle"
  BY DEF Init, Starting, Idle
<1>4. LoopInv /\ NoOrphanLoop
  BY <1>3 DEF Init, LoopInv, NoOrphanLoop, Idle
<1> QED
  BY <1>1, <1>2, <1>4 DEF LifecycleInv

-----------------------------------------------------------------------------
(* Types and capacity *)

\* playerToMatch without some players is still a partial map to matches.
LEMMA WithoutType ==
    ASSUME LifecycleTypeOK, NEW ended
    PROVE  WithoutPlayersOf(ended) \in [Players -> Matches \cup {NoMatch}]
BY DEF LifecycleTypeOK, WithoutPlayersOf

\* Every step keeps the types and the capacity of the matches.
LEMMA LifecycleTypeStep ==
    ASSUME LifecycleTypeOK, [Next]_vars
    PROVE  LifecycleTypeOK'
<1> USE DEF LifecycleTypeOK
<1>1. CASE CreateMatch /\ UNCHANGED panicked
  BY <1>1 DEF CreateMatch, loops
<1>2. ASSUME NEW m \in Matches, NEW p \in Players, JoinMatch(m, p), UNCHANGED panicked
      PROVE  LifecycleTypeOK'
  <2>1. players' \in [Matches -> SUBSET Players]
    BY <1>2 DEF JoinMatch
  <2>2. IsFiniteSet(players[m])
    BY FS_Subset
  <2>c. Cardinality(players[m]) \in Nat /\ Cardinality(players[m]) < MaxPlayers
    BY <1>2, <2>2, FS_CardinalityType DEF JoinMatch, HasRoom
  <2>a. \/ Cardinality(players[m] \cup {p}) = Cardinality(players[m])
        \/ Cardinality(players[m] \cup {p}) = Cardinality(players[m]) + 1
    BY <2>2, FS_AddElement
  <2>3. Cardinality(players[m] \cup {p}) <= MaxPlayers
    BY <2>c, <2>a
  <2>4. \A n \in Matches : Cardinality(players'[n]) <= MaxPlayers
    BY <1>2, <2>3 DEF JoinMatch
  <2> QED
    BY <1>2, <2>1, <2>4 DEF JoinMatch, loops
<1>3. ASSUME NEW m \in Matches, NEW p \in Players, ResumePlayer(m, p), UNCHANGED panicked
      PROVE  LifecycleTypeOK'
  BY <1>3 DEF ResumePlayer, loops
<1>4. ASSUME NEW c \in Callers, NEW m \in Matches, StartMatch(c, m), UNCHANGED panicked
      PROVE  LifecycleTypeOK'
  BY <1>4 DEF StartMatch
<1>5. ASSUME NEW c \in Callers, SpawnLoop(c), UNCHANGED panicked
      PROVE  LifecycleTypeOK'
  <2>1. /\ loop' \in [Matches -> {"none", "running", "exited"}]
        /\ loopArg' \in [Matches -> {"none", "nil", "done"}]
    BY <1>5 DEF SpawnLoop
  <2>2. calls' \in [Callers -> [op : {"idle", "start", "end", "close"}, matches : SUBSET Matches]]
    BY <1>5 DEF SpawnLoop, Idle
  <2> QED
    BY <1>5, <2>1, <2>2 DEF SpawnLoop, manager
<1>6. ASSUME NEW m \in Matches, LoopTick(m), UNCHANGED panicked
      PROVE  LifecycleTypeOK'
  BY <1>6, SMTT(30) DEF LoopTick, loops
<1>7. ASSUME NEW m \in Matches, LoopTickGameOver(m), UNCHANGED panicked
      PROVE  LifecycleTypeOK'
  <2>1. playerToMatch' \in [Players -> Matches \cup {NoMatch}]
    BY <1>7, WithoutType DEF LoopTickGameOver
  <2>2. /\ status' \in [Matches -> {"none", "lobby", "running", "game_over"}]
        /\ endEvents' \in [Matches -> Nat]
        /\ tickID' \in [Matches -> 0 .. MaxTick]
    BY <1>7 DEF LoopTickGameOver
  <2>3. UNCHANGED <<nextMatchSequence, players, loops, calls, closed, panicked>>
    BY <1>7 DEF LoopTickGameOver
  <2> QED
    BY <2>1, <2>2, <2>3 DEF loops
<1>8. ASSUME NEW m \in Matches, LoopStops(m)
      PROVE  LifecycleTypeOK'
  <2>1. doneClosed' \in [Matches -> BOOLEAN] /\ panicked' \in BOOLEAN
    <3>1. CASE loopArg[m] = "done"
      BY <1>8, <3>1 DEF LoopStops, CloseDone
    <3>2. CASE loopArg[m] # "done"
      BY <1>8, <3>2 DEF LoopStops, CloseDone
    <3> QED
      BY <3>1, <3>2
  <2>2. loop' \in [Matches -> {"none", "running", "exited"}]
    BY <1>8 DEF LoopStops
  <2> QED
    BY <1>8, <2>1, <2>2 DEF LoopStops, manager
<1>9. ASSUME NEW c \in Callers, NEW m \in Matches, EndMatch(c, m), UNCHANGED panicked
      PROVE  LifecycleTypeOK'
  <2>1. EndMatchWait(m) \in [op : {"idle", "start", "end", "close"}, matches : SUBSET Matches]
    BY DEF EndMatchWait, Idle
  <2>2. calls' \in [Callers -> [op : {"idle", "start", "end", "close"}, matches : SUBSET Matches]]
    BY <1>9, <2>1 DEF EndMatch
  <2>3. /\ status' \in [Matches -> {"none", "lobby", "running", "game_over"}]
        /\ endEvents' \in [Matches -> Nat]
    BY <1>9 DEF EndMatch
  <2>4. playerToMatch' \in [Players -> Matches \cup {NoMatch}]
    BY <1>9, WithoutType DEF EndMatch
  <2>5. cancelled' \in [Matches -> BOOLEAN]
    BY <1>9 DEF EndMatch
  <2>6. loopCancel' \in [Matches -> BOOLEAN]
    BY <1>9 DEF EndMatch
  <2>7. loopDone' \in [Matches -> BOOLEAN]
    BY <1>9 DEF EndMatch
  <2> QED
    BY <1>9, <2>2, <2>3, <2>4, <2>5, <2>6, <2>7 DEF EndMatch
<1>10. ASSUME NEW c \in Callers, Close(c), UNCHANGED panicked
       PROVE  LifecycleTypeOK'
  <2> DEFINE waits == {m \in Matches : loopDone[m]}
             entry == IF waits = {} THEN Idle ELSE [op |-> "close", matches |-> waits]
  <2>a. entry \in [op : {"idle", "start", "end", "close"}, matches : SUBSET Matches]
    BY DEF Idle
  <2>c. calls' = [calls EXCEPT ![c] = entry]
    BY <1>10 DEF Close
  <2> HIDE DEF entry
  <2>1. calls' \in [Callers -> [op : {"idle", "start", "end", "close"}, matches : SUBSET Matches]]
    BY <2>a, <2>c
  <2>2. /\ status' \in [Matches -> {"none", "lobby", "running", "game_over"}]
        /\ endEvents' \in [Matches -> Nat]
        /\ closed' \in BOOLEAN
    BY <1>10 DEF Close
  <2>4. PICK ended : playerToMatch' = WithoutPlayersOf(ended)
    BY <1>10 DEF Close
  <2>5. playerToMatch' \in [Players -> Matches \cup {NoMatch}]
    BY <2>4, WithoutType
  <2>3. /\ loopCancel' \in [Matches -> BOOLEAN]
        /\ loopDone' \in [Matches -> BOOLEAN]
        /\ cancelled' \in [Matches -> BOOLEAN]
    BY <1>10 DEF Close
  <2> QED
    BY <1>10, <2>1, <2>2, <2>3, <2>5 DEF Close
<1>11. ASSUME NEW c \in Callers, WaitReturns(c), UNCHANGED panicked
       PROVE  LifecycleTypeOK'
  BY <1>11 DEF WaitReturns, Idle, manager, loops
<1>12. CASE UNCHANGED vars
  BY <1>12 DEF vars, manager, loops
<1> QED
  BY <1>1, <1>2, <1>3, <1>4, <1>5, <1>6, <1>7, <1>8, <1>9, <1>10, <1>11, <1>12, LifecycleCases

-----------------------------------------------------------------------------
(* Which matches exist *)

\* Every step keeps matches created in order and uncreated ones empty.
LEMMA FreshStep ==
    ASSUME LifecycleTypeOK, FreshInv, [Next]_vars
    PROVE  FreshInv'
<1> USE DEF LifecycleTypeOK, FreshInv
<1>1. CASE CreateMatch /\ UNCHANGED panicked
  BY <1>1, SMTT(30) DEF CreateMatch
<1>2. ASSUME NEW m \in Matches, NEW p \in Players, JoinMatch(m, p), UNCHANGED panicked
      PROVE  FreshInv'
  BY <1>2 DEF JoinMatch
<1>3. ASSUME NEW m \in Matches, NEW p \in Players, ResumePlayer(m, p), UNCHANGED panicked
      PROVE  FreshInv'
  BY <1>3 DEF ResumePlayer
<1>4. ASSUME NEW c \in Callers, NEW m \in Matches, StartMatch(c, m), UNCHANGED panicked
      PROVE  FreshInv'
  BY <1>4 DEF StartMatch
<1>5. ASSUME NEW c \in Callers, SpawnLoop(c), UNCHANGED panicked
      PROVE  FreshInv'
  BY <1>5 DEF SpawnLoop, manager
<1>6. ASSUME NEW m \in Matches, LoopTick(m), UNCHANGED panicked
      PROVE  FreshInv'
  BY <1>6 DEF LoopTick
<1>7. ASSUME NEW m \in Matches, LoopTickGameOver(m), UNCHANGED panicked
      PROVE  FreshInv'
  BY <1>7 DEF LoopTickGameOver
<1>8. ASSUME NEW m \in Matches, LoopStops(m)
      PROVE  FreshInv'
  BY <1>8 DEF LoopStops, manager
<1>9. ASSUME NEW c \in Callers, NEW m \in Matches, EndMatch(c, m), UNCHANGED panicked
      PROVE  FreshInv'
  BY <1>9 DEF EndMatch, EndMatchGuard, Live
<1>10. ASSUME NEW c \in Callers, Close(c), UNCHANGED panicked
       PROVE  FreshInv'
  BY <1>10 DEF Close
<1>11. ASSUME NEW c \in Callers, WaitReturns(c), UNCHANGED panicked
       PROVE  FreshInv'
  BY <1>11 DEF WaitReturns, manager
<1>12. CASE UNCHANGED vars
  BY <1>12 DEF vars, manager
<1> QED
  BY <1>1, <1>2, <1>3, <1>4, <1>5, <1>6, <1>7, <1>8, <1>9, <1>10, <1>11, <1>12, LifecycleCases

-----------------------------------------------------------------------------
(* Who is in which match *)

\* Ending one live match keeps the mapping exact: nobody in it is in another live one.
LEMMA MappingWithout ==
    ASSUME LifecycleTypeOK, MappingExact, NEW m \in Matches, Live(m),
           status' = [status EXCEPT ![m] = "game_over"],
           playerToMatch' = WithoutPlayersOf({m}),
           UNCHANGED <<players, closed>>
    PROVE  MappingExact'
<1> SUFFICES ASSUME NEW q \in Players, NEW n \in Matches
             PROVE  /\ playerToMatch'[q] = n => Live(n)' /\ q \in players'[n]
                    /\ ~closed' /\ Live(n)' /\ q \in players'[n] => playerToMatch'[q] = n
  BY DEF MappingExact
<1>1. playerToMatch'[q] = IF q \in players[m] THEN NoMatch ELSE playerToMatch[q]
  BY DEF WithoutPlayersOf
<1>2. Live(n)' <=> Live(n) /\ n # m
  BY DEF Live, LifecycleTypeOK
<1>3. playerToMatch'[q] = n => Live(n)' /\ q \in players'[n]
  BY <1>1, <1>2 DEF MappingExact
<1>4. ~closed' /\ Live(n)' /\ q \in players'[n] => playerToMatch'[q] = n
  BY <1>1, <1>2 DEF MappingExact
<1> QED
  BY <1>3, <1>4

\* Every step keeps the mapping exact.
LEMMA MappingStep ==
    ASSUME LifecycleTypeOK, FreshInv, MappingExact, [Next]_vars
    PROVE  MappingExact'
<1>1. CASE CreateMatch /\ UNCHANGED panicked
  BY <1>1 DEF CreateMatch, MappingExact, FreshInv, Live, LifecycleTypeOK
<1>2. ASSUME NEW m \in Matches, NEW p \in Players, JoinMatch(m, p), UNCHANGED panicked
      PROVE  MappingExact'
  BY <1>2 DEF JoinMatch, AlreadyJoined, MappingExact, Live, LifecycleTypeOK
<1>3. ASSUME NEW m \in Matches, NEW p \in Players, ResumePlayer(m, p), UNCHANGED panicked
      PROVE  MappingExact'
  BY <1>3 DEF ResumePlayer, MappingExact, Live, LifecycleTypeOK
<1>4. ASSUME NEW c \in Callers, NEW m \in Matches, StartMatch(c, m), UNCHANGED panicked
      PROVE  MappingExact'
  BY <1>4 DEF StartMatch, MappingExact, Live, LifecycleTypeOK
<1>5. ASSUME NEW c \in Callers, SpawnLoop(c), UNCHANGED panicked
      PROVE  MappingExact'
  BY <1>5 DEF SpawnLoop, manager, MappingExact, Live
<1>6. ASSUME NEW m \in Matches, LoopTick(m), UNCHANGED panicked
      PROVE  MappingExact'
  BY <1>6 DEF LoopTick, MappingExact, Live
<1>7. ASSUME NEW m \in Matches, LoopTickGameOver(m), UNCHANGED panicked
      PROVE  MappingExact'
  BY <1>7, MappingWithout DEF LoopTickGameOver, Live
<1>8. ASSUME NEW m \in Matches, LoopStops(m)
      PROVE  MappingExact'
  BY <1>8 DEF LoopStops, manager, MappingExact, Live
<1>9. ASSUME NEW c \in Callers, NEW m \in Matches, EndMatch(c, m), UNCHANGED panicked
      PROVE  MappingExact'
  BY <1>9, MappingWithout DEF EndMatch, EndMatchGuard
<1>10. ASSUME NEW c \in Callers, Close(c), UNCHANGED panicked
       PROVE  MappingExact'
  <2> DEFINE existing == {m \in Matches : status[m] # "none"}
  <2>1. closed' /\ playerToMatch' = WithoutPlayersOf(existing)
    BY <1>10 DEF Close
  <2>2. ASSUME NEW p \in Players, NEW n \in Matches
        PROVE  playerToMatch'[p] # n
    <3>1. playerToMatch[p] = n => n \in existing /\ p \in players[n]
      BY DEF MappingExact, Live
    <3>2. playerToMatch'[p] = IF \E m \in existing : p \in players[m] THEN NoMatch
                                                                     ELSE playerToMatch[p]
      BY <2>1 DEF WithoutPlayersOf
    <3> QED
      BY <3>1, <3>2
  <2> QED
    BY <2>1, <2>2 DEF MappingExact
<1>11. ASSUME NEW c \in Callers, WaitReturns(c), UNCHANGED panicked
       PROVE  MappingExact'
  BY <1>11 DEF WaitReturns, manager, MappingExact, Live
<1>12. CASE UNCHANGED vars
  BY <1>12 DEF vars, manager, MappingExact, Live
<1> QED
  BY <1>1, <1>2, <1>3, <1>4, <1>5, <1>6, <1>7, <1>8, <1>9, <1>10, <1>11, <1>12, LifecycleCases

-----------------------------------------------------------------------------
(* How often a match ends *)

\* Every step keeps one end event per match that is over.
LEMMA EndsOnceStep ==
    ASSUME LifecycleTypeOK, FreshInv, EndsOnce, [Next]_vars
    PROVE  EndsOnce'
<1> USE DEF LifecycleTypeOK, EndsOnce
<1>1. CASE CreateMatch /\ UNCHANGED panicked
  BY <1>1 DEF CreateMatch, FreshInv
<1>2. ASSUME NEW m \in Matches, NEW p \in Players, JoinMatch(m, p), UNCHANGED panicked
      PROVE  EndsOnce'
  BY <1>2 DEF JoinMatch
<1>3. ASSUME NEW m \in Matches, NEW p \in Players, ResumePlayer(m, p), UNCHANGED panicked
      PROVE  EndsOnce'
  BY <1>3 DEF ResumePlayer
<1>4. ASSUME NEW c \in Callers, NEW m \in Matches, StartMatch(c, m), UNCHANGED panicked
      PROVE  EndsOnce'
  BY <1>4 DEF StartMatch
<1>5. ASSUME NEW c \in Callers, SpawnLoop(c), UNCHANGED panicked
      PROVE  EndsOnce'
  BY <1>5 DEF SpawnLoop, manager
<1>6. ASSUME NEW m \in Matches, LoopTick(m), UNCHANGED panicked
      PROVE  EndsOnce'
  BY <1>6 DEF LoopTick
<1>7. ASSUME NEW m \in Matches, LoopTickGameOver(m), UNCHANGED panicked
      PROVE  EndsOnce'
  BY <1>7 DEF LoopTickGameOver
<1>8. ASSUME NEW m \in Matches, LoopStops(m)
      PROVE  EndsOnce'
  BY <1>8 DEF LoopStops, manager
<1>9. ASSUME NEW c \in Callers, NEW m \in Matches, EndMatch(c, m), UNCHANGED panicked
      PROVE  EndsOnce'
  BY <1>9 DEF EndMatch, EndMatchGuard, Live
<1>10. ASSUME NEW c \in Callers, Close(c), UNCHANGED panicked
       PROVE  EndsOnce'
  BY <1>10 DEF Close
<1>11. ASSUME NEW c \in Callers, WaitReturns(c), UNCHANGED panicked
       PROVE  EndsOnce'
  BY <1>11 DEF WaitReturns, manager
<1>12. CASE UNCHANGED vars
  BY <1>12 DEF vars, manager
<1> QED
  BY <1>1, <1>2, <1>3, <1>4, <1>5, <1>6, <1>7, <1>8, <1>9, <1>10, <1>11, <1>12, LifecycleCases

-----------------------------------------------------------------------------
(* The stages of a loop *)

\* A step that leaves the callers, the loops and their channels alone, and moves no
\* match back to the lobby, keeps their stages.
LEMMA LoopFrame ==
    ASSUME LoopInv, NoOrphanLoop, UNCHANGED <<calls, loop, doneClosed, loopDone>>,
           \A m \in Matches : status'[m] \in {"none", "lobby"} => status[m] \in {"none", "lobby"},
           \A m \in Matches : status[m] \in {"running", "game_over"}
                                => status'[m] \in {"running", "game_over"}
    PROVE  LoopInv' /\ NoOrphanLoop'
<1>1. /\ \A c \in Callers, m \in Matches : Starting(c, m)' <=> Starting(c, m)
      /\ \A c \in Callers, m \in Matches : WaitsFor(c, m)' <=> WaitsFor(c, m)
  BY DEF Starting, WaitsFor
<1>2. LoopInv'
  BY <1>1 DEF LoopInv
<1>3. NoOrphanLoop'
  BY <1>1 DEF NoOrphanLoop
<1> QED
  BY <1>2, <1>3

\* A call that one caller enters or leaves changes nothing for the others.
LEMMA OtherCallers ==
    ASSUME LifecycleTypeOK, NEW c \in Callers, NEW entry, calls' = [calls EXCEPT ![c] = entry]
    PROVE  /\ calls'[c] = entry
           /\ \A d \in Callers \ {c} : calls'[d] = calls[d]
           /\ \A d \in Callers \ {c}, m \in Matches :
                 /\ Starting(d, m)' <=> Starting(d, m)
                 /\ WaitsFor(d, m)' <=> WaitsFor(d, m)
BY DEF LifecycleTypeOK, Starting, WaitsFor

\* StartMatch: the new loop's channel is in the session.
LEMMA StartStep ==
    ASSUME LifecycleTypeOK, LoopInv, NoOrphanLoop, NEW c \in Callers, NEW m \in Matches,
           StartMatch(c, m)
    PROVE  LoopInv' /\ NoOrphanLoop'
<1> DEFINE entry == [op |-> "start", matches |-> {m}]
<1>1. /\ calls'[c] = entry
      /\ \A d \in Callers \ {c} : calls'[d] = calls[d]
      /\ \A d \in Callers \ {c}, n \in Matches :
            (Starting(d, n)' <=> Starting(d, n)) /\ (WaitsFor(d, n)' <=> WaitsFor(d, n))
  BY OtherCallers DEF StartMatch
<1>2. ASSUME NEW n \in Matches
      PROVE  Starting(c, n)' <=> n = m
  <2>1. Starting(c, n)' <=> entry = [op |-> "start", matches |-> {n}]
    BY <1>1 DEF Starting
  <2>2. entry = [op |-> "start", matches |-> {n}] => {m} = {n}
    OBVIOUS
  <2> QED
    BY <2>1, <2>2
<1>3. \A n \in Matches : ~WaitsFor(c, n)
  BY DEF StartMatch, Idle, WaitsFor
<1>4. \A d \in Callers : ~Starting(d, m)
  BY DEF LoopInv, StartMatch
<1>5. /\ loop' = loop /\ doneClosed' = doneClosed
      /\ \A n \in Matches : status'[n] = IF n = m THEN "running" ELSE status[n]
      /\ \A n \in Matches : loopDone'[n] <=> n = m \/ loopDone[n]
      /\ status[m] = "lobby"
  BY DEF StartMatch, LifecycleTypeOK
<1>6. /\ \A n \in Matches : status'[n] \in {"none", "lobby"} => loop'[n] = "none"
      /\ \A n \in Matches : doneClosed'[n] => loop'[n] = "exited"
  BY <1>5 DEF LoopInv
<1>7. \A d \in Callers, n \in Matches :
         Starting(d, n)' => loop'[n] = "none" /\ status'[n] \in {"running", "game_over"}
  BY <1>1, <1>2, <1>5 DEF LoopInv
<1>8. \A d, e \in Callers, n \in Matches : Starting(d, n)' /\ Starting(e, n)' => d = e
  BY <1>1, <1>2, <1>4 DEF LoopInv
<1>9. \A d \in Callers : calls'[d].op = "start" => \E n \in Matches : Starting(d, n)'
  BY <1>1, <1>2 DEF LoopInv
<1>10. NoOrphanLoop'
  BY <1>1, <1>2, <1>3, <1>5 DEF NoOrphanLoop
<1> QED
  BY <1>6, <1>7, <1>8, <1>9, <1>10 DEF LoopInv

\* The go statement: whoever could wait for the coming loop can wait for the running one.
LEMMA SpawnStep ==
    ASSUME LifecycleTypeOK, LoopInv, NoOrphanLoop, NEW c \in Callers, SpawnLoop(c)
    PROVE  LoopInv' /\ NoOrphanLoop'
<1>1. PICK m \in Matches : Starting(c, m)
  BY DEF LoopInv, SpawnLoop
<1>2. /\ loop' = [loop EXCEPT ![m] = "running"]
      /\ status' = status /\ doneClosed' = doneClosed /\ loopDone' = loopDone
  BY <1>1 DEF SpawnLoop, Starting, manager
<1>3. /\ calls'[c] = Idle
      /\ \A d \in Callers \ {c} : calls'[d] = calls[d]
      /\ \A d \in Callers \ {c}, n \in Matches :
            (Starting(d, n)' <=> Starting(d, n)) /\ (WaitsFor(d, n)' <=> WaitsFor(d, n))
  BY OtherCallers DEF SpawnLoop
<1>4. \A n \in Matches : ~Starting(c, n)' /\ ~WaitsFor(c, n)
  <2>1. calls[c].op = "start" /\ calls'[c].op = "idle"
    BY <1>3 DEF SpawnLoop, Idle
  <2>2. ASSUME NEW n \in Matches PROVE ~Starting(c, n)'
    BY <2>1 DEF Starting
  <2>3. ASSUME NEW n \in Matches PROVE ~WaitsFor(c, n)
    BY <2>1 DEF WaitsFor
  <2> QED
    BY <2>2, <2>3
<1>5. \A n \in Matches : loop'[n] = IF n = m THEN "running" ELSE loop[n]
  BY <1>2 DEF LifecycleTypeOK
<1>6. loop[m] = "none" /\ status[m] \in {"running", "game_over"}
  BY <1>1 DEF LoopInv
<1>7. \A d \in Callers \ {c} : ~Starting(d, m)
  BY <1>1 DEF LoopInv
<1>8. /\ \A n \in Matches : status'[n] \in {"none", "lobby"} => loop'[n] = "none"
      /\ \A n \in Matches : doneClosed'[n] => loop'[n] = "exited"
  BY <1>2, <1>5, <1>6 DEF LoopInv
<1>9. \A d \in Callers, n \in Matches :
         Starting(d, n)' => loop'[n] = "none" /\ status'[n] \in {"running", "game_over"}
  BY <1>2, <1>3, <1>4, <1>5, <1>7 DEF LoopInv
<1>10. \A d, e \in Callers, n \in Matches : Starting(d, n)' /\ Starting(e, n)' => d = e
  BY <1>3, <1>4 DEF LoopInv
<1>11. \A d \in Callers : calls'[d].op = "start" => \E n \in Matches : Starting(d, n)'
  BY <1>3 DEF LoopInv, Idle
<1>12. NoOrphanLoop'
  BY <1>1, <1>2, <1>3, <1>4, <1>5 DEF NoOrphanLoop
<1> QED
  BY <1>8, <1>9, <1>10, <1>11, <1>12 DEF LoopInv

\* A caller that is in no StartMatch call, before or after, leaves the stages alone.
LEMMA StagesKept ==
    ASSUME LifecycleTypeOK, LoopInv, NEW c \in Callers, NEW entry,
           calls[c].op # "start", entry.op # "start",
           calls' = [calls EXCEPT ![c] = entry],
           UNCHANGED <<loop, doneClosed>>,
           \A m \in Matches : status'[m] \in {"none", "lobby"} => status[m] \in {"none", "lobby"},
           \A m \in Matches : status[m] \in {"running", "game_over"}
                                => status'[m] \in {"running", "game_over"}
    PROVE  LoopInv' /\ \A d \in Callers, m \in Matches : Starting(d, m)' <=> Starting(d, m)
<1>1. /\ calls'[c] = entry
      /\ \A d \in Callers \ {c} : calls'[d] = calls[d]
      /\ \A d \in Callers \ {c}, n \in Matches : Starting(d, n)' <=> Starting(d, n)
  BY OtherCallers
<1>2. \A n \in Matches : ~Starting(c, n)' /\ ~Starting(c, n)
  BY <1>1 DEF Starting
<1>3. \A d \in Callers, m \in Matches : Starting(d, m)' <=> Starting(d, m)
  BY <1>1, <1>2
<1>4. \A d \in Callers : calls'[d].op = "start" => \E n \in Matches : Starting(d, n)'
  BY <1>1, <1>3 DEF LoopInv
<1>5. /\ \A m \in Matches : status'[m] \in {"none", "lobby"} => loop'[m] = "none"
      /\ \A m \in Matches : doneClosed'[m] => loop'[m] = "exited"
      /\ \A d \in Callers, m \in Matches :
            Starting(d, m)' => loop'[m] = "none" /\ status'[m] \in {"running", "game_over"}
      /\ \A d, e \in Callers, m \in Matches : Starting(d, m)' /\ Starting(e, m)' => d = e
  BY <1>3 DEF LoopInv
<1> QED
  BY <1>3, <1>4, <1>5 DEF LoopInv

\* The loop's exit: a channel is closed only now, and only that of the loop that exits.
LEMMA StopStep ==
    ASSUME LifecycleTypeOK, LoopInv, NoOrphanLoop, NEW m \in Matches, LoopStops(m)
    PROVE  LoopInv' /\ NoOrphanLoop'
<1>1. /\ calls' = calls /\ status' = status /\ loopDone' = loopDone
      /\ loop[m] = "running"
      /\ \A n \in Matches : loop'[n] = IF n = m THEN "exited" ELSE loop[n]
  BY DEF LoopStops, manager, LifecycleTypeOK
<1>2. \A n \in Matches \ {m} : doneClosed'[n] => doneClosed[n]
  <2>1. CASE loopArg[m] = "done"
    BY <2>1 DEF LoopStops, CloseDone, LifecycleTypeOK
  <2>2. CASE loopArg[m] # "done"
    BY <2>2 DEF LoopStops, CloseDone
  <2> QED
    BY <2>1, <2>2
<1>3. \A c \in Callers, n \in Matches :
         (Starting(c, n)' <=> Starting(c, n)) /\ (WaitsFor(c, n)' <=> WaitsFor(c, n))
  BY <1>1 DEF Starting, WaitsFor
<1>4. /\ \A n \in Matches : status'[n] \in {"none", "lobby"} => loop'[n] = "none"
      /\ \A n \in Matches : doneClosed'[n] => loop'[n] = "exited"
  BY <1>1, <1>2 DEF LoopInv
<1>5. \A c \in Callers, n \in Matches :
         Starting(c, n)' => loop'[n] = "none" /\ status'[n] \in {"running", "game_over"}
  BY <1>1, <1>3 DEF LoopInv
<1>6. /\ \A c, d \in Callers, n \in Matches : Starting(c, n)' /\ Starting(d, n)' => c = d
      /\ \A c \in Callers : calls'[c].op = "start" => \E n \in Matches : Starting(c, n)'
  BY <1>1, <1>3 DEF LoopInv
<1>7. NoOrphanLoop'
  BY <1>1, <1>3 DEF NoOrphanLoop
<1> QED
  BY <1>4, <1>5, <1>6, <1>7 DEF LoopInv

\* EndMatch: the channel it takes out of the session is the one it waits for.
LEMMA EndMatchStep ==
    ASSUME LifecycleTypeOK, LoopInv, NoOrphanLoop, NEW c \in Callers, NEW m \in Matches,
           EndMatch(c, m)
    PROVE  LoopInv' /\ NoOrphanLoop'
<1>1. calls[c].op = "idle" /\ EndMatchWait(m).op # "start"
  BY DEF EndMatch, EndMatchWait, Idle
<1>2. \A n \in Matches : status'[n] = IF n = m THEN "game_over" ELSE status[n]
  BY DEF EndMatch, LifecycleTypeOK
<1>3. Live(m) /\ calls' = [calls EXCEPT ![c] = EndMatchWait(m)] /\ UNCHANGED <<loop, doneClosed>>
  BY DEF EndMatch, EndMatchGuard
<1> DEFINE entry == EndMatchWait(m)
<1> HIDE DEF entry
<1>4. calls' = [calls EXCEPT ![c] = entry] /\ entry.op # "start"
  BY <1>1, <1>3 DEF entry
<1>5. LoopInv' /\ \A d \in Callers, n \in Matches : Starting(d, n)' <=> Starting(d, n)
  BY <1>1, <1>2, <1>3, <1>4, StagesKept, ZenonT(30) DEF Live
<1>6. /\ calls'[c] = entry
      /\ \A d \in Callers \ {c}, n \in Matches : WaitsFor(d, n)' <=> WaitsFor(d, n)
  BY <1>4, OtherCallers
<1>7. \A n \in Matches : ~WaitsFor(c, n)
  BY <1>1 DEF WaitsFor
<1>8. \A n \in Matches \ {m} : loopDone[n] => loopDone'[n]
  BY DEF EndMatch, LifecycleTypeOK
<1>9. loopDone[m] => loopDone'[m] \/ WaitsFor(c, m)'
  <2>1. CASE loopCancel[m]
    BY <1>6, <2>1 DEF entry, EndMatchWait, WaitsFor
  <2>2. CASE ~loopCancel[m]
    BY <2>2 DEF EndMatch, LifecycleTypeOK
  <2> QED
    BY <2>1, <2>2
<1>10. NoOrphanLoop'
  BY <1>3, <1>5, <1>6, <1>7, <1>8, <1>9 DEF NoOrphanLoop
<1> QED
  BY <1>5, <1>10

\* Close: every channel it takes out of a session is one it waits for.
LEMMA CloseStep ==
    ASSUME LifecycleTypeOK, LoopInv, NoOrphanLoop, NEW c \in Callers, Close(c)
    PROVE  LoopInv' /\ NoOrphanLoop'
<1> DEFINE waits == {m \in Matches : loopDone[m]}
           entry == IF waits = {} THEN Idle ELSE [op |-> "close", matches |-> waits]
<1>1. calls[c].op = "idle" /\ entry.op # "start"
  BY DEF Close, Idle
<1>2. calls' = [calls EXCEPT ![c] = entry]
  BY DEF Close
<1>3. \A n \in Matches : status'[n] = IF status[n] = "running" THEN "game_over" ELSE status[n]
  BY DEF Close
<1>4. UNCHANGED <<loop, doneClosed>>
  BY DEF Close
<1>5. \A n \in Matches : loopDone[n] => entry.op = "close" /\ n \in entry.matches
  OBVIOUS
<1> HIDE DEF entry
<1>6. LoopInv' /\ \A d \in Callers, n \in Matches : Starting(d, n)' <=> Starting(d, n)
  BY <1>1, <1>2, <1>3, <1>4, StagesKept
<1>7. /\ calls'[c] = entry
      /\ \A d \in Callers \ {c}, n \in Matches : WaitsFor(d, n)' <=> WaitsFor(d, n)
  BY <1>2, OtherCallers
<1>8. \A n \in Matches : ~WaitsFor(c, n)
  BY <1>1 DEF WaitsFor
<1>9. \A n \in Matches : loopDone[n] => WaitsFor(c, n)'
  BY <1>5, <1>7 DEF WaitsFor
<1>10. NoOrphanLoop'
  BY <1>4, <1>6, <1>7, <1>8, <1>9 DEF NoOrphanLoop
<1> QED
  BY <1>6, <1>10

\* The waits return only when the loops waited for have exited.
LEMMA WaitStep ==
    ASSUME LifecycleTypeOK, LoopInv, NoOrphanLoop, NEW c \in Callers, WaitReturns(c)
    PROVE  LoopInv' /\ NoOrphanLoop'
<1>1. /\ calls[c].op # "start" /\ Idle.op # "start"
      /\ calls' = [calls EXCEPT ![c] = Idle]
      /\ UNCHANGED <<status, loop, loopDone, doneClosed>>
  BY DEF WaitReturns, Idle, manager, loops
<1>2. LoopInv' /\ \A d \in Callers, n \in Matches : Starting(d, n)' <=> Starting(d, n)
  BY <1>1, StagesKept
<1>3. \A d \in Callers \ {c}, n \in Matches : WaitsFor(d, n)' <=> WaitsFor(d, n)
  BY <1>1, OtherCallers
<1>4. \A n \in Matches : WaitsFor(c, n) => loop[n] = "exited" /\ \A d \in Callers : ~Starting(d, n)
  BY DEF WaitReturns, WaitsFor, LoopInv
<1>5. NoOrphanLoop'
  BY <1>1, <1>2, <1>3, <1>4 DEF NoOrphanLoop
<1> QED
  BY <1>2, <1>5

\* Every step keeps the stages of the loops, and every loop waitable.
LEMMA LoopStep ==
    ASSUME LifecycleTypeOK, FreshInv, LoopInv, NoOrphanLoop, [Next]_vars
    PROVE  LoopInv' /\ NoOrphanLoop'
<1>1. CASE CreateMatch /\ UNCHANGED panicked
  <2>1. UNCHANGED <<calls, loop, doneClosed, loopDone>>
    BY <1>1 DEF CreateMatch, loops
  <2>2. \A m \in Matches : status'[m] = IF m = nextMatchSequence + 1 THEN "lobby" ELSE status[m]
    BY <1>1 DEF CreateMatch, LifecycleTypeOK
  <2>3. \A m \in Matches : m = nextMatchSequence + 1 => status[m] = "none"
    BY DEF FreshInv, LifecycleTypeOK
  <2> QED
    BY <2>1, <2>2, <2>3, LoopFrame
<1>2. ASSUME NEW m \in Matches, NEW p \in Players, JoinMatch(m, p), UNCHANGED panicked
      PROVE  LoopInv' /\ NoOrphanLoop'
  BY <1>2, LoopFrame DEF JoinMatch, loops
<1>3. ASSUME NEW m \in Matches, NEW p \in Players, ResumePlayer(m, p), UNCHANGED panicked
      PROVE  LoopInv' /\ NoOrphanLoop'
  BY <1>3, LoopFrame DEF ResumePlayer, loops
<1>4. ASSUME NEW m \in Matches, LoopTick(m), UNCHANGED panicked
      PROVE  LoopInv' /\ NoOrphanLoop'
  BY <1>4, LoopFrame DEF LoopTick, loops
<1>5. ASSUME NEW m \in Matches, LoopTickGameOver(m), UNCHANGED panicked
      PROVE  LoopInv' /\ NoOrphanLoop'
  <2>1. UNCHANGED <<calls, loop, doneClosed, loopDone>> /\ status[m] = "running"
    BY <1>5 DEF LoopTickGameOver, loops
  <2>2. \A n \in Matches : status'[n] = IF n = m THEN "game_over" ELSE status[n]
    BY <1>5 DEF LoopTickGameOver, LifecycleTypeOK
  <2> QED
    BY <2>1, <2>2, LoopFrame
<1>6. CASE UNCHANGED vars
  BY <1>6, LoopFrame DEF vars, manager, loops
<1> QED
  BY <1>1, <1>2, <1>3, <1>4, <1>5, <1>6, StartStep, SpawnStep, StopStep, EndMatchStep, CloseStep,
     WaitStep, LifecycleCases

-----------------------------------------------------------------------------
(* The manager implements the service *)

\* The end of a match, seen by the service: its players, and nobody else, are free.
LEMMA OverStep ==
    ASSUME LifecycleTypeOK, MappingExact, NEW m \in Matches, Live(m),
           status' = [status EXCEPT ![m] = "game_over"],
           playerToMatch' = WithoutPlayersOf({m}),
           UNCHANGED <<players, closed>>
    PROVE  Service!Over(m)
<1>1. \A p \in Players : p \in players[m] <=> Service!Leaves(p, m)
  BY DEF LifecycleTypeOK, MappingExact, Service!Leaves
<1>2. playerToMatch' = [p \in Players |-> IF Service!Leaves(p, m) THEN 0 ELSE playerToMatch[p]]
  BY <1>1 DEF WithoutPlayersOf
<1> QED
  BY <1>2 DEF Service!Over, Live

\* The service's module and the manager's count players alike.
LEMMA SameCardinality == \A S : Service!Cardinality(S) = Cardinality(S)
BY DEF Cardinality, Service!Cardinality

\* Every step of the manager is a step of the service or leaves the service alone.
LEMMA ServiceStep ==
    ASSUME LifecycleTypeOK, FreshInv, MappingExact, [Next]_vars
    PROVE  [Service!Next]_(Service!service)
<1> USE DEF LifecycleTypeOK
<1>1. CASE CreateMatch /\ UNCHANGED panicked
  <2>1. nextMatchSequence + 1 \in Matches /\ status[nextMatchSequence + 1] = "none"
    BY <1>1 DEF CreateMatch, FreshInv
  <2>2. Service!Open(nextMatchSequence + 1)
    BY <1>1, <2>1 DEF CreateMatch, Service!Open
  <2> QED
    BY <2>1, <2>2 DEF Service!Next
<1>2. ASSUME NEW m \in Matches, NEW p \in Players, JoinMatch(m, p), UNCHANGED panicked
      PROVE  Service!Next
  <2>1. Service!Join(p, m)
    BY <1>2, SameCardinality DEF JoinMatch, AlreadyJoined, HasRoom, Service!Join
  <2> QED
    BY <2>1 DEF Service!Next
<1>3. ASSUME NEW m \in Matches, NEW p \in Players, ResumePlayer(m, p), UNCHANGED panicked
      PROVE  [Service!Next]_(Service!service)
  <2>1. CASE playerToMatch[p] = m
    BY <1>3, <2>1 DEF ResumePlayer, Service!service
  <2>2. CASE playerToMatch[p] = NoMatch
    <3>1. closed
      BY <1>3, <2>2 DEF ResumePlayer, MappingExact
    <3>2. Service!Return(p, m)
      BY <1>3, <2>2, <3>1 DEF ResumePlayer, Live, Service!Return
    <3> QED
      BY <3>2 DEF Service!Next
  <2> QED
    BY <1>3, <2>1, <2>2 DEF ResumePlayer
<1>4. ASSUME NEW c \in Callers, NEW m \in Matches, StartMatch(c, m), UNCHANGED panicked
      PROVE  Service!Next
  <2>1. Service!Begin(m)
    BY <1>4, SameCardinality DEF StartMatch, Service!Begin
  <2> QED
    BY <2>1 DEF Service!Next
<1>5. ASSUME NEW m \in Matches, LoopTickGameOver(m), UNCHANGED panicked
      PROVE  Service!Next
  <2>1. Service!Over(m)
    BY <1>5, OverStep DEF LoopTickGameOver, Live
  <2> QED
    BY <2>1 DEF Service!Next
<1>6. ASSUME NEW c \in Callers, NEW m \in Matches, EndMatch(c, m), UNCHANGED panicked
      PROVE  Service!Next
  <2>1. Service!Over(m)
    BY <1>6, OverStep DEF EndMatch, EndMatchGuard
  <2> QED
    BY <2>1 DEF Service!Next
<1>7. ASSUME NEW c \in Callers, Close(c), UNCHANGED panicked
      PROVE  Service!Next
  <2>1. ASSUME NEW p \in Players, playerToMatch[p] # NoMatch
        PROVE  \E m \in {n \in Matches : status[n] # "none"} : p \in players[m]
    <3>1. playerToMatch[p] \in Matches
      BY <2>1
    <3>2. Live(playerToMatch[p]) /\ p \in players[playerToMatch[p]]
      BY <3>1 DEF MappingExact
    <3>3. status[playerToMatch[p]] # "none"
      BY <3>2 DEF Live
    <3> QED
      BY <3>1, <3>2, <3>3
  <2>2. playerToMatch' = [p \in Players |-> 0]
    BY <1>7, <2>1 DEF Close, WithoutPlayersOf
  <2>3. Service!Shutdown
    BY <1>7, <2>2 DEF Close, Service!Shutdown
  <2> QED
    BY <2>3 DEF Service!Next
<1>8. ASSUME \/ \E c \in Callers : SpawnLoop(c) \/ WaitReturns(c)
             \/ \E m \in Matches : LoopTick(m) \/ LoopStops(m)
             \/ UNCHANGED vars
      PROVE  UNCHANGED Service!service
  BY <1>8 DEF SpawnLoop, WaitReturns, LoopTick, LoopStops, vars, manager, Service!service
<1> QED
  BY <1>1, <1>2, <1>3, <1>4, <1>5, <1>6, <1>7, <1>8, LifecycleCases

-----------------------------------------------------------------------------
(* The theorems *)

\* The strengthening is inductive, so it holds in every state the manager reaches.
THEOREM LifecycleInvariant == Spec => []LifecycleInv
<1>1. ASSUME LifecycleInv, [Next]_vars PROVE LifecycleInv'
  BY <1>1, LifecycleTypeStep, FreshStep, MappingStep, EndsOnceStep, LoopStep DEF LifecycleInv
<1> QED
  BY <1>1, LifecycleInitInv, PTL DEF Spec

\* The manager's maps keep their types, and no match exceeds MaxPlayers however joins
\* interleave (JoinMatch).
THEOREM LifecycleTypeCorrect == Spec => []LifecycleTypeOK
BY LifecycleInvariant, PTL DEF LifecycleInv

\* Manager.playerToMatch agrees with the players of the live matches (JoinMatch,
\* ResumePlayer, EndMatch, Close and the loop's game over).
THEOREM MappingCorrect == Spec => []MappingExact
BY LifecycleInvariant, PTL DEF LifecycleInv

\* A match ends once, whichever of EndMatch, Close and the loop gets there first.
THEOREM EndsExactlyOnce == Spec => []EndsOnce
BY LifecycleInvariant, PTL DEF LifecycleInv

\* No loop is left that nobody can wait for, through the unlocked steps of StartMatch,
\* EndMatch and Close.
THEOREM LoopsNeverOrphaned == Spec => []NoOrphanLoop
BY LifecycleInvariant, PTL DEF LifecycleInv

\* The manager, with its unlocked steps, its loops and its shutdown, implements the
\* service its players are promised (CreateMatch, JoinMatch, ResumePlayer, StartMatch,
\* EndMatch, Close and the loop's game over).
THEOREM ManagerImplementsService == Spec => ServiceKept
<1>1. Init => Service!Init
  BY DEF Init, Service!Init
<1>2. ASSUME LifecycleInv, [Next]_vars PROVE [Service!Next]_(Service!service)
  BY <1>2, ServiceStep DEF LifecycleInv
<1> QED
  BY <1>1, <1>2, LifecycleInvariant, PTL DEF Spec, ServiceKept, Service!Spec

=============================================================================
