-------------------------- MODULE InputQueueProofs --------------------------
(***************************************************************************)
(* Proofs about InputQueue, for every set of players, rate cap and bound.  *)
(***************************************************************************)
EXTENDS InputQueue, FiniteSetTheorems, WellFoundedInduction, TLAPS

USE RateAssumption, BoundAssumption

\* A bounded, non-empty set of numbers has a largest element: the acknowledgement
\* AckAfter chooses exists.
LEMMA MaxExists ==
    ASSUME NEW n \in Nat, NEW S \in SUBSET (0 .. n), S # {}
    PROVE  \E x \in S : \A y \in S : y <= x
<1> DEFINE T == {n - x : x \in S}
<1>1. T \subseteq Nat
  OBVIOUS
<1>2. PICK x0 \in S : TRUE
  OBVIOUS
<1>3. n - x0 \in T
  BY <1>2
<1>4. PICK m \in T : \A k \in T : ~(<<k, m>> \in OpToRel(<, Nat))
  <2> HIDE DEF T
  <2> QED
    BY <1>1, <1>3, NatLessThanWellFounded, WFMin, Zenon
<1>5. ASSUME NEW k \in T
      PROVE  m <= k
  <2>1. k \in Nat /\ m \in Nat
    BY <1>1
  <2>2. ~(<<k, m>> \in OpToRel(<, Nat))
    BY <1>4
  <2>3. ~(k < m)
    BY <2>1, <2>2, Zenon DEF OpToRel
  <2> QED
    BY <2>1, <2>3
<1>6. PICK x \in S : m = n - x
  OBVIOUS
<1>7. \A y \in S : y <= x
  <2> TAKE y \in S
  <2>1. n - y \in T
    OBVIOUS
  <2>2. m <= n - y
    BY <2>1, <1>5
  <2> QED
    BY <2>2, <1>6
<1> QED
  BY <1>7

-----------------------------------------------------------------------------
(* Type correctness *)

\* The scheduled tick is one of the two ticks after the current one.
LEMMA ScheduledTickRange ==
    ASSUME tickID \in Nat, NEW r \in Nat
    PROVE  computeScheduledTick(r) \in {tickID + 1, tickID + 2}
BY DEF computeScheduledTick

\* Every counter of the current window is within the cap.
LEMMA WindowType ==
    ASSUME TypeOK
    PROVE  windowCounters \in [Players -> 0 .. MaxAcceptedCommandsPerPlayerPerTick]
BY DEF TypeOK, windowCounters

\* Opening the window of the current tick keeps the windows well formed.
LEMMA OpenWindowType ==
    ASSUME TypeOK,
           NEW counters \in [Players -> 0 .. MaxAcceptedCommandsPerPlayerPerTick]
    PROVE  /\ DOMAIN OpenWindow(counters) \subseteq 0 .. MaxTick
           /\ \A t \in DOMAIN OpenWindow(counters) :
                 OpenWindow(counters)[t]
                   \in [Players -> 0 .. MaxAcceptedCommandsPerPlayerPerTick]
           /\ OpenWindow(counters)[tickID] = counters
           /\ tickID \in DOMAIN OpenWindow(counters)
BY DEF TypeOK, OpenWindow

\* Pruning removes only windows of earlier ticks.
LEMMA PruneType ==
    ASSUME NEW w, tickID \in 0 .. MaxTick, DOMAIN w \subseteq 0 .. MaxTick
    PROVE  /\ DOMAIN pruneRateWindows(w) \subseteq DOMAIN w
           /\ \A t \in DOMAIN pruneRateWindows(w) : pruneRateWindows(w)[t] = w[t]
           /\ tickID \in DOMAIN w => tickID \in DOMAIN pruneRateWindows(w)
BY DEF pruneRateWindows

\* The acknowledgement after a batch exists, is one of the candidates and bounds them.
LEMMA AckAfterIsMax ==
    ASSUME TypeOK, NEW p \in Players, NEW batch \in SUBSET scheduledInputs
    PROVE  LET seqs == {lastProcessedClientSeq[p]}
                         \cup {c.clientSeq : c \in {d \in batch : d.player = p}}
           IN /\ AckAfter(p, batch) \in seqs
              /\ \A m \in seqs : m <= AckAfter(p, batch)
              /\ seqs \subseteq 0 .. MaxClientSeq
<1> DEFINE seqs == {lastProcessedClientSeq[p]}
                     \cup {c.clientSeq : c \in {d \in batch : d.player = p}}
<1>1. seqs \in SUBSET (0 .. MaxClientSeq) /\ seqs # {}
  BY DEF TypeOK, Command, ClientSeqs
<1>2. \E x \in seqs : \A y \in seqs : y <= x
  <2> HIDE DEF seqs
  <2> QED
    BY <1>1, MaxExists
<1>3. AckAfter(p, batch) = CHOOSE x \in seqs : \A y \in seqs : y <= x
  BY DEF AckAfter
<1>4. AckAfter(p, batch) \in seqs /\ \A y \in seqs : y <= AckAfter(p, batch)
  <2> HIDE DEF seqs
  <2> QED
    BY <1>2, <1>3
<1> QED
  BY <1>1, <1>4

\* Any collection of pending commands is finite when the pending ones are.
LEMMA PlaceType ==
    ASSUME NEW batch, IsFiniteSet(batch), NEW c
    PROVE  Place(c, batch) \in Nat \ {0}
<1>1. Cardinality({d \in batch : SortsBefore(d, c)}) \in Nat
  BY FS_Subset, FS_CardinalityType
<1> QED
  BY <1>1 DEF Place

\* The step every inductive argument below cases on.
LEMMA NextCases ==
    ASSUME [Next]_vars
    PROVE  \/ \E p \in Players, seq \in 0 .. MaxClientSeq,
                type \in SupportedTypes \cup {"unsupported"},
                payload \in {"decodes", "malformed"}, requested \in 0 .. MaxTick + 1 :
                 /\ tickID + 2 <= MaxTick
                 /\ \/ SubmitInput(p, seq, type, payload, requested)
                    \/ SubmitTooLate(p, seq, type, payload, requested)
           \/ Tick
           \/ TickGameOver
           \/ EndMatch
           \/ UNCHANGED vars
BY DEF Next, Submit

\* What StartMatch leaves behind satisfies the inductive invariant.
LEMMA InitInv == Init => QueueInv
<1> SUFFICES ASSUME Init PROVE QueueInv
  OBVIOUS
<1> USE DEF Init
<1>1. TypeOK /\ NoStrandedInput /\ AppliedInv /\ WindowInv
  BY DEF TypeOK, NoStrandedInput, AppliedInv, WindowInv
<1>2. LogInv /\ ReplayReproducesRun /\ AckIsHighestApplied
  BY FS_EmptySet DEF LogInv, ReplayReproducesRun, Applied, AckIsHighestApplied
<1>3. RateInv
  <2>1. \A p, t : Pending(p, t) = {}
    BY DEF Pending, Bucket
  <2>2. \A p, t : Cardinality(Pending(p, t)) = 0
    BY <2>1, FS_EmptySet
  <2>3. \A p \in Players : windowCounters[p] = 0
    BY DEF windowCounters
  <2> QED
    BY <2>2, <2>3 DEF RateInv
<1> QED
  BY <1>1, <1>2, <1>3 DEF QueueInv

\* What an accepted submission adds.
LEMMA SubmitAdds ==
    ASSUME TypeOK, NEW p \in Players, NEW seq, NEW type, NEW payload,
           NEW requested \in Nat, seq \in 0 .. MaxClientSeq,
           SubmitInput(p, seq, type, payload, requested)
    PROVE  \E c \in Command :
              /\ c.player = p
              /\ c.clientSeq = seq
              /\ c.targetTick \in {tickID + 1, tickID + 2}
              /\ c.ingressSeq = nextIngressSeq + 1
              /\ scheduledInputs' = scheduledInputs \cup {c}
              /\ replayEntries' = replayEntries \cup {c}
<1> DEFINE c == [player     |-> p,
                 clientSeq  |-> seq,
                 targetTick |-> computeScheduledTick(requested),
                 ingressSeq |-> nextIngressSeq + 1]
<1>1. computeScheduledTick(requested) \in {tickID + 1, tickID + 2}
  BY ScheduledTickRange DEF TypeOK
<1>2. c \in Command
  BY <1>1 DEF TypeOK, Command, ClientSeqs, SubmitInput, validateInput
<1>3. scheduledInputs' = scheduledInputs \cup {c} /\ replayEntries' = replayEntries \cup {c}
  BY DEF SubmitInput
<1> QED
  BY <1>1, <1>2, <1>3

\* Every step keeps the types: the acknowledgement chosen exists, places are positive
\* and no counter passes the cap.
LEMMA TypeStep ==
    ASSUME TypeOK, LogInv, [Next]_vars
    PROVE  TypeOK'
<1>1. ASSUME NEW p \in Players, NEW seq \in 0 .. MaxClientSeq, NEW type, NEW payload,
             NEW requested \in 0 .. MaxTick + 1, SubmitInput(p, seq, type, payload, requested)
      PROVE  TypeOK'
  <2>1. PICK c \in Command : /\ scheduledInputs' = scheduledInputs \cup {c}
                             /\ replayEntries' = replayEntries \cup {c}
    BY <1>1, SubmitAdds
  <2> DEFINE counters == [windowCounters EXCEPT ![p] = @ + 1]
  <2>2. counters \in [Players -> 0 .. MaxAcceptedCommandsPerPlayerPerTick]
    BY <1>1, WindowType DEF SubmitInput, RateLimited
  <2>3. acceptedByTick' = pruneRateWindows(OpenWindow(counters))
    BY <1>1 DEF SubmitInput
  <2>4. /\ DOMAIN acceptedByTick' \subseteq 0 .. MaxTick
        /\ \A t \in DOMAIN acceptedByTick' :
              acceptedByTick'[t] \in [Players -> 0 .. MaxAcceptedCommandsPerPlayerPerTick]
    <3> HIDE DEF counters
    <3>1. tickID \in 0 .. MaxTick
      BY DEF TypeOK
    <3> QED
      BY <2>2, <2>3, <3>1, OpenWindowType, PruneType
  <2>5. seenClientSeq' \in [Players -> SUBSET ClientSeqs]
    BY <1>1 DEF SubmitInput, TypeOK, validateInput, ClientSeqs
  <2>6. /\ nextIngressSeq' = nextIngressSeq + 1
        /\ UNCHANGED <<status, tickID, lastProcessedClientSeq, applied>>
    BY <1>1 DEF SubmitInput
  <2> QED
    BY <2>1, <2>4, <2>5, <2>6 DEF TypeOK
<1>2. ASSUME NEW p \in Players, NEW seq, NEW type, NEW payload, NEW requested,
             SubmitTooLate(p, seq, type, payload, requested)
      PROVE  TypeOK'
  <2>1. /\ DOMAIN OpenWindow(windowCounters) \subseteq 0 .. MaxTick
        /\ \A t \in DOMAIN OpenWindow(windowCounters) : OpenWindow(windowCounters)[t]
              \in [Players -> 0 .. MaxAcceptedCommandsPerPlayerPerTick]
    BY OpenWindowType, WindowType
  <2> QED
    BY <1>2, <2>1 DEF SubmitTooLate, TypeOK
<1>3. ASSUME ApplyBatch
      PROVE  /\ tickID' \in 0 .. MaxTick
             /\ nextIngressSeq' \in Nat
             /\ replayEntries' \subseteq Command
             /\ lastProcessedClientSeq' \in [Players -> 0 .. MaxClientSeq]
             /\ applied' \subseteq [command : Command, tick : 1 .. MaxTick, place : Nat \ {0}]
  <2>1. NextBatch \in SUBSET scheduledInputs
    BY DEF NextBatch, Bucket
  <2>2. \A p \in Players : AckAfter(p, NextBatch) \in 0 .. MaxClientSeq
    BY <2>1, AckAfterIsMax
  <2>3. IsFiniteSet(NextBatch)
    BY <2>1, FS_Subset DEF LogInv
  <2>4. \A c \in NextBatch : Place(c, NextBatch) \in Nat \ {0}
    BY <2>3, PlaceType
  <2> QED
    BY <1>3, <2>1, <2>2, <2>4 DEF ApplyBatch, TypeOK
<1>4. CASE Tick
  BY <1>3, <1>4 DEF Tick, TypeOK
<1>5. CASE TickGameOver
  BY <1>3, <1>5 DEF TickGameOver, ClearQueue, TypeOK
<1>6. CASE EndMatch
  BY <1>6 DEF EndMatch, ClearQueue, TypeOK
<1>7. CASE UNCHANGED vars
  BY <1>7 DEF vars, TypeOK
<1> QED
  BY <1>1, <1>2, <1>4, <1>5, <1>6, <1>7, NextCases

-----------------------------------------------------------------------------
(* The log and the queue *)

\* Every step leaves the pending commands in the next two buckets.
LEMMA NoStrandedStep ==
    ASSUME TypeOK, NoStrandedInput, [Next]_vars
    PROVE  NoStrandedInput'
<1>1. ASSUME NEW p \in Players, NEW seq \in 0 .. MaxClientSeq, NEW type, NEW payload,
             NEW requested \in 0 .. MaxTick + 1, SubmitInput(p, seq, type, payload, requested)
      PROVE  NoStrandedInput'
  <2>1. PICK c : /\ c.targetTick \in {tickID + 1, tickID + 2}
                 /\ scheduledInputs' = scheduledInputs \cup {c}
    BY <1>1, SubmitAdds
  <2>2. status' = "running" /\ tickID' = tickID /\ status = "running"
    BY <1>1 DEF SubmitInput
  <2> QED
    BY <2>1, <2>2 DEF NoStrandedInput
<1>2. ASSUME NEW p, NEW seq, NEW type, NEW payload, NEW requested,
             SubmitTooLate(p, seq, type, payload, requested)
      PROVE  NoStrandedInput'
  BY <1>2 DEF SubmitTooLate, NoStrandedInput
<1>3. CASE Tick
  BY <1>3 DEF Tick, ApplyBatch, NextBatch, Bucket, NoStrandedInput, TypeOK, Command
<1>4. CASE TickGameOver
  BY <1>4 DEF TickGameOver, ClearQueue, NoStrandedInput
<1>5. CASE EndMatch
  BY <1>5 DEF EndMatch, ClearQueue, NoStrandedInput
<1>6. CASE UNCHANGED vars
  BY <1>6 DEF vars, NoStrandedInput
<1> QED
  BY <1>1, <1>2, <1>3, <1>4, <1>5, <1>6, NextCases

\* Every step keeps the log, the queue and the duplicate filter in agreement.
LEMMA LogStep ==
    ASSUME TypeOK, NoStrandedInput, LogInv, [Next]_vars
    PROVE  LogInv'
<1>1. ASSUME NEW p \in Players, NEW seq \in 0 .. MaxClientSeq, NEW type, NEW payload,
             NEW requested \in 0 .. MaxTick + 1, SubmitInput(p, seq, type, payload, requested)
      PROVE  LogInv'
  <2>1. PICK c \in Command :
              /\ c.player = p
              /\ c.clientSeq = seq
              /\ c.targetTick \in {tickID + 1, tickID + 2}
              /\ c.ingressSeq = nextIngressSeq + 1
              /\ scheduledInputs' = scheduledInputs \cup {c}
              /\ replayEntries' = replayEntries \cup {c}
    BY <1>1, SubmitAdds
  <2>2. /\ status = "running" /\ status' = status /\ tickID' = tickID
        /\ seq \notin seenClientSeq[p]
        /\ nextIngressSeq' = nextIngressSeq + 1
        /\ seenClientSeq' = [seenClientSeq EXCEPT ![p] = @ \cup {seq}]
    BY <1>1 DEF SubmitInput, Seen
  <2>3. IsFiniteSet(replayEntries')
    BY <2>1, FS_AddElement DEF LogInv
  <2>4. \A d \in replayEntries : Key(d) # Key(c)
    BY <2>1, <2>2 DEF LogInv, Key
  <2>5. \A d \in replayEntries : d.ingressSeq < c.ingressSeq
    BY <2>1 DEF LogInv, TypeOK, Command
  <2>6. \A d, e \in replayEntries' : Key(d) = Key(e) => d = e
    BY <2>1, <2>4 DEF LogInv
  <2>7. \A d \in replayEntries' : d.ingressSeq <= nextIngressSeq'
    BY <2>1, <2>2 DEF LogInv, TypeOK, Command
  <2>8. \A d, e \in replayEntries' : d.ingressSeq = e.ingressSeq => d = e
    BY <2>1, <2>5 DEF LogInv, TypeOK, Command
  <2>9. \A d \in scheduledInputs' : d \in replayEntries' /\ d.targetTick > tickID'
    BY <2>1, <2>2 DEF LogInv, TypeOK
  <2>10. \A d \in replayEntries' : d.targetTick > tickID' => d \in scheduledInputs'
    BY <2>1, <2>2 DEF LogInv
  <2>11. \A d \in replayEntries' : d.clientSeq \in seenClientSeq'[d.player]
    BY <2>1, <2>2 DEF LogInv, TypeOK, Command
  <2> QED
    BY <2>3, <2>6, <2>7, <2>8, <2>9, <2>10, <2>11 DEF LogInv, Key
<1>2. ASSUME NEW p, NEW seq, NEW type, NEW payload, NEW requested,
             SubmitTooLate(p, seq, type, payload, requested)
      PROVE  LogInv'
  BY <1>2 DEF SubmitTooLate, LogInv, Key
<1>3. CASE Tick
  <2>1. \A c \in scheduledInputs \ NextBatch : c.targetTick > tickID + 1
    BY DEF NextBatch, Bucket, NoStrandedInput, TypeOK
  <2>2. \A c \in replayEntries : c.targetTick > tickID + 1 => c.targetTick > tickID
    BY DEF TypeOK, Command
  <2>3. \A c \in replayEntries :
            c.targetTick > tickID + 1 /\ status = "running" => c \in scheduledInputs \ NextBatch
    BY <2>2 DEF LogInv, NextBatch, Bucket, TypeOK
  <2>4. /\ scheduledInputs' = scheduledInputs \ NextBatch
        /\ tickID' = tickID + 1
        /\ UNCHANGED <<status, nextIngressSeq, replayEntries, seenClientSeq>>
    BY <1>3 DEF Tick, ApplyBatch
  <2> QED
    BY <2>1, <2>3, <2>4 DEF LogInv, Key
<1>4. CASE TickGameOver
  BY <1>4 DEF TickGameOver, ApplyBatch, ClearQueue, LogInv, Key
<1>5. CASE EndMatch
  BY <1>5 DEF EndMatch, ClearQueue, LogInv, Key
<1>6. CASE UNCHANGED vars
  BY <1>6 DEF vars, LogInv, Key
<1> QED
  BY <1>1, <1>2, <1>3, <1>4, <1>5, <1>6, NextCases

-----------------------------------------------------------------------------
(* What the ticks applied *)

\* A command that sorts before another has a smaller place in the batch.
LEMMA PlaceMonotone ==
    ASSUME NEW batch, IsFiniteSet(batch), NEW c \in batch, NEW d \in batch,
           \A e \in batch : e.ingressSeq \in Nat,
           c.ingressSeq < d.ingressSeq
    PROVE  Place(c, batch) < Place(d, batch)
<1> DEFINE C == {e \in batch : SortsBefore(e, c)}
           D == {e \in batch : SortsBefore(e, d)}
<1>1. C \subseteq D /\ c \in D /\ c \notin C
  BY DEF SortsBefore
<1>2. IsFiniteSet(D) /\ IsFiniteSet(C)
  BY FS_Subset
<1>3. Cardinality(C) < Cardinality(D)
  <2> HIDE DEF C, D
  <2> QED
    BY <1>1, <1>2, FS_Subset, FS_CardinalityType
<1>4. Cardinality(C) \in Nat /\ Cardinality(D) \in Nat
  BY <1>2, FS_CardinalityType
<1>5. Place(c, batch) = Cardinality(C) + 1 /\ Place(d, batch) = Cardinality(D) + 1
  BY DEF Place
<1> QED
  BY <1>3, <1>4, <1>5

\* In a running match the bucket of the next tick is what the log holds for it.
LEMMA BatchIsLogged ==
    ASSUME TypeOK, LogInv, status = "running"
    PROVE  NextBatch = {e \in replayEntries : e.targetTick = tickID + 1}
BY DEF TypeOK, LogInv, NextBatch, Bucket, Command

\* A tick adds its batch to what was applied.
LEMMA ApplyAdds ==
    ASSUME ApplyBatch
    PROVE  Applied' = Applied \cup NextBatch
<1> DEFINE entry(c) == [command |-> c, tick |-> tickID + 1, place |-> Place(c, NextBatch)]
           new == {entry(c) : c \in NextBatch}
<1>1. applied' = applied \cup new
  BY DEF ApplyBatch
<1>2. \A c : entry(c).command = c
  OBVIOUS
<1>3. {a.command : a \in new} = NextBatch
  <2> HIDE DEF entry
  <2>1. \A a \in new : a.command \in NextBatch
    BY <1>2
  <2>2. \A c \in NextBatch : \E a \in new : a.command = c
    BY <1>2
  <2> QED
    BY <2>1, <2>2
<1>4. {a.command : a \in applied'} = {a.command : a \in applied} \cup {a.command : a \in new}
  <2> HIDE DEF new
  <2> QED
    BY <1>1
<1> QED
  BY <1>3, <1>4 DEF Applied

\* A tick applies what the log holds for it, in ingress order, and nothing twice.
LEMMA ApplyReproduces ==
    ASSUME TypeOK, LogInv, AppliedInv, ReplayReproducesRun, ApplyBatch
    PROVE  AppliedInv' /\ ReplayReproducesRun'
<1> DEFINE new == {[command |-> c, tick |-> tickID + 1, place |-> Place(c, NextBatch)] :
                      c \in NextBatch}
<1>1. /\ status = "running" /\ tickID' = tickID + 1
      /\ applied' = applied \cup new
      /\ replayEntries' = replayEntries
  BY DEF ApplyBatch
<1>2. NextBatch = {e \in replayEntries : e.targetTick = tickID + 1}
  BY <1>1, BatchIsLogged
<1>3. IsFiniteSet(NextBatch) /\ \A c \in NextBatch : c.ingressSeq \in Nat
  BY <1>2, FS_Subset DEF LogInv, TypeOK, Command
<1>4. \A a \in applied : /\ a.command \in replayEntries
                         /\ a.tick = a.command.targetTick
                         /\ a.tick <= tickID
  BY DEF ReplayReproducesRun, Applied
<1>5. \A a \in new : /\ a.command \in NextBatch
                     /\ a.tick = tickID + 1
                     /\ a.command.targetTick = tickID + 1
                     /\ a.place = Place(a.command, NextBatch)
  BY <1>2
<1>6. \A a, b \in new : a.command = b.command => a = b
  OBVIOUS
<1>7. \A a \in applied, b \in new : a.command # b.command /\ a.tick # b.tick
  <2> HIDE DEF new
  <2> QED
    BY <1>4, <1>5 DEF TypeOK
<1>8. AppliedInv'
  <2> HIDE DEF new
  <2> QED
    BY <1>1, <1>6, <1>7 DEF AppliedInv
<1>10. Applied' = {e \in replayEntries' : e.targetTick <= tickID'}
  <2>1. Applied' = Applied \cup NextBatch
    BY ApplyAdds
  <2>2. Applied = {e \in replayEntries : e.targetTick <= tickID}
    BY DEF ReplayReproducesRun
  <2>3. \A e \in replayEntries : e.targetTick \in Nat
    BY DEF TypeOK, Command
  <2>4. \A e \in replayEntries : e.targetTick <= tickID + 1
            <=> (e.targetTick <= tickID \/ e.targetTick = tickID + 1)
    BY <2>3 DEF TypeOK
  <2> QED
    BY <1>1, <1>2, <2>1, <2>2, <2>4
<1>11. \A a \in applied' : a.tick = a.command.targetTick
  <2> HIDE DEF new
  <2> QED
    BY <1>1, <1>4, <1>5
<1>12. ASSUME NEW a \in new, NEW b \in new, a.command.ingressSeq < b.command.ingressSeq
       PROVE  a.place < b.place
  BY <1>3, <1>5, <1>12, PlaceMonotone
<1>13. \A a, b \in applied' :
          a.tick = b.tick /\ a.command.ingressSeq < b.command.ingressSeq => a.place < b.place
  <2> HIDE DEF new
  <2> QED
    BY <1>1, <1>7, <1>12 DEF ReplayReproducesRun
<1> QED
  BY <1>8, <1>10, <1>11, <1>13 DEF ReplayReproducesRun

\* Every step keeps what was applied a prefix of the log's replay.
LEMMA ReplayStep ==
    ASSUME TypeOK, LogInv, AppliedInv, ReplayReproducesRun, [Next]_vars
    PROVE  AppliedInv' /\ ReplayReproducesRun'
<1>1. ASSUME NEW p \in Players, NEW seq \in 0 .. MaxClientSeq, NEW type, NEW payload,
             NEW requested \in 0 .. MaxTick + 1, SubmitInput(p, seq, type, payload, requested)
      PROVE  AppliedInv' /\ ReplayReproducesRun'
  <2>1. PICK c : /\ c.targetTick \in {tickID + 1, tickID + 2}
                 /\ replayEntries' = replayEntries \cup {c}
    BY <1>1, SubmitAdds
  <2>2. UNCHANGED <<tickID, applied>>
    BY <1>1 DEF SubmitInput
  <2>3. ~(c.targetTick <= tickID)
    BY <2>1 DEF TypeOK
  <2>4. {e \in replayEntries' : e.targetTick <= tickID}
            = {e \in replayEntries : e.targetTick <= tickID}
    BY <2>1, <2>3
  <2> QED
    BY <2>2, <2>4 DEF AppliedInv, ReplayReproducesRun, Applied
<1>2. ASSUME NEW p, NEW seq, NEW type, NEW payload, NEW requested,
             SubmitTooLate(p, seq, type, payload, requested)
      PROVE  AppliedInv' /\ ReplayReproducesRun'
  BY <1>2 DEF SubmitTooLate, AppliedInv, ReplayReproducesRun, Applied
<1>3. CASE Tick \/ TickGameOver
  BY <1>3, ApplyReproduces DEF Tick, TickGameOver
<1>4. CASE EndMatch
  BY <1>4 DEF EndMatch, AppliedInv, ReplayReproducesRun, Applied
<1>5. CASE UNCHANGED vars
  BY <1>5 DEF vars, AppliedInv, ReplayReproducesRun, Applied
<1> QED
  BY <1>1, <1>2, <1>3, <1>4, <1>5, NextCases

\* Every step keeps the acknowledgement at the highest number applied.
LEMMA AckStep ==
    ASSUME TypeOK, AckIsHighestApplied, [Next]_vars
    PROVE  AckIsHighestApplied'
<1>1. ASSUME NEW p, NEW seq, NEW type, NEW payload, NEW requested,
             SubmitInput(p, seq, type, payload, requested)
      PROVE  AckIsHighestApplied'
  <2>1. UNCHANGED <<lastProcessedClientSeq, applied>>
    BY <1>1 DEF SubmitInput
  <2> QED
    BY <2>1 DEF AckIsHighestApplied, Applied
<1>2. ASSUME NEW p, NEW seq, NEW type, NEW payload, NEW requested,
             SubmitTooLate(p, seq, type, payload, requested)
      PROVE  AckIsHighestApplied'
  BY <1>2 DEF SubmitTooLate, AckIsHighestApplied, Applied
<1>3. ASSUME ApplyBatch
      PROVE  AckIsHighestApplied'
  <2>2. Applied' = Applied \cup NextBatch
    BY <1>3, ApplyAdds
  <2> SUFFICES ASSUME NEW p \in Players
               PROVE  LET seqs == {c.clientSeq : c \in {d \in Applied' : d.player = p}}
                      IN /\ \A n \in seqs : n <= lastProcessedClientSeq'[p]
                         /\ lastProcessedClientSeq'[p] \in seqs \cup {0}
    BY DEF AckIsHighestApplied
  <2> DEFINE old == {c.clientSeq : c \in {d \in Applied : d.player = p}}
             got == {c.clientSeq : c \in {d \in NextBatch : d.player = p}}
             seqs == {c.clientSeq : c \in {d \in Applied' : d.player = p}}
             ack == AckAfter(p, NextBatch)
  <2>3. seqs = old \cup got
    BY <2>2
  <2>4. lastProcessedClientSeq'[p] = ack
    BY <1>3 DEF ApplyBatch
  <2>5. /\ ack \in {lastProcessedClientSeq[p]} \cup got
        /\ \A m \in {lastProcessedClientSeq[p]} \cup got : m <= ack
        /\ {lastProcessedClientSeq[p]} \cup got \subseteq 0 .. MaxClientSeq
    <3>1. NextBatch \in SUBSET scheduledInputs
      BY DEF NextBatch, Bucket
    <3> QED
      BY <3>1, AckAfterIsMax
  <2>6. /\ \A n \in old : n <= lastProcessedClientSeq[p]
        /\ lastProcessedClientSeq[p] \in old \cup {0}
    BY DEF AckIsHighestApplied
  <2>7. old \subseteq Nat
    BY DEF Applied, TypeOK, Command, ClientSeqs
  <2> HIDE DEF old, got, seqs, ack
  <2>8. \A n \in seqs : n <= ack
    BY <2>3, <2>5, <2>6, <2>7
  <2>9. ack \in seqs \cup {0}
    BY <2>3, <2>5, <2>6
  <2> QED
    BY <2>4, <2>8, <2>9 DEF seqs
<1>4. CASE Tick \/ TickGameOver
  BY <1>3, <1>4 DEF Tick, TickGameOver
<1>5. CASE EndMatch
  BY <1>5 DEF EndMatch, AckIsHighestApplied, Applied
<1>6. CASE UNCHANGED vars
  BY <1>6 DEF vars, AckIsHighestApplied, Applied
<1> QED
  BY <1>1, <1>2, <1>4, <1>5, <1>6, NextCases

-----------------------------------------------------------------------------
(* The rate windows *)

\* An accepted submission leaves the current window open with the player's counter
\* one higher; pruning never removes it.
LEMMA SubmitCounts ==
    ASSUME TypeOK, NEW p \in Players, NEW seq, NEW type, NEW payload, NEW requested,
           SubmitInput(p, seq, type, payload, requested)
    PROVE  /\ windowCounters' = [windowCounters EXCEPT ![p] = @ + 1]
           /\ DOMAIN acceptedByTick' \subseteq DOMAIN acceptedByTick \cup {tickID}
<1> DEFINE counters == [windowCounters EXCEPT ![p] = @ + 1]
           opened == OpenWindow(counters)
<1>1. counters \in [Players -> 0 .. MaxAcceptedCommandsPerPlayerPerTick]
  BY WindowType DEF SubmitInput, RateLimited
<1>2. acceptedByTick' = pruneRateWindows(opened) /\ tickID' = tickID
  BY DEF SubmitInput
<1>3. /\ DOMAIN opened \subseteq 0 .. MaxTick
      /\ opened[tickID] = counters
      /\ tickID \in DOMAIN opened
  <2> HIDE DEF counters
  <2> QED
    BY <1>1, OpenWindowType
<1>4. DOMAIN opened = DOMAIN acceptedByTick \cup {tickID}
  BY DEF OpenWindow
<1>5. tickID \in 0 .. MaxTick
  BY DEF TypeOK
<1> HIDE DEF opened, counters
<1>6. /\ DOMAIN acceptedByTick' \subseteq DOMAIN opened
      /\ tickID \in DOMAIN acceptedByTick'
      /\ acceptedByTick'[tickID] = opened[tickID]
  BY <1>2, <1>3, <1>5, PruneType
<1>7. windowCounters' = counters
  BY <1>2, <1>3, <1>6 DEF windowCounters
<1> QED
  BY <1>4, <1>6, <1>7 DEF counters

\* No step opens a window ahead of the current tick.
LEMMA WindowStep ==
    ASSUME TypeOK, WindowInv, [Next]_vars
    PROVE  WindowInv'
<1>1. ASSUME NEW p \in Players, NEW seq, NEW type, NEW payload, NEW requested,
             SubmitInput(p, seq, type, payload, requested)
      PROVE  WindowInv'
  <2>1. tickID' = tickID
    BY <1>1 DEF SubmitInput
  <2> QED
    BY <1>1, <2>1, SubmitCounts DEF WindowInv, TypeOK
<1>2. ASSUME NEW p, NEW seq, NEW type, NEW payload, NEW requested,
             SubmitTooLate(p, seq, type, payload, requested)
      PROVE  WindowInv'
  BY <1>2 DEF SubmitTooLate, OpenWindow, WindowInv, TypeOK
<1>3. CASE Tick
  BY <1>3 DEF Tick, ApplyBatch, WindowInv, TypeOK
<1>4. CASE TickGameOver \/ EndMatch
  BY <1>4 DEF TickGameOver, EndMatch, ClearQueue, WindowInv
<1>5. CASE UNCHANGED vars
  BY <1>5 DEF vars, WindowInv
<1> QED
  BY <1>1, <1>2, <1>3, <1>4, <1>5, NextCases

\* The pending commands of a player are finitely many, and one more command adds at
\* most one to one bucket.
LEMMA PendingFinite ==
    ASSUME LogInv, NEW p, NEW t
    PROVE  IsFiniteSet(Pending(p, t)) /\ Cardinality(Pending(p, t)) \in Nat
<1>1. Pending(p, t) \subseteq replayEntries
  BY DEF LogInv, Pending, Bucket
<1> QED
  BY <1>1, FS_Subset, FS_CardinalityType DEF LogInv

\* Every step keeps a player's pending commands within what the windows counted.
LEMMA RateStep ==
    ASSUME TypeOK, NoStrandedInput, LogInv, WindowInv, RateInv, [Next]_vars
    PROVE  RateInv'
<1>1. ASSUME NEW q \in Players, NEW seq \in 0 .. MaxClientSeq, NEW type, NEW payload,
             NEW requested \in 0 .. MaxTick + 1, SubmitInput(q, seq, type, payload, requested)
      PROVE  RateInv'
  <2>1. PICK c : /\ c.player = q
                 /\ c.targetTick \in {tickID + 1, tickID + 2}
                 /\ scheduledInputs' = scheduledInputs \cup {c}
    BY <1>1, SubmitAdds
  <2>2. status = "running" /\ tickID' = tickID
    BY <1>1 DEF SubmitInput
  <2>3. windowCounters' = [windowCounters EXCEPT ![q] = @ + 1]
    BY <1>1, SubmitCounts
  <2>4. windowCounters \in [Players -> 0 .. MaxAcceptedCommandsPerPlayerPerTick]
    BY WindowType
  <2> SUFFICES ASSUME NEW p \in Players
               PROVE  /\ Cardinality(Pending(p, tickID + 2)') <= windowCounters'[p]
                      /\ Cardinality(Pending(p, tickID + 1)') + Cardinality(Pending(p, tickID + 2)')
                            <= MaxAcceptedCommandsPerPlayerPerTick + windowCounters'[p]
    BY <2>2 DEF RateInv, Pending, Bucket
  <2> DEFINE one == Cardinality(Pending(p, tickID + 1))
             two == Cardinality(Pending(p, tickID + 2))
  <2>5. /\ one \in Nat /\ two \in Nat
        /\ two <= windowCounters[p]
        /\ one + two <= MaxAcceptedCommandsPerPlayerPerTick + windowCounters[p]
    BY <2>2, PendingFinite DEF RateInv
  <2>6. \A t : (p # q \/ c.targetTick # t) => Pending(p, t)' = Pending(p, t)
    BY <2>1, <2>2 DEF Pending, Bucket
  <2>7. CASE p # q
    <3>1. Pending(p, tickID + 1)' = Pending(p, tickID + 1) /\ Pending(p, tickID + 2)' = Pending(p, tickID + 2)
      BY <2>2, <2>6, <2>7 DEF Pending, Bucket
    <3>2. windowCounters'[p] = windowCounters[p]
      BY <2>3, <2>4, <2>7
    <3> QED
      BY <2>5, <3>1, <3>2
  <2>8. CASE p = q
    <3>1. windowCounters'[p] = windowCounters[p] + 1
      BY <2>3, <2>4, <2>8
    <3>2. ASSUME NEW t, c.targetTick = t
          PROVE  Cardinality(Pending(p, t)') <= Cardinality(Pending(p, t)) + 1 /\ Cardinality(Pending(p, t)') \in Nat
      <4>1. Pending(p, t)' = Pending(p, t) \cup {c}
        BY <2>1, <2>8, <3>2 DEF Pending, Bucket
      <4>2. IsFiniteSet(Pending(p, t)) /\ Cardinality(Pending(p, t)) \in Nat
        BY PendingFinite
      <4>3. Cardinality(Pending(p, t) \cup {c}) \in {Cardinality(Pending(p, t)), Cardinality(Pending(p, t)) + 1}
        BY <4>2, FS_AddElement
      <4> QED
        BY <4>1, <4>2, <4>3
    <3>3. CASE c.targetTick = tickID + 1
      <4>1. tickID + 1 # tickID + 2
        BY DEF TypeOK
      <4>2. Pending(p, tickID + 2)' = Pending(p, tickID + 2)
        BY <2>2, <2>6, <3>3, <4>1 DEF Pending, Bucket
      <4>3. Cardinality(Pending(p, tickID + 1)') <= one + 1 /\ Cardinality(Pending(p, tickID + 1)') \in Nat
        BY <2>2, <3>2, <3>3 DEF Pending, Bucket
      <4>4. windowCounters[p] \in Nat
        BY <2>4
      <4> HIDE DEF one, two
      <4>5. Cardinality(Pending(p, tickID + 2)') = two
        BY <4>2 DEF two
      <4> QED
        BY <2>5, <3>1, <4>3, <4>4, <4>5
    <3>4. CASE c.targetTick = tickID + 2
      <4>1. tickID + 1 # tickID + 2
        BY DEF TypeOK
      <4>2. Pending(p, tickID + 1)' = Pending(p, tickID + 1)
        BY <2>2, <2>6, <3>4, <4>1 DEF Pending, Bucket
      <4>3. Cardinality(Pending(p, tickID + 2)') <= two + 1 /\ Cardinality(Pending(p, tickID + 2)') \in Nat
        BY <2>2, <3>2, <3>4 DEF Pending, Bucket
      <4>4. windowCounters[p] \in Nat
        BY <2>4
      <4> HIDE DEF one, two
      <4>5. Cardinality(Pending(p, tickID + 1)') = one
        BY <4>2 DEF one
      <4> QED
        BY <2>5, <3>1, <4>3, <4>4, <4>5
    <3> QED
      BY <2>1, <3>3, <3>4
  <2> QED
    BY <2>7, <2>8
<1>2. ASSUME NEW p, NEW seq, NEW type, NEW payload, NEW requested,
             SubmitTooLate(p, seq, type, payload, requested)
      PROVE  RateInv'
  <2>1. windowCounters' = windowCounters
    BY <1>2 DEF SubmitTooLate, OpenWindow, windowCounters
  <2> QED
    BY <1>2, <2>1 DEF SubmitTooLate, RateInv, Pending, Bucket
<1>3. CASE Tick
  <2>1. /\ status = "running" /\ status' = status
        /\ tickID' = tickID + 1
        /\ scheduledInputs' = scheduledInputs \ NextBatch
        /\ acceptedByTick' = acceptedByTick
    BY <1>3 DEF Tick, ApplyBatch
  <2>2. tickID + 1 \notin DOMAIN acceptedByTick
    BY DEF WindowInv, TypeOK
  <2>3. windowCounters' = [p \in Players |-> 0]
    BY <2>1, <2>2 DEF windowCounters
  <2> SUFFICES ASSUME NEW p \in Players
               PROVE  /\ Cardinality(Pending(p, tickID + 2)') = 0
                      /\ Cardinality(Pending(p, tickID + 1)') \in 0 .. MaxAcceptedCommandsPerPlayerPerTick
    BY <2>3 DEF RateInv
  <2>4. Pending(p, tickID + 1)' = Pending(p, tickID + 2)
    <3>1. tickID' + 1 = tickID + 2 /\ tickID + 2 # tickID + 1
      BY <2>1 DEF TypeOK
    <3> QED
      BY <2>1, <3>1 DEF Pending, Bucket, NextBatch
  <2>5. Pending(p, tickID + 2)' = {}
    <3>1. \A d \in scheduledInputs : d.targetTick # tickID' + 2
      BY <2>1 DEF NoStrandedInput, TypeOK
    <3> QED
      BY <2>1, <3>1 DEF Pending, Bucket
  <2>6. windowCounters[p] \in 0 .. MaxAcceptedCommandsPerPlayerPerTick
    BY WindowType
  <2>7. /\ Cardinality(Pending(p, tickID + 2)) \in Nat
        /\ Cardinality(Pending(p, tickID + 2)) <= windowCounters[p]
    BY <2>1, PendingFinite DEF RateInv
  <2>8. Cardinality(Pending(p, tickID + 1)') \in 0 .. MaxAcceptedCommandsPerPlayerPerTick
    BY <2>4, <2>6, <2>7
  <2>9. Cardinality(Pending(p, tickID + 2)') = 0
    BY <2>5, FS_EmptySet
  <2> QED
    BY <2>8, <2>9
<1>4. CASE TickGameOver \/ EndMatch
  BY <1>4 DEF TickGameOver, EndMatch, ClearQueue, RateInv
<1>5. CASE UNCHANGED vars
  BY <1>5 DEF vars, RateInv, Pending, Bucket, windowCounters
<1> QED
  BY <1>1, <1>2, <1>3, <1>4, <1>5, NextCases

-----------------------------------------------------------------------------
(* The theorems *)

\* The inductive invariant of the queue: types, buckets, log, what was applied, the
\* acknowledgements and the rate windows hold together in every reachable state.
THEOREM QueueInvariant == Spec => []QueueInv
<1>1. Init => QueueInv
  BY InitInv
<1>2. QueueInv /\ [Next]_vars => QueueInv'
  <2> SUFFICES ASSUME QueueInv, [Next]_vars
               PROVE  QueueInv'
    OBVIOUS
  <2>1. TypeOK /\ NoStrandedInput /\ LogInv /\ AppliedInv
    BY DEF QueueInv
  <2>2. ReplayReproducesRun /\ AckIsHighestApplied /\ WindowInv /\ RateInv
    BY DEF QueueInv
  <2>3. TypeOK' /\ NoStrandedInput' /\ LogInv'
    BY <2>1, TypeStep, NoStrandedStep, LogStep
  <2>4. AppliedInv' /\ ReplayReproducesRun'
    BY <2>1, <2>2, ReplayStep
  <2>5. AckIsHighestApplied'
    BY <2>1, <2>2, AckStep
  <2>6. WindowInv' /\ RateInv'
    BY <2>1, <2>2, WindowStep, RateStep
  <2> QED
    BY <2>3, <2>4, <2>5, <2>6 DEF QueueInv
<1> QED
  BY <1>1, <1>2, PTL DEF Spec

\* The state of the queue is always of its type.
THEOREM TypeCorrect == Spec => []TypeOK
<1>1. QueueInv => TypeOK
  BY DEF QueueInv
<1> QED
  BY <1>1, QueueInvariant, PTL

\* computeScheduledTick and the loop agree: no accepted command is ever left in a
\* bucket that the loop will not look up.
THEOREM NothingStranded == Spec => []NoStrandedInput
<1>1. QueueInv => NoStrandedInput
  BY DEF QueueInv
<1> QED
  BY <1>1, QueueInvariant, PTL

\* The duplicate filter of SubmitInput, cleared only when the match ends, keeps a
\* (player, client sequence number) pair from being processed twice.
THEOREM AtMostOnce == Spec => []ProcessedAtMostOnce
<1>1. QueueInv => ProcessedAtMostOnce
  <2> SUFFICES ASSUME QueueInv
               PROVE  ProcessedAtMostOnce
    OBVIOUS
  <2>1. TypeOK /\ LogInv /\ AppliedInv /\ ReplayReproducesRun
    BY DEF QueueInv
  <2>2. \A a \in applied : /\ a.command \in replayEntries
                           /\ a.command.targetTick <= tickID
    BY <2>1 DEF ReplayReproducesRun, Applied
  <2>3. \A c \in scheduledInputs : c \in replayEntries /\ ~(c.targetTick <= tickID)
    BY <2>1 DEF LogInv, TypeOK, Command
  <2>4. \A a, b \in applied : Key(a.command) = Key(b.command) => a = b
    BY <2>1, <2>2 DEF LogInv, AppliedInv
  <2>5. \A a \in applied, c \in scheduledInputs : Key(a.command) # Key(c)
    BY <2>1, <2>2, <2>3 DEF LogInv
  <2>6. \A c, d \in scheduledInputs : Key(c) = Key(d) => c = d
    BY <2>1 DEF LogInv
  <2> QED
    BY <2>4, <2>5, <2>6 DEF ProcessedAtMostOnce
<1> QED
  BY <1>1, QueueInvariant, PTL

\* The replay log written by SubmitInput reproduces what runMatchLoop applied, tick
\* by tick and in order.
THEOREM ReplayFaithful == Spec => []ReplayReproducesRun
<1>1. QueueInv => ReplayReproducesRun
  BY DEF QueueInv
<1> QED
  BY <1>1, QueueInvariant, PTL

\* No tick is handed more than twice the rate cap of one player's commands.
THEOREM BatchesBounded == Spec => []BatchBound
<1>1. QueueInv => BatchBound
  <2> SUFFICES ASSUME QueueInv, NEW p \in Players, NEW t \in 0 .. MaxTick + 2
               PROVE  Cardinality(Pending(p, t)) <= 2 * MaxAcceptedCommandsPerPlayerPerTick
    BY DEF BatchBound
  <2>1. TypeOK /\ LogInv /\ NoStrandedInput /\ RateInv
    BY DEF QueueInv
  <2>2. windowCounters[p] \in 0 .. MaxAcceptedCommandsPerPlayerPerTick
    BY <2>1, WindowType
  <2>3. \A u : Cardinality(Pending(p, u)) \in Nat
    BY <2>1, PendingFinite
  <2>4. CASE status = "running" /\ t \in {tickID + 1, tickID + 2}
    <3>1. /\ Cardinality(Pending(p, tickID + 2)) <= windowCounters[p]
          /\ Cardinality(Pending(p, tickID + 1)) + Cardinality(Pending(p, tickID + 2))
                <= MaxAcceptedCommandsPerPlayerPerTick + windowCounters[p]
      BY <2>1, <2>4 DEF RateInv
    <3> QED
      BY <2>2, <2>3, <2>4, <3>1
  <2>5. CASE ~(status = "running" /\ t \in {tickID + 1, tickID + 2})
    <3>1. Pending(p, t) = {}
      BY <2>1, <2>5 DEF NoStrandedInput, Pending, Bucket
    <3>2. Cardinality(Pending(p, t)) = 0
      BY <3>1, FS_EmptySet
    <3> QED
      BY <3>2
  <2> QED
    BY <2>4, <2>5
<1> QED
  BY <1>1, QueueInvariant, PTL

\* The acknowledgement a snapshot carries is the highest client sequence number the
\* server has applied for that player.
THEOREM AckExact == Spec => []AckIsHighestApplied
<1>1. QueueInv => AckIsHighestApplied
  BY DEF QueueInv
<1> QED
  BY <1>1, QueueInvariant, PTL

=============================================================================
