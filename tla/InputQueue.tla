----------------------------- MODULE InputQueue -----------------------------
(***************************************************************************)
(* The server's input queue of one running match                          *)
(* (internal/server/game/input_queue.go) and the part of the match loop    *)
(* that consumes it (manager.go, runMatchLoop and the head of              *)
(* applyInputsToGameStateLocked).                                          *)
(*                                                                         *)
(* Connections call SubmitInput concurrently; the loop goroutine takes the *)
(* bucket of the tick it is about to simulate.  Every step below is one    *)
(* critical section of Manager.mu.  A command's payload is abstracted to   *)
(* whether it decodes, its type to what the queue tells apart: continuous  *)
(* intents (move, aim), discrete actions, and unsupported types.           *)
(*                                                                         *)
(* A bucket is a slice that is sorted by ingress number before it is used, *)
(* so scheduledInputs is the set of the pending commands; the bucket of    *)
(* tick t is the subset whose targetTick is t.                             *)
(***************************************************************************)
EXTENDS Integers, FiniteSets

CONSTANTS
    Players,                              \* session.players
    MaxAcceptedCommandsPerPlayerPerTick,  \* rate cap of one tick window
    MaxClientSeq,                         \* bound: client sequence numbers
    MaxIngress,                           \* bound: commands accepted
    MaxTick                               \* bound: ticks simulated

ASSUME PlayersAssumption == IsFiniteSet(Players)
ASSUME RateAssumption == MaxAcceptedCommandsPerPlayerPerTick \in Nat \ {0}
ASSUME BoundAssumption == MaxClientSeq \in Nat /\ MaxIngress \in Nat /\ MaxTick \in Nat

VARIABLES
    status,                  \* session.status: "running" or "game_over"
    tickID,                  \* session.tickID
    nextIngressSeq,          \* session.nextIngressSeq
    scheduledInputs,         \* session.scheduledInputs, all buckets together
    seenClientSeq,           \* session.seenClientSeq
    acceptedByTick,          \* session.acceptedByTick: tick -> player -> count
    replayEntries,           \* session.replayEntries
    lastProcessedClientSeq,  \* session.lastProcessedClientSeq
    applied                  \* history: what each tick applied, and in which place

vars == <<status, tickID, nextIngressSeq, scheduledInputs, seenClientSeq,
          acceptedByTick, replayEntries, lastProcessedClientSeq, applied>>

-----------------------------------------------------------------------------
(* Commands *)

ClientSeqs == 1 .. MaxClientSeq

SupportedTypes == {"continuous", "discrete"}

\* What SubmitInput schedules: targetTick is the tick it was scheduled for.  Nothing
\* after scheduling depends on the type or the payload.
Command == [player     : Players,
            clientSeq  : ClientSeqs,
            targetTick : Nat,
            ingressSeq : Nat \ {0}]

Bucket(t) == {c \in scheduledInputs : c.targetTick = t}

isContinuousInput(type) == type = "continuous"

\* The checks made before the lock is taken.
validateInput(seq, type, payload) ==
    /\ seq # 0
    /\ type \in SupportedTypes
    /\ payload = "decodes"

-----------------------------------------------------------------------------
(* Scheduling *)

\* ErrInputTooLateDropped
TooLate(requested, type) ==
    /\ requested # 0
    /\ requested < tickID
    /\ ~isContinuousInput(type)

\* Seeded fault: no upper clamp.
computeScheduledTick_Unclamped(requested) ==
    IF requested = 0 \/ requested < tickID + 1 THEN tickID + 1 ELSE requested

\* The tick a command that is not too late goes to: the requested one, clamped
\* to the two ticks after the current one.
computeScheduledTick(requested) ==
    CASE requested = 0          -> tickID + 1
      [] requested > tickID + 2 -> tickID + 2
      [] requested < tickID + 1 -> tickID + 1
      [] OTHER                  -> requested

-----------------------------------------------------------------------------
(* Rate windows *)

windowCounters ==
    IF tickID \in DOMAIN acceptedByTick THEN acceptedByTick[tickID]
                                        ELSE [p \in Players |-> 0]

\* ErrInputRateLimited
RateLimited(p) == windowCounters[p] >= MaxAcceptedCommandsPerPlayerPerTick

\* The windows with the current one opened and holding the given counters.
OpenWindow(counters) ==
    [t \in DOMAIN acceptedByTick \cup {tickID} |->
        IF t = tickID THEN counters ELSE acceptedByTick[t]]

pruneRateWindows(windows) ==
    IF tickID <= 3 THEN windows
    ELSE [t \in {u \in DOMAIN windows : u >= tickID - 3} |-> windows[t]]

-----------------------------------------------------------------------------
(* Actions *)

\* What StartMatch leaves behind.
Init ==
    /\ status = "running"
    /\ tickID = 0
    /\ nextIngressSeq = 0
    /\ scheduledInputs = {}
    /\ seenClientSeq = [p \in Players |-> {}]
    /\ acceptedByTick = [t \in {} |-> [p \in Players |-> 0]]
    /\ replayEntries = {}
    /\ lastProcessedClientSeq = [p \in Players |-> 0]
    /\ applied = {}

\* Seeded fault: duplicates are not looked up.
Seen_Never(p, seq) == FALSE

\* ErrDuplicateInput
Seen(p, seq) == seq \in seenClientSeq[p]

\* SubmitInput, accepted: the command gets the next ingress number, joins the
\* bucket of its tick and the replay log, and counts against the rate window.
SubmitInput(p, seq, type, payload, requested) ==
    /\ validateInput(seq, type, payload)
    /\ status = "running"
    /\ ~Seen(p, seq)
    /\ ~RateLimited(p)
    /\ ~TooLate(requested, type)
    /\ LET command == [player     |-> p,
                       clientSeq  |-> seq,
                       targetTick |-> computeScheduledTick(requested),
                       ingressSeq |-> nextIngressSeq + 1]
       IN /\ scheduledInputs' = scheduledInputs \cup {command}
          /\ replayEntries' = replayEntries \cup {command}
    /\ nextIngressSeq' = nextIngressSeq + 1
    /\ seenClientSeq' = [seenClientSeq EXCEPT ![p] = @ \cup {seq}]
    /\ acceptedByTick' = pruneRateWindows(OpenWindow([windowCounters EXCEPT ![p] = @ + 1]))
    /\ UNCHANGED <<status, tickID, lastProcessedClientSeq, applied>>

\* SubmitInput, dropped as too late: only the current rate window is opened.  The
\* other rejections (invalid, unknown match, not running, duplicate, rate limited)
\* change nothing.
SubmitTooLate(p, seq, type, payload, requested) ==
    /\ validateInput(seq, type, payload)
    /\ status = "running"
    /\ ~Seen(p, seq)
    /\ ~RateLimited(p)
    /\ TooLate(requested, type)
    /\ acceptedByTick' = OpenWindow(windowCounters)
    /\ UNCHANGED <<status, tickID, nextIngressSeq, scheduledInputs, seenClientSeq,
                   replayEntries, lastProcessedClientSeq, applied>>

\* Seeded fault: the batch is ordered by the client's numbers.
SortsBefore_ByClient(c, d) == c.clientSeq < d.clientSeq

\* The order of sortInputCommands.  Its tie-breakers never decide: ingress numbers
\* are distinct (LogInv).
SortsBefore(c, d) == c.ingressSeq < d.ingressSeq

\* The place of a command in the sorted batch.
Place(c, batch) == Cardinality({d \in batch : SortsBefore(d, c)}) + 1

\* The player's acknowledgement once the batch has been walked: the highest client
\* sequence number processed so far, whether or not the command had any effect.
AckAfter(p, batch) ==
    LET seqs == {lastProcessedClientSeq[p]}
                  \cup {c.clientSeq : c \in {d \in batch : d.player = p}}
    IN CHOOSE n \in seqs : \A m \in seqs : m <= n

\* Seeded fault: the loop looks up the tick it has already left.
NextBatch_Stale == Bucket(tickID)

\* The bucket the next tick takes and deletes.
NextBatch == Bucket(tickID + 1)

\* One tick of runMatchLoop as far as the queue goes.
ApplyBatch ==
    /\ status = "running"
    /\ tickID < MaxTick
    /\ tickID' = tickID + 1
    /\ lastProcessedClientSeq' = [p \in Players |-> AckAfter(p, NextBatch)]
    /\ applied' = applied \cup {[command |-> c, tick |-> tickID + 1,
                                 place |-> Place(c, NextBatch)] : c \in NextBatch}
    /\ UNCHANGED <<nextIngressSeq, replayEntries>>

Tick ==
    /\ ApplyBatch
    /\ scheduledInputs' = scheduledInputs \ NextBatch
    /\ UNCHANGED <<status, seenClientSeq, acceptedByTick>>

\* What every way of ending a match does to the queue.
ClearQueue ==
    /\ status' = "game_over"
    /\ scheduledInputs' = {}
    /\ acceptedByTick' = [t \in {} |-> [p \in Players |-> 0]]
    /\ seenClientSeq' = [p \in Players |-> {}]

\* A tick whose win evaluation ends the match.
TickGameOver == ApplyBatch /\ ClearQueue

\* EndMatch, or Close, between two ticks.
EndMatch ==
    /\ status = "running"
    /\ ClearQueue
    /\ UNCHANGED <<tickID, nextIngressSeq, replayEntries, lastProcessedClientSeq, applied>>

\* Bounds: submissions stop at MaxIngress, and where the last tick they may be
\* scheduled for is MaxTick.
Submit ==
    /\ nextIngressSeq < MaxIngress
    /\ tickID + 2 <= MaxTick
    /\ \E p \in Players, seq \in 0 .. MaxClientSeq,
          type \in SupportedTypes \cup {"unsupported"}, payload \in {"decodes", "malformed"}, requested \in 0 .. MaxTick + 1 :
          \/ SubmitInput(p, seq, type, payload, requested)
          \/ SubmitTooLate(p, seq, type, payload, requested)

Next ==
    \/ Submit
    \/ Tick
    \/ TickGameOver
    \/ EndMatch

Spec == Init /\ [][Next]_vars

\* The loop's ticker keeps firing while the match runs.
FairSpec == Spec /\ WF_vars(Tick \/ TickGameOver)

-----------------------------------------------------------------------------
(* Properties *)

Key(c) == <<c.player, c.clientSeq>>

Applied == {a.command : a \in applied}

\* A player's commands in one bucket.
Pending(p, t) == {c \in Bucket(t) : c.player = p}

\* The type of the queue's state.
TypeOK ==
    /\ status \in {"running", "game_over"}
    /\ tickID \in 0 .. MaxTick
    /\ nextIngressSeq \in Nat
    /\ scheduledInputs \subseteq Command
    /\ seenClientSeq \in [Players -> SUBSET ClientSeqs]
    /\ DOMAIN acceptedByTick \subseteq 0 .. MaxTick
    /\ \A t \in DOMAIN acceptedByTick :
          acceptedByTick[t] \in [Players -> 0 .. MaxAcceptedCommandsPerPlayerPerTick]
    /\ replayEntries \subseteq Command
    /\ lastProcessedClientSeq \in [Players -> 0 .. MaxClientSeq]
    /\ applied \subseteq [command : Command, tick : 1 .. MaxTick, place : Nat \ {0}]

\* The loop only ever looks up the bucket of the tick it moves to, so a command in
\* any other bucket would stay there for good: every pending command is for one of
\* the next two ticks, and none outlives the match.
NoStrandedInput ==
    \A c \in scheduledInputs : /\ status = "running"
                               /\ c.targetTick \in {tickID + 1, tickID + 2}

\* "Commands identified by (player_id, client_seq) must be processed at most once"
\* (t-002, 5.5): over everything applied and still pending, the pair names one
\* command, however often the client resends it.
ProcessedAtMostOnce ==
    /\ \A a, b \in applied : Key(a.command) = Key(b.command) => a = b
    /\ \A a \in applied, c \in scheduledInputs : Key(a.command) # Key(c)
    /\ \A c, d \in scheduledInputs : Key(c) = Key(d) => c = d

\* Replaying the log (determinism.Run: entries grouped by tick, sorted by ingress
\* number) reproduces what the match applied: every tick applied exactly the entries
\* logged for it, in ingress order.
ReplayReproducesRun ==
    /\ Applied = {e \in replayEntries : e.targetTick <= tickID}
    /\ \A a \in applied : a.tick = a.command.targetTick
    /\ \A a, b \in applied :
          a.tick = b.tick /\ a.command.ingressSeq < b.command.ingressSeq => a.place < b.place

\* The rate cap counts acceptances per current tick while commands may be aimed two
\* ticks ahead: one tick can be handed at most twice the cap of a player's commands.
BatchBound ==
    \A p \in Players, t \in 0 .. MaxTick + 2 :
        Cardinality(Pending(p, t)) <= 2 * MaxAcceptedCommandsPerPlayerPerTick

\* The acknowledgement in the snapshots is the highest client sequence number applied:
\* it never runs ahead of what was applied and never behind it.
AckIsHighestApplied ==
    \A p \in Players :
        LET seqs == {c.clientSeq : c \in {d \in Applied : d.player = p}}
        IN /\ \A n \in seqs : n <= lastProcessedClientSeq[p]
           /\ lastProcessedClientSeq[p] \in seqs \cup {0}

-----------------------------------------------------------------------------
(* The inductive strengthening *)

\* The replay log decides the queue: what is logged for a later tick is what is
\* pending, keys and ingress numbers name one entry each, and a running match still
\* remembers every key it logged.
LogInv ==
    /\ IsFiniteSet(replayEntries)
    /\ \A c, d \in replayEntries : Key(c) = Key(d) => c = d
    /\ \A c \in replayEntries : c.ingressSeq <= nextIngressSeq
    /\ \A c, d \in replayEntries : c.ingressSeq = d.ingressSeq => c = d
    /\ \A c \in scheduledInputs : c \in replayEntries /\ c.targetTick > tickID
    /\ status = "running" =>
          /\ \A c \in replayEntries : c.targetTick > tickID => c \in scheduledInputs
          /\ \A c \in replayEntries : c.clientSeq \in seenClientSeq[c.player]

\* A logged command was applied at one place of one tick.
AppliedInv == \A a, b \in applied : a.command = b.command => a = b

\* A player's commands for the tick after next were all accepted in the current
\* window, those for the next tick in this window or the previous one.
RateInv ==
    status = "running" =>
        \A p \in Players :
            /\ Cardinality(Pending(p, tickID + 2)) <= windowCounters[p]
            /\ Cardinality(Pending(p, tickID + 1)) + Cardinality(Pending(p, tickID + 2))
                 <= MaxAcceptedCommandsPerPlayerPerTick + windowCounters[p]

\* No window beyond the current tick has been opened.
WindowInv == \A t \in DOMAIN acceptedByTick : t <= tickID

QueueInv ==
    /\ TypeOK
    /\ NoStrandedInput
    /\ LogInv
    /\ AppliedInv
    /\ ReplayReproducesRun
    /\ AckIsHighestApplied
    /\ WindowInv
    /\ RateInv

-----------------------------------------------------------------------------
(* Liveness *)

\* An accepted command is applied, unless the match ends first.
AcceptedIsApplied ==
    \A p \in Players, seq \in ClientSeqs :
        (\E c \in scheduledInputs : Key(c) = <<p, seq>>)
            ~> (status = "game_over" \/ \E c \in Applied : Key(c) = <<p, seq>>)

=============================================================================
