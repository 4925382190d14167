----------------------------- MODULE Prediction -----------------------------
(***************************************************************************)
(* The client in a match: netclient's sessions and snapshot store, the     *)
(* input controller and the prediction engine of the render shell, with    *)
(* the part of the server they meet: its clock, the schedule of a player's *)
(* commands and the acknowledgement of them.                               *)
(*                                                                         *)
(* A state is the tick it belongs to, since the server's record of applied *)
(* commands says what is in it.  A session's send queue and the network    *)
(* behind it are one queue; what the network still holds of a session that *)
(* is gone may arrive or not.  Snapshots are received in order and may be  *)
(* skipped (module SnapshotStream has the stream itself).  The clock that  *)
(* picks the frame to draw is left out: any frame may be drawn.            *)
(***************************************************************************)
EXTENDS Integers, Sequences, FiniteSets, SequencesExt

CONSTANTS
    Bounds,           \* how far a behaviour goes: records of the bounds below
    Keys,             \* kinds of commands the keys give: "move", "aim" or "act"
    SendQueueDepth,
    HistoryLimit,
    PendingLimit

ASSUME PredictionAssumption ==
    /\ Bounds # {}
    /\ \A b \in Bounds : {b.ticks, b.commands, b.sessions} \subseteq Nat
    /\ {SendQueueDepth, HistoryLimit, PendingLimit} \subseteq Nat \ {0}
    /\ Keys \subseteq {"move", "aim", "act"}

VARIABLES
    bound,       \* of this behaviour: ticks simulated, commands numbered, sessions opened
    running,     \* the match has started
    tick,        \* of the server
    scheduled,   \* commands accepted, with the tick they are for
    applied,     \* commands applied, with the tick they were applied in
    sessions,    \* netclient sessions
    shell,       \* the render shell: its controller and its engine; or NoShell
    process,     \* which process of the client this is
    issued       \* history: the commands built

serverVars == <<bound, running, tick, scheduled, applied>>

Ids == 1 .. bound.sessions

NoShell == [history |-> <<>>]

NoSession == [state |-> "none", player |-> FALSE, err |-> FALSE, tick |-> 0,
              running |-> FALSE, sent |-> <<>>]

PredictionInit ==
    /\ bound \in Bounds
    /\ running = FALSE
    /\ tick = 0
    /\ scheduled = {}
    /\ applied = {}
    /\ sessions = [i \in Ids |-> NoSession]
    /\ shell = NoShell
    /\ process = 1
    /\ issued = {}

-----------------------------------------------------------------------------
(* The server *)

MaxOf(S) == CHOOSE n \in S : \A m \in S : m <= n

\* The player's acknowledgement that the snapshot of tick t carries.
AckAt(t) == MaxOf({0} \cup {c.seq : c \in {d \in applied : d.at <= t}})

\* A number counts as seen from the time its command is accepted.
Seen(seq) == \E c \in scheduled \cup applied : c.seq = seq

TooLate(c) == c.target < tick /\ c.type = "act"

scheduledTick(c) ==
    CASE c.target > tick + 2 -> tick + 2
      [] c.target < tick + 1 -> tick + 1
      [] OTHER -> c.target

StartMatch ==
    /\ ~running
    /\ running' = TRUE
    /\ UNCHANGED <<bound, tick, scheduled, applied, sessions, shell, process, issued>>

ServerTick ==
    /\ running
    /\ tick < bound.ticks
    /\ tick' = tick + 1
    /\ LET batch == {c \in scheduled : c.at = tick + 1}
       IN applied' = applied \cup batch /\ scheduled' = scheduled \ batch
    /\ UNCHANGED <<bound, running, sessions, shell, process, issued>>

\* A command arrives: it is scheduled, or refused with an error message.  barred: the
\* player has used up the tick's commands, or the match is over; any command may meet that.
SubmitInput(i, barred) ==
    /\ sessions[i].sent # <<>>
    /\ LET c == Head(sessions[i].sent)
           refused == barred \/ Seen(c.seq) \/ TooLate(c)
       IN /\ scheduled' = scheduled \cup
                (IF refused THEN {}
                 ELSE {[seq |-> c.seq, by |-> c.by, type |-> c.type, at |-> scheduledTick(c)]})
          /\ sessions' = [sessions EXCEPT ![i].sent = Tail(@),
                                          ![i].err = @ \/ refused]
    /\ UNCHANGED <<bound, running, tick, applied, shell, process, issued>>

-----------------------------------------------------------------------------
(* netclient *)

\* The session DialAndJoin returns: the handshake has given it a full snapshot.
Joined(player) ==
    [NoSession EXCEPT !.state = "open", !.player = player, !.tick = tick, !.running = running]

\* readLoop and onAuthoritativeSnapshot; the snapshot of the start has tick 0.
onAuthoritativeSnapshot(i) ==
    /\ sessions[i].state = "open"
    /\ running
    /\ \E t \in sessions[i].tick .. tick :
          /\ sessions[i].running => t > sessions[i].tick
          /\ sessions' = [sessions EXCEPT ![i].tick = t, ![i].running = TRUE]
    /\ UNCHANGED <<serverVars, shell, process, issued>>

\* readLoop or writeLoop ends.  An error stays with the session; the peer's closing, in
\* good order, is none, and nothing tells the application of it.
LoseConnection(i, failed) ==
    /\ sessions[i].state = "open"
    /\ sessions' = [sessions EXCEPT ![i].state = "lost", ![i].err = @ \/ failed]
    /\ UNCHANGED <<serverVars, shell, process, issued>>

\* What a session that is gone had sent is lost; writeLoop may fail on it.
LoseSent(i, failed) ==
    /\ sessions[i].state \in {"lost", "closed"}
    /\ sessions[i].sent # <<>>
    /\ sessions' = [sessions EXCEPT ![i].sent = <<>>, ![i].err = @ \/ failed]
    /\ UNCHANGED <<serverVars, shell, process, issued>>

Close(ss, i) == IF i = 0 THEN ss ELSE [ss EXCEPT ![i].state = "closed"]

\* SendInputCommand, of these commands in turn: a session that is read-only or closed
\* loses all of them, one with a full queue those that it has no room for.
SendInputCommand(s, commands) ==
    LET room == SendQueueDepth - Len(s.sent)
        kept == IF Len(commands) <= room THEN commands ELSE SubSeq(commands, 1, room)
    IN IF s.player /\ s.state = "open" THEN [s EXCEPT !.sent = @ \o kept] ELSE s

-----------------------------------------------------------------------------
(* The prediction engine *)

\* Frames are kept in the order of their times, which is the order they came in.
insertFrame(history, t) ==
    LET frames == Append(history, t)
    IN IF Len(frames) <= HistoryLimit THEN frames
       ELSE SubSeq(frames, Len(frames) - HistoryLimit + 1, Len(frames))

DropAckedInputs(pending, ack) == {c \in pending : c.seq > ack}

\* The state at tick t, with the acknowledgement of the snapshot of tick m.
AcceptAuthoritativeSnapshot(sh, m, t) ==
    [sh EXCEPT !.history = insertFrame(@, t),
               !.pending = IF AckAt(m) = 0 THEN @ ELSE DropAckedInputs(@, AckAt(m)),
               !.lastReconciledTick = m]

\* trimPendingLocked: commands are pending in the order of their numbers.
trimPending(pending) ==
    {c \in pending : Cardinality({d \in pending : d.seq > c.seq}) < PendingLimit}

\* Numbers that are pending already are not recorded again.
RecordLocalCommands(pending, commands) ==
    trimPending(pending \cup {c \in ToSet(commands) : /\ c.type \in {"move", "aim"}
                                                      /\ \A d \in pending : d.seq # c.seq})

\* Seeded fault: moves for the very tick of the frame are replayed.
Replayed_Equal(sh, t) == {c \in sh.pending : c.type = "move" /\ c.target >= t}

\* The moves replayPendingMovement adds to the frame of tick t.
Replayed(sh, t) == {c \in sh.pending : c.type = "move" /\ c.target > t}

-----------------------------------------------------------------------------
(* The input controller *)

\* The commands of one frame, in order.  A move and an aim are built once per target.
Wanted(sh, keys, target) ==
    LET If(type, due) == IF type \in keys /\ due THEN <<type>> ELSE <<>>
    IN If("move", target # sh.lastMoveTargetTick)
          \o If("aim", target # sh.lastAimTargetTick)
          \o If("act", TRUE)

newCommand(type, seq, target) == [seq |-> seq, by |-> process, type |-> type, target |-> target]

\* Nothing is built for a spectator.
BuildCommands(sh, keys, target) ==
    LET types == IF sh.player THEN Wanted(sh, keys, target) ELSE <<>>
    IN [k \in DOMAIN types |-> newCommand(types[k], sh.nextClientSeq + k, target)]

TargetAfter(commands, type, target, old) ==
    IF \E c \in ToSet(commands) : c.type = type THEN target ELSE old

\* The shell and the engine after Update has built the commands.
AfterBuild(sh, commands, target) ==
    [sh EXCEPT !.pending = RecordLocalCommands(@, commands),
               !.nextClientSeq = @ + Len(commands),
               !.lastMoveTargetTick = TargetAfter(commands, "move", target, @),
               !.lastAimTargetTick = TargetAfter(commands, "aim", target, @)]

\* NewShell on session i: the engine is seeded with the session's state.
NewShell(i, seed) ==
    [history |-> <<sessions[i].tick>>, pending |-> {}, player |-> sessions[i].player,
     lastReconciledTick |-> sessions[i].tick, nextClientSeq |-> seed,
     lastMoveTargetTick |-> 0, lastAimTargetTick |-> 0, paused |-> FALSE]

-----------------------------------------------------------------------------
(* Properties *)

\* A predicted move is never added to a frame that has it already, whichever frame the
\* clock picks: not when the acknowledgement read is older than the state read after it
\* (reconcilePredictionFromStore takes the store's lock twice), not for late commands
\* that the server moved to a later tick, and not when pending inputs were trimmed
\* (RenderState, replayPendingMovement).
NoDoubleStep ==
    \A t \in ToSet(shell.history) : \A c \in Replayed(shell, t) :
        ~ \E d \in applied : d.seq = c.seq /\ d.by = c.by /\ d.at <= t

=============================================================================
