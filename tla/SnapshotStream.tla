--------------------------- MODULE SnapshotStream ---------------------------
(***************************************************************************)
(* How the state of one match reaches its clients: the snapshots the match *)
(* loop stores (manager.go), the join handlers and the dispatch loop that  *)
(* put snapshots on a connection (networking/server.go), and the client's  *)
(* store that applies them (netclient/snapshot_store.go).                  *)
(*                                                                         *)
(* The join handler of each connection, the dispatch loop and the match    *)
(* loop are separate goroutines.  One action is one critical section of    *)
(* Server.mu or Manager.mu, or one non-blocking send on a connection's     *)
(* channel.  What happens between the channel and the client's store (the  *)
(* write pump, the socket, the client's read loop) keeps the order, and is *)
(* one action.                                                             *)
(*                                                                         *)
(* The content of a game state is abstracted to the set of changes it      *)
(* reflects: 0 is what StartMatch did, t > 0 what tick t did.  A full      *)
(* snapshot carries such a set, a delta snapshot only its own tick.        *)
(***************************************************************************)
EXTENDS Integers, Sequences, FiniteSets

CONSTANTS
    MaxConns,        \* bound: connections followed (one join_game each)
    MinPlayers,      \* config.MinPlayers
    SendQueueDepth,  \* config.SendQueueDepth
    HistoryLimit,    \* storeSnapshotLocked: historyLimit
    MaxTick          \* bound: ticks simulated

ASSUME StreamAssumption ==
    /\ MaxConns \in Nat /\ MinPlayers \in Nat /\ MaxTick \in Nat
    /\ SendQueueDepth \in Nat \ {0} /\ HistoryLimit \in Nat

Conns == 1 .. MaxConns

\* A connection whose own stream is not followed: its player is in the lobby, and its
\* handler has come to maybeAutoStartMatch, which may start the match for everyone.
OtherConn == 0

Handlers == Conns \cup {OtherConn}

VARIABLES
    status,            \* session.status
    tickID,            \* session.tickID
    snapshotHistory,   \* the ticks session.snapshotHistory has a snapshot of
    joined,            \* connections whose player is in session.players
    open,              \* connections in Server.connections
    bound,             \* connections whose matchID and viewerID are set
    lastSnapshotTick,  \* conn.lastSnapshotTick
    send,              \* conn.send: the messages queued on a connection
    sent,              \* history: what has been queued on it so far
    handler,           \* where the connection's join handler is
    dispatch,          \* where dispatchPendingSnapshots is
    store              \* the client's SnapshotStore

match == <<status, tickID, snapshotHistory, joined>>
vars  == <<match, open, bound, lastSnapshotTick, send, sent, handler, dispatch, store>>

-----------------------------------------------------------------------------
(* Snapshots and the client's store *)

\* makeFullSnapshotLocked: the state as it is now.
FullSnapshot == [kind  |-> "full",
                 tick  |-> tickID,
                 holds |-> IF status = "lobby" THEN {} ELSE 0 .. tickID]

Delta(t) == [kind |-> "delta", tick |-> t, holds |-> {t}]

Accepted == [kind |-> "join_accepted", tick |-> 0, holds |-> {}]

EmptyStore == [kind |-> "none", tick |-> 0, holds |-> {}]

\* What has been queued on a connection: the changes carried, the latest tick, the tick
\* of the last delta, and whether no full snapshot followed a snapshot of a later tick.
NothingSent == [ticks |-> {}, newest |-> 0, lastDelta |-> 0, clean |-> TRUE]

\* Seeded fault: a stale delta is applied.
ApplySnapshot_NoTickCheck(s, snapshot) ==
    CASE snapshot.kind = "full"  -> snapshot
      [] snapshot.kind = "delta" /\ s # EmptyStore ->
            [s EXCEPT !.tick = snapshot.tick, !.holds = @ \cup snapshot.holds]
      [] OTHER -> s

\* SnapshotStore.ApplySnapshot: a full snapshot replaces whatever is there, a delta is
\* applied on top of any state of an earlier tick.
ApplySnapshot(s, snapshot) ==
    CASE snapshot.kind = "full" -> snapshot
      [] snapshot.kind = "delta" /\ s # EmptyStore /\ snapshot.tick > s.tick ->
            [s EXCEPT !.tick = snapshot.tick, !.holds = @ \cup snapshot.holds]
      [] OTHER -> s

-----------------------------------------------------------------------------
(* The match loop *)

Idle == [at |-> "idle", full |-> EmptyStore, targets |-> {}, spectator |-> FALSE]

Done == [Idle EXCEPT !.at = "done"]

NoDispatch == [at |-> "idle", targets |-> {}, conn |-> 0, cursor |-> 0, latest |-> 0,
               ticks |-> {}]

Init ==
    /\ status = "lobby"
    /\ tickID = 0
    /\ snapshotHistory = {}
    /\ joined = {OtherConn}
    /\ open = Conns
    /\ bound = {}
    /\ lastSnapshotTick = [c \in Conns |-> 0]
    /\ send = [c \in Conns |-> <<>>]
    /\ sent = [c \in Conns |-> NothingSent]
    /\ handler = [c \in Handlers |-> [Idle EXCEPT !.at = IF c = OtherConn THEN "noted" ELSE "idle"]]
    /\ dispatch = NoDispatch
    /\ store = [c \in Conns |-> EmptyStore]

\* Seeded fault: the snapshot of the current tick is pruned with the old ones.
storeSnapshot_OffByOne(t) ==
    LET kept == snapshotHistory \cup {t}
    IN IF t <= HistoryLimit THEN kept ELSE {u \in kept : u > t - HistoryLimit + 1}

\* storeSnapshotLocked
storeSnapshot(t) ==
    LET kept == snapshotHistory \cup {t}
    IN IF t <= HistoryLimit THEN kept ELSE {u \in kept : u >= t - HistoryLimit}

\* A tick of the match loop stores its delta; the last one may end the match.
Tick ==
    /\ status = "running"
    /\ tickID < MaxTick
    /\ tickID' = tickID + 1
    /\ snapshotHistory' = storeSnapshot(tickID + 1)
    /\ status' \in {"running", "game_over"}
    /\ UNCHANGED <<joined, open, bound, lastSnapshotTick, send, sent, handler, dispatch,
                   store>>

-----------------------------------------------------------------------------
(* Sending *)

\* enqueueEnvelope succeeds.
Sends(c) == c \in open /\ Len(send[c]) < SendQueueDepth

\* unregisterConnection and the closed socket: what was queued and the client's session
\* are gone.
Unregister(c) ==
    /\ open' = open \ {c}
    /\ bound' = bound \ {c}
    /\ send' = [send EXCEPT ![c] = <<>>]
    /\ sent' = [sent EXCEPT ![c] = NothingSent]
    /\ store' = [store EXCEPT ![c] = EmptyStore]
    /\ lastSnapshotTick' = [lastSnapshotTick EXCEPT ![c] = 0]

\* The history after one more message.
Record(h, message) ==
    [ticks     |-> h.ticks \cup message.holds,
     newest    |-> IF message.tick > h.newest THEN message.tick ELSE h.newest,
     lastDelta |-> IF message.kind = "delta" THEN message.tick ELSE h.lastDelta,
     clean     |-> h.clean /\ (message.kind = "full" => message.tick >= h.newest)]

\* enqueueEnvelope: the message is queued; or the queue is full and the connection is
\* closed; or the channel is closed already and the panic recovered.
Enqueue(c, message) ==
    IF Sends(c)
    THEN /\ send' = [send EXCEPT ![c] = Append(@, message)]
         /\ sent' = [sent EXCEPT ![c] = Record(@, message)]
         /\ UNCHANGED <<open, bound, lastSnapshotTick, store>>
    ELSE Unregister(c)

\* Seeded fault: the cursor follows the last writer.
updateSnapshotCursor_Last(c, t) ==
    lastSnapshotTick' = [lastSnapshotTick EXCEPT ![c] = IF c \in open THEN t ELSE @]

updateSnapshotCursor(c, t) ==
    lastSnapshotTick' = [lastSnapshotTick EXCEPT ![c] = IF c \in open /\ t > @ THEN t ELSE @]

-----------------------------------------------------------------------------
(* The join handler of a connection *)

At(c, label) == handler[c].at = label

Goto(c, label) == handler' = [handler EXCEPT ![c].at = label]

\* JoinMatch while the match is a lobby, ResumePlayer of a player that reconnects
\* while it runs.
JoinOrResume(c) ==
    /\ At(c, "idle") /\ c \in open
    /\ status \in {"lobby", "running"}
    /\ joined' = joined \cup {c}
    /\ Goto(c, "joined")
    /\ UNCHANGED <<status, tickID, snapshotHistory, open, bound, lastSnapshotTick, send,
                   sent, dispatch, store>>

\* A spectator may join a match that it sees running.
JoinAsSpectator(c) ==
    /\ At(c, "idle") /\ c \in open
    /\ status = "running"
    /\ handler' = [handler EXCEPT ![c] = [Idle EXCEPT !.at = "spectating", !.spectator = TRUE]]
    /\ UNCHANGED <<match, open, bound, lastSnapshotTick, send, sent, dispatch, store>>

\* Its snapshot is taken before it is bound.
CaptureSpectator(c) ==
    /\ At(c, "spectating")
    /\ handler' = [handler EXCEPT ![c].full = FullSnapshot, ![c].at = "joined"]
    /\ UNCHANGED <<match, open, bound, lastSnapshotTick, send, sent, dispatch, store>>

\* bindConnection; nothing happens when the connection is gone.
bindConnection(c) ==
    /\ At(c, "joined")
    /\ bound' = IF c \in open THEN bound \cup {c} ELSE bound
    /\ lastSnapshotTick' = [lastSnapshotTick EXCEPT ![c] = IF c \in open THEN 0 ELSE @]
    /\ Goto(c, "bound")
    /\ UNCHANGED <<match, open, send, sent, dispatch, store>>

SendAccepted(c) ==
    /\ At(c, "bound")
    /\ Enqueue(c, Accepted)
    /\ Goto(c, IF handler[c].spectator THEN "captured" ELSE "accepted")
    /\ UNCHANGED <<match, dispatch>>

\* The player's full snapshot, taken after it is bound.
CaptureFull(c) ==
    /\ At(c, "accepted")
    /\ handler' = [handler EXCEPT ![c].full = FullSnapshot, ![c].at = "captured"]
    /\ UNCHANGED <<match, open, bound, lastSnapshotTick, send, sent, dispatch, store>>

SendFull(c) ==
    /\ At(c, "captured")
    /\ Enqueue(c, handler[c].full)
    /\ Goto(c, IF Sends(c) THEN "sent" ELSE "noted")
    /\ UNCHANGED <<match, dispatch>>

\* Seeded fault: the cursor is set to the match's tick, not the snapshot's.
NoteFull_CurrentTick(c) ==
    /\ At(c, "sent")
    /\ updateSnapshotCursor(c, tickID)
    /\ Goto(c, "noted")
    /\ UNCHANGED <<match, open, bound, send, sent, dispatch, store>>

NoteFull(c) ==
    /\ At(c, "sent")
    /\ updateSnapshotCursor(c, handler[c].full.tick)
    /\ Goto(c, "noted")
    /\ UNCHANGED <<match, open, bound, send, sent, dispatch, store>>

\* The spectator's game_start repeats its snapshot.
SendSpectatorStart(c) ==
    /\ At(c, "noted") /\ handler[c].spectator
    /\ Enqueue(c, handler[c].full)
    /\ handler' = [handler EXCEPT ![c] = Done]
    /\ UNCHANGED <<match, dispatch>>

\* maybeAutoStartMatch: StartMatch succeeds in a lobby with enough players.
AutoStart(c) ==
    /\ At(c, "noted") /\ ~handler[c].spectator
    /\ IF status = "lobby" /\ Cardinality(joined) >= MinPlayers
       THEN /\ status' = "running"
            /\ snapshotHistory' = {0}
            /\ Goto(c, "started")
       ELSE /\ UNCHANGED <<status, snapshotHistory>>
            /\ handler' = [handler EXCEPT ![c] = Done]
    /\ UNCHANGED <<tickID, joined, open, bound, lastSnapshotTick, send, sent, dispatch,
                   store>>

CaptureStart(c) ==
    /\ At(c, "started")
    /\ handler' = [handler EXCEPT ![c].full = FullSnapshot, ![c].at = "listing"]
    /\ UNCHANGED <<match, open, bound, lastSnapshotTick, send, sent, dispatch, store>>

\* The handler with these connections left to send game_start to.
Broadcasting(h, targets) ==
    IF targets = {} THEN Done ELSE [h EXCEPT !.targets = targets, !.at = "starting"]

\* connectionsForMatch
ListTargets(c) ==
    /\ At(c, "listing")
    /\ handler' = [handler EXCEPT ![c] = Broadcasting(@, bound)]
    /\ UNCHANGED <<match, open, bound, lastSnapshotTick, send, sent, dispatch, store>>

\* The target whose turn it is, in the order of the connection ids.
NextTarget(targets) == CHOOSE d \in targets : \A e \in targets : d <= e

SendStart(c) ==
    /\ At(c, "starting")
    /\ LET d    == NextTarget(handler[c].targets)
           rest == handler[c].targets \ {d}
       IN /\ Enqueue(d, handler[c].full)
          /\ handler' = IF Sends(d)
                        THEN [handler EXCEPT ![c].at = "start_sent"]
                        ELSE [handler EXCEPT ![c] = Broadcasting(@, rest)]
    /\ UNCHANGED <<match, dispatch>>

NoteStart(c) ==
    /\ At(c, "start_sent")
    /\ LET d    == NextTarget(handler[c].targets)
           rest == handler[c].targets \ {d}
       IN /\ updateSnapshotCursor(d, handler[c].full.tick)
          /\ handler' = [handler EXCEPT ![c] = Broadcasting(@, rest)]
    /\ UNCHANGED <<match, open, bound, send, sent, dispatch, store>>

-----------------------------------------------------------------------------
(* The dispatch loop *)

\* The targets and their cursors, under the read lock.
DispatchBegin ==
    /\ dispatch.at = "idle"
    /\ bound # {}
    /\ dispatch' = [NoDispatch EXCEPT !.at = "next",
                       !.targets = {<<c, lastSnapshotTick[c]>> : c \in bound}]
    /\ UNCHANGED <<match, open, bound, lastSnapshotTick, send, sent, handler, store>>

\* The loop over the targets that are left.
DispatchNext(targets) ==
    IF targets = {} THEN NoDispatch ELSE [NoDispatch EXCEPT !.at = "next", !.targets = targets]

\* SnapshotsSince(cursor) of the next target; targets with nothing new are passed over.
DispatchFetch ==
    /\ dispatch.at = "next"
    /\ \E target \in dispatch.targets :
          LET ticks == {t \in snapshotHistory : t > target[2]}
              rest  == dispatch.targets \ {target}
          IN dispatch' = IF ticks = {} THEN DispatchNext(rest)
                         ELSE [at |-> "sending", targets |-> rest, conn |-> target[1],
                               cursor |-> target[2], latest |-> target[2], ticks |-> ticks]
    /\ UNCHANGED <<match, open, bound, lastSnapshotTick, send, sent, handler, store>>

\* The fetched deltas in tick order, up to the first send that fails.
DispatchSend ==
    /\ dispatch.at = "sending" /\ dispatch.ticks # {}
    /\ LET t == CHOOSE x \in dispatch.ticks : \A y \in dispatch.ticks : x <= y
       IN /\ Enqueue(dispatch.conn, Delta(t))
          /\ dispatch' = IF Sends(dispatch.conn)
                         THEN [dispatch EXCEPT !.ticks = @ \ {t}, !.latest = t]
                         ELSE [dispatch EXCEPT !.ticks = {}]
    /\ UNCHANGED <<match, handler>>

DispatchNote ==
    /\ dispatch.at = "sending" /\ dispatch.ticks = {}
    /\ IF dispatch.latest > dispatch.cursor
       THEN updateSnapshotCursor(dispatch.conn, dispatch.latest)
       ELSE UNCHANGED lastSnapshotTick
    /\ dispatch' = DispatchNext(dispatch.targets)
    /\ UNCHANGED <<match, open, bound, send, sent, handler, store>>

-----------------------------------------------------------------------------
(* The network and the client *)

\* The next queued message reaches the client.
Deliver(c) ==
    /\ send[c] # <<>>
    /\ send' = [send EXCEPT ![c] = Tail(@)]
    /\ store' = [store EXCEPT ![c] = ApplySnapshot(@, Head(send[c]))]
    /\ UNCHANGED <<match, open, bound, lastSnapshotTick, sent, handler, dispatch>>

\* unregisterConnection: the socket failed, or the player's session was rebound.
Disconnect(c) ==
    /\ c \in open
    /\ Unregister(c)
    /\ UNCHANGED <<match, handler, dispatch>>

Handle(c) ==
    \/ JoinOrResume(c) \/ JoinAsSpectator(c) \/ CaptureSpectator(c)
    \/ bindConnection(c) \/ SendAccepted(c) \/ CaptureFull(c) \/ SendFull(c) \/ NoteFull(c)
    \/ SendSpectatorStart(c)
    \/ AutoStart(c) \/ CaptureStart(c) \/ ListTargets(c)
    \/ SendStart(c) \/ NoteStart(c)

Dispatch == DispatchBegin \/ DispatchFetch \/ DispatchSend \/ DispatchNote

Next ==
    \/ Tick
    \/ \E c \in Handlers : Handle(c)
    \/ \E c \in Conns : Deliver(c) \/ Disconnect(c)
    \/ Dispatch

Spec == Init /\ [][Next]_vars

\* The dispatch ticker fires again and again, a started handler goes on, and a
\* connection that stays open delivers what it was given.
FairSpec ==
    /\ Spec
    /\ WF_vars(Dispatch)
    /\ \A c \in Handlers : WF_vars(~At(c, "idle") /\ Handle(c))
    /\ \A c \in Conns : WF_vars(Deliver(c))

-----------------------------------------------------------------------------
(* Properties *)

\* The cursor never passes a snapshot that was not sent: the handlers and the dispatch
\* loop, which all move it, leave no tick out but those the history had dropped.
CursorSkipsNothing ==
    \A c \in bound : \A t \in 1 .. lastSnapshotTick[c] :
        t \in sent[c].ticks \/ t \notin snapshotHistory

\* The deltas put on one connection are in tick order and none is repeated, however
\* the handlers' cursor updates and the dispatch loop's interleave.
DeltasInOrder ==
    [][\A c \in Conns : Len(send'[c]) > Len(send[c]) =>
          LET message == send'[c][Len(send'[c])]
          IN message.kind = "delta" => message.tick > sent[c].lastDelta]_vars

\* Where no full snapshot is overtaken by a later one, the client's state has every
\* change up to its tick, and none beyond it, but for those the history had dropped
\* before they were sent and for what a game_start still on its way brings.
CleanClientIsExact ==
    \A c \in Conns :
        sent[c].clean =>
            /\ store[c].holds \subseteq 0 .. store[c].tick
            /\ \A t \in 1 .. store[c].tick : t \in store[c].holds \/ t \notin snapshotHistory

\* A client that stays connected and had a clean stream catches up with every tick.
CleanClientCatchesUp ==
    \A c \in Conns, k \in 1 .. MaxTick :
        (c \in bound /\ tickID = k)
            ~> (c \notin open \/ ~sent[c].clean \/ store[c].tick >= k)

\* "Clients can receive ordered, tick-tagged delta snapshots each server tick" (t-009):
\* a client that stays connected gets to the last tick, the one with the outcome.
ClientSeesOutcome ==
    \A c \in Conns :
        (c \in bound /\ status = "game_over") ~> (c \notin open \/ store[c].tick = tickID)

-----------------------------------------------------------------------------
(* The inductive strengthening *)

\* The full snapshots taken so far: of the lobby, or of all changes up to a tick.
Fulls ==
    {[kind |-> "full", tick |-> t, holds |-> 0 .. t] : t \in 0 .. tickID}
        \cup {[kind |-> "full", tick |-> 0, holds |-> {}]}

Deltas == {Delta(t) : t \in 1 .. tickID}

Messages == Fulls \cup Deltas \cup {Accepted, EmptyStore}

Stores == [kind : {"full", "none"}, tick : 0 .. tickID, holds : SUBSET (0 .. tickID)]

Labels ==
    {"idle", "spectating", "joined", "bound", "accepted", "captured", "sent", "noted", "started",
     "listing", "starting", "start_sent", "done"}

NetTypeOK ==
    /\ open \subseteq Conns /\ bound \subseteq open
    /\ lastSnapshotTick \in [Conns -> 0 .. tickID]
    /\ send \in [Conns -> Seq(Messages)]
    /\ sent \in [Conns -> [ticks : SUBSET (0 .. tickID), newest : 0 .. tickID,
                           lastDelta : 0 .. tickID, clean : BOOLEAN]]
    /\ store \in [Conns -> Stores]

StreamTypeOK ==
    /\ status \in {"lobby", "running", "game_over"}
    /\ tickID \in Nat /\ (status = "lobby" => tickID = 0)
    /\ snapshotHistory \subseteq 0 .. tickID
    /\ NetTypeOK
    /\ handler \in [Handlers -> [at : Labels, full : Fulls \cup {EmptyStore},
                                 targets : SUBSET Conns, spectator : BOOLEAN]]
    /\ dispatch \in [at : {"idle", "next", "sending"}, targets : SUBSET (Conns \X (0 .. tickID)),
                     conn : Conns \cup {0}, cursor : 0 .. tickID, latest : 0 .. tickID,
                     ticks : SUBSET (0 .. tickID)]

\* The full snapshot f has been queued on c, if c is still there.
Carried(f, c) == c \in open => f.holds \subseteq sent[c].ticks

\* What is known of a connection's handler, from where it is.
HandlerInv(c, h) ==
    /\ c = OtherConn => /\ ~h.spectator
                        /\ h.at \in {"noted", "started", "listing", "starting", "start_sent", "done"}
    /\ h.at \in {"idle", "spectating", "joined"} => c \notin bound
    /\ h.at = "sent" => Carried(h.full, c)
    /\ h.at \in {"starting", "start_sent"} => h.targets # {}
    /\ h.at = "start_sent" => Carried(h.full, NextTarget(h.targets))

\* Nothing up to tick t is left out on c.
NoneLeftOut(c, t) == \A u \in 1 .. t : u \in sent[c].ticks \/ u \notin snapshotHistory

SendingTo(c) == dispatch.at = "sending" /\ dispatch.conn = c

\* A target the dispatch loop has left: its cursor may be old, but no delta is later.
TargetInv(target) ==
    /\ target[1] \in open => /\ target[1] \in bound
                             /\ sent[target[1]].lastDelta <= target[2]
                             /\ target[2] <= lastSnapshotTick[target[1]]
    /\ ~SendingTo(target[1])
    /\ \A other \in dispatch.targets : other[1] = target[1] => other = target

\* The target it is at: the deltas fetched leave out nothing that the history still has.
SendingInv ==
    /\ dispatch.conn \in Conns
    /\ dispatch.cursor <= dispatch.latest
    /\ \A t \in dispatch.ticks :
          /\ t > dispatch.latest
          /\ \A u \in snapshotHistory : dispatch.latest < u /\ u < t => u \in dispatch.ticks
    /\ dispatch.conn \in open => /\ dispatch.conn \in bound
                                 /\ sent[dispatch.conn].lastDelta <= dispatch.latest
                                 /\ dispatch.cursor <= lastSnapshotTick[dispatch.conn]
                                 /\ NoneLeftOut(dispatch.conn, dispatch.latest)

DispatchInv ==
    /\ \A target \in dispatch.targets : TargetInv(target)
    /\ dispatch.at = "sending" => SendingInv
    /\ \A c \in Conns : SendingTo(c) \/ sent[c].lastDelta <= lastSnapshotTick[c]

\* A client with state s has a snapshot to build on when message i of queue q arrives.
Based(q, s, i) == s # EmptyStore \/ \E j \in 1 .. i - 1 : q[j].kind = "full"

\* It has been brought to tick u by then.
Reached(q, s, i, u) == u <= s.tick \/ \E j \in 1 .. i - 1 : u <= q[j].tick

\* What is under way to a client with a clean stream: every full snapshot is as late as
\* all before it, and no delta leaves a gap that the history H could fill.
QueueInv(q, s, newest, H) ==
    /\ s.tick <= newest
    /\ \A i \in 1 .. Len(q) : q[i].tick <= newest
    /\ Based(q, s, Len(q) + 1) => Reached(q, s, Len(q) + 1, newest)
    /\ \A i \in 1 .. Len(q) : q[i].kind = "full" =>
          s.tick <= q[i].tick /\ \A j \in 1 .. i - 1 : q[j].tick <= q[i].tick
    /\ \A i \in 1 .. Len(q) : q[i].kind = "delta" /\ Based(q, s, i) =>
          \A u \in H : u < q[i].tick => Reached(q, s, i, u)

Exact(s, H) ==
    s.holds \subseteq 0 .. s.tick /\ \A t \in 1 .. s.tick : t \in s.holds \/ t \notin H

ConnInv(c) ==
    /\ sent[c].ticks \subseteq 0 .. sent[c].newest
    /\ c \notin bound => sent[c].lastDelta = 0
    /\ c \in bound => NoneLeftOut(c, lastSnapshotTick[c])
    /\ sent[c].clean => /\ QueueInv(send[c], store[c], sent[c].newest, snapshotHistory)
                        /\ Exact(store[c], snapshotHistory)

StreamInv ==
    /\ StreamTypeOK
    /\ \A c \in Handlers : HandlerInv(c, handler[c])
    /\ DispatchInv
    /\ \A c \in Conns : ConnInv(c)

=============================================================================
