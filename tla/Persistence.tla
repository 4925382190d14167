---------------------------- MODULE Persistence ----------------------------
(***************************************************************************)
(* Accounts, statistics and match history                                  *)
(* (internal/server/persistence/store.go), as the match manager uses them  *)
(* (manager.go: JoinMatch, ResumePlayer, the loop's game over) and as      *)
(* cmd/server opens them.                                                  *)
(*                                                                         *)
(* The manager calls the store under its own lock, so one call runs at a   *)
(* time.  A call changes the data in memory and then writes all of it to   *)
(* disk: the temporary file, the removal of the old file, the renaming.    *)
(* Each of these steps may fail, and the server may crash between any two  *)
(* of them and be started again.                                           *)
(*                                                                         *)
(* Names and timestamps of accounts are left out; how a player fared in a  *)
(* match is one of four outcomes (MatchesEscaped is counted like           *)
(* MatchesWon).                                                            *)
(***************************************************************************)
EXTENDS Integers, FiniteSets

CONSTANTS
    PlayerIDs,
    MaxMatchHistory,  \* config.MaxMatchHistory; 0 means no cap
    MaxMatches,       \* bound: matches one run of the server plays
    MaxRuns,          \* bound: how often the server is started
    MaxTime           \* bound: the clock

ASSUME StoreAssumption ==
    /\ IsFiniteSet(PlayerIDs) /\ MaxMatchHistory \in Nat
    /\ MaxMatches \in Nat /\ MaxRuns \in Nat /\ MaxTime \in Nat

VARIABLES
    run,       \* how often the server has been started
    up,        \* the server process is running
    data,      \* store.data: accounts and matches
    file,      \* the file at store.path
    tmp,       \* the temporary file: "absent", "partial" or "complete"
    step,      \* where persistLocked is; "idle" outside it
    call,      \* the call it works for: "open", "upsert" or "record"
    failed,    \* the last persistLocked returned an error
    played,    \* ids of the matches this run of the server has recorded
    now        \* the clock

storeVars == <<run, up, data, file, tmp, step, call, failed, played, now>>

-----------------------------------------------------------------------------
(* Records and statistics *)

Outcomes == {"absent", "won", "survived", "died"}

NoAccount == [played |-> -1, won |-> -1, survived |-> -1, deaths |-> -1]

EmptyStats == [played |-> 0, won |-> 0, survived |-> 0, deaths |-> 0]

EmptyData == [accounts |-> [p \in PlayerIDs |-> NoAccount], matches |-> {}]

\* A file that is not there, one that is half written, and one that is whole.
Absent == [state |-> "absent", content |-> EmptyData]

Partial == [state |-> "partial", content |-> EmptyData]

Whole(content) == [state |-> "whole", content |-> content]

\* sortMatchesLocked: newest first, then the larger id.
SortsBefore(r, s) == \/ r.endedAt > s.endedAt
                     \/ r.endedAt = s.endedAt /\ r.id > s.id

\* enforceHistoryCapLocked on the sorted history.
enforceHistoryCap(matches) ==
    IF MaxMatchHistory = 0 \/ Cardinality(matches) <= MaxMatchHistory THEN matches
    ELSE {r \in matches : Cardinality({s \in matches : SortsBefore(s, r)}) < MaxMatchHistory}

\* The matches with one more record; a record with the same id is replaced.
Upserted(matches, record) == {r \in matches : r.id # record.id} \cup {record}

\* recomputeStatsLocked: every account counted anew from the history, and an account
\* for everyone in it.
recomputeStats(accounts, matches) ==
    [p \in PlayerIDs |->
        LET mine      == {r \in matches : r.players[p] # "absent"}
            Fared(os) == Cardinality({r \in mine : r.players[p] \in os})
        IN IF mine = {}
           THEN IF accounts[p] = NoAccount THEN NoAccount ELSE EmptyStats
           ELSE [played   |-> Cardinality(mine),
                 won      |-> Fared({"won"}),
                 survived |-> Fared({"won", "survived"}),
                 deaths   |-> Fared({"died"})]]

\* Seeded fault: the statistics still count the records the cap has dropped.
Settled_StatsFirst(accounts, matches) ==
    [accounts |-> recomputeStats(accounts, matches), matches |-> enforceHistoryCap(matches)]

\* What Open and RecordMatch do to the history before they write it.
Settled(accounts, matches) ==
    LET kept == enforceHistoryCap(matches)
    IN [accounts |-> recomputeStats(accounts, kept), matches |-> kept]

-----------------------------------------------------------------------------
(* The server process *)

StoreInit ==
    /\ run = 0
    /\ up = FALSE
    /\ data = EmptyData
    /\ file = Absent
    /\ tmp = "absent"
    /\ step = "idle"
    /\ call = "open"
    /\ failed = FALSE
    /\ played = {}
    /\ now = 0

\* cmd/server starts: Open reads the file (a file that is not there is an empty store),
\* settles it and begins to write it back.
Open ==
    /\ ~up
    /\ run < MaxRuns
    /\ run' = run + 1
    /\ up' = TRUE
    /\ data' = Settled(file.content.accounts, file.content.matches)
    /\ step' = "write"
    /\ call' = "open"
    /\ played' = {}
    /\ UNCHANGED <<file, tmp, failed, now>>

Ready == up /\ step = "idle"

\* JoinMatch and ResumePlayer.
UpsertAccount(p) ==
    /\ Ready
    /\ data' = [data EXCEPT !.accounts[p] = IF @ = NoAccount THEN EmptyStats ELSE @]
    /\ step' = "write"
    /\ call' = "upsert"
    /\ UNCHANGED <<run, up, file, tmp, failed, played, now>>

\* The game over of a match, once per match; the manager ignores the result.  The ids
\* of a run of the server start from match-000001 again.
RecordMatch(id, outcome, endedAt) ==
    /\ Ready
    /\ id \notin played
    /\ LET record == [id |-> id, endedAt |-> endedAt, players |-> outcome]
       IN data' = Settled(data.accounts, Upserted(data.matches, record))
    /\ played' = played \cup {id}
    /\ now' = endedAt
    /\ step' = "write"
    /\ call' = "record"
    /\ UNCHANGED <<run, up, file, tmp, failed>>

-----------------------------------------------------------------------------
(* persistLocked *)

\* Its return; the server does not start when Open fails.
Returns(error) ==
    /\ step' = "idle"
    /\ failed' = error
    /\ up' = ~(error /\ call = "open")

\* Seeded fault: the file itself is written over.
BeginWrite_InPlace ==
    /\ step = "write"
    /\ file' = Partial
    /\ step' = "written"
    /\ UNCHANGED <<up, tmp, failed>>

\* os.WriteFile creates or truncates the temporary file...
BeginWrite ==
    /\ step = "write"
    /\ tmp' = "partial"
    /\ step' = "written"
    /\ UNCHANGED <<up, file, failed>>

\* ...and writes all of it, or fails half way.
EndWrite ==
    /\ step = "written"
    /\ \/ tmp' = "complete" /\ step' = "remove" /\ UNCHANGED <<up, failed>>
       \/ tmp' = tmp /\ Returns(TRUE)
    /\ UNCHANGED file

RemoveOld ==
    /\ step = "remove"
    /\ \/ file' = Absent /\ step' = "rename" /\ UNCHANGED <<up, tmp, failed>>
       \/ file' = file /\ tmp' = "absent" /\ Returns(TRUE)

\* Seeded fault: the new file stays under its temporary name.
RenameNew_Skipped ==
    /\ step = "rename"
    /\ Returns(FALSE)
    /\ UNCHANGED <<file, tmp>>

\* A failed rename leaves neither file.
RenameNew ==
    /\ step = "rename"
    /\ tmp' = "absent"
    /\ \/ file' = Whole(data) /\ Returns(FALSE)
       \/ file' = file /\ Returns(TRUE)

persist ==
    /\ BeginWrite \/ EndWrite \/ RemoveOld \/ RenameNew
    /\ UNCHANGED <<run, data, call, played, now>>

\* The process is gone, wherever it was.
Crash ==
    /\ up
    /\ up' = FALSE
    /\ step' = "idle"
    /\ data' = EmptyData
    /\ UNCHANGED <<run, file, tmp, call, failed, played, now>>

StoreNext ==
    \/ Open
    \/ \E p \in PlayerIDs : UpsertAccount(p)
    \/ \E id \in 1 .. MaxMatches, outcome \in [PlayerIDs -> Outcomes],
          endedAt \in {now, now + 1} \cap (0 .. MaxTime) : RecordMatch(id, outcome, endedAt)
    \/ persist
    \/ Crash

StoreSpec == StoreInit /\ [][StoreNext]_storeVars

-----------------------------------------------------------------------------
(* Properties *)

\* The accounts and statistics of a content are those of its history.
Consistent(content) ==
    \A p \in PlayerIDs :
        LET mine == {r \in content.matches : r.players[p] # "absent"}
            acct == content.accounts[p]
        IN IF acct = NoAccount THEN mine = {}
           ELSE /\ acct.played = Cardinality(mine)
                /\ acct.survived + acct.deaths = acct.played
                /\ acct.won = Cardinality({r \in mine : r.players[p] = "won"})
                /\ acct.deaths = Cardinality({r \in mine : r.players[p] = "died"})

\* Whatever was loaded, replaced and capped, the statistics in memory are those of the
\* history in memory.
StatsFollowHistory == Consistent(data)

\* Wherever the server crashed or a step failed, the file the next Open reads is not
\* there or is a whole and consistent content.
FileNeverTorn == file = Absent \/ (file.state = "whole" /\ Consistent(file.content))

\* Between calls, the file holds what the memory holds, unless the last write failed.
MemoryIsDurable == Ready /\ ~failed => file = Whole(data)

\* The history in memory has at most as many records as the configuration allows, and
\* one for a match id, after every load, replacement and addition (RecordMatch,
\* enforceHistoryCapLocked on the sorted history).
HistoryWithinCap ==
    /\ \A r, s \in data.matches : r.id = s.id => r = s
    /\ MaxMatchHistory # 0 => Cardinality(data.matches) <= MaxMatchHistory

-----------------------------------------------------------------------------
(* The inductive strengthening *)

Stats == [played : Int, won : Int, survived : Int, deaths : Int]

Records == [id : 1 .. MaxMatches, endedAt : 0 .. MaxTime, players : [PlayerIDs -> Outcomes]]

Contents == [accounts : [PlayerIDs -> Stats], matches : SUBSET Records]

StoreTypeOK ==
    /\ run \in 0 .. MaxRuns /\ up \in BOOLEAN
    /\ data \in Contents /\ IsFiniteSet(data.matches)
    /\ file \in [state : {"absent", "whole"}, content : Contents]
    /\ IsFiniteSet(file.content.matches)
    /\ tmp \in {"absent", "partial", "complete"}
    /\ step \in {"idle", "write", "written", "remove", "rename"}
    /\ call \in {"open", "upsert", "record"}
    /\ failed \in BOOLEAN
    /\ played \subseteq 1 .. MaxMatches
    /\ now \in 0 .. MaxTime

\* The steps of persistLocked: only a server that is up writes, the old file is removed
\* once its successor is complete, and is gone when that is renamed.
WritingInv ==
    /\ step # "idle" => up
    /\ step \in {"remove", "rename"} => tmp = "complete"
    /\ step = "rename" => file = Absent

\* A file, too, has one record for a match id.
FileIdsUnique == \A r, s \in file.content.matches : r.id = s.id => r = s

StoreInv ==
    /\ StoreTypeOK /\ WritingInv /\ HistoryWithinCap /\ FileIdsUnique
    /\ StatsFollowHistory /\ FileNeverTorn /\ MemoryIsDurable

=============================================================================
