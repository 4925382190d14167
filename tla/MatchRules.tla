----------------------------- MODULE MatchRules -----------------------------
(***************************************************************************)
(* The rules of a running match: the day and night clock (gamecore/phase), *)
(* damage, lives and respawns (gamecore/combat, manager.go), the alarm and *)
(* its guards (gamecore/prison), the succession of the gang leader         *)
(* (gamecore/roles), escapes, and the evaluation of the outcome            *)
(* (gamecore/winconditions).                                               *)
(*                                                                         *)
(* A tick of runMatchLoop runs under the manager's lock: the commands of   *)
(* the tick one after the other, then succession, expiries and guards,     *)
(* then the phase transitions, then the outcome.  Each is a step here, and *)
(* the state at stage "idle" is the one clients are sent.                  *)
(*                                                                         *)
(* A room is one of three kinds: an ordinary one, a restricted one, and    *)
(* the room "escaped".  Weapons, cards and routes are inputs: what a       *)
(* player carries is left out, and so are abilities other than the alarm,  *)
(* and the cell that a solitary player is locked in.                       *)
(***************************************************************************)
EXTENDS Integers, FiniteSets

CONSTANTS
    Players,
    Assignment,        \* roles.Assign: the role of every player at the start
    MaxHearts,         \* half hearts of a player in full health
    DefaultLives,      \* combat.DefaultPlayerLives
    ArmorHearts,       \* half hearts of an armor plate
    MorphineHearts,    \* half hearts that morphine heals
    Damages,           \* half hearts that a shiv or a shot takes
    GuardDamage,       \* prison.GuardShotDamageHalf
    DayTicks,          \* phase.Config.DayDurationTicks
    NightTicks,        \* phase.Config.NightDurationTicks
    MaxCycles,
    TickRate,          \* ticks per second
    StunTicks,         \* combat.BatonStunDurationTicks
    AlarmTicks,        \* prison.AlarmDurationTicks
    GuardInterval,     \* prison.GuardShotIntervalTicks
    MaxCommands,       \* bound: commands of one match
    MaxTick            \* bound: the clock

Gang == {"leader", "member"}

Prisoners == Gang \cup {"snitch", "neutral"}

\* A corrupt deputy is one of evil alignment.
Authority == {"warden", "deputy", "corrupt"}

Roles == Prisoners \cup Authority

\* Every template of roles.Assign from three players on has one warden and one leader.
ASSUME RulesAssumption ==
    /\ IsFiniteSet(Players)
    /\ Assignment \in [Players -> Roles]
    /\ \E p \in Players : Assignment[p] = "warden"
    /\ \E p \in Players : Assignment[p] = "leader"
    /\ \A p, q \in Players : Assignment[p] = Assignment[q]
                                /\ Assignment[p] \in {"warden", "leader"} => p = q
    /\ Damages \subseteq Nat \ {0}
    /\ {MaxHearts, DefaultLives, ArmorHearts, MorphineHearts, GuardDamage, DayTicks,
        NightTicks, MaxCycles, TickRate, StunTicks, AlarmTicks, GuardInterval}
          \subseteq Nat \ {0}
    /\ MaxCommands \in Nat /\ MaxTick \in Nat

VARIABLES
    stage,       \* "idle", "commands", "phase" or "over"
    tick,
    handled,     \* commands applied so far
    players,     \* gameState.Players
    phase,
    cycle,
    alarm,       \* Alarm.EndsTick while the alarm is active, 0 otherwise
    alarmUsed,   \* the day (its first tick) the alarm was last used on
    lastShot,    \* guardLastShotTick
    outcome,     \* gameState.GameOver
    breakout     \* history: a gang leader's escape succeeded in this tick

vars == <<stage, tick, handled, players, phase, cycle, alarm, alarmUsed, lastShot,
          outcome, breakout>>

world == <<phase, cycle, outcome>>

-----------------------------------------------------------------------------
(* Players *)

Smaller(a, b) == IF a < b THEN a ELSE b

Larger(a, b) == IF a < b THEN b ELSE a

RespawnRoom(role) == IF role \in Prisoners THEN "open" ELSE "restricted"

\* The rooms that a player's position can be in; "escaped" is no place.  A prisoner too may
\* walk into a restricted room: a step into the room that an interaction has set as the
\* current one is not checked again (module PrisonSystems has who may enter which).
PhysicalRooms == {"open", "restricted"}

NewPlayer(role) ==
    [role |-> role, alive |-> TRUE, hearts |-> MaxHearts, temp |-> 0,
     lives |-> DefaultLives, room |-> RespawnRoom(role), stunned |-> 0, solitary |-> 0,
     armor |-> 0]

\* Its first branch is not reached: who is hit has a life to lose.
consumeLifeAndRespawn(q) ==
    LET left == (IF q.lives = 0 THEN DefaultLives ELSE q.lives) - 1
    IN IF left = 0 THEN [q EXCEPT !.lives = 0]
       ELSE [NewPlayer(q.role) EXCEPT !.lives = left]

\* Temporary hearts go first.
ApplyDamage(q, damage) ==
    LET fromTemp   == Smaller(damage, q.temp)
        fromHealth == Smaller(damage - fromTemp, q.hearts)
        dies       == fromHealth = q.hearts
    IN [q EXCEPT !.temp = @ - fromTemp, !.hearts = @ - fromHealth, !.alive = ~dies,
                 !.stunned = IF dies THEN 0 ELSE @]

Hit(q, damage) ==
    LET r == ApplyDamage(q, damage) IN IF r.alive THEN r ELSE consumeLifeAndRespawn(r)

IsActionBlocked(q) == ~q.alive \/ tick <= q.stunned \/ tick <= q.solitary

-----------------------------------------------------------------------------
(* The match starts *)

Init ==
    /\ stage = "idle"
    /\ tick = 0
    /\ handled = 0
    /\ players = [p \in Players |-> NewPlayer(Assignment[p])]
    /\ phase = [current |-> "day", started |-> 1, ends |-> 1 + DayTicks]
    /\ cycle = 0
    /\ alarm = 0
    /\ alarmUsed = 0
    /\ lastShot = [p \in Players |-> 0]
    /\ outcome = [reason |-> "none", winners |-> {}]
    /\ breakout = FALSE

BeginTick ==
    /\ stage = "idle"
    /\ tick < MaxTick
    /\ tick' = tick + 1
    /\ stage' = "commands"
    /\ breakout' = FALSE
    /\ UNCHANGED <<handled, players, alarm, alarmUsed, lastShot, world>>

-----------------------------------------------------------------------------
(* Commands *)

CommandOf(p) ==
    /\ stage = "commands"
    /\ handled < MaxCommands
    /\ handled' = handled + 1
    /\ UNCHANGED <<stage, tick, world>>

\* Aiming and cards are the commands of a player who is blocked too.
ActionOf(p) == CommandOf(p) /\ ~IsActionBlocked(players[p])

\* A move intent, a null one too, sets the room to that of the position.
Move(p, room) ==
    /\ ActionOf(p)
    /\ room \in PhysicalRooms
    /\ players' = [players EXCEPT ![p].room = room]
    /\ UNCHANGED <<alarm, alarmUsed, lastShot, breakout>>

\* An interaction with a room; the layout knows no way from "escaped".
EnterRoom(p, room) ==
    /\ ActionOf(p)
    /\ players[p].room # "escaped"
    /\ players' = [players EXCEPT ![p].room = room]
    /\ UNCHANGED <<alarm, alarmUsed, lastShot, breakout>>

\* An interaction with an escape route whose requirements are met.
Escape(p) ==
    /\ ActionOf(p)
    /\ players[p].role \in Prisoners
    /\ players[p].room # "escaped"
    /\ players' = [players EXCEPT ![p].room = "escaped"]
    /\ breakout' = (breakout \/ players[p].role = "leader")
    /\ UNCHANGED <<alarm, alarmUsed, lastShot>>

\* The baton stuns and pushes; the push sets the room to that of the position.
FireBaton(p, target, room) ==
    /\ ActionOf(p)
    /\ target # p /\ players[target].alive
    /\ room \in PhysicalRooms
    /\ players' = [players EXCEPT ![target].room = room,
                                  ![target].stunned = Larger(@, tick + StunTicks)]
    /\ UNCHANGED <<alarm, alarmUsed, lastShot, breakout>>

\* combat.IsUnjustAuthorityShot and ApplyUnjustShotPenalty; exempt: the weapon is no
\* firearm, the power is off, or the target carries a weapon or a tool.
Penalised(q, target, exempt) ==
    IF /\ q.role \in Authority /\ ~exempt /\ target.room # "restricted"
       /\ phase.current = "day" /\ tick < phase.ends
    THEN [q EXCEPT !.solitary = Larger(@, phase.ends - 1)]
    ELSE q

\* Any other weapon.
FireWeapon(p, target, damage, exempt) ==
    /\ ActionOf(p)
    /\ target # p /\ players[target].alive
    /\ players' = [players EXCEPT ![target] = Hit(@, damage),
                                  ![p] = Penalised(@, players[target], exempt)]
    /\ UNCHANGED <<alarm, alarmUsed, lastShot, breakout>>

\* Seeded fault: whoever has hearts again is alive again.
UseMorphine_Revives(p) ==
    /\ CommandOf(p)
    /\ players[p].hearts < MaxHearts
    /\ players' = [players EXCEPT ![p].hearts = Smaller(MaxHearts, @ + MorphineHearts),
                                  ![p].alive = TRUE]
    /\ UNCHANGED <<alarm, alarmUsed, lastShot, breakout>>

\* The dead may use it, to no avail.
UseMorphine(p) ==
    /\ CommandOf(p)
    /\ players[p].hearts < MaxHearts
    /\ players' = [players EXCEPT ![p].hearts = Smaller(MaxHearts, @ + MorphineHearts)]
    /\ UNCHANGED <<alarm, alarmUsed, lastShot, breakout>>

\* It lasts to the end of the phase, or a second in the tick that ends it.
UseArmorPlate(p) ==
    /\ CommandOf(p)
    /\ LET until == IF phase.ends <= tick THEN tick + TickRate ELSE phase.ends
       IN players' = [players EXCEPT ![p].temp = Larger(@, ArmorHearts),
                                     ![p].armor = Larger(@, until)]
    /\ players' # players
    /\ UNCHANGED <<alarm, alarmUsed, lastShot, breakout>>

UseGetOutOfJail(p) ==
    /\ CommandOf(p)
    /\ players[p].solitary # 0
    /\ players' = [players EXCEPT ![p].solitary = 0]
    /\ UNCHANGED <<alarm, alarmUsed, lastShot, breakout>>

\* The warden's, by day and once a day.
TriggerAlarm(p) ==
    /\ ActionOf(p)
    /\ players[p].role = "warden"
    /\ phase.current = "day"
    /\ alarmUsed # phase.started
    /\ alarm' = tick + AlarmTicks
    /\ alarmUsed' = phase.started
    /\ UNCHANGED <<players, lastShot, breakout>>

Command(p) ==
    \/ \E room \in {"open", "restricted"} : Move(p, room) \/ EnterRoom(p, room)
    \/ Escape(p)
    \/ \E target \in Players :
          \/ \E room \in {"open", "restricted"} : FireBaton(p, target, room)
          \/ \E damage \in Damages, exempt \in BOOLEAN :
                FireWeapon(p, target, damage, exempt)
    \/ UseMorphine(p)
    \/ UseArmorPlate(p)
    \/ UseGetOutOfJail(p)
    \/ TriggerAlarm(p)

-----------------------------------------------------------------------------
(* After the commands *)

\* Seeded fault: a leader who has died still counts.
HasLeader_DeadToo(ps) == \E p \in Players : ps[p].role = "leader"

HasLeader(ps) == \E p \in Players : ps[p].role = "leader" /\ ps[p].alive

\* Seeded fault: the dead leader keeps the role.
Promoted_KeepsDead(ps, successor) == [ps EXCEPT ![successor].role = "leader"]

\* The successor leads, and a dead leader is a member.
Promoted(ps, successor) ==
    [p \in Players |->
        [ps[p] EXCEPT !.role = IF p = successor THEN "leader"
                               ELSE IF @ = "leader" THEN "member" ELSE @]]

Eligible(ps) == {p \in Players : ps[p].role = "member" /\ ps[p].alive}

\* The players a succession leads to: the successor is drawn by a hash.
ApplyGangLeaderSuccession(ps) ==
    IF HasLeader(ps) \/ Eligible(ps) = {} THEN {ps}
    ELSE {Promoted(ps, successor) : successor \in Eligible(ps)}

\* expireTimedStatesLocked: of the effects, the armor plate's.
expireTimedStates(ps) ==
    [p \in Players |->
        IF ps[p].armor # 0 /\ tick > ps[p].armor
        THEN [ps[p] EXCEPT !.armor = 0, !.temp = 0] ELSE ps[p]]

RestrictedPrisoners(ps) ==
    {p \in Players : ps[p].alive /\ ps[p].role \in Prisoners /\ ps[p].room = "restricted"}

\* applyAlarmAndGuardSystemLocked
AlarmAndGuards(ps) ==
    IF alarm = 0 \/ tick >= alarm \/ RestrictedPrisoners(ps) = {}
    THEN /\ alarm' = 0
         /\ lastShot' = [p \in Players |-> 0]
         /\ players' = ps
    ELSE LET shot == {p \in RestrictedPrisoners(ps) :
                         lastShot[p] = 0 \/ tick >= lastShot[p] + GuardInterval}
         IN /\ alarm' = alarm
            /\ lastShot' = [p \in Players |-> IF p \in shot THEN tick ELSE lastShot[p]]
            /\ players' = [p \in Players |->
                              IF p \in shot THEN Hit(ps[p], GuardDamage) ELSE ps[p]]

EndCommands ==
    /\ stage = "commands"
    /\ stage' = "phase"
    /\ \E ps \in ApplyGangLeaderSuccession(players) : AlarmAndGuards(expireTimedStates(ps))
    /\ UNCHANGED <<tick, handled, alarmUsed, world, breakout>>

-----------------------------------------------------------------------------
(* phase.Advance *)

\* Seeded fault: the phase lasts one tick too long.
PhaseIsOver_OffByOne == tick > phase.ends

PhaseIsOver == tick >= phase.ends

\* One turn of its loop, with the hook: the alarm stops at the start of a day.
AdvancePhase ==
    /\ stage = "phase"
    /\ PhaseIsOver
    /\ IF phase.current = "night"
       THEN /\ phase' = [current |-> "day", started |-> phase.ends,
                         ends |-> phase.ends + DayTicks]
            /\ cycle' = Smaller(cycle + 1, MaxCycles)
            /\ alarm' = 0
       ELSE /\ phase' = [current |-> "night", started |-> phase.ends,
                         ends |-> phase.ends + NightTicks]
            /\ UNCHANGED <<cycle, alarm>>
    /\ UNCHANGED <<stage, tick, handled, players, alarmUsed, lastShot, outcome, breakout>>

-----------------------------------------------------------------------------
(* winconditions.Evaluate *)

hasEscapedGangLeader ==
    \E p \in Players : /\ players[p].role = "leader" /\ players[p].alive
                       /\ players[p].room = "escaped"

hasDeadWarden == \A p \in Players : players[p].role = "warden" => ~players[p].alive

hasNoAliveGangMembers == \A p \in Players : players[p].role \in Gang => ~players[p].alive

\* Seeded fault: one cycle more than the counter can show.
MaxCyclesReached_OffByOne == cycle > MaxCycles

MaxCyclesReached == cycle >= MaxCycles

detectReason ==
    CASE hasEscapedGangLeader -> "gang_leader_escaped"
      [] ~hasEscapedGangLeader /\ hasDeadWarden -> "warden_died"
      [] ~hasEscapedGangLeader /\ ~hasDeadWarden /\ hasNoAliveGangMembers ->
            "all_gang_members_dead"
      [] ~hasEscapedGangLeader /\ ~hasDeadWarden /\ ~hasNoAliveGangMembers
            /\ MaxCyclesReached -> "max_cycles_reached"
      [] OTHER -> "none"

winnersForReason(reason) ==
    {p \in Players :
        /\ players[p].alive
        /\ players[p].role \in
              CASE reason = "gang_leader_escaped" -> Gang \cup {"corrupt"}
                [] reason = "warden_died" -> Gang
                [] OTHER -> {"warden", "deputy", "snitch"}}

Evaluate ==
    /\ stage = "phase"
    /\ ~PhaseIsOver
    /\ IF detectReason = "none"
       THEN stage' = "idle" /\ UNCHANGED outcome
       ELSE /\ stage' = "over"
            /\ outcome' = [reason |-> detectReason,
                           winners |-> winnersForReason(detectReason)]
    /\ UNCHANGED <<tick, handled, players, phase, cycle, alarm, alarmUsed, lastShot,
                   breakout>>

-----------------------------------------------------------------------------
Loop == BeginTick \/ EndCommands \/ AdvancePhase \/ Evaluate

Next == Loop \/ \E p \in Players : Command(p)

Spec == Init /\ [][Next]_vars

\* The ticker goes on: the loop takes every step it can.
FairSpec == Spec /\ WF_vars(Loop)

-----------------------------------------------------------------------------
(* Properties *)

PlayerStates ==
    [role : Roles, alive : BOOLEAN, hearts : 0 .. MaxHearts, temp : 0 .. ArmorHearts,
     lives : 0 .. DefaultLives, room : {"open", "restricted", "escaped"},
     stunned : Nat, solitary : Nat, armor : Nat]

\* The type of the match's state.  Who is alive has a life and hearts, who is dead has
\* no life left.
RulesTypeOK ==
    /\ stage \in {"idle", "commands", "phase", "over"}
    /\ tick \in Nat /\ handled \in Nat
    /\ players \in [Players -> PlayerStates]
    /\ \A p \in Players : /\ players[p].alive <=> players[p].lives > 0
                          /\ players[p].alive => players[p].hearts > 0
    /\ phase \in [current : {"day", "night"}, started : Nat, ends : Nat]
    /\ cycle \in 0 .. MaxCycles
    /\ alarm \in Nat /\ alarmUsed \in Nat
    /\ lastShot \in [Players -> Nat]
    /\ outcome.winners \subseteq Players
    /\ breakout \in BOOLEAN

\* However often leaders die, in commands or to the guards, exactly one player holds
\* the role of the leader.
OneLeader == \E p \in Players : \A q \in Players : players[q].role = "leader" <=> q = p

\* A player who has lost the last life stays dead, whatever cards they still play, and
\* nobody gains a life.
EliminationIsFinal ==
    [][\A p \in Players : /\ players'[p].lives <= players[p].lives
                          /\ ~players[p].alive => ~players'[p].alive]_vars

\* Temporary hearts never outlive the armor plate that gave them.
ArmorBacksTempHearts ==
    \A p \in Players : players[p].temp > 0 =>
        players[p].armor # 0 /\ (stage = "idle" => tick <= players[p].armor)

\* Between ticks, the phase and the cycle are those that the tick number determines.
PhaseFollowsClock ==
    stage = "idle" /\ tick > 0 =>
        LET period == DayTicks + NightTicks
            since  == (tick - 1) % period
        IN /\ phase.current = IF since < DayTicks THEN "day" ELSE "night"
           /\ phase.ends = tick - since + IF since < DayTicks THEN DayTicks ELSE period
           /\ cycle = (tick - 1) \div period

\* No state that decides the match is sent to clients as one of a match that goes on:
\* the evaluation comes after everything that can bring such a state about.
NoCauseOutlivesTick ==
    stage = "idle" =>
        /\ ~hasEscapedGangLeader
        /\ \E p \in Players : players[p].role = "warden" /\ players[p].alive
        /\ \E p \in Players : players[p].role \in Gang /\ players[p].alive
        /\ cycle < MaxCycles

\* Whatever the players do, the match ends.
MatchEnds == <>(stage = "over")

\* Whoever dies in the commands of a tick, the gang that goes on has a living leader
\* after its succession; only the guards of the same tick may have killed that one.
SuccessionInTime ==
    [][stage = "commands" /\ stage' = "phase" =>
          \A p \in Players :
              players'[p].role = "leader" =>
                  \/ players'[p].alive
                  \/ players[p].alive
                  \/ \A q \in Players : players'[q].role \in Gang => ~players'[q].alive]_vars

\* An escape route that succeeds for the gang leader ends the match.
EscapeEndsMatch == stage = "idle" => ~breakout

=============================================================================
