---------------------------- MODULE PrisonSystems ---------------------------
(***************************************************************************)
(* The prison itself: rooms and who may enter them (gamecore/map), doors,  *)
(* cells and power (gamecore/prison), walking and knockback                *)
(* (engine/physics), the abilities (gamecore/abilities) with their         *)
(* cooldowns and daily limits, the cards that work on doors, speed and     *)
(* detention, timed effects, and the escape routes (gamecore/escape).      *)
(*                                                                         *)
(* The roles are dealt first (RoleAssignment); then every player has an    *)
(* ability and a cell.  The commands of a tick are applied one after the   *)
(* other under the manager's lock, and EndTick is the rest of the tick.    *)
(*                                                                         *)
(* Every room opens on the main corridor through a door of its own, so a   *)
(* door is named by its room, and the door of a cell by the owner of the   *)
(* cell; cells without an owner are left out.  No door of the layout is    *)
(* locked and nothing locks one, so locks, and the lock snap card that     *)
(* needs one, are left out.  Items, cards and weapons are inputs: see      *)
(* Economy and MatchRules.  A message to a player is no state.             *)
(***************************************************************************)
EXTENDS RoleAssignment, FiniteSets

CONSTANTS
    Rooms,           \* bound: the rooms of the layout that the instance has
    CommandRooms,    \* bound: the rooms that interactions name
    CommandDoors,    \* bound: the rooms whose doors commands name
    Actors,          \* bound: the roles whose players act and are hit
    CommandCells,    \* bound: the roles whose cells commands name
    Deals,           \* bound: the abilities that go together, by role
    MaxCommands,     \* bound: commands, blows and shots of one match
    MaxTick,         \* bound: the clock
    DayTicks,
    NightTicks,
    CooldownTicks,   \* abilities.CooldownTicks: ticks of each ability
    EffectTicks,     \* abilities.EffectDurationTicks and cards.SpeedDurationTicks
    DoorStopTicks,   \* cards.DoorStopDurationTicks
    PendingTicks,    \* five seconds: what a chameleon has to stay still
    StunTicks,       \* combat.BatonStunDurationTicks
    AlarmTicks       \* prison.AlarmDurationTicks

Corridor == "corridor_main"

Restricted == {"warden_hq", "camera_room", "ammo_room", "power_room"}

\* isPrisonerRestrictedRoom: what a locksmith can unlock for prisoners.
PrisonerRestricted == {"power_room", "ammo_room"}

\* nightlyBlackMarketCandidates.
Candidates ==
    Rooms \cap {"black_market", "courtyard", "cafeteria", "mail_room", "roof_lookout"}

\* specsByAbility: the abilities of each scope, in the order of the catalog.
AuthorityAbilities == {"search", "camera_man", "detainer", "tracker"}

PrisonerAbilities == {"pick_pocket", "hacker", "disguise", "locksmith", "chameleon"}

Abilities == {"alarm"} \cup AuthorityAbilities \cup PrisonerAbilities

AbilitiesForPlayer(role) ==
    CASE role = "warden" -> {"alarm"} \cup AuthorityAbilities
      [] role \in Authority \ {"warden"} -> AuthorityAbilities
      [] OTHER -> PrisonerAbilities

DailyUseLimit(a) ==
    CASE a \in {"alarm", "search", "pick_pocket", "locksmith"} -> 1
      [] a = "detainer" -> 2
      [] OTHER -> 0

Effects == {"speed_boost", "disguised", "camera_view", "tracker_view", "chameleon"}

ASSUME PrisonAssumption ==
    /\ {Corridor, "cell_block_a", "warden_hq", "ammo_room", "power_room"} \subseteq Rooms
    /\ CommandRooms \subseteq Rooms
    /\ CommandDoors \subseteq Rooms \ {Corridor}
    /\ Actors \cup CommandCells \subseteq Prisoners \cup Authority
    /\ \A deal \in Deals : \A role \in DOMAIN deal : deal[role] \in AbilitiesForPlayer(role)
    /\ {MaxCommands, MaxTick} \subseteq Nat
    /\ CooldownTicks \in [Abilities -> Nat]
    /\ EffectTicks \in [Effects \ {"chameleon"} -> Nat \ {0}]
    /\ {DayTicks, NightTicks, DoorStopTicks, PendingTicks, StunTicks, AlarmTicks}
          \subseteq Nat \ {0}

VARIABLES
    stage,       \* "deal", then "play"
    tick,
    players,     \* gameState.Players, with cooldowns, daily uses and pending chameleons
    doors,       \* Map.Doors
    powerOn,
    alarm,       \* Alarm.EndsTick while the alarm is active, 0 otherwise
    market,      \* Map.BlackMarketRoomID
    unlocked,    \* prisonerUnlockedRooms
    phase,
    handled      \* commands, blows and shots so far

map == <<doors, powerOn, alarm, market, unlocked>>

clock == <<stage, tick, phase, dealing>>

vars == <<clock, players, map, handled>>

Players == IF stage = "deal" THEN ToSet(cast) ELSE DOMAIN players

Doors == (Rooms \ {Corridor}) \cup Players

Absent == -1   \* the EndsTick of an effect that a player does not have

Larger(a, b) == IF a < b THEN b ELSE a

-----------------------------------------------------------------------------
(* The match starts: abilities, cells and spawn points *)

\* A position is a tile of a room, or the tile of the door to that room, which
\* belongs to the corridor.
Inside(r) == [room |-> r, door |-> FALSE]

AtDoor(r) == [room |-> r, door |-> TRUE]

RoomAt(spot) == IF spot.door THEN Corridor ELSE spot.room

respawnLocation(role) ==
    CASE role = "warden" -> "warden_hq"
      [] role \in Authority \ {"warden"} -> "ammo_room"
      [] OTHER -> "cell_block_a"

NoEffects == [e \in Effects |-> Absent]

NewPlayer(role, ability) ==
    [role |-> role, ability |-> ability, alive |-> TRUE, room |-> respawnLocation(role),
     spot |-> Inside(respawnLocation(role)), stunned |-> 0, solitary |-> 0,
     locked |-> FALSE, effects |-> NoEffects, cooldown |-> 0,
     used |-> [day |-> 0, count |-> 0], pending |-> 0, lastMove |-> 0]

\* ToMapState: rooms open, cells closed, power on.
Init ==
    /\ DealInit
    /\ stage = "deal"
    /\ tick = 1
    /\ players = <<>>
    /\ doors = [d \in Doors |-> [open |-> d \notin Players, canClose |-> TRUE,
                                 blocked |-> 0, by |-> {}]]
    /\ powerOn = TRUE
    /\ alarm = 0
    /\ market = "black_market"
    /\ unlocked = {}
    /\ phase = [day |-> TRUE, started |-> 1, ends |-> 1 + DayTicks]
    /\ handled = 0

Deal ==
    /\ stage = "deal"
    /\ shuffleRoleProfiles
    /\ UNCHANGED <<stage, tick, phase, players, map, handled>>

\* assignRandomAbilities, assignCells: the ability is picked by a hash.
StartMatch ==
    /\ stage = "deal" /\ Dealt
    /\ stage' = "play"
    /\ \E ability \in Deals :
          /\ {RoleOf(p) : p \in Players} \subseteq DOMAIN ability
          /\ players' = [p \in Players |-> NewPlayer(RoleOf(p), ability[RoleOf(p)])]
    /\ cast' = <<>> /\ profiles' = <<>> /\ idx' = 0
    /\ UNCHANGED <<tick, phase, map, handled>>

-----------------------------------------------------------------------------
(* gamecore/map: who may enter a room and operate the door of a cell *)

IsPrisoner(q) == q.role \in Prisoners

IsAuthority(q) == q.role \in Authority

\* EvaluateRoomEntry: the reason to refuse an entry, or "allow".
EvaluateRoomEntry(q, r) ==
    CASE r = "warden_hq" -> IF q.role = "warden" THEN "allow" ELSE "warden_only"
      [] r \in {"camera_room", "ammo_room"} /\ ~powerOn -> "power_off"
      [] r = "power_room" \/ (r \in {"camera_room", "ammo_room"} /\ powerOn) ->
            IF IsAuthority(q) THEN "allow" ELSE "authority_only"
      [] r = market /\ r \notin Restricted -> IF IsPrisoner(q) THEN "allow" ELSE "prisoners_only"
      [] OTHER -> "allow"

CanEnterRoom(q, r) == EvaluateRoomEntry(q, r) = "allow"

\* Seeded fault: an unlocked room is open to prisoners whatever the reason to refuse.
canPlayerEnterRoom_AnyRoom(q, r) ==
    \/ CanEnterRoom(q, r)
    \/ IsPrisoner(q) /\ unlocked # {}

canPlayerEnterRoom(q, r) ==
    \/ CanEnterRoom(q, r)
    \/ /\ IsPrisoner(q)
       /\ r \in unlocked
       /\ EvaluateRoomEntry(q, r) = "authority_only"

CanOperateCellDoor(p, owner) == IsAuthority(players[p]) \/ p = owner

-----------------------------------------------------------------------------
(* engine/physics: one tick of motion.  Other players, and walls, can only *)
(* stop a step, so a step may always be refused.                           *)

Steps(spot) ==
    CASE spot.door -> {Inside(spot.room), Inside(Corridor)}
      [] spot = Inside(Corridor) -> {AtDoor(r) : r \in Rooms \ {Corridor}}
      [] OTHER -> {AtDoor(spot.room)}

\* A blow moves a player by up to 1.5 tiles: past the door or the wall between a
\* room and the corridor, one tile thick.
KnockSteps(spot) ==
    Steps(spot) \cup
    (CASE spot.door -> {}
       [] spot = Inside(Corridor) -> {Inside(r) : r \in Rooms \ {Corridor}}
       [] OTHER -> {Inside(Corridor)})

\* doorwayBetweenRooms: the door, on either of two tiles, between the room a
\* player counts as being in and the one stepped into.
Doorways(q, from, to) ==
    {s.room : s \in {t \in {from, to} : t.door /\ {q.room, RoomAt(to)} = {t.room, Corridor}}}

canOccupyPosition(q, from, to) ==
    /\ RoomAt(to) # q.room =>
          /\ \A d \in Doorways(q, from, to) : doors[d].open
          /\ CanEnterRoom(q, RoomAt(to))
    /\ to.door => doors[to.room].open

\* ResolveMoveIntent or ApplyKnockback, and the room of the position reached: a
\* step that is refused puts a player back in the room of the position too.
MoveAmong(q, spots) ==
    {[q EXCEPT !.spot = s, !.room = RoomAt(s)] :
        s \in {q.spot} \cup {t \in spots : canOccupyPosition(q, q.spot, t)}}

-----------------------------------------------------------------------------
(* Commands *)

IsActionBlocked(q) == ~q.alive \/ tick <= q.stunned \/ tick <= q.solitary

Handle ==
    /\ stage = "play"
    /\ handled < MaxCommands
    /\ handled' = handled + 1

\* Every command but a card, and aiming, is dropped while its player is blocked.
Command(p) == Handle /\ ~IsActionBlocked(players[p])

SetPlayer(p, q) == players' = [players EXCEPT ![p] = q]

\* The command of a player who stops moving only brings the room up to date.
MoveIntent(p) ==
    /\ Command(p)
    /\ LET q == [players[p] EXCEPT !.lastMove = tick, !.pending = 0,
                                   !.effects = [@ EXCEPT !["chameleon"] = Absent]]
       IN \/ \E moved \in MoveAmong(q, Steps(q.spot)) : SetPlayer(p, moved)
          \/ \E stopped \in MoveAmong(players[p], {}) : SetPlayer(p, stopped)
    /\ UNCHANGED <<clock, map>>

\* tryMovePlayerToRoom: the position stays where it is.  Every room of the layout
\* can be reached from every other one, and from no place outside of it.
EnterRoom(p, r) ==
    /\ Command(p)
    /\ players[p].room \in Rooms \ {r}
    /\ canPlayerEnterRoom(players[p], r)
    /\ SetPlayer(p, [players[p] EXCEPT !.room = r])
    /\ UNCHANGED <<clock, map>>

IsBlocked(d) == doors[d].blocked # 0 /\ tick <= doors[d].blocked

\* Seeded fault: a door is toggled whether or not there is power.
tryToggleDoorForPlayer_NoPower(p, d) ==
    /\ Command(p)
    /\ d \in Players => CanOperateCellDoor(p, d)
    /\ ~IsBlocked(d)
    /\ doors' = [doors EXCEPT ![d].open = ~@]
    /\ UNCHANGED <<clock, players, powerOn, alarm, market, unlocked>>

\* Seeded fault: a door stop keeps nobody from a door.
tryToggleDoorForPlayer_Stopped(p, d) ==
    /\ Command(p)
    /\ d \in Players => CanOperateCellDoor(p, d)
    /\ powerOn \/ ~doors[d].open
    /\ doors' = [doors EXCEPT ![d].open = ~@]
    /\ UNCHANGED <<clock, players, powerOn, alarm, market, unlocked>>

\* A target door, or the door of a target cell.
tryToggleDoorForPlayer(p, d) ==
    /\ Command(p)
    /\ d \in Players => CanOperateCellDoor(p, d)
    /\ ~IsBlocked(d)
    /\ powerOn \/ ~doors[d].open
    /\ doors' = [doors EXCEPT ![d].open = ~@]
    /\ UNCHANGED <<clock, players, powerOn, alarm, market, unlocked>>

\* Without power no door can be closed, and every door opens.
ApplyPowerState(on) ==
    /\ powerOn' = on
    /\ doors' = [d \in Doors |->
                    [doors[d] EXCEPT !.canClose = on, !.open = @ \/ ~on]]

\* Nobody but who is in the power room, authority or not.
tryTogglePower(p) ==
    /\ Command(p)
    /\ players[p].room = "power_room"
    /\ ApplyPowerState(~powerOn)
    /\ UNCHANGED <<clock, players, alarm, market, unlocked>>

trySetNightlyBlackMarket(p, r) ==
    /\ Command(p)
    /\ players[p].role = "leader"
    /\ ~phase.day
    /\ r \in Candidates \ {market}
    /\ market' = r
    /\ UNCHANGED <<clock, players, doors, powerOn, alarm, unlocked>>

\* EvaluateRoute: where each route starts; what it takes to carry is an input.
RouteRoom ==
    [courtyard_dig |-> "courtyard", badge_escape |-> Corridor,
     power_out_escape |-> "power_room", ladder_escape |-> "courtyard",
     roof_helicopter_escape |-> "roof_lookout"]

tryEscapeRoute(p, route) ==
    /\ Command(p)
    /\ IsPrisoner(players[p])
    /\ players[p].room = RouteRoom[route]
    /\ route = "power_out_escape" => ~powerOn
    /\ SetPlayer(p, [players[p] EXCEPT !.room = "escaped"])
    /\ UNCHANGED <<clock, map>>

-----------------------------------------------------------------------------
(* Abilities *)

IsUsed(q) == q.used.day = phase.started /\ q.used.count >= DailyUseLimit(q.ability)

canUseAbilityAtCurrentTick(q) ==
    /\ q.cooldown = 0 \/ tick >= q.cooldown
    /\ DailyUseLimit(q.ability) > 0 => phase.day /\ ~IsUsed(q)

\* registerAbilityUse: the use of a limited ability is counted for its day.
Registered(q) ==
    [q EXCEPT
        !.cooldown = IF CooldownTicks[q.ability] > 0 THEN tick + CooldownTicks[q.ability] ELSE @,
        !.used = IF DailyUseLimit(q.ability) > 0 /\ phase.day
                 THEN [day |-> phase.started,
                       count |-> 1 + IF @.day = phase.started THEN @.count ELSE 0]
                 ELSE @]

\* applyAbilityCommand up to its switch: the ability is the one assigned.
UseAbility(p, a) ==
    /\ Command(p)
    /\ players[p].ability = a
    /\ canUseAbilityAtCurrentTick(players[p])

\* Living players in the same room, whether named or picked as the nearest one.
Targets(p) ==
    {t \in Players \ {p} : players[t].alive /\ players[t].room = players[p].room}

\* upsertEffect changes the player.
Extends(q, e, until) == until > q.effects[e]

WithEffect(q, e, until) == [q EXCEPT !.effects = [@ EXCEPT ![e] = until]]

UseAlarm(p) ==
    /\ UseAbility(p, "alarm")
    /\ alarm' = tick + AlarmTicks
    /\ SetPlayer(p, Registered(players[p]))
    /\ UNCHANGED <<clock, doors, powerOn, market, unlocked>>

\* The items that search and pick pocket move are in Economy.
UseOnItems(p, a) ==
    /\ a \in {"search", "pick_pocket"}
    /\ UseAbility(p, a)
    /\ Targets(p) # {}
    /\ SetPlayer(p, Registered(players[p]))
    /\ UNCHANGED <<clock, map>>

ViewEffect == [camera_man |-> "camera_view", tracker |-> "tracker_view", disguise |-> "disguised"]

UseOnSelf(p, a) ==
    /\ a \in DOMAIN ViewEffect
    /\ UseAbility(p, a)
    /\ a = "camera_man" => players[p].room = "camera_room" /\ powerOn
    /\ LET until == tick + EffectTicks[ViewEffect[a]]
       IN /\ Extends(players[p], ViewEffect[a], until)
          /\ SetPlayer(p, Registered(WithEffect(players[p], ViewEffect[a], until)))
    /\ UNCHANGED <<clock, map>>

Detained(q, until) == [q EXCEPT !.solitary = Larger(@, until), !.locked = TRUE]

\* EffectDurationTicks of the detainer is that of the camera man.
UseDetainer(p, t) ==
    /\ UseAbility(p, "detainer")
    /\ t \in Targets(p)
    /\ LET until == tick + EffectTicks["camera_view"]
       IN /\ until > players[t].solitary \/ ~players[t].locked
          /\ players' = [players EXCEPT ![p] = Registered(@), ![t] = Detained(@, until)]
    /\ UNCHANGED <<clock, map>>

UseHacker(p) ==
    /\ UseAbility(p, "hacker")
    /\ powerOn
    /\ ApplyPowerState(FALSE)
    /\ SetPlayer(p, Registered(players[p]))
    /\ UNCHANGED <<clock, alarm, market, unlocked>>

\* A door that is named need not be near; one that is not is looked for among the
\* doors of the room.  A door stop does not keep a locksmith out.
UseLocksmith(p, d) ==
    /\ UseAbility(p, "locksmith")
    /\ powerOn
    /\ ~doors[d].open \/ d \in PrisonerRestricted \ unlocked
    /\ doors' = [doors EXCEPT ![d].open = TRUE]
    /\ unlocked' = unlocked \cup ({d} \cap PrisonerRestricted)
    /\ SetPlayer(p, Registered(players[p]))
    /\ UNCHANGED <<clock, powerOn, alarm, market>>

HasChameleon(q) == q.effects["chameleon"] # Absent

UseChameleon(p) ==
    /\ UseAbility(p, "chameleon")
    /\ ~HasChameleon(players[p])
    /\ players[p].pending = 0 \/ tick >= players[p].pending
    /\ SetPlayer(p, [Registered(players[p]) EXCEPT !.pending = tick + PendingTicks])
    /\ UNCHANGED <<clock, map>>

-----------------------------------------------------------------------------
(* Cards: the dead and the detained may play them *)

PlaySpeed(p) ==
    /\ Handle
    /\ LET until == tick + EffectTicks["speed_boost"]
       IN /\ Extends(players[p], "speed_boost", until)
          /\ SetPlayer(p, WithEffect(players[p], "speed_boost", until))
    /\ UNCHANGED <<clock, map>>

Stopped(r, p, until) ==
    [r EXCEPT !.open = FALSE, !.by = {p}, !.blocked = Larger(@, until)]

PlayDoorStop(p, d) ==
    /\ Handle
    /\ powerOn
    /\ doors[d].open \/ tick + DoorStopTicks > doors[d].blocked \/ doors[d].by # {p}
    /\ doors' = [doors EXCEPT ![d] = Stopped(@, p, tick + DoorStopTicks)]
    /\ UNCHANGED <<clock, players, powerOn, alarm, market, unlocked>>

PlayGetOutOfJail(p) ==
    /\ Handle
    /\ players[p].solitary # 0 \/ players[p].locked
    /\ SetPlayer(p, [players[p] EXCEPT !.solitary = 0, !.locked = FALSE])
    /\ UNCHANGED <<clock, map>>

-----------------------------------------------------------------------------
(* Blows and shots, by whom and with what is left to MatchRules *)

\* A baton.
Struck(t) ==
    /\ Handle
    /\ players[t].alive
    /\ \E moved \in MoveAmong(players[t], KnockSteps(players[t].spot)) :
          SetPlayer(t, [moved EXCEPT !.stunned = Larger(@, tick + StunTicks)])
    /\ UNCHANGED <<clock, map>>

\* consumeLifeAndRespawnIfAvailable: cooldowns and a pending chameleon survive.
Respawned(q) ==
    [q EXCEPT !.room = respawnLocation(q.role), !.spot = Inside(respawnLocation(q.role)),
              !.stunned = 0, !.solitary = 0, !.locked = FALSE, !.effects = NoEffects]

\* A deadly shot, of the last life or not.
Shot(t) ==
    /\ Handle
    /\ players[t].alive
    /\ \/ SetPlayer(t, Respawned(players[t]))
       \/ SetPlayer(t, [players[t] EXCEPT !.alive = FALSE, !.stunned = 0])
    /\ UNCHANGED <<clock, map>>

-----------------------------------------------------------------------------
(* The end of a tick *)

expireDoors ==
    doors' = [d \in Doors |-> IF doors[d].blocked = 0 \/ tick <= doors[d].blocked THEN doors[d]
                              ELSE [doors[d] EXCEPT !.blocked = 0, !.by = {}]]

expireEffects(q) ==
    [q EXCEPT !.effects = [e \in Effects |-> IF @[e] > 0 /\ tick > @[e] THEN Absent ELSE @[e]]]

\* Seeded fault: a chameleon counts as still one tick early.
expirePending_Early(q) ==
    IF q.pending = 0 \/ tick + 1 < q.pending THEN q
    ELSE [WithEffect(q, "chameleon", 0) EXCEPT !.pending = 0]

\* A chameleon who did not move disappears; its effect has no end.
expirePending(q) ==
    IF q.pending = 0 \/ tick < q.pending THEN q
    ELSE IF q.lastMove >= q.pending THEN [q EXCEPT !.pending = 0]
    ELSE [WithEffect(q, "chameleon", 0) EXCEPT !.pending = 0]

\* applyAlarmAndGuardSystem without the shots of the guards.
RestrictedPrisoners ==
    {p \in Players : players[p].alive /\ IsPrisoner(players[p]) /\ players[p].room \in Restricted}

AlarmLasts == tick < alarm /\ RestrictedPrisoners # {}

\* phase.Advance with its hooks: a day stops the alarm, a night moves the market.
AdvancePhase ==
    IF tick < phase.ends
    THEN /\ alarm' = IF AlarmLasts THEN alarm ELSE 0
         /\ UNCHANGED <<phase, market>>
    ELSE /\ phase' = [day |-> ~phase.day, started |-> phase.ends,
                      ends |-> phase.ends + IF phase.day THEN NightTicks ELSE DayTicks]
         /\ alarm' = IF AlarmLasts /\ phase.day THEN alarm ELSE 0
         /\ IF phase.day THEN market' \in Candidates ELSE UNCHANGED market

EndTick ==
    /\ stage = "play"
    /\ tick < MaxTick
    /\ tick' = tick + 1
    /\ players' = [p \in Players |-> expirePending(expireEffects(players[p]))]
    /\ expireDoors
    /\ AdvancePhase
    /\ UNCHANGED <<stage, dealing, powerOn, unlocked, handled>>

-----------------------------------------------------------------------------

NamedDoors == CommandDoors \cup {p \in Players : players[p].role \in CommandCells}

Interact(p) ==
    \/ \E r \in CommandRooms : EnterRoom(p, r)
    \/ \E d \in NamedDoors : tryToggleDoorForPlayer(p, d)
    \/ tryTogglePower(p)
    \/ \E r \in Candidates : trySetNightlyBlackMarket(p, r)
    \/ \E route \in DOMAIN RouteRoom : tryEscapeRoute(p, route)

Ability(p) ==
    \/ UseAlarm(p)
    \/ \E a \in Abilities : UseOnItems(p, a) \/ UseOnSelf(p, a)
    \/ \E t \in Players : UseDetainer(p, t)
    \/ UseHacker(p)
    \/ \E d \in NamedDoors : UseLocksmith(p, d)
    \/ UseChameleon(p)

Card(p) ==
    \/ PlaySpeed(p)
    \/ \E d \in NamedDoors : PlayDoorStop(p, d)
    \/ PlayGetOutOfJail(p)

Next ==
    \/ Deal \/ StartMatch \/ EndTick
    \/ \E p \in {q \in DOMAIN players : players[q].role \in Actors} :
          MoveIntent(p) \/ Interact(p) \/ Ability(p) \/ Card(p) \/ Struck(p) \/ Shot(p)

Spec == Init /\ [][Next]_vars

-----------------------------------------------------------------------------
(* Properties *)

InPlay == stage = "play"

\* While the power is off every door stands open and none can be closed, whatever
\* doors, door stops and locksmiths do meanwhile (ApplyPowerState,
\* tryToggleDoorForPlayerLocked, applyCardCommandLocked).
PowerOffOpensAll ==
    ~powerOn => \A d \in Doors : doors[d].open /\ ~doors[d].canClose

\* Rooms are kept: only a warden is ever in the warden's, no prisoner is ever in the
\* camera room, and one in the power room or the ammunition room, by position or by
\* interaction, is there after a locksmith unlocked that very room; so nobody leaves
\* by the power-out route before (canPlayerEnterRoomLocked, canOccupyPosition).
RestrictedRoomsKept ==
    InPlay => \A p \in Players : LET q == players[p] IN \A r \in {q.room, RoomAt(q.spot)} :
        /\ r = "warden_hq" => q.role = "warden"
        /\ IsPrisoner(q) => r \in (Rooms \ Restricted) \cup unlocked \cup {"escaped"}

\* A door that is stopped and closed stays closed until its time is over, unless the
\* power fails or a locksmith opens it (BlockedUntilTick).
StoppedDoorHolds ==
    [][\A d \in Doors :
          IsBlocked(d) /\ ~doors[d].open /\ doors'[d].open =>
              \/ ~powerOn'
              \/ \E p \in Players : UseLocksmith(p, d)]_vars

\* Who is hidden as a chameleon gave no order to move in the five seconds before and
\* none since, through respawns, blows and room changes (chameleonPendingUntil,
\* lastMoveIntentTick).
HiddenOnlyWhenStill ==
    InPlay => \A p \in Players : LET q == players[p] IN
        HasChameleon(q) => tick > q.lastMove + PendingTicks

-----------------------------------------------------------------------------
(* The inductive strengthening *)

Persons ==
    [role : Prisoners \cup Authority, ability : Abilities, alive : BOOLEAN,
     room : Rooms \cup {"escaped"}, spot : [room : Rooms, door : BOOLEAN], stunned : Nat,
     solitary : Nat, locked : BOOLEAN, effects : [Effects -> Int], cooldown : Nat,
     used : [day : Nat, count : Nat], pending : Nat, lastMove : Nat]

DoorStates == [open : BOOLEAN, canClose : BOOLEAN, blocked : Nat, by : SUBSET Players]

PrisonTypeOK ==
    /\ stage \in {"deal", "play"}
    /\ tick \in Nat \ {0}
    /\ stage = "deal" => /\ cast \in Casts /\ idx \in 1 .. Len(cast)
                         /\ profiles \in [1 .. Len(cast) -> Prisoners \cup Authority]
    /\ stage = "play" => players \in [Players -> Persons]
    /\ doors \in [Doors -> DoorStates]
    /\ powerOn \in BOOLEAN
    /\ alarm \in Nat
    /\ unlocked \subseteq PrisonerRestricted
    /\ phase \in [day : BOOLEAN, started : Nat, ends : Nat]
    /\ handled \in Nat

\* The rooms a player may be in, by interaction or by position.
MayBeIn(q, r) ==
    /\ r = "warden_hq" => q.role = "warden"
    /\ IsPrisoner(q) => r \in (Rooms \ Restricted) \cup unlocked \cup {"escaped"}

Kept(q) == MayBeIn(q, q.room) /\ MayBeIn(q, RoomAt(q.spot))

\* A pending chameleon has not moved since the ability was used.
Still(q) ==
    /\ q.lastMove <= tick
    /\ q.pending # 0 => q.pending >= q.lastMove + PendingTicks
    /\ HasChameleon(q) => tick > q.lastMove + PendingTicks

PrisonInv ==
    /\ PrisonTypeOK
    /\ PowerOffOpensAll
    /\ InPlay => \A p \in Players : Kept(players[p]) /\ Still(players[p])

=============================================================================
