------------------------ MODULE PrisonSystemsProofs -------------------------
(***************************************************************************)
(* Proofs about PrisonSystems and the dealing of roles, for any layout,    *)
(* players, durations and limits.                                          *)
(***************************************************************************)
EXTENDS PrisonSystems, SequenceTheorems, FunctionTheorems, FiniteSetTheorems, TLAPS

Roles == Prisoners \cup Authority

Spots == [room : Rooms, door : BOOLEAN]

-----------------------------------------------------------------------------
(* The profiles are roles *)

LEMMA RepeatTyped ==
    ASSUME NEW role \in Roles, NEW n \in Nat
    PROVE  Repeat(role, n) \in Seq(Roles)
BY DEF Repeat

LEMMA TemplateTyped ==
    ASSUME NEW good \in Nat, NEW evil \in Nat, NEW members \in Nat, NEW snitches \in Nat,
           NEW neutrals \in Nat
    PROVE  Template(good, evil, members, snitches, neutrals) \in Seq(Roles)
<1>1. \A role \in {"warden", "deputy", "corrupt", "leader", "member", "snitch", "neutral"} :
          role \in Roles /\ <<role>> \in Seq(Roles)
  BY DEF Roles, Prisoners, Authority
<1>2. /\ <<"warden">> \in Seq(Roles) /\ <<"leader">> \in Seq(Roles)
      /\ Repeat("deputy", good) \in Seq(Roles) /\ Repeat("corrupt", evil) \in Seq(Roles)
      /\ Repeat("member", members) \in Seq(Roles) /\ Repeat("snitch", snitches) \in Seq(Roles)
      /\ Repeat("neutral", neutrals) \in Seq(Roles)
  BY <1>1, RepeatTyped
<1>3. \A s, t \in Seq(Roles) : s \o t \in Seq(Roles)
  BY ConcatProperties
<1>. QED
  BY <1>2, <1>3 DEF Template

LEMMA ProfilesTyped ==
    ASSUME NEW n \in Nat \ {0}, NEW t \in profilesForCount(n)
    PROVE  t \in [1 .. n -> Roles]
<1>1. CASE n \in 6 .. 12
  <2>1. t \in (SmallTemplates \o LargeTemplates)[n - 5]
    BY <1>1 DEF profilesForCount
  <2> DEFINE R == Seq(Roles)
             S == SUBSET R
  <2>2. SmallTemplates \in Seq(S) /\ Len(SmallTemplates) = 4
    <3>1. \A a, b, c, d, e \in Nat : Template(a, b, c, d, e) \in R
      BY TemplateTyped
    <3> HIDE DEF R
    <3>2. {Template(1, 0, 2, 1, 0), Template(1, 0, 1, 0, 2), Template(0, 1, 1, 1, 1)} \in S
      BY <3>1
    <3>3. {Template(2, 0, 2, 0, 1), Template(1, 1, 1, 1, 1)} \in S
      BY <3>1
    <3>4. {Template(2, 0, 3, 0, 1), Template(1, 1, 2, 1, 1)} \in S
      BY <3>1
    <3>5. {Template(2, 0, 3, 0, 2), Template(1, 1, 2, 1, 2)} \in S
      BY <3>1
    <3>. QED
      BY <3>2, <3>3, <3>4, <3>5 DEF SmallTemplates
  <2>3. LargeTemplates \in Seq(S) /\ Len(LargeTemplates) = 3
    <3>1. \A a, b, c, d, e \in Nat : Template(a, b, c, d, e) \in R
      BY TemplateTyped
    <3> HIDE DEF R
    <3>2. {Template(2, 1, 3, 1, 1), Template(3, 0, 4, 0, 1), Template(1, 2, 1, 2, 2)} \in S
      BY <3>1
    <3>3. {Template(2, 1, 4, 1, 1), Template(3, 0, 5, 0, 1), Template(1, 2, 2, 2, 2)} \in S
      BY <3>1
    <3>4. {Template(2, 2, 3, 2, 1), Template(4, 0, 6, 0, 0), Template(2, 2, 2, 2, 2)} \in S
      BY <3>1
    <3>. QED
      BY <3>2, <3>3, <3>4 DEF LargeTemplates
  <2> HIDE DEF S
  <2>4. t \in Seq(Roles)
    <3>1. SmallTemplates \o LargeTemplates \in Seq(S)
      BY <2>2, <2>3, ConcatProperties
    <3>2. Len(SmallTemplates \o LargeTemplates) = Len(SmallTemplates) + Len(LargeTemplates)
      BY <2>2, <2>3, ConcatProperties
    <3>3. n - 5 \in 1 .. Len(SmallTemplates \o LargeTemplates)
      BY <1>1, <2>2, <2>3, <3>2
    <3>4. (SmallTemplates \o LargeTemplates)[n - 5] \in S
      BY <3>1, <3>3, ElementOfSeq
    <3>. QED
      BY <2>1, <3>4 DEF S, R
  <2>5. Len(t) = n
    <3>1. n \in 3 .. 14
      BY <1>1
    <3>. QED
      BY <3>1, TemplatesAssumption, Zenon
  <2>. QED
    BY <2>4, <2>5, LenProperties
<1>2. CASE n \notin 6 .. 12
  <2>1. t = Fallback(n)
    BY <1>2 DEF profilesForCount
  <2>. QED
    BY <2>1 DEF Fallback, Roles, Prisoners, Authority
<1>. QED
  BY <1>1, <1>2

\* The players of a cast.
LEMMA CastTyped ==
    ASSUME NEW c \in Casts
    PROVE  /\ Len(c) \in Nat \ {0} /\ DOMAIN c = 1 .. Len(c)
           /\ \A p \in ToSet(c) : \E i \in 1 .. Len(c) : c[i] = p
<1>1. c \in Seq(ToSet(c)) /\ Len(c) > 0
  BY CastsAssumption
<1>. QED
  BY <1>1, LenProperties DEF ToSet

LEMMA DealTyped ==
    ASSUME DealInit
    PROVE  cast \in Casts /\ idx \in 1 .. Len(cast) /\ profiles \in [1 .. Len(cast) -> Roles]
BY CastTyped, ProfilesTyped DEF DealInit

LEMMA RoleTyped ==
    ASSUME PrisonTypeOK, stage = "deal", NEW p \in Players
    PROVE  RoleOf(p) \in Roles
<1>1. cast \in Casts /\ p \in ToSet(cast) /\ profiles \in [1 .. Len(cast) -> Roles]
  BY DEF PrisonTypeOK, Players, Roles
<1>2. \E i \in 1 .. Len(cast) : cast[i] = p
  BY <1>1, CastTyped
<1>. QED
  BY <1>1, <1>2 DEF RoleOf

-----------------------------------------------------------------------------
(* What the operators on a player keep *)

Good(q) == q \in Persons /\ Kept(q) /\ Still(q)

\* What Good says of a player hangs on these fields.
LEMMA GoodSame ==
    ASSUME NEW q, Good(q), NEW u \in Persons, u.role = q.role, u.room = q.room, u.spot = q.spot,
           u.pending = q.pending, u.lastMove = q.lastMove,
           u.effects["chameleon"] \in {q.effects["chameleon"], Absent}
    PROVE  Good(u)
BY DEF Good, Kept, MayBeIn, IsPrisoner, RoomAt, Still, HasChameleon

LEMMA PersonFields ==
    ASSUME NEW q \in Persons
    PROVE  /\ q.role \in Roles /\ q.ability \in Abilities /\ q.alive \in BOOLEAN
           /\ q.room \in Rooms \cup {"escaped"} /\ q.spot \in Spots
           /\ q.spot.room \in Rooms /\ q.spot.door \in BOOLEAN
           /\ q.stunned \in Nat /\ q.solitary \in Nat /\ q.locked \in BOOLEAN
           /\ q.effects \in [Effects -> Int] /\ q.cooldown \in Nat
           /\ q.used \in [day : Nat, count : Nat] /\ q.pending \in Nat /\ q.lastMove \in Nat
BY DEF Persons, Roles, Spots

LEMMA RegisteredKeeps ==
    ASSUME PrisonTypeOK, NEW q \in Persons
    PROVE  /\ Registered(q) \in Persons
           /\ Registered(q).role = q.role /\ Registered(q).room = q.room
           /\ Registered(q).spot = q.spot /\ Registered(q).effects = q.effects
           /\ Registered(q).pending = q.pending /\ Registered(q).lastMove = q.lastMove
<1> DEFINE cool == IF CooldownTicks[q.ability] > 0 THEN tick + CooldownTicks[q.ability]
                   ELSE q.cooldown
           used == IF DailyUseLimit(q.ability) > 0 /\ phase.day
                   THEN [day |-> phase.started,
                         count |-> 1 + IF q.used.day = phase.started THEN q.used.count ELSE 0]
                   ELSE q.used
<1>1. q.ability \in Abilities /\ q.cooldown \in Nat /\ q.used \in [day : Nat, count : Nat]
  BY PersonFields
<1>2. CooldownTicks[q.ability] \in Nat /\ tick \in Nat /\ phase.started \in Nat
  BY <1>1, PrisonAssumption DEF PrisonTypeOK
<1>3. cool \in Nat
  BY <1>1, <1>2
<1>4. used \in [day : Nat, count : Nat]
  <2>1. q.used.day \in Nat /\ q.used.count \in Nat
    BY <1>1
  <2>. QED
    BY <1>1, <1>2, <2>1
<1>5. Registered(q) = [q EXCEPT !.cooldown = cool, !.used = used]
  BY DEF Registered
<1> HIDE DEF cool, used
<1>. QED
  BY <1>3, <1>4, <1>5 DEF Persons

LEMMA EffectKeeps ==
    ASSUME NEW q \in Persons, NEW e \in Effects, NEW until \in Int
    PROVE  LET u == WithEffect(q, e, until) IN
           /\ u \in Persons /\ u.role = q.role /\ u.room = q.room /\ u.spot = q.spot
           /\ u.pending = q.pending /\ u.lastMove = q.lastMove
           /\ e # "chameleon" => u.effects["chameleon"] = q.effects["chameleon"]
<1> DEFINE w == [q.effects EXCEPT ![e] = until]
<1>1. q.effects \in [Effects -> Int]
  BY PersonFields
<1>2. "chameleon" \in Effects
  BY DEF Effects
<1>3. w \in [Effects -> Int] /\ (e # "chameleon" => w["chameleon"] = q.effects["chameleon"])
  BY <1>1, <1>2
<1>4. WithEffect(q, e, until) = [q EXCEPT !.effects = w]
  BY DEF WithEffect
<1> HIDE DEF w
<1>. QED
  BY <1>3, <1>4 DEF Persons

\* A step of a player.
LEMMA StepsTyped ==
    ASSUME NEW spot \in Spots
    PROVE  Steps(spot) \subseteq Spots /\ KnockSteps(spot) \subseteq Spots
<1>1. Corridor \in Rooms /\ spot.room \in Rooms /\ spot.door \in BOOLEAN
  BY PrisonAssumption DEF Spots
<1>2. \A r \in Rooms : Inside(r) \in Spots /\ AtDoor(r) \in Spots
  BY DEF Inside, AtDoor, Spots
<1>3. \/ Steps(spot) = {Inside(spot.room), Inside(Corridor)}
      \/ Steps(spot) = {AtDoor(r) : r \in Rooms \ {Corridor}}
      \/ Steps(spot) = {AtDoor(spot.room)}
  BY DEF Steps
<1>4. Steps(spot) \subseteq Spots
  BY <1>1, <1>2, <1>3
<1>5. \/ KnockSteps(spot) = Steps(spot) \cup {}
      \/ KnockSteps(spot) = Steps(spot) \cup {Inside(r) : r \in Rooms \ {Corridor}}
      \/ KnockSteps(spot) = Steps(spot) \cup {Inside(Corridor)}
  BY DEF KnockSteps
<1>. QED
  BY <1>1, <1>2, <1>4, <1>5

\* Who is let into a room may be in it.
LEMMA EntryKeeps ==
    ASSUME NEW q \in Persons, NEW r \in Rooms, canPlayerEnterRoom(q, r)
    PROVE  MayBeIn(q, r)
<1>1. q.role \in Roles
  BY PersonFields
<1>2. CASE r = "warden_hq"
  <2>1. EvaluateRoomEntry(q, r) = IF q.role = "warden" THEN "allow" ELSE "warden_only"
    BY <1>2 DEF EvaluateRoomEntry, Restricted
  <2>2. q.role = "warden"
    BY <2>1 DEF canPlayerEnterRoom, CanEnterRoom
  <2>. QED
    BY <1>2, <2>2 DEF MayBeIn, IsPrisoner, Prisoners
<1>3. CASE r \in {"camera_room", "ammo_room"} /\ ~powerOn
  <2>1. EvaluateRoomEntry(q, r) = "power_off"
    BY <1>3 DEF EvaluateRoomEntry, Restricted
  <2>. QED
    BY <2>1 DEF canPlayerEnterRoom, CanEnterRoom
<1>4. CASE r = "power_room" \/ (r \in {"camera_room", "ammo_room"} /\ powerOn)
  <2>1. EvaluateRoomEntry(q, r) = IF IsAuthority(q) THEN "allow" ELSE "authority_only"
    BY <1>4 DEF EvaluateRoomEntry, Restricted
  <2>2. IsPrisoner(q) => r \in unlocked
    BY <2>1 DEF canPlayerEnterRoom, CanEnterRoom, IsAuthority, IsPrisoner, Authority, Prisoners
  <2>3. r # "warden_hq"
    BY <1>4
  <2>. QED
    BY <2>2, <2>3 DEF MayBeIn
<1>5. CASE r \notin Restricted
  BY <1>5 DEF MayBeIn, Restricted
<1>. QED
  BY <1>2, <1>3, <1>4, <1>5 DEF Restricted

LEMMA MoveKeeps ==
    ASSUME NEW q \in Persons, Kept(q), NEW spots \in SUBSET Spots,
           NEW u \in MoveAmong(q, spots)
    PROVE  /\ u \in Persons /\ Kept(u) /\ u.role = q.role /\ u.effects = q.effects
           /\ u.pending = q.pending /\ u.lastMove = q.lastMove
<1>1. PICK s \in {q.spot} \cup {t \in spots : canOccupyPosition(q, q.spot, t)} :
          u = [q EXCEPT !.spot = s, !.room = RoomAt(s)]
  BY DEF MoveAmong
<1>2. s \in Spots
  BY PersonFields
<1>3. RoomAt(s) \in Rooms
  BY <1>2, PrisonAssumption DEF RoomAt, Spots
<1>4. /\ u \in Persons /\ u.role = q.role /\ u.effects = q.effects
      /\ u.pending = q.pending /\ u.lastMove = q.lastMove /\ u.room = RoomAt(s) /\ u.spot = s
  BY <1>1, <1>2, <1>3 DEF Persons, Spots
<1>5. MayBeIn(q, RoomAt(s))
  <2>1. CASE s = q.spot
    BY <2>1 DEF Kept
  <2>2. CASE canOccupyPosition(q, q.spot, s)
    <3>1. CASE RoomAt(s) = q.room
      BY <3>1 DEF Kept
    <3>2. CASE RoomAt(s) # q.room
      <4>1. canPlayerEnterRoom(q, RoomAt(s))
        BY <2>2, <3>2 DEF canOccupyPosition, canPlayerEnterRoom
      <4>. QED
        BY <1>3, <4>1, EntryKeeps
    <3>. QED
      BY <3>1, <3>2
  <2>. QED
    BY <1>1, <2>1, <2>2
<1>. QED
  BY <1>4, <1>5 DEF Kept, MayBeIn, IsPrisoner

LEMMA SpawnKeeps ==
    ASSUME NEW q, q.role \in Roles
    PROVE  respawnLocation(q.role) \in Rooms /\ MayBeIn(q, respawnLocation(q.role))
<1>1. {"cell_block_a", "warden_hq", "ammo_room"} \subseteq Rooms
  BY PrisonAssumption
<1>2. CASE q.role = "warden"
  <2>1. respawnLocation(q.role) = "warden_hq"
    BY <1>2 DEF respawnLocation
  <2>. QED
    BY <1>1, <1>2, <2>1 DEF MayBeIn, IsPrisoner, Prisoners
<1>3. CASE q.role \in Authority \ {"warden"}
  <2>1. respawnLocation(q.role) = "ammo_room"
    BY <1>3 DEF respawnLocation
  <2>. QED
    BY <1>1, <1>3, <2>1 DEF MayBeIn, IsPrisoner, Prisoners, Authority
<1>4. CASE q.role \notin Authority
  <2>1. respawnLocation(q.role) = "cell_block_a"
    BY <1>4 DEF respawnLocation, Authority
  <2>. QED
    BY <1>1, <2>1 DEF MayBeIn, Restricted
<1>. QED
  BY <1>2, <1>3, <1>4

\* The end of a tick for one player: effects expire, a pending chameleon disappears.
LEMMA ExpireKeeps ==
    ASSUME PrisonTypeOK, NEW q \in Persons
    PROVE  LET u == expirePending(expireEffects(q)) IN
           /\ u \in Persons /\ u.role = q.role /\ u.room = q.room /\ u.spot = q.spot
           /\ u.lastMove = q.lastMove
           /\ u.pending \in {q.pending, 0}
           /\ \/ u.effects["chameleon"] \in {q.effects["chameleon"], Absent}
              \/ q.pending # 0 /\ tick >= q.pending
<1> DEFINE v == expireEffects(q)
           w == [e \in Effects |-> IF q.effects[e] > 0 /\ tick > q.effects[e] THEN Absent
                                   ELSE q.effects[e]]
<1>1. q.effects \in [Effects -> Int] /\ q.pending \in Nat /\ q.lastMove \in Nat /\ tick \in Nat
  BY PersonFields DEF PrisonTypeOK
<1>2. "chameleon" \in Effects
  BY DEF Effects
<1>3. w \in [Effects -> Int] /\ w["chameleon"] \in {q.effects["chameleon"], Absent}
  BY <1>1, <1>2 DEF Absent
<1>4. v = [q EXCEPT !.effects = w]
  BY DEF expireEffects
<1> HIDE DEF w
<1>5. /\ v \in Persons /\ v.role = q.role /\ v.room = q.room /\ v.spot = q.spot
      /\ v.lastMove = q.lastMove /\ v.pending = q.pending /\ v.effects = w
  BY <1>3, <1>4 DEF Persons
<1> HIDE DEF v
<1>6. CASE v.pending = 0 \/ tick < v.pending
  <2>1. expirePending(v) = v
    BY <1>6 DEF expirePending
  <2>. QED
    BY <1>3, <1>5, <2>1 DEF v
<1>7. CASE ~(v.pending = 0 \/ tick < v.pending)
  <2>1. tick >= q.pending /\ q.pending # 0
    BY <1>1, <1>5, <1>7
  <2>2. CASE v.lastMove >= v.pending
    <3>1. expirePending(v) = [v EXCEPT !.pending = 0]
      BY <1>7, <2>2 DEF expirePending
    <3>2. LET u == [v EXCEPT !.pending = 0] IN
          /\ u \in Persons /\ u.role = v.role /\ u.room = v.room /\ u.spot = v.spot
          /\ u.lastMove = v.lastMove /\ u.pending = 0
      BY <1>5 DEF Persons
    <3>. QED
      BY <1>5, <2>1, <3>1, <3>2 DEF v
  <2>3. CASE ~(v.lastMove >= v.pending)
    <3> DEFINE x == WithEffect(v, "chameleon", 0)
    <3>1. expirePending(v) = [x EXCEPT !.pending = 0]
      BY <1>7, <2>3 DEF expirePending
    <3>2. /\ x \in Persons /\ x.role = v.role /\ x.room = v.room /\ x.spot = v.spot
          /\ x.lastMove = v.lastMove
      BY <1>2, <1>5, EffectKeeps
    <3> HIDE DEF x
    <3>3. LET u == [x EXCEPT !.pending = 0] IN
          /\ u \in Persons /\ u.role = x.role /\ u.room = x.room /\ u.spot = x.spot
          /\ u.lastMove = x.lastMove /\ u.pending = 0
      BY <3>2 DEF Persons
    <3>. QED
      BY <1>5, <2>1, <3>1, <3>2, <3>3 DEF v
  <2>. QED
    BY <2>2, <2>3
<1>. QED
  BY <1>6, <1>7

-----------------------------------------------------------------------------
(* The players through a step *)

PeopleGood ==
    InPlay => players \in [Players -> Persons] /\ \A p \in Players : Good(players[p])

LEMMA PeopleAreGood ==
    ASSUME PrisonInv
    PROVE  PeopleGood
BY DEF PrisonInv, PrisonTypeOK, PeopleGood, InPlay, Good

\* In play the players are those the match began with.
LEMMA InPlayPlayers ==
    ASSUME InPlay
    PROVE  Players = DOMAIN players
BY DEF InPlay, Players

LEMMA OnePlayer ==
    ASSUME PeopleGood, InPlay, NEW p \in Players, NEW q, Good(q), SetPlayer(p, q),
           UNCHANGED <<stage, tick>>, unlocked \subseteq unlocked'
    PROVE  PeopleGood' /\ Players' = Players
<1>1. players \in [Players -> Persons] /\ \A t \in Players : Good(players[t])
  BY DEF PeopleGood
<1>2. q \in Persons
  BY DEF Good
<1>3. /\ players' \in [Players -> Persons] /\ players'[p] = q
      /\ \A t \in Players : t # p => players'[t] = players[t]
  BY <1>1, <1>2 DEF SetPlayer
<1>4. Players' = Players
  BY <1>1, <1>3 DEF InPlay, Players
<1>5. \A t \in Players : Good(players[t])'
  BY <1>1, <1>3 DEF Good, Kept, MayBeIn, IsPrisoner, RoomAt, Still, HasChameleon
<1>. QED
  BY <1>3, <1>4, <1>5 DEF PeopleGood

LEMMA NoPlayer ==
    ASSUME PeopleGood, UNCHANGED <<stage, tick, players, cast>>, unlocked \subseteq unlocked'
    PROVE  PeopleGood' /\ Players' = Players
<1>1. Players' = Players
  BY DEF Players
<1>. QED
  BY <1>1 DEF PeopleGood, InPlay, Good, Kept, MayBeIn, IsPrisoner, RoomAt, Still, HasChameleon

\* The state in which a command of p is handled.
LEMMA Handling ==
    ASSUME PrisonInv, Handle, NEW p \in DOMAIN players
    PROVE  /\ PrisonTypeOK /\ PeopleGood /\ InPlay /\ p \in Players
           /\ Good(players[p]) /\ players[p] \in Persons
<1>1. PrisonTypeOK /\ PeopleGood /\ InPlay
  BY PeopleAreGood DEF PrisonInv, Handle, InPlay
<1>2. p \in Players
  BY <1>1, InPlayPlayers
<1>. QED
  BY <1>1, <1>2 DEF PeopleGood, Good

\* The actions that end in SetPlayer, each with a good player.
LEMMA MoveStep ==
    ASSUME PrisonInv, NEW p \in DOMAIN players, MoveIntent(p)
    PROVE  PeopleGood' /\ Players' = Players
<1>1. Handle /\ UNCHANGED <<clock, map>>
  BY DEF MoveIntent, Command
<1>2. /\ PrisonTypeOK /\ PeopleGood /\ InPlay /\ p \in Players
      /\ Good(players[p]) /\ players[p] \in Persons
  BY <1>1, Handling
<1>3. UNCHANGED <<stage, tick>> /\ unlocked \subseteq unlocked'
  BY <1>1 DEF clock, map
<1> DEFINE w == [players[p].effects EXCEPT !["chameleon"] = Absent]
           q == [players[p] EXCEPT !.lastMove = tick, !.pending = 0, !.effects = w]
<1>4. players[p].effects \in [Effects -> Int] /\ players[p].spot \in Spots /\ tick \in Nat
  BY <1>2, PersonFields DEF PrisonTypeOK
<1>5. "chameleon" \in Effects /\ Absent \in Int
  BY DEF Effects, Absent
<1>6. w \in [Effects -> Int] /\ w["chameleon"] = Absent
  BY <1>4, <1>5
<1>7. \/ \E moved \in MoveAmong(q, Steps(q.spot)) : SetPlayer(p, moved)
      \/ \E stopped \in MoveAmong(players[p], {}) : SetPlayer(p, stopped)
  BY DEF MoveIntent
<1> HIDE DEF w
<1>8. /\ q \in Persons /\ q.lastMove = tick /\ q.pending = 0 /\ q.effects = w
      /\ q.role = players[p].role /\ q.room = players[p].room /\ q.spot = players[p].spot
  BY <1>2, <1>4, <1>6 DEF Persons
<1> HIDE DEF q
<1>9. Kept(q)
  BY <1>2, <1>8 DEF Good, Kept, MayBeIn, IsPrisoner
<1>10. CASE \E moved \in MoveAmong(q, Steps(q.spot)) : SetPlayer(p, moved)
  <2>1. PICK moved \in MoveAmong(q, Steps(q.spot)) : SetPlayer(p, moved)
    BY <1>10
  <2>2. Steps(q.spot) \in SUBSET Spots
    BY <1>4, <1>8, StepsTyped
  <2>3. /\ moved \in Persons /\ Kept(moved) /\ moved.effects = w
        /\ moved.pending = 0 /\ moved.lastMove = tick
    BY <1>8, <1>9, <2>2, MoveKeeps
  <2>4. Good(moved)
    BY <1>4, <1>6, <2>3 DEF Good, Still, HasChameleon
  <2>. QED
    BY <1>2, <1>3, <2>1, <2>4, OnePlayer
<1>11. CASE \E stopped \in MoveAmong(players[p], {}) : SetPlayer(p, stopped)
  <2>1. PICK stopped \in MoveAmong(players[p], {}) : SetPlayer(p, stopped)
    BY <1>11
  <2>2. /\ stopped \in Persons /\ Kept(stopped) /\ stopped.effects = players[p].effects
        /\ stopped.pending = players[p].pending /\ stopped.lastMove = players[p].lastMove
    BY <1>2, MoveKeeps DEF Good
  <2>3. Good(stopped)
    BY <1>2, <2>2 DEF Good, Still, HasChameleon
  <2>. QED
    BY <1>2, <1>3, <2>1, <2>3, OnePlayer
<1>. QED
  BY <1>7, <1>10, <1>11

LEMMA StruckStep ==
    ASSUME PrisonInv, NEW p \in DOMAIN players, Struck(p)
    PROVE  PeopleGood' /\ Players' = Players
<1>1. Handle /\ UNCHANGED <<clock, map>>
  BY DEF Struck
<1>2. /\ PrisonTypeOK /\ PeopleGood /\ InPlay /\ p \in Players
      /\ Good(players[p]) /\ players[p] \in Persons
  BY <1>1, Handling
<1>3. UNCHANGED <<stage, tick>> /\ unlocked \subseteq unlocked'
  BY <1>1 DEF clock, map
<1>4. PICK moved \in MoveAmong(players[p], KnockSteps(players[p].spot)) :
          SetPlayer(p, [moved EXCEPT !.stunned = Larger(@, tick + StunTicks)])
  BY DEF Struck
<1>5. KnockSteps(players[p].spot) \in SUBSET Spots
  BY <1>2, PersonFields, StepsTyped
<1>6. /\ moved \in Persons /\ Kept(moved) /\ moved.effects = players[p].effects
      /\ moved.pending = players[p].pending /\ moved.lastMove = players[p].lastMove
  BY <1>2, <1>5, MoveKeeps DEF Good
<1>7. Good(moved)
  BY <1>2, <1>6 DEF Good, Still, HasChameleon
<1> DEFINE n == Larger(moved.stunned, tick + StunTicks)
           u == [moved EXCEPT !.stunned = n]
<1>8. n \in Nat
  BY <1>2, <1>6, PersonFields, PrisonAssumption, SMTT(30) DEF Larger, PrisonTypeOK
<1>9. SetPlayer(p, u)
  BY <1>4
<1> HIDE DEF n
<1>10. /\ u \in Persons /\ u.role = moved.role /\ u.room = moved.room /\ u.spot = moved.spot
       /\ u.pending = moved.pending /\ u.lastMove = moved.lastMove /\ u.effects = moved.effects
  BY <1>6, <1>8 DEF Persons
<1> HIDE DEF u
<1>11. Good(u)
  BY <1>7, <1>10, GoodSame
<1>. QED
  BY <1>2, <1>3, <1>9, <1>11, OnePlayer

LEMMA ShotStep ==
    ASSUME PrisonInv, NEW p \in DOMAIN players, Shot(p)
    PROVE  PeopleGood' /\ Players' = Players
<1>1. Handle /\ UNCHANGED <<clock, map>>
  BY DEF Shot
<1>2. /\ PrisonTypeOK /\ PeopleGood /\ InPlay /\ p \in Players
      /\ Good(players[p]) /\ players[p] \in Persons
  BY <1>1, Handling
<1>3. UNCHANGED <<stage, tick>> /\ unlocked \subseteq unlocked'
  BY <1>1 DEF clock, map
<1> DEFINE home == respawnLocation(players[p].role)
           u == Respawned(players[p])
           v == [players[p] EXCEPT !.alive = FALSE, !.stunned = 0]
<1>4. home \in Rooms /\ MayBeIn(players[p], home)
  BY <1>2, PersonFields, SpawnKeeps
<1>5. NoEffects \in [Effects -> Int] /\ NoEffects["chameleon"] = Absent
  BY DEF NoEffects, Absent, Effects
<1>6. Inside(home) \in Spots /\ RoomAt(Inside(home)) = home
  BY <1>4 DEF Inside, Spots, RoomAt
<1>7. Good(u)
  <2>1. u = [players[p] EXCEPT !.room = home, !.spot = Inside(home),
                !.stunned = 0, !.solitary = 0, !.locked = FALSE, !.effects = NoEffects]
    BY DEF Respawned
  <2> HIDE DEF home, u
  <2>2. /\ u \in Persons /\ u.role = players[p].role /\ u.room = home /\ u.spot = Inside(home)
        /\ u.pending = players[p].pending /\ u.lastMove = players[p].lastMove
        /\ u.effects = NoEffects
    BY <1>2, <1>4, <1>5, <1>6, <2>1 DEF Persons, Spots
  <2>3. Kept(u)
    BY <1>4, <1>6, <2>2 DEF Kept, MayBeIn, IsPrisoner
  <2>4. Still(u)
    BY <1>2, <1>5, <2>2 DEF Good, Still, HasChameleon
  <2>. QED
    BY <2>2, <2>3, <2>4 DEF Good
<1>8. Good(v)
  <2>1. /\ v \in Persons /\ v.role = players[p].role /\ v.room = players[p].room
        /\ v.spot = players[p].spot /\ v.effects = players[p].effects
        /\ v.pending = players[p].pending /\ v.lastMove = players[p].lastMove
    BY <1>2 DEF Persons
  <2> HIDE DEF v
  <2>. QED
    BY <1>2, <2>1, GoodSame
<1>9. SetPlayer(p, u) \/ SetPlayer(p, v)
  BY DEF Shot
<1> HIDE DEF u, v
<1>. QED
  BY <1>2, <1>3, <1>7, <1>8, <1>9, OnePlayer

\* Interactions that change the player.
LEMMA RoomStep ==
    ASSUME PrisonInv, NEW p \in DOMAIN players, NEW r, NEW route,
           (r \in CommandRooms /\ EnterRoom(p, r)) \/ tryEscapeRoute(p, route)
    PROVE  PeopleGood' /\ Players' = Players
<1>1. Handle /\ UNCHANGED <<clock, map>>
  BY DEF EnterRoom, tryEscapeRoute, Command
<1>2. /\ PrisonTypeOK /\ PeopleGood /\ InPlay /\ p \in Players
      /\ Good(players[p]) /\ players[p] \in Persons
  BY <1>1, Handling
<1>3. UNCHANGED <<stage, tick>> /\ unlocked \subseteq unlocked'
  BY <1>1 DEF clock, map
<1>4. CommandRooms \subseteq Rooms
  BY PrisonAssumption
<1>5. PICK to \in Rooms \cup {"escaped"} :
          MayBeIn(players[p], to) /\ SetPlayer(p, [players[p] EXCEPT !.room = to])
  <2>1. CASE r \in CommandRooms /\ EnterRoom(p, r)
    <3>1. MayBeIn(players[p], r)
      BY <1>2, <1>4, <2>1, EntryKeeps DEF EnterRoom
    <3>. QED
      BY <1>4, <2>1, <3>1 DEF EnterRoom
  <2>2. CASE tryEscapeRoute(p, route)
    BY <2>2 DEF tryEscapeRoute, MayBeIn
  <2>. QED
    BY <2>1, <2>2
<1> DEFINE u == [players[p] EXCEPT !.room = to]
<1>6. /\ u \in Persons /\ u.role = players[p].role /\ u.room = to
      /\ u.spot = players[p].spot /\ u.effects = players[p].effects
      /\ u.pending = players[p].pending /\ u.lastMove = players[p].lastMove
  BY <1>2 DEF Persons
<1>7. SetPlayer(p, u)
  BY <1>5
<1> HIDE DEF u
<1>8. Good(u)
  BY <1>2, <1>5, <1>6 DEF Good, Kept, MayBeIn, IsPrisoner, Still, HasChameleon
<1>. QED
  BY <1>2, <1>3, <1>7, <1>8, OnePlayer

\* Abilities and cards.
LEMMA RegisteredGood ==
    ASSUME PrisonTypeOK, NEW q, Good(q)
    PROVE  Good(Registered(q))
<1>1. q \in Persons
  BY DEF Good
<1> DEFINE u == Registered(q)
<1>2. /\ u \in Persons /\ u.role = q.role /\ u.room = q.room /\ u.spot = q.spot
      /\ u.effects = q.effects /\ u.pending = q.pending /\ u.lastMove = q.lastMove
  BY <1>1, RegisteredKeeps
<1> HIDE DEF u
<1>3. Good(u)
  BY <1>2, GoodSame
<1>. QED
  BY <1>3 DEF u

LEMMA EffectGood ==
    ASSUME NEW q, Good(q), NEW e \in Effects \ {"chameleon"}, NEW until \in Int
    PROVE  Good(WithEffect(q, e, until))
<1>1. q \in Persons
  BY DEF Good
<1> DEFINE u == WithEffect(q, e, until)
<1>2. /\ u \in Persons /\ u.role = q.role /\ u.room = q.room /\ u.spot = q.spot
      /\ u.pending = q.pending /\ u.lastMove = q.lastMove
      /\ u.effects["chameleon"] = q.effects["chameleon"]
  BY <1>1, EffectKeeps
<1> HIDE DEF u
<1>3. Good(u)
  BY <1>2, GoodSame
<1>. QED
  BY <1>3 DEF u

LEMMA RegisteredStep ==
    ASSUME PrisonInv, NEW p \in DOMAIN players, Handle, SetPlayer(p, Registered(players[p])),
           UNCHANGED clock, unlocked \subseteq unlocked'
    PROVE  PeopleGood' /\ Players' = Players
<1>1. PrisonTypeOK /\ PeopleGood /\ InPlay /\ p \in Players /\ Good(players[p])
  BY Handling
<1>2. UNCHANGED <<stage, tick>>
  BY DEF clock
<1>3. Good(Registered(players[p]))
  BY <1>1, RegisteredGood
<1>. QED
  BY <1>1, <1>2, <1>3, OnePlayer

LEMMA EffectStep ==
    ASSUME PrisonInv, NEW p \in DOMAIN players, NEW a, UseOnSelf(p, a) \/ PlaySpeed(p)
    PROVE  PeopleGood' /\ Players' = Players
<1>1. Handle /\ UNCHANGED <<clock, map>>
  BY DEF UseOnSelf, UseAbility, Command, PlaySpeed
<1>2. /\ PrisonTypeOK /\ PeopleGood /\ InPlay /\ p \in Players /\ Good(players[p])
  BY <1>1, Handling
<1>3. UNCHANGED <<stage, tick>> /\ unlocked \subseteq unlocked'
  BY <1>1 DEF clock, map
<1>4. \A e \in Effects \ {"chameleon"} : tick + EffectTicks[e] \in Int
  BY <1>2, PrisonAssumption DEF PrisonTypeOK
<1>5. CASE UseOnSelf(p, a)
  <2> DEFINE e == ViewEffect[a]
             q == WithEffect(players[p], e, tick + EffectTicks[e])
  <2>1. e \in Effects \ {"chameleon"}
    BY <1>5 DEF UseOnSelf, ViewEffect, Effects
  <2>2. SetPlayer(p, Registered(q))
    BY <1>5 DEF UseOnSelf
  <2> HIDE DEF e
  <2>3. Good(q)
    BY <1>2, <1>4, <2>1, EffectGood
  <2> HIDE DEF q
  <2>4. Good(Registered(q))
    BY <1>2, <2>3, RegisteredGood
  <2>. QED
    BY <1>2, <1>3, <2>2, <2>4, OnePlayer
<1>6. CASE PlaySpeed(p)
  <2> DEFINE q == WithEffect(players[p], "speed_boost", tick + EffectTicks["speed_boost"])
  <2>1. "speed_boost" \in Effects \ {"chameleon"}
    BY DEF Effects
  <2>2. SetPlayer(p, q)
    BY <1>6 DEF PlaySpeed
  <2>3. Good(q)
    BY <1>2, <1>4, <2>1, EffectGood
  <2> HIDE DEF q
  <2>. QED
    BY <1>2, <1>3, <2>2, <2>3, OnePlayer
<1>. QED
  BY <1>5, <1>6

LEMMA ChameleonStep ==
    ASSUME PrisonInv, NEW p \in DOMAIN players, UseChameleon(p)
    PROVE  PeopleGood' /\ Players' = Players
<1>1. Handle /\ UNCHANGED <<clock, map>>
  BY DEF UseChameleon, UseAbility, Command
<1>2. PrisonTypeOK /\ PeopleGood /\ InPlay /\ p \in Players /\ Good(players[p])
  BY <1>1, Handling
<1>3. UNCHANGED <<stage, tick>> /\ unlocked \subseteq unlocked'
  BY <1>1 DEF clock, map
<1> DEFINE q == Registered(players[p])
           u == [q EXCEPT !.pending = tick + PendingTicks]
<1>4. SetPlayer(p, u)
  BY DEF UseChameleon
<1>5. Good(q)
  BY <1>2, RegisteredGood
<1> HIDE DEF q
<1>6. q \in Persons /\ tick \in Nat /\ PendingTicks \in Nat /\ q.lastMove \in Nat
      /\ q.lastMove <= tick
  BY <1>2, <1>5, PersonFields, PrisonAssumption DEF Good, Still, PrisonTypeOK
<1>7. /\ u \in Persons /\ u.role = q.role /\ u.room = q.room /\ u.spot = q.spot
      /\ u.effects = q.effects /\ u.pending = tick + PendingTicks /\ u.lastMove = q.lastMove
  BY <1>6 DEF Persons
<1> HIDE DEF u
<1>8. Good(u)
  BY <1>5, <1>6, <1>7 DEF Good, Kept, MayBeIn, IsPrisoner, Still, HasChameleon
<1>. QED
  BY <1>2, <1>3, <1>4, <1>8, OnePlayer

LEMMA JailStep ==
    ASSUME PrisonInv, NEW p \in DOMAIN players, PlayGetOutOfJail(p)
    PROVE  PeopleGood' /\ Players' = Players
<1>1. Handle /\ UNCHANGED <<clock, map>>
  BY DEF PlayGetOutOfJail
<1>2. /\ PrisonTypeOK /\ PeopleGood /\ InPlay /\ p \in Players
      /\ Good(players[p]) /\ players[p] \in Persons
  BY <1>1, Handling
<1>3. UNCHANGED <<stage, tick>> /\ unlocked \subseteq unlocked'
  BY <1>1 DEF clock, map
<1> DEFINE u == [players[p] EXCEPT !.solitary = 0, !.locked = FALSE]
<1>4. SetPlayer(p, u)
  BY DEF PlayGetOutOfJail
<1>5. /\ u \in Persons /\ u.role = players[p].role /\ u.room = players[p].room
      /\ u.spot = players[p].spot /\ u.effects = players[p].effects
      /\ u.pending = players[p].pending /\ u.lastMove = players[p].lastMove
  BY <1>2 DEF Persons
<1> HIDE DEF u
<1>6. Good(u)
  BY <1>2, <1>5, GoodSame
<1>. QED
  BY <1>2, <1>3, <1>4, <1>6, OnePlayer

LEMMA DetainerStep ==
    ASSUME PrisonInv, NEW p \in DOMAIN players, NEW t \in Players, UseDetainer(p, t)
    PROVE  PeopleGood' /\ Players' = Players
<1>1. Handle /\ UNCHANGED <<clock, map>> /\ t # p
  BY DEF UseDetainer, UseAbility, Command, Targets
<1>2. /\ PrisonTypeOK /\ PeopleGood /\ InPlay /\ p \in Players
      /\ Good(players[p]) /\ players[p] \in Persons
  BY <1>1, Handling
<1>3. UNCHANGED <<stage, tick>> /\ UNCHANGED unlocked
  BY <1>1 DEF clock, map
<1>4. Good(players[t]) /\ players[t] \in Persons /\ players \in [Players -> Persons]
  BY <1>2 DEF PeopleGood, Good
<1> DEFINE until == tick + EffectTicks["camera_view"]
           n == Larger(players[t].solitary, until)
           u == Registered(players[p])
           v == Detained(players[t], until)
<1>5. n \in Nat
  <2>1. "camera_view" \in Effects \ {"chameleon"}
    BY DEF Effects
  <2>2. until \in Nat
    BY <1>2, <2>1, PrisonAssumption, SMTT(30) DEF PrisonTypeOK
  <2>3. players[t].solitary \in Nat
    BY <1>4, PersonFields
  <2> HIDE DEF until
  <2>. QED
    BY <2>2, <2>3 DEF Larger
<1>6. players' = [players EXCEPT ![p] = u, ![t] = v]
  BY <1>1 DEF UseDetainer
<1> HIDE DEF until
<1>6a. v = [players[t] EXCEPT !.solitary = n, !.locked = TRUE]
  BY DEF Detained
<1> HIDE DEF n
<1>7. /\ v \in Persons /\ v.role = players[t].role /\ v.room = players[t].room
      /\ v.spot = players[t].spot /\ v.effects = players[t].effects
      /\ v.pending = players[t].pending /\ v.lastMove = players[t].lastMove
  BY <1>4, <1>5, <1>6a, ZenonT(30) DEF Persons
<1>8. Good(u) /\ u \in Persons
  BY <1>2, RegisteredGood DEF Good
<1> HIDE DEF u, v
<1>9. Good(v)
  BY <1>4, <1>7, GoodSame
<1>10. /\ players' \in [Players -> Persons] /\ players'[p] = u /\ players'[t] = v
       /\ \A o \in Players \ {p, t} : players'[o] = players[o]
  BY <1>1, <1>2, <1>4, <1>6, <1>7, <1>8
<1>11. Players' = Players
  BY <1>2, <1>3, <1>4, <1>10 DEF InPlay, Players
<1>12. \A o \in Players : Good(players'[o])
  BY <1>2, <1>8, <1>9, <1>10 DEF PeopleGood
<1>13. \A o \in Players : Good(players[o])'
  BY <1>3, <1>12 DEF Good, Kept, MayBeIn, IsPrisoner, RoomAt, Still, HasChameleon
<1>. QED
  BY <1>10, <1>11, <1>13 DEF PeopleGood

\* The end of a tick.
LEMMA EndTickPeople ==
    ASSUME PrisonInv, EndTick
    PROVE  PeopleGood' /\ Players' = Players
<1>1. /\ InPlay /\ tick' = tick + 1 /\ UNCHANGED <<stage, unlocked>>
      /\ players' = [p \in Players |-> expirePending(expireEffects(players[p]))]
  BY DEF EndTick, InPlay
<1>2. PrisonTypeOK /\ PeopleGood
  BY PeopleAreGood DEF PrisonInv
<1>3. players \in [Players -> Persons] /\ \A p \in Players : Good(players[p])
  BY <1>1, <1>2 DEF PeopleGood
<1>4. ASSUME NEW p \in Players
      PROVE  players'[p] \in Persons /\ Good(players[p])'
  <2> DEFINE q == players[p]
             u == expirePending(expireEffects(q))
  <2>1. q \in Persons /\ Kept(q) /\ Still(q)
    BY <1>3 DEF Good
  <2>2. /\ u \in Persons /\ u.role = q.role /\ u.room = q.room /\ u.spot = q.spot
        /\ u.lastMove = q.lastMove
        /\ u.pending \in {q.pending, 0}
        /\ \/ u.effects["chameleon"] \in {q.effects["chameleon"], Absent}
           \/ q.pending # 0 /\ tick >= q.pending
    BY <1>2, <2>1, ExpireKeeps
  <2>3. players'[p] = u
    BY <1>1
  <2> HIDE DEF u
  <2>4. Kept(players[p])'
    BY <1>1, <2>1, <2>2, <2>3 DEF Kept, MayBeIn, IsPrisoner, RoomAt
  <2>5. tick \in Nat /\ PendingTicks \in Nat /\ q.lastMove \in Nat /\ q.pending \in Nat
    BY <1>2, <2>1, PersonFields, PrisonAssumption DEF PrisonTypeOK
  <2>6. /\ q.lastMove <= tick
        /\ q.pending # 0 => q.pending >= q.lastMove + PendingTicks
        /\ q.effects["chameleon"] # Absent => tick > q.lastMove + PendingTicks
    BY <2>1 DEF Still, HasChameleon
  <2> HIDE DEF q
  <2>7. /\ u.lastMove <= tick + 1
        /\ u.pending # 0 => u.pending >= u.lastMove + PendingTicks
    BY <2>2, <2>5, <2>6
  <2>8. u.effects["chameleon"] # Absent => tick + 1 > u.lastMove + PendingTicks
    BY <2>2, <2>5, <2>6
  <2>9. Still(players[p])'
    BY <1>1, <2>3, <2>7, <2>8 DEF Still, HasChameleon
  <2>. QED
    BY <2>2, <2>3, <2>4, <2>9 DEF Good
<1>5. players' \in [Players -> Persons]
  <2>1. players' = [p \in Players |-> players'[p]]
    BY <1>1
  <2>. QED
    BY <1>4, <2>1
<1>6. Players' = Players
  BY <1>1, <1>3, <1>5 DEF InPlay, Players
<1>. QED
  BY <1>4, <1>5, <1>6 DEF PeopleGood

\* The match starts.
LEMMA StartPeople ==
    ASSUME PrisonInv, StartMatch
    PROVE  PeopleGood' /\ Players' = Players
<1>1. PrisonTypeOK /\ stage = "deal" /\ stage' = "play" /\ tick' = tick /\ UNCHANGED unlocked
  BY DEF PrisonInv, StartMatch, map
<1>2. PICK ability \in Deals :
          /\ {RoleOf(p) : p \in Players} \subseteq DOMAIN ability
          /\ players' = [p \in Players |-> NewPlayer(RoleOf(p), ability[RoleOf(p)])]
  BY DEF StartMatch
<1>3. Players' = Players
  BY <1>1, <1>2 DEF Players
<1>4. ASSUME NEW p \in Players
      PROVE  players'[p] \in Persons /\ Good(players[p])'
  <2> DEFINE role == RoleOf(p)
             a == ability[role]
             u == NewPlayer(role, a)
             home == respawnLocation(role)
  <2>1. role \in Roles
    BY <1>1, RoleTyped
  <2>2. a \in Abilities
    <3>1. role \in DOMAIN ability
      BY <1>2
    <3>2. a \in AbilitiesForPlayer(role)
      BY <3>1, PrisonAssumption
    <3>3. AbilitiesForPlayer(role) \subseteq Abilities
      <4>1. \/ AbilitiesForPlayer(role) = {"alarm"} \cup AuthorityAbilities
            \/ AbilitiesForPlayer(role) = AuthorityAbilities
            \/ AbilitiesForPlayer(role) = PrisonerAbilities
        BY DEF AbilitiesForPlayer
      <4>. QED
        BY <4>1 DEF Abilities
    <3>. QED
      BY <3>2, <3>3
  <2>3. players'[p] = u
    BY <1>2
  <2> HIDE DEF role, a
  <2>4. /\ u.role = role /\ u.room = home /\ u.spot = Inside(home) /\ u.pending = 0
        /\ u.lastMove = 0 /\ u.effects = NoEffects
    BY DEF NewPlayer
  <2>5. home \in Rooms /\ MayBeIn(u, home)
    BY <2>1, <2>4, SpawnKeeps
  <2>6. Inside(home) \in Spots /\ RoomAt(Inside(home)) = home
    BY <2>5 DEF Inside, Spots, RoomAt
  <2>7. NoEffects \in [Effects -> Int] /\ NoEffects["chameleon"] = Absent
    BY DEF NoEffects, Absent, Effects
  <2>8. u \in Persons
    <3> HIDE DEF home
    <3>1. u = [role |-> role, ability |-> a, alive |-> TRUE, room |-> home,
               spot |-> Inside(home), stunned |-> 0, solitary |-> 0,
               locked |-> FALSE, effects |-> NoEffects, cooldown |-> 0,
               used |-> [day |-> 0, count |-> 0], pending |-> 0, lastMove |-> 0]
      BY DEF NewPlayer, home
    <3>. QED
      BY <2>1, <2>2, <2>5, <2>6, <2>7, <3>1 DEF Persons, Roles, Spots
  <2> HIDE DEF u, home
  <2>9. tick \in Nat
    BY <1>1 DEF PrisonTypeOK
  <2>. QED
    BY <1>1, <2>3, <2>4, <2>5, <2>6, <2>7, <2>8, <2>9
       DEF Good, Kept, MayBeIn, IsPrisoner, Still, HasChameleon, RoomAt
<1>5. players' \in [Players -> Persons]
  <2>1. players' = [p \in Players |-> players'[p]]
    BY <1>2
  <2>. QED
    BY <1>4, <2>1
<1>. QED
  BY <1>3, <1>4, <1>5 DEF PeopleGood

-----------------------------------------------------------------------------
(* Steps and the players *)

\* The doors that commands name.
LEMMA NamedTyped ==
    NamedDoors \subseteq Doors
BY PrisonAssumption DEF NamedDoors, Doors

\* A step of a command that changes the map and no player.
MapStep(p, d, r) ==
    \/ d \in NamedDoors /\ tryToggleDoorForPlayer(p, d)
    \/ d \in NamedDoors /\ PlayDoorStop(p, d)
    \/ tryTogglePower(p)
    \/ trySetNightlyBlackMarket(p, r)

\* A step that registers the use of an ability, which may change the map.
UseStep(p, d, a) ==
    \/ UseAlarm(p)
    \/ UseOnItems(p, a)
    \/ UseHacker(p)
    \/ d \in NamedDoors /\ UseLocksmith(p, d)

\* A step that changes a player and not the map.
PlayerStep(p, t, r, route, a) ==
    \/ MoveIntent(p) \/ Struck(p) \/ Shot(p)
    \/ r \in CommandRooms /\ EnterRoom(p, r)
    \/ tryEscapeRoute(p, route)
    \/ UseOnSelf(p, a) \/ PlaySpeed(p)
    \/ t \in Players /\ UseDetainer(p, t)
    \/ UseChameleon(p) \/ PlayGetOutOfJail(p)

LEMMA PrisonCases ==
    ASSUME [Next]_vars
    PROVE  \/ Deal \/ StartMatch \/ EndTick \/ UNCHANGED vars
           \/ \E p \in DOMAIN players :
                 \/ \E d, r : MapStep(p, d, r)
                 \/ \E d, a : UseStep(p, d, a)
                 \/ \E t, r, route, a : PlayerStep(p, t, r, route, a)
<1>1. CASE Deal \/ StartMatch \/ EndTick \/ UNCHANGED vars
  BY <1>1
<1>2. ASSUME NEW p \in DOMAIN players,
             MoveIntent(p) \/ Interact(p) \/ Ability(p) \/ Card(p) \/ Struck(p) \/ Shot(p)
      PROVE  \/ \E d, r : MapStep(p, d, r)
             \/ \E d, a : UseStep(p, d, a)
             \/ \E t, r, route, a : PlayerStep(p, t, r, route, a)
  <2>1. CASE MoveIntent(p) \/ Struck(p) \/ Shot(p)
    BY <2>1, Zenon DEF PlayerStep
  <2>2. CASE Interact(p)
    BY <2>2, Zenon DEF Interact, MapStep, PlayerStep
  <2>3. CASE Ability(p)
    BY <2>3, Zenon DEF Ability, UseStep, PlayerStep
  <2>4. CASE Card(p)
    BY <2>4, Zenon DEF Card, MapStep, PlayerStep
  <2>. QED
    BY <1>2, <2>1, <2>2, <2>3, <2>4
<1>3. CASE \E p \in {q \in DOMAIN players : players[q].role \in Actors} :
          MoveIntent(p) \/ Interact(p) \/ Ability(p) \/ Card(p) \/ Struck(p) \/ Shot(p)
  <2>1. PICK p \in DOMAIN players :
            MoveIntent(p) \/ Interact(p) \/ Ability(p) \/ Card(p) \/ Struck(p) \/ Shot(p)
    BY <1>3, Zenon
  <2>2. \/ \E d, r : MapStep(p, d, r)
        \/ \E d, a : UseStep(p, d, a)
        \/ \E t, r, route, a : PlayerStep(p, t, r, route, a)
    BY <1>2, <2>1, Zenon
  <2>. QED
    BY <2>2, Zenon
<1>. QED
  BY <1>1, <1>3, Zenon DEF Next

\* A command in play leaves the clock alone, and takes no room back from prisoners.
LEMMA MapStepFrame ==
    ASSUME NEW p \in DOMAIN players, NEW d, NEW r, MapStep(p, d, r)
    PROVE  Handle /\ UNCHANGED <<clock, players, unlocked>>
BY DEF MapStep, tryToggleDoorForPlayer, PlayDoorStop, tryTogglePower, trySetNightlyBlackMarket,
       Command

LEMMA UseStepFrame ==
    ASSUME NEW p \in DOMAIN players, NEW d, NEW a, UseStep(p, d, a)
    PROVE  /\ Handle /\ SetPlayer(p, Registered(players[p])) /\ UNCHANGED clock
           /\ unlocked \subseteq unlocked'
<1>1. CASE UseAlarm(p)
  BY <1>1 DEF UseAlarm, UseAbility, Command
<1>2. CASE UseOnItems(p, a)
  BY <1>2 DEF UseOnItems, UseAbility, Command, map
<1>3. CASE UseHacker(p)
  BY <1>3 DEF UseHacker, UseAbility, Command
<1>4. CASE d \in NamedDoors /\ UseLocksmith(p, d)
  BY <1>4 DEF UseLocksmith, UseAbility, Command
<1>. QED
  BY <1>1, <1>2, <1>3, <1>4 DEF UseStep

LEMMA PlayerStepFrame ==
    ASSUME NEW p \in DOMAIN players, NEW t, NEW r, NEW route, NEW a,
           PlayerStep(p, t, r, route, a)
    PROVE  Handle /\ UNCHANGED <<clock, map>>
BY DEF PlayerStep, MoveIntent, Struck, Shot, EnterRoom, tryEscapeRoute, UseOnSelf, PlaySpeed,
       UseDetainer, UseChameleon, PlayGetOutOfJail, UseAbility, Command

\* Every step keeps every player good, and the match keeps its players.
LEMMA PeopleStep ==
    ASSUME PrisonInv, [Next]_vars
    PROVE  PeopleGood' /\ Players' = Players
<1>1. PeopleGood
  BY PeopleAreGood
<1>2. CASE Deal
  <2>1. UNCHANGED <<stage, tick, players, cast, unlocked>>
    BY <1>2 DEF Deal, shuffleRoleProfiles, map
  <2>. QED
    BY <1>1, <2>1, NoPlayer
<1>3. CASE StartMatch
  BY <1>3, StartPeople
<1>4. CASE EndTick
  BY <1>4, EndTickPeople
<1>5. CASE UNCHANGED vars
  <2>1. UNCHANGED <<stage, tick, players, cast, unlocked>>
    BY <1>5 DEF vars, clock, dealing, map
  <2>. QED
    BY <1>1, <2>1, NoPlayer
<1>6. ASSUME NEW p \in DOMAIN players, NEW d, NEW r, MapStep(p, d, r)
      PROVE  PeopleGood' /\ Players' = Players
  <2>1. UNCHANGED <<stage, tick, players, cast, unlocked>>
    BY <1>6, MapStepFrame DEF clock, dealing
  <2>. QED
    BY <1>1, <2>1, NoPlayer
<1>7. ASSUME NEW p \in DOMAIN players, NEW d, NEW a, UseStep(p, d, a)
      PROVE  PeopleGood' /\ Players' = Players
  BY <1>7, UseStepFrame, RegisteredStep
<1>8. ASSUME NEW p \in DOMAIN players, NEW t, NEW r, NEW route, NEW a,
             PlayerStep(p, t, r, route, a)
      PROVE  PeopleGood' /\ Players' = Players
  <2>1. CASE MoveIntent(p)
    BY <2>1, MoveStep
  <2>2. CASE Struck(p)
    BY <2>2, StruckStep
  <2>3. CASE Shot(p)
    BY <2>3, ShotStep
  <2>4. CASE r \in CommandRooms /\ EnterRoom(p, r)
    BY <2>4, RoomStep
  <2>5. CASE tryEscapeRoute(p, route)
    BY <2>5, RoomStep
  <2>6. CASE UseOnSelf(p, a) \/ PlaySpeed(p)
    BY <2>6, EffectStep
  <2>7. CASE t \in Players /\ UseDetainer(p, t)
    BY <2>7, DetainerStep
  <2>8. CASE UseChameleon(p)
    BY <2>8, ChameleonStep
  <2>9. CASE PlayGetOutOfJail(p)
    BY <2>9, JailStep
  <2>. QED
    BY <1>8, <2>1, <2>2, <2>3, <2>4, <2>5, <2>6, <2>7, <2>8, <2>9 DEF PlayerStep
<1>. QED
  BY <1>2, <1>3, <1>4, <1>5, <1>6, <1>7, <1>8, PrisonCases

-----------------------------------------------------------------------------
(* The map through a step *)

MapGood ==
    /\ doors \in [Doors -> DoorStates] /\ powerOn \in BOOLEAN
    /\ \A d \in Doors : ~powerOn => doors[d].open /\ ~doors[d].canClose

LEMMA MapIsGood ==
    ASSUME PrisonInv
    PROVE  MapGood
BY DEF PrisonInv, PrisonTypeOK, PowerOffOpensAll, MapGood

LEMMA DoorFields ==
    ASSUME NEW r \in DoorStates
    PROVE  /\ r.open \in BOOLEAN /\ r.canClose \in BOOLEAN /\ r.blocked \in Nat
           /\ r.by \in SUBSET Players
BY DEF DoorStates

\* One door changes, and if there is no power it stays open.
LEMMA OneDoor ==
    ASSUME MapGood, Players' = Players, NEW d \in Doors, NEW r \in DoorStates,
           doors' = [doors EXCEPT ![d] = r], powerOn' = powerOn,
           ~powerOn => r.open /\ ~r.canClose
    PROVE  MapGood'
<1>1. Doors' = Doors /\ DoorStates' = DoorStates
  BY DEF Doors, DoorStates
<1>2. /\ doors' \in [Doors -> DoorStates] /\ doors'[d] = r
      /\ \A c \in Doors \ {d} : doors'[c] = doors[c]
  BY DEF MapGood
<1>3. \A c \in Doors : ~powerOn => doors'[c].open /\ ~doors'[c].canClose
  BY <1>2 DEF MapGood
<1>. QED
  BY <1>1, <1>2, <1>3 DEF MapGood

LEMMA SameDoors ==
    ASSUME MapGood, Players' = Players, UNCHANGED <<doors, powerOn>>
    PROVE  MapGood'
<1>1. Doors' = Doors /\ DoorStates' = DoorStates
  BY SMTT(30) DEF Doors, DoorStates
<1>. QED
  BY <1>1 DEF MapGood

LEMMA PowerDoors ==
    ASSUME MapGood, Players' = Players, NEW on \in BOOLEAN, ApplyPowerState(on)
    PROVE  MapGood'
<1>1. Doors' = Doors /\ DoorStates' = DoorStates
  BY DEF Doors, DoorStates
<1>2. /\ powerOn' = on
      /\ doors' = [d \in Doors |-> [doors[d] EXCEPT !.canClose = on, !.open = @ \/ ~on]]
  BY DEF ApplyPowerState
<1>3. ASSUME NEW d \in Doors
      PROVE  /\ doors'[d] \in DoorStates
             /\ ~on => doors'[d].open /\ ~doors'[d].canClose
  <2>1. doors[d] \in DoorStates
    BY DEF MapGood
  <2> DEFINE o == doors[d].open \/ ~on
  <2>2. o \in BOOLEAN /\ (~on => o)
    BY <2>1, DoorFields
  <2>3. doors'[d] = [doors[d] EXCEPT !.canClose = on, !.open = o]
    BY <1>2
  <2> HIDE DEF o
  <2>. QED
    BY <2>1, <2>2, <2>3 DEF DoorStates
<1>4. doors' \in [Doors -> DoorStates]
  BY <1>2, <1>3
<1>. QED
  BY <1>1, <1>2, <1>3, <1>4 DEF MapGood

LEMMA ExpireDoors ==
    ASSUME MapGood, Players' = Players, expireDoors, powerOn' = powerOn
    PROVE  MapGood'
<1>1. Doors' = Doors /\ DoorStates' = DoorStates
  BY DEF Doors, DoorStates
<1>2. ASSUME NEW d \in Doors
      PROVE  /\ doors'[d] \in DoorStates /\ doors'[d].open = doors[d].open
             /\ doors'[d].canClose = doors[d].canClose
  <2>1. doors[d] \in DoorStates
    BY DEF MapGood
  <2> DEFINE s == [doors[d] EXCEPT !.blocked = 0, !.by = {}]
  <2>2. doors'[d] = doors[d] \/ doors'[d] = s
    BY DEF expireDoors
  <2>3. s \in DoorStates /\ s.open = doors[d].open /\ s.canClose = doors[d].canClose
    BY <2>1 DEF DoorStates
  <2> HIDE DEF s
  <2>. QED
    BY <2>1, <2>2, <2>3
<1>3. doors' \in [Doors -> DoorStates]
  <2>1. doors' = [d \in Doors |-> doors'[d]]
    BY DEF expireDoors
  <2>. QED
    BY <1>2, <2>1
<1>. QED
  BY <1>1, <1>2, <1>3 DEF MapGood

LEMMA DoorsStep ==
    ASSUME PrisonInv, [Next]_vars
    PROVE  MapGood'
<1>1. MapGood /\ Players' = Players /\ NamedDoors \subseteq Doors
  BY MapIsGood, PeopleStep, NamedTyped
<1>2. CASE Deal
  BY <1>1, <1>2, SameDoors DEF Deal, map
<1>3. CASE StartMatch
  BY <1>1, <1>3, SameDoors DEF StartMatch, map
<1>4. CASE EndTick
  BY <1>1, <1>4, ExpireDoors DEF EndTick
<1>5. CASE UNCHANGED vars
  BY <1>1, <1>5, SameDoors DEF vars, map
<1>6. ASSUME NEW p \in DOMAIN players, NEW d, NEW r, MapStep(p, d, r)
      PROVE  MapGood'
  <2>1. CASE d \in NamedDoors /\ tryToggleDoorForPlayer(p, d)
    <3>1. d \in Doors /\ doors[d] \in DoorStates
      BY <1>1, <2>1 DEF MapGood
    <3> DEFINE s == [doors[d] EXCEPT !.open = ~doors[d].open]
    <3>2. doors' = [doors EXCEPT ![d] = s] /\ powerOn' = powerOn /\ (powerOn \/ ~doors[d].open)
      BY <2>1 DEF tryToggleDoorForPlayer
    <3>3. powerOn
      BY <1>1, <3>1, <3>2 DEF MapGood
    <3>4. s \in DoorStates
      BY <3>1 DEF DoorStates
    <3> HIDE DEF s
    <3>. QED
      BY <1>1, <3>1, <3>2, <3>3, <3>4, OneDoor
  <2>2. CASE d \in NamedDoors /\ PlayDoorStop(p, d)
    <3>1. d \in Doors /\ doors[d] \in DoorStates
      BY <1>1, <2>2 DEF MapGood
    <3> DEFINE s == Stopped(doors[d], p, tick + DoorStopTicks)
               n == Larger(doors[d].blocked, tick + DoorStopTicks)
    <3>2. doors' = [doors EXCEPT ![d] = s] /\ powerOn' = powerOn /\ powerOn
      BY <2>2 DEF PlayDoorStop
    <3>3. PrisonTypeOK /\ p \in Players
      BY <2>2, Handling DEF PlayDoorStop
    <3>4. n \in Nat
      <4>1. tick \in Nat /\ DoorStopTicks \in Nat /\ doors[d].blocked \in Nat
        BY <3>1, <3>3, DoorFields, PrisonAssumption DEF PrisonTypeOK
      <4>. QED
        BY <4>1 DEF Larger
    <3>5. s = [doors[d] EXCEPT !.open = FALSE, !.by = {p}, !.blocked = n]
      BY DEF Stopped
    <3> HIDE DEF s, n
    <3>6. s \in DoorStates
      BY <3>1, <3>3, <3>4, <3>5 DEF DoorStates
    <3>. QED
      BY <1>1, <3>1, <3>2, <3>6, OneDoor
  <2>3. CASE tryTogglePower(p)
    BY <1>1, <2>3, PowerDoors DEF tryTogglePower, MapGood
  <2>4. CASE trySetNightlyBlackMarket(p, r)
    BY <1>1, <2>4, SameDoors DEF trySetNightlyBlackMarket
  <2>. QED
    BY <1>6, <2>1, <2>2, <2>3, <2>4 DEF MapStep
<1>7. ASSUME NEW p \in DOMAIN players, NEW d, NEW a, UseStep(p, d, a)
      PROVE  MapGood'
  <2>1. CASE UseAlarm(p)
    BY <1>1, <2>1, SameDoors DEF UseAlarm
  <2>2. CASE UseOnItems(p, a)
    BY <1>1, <2>2, SameDoors DEF UseOnItems, map
  <2>3. CASE UseHacker(p)
    BY <1>1, <2>3, PowerDoors DEF UseHacker
  <2>4. CASE d \in NamedDoors /\ UseLocksmith(p, d)
    <3>1. d \in Doors /\ doors[d] \in DoorStates
      BY <1>1, <2>4 DEF MapGood
    <3> DEFINE s == [doors[d] EXCEPT !.open = TRUE]
    <3>2. doors' = [doors EXCEPT ![d] = s] /\ powerOn' = powerOn /\ powerOn
      BY <2>4 DEF UseLocksmith
    <3>3. s \in DoorStates
      BY <3>1 DEF DoorStates
    <3> HIDE DEF s
    <3>. QED
      BY <1>1, <3>1, <3>2, <3>3, OneDoor
  <2>. QED
    BY <1>7, <2>1, <2>2, <2>3, <2>4 DEF UseStep
<1>8. ASSUME NEW p \in DOMAIN players, NEW t, NEW r, NEW route, NEW a,
             PlayerStep(p, t, r, route, a)
      PROVE  MapGood'
  <2>1. UNCHANGED <<doors, powerOn>>
    BY <1>8, PlayerStepFrame DEF map
  <2>. QED
    BY <1>1, <2>1, SameDoors
<1>. QED
  BY <1>2, <1>3, <1>4, <1>5, <1>6, <1>7, <1>8, PrisonCases

-----------------------------------------------------------------------------
(* The clock and the dealing through a step *)

ClockGood ==
    /\ stage \in {"deal", "play"}
    /\ tick \in Nat \ {0}
    /\ stage = "deal" => /\ cast \in Casts /\ idx \in 1 .. Len(cast)
                         /\ profiles \in [1 .. Len(cast) -> Roles]
    /\ alarm \in Nat
    /\ unlocked \subseteq PrisonerRestricted
    /\ phase \in [day : BOOLEAN, started : Nat, ends : Nat]
    /\ handled \in Nat

LEMMA InvParts ==
    PrisonInv <=> ClockGood /\ MapGood /\ PeopleGood
BY DEF PrisonInv, PrisonTypeOK, PowerOffOpensAll, ClockGood, MapGood, PeopleGood, InPlay, Good,
       Roles

LEMMA DealKeeps ==
    ASSUME ClockGood, Deal
    PROVE  ClockGood'
<1>1. /\ cast \in Casts /\ idx \in 1 .. Len(cast) /\ profiles \in [1 .. Len(cast) -> Roles]
      /\ cast' = cast /\ idx' = idx - 1 /\ ~(idx <= 1) /\ UNCHANGED <<stage, tick, phase, handled>>
      /\ UNCHANGED <<alarm, unlocked>>
  BY DEF ClockGood, Deal, shuffleRoleProfiles, Dealt, map
<1>2. PICK j \in 1 .. idx :
          profiles' = [profiles EXCEPT ![idx] = profiles[j], ![j] = profiles[idx]]
  BY DEF Deal, shuffleRoleProfiles
<1>3. Len(cast) \in Nat
  BY <1>1, CastTyped
<1>4. j \in 1 .. Len(cast) /\ idx' \in 1 .. Len(cast)
  BY <1>1, <1>3
<1>5. profiles' \in [1 .. Len(cast) -> Roles]
  BY <1>1, <1>2, <1>4
<1>. QED
  BY <1>1, <1>4, <1>5 DEF ClockGood

LEMMA EndTickClock ==
    ASSUME ClockGood, EndTick
    PROVE  ClockGood'
<1>1. /\ tick \in Nat /\ tick' = tick + 1 /\ stage = "play" /\ UNCHANGED <<stage, unlocked, handled>>
      /\ alarm \in Nat /\ phase \in [day : BOOLEAN, started : Nat, ends : Nat]
  BY DEF ClockGood, EndTick
<1>2. alarm' \in Nat
  BY <1>1 DEF EndTick, AdvancePhase
<1>3. phase' \in [day : BOOLEAN, started : Nat, ends : Nat]
  <2>1. CASE phase' = phase
    BY <1>1, <2>1
  <2>2. CASE phase' = [day |-> ~phase.day, started |-> phase.ends,
                       ends |-> phase.ends + IF phase.day THEN NightTicks ELSE DayTicks]
    <3>1. NightTicks \in Nat /\ DayTicks \in Nat /\ phase.ends \in Nat
      BY <1>1, PrisonAssumption
    <3>2. phase.ends + (IF phase.day THEN NightTicks ELSE DayTicks) \in Nat
      BY <3>1
    <3>3. (~phase.day) \in BOOLEAN
      OBVIOUS
    <3>. QED
      BY <2>2, <3>1, <3>2, <3>3
  <2>. QED
    BY <2>1, <2>2 DEF EndTick, AdvancePhase
<1>4. tick' \in Nat \ {0}
  BY <1>1
<1>. QED
  BY <1>1, <1>2, <1>3, <1>4 DEF ClockGood

LEMMA CommandClock ==
    ASSUME ClockGood, Handle, UNCHANGED clock, alarm' \in Nat,
           unlocked' \subseteq PrisonerRestricted
    PROVE  ClockGood'
BY DEF ClockGood, Handle, clock, dealing

LEMMA ClockStep ==
    ASSUME PrisonInv, [Next]_vars
    PROVE  ClockGood'
<1>1. ClockGood
  BY InvParts
<1>2. CASE Deal
  BY <1>1, <1>2, DealKeeps
<1>3. CASE StartMatch
  BY <1>1, <1>3 DEF ClockGood, StartMatch, map
<1>4. CASE EndTick
  BY <1>1, <1>4, EndTickClock
<1>5. CASE UNCHANGED vars
  BY <1>1, <1>5 DEF ClockGood, vars, clock, dealing, map
<1>6. ASSUME NEW p \in DOMAIN players, NEW d, NEW r, MapStep(p, d, r)
      PROVE  ClockGood'
  <2>1. Handle /\ UNCHANGED <<clock, unlocked>>
    BY <1>6, MapStepFrame
  <2>2. UNCHANGED alarm
    BY <1>6 DEF MapStep, tryToggleDoorForPlayer, PlayDoorStop, tryTogglePower,
                trySetNightlyBlackMarket
  <2>. QED
    BY <1>1, <2>1, <2>2, CommandClock DEF ClockGood
<1>7. ASSUME NEW p \in DOMAIN players, NEW d, NEW a, UseStep(p, d, a)
      PROVE  ClockGood'
  <2>1. Handle /\ UNCHANGED clock
    BY <1>7, UseStepFrame
  <2>2. tick + AlarmTicks \in Nat
    BY <1>1, PrisonAssumption DEF ClockGood
  <2>3. alarm' \in Nat
    BY <1>1, <1>7, <2>2 DEF ClockGood, UseStep, UseAlarm, UseOnItems, UseHacker, UseLocksmith, map
  <2>4. unlocked' \subseteq PrisonerRestricted
    BY <1>1, <1>7 DEF ClockGood, UseStep, UseAlarm, UseOnItems, UseHacker, UseLocksmith, map
  <2>. QED
    BY <1>1, <2>1, <2>3, <2>4, CommandClock
<1>8. ASSUME NEW p \in DOMAIN players, NEW t, NEW r, NEW route, NEW a,
             PlayerStep(p, t, r, route, a)
      PROVE  ClockGood'
  <2>1. Handle /\ UNCHANGED <<clock, alarm, unlocked>>
    BY <1>8, PlayerStepFrame DEF map
  <2>. QED
    BY <1>1, <2>1, CommandClock DEF ClockGood
<1>. QED
  BY <1>2, <1>3, <1>4, <1>5, <1>6, <1>7, <1>8, PrisonCases

-----------------------------------------------------------------------------
(* The invariant, and what follows from it *)

LEMMA InitInv ==
    ASSUME Init
    PROVE  PrisonInv
<1>1. /\ stage = "deal" /\ tick = 1 /\ powerOn = TRUE /\ alarm = 0 /\ unlocked = {}
      /\ phase = [day |-> TRUE, started |-> 1, ends |-> 1 + DayTicks] /\ handled = 0
      /\ doors = [d \in Doors |-> [open |-> d \notin Players, canClose |-> TRUE,
                                   blocked |-> 0, by |-> {}]]
  BY DEF Init
<1>2. cast \in Casts /\ idx \in 1 .. Len(cast) /\ profiles \in [1 .. Len(cast) -> Roles]
  BY DealTyped DEF Init
<1>3. ClockGood
  <2>1. 1 + DayTicks \in Nat
    BY PrisonAssumption
  <2>. QED
    BY <1>1, <1>2, <2>1 DEF ClockGood
<1>4. MapGood
  <2>1. \A d \in Doors : [open |-> d \notin Players, canClose |-> TRUE,
                          blocked |-> 0, by |-> {}] \in DoorStates
    BY DEF DoorStates
  <2>. QED
    BY <1>1, <2>1 DEF MapGood
<1>5. PeopleGood
  BY <1>1 DEF PeopleGood, InPlay
<1>. QED
  BY <1>3, <1>4, <1>5, InvParts

LEMMA StepInv ==
    ASSUME PrisonInv, [Next]_vars
    PROVE  PrisonInv'
<1>1. ClockGood' /\ MapGood' /\ PeopleGood'
  BY ClockStep, DoorsStep, PeopleStep
<1>. QED
  BY <1>1 DEF PrisonInv, PrisonTypeOK, PowerOffOpensAll, ClockGood, MapGood, PeopleGood, InPlay,
              Good, Roles

\* What every tick and every command keeps, whatever the layout, the players and the
\* durations: types, open doors without power, kept rooms and chameleons that are
\* still, with the pending chameleons and the positions that these rest on.
THEOREM PrisonInvariant == Spec => []PrisonInv
<1>1. PrisonInv /\ [Next]_vars => PrisonInv'
  BY StepInv
<1>. QED
  BY <1>1, InitInv, PTL DEF Spec

\* Without power every door stands open and none can be closed (ApplyPowerState,
\* tryToggleDoorForPlayerLocked, applyCardCommandLocked).
THEOREM PowerFailureOpens == Spec => []PowerOffOpensAll
<1>1. PrisonInv => PowerOffOpensAll
  BY DEF PrisonInv
<1>. QED
  BY <1>1, PrisonInvariant, PTL

\* No player is ever, by position or by interaction, in a room kept from them
\* (canPlayerEnterRoomLocked, canOccupyPosition).
THEOREM RoomsKept == Spec => []RestrictedRoomsKept
<1>1. PrisonInv => RestrictedRoomsKept
  BY DEF PrisonInv, RestrictedRoomsKept, Kept, MayBeIn
<1>. QED
  BY <1>1, PrisonInvariant, PTL

\* Whoever is hidden as a chameleon has not moved for the time that it takes
\* (chameleonPendingUntil, lastMoveIntentTick).
THEOREM HiddenStill == Spec => []HiddenOnlyWhenStill
<1>1. PrisonInv => HiddenOnlyWhenStill
  BY DEF PrisonInv, HiddenOnlyWhenStill, Still
<1>. QED
  BY <1>1, PrisonInvariant, PTL

\* A step that opens a stopped door fails the power or is a locksmith's.
LEMMA StoppedStep ==
    ASSUME PrisonInv, [Next]_vars, NEW d \in Doors,
           IsBlocked(d), ~doors[d].open, doors'[d].open
    PROVE  ~powerOn' \/ \E p \in Players : UseLocksmith(p, d)
<1>1. MapGood /\ NamedDoors \subseteq Doors /\ doors \in [Doors -> DoorStates]
  BY MapIsGood, NamedTyped DEF MapGood
<1>2. CASE Deal
  BY <1>2 DEF Deal, map
<1>3. CASE StartMatch
  BY <1>3 DEF StartMatch, map
<1>4. CASE EndTick
  <2> DEFINE s == [doors[d] EXCEPT !.blocked = 0, !.by = {}]
  <2>1. doors'[d] = doors[d] \/ doors'[d] = s
    BY <1>4 DEF EndTick, expireDoors
  <2>2. s.open = doors[d].open
    BY <1>1 DEF DoorStates
  <2> HIDE DEF s
  <2>. QED
    BY <2>1, <2>2
<1>5. CASE UNCHANGED vars
  BY <1>5 DEF vars, map
<1>6. ASSUME NEW on \in BOOLEAN, ApplyPowerState(on)
      PROVE  ~powerOn'
  <2>1. CASE on
    <3> DEFINE o == doors[d].open \/ ~on
               s == [doors[d] EXCEPT !.canClose = on, !.open = o]
    <3>1. doors'[d] = s
      BY <1>6 DEF ApplyPowerState
    <3>2. ~o
      BY <2>1
    <3> HIDE DEF o
    <3>3. s.open = o
      BY <1>1 DEF DoorStates
    <3> HIDE DEF s
    <3>. QED
      BY <3>1, <3>2, <3>3
  <2>2. CASE ~on
    BY <1>6, <2>2 DEF ApplyPowerState
  <2>. QED
    BY <2>1, <2>2
<1>7. ASSUME NEW p \in DOMAIN players, NEW c, NEW r, MapStep(p, c, r)
      PROVE  ~powerOn'
  <2>1. CASE c \in NamedDoors /\ tryToggleDoorForPlayer(p, c)
    <3>1. c # d
      BY <2>1 DEF tryToggleDoorForPlayer
    <3>2. doors'[d] = doors[d]
      BY <1>1, <2>1, <3>1 DEF tryToggleDoorForPlayer
    <3>. QED
      BY <3>2
  <2>2. CASE c \in NamedDoors /\ PlayDoorStop(p, c)
    <3> DEFINE s == Stopped(doors[c], p, tick + DoorStopTicks)
    <3>1. doors' = [doors EXCEPT ![c] = s] /\ c \in Doors /\ doors[c] \in DoorStates
      BY <1>1, <2>2 DEF PlayDoorStop
    <3>2. s.open = FALSE
      BY <3>1 DEF Stopped, DoorStates
    <3> HIDE DEF s
    <3>3. doors'[d] = IF c = d THEN s ELSE doors[d]
      BY <1>1, <3>1
    <3>. QED
      BY <3>2, <3>3
  <2>3. CASE tryTogglePower(p)
    BY <1>1, <1>6, <2>3 DEF tryTogglePower, MapGood
  <2>4. CASE trySetNightlyBlackMarket(p, r)
    BY <2>4 DEF trySetNightlyBlackMarket
  <2>. QED
    BY <1>7, <2>1, <2>2, <2>3, <2>4 DEF MapStep
<1>8. ASSUME NEW p \in DOMAIN players, NEW c, NEW a, UseStep(p, c, a)
      PROVE  ~powerOn' \/ \E q \in Players : UseLocksmith(q, d)
  <2>1. CASE UseAlarm(p) \/ UseOnItems(p, a)
    BY <2>1 DEF UseAlarm, UseOnItems, map
  <2>2. CASE UseHacker(p)
    BY <1>6, <2>2 DEF UseHacker
  <2>3. CASE c \in NamedDoors /\ UseLocksmith(p, c)
    <3>1. CASE c = d
      <4>1. p \in Players
        BY <1>8, Handling, UseStepFrame
      <4>. QED
        BY <2>3, <3>1, <4>1
    <3>2. CASE c # d
      <4>1. doors'[d] = doors[d]
        BY <1>1, <2>3, <3>2 DEF UseLocksmith
      <4>. QED
        BY <4>1
    <3>. QED
      BY <3>1, <3>2
  <2>. QED
    BY <1>8, <2>1, <2>2, <2>3 DEF UseStep
<1>9. ASSUME NEW p \in DOMAIN players, NEW t, NEW r, NEW route, NEW a,
             PlayerStep(p, t, r, route, a)
      PROVE  FALSE
  BY <1>9, PlayerStepFrame DEF map
<1>. QED
  BY <1>2, <1>3, <1>4, <1>5, <1>7, <1>8, <1>9, PrisonCases

\* A door that is stopped and closed stays closed until its time is over, unless the
\* power fails or a locksmith opens it (BlockedUntilTick).
THEOREM StopsHold == Spec => StoppedDoorHolds
<1>1. PrisonInv /\ [Next]_vars =>
          [\A d \in Doors :
              IsBlocked(d) /\ ~doors[d].open /\ doors'[d].open =>
                  \/ ~powerOn'
                  \/ \E p \in Players : UseLocksmith(p, d)]_vars
  BY StoppedStep
<1>. QED
  BY <1>1, PrisonInvariant, PTL DEF Spec, StoppedDoorHolds

-----------------------------------------------------------------------------
(* The shuffle *)

\* A swap moves the places of a role one to one.
LEMMA SwapKeepsCounts ==
    ASSUME NEW n \in Nat, NEW f \in [1 .. n -> Roles], NEW i \in 1 .. n, NEW j \in 1 .. n,
           NEW g, DOMAIN g = 1 .. n, g[i] = f[j], g[j] = f[i],
           \A k \in 1 .. n : k \notin {i, j} => g[k] = f[k], NEW role
    PROVE  Cardinality(PlacesOf(g, role)) = Cardinality(PlacesOf(f, role))
<1> DEFINE S == PlacesOf(f, role)
           T == PlacesOf(g, role)
           swap(k) == IF k = i THEN j ELSE IF k = j THEN i ELSE k
           b == [k \in S |-> swap(k)]
<1>1. S \subseteq 1 .. n /\ T \subseteq 1 .. n
  BY DEF PlacesOf
<1>2. \A k \in 1 .. n : swap(k) \in 1 .. n /\ g[k] = f[swap(k)] /\ swap(swap(k)) = k
  OBVIOUS
<1>3. DOMAIN f = 1 .. n /\ DOMAIN g = 1 .. n
  OBVIOUS
<1> HIDE DEF swap
<1>4. \A k \in S : swap(k) \in T
  BY <1>1, <1>2, <1>3 DEF PlacesOf
<1>5. \A k \in T : swap(k) \in S
  BY <1>1, <1>2, <1>3 DEF PlacesOf
<1>6. IsFiniteSet(S)
  <2>1. IsFiniteSet(1 .. n)
    BY FS_Interval
  <2>. QED
    BY <1>1, <2>1, FS_Subset
<1> HIDE DEF S, T
<1>7. b \in [S -> T]
  BY <1>4
<1>8. \A k, l \in S : b[k] = b[l] => k = l
  BY <1>1, <1>2
<1>9. \A k \in T : \E l \in S : b[l] = k
  <2>1. \A k \in T : b[swap(k)] = swap(swap(k))
    BY <1>5
  <2>. QED
    BY <1>1, <1>2, <1>5, <2>1
<1> HIDE DEF b
<1>10. b \in Bijection(S, T)
  BY <1>7, <1>8, <1>9, Fun_IsBij
<1>11. ExistsBijection(S, T)
  BY <1>10, Fun_ExistsBij
<1>. QED
  BY <1>6, <1>11, FS_Bijection DEF S, T

\* The dealing is over once the match is played.
CastInv == CastComplete /\ (InPlay => cast = <<>>)

LEMMA CastStep ==
    ASSUME PrisonInv, CastInv, [Next]_vars
    PROVE  CastInv'
<1>1. CASE Deal
  <2>1. /\ stage = "deal" /\ UNCHANGED <<stage, cast>> /\ cast \in Casts /\ idx \in 1 .. Len(cast)
        /\ profiles \in [1 .. Len(cast) -> Roles]
    BY <1>1 DEF Deal, shuffleRoleProfiles, PrisonInv, PrisonTypeOK, Roles
  <2>2. PICK j \in 1 .. idx :
            profiles' = [profiles EXCEPT ![idx] = profiles[j], ![j] = profiles[idx]]
    BY <1>1 DEF Deal, shuffleRoleProfiles
  <2>3. Len(cast) \in Nat /\ j \in 1 .. Len(cast)
    BY <2>1, CastTyped
  <2>4. \A role : Cardinality(PlacesOf(profiles', role)) = Cardinality(PlacesOf(profiles, role))
    <3> DEFINE n == Len(cast)
               g == profiles'
    <3>1. /\ n \in Nat /\ profiles \in [1 .. n -> Roles] /\ idx \in 1 .. n /\ j \in 1 .. n
      BY <2>1, <2>2, <2>3
    <3>2. /\ DOMAIN g = 1 .. n /\ g[idx] = profiles[j] /\ g[j] = profiles[idx]
          /\ \A k \in 1 .. n : k \notin {idx, j} => g[k] = profiles[k]
      BY <2>2, <3>1
    <3> HIDE DEF n, g
    <3>3. \A role : Cardinality(PlacesOf(g, role)) = Cardinality(PlacesOf(profiles, role))
      BY <3>1, <3>2, SwapKeepsCounts
    <3>. QED
      BY <3>3 DEF g
  <2>5. CastComplete'
    BY <2>1, <2>4 DEF CastInv, CastComplete, PlacesOf
  <2>. QED
    BY <2>1, <2>5 DEF CastInv, InPlay
<1>2. CASE StartMatch
  BY <1>2 DEF StartMatch, CastInv, CastComplete
<1>3. CASE UNCHANGED <<stage, dealing>>
  BY <1>3 DEF dealing, CastInv, CastComplete, InPlay, PlacesOf
<1>4. CASE EndTick
  BY <1>3, <1>4 DEF EndTick
<1>5. CASE UNCHANGED vars
  BY <1>3, <1>5 DEF vars, clock
<1>6. ASSUME NEW p \in DOMAIN players, NEW d, NEW r, MapStep(p, d, r)
      PROVE  CastInv'
  BY <1>3, <1>6, MapStepFrame DEF clock
<1>7. ASSUME NEW p \in DOMAIN players, NEW d, NEW a, UseStep(p, d, a)
      PROVE  CastInv'
  BY <1>3, <1>7, UseStepFrame DEF clock
<1>8. ASSUME NEW p \in DOMAIN players, NEW t, NEW r, NEW route, NEW a,
             PlayerStep(p, t, r, route, a)
      PROVE  CastInv'
  BY <1>3, <1>8, PlayerStepFrame DEF clock
<1>. QED
  BY <1>1, <1>2, <1>4, <1>5, <1>6, <1>7, <1>8, PrisonCases

\* However the profiles are shuffled, the players of any cast hold each role as often
\* as a template for their number has it (shuffleRoleProfiles, Assign).
THEOREM CastKept == Spec => []CastComplete
<1>1. Init => CastInv
  BY DEF Init, DealInit, CastInv, CastComplete, InPlay
<1>2. PrisonInv /\ CastInv /\ [Next]_vars => CastInv'
  BY CastStep
<1>3. CastInv => CastComplete
  BY DEF CastInv
<1>. QED
  BY <1>1, <1>2, <1>3, PrisonInvariant, PTL DEF Spec

=============================================================================
