-------------------------- MODULE MatchRulesProofs --------------------------
(***************************************************************************)
(* Proofs about MatchRules, for any players, assignment of roles, lengths  *)
(* and damages.                                                            *)
(***************************************************************************)
EXTENDS MatchRules, TLAPS

-----------------------------------------------------------------------------
(* The inductive strengthening, player by player *)

\* A player's part of RulesTypeOK.
PlayerOK(q) ==
    /\ q \in PlayerStates
    /\ q.alive <=> q.lives > 0
    /\ q.alive => q.hearts > 0

\* A plate backs the temporary hearts.
Backed(q) == q.temp > 0 => q.armor # 0

\* What becomes of a player in a step that does not concern roles: q becomes r.
Follows(q, r) ==
    /\ PlayerOK(r)
    /\ Backed(r)
    /\ r.role = q.role
    /\ r.lives <= q.lives
    /\ ~q.alive => ~r.alive

\* The rest of RulesTypeOK.
WorldOK ==
    /\ stage \in {"idle", "commands", "phase", "over"}
    /\ tick \in Nat /\ handled \in Nat
    /\ phase \in [current : {"day", "night"}, started : Nat, ends : Nat]
    /\ cycle \in 0 .. MaxCycles
    /\ alarm \in Nat /\ alarmUsed \in Nat
    /\ lastShot \in [Players -> Nat]
    /\ outcome.winners \subseteq Players
    /\ breakout \in BOOLEAN

\* Since the expiries of this tick, a plate that backs hearts has not run out.
ArmorInv ==
    \A p \in Players : /\ Backed(players[p])
                       /\ stage \in {"idle", "phase"} /\ players[p].temp > 0
                             => tick <= players[p].armor

RulesInv == RulesTypeOK /\ OneLeader /\ ArmorInv

\* The phase covers the tick, and is where the cycles before it put it.  Only the last
\* transition of the last tick reaches MaxCycles, so the counter never has to saturate.
ClockInv ==
    /\ phase.ends = phase.started + (IF phase.current = "day" THEN DayTicks ELSE NightTicks)
    /\ phase.started = 1 + (DayTicks + NightTicks) * cycle
                         + (IF phase.current = "day" THEN 0 ELSE DayTicks)
    /\ IF tick = 0 THEN stage = "idle" /\ phase.started = 1 ELSE phase.started <= tick
    /\ stage = "idle" => tick < phase.ends
    /\ stage \in {"commands", "phase"} => tick <= phase.ends
    /\ stage \in {"idle", "commands"} => cycle < MaxCycles
    /\ stage = "phase" => cycle < MaxCycles \/ tick < phase.ends

LEMMA TypeParts ==
    RulesTypeOK <=> /\ WorldOK
                    /\ players \in [Players -> PlayerStates]
                    /\ \A p \in Players : PlayerOK(players[p])
BY DEF RulesTypeOK, WorldOK, PlayerOK

-----------------------------------------------------------------------------
(* Lemmas about one player *)

LEMMA Positive ==
    /\ MaxHearts \in Nat \ {0} /\ DefaultLives \in Nat \ {0} /\ ArmorHearts \in Nat \ {0}
    /\ MorphineHearts \in Nat \ {0} /\ GuardDamage \in Nat \ {0}
    /\ DayTicks \in Nat \ {0} /\ NightTicks \in Nat \ {0} /\ MaxCycles \in Nat \ {0}
    /\ TickRate \in Nat \ {0} /\ StunTicks \in Nat \ {0} /\ AlarmTicks \in Nat \ {0}
    /\ GuardInterval \in Nat \ {0} /\ Damages \subseteq Nat \ {0}
BY RulesAssumption

LEMMA LargerType == \A a, b \in Nat : Larger(a, b) \in Nat /\ a <= Larger(a, b) /\ b <= Larger(a, b)
BY DEF Larger

\* Who starts, or respawns, is in full health.
LEMMA NewPlayerOK ==
    ASSUME NEW role \in Roles
    PROVE  PlayerOK(NewPlayer(role)) /\ Backed(NewPlayer(role))
BY Positive DEF PlayerOK, Backed, NewPlayer, PlayerStates, RespawnRoom

\* A life is lost, and the last one for good.
LEMMA HitFollows ==
    ASSUME NEW q, PlayerOK(q), Backed(q), q.alive, NEW damage \in Nat \ {0}
    PROVE  Follows(q, Hit(q, damage)) /\ Hit(q, damage).armor \in {0, q.armor}
                /\ Hit(q, damage).temp <= q.temp
<1> DEFINE fromTemp   == Smaller(damage, q.temp)
           fromHealth == Smaller(damage - fromTemp, q.hearts)
           dies       == fromHealth = q.hearts
           r          == ApplyDamage(q, damage)
<1>1. /\ q \in PlayerStates /\ q.hearts \in Nat /\ q.hearts > 0 /\ q.temp \in Nat
      /\ q.lives \in Nat /\ q.lives > 0 /\ q.hearts <= MaxHearts /\ q.temp <= ArmorHearts
      /\ q.lives <= DefaultLives /\ q.role \in Roles /\ q.stunned \in Nat
  BY Positive DEF PlayerOK, PlayerStates
<1>2. fromTemp \in 0 .. q.temp /\ fromTemp <= damage
  BY <1>1 DEF Smaller
<1>3. fromHealth \in 0 .. q.hearts
  BY <1>1, <1>2 DEF Smaller
<1>4. r = [q EXCEPT !.temp = @ - fromTemp, !.hearts = @ - fromHealth, !.alive = ~dies,
                    !.stunned = IF dies THEN 0 ELSE @]
  BY DEF ApplyDamage
<1> HIDE DEF fromTemp, fromHealth
<1>5. /\ r \in PlayerStates /\ r.role = q.role /\ r.lives = q.lives /\ r.armor = q.armor
      /\ r.temp = q.temp - fromTemp /\ r.hearts = q.hearts - fromHealth
      /\ r.alive <=> fromHealth # q.hearts
  <2>1. /\ q.temp - fromTemp \in 0 .. ArmorHearts /\ q.hearts - fromHealth \in 0 .. MaxHearts
        /\ (IF dies THEN 0 ELSE q.stunned) \in Nat
    BY <1>1, <1>2, <1>3, Positive
  <2>2. (~dies) \in BOOLEAN
    OBVIOUS
  <2> HIDE DEF dies
  <2>3. r \in PlayerStates
    BY <1>1, <1>4, <2>1, <2>2 DEF PlayerStates
  <2>4. /\ r.role = q.role /\ r.lives = q.lives /\ r.armor = q.armor
        /\ r.temp = q.temp - fromTemp /\ r.hearts = q.hearts - fromHealth
    BY <1>1, <1>4 DEF PlayerStates
  <2>5. r.alive = ~dies
    BY <1>1, <1>4 DEF PlayerStates
  <2> QED
    BY <2>3, <2>4, <2>5 DEF dies
<1> HIDE DEF r
<1>6. CASE r.alive
  <2>1. Hit(q, damage) = r
    BY <1>6 DEF Hit, r
  <2>2. r.hearts > 0
    BY <1>1, <1>3, <1>5, <1>6
  <2> QED
    BY <1>1, <1>2, <1>5, <1>6, <2>1, <2>2 DEF Follows, PlayerOK, Backed
<1>7. CASE ~r.alive
  <2>1. Hit(q, damage) = consumeLifeAndRespawn(r)
    BY <1>7 DEF Hit, r
  <2>2. CASE q.lives = 1
    <3>1. Hit(q, damage) = [r EXCEPT !.lives = 0]
      BY <1>5, <2>1, <2>2 DEF consumeLifeAndRespawn
    <3>2. [r EXCEPT !.lives = 0] \in PlayerStates
      BY <1>5, Positive DEF PlayerStates
    <3> QED
      BY <1>1, <1>2, <1>5, <1>7, <3>1, <3>2 DEF Follows, PlayerOK, Backed, PlayerStates
  <2>3. CASE q.lives # 1
    <3>1. Hit(q, damage) = [NewPlayer(q.role) EXCEPT !.lives = q.lives - 1]
      BY <1>1, <1>5, <2>1, <2>3 DEF consumeLifeAndRespawn
    <3>2. PlayerOK(NewPlayer(q.role)) /\ NewPlayer(q.role).alive /\ NewPlayer(q.role).role = q.role
          /\ NewPlayer(q.role).temp = 0 /\ NewPlayer(q.role).armor = 0
      BY <1>1, NewPlayerOK DEF NewPlayer
    <3>3. q.lives - 1 \in 1 .. DefaultLives
      BY <1>1, <2>3, Positive
    <3> HIDE DEF NewPlayer
    <3>4. [NewPlayer(q.role) EXCEPT !.lives = q.lives - 1] \in PlayerStates
      BY <3>2, <3>3 DEF PlayerOK, PlayerStates
    <3> QED
      BY <1>1, <3>1, <3>2, <3>3, <3>4 DEF Follows, PlayerOK, Backed, PlayerStates
  <2> QED
    BY <2>2, <2>3
<1> QED
  BY <1>6, <1>7

\* Steps that change one field each.
LEMMA FieldFollows ==
    ASSUME NEW q, PlayerOK(q), Backed(q)
    PROVE  /\ Follows(q, q)
           /\ \A room \in {"open", "restricted", "escaped"} :
                 Follows(q, [q EXCEPT !.room = room])
           /\ \A n \in Nat : Follows(q, [q EXCEPT !.solitary = n])
           /\ \A n \in Nat : Follows(q, [q EXCEPT !.stunned = n])
           /\ Follows(q, [q EXCEPT !.hearts = Smaller(MaxHearts, @ + MorphineHearts)])
<1> USE DEF Follows, PlayerOK, Backed, PlayerStates
<1>1. q.lives \in Nat /\ q.hearts \in 0 .. MaxHearts
  BY Positive
<1>2. Smaller(MaxHearts, q.hearts + MorphineHearts) \in 0 .. MaxHearts
      /\ Smaller(MaxHearts, q.hearts + MorphineHearts) > 0
  BY <1>1, Positive DEF Smaller
<1>3. Follows(q, q)
  BY <1>1
<1>4. \A room \in {"open", "restricted", "escaped"} : Follows(q, [q EXCEPT !.room = room])
  BY <1>1
<1>5. \A n \in Nat : Follows(q, [q EXCEPT !.solitary = n])
  BY <1>1
<1>6. \A n \in Nat : Follows(q, [q EXCEPT !.stunned = n])
  BY <1>1
<1>7. Follows(q, [q EXCEPT !.hearts = Smaller(MaxHearts, @ + MorphineHearts)])
  BY <1>1, <1>2
<1> QED
  BY <1>3, <1>4, <1>5, <1>6, <1>7

\* A plate brings its hearts and a time after 0 at which they go.
LEMMA PlateFollows ==
    ASSUME NEW q, PlayerOK(q), Backed(q), NEW until \in Nat \ {0}
    PROVE  Follows(q, [q EXCEPT !.temp = Larger(@, ArmorHearts), !.armor = Larger(@, until)])
<1>1. q.temp \in 0 .. ArmorHearts /\ q.armor \in Nat /\ q.lives \in Nat /\ q \in PlayerStates
  BY Positive DEF PlayerOK, PlayerStates
<1>2. Larger(q.temp, ArmorHearts) \in 0 .. ArmorHearts /\ Larger(q.armor, until) \in Nat \ {0}
  BY <1>1, Positive DEF Larger
<1> DEFINE r == [q EXCEPT !.temp = Larger(@, ArmorHearts), !.armor = Larger(@, until)]
<1>3. r \in PlayerStates
  BY <1>1, <1>2 DEF PlayerStates
<1>4. /\ r.role = q.role /\ r.lives = q.lives /\ r.alive = q.alive /\ r.hearts = q.hearts
      /\ r.armor # 0
  BY <1>1, <1>2 DEF PlayerStates
<1> QED
  BY <1>1, <1>3, <1>4 DEF Follows, PlayerOK, Backed

\* Two steps in a row.
LEMMA FollowsTransitive ==
    ASSUME NEW q, NEW r, NEW s, PlayerOK(q), Follows(q, r), Follows(r, s)
    PROVE  Follows(q, s)
<1>1. q.lives \in Nat /\ r.lives \in Nat /\ s.lives \in Nat
  BY Positive DEF Follows, PlayerOK, PlayerStates
<1> QED
  BY <1>1 DEF Follows

-----------------------------------------------------------------------------
(* Commands *)

AllFollow == \A x \in Players : Follows(players[x], players'[x])

\* A command that changes one player.
LEMMA OneFollows ==
    ASSUME RulesTypeOK, ArmorInv, NEW p \in Players, NEW r, Follows(players[p], r),
           players' = [players EXCEPT ![p] = r]
    PROVE  players' \in [Players -> PlayerStates] /\ AllFollow
<1>1. \A x \in Players : PlayerOK(players[x]) /\ Backed(players[x])
  BY TypeParts DEF ArmorInv
<1>2. \A x \in Players : Follows(players[x], players[x])
  BY <1>1, FieldFollows
<1>3. players \in [Players -> PlayerStates] /\ r \in PlayerStates
  BY TypeParts DEF Follows, PlayerOK
<1> QED
  BY <1>2, <1>3 DEF AllFollow

\* No command touches a role, gives a life or revives.
LEMMA CommandFollows ==
    ASSUME RulesTypeOK, ArmorInv, NEW p \in Players, Command(p)
    PROVE  players' \in [Players -> PlayerStates] /\ AllFollow
<1>1. \A x \in Players : PlayerOK(players[x]) /\ Backed(players[x])
  BY TypeParts DEF ArmorInv
<1>2. /\ tick \in Nat /\ phase.ends \in Nat /\ players \in [Players -> PlayerStates]
      /\ \A x \in Players : players[x].stunned \in Nat /\ players[x].solitary \in Nat
  BY DEF RulesTypeOK, PlayerStates
<1> DEFINE Rooms == {"open", "restricted", "escaped"}
<1>3. ASSUME NEW room \in Rooms, NEW x \in Players, players' = [players EXCEPT ![x].room = room]
      PROVE  players' \in [Players -> PlayerStates] /\ AllFollow
  <2>1. players' = [players EXCEPT ![x] = [players[x] EXCEPT !.room = room]]
    BY <1>3
  <2>2. Follows(players[x], [players[x] EXCEPT !.room = room])
    BY <1>1, FieldFollows
  <2> QED
    BY <2>1, <2>2, OneFollows
<1>4. ASSUME NEW room \in {"open", "restricted"}, Move(p, room) \/ EnterRoom(p, room)
      PROVE  players' \in [Players -> PlayerStates] /\ AllFollow
  BY <1>3, <1>4 DEF Move, EnterRoom
<1>5. CASE Escape(p)
  BY <1>3, <1>5 DEF Escape
<1>6. ASSUME NEW target \in Players, NEW room \in {"open", "restricted"},
             FireBaton(p, target, room)
      PROVE  players' \in [Players -> PlayerStates] /\ AllFollow
  <2> DEFINE q == players[target]
             r == [q EXCEPT !.room = room]
             n == Larger(r.stunned, tick + StunTicks)
  <2>1. players' = [players EXCEPT ![target] = [r EXCEPT !.stunned = n]]
    BY <1>2, <1>6 DEF FireBaton
  <2>2. Follows(q, r) /\ r.stunned \in Nat
    BY <1>1, <1>2, FieldFollows DEF PlayerStates
  <2>3. n \in Nat
    BY <1>2, <2>2, LargerType, Positive
  <2> HIDE DEF r, n
  <2>4. PlayerOK(r) /\ Backed(r)
    BY <2>2 DEF Follows
  <2>5. Follows(r, [r EXCEPT !.stunned = n])
    BY <2>3, <2>4, FieldFollows
  <2>6. Follows(q, [r EXCEPT !.stunned = n])
    BY <1>1, <2>2, <2>5, FollowsTransitive
  <2> QED
    BY <2>1, <2>6, OneFollows
<1>7. ASSUME NEW target \in Players, NEW damage \in Damages, NEW exempt \in BOOLEAN,
             FireWeapon(p, target, damage, exempt)
      PROVE  players' \in [Players -> PlayerStates] /\ AllFollow
  <2> DEFINE hit == Hit(players[target], damage)
             pen == Penalised(players[p], players[target], exempt)
  <2>1. /\ p # target /\ players[target].alive
        /\ players' = [players EXCEPT ![target] = hit, ![p] = pen]
    BY <1>7 DEF FireWeapon
  <2>2. Follows(players[target], hit)
    BY <1>1, <2>1, HitFollows, Positive
  <2>3. Follows(players[p], pen)
    <3>1. phase.ends - 1 \in Nat \/ tick >= phase.ends
      BY <1>2
    <3>2. pen = players[p] \/ \E n \in Nat : pen = [players[p] EXCEPT !.solitary = n]
      BY <1>2, <3>1, LargerType DEF Penalised
    <3>3. /\ Follows(players[p], players[p])
          /\ \A n \in Nat : Follows(players[p], [players[p] EXCEPT !.solitary = n])
      BY <1>1, FieldFollows
    <3> HIDE DEF pen
    <3> QED
      BY <3>2, <3>3
  <2> HIDE DEF hit, pen
  <2>4. hit \in PlayerStates /\ pen \in PlayerStates
    BY <2>2, <2>3 DEF Follows, PlayerOK
  <2>5. \A x \in Players : Follows(players[x], players[x])
    BY <1>1, FieldFollows
  <2> QED
    BY <1>2, <2>1, <2>2, <2>3, <2>4, <2>5 DEF AllFollow
<1>8. CASE UseMorphine(p)
  <2> DEFINE r == [players[p] EXCEPT !.hearts = Smaller(MaxHearts, @ + MorphineHearts)]
  <2>1. players' = [players EXCEPT ![p] = r]
    BY <1>8 DEF UseMorphine
  <2>2. Follows(players[p], r)
    BY <1>1, FieldFollows
  <2> QED
    BY <2>1, <2>2, OneFollows
<1>9. CASE UseArmorPlate(p)
  <2> DEFINE until == IF phase.ends <= tick THEN tick + TickRate ELSE phase.ends
             r == [players[p] EXCEPT !.temp = Larger(@, ArmorHearts), !.armor = Larger(@, until)]
  <2>1. until \in Nat \ {0}
    BY <1>2, Positive
  <2>2. players' = [players EXCEPT ![p] = r]
    BY <1>2, <1>9 DEF UseArmorPlate
  <2>3. Follows(players[p], r)
    BY <1>1, <2>1, PlateFollows
  <2> QED
    BY <2>2, <2>3, OneFollows
<1>10. CASE UseGetOutOfJail(p)
  <2>1. players' = [players EXCEPT ![p] = [players[p] EXCEPT !.solitary = 0]]
    BY <1>10 DEF UseGetOutOfJail
  <2>2. Follows(players[p], [players[p] EXCEPT !.solitary = 0])
    BY <1>1, FieldFollows
  <2> QED
    BY <2>1, <2>2, OneFollows
<1>11. CASE TriggerAlarm(p)
  <2>1. players' = players
    BY <1>11 DEF TriggerAlarm
  <2> QED
    BY <1>1, <1>2, <2>1, FieldFollows DEF AllFollow
<1> QED
  BY <1>4, <1>5, <1>6, <1>7, <1>8, <1>9, <1>10, <1>11 DEF Command

-----------------------------------------------------------------------------
(* After the commands *)

LeaderOf(ps, p) == \A q \in Players : ps[q].role = "leader" <=> q = p

\* A succession changes nothing but roles, and leaves one leader; who leads is alive,
\* or was the leader before, or there is nobody alive to lead.
LEMMA SuccessionFacts ==
    ASSUME RulesInv, NEW ps \in ApplyGangLeaderSuccession(players)
    PROVE  /\ ps \in [Players -> PlayerStates]
           /\ \A x \in Players : /\ PlayerOK(ps[x]) /\ Backed(ps[x])
                                 /\ ps[x].alive = players[x].alive
                                 /\ ps[x].lives = players[x].lives
           /\ \E p \in Players : LeaderOf(ps, p)
           /\ \A x \in Players : ps[x].role = "leader" =>
                 ps[x].alive \/ \A y \in Players : ps[y].role \in Gang => ~ps[y].alive
<1>1. /\ players \in [Players -> PlayerStates]
      /\ \A x \in Players : PlayerOK(players[x]) /\ Backed(players[x])
  BY TypeParts DEF RulesInv, ArmorInv
<1>2. PICK l \in Players : LeaderOf(players, l)
  BY DEF RulesInv, OneLeader, LeaderOf
<1>3. CASE HasLeader(players)
  <2>1. ps = players
    BY <1>3 DEF ApplyGangLeaderSuccession
  <2>2. players[l].alive
    BY <1>2, <1>3 DEF HasLeader, LeaderOf
  <2> QED
    BY <1>1, <1>2, <2>1, <2>2 DEF LeaderOf
<1>4. CASE ~HasLeader(players) /\ Eligible(players) = {}
  <2>1. ps = players
    BY <1>4 DEF ApplyGangLeaderSuccession
  <2>2. \A y \in Players : players[y].role \in Gang => ~players[y].alive
    BY <1>4 DEF HasLeader, Eligible, Gang
  <2> QED
    BY <1>1, <1>2, <2>1, <2>2
<1>5. CASE ~HasLeader(players) /\ Eligible(players) # {}
  <2>1. PICK successor \in Eligible(players) : ps = Promoted(players, successor)
    BY <1>5 DEF ApplyGangLeaderSuccession
  <2>2. successor \in Players /\ players[successor].alive
    BY DEF Eligible
  <2>3. ASSUME NEW x \in Players
        PROVE  /\ ps[x] \in PlayerStates /\ PlayerOK(ps[x]) /\ Backed(ps[x])
               /\ ps[x].alive = players[x].alive /\ ps[x].lives = players[x].lives
               /\ ps[x].role = "leader" <=> x = successor
    <3> DEFINE role == IF x = successor THEN "leader"
                       ELSE IF players[x].role = "leader" THEN "member" ELSE players[x].role
    <3>1. ps[x] = [players[x] EXCEPT !.role = role]
      BY <2>1 DEF Promoted
    <3>2. role \in Roles /\ (role = "leader" <=> x = successor)
      BY <1>1 DEF PlayerStates, Roles, Prisoners, Gang
    <3>3. players[x] \in PlayerStates /\ PlayerOK(players[x]) /\ Backed(players[x])
      BY <1>1
    <3> HIDE DEF role
    <3>4. ps[x] \in PlayerStates
      BY <3>1, <3>2, <3>3 DEF PlayerStates
    <3>5. /\ ps[x].alive = players[x].alive /\ ps[x].lives = players[x].lives
          /\ ps[x].hearts = players[x].hearts /\ ps[x].temp = players[x].temp
          /\ ps[x].armor = players[x].armor /\ ps[x].role = role
      BY <3>1, <3>3 DEF PlayerStates
    <3> QED
      BY <3>2, <3>3, <3>4, <3>5 DEF PlayerOK, Backed
  <2>4. ps \in [Players -> PlayerStates]
    BY <2>1, <2>3 DEF Promoted
  <2>5. LeaderOf(ps, successor)
    BY <2>3 DEF LeaderOf
  <2> QED
    BY <2>2, <2>3, <2>4, <2>5
<1> QED
  BY <1>3, <1>4, <1>5

\* Hearts whose plate has run out are gone.
LEMMA ExpiryFacts ==
    ASSUME NEW ps \in [Players -> PlayerStates],
           \A x \in Players : PlayerOK(ps[x]) /\ Backed(ps[x]), tick \in Nat
    PROVE  /\ expireTimedStates(ps) \in [Players -> PlayerStates]
           /\ \A x \in Players :
                 /\ Follows(ps[x], expireTimedStates(ps)[x])
                 /\ expireTimedStates(ps)[x].temp > 0 => tick <= expireTimedStates(ps)[x].armor
<1> DEFINE es == expireTimedStates(ps)
<1>1. ASSUME NEW x \in Players
      PROVE  Follows(ps[x], es[x]) /\ (es[x].temp > 0 => tick <= es[x].armor)
  <2>1. PlayerOK(ps[x]) /\ Backed(ps[x]) /\ ps[x].armor \in Nat /\ ps[x].temp \in 0 .. ArmorHearts
        /\ ps[x] \in PlayerStates
    BY DEF PlayerStates
  <2>2. CASE ps[x].armor # 0 /\ tick > ps[x].armor
    <3>1. es[x] = [ps[x] EXCEPT !.armor = 0, !.temp = 0]
      BY <2>2 DEF expireTimedStates
    <3> HIDE DEF es
    <3>2. es[x] \in PlayerStates /\ es[x].temp = 0
      <4>1. 0 \in 0 .. ArmorHearts /\ 0 \in Nat
        BY Positive
      <4> QED
        BY <2>1, <3>1, <4>1 DEF PlayerStates
    <3>3. /\ es[x].alive = ps[x].alive /\ es[x].lives = ps[x].lives
          /\ es[x].hearts = ps[x].hearts /\ es[x].role = ps[x].role
      BY <2>1, <3>1 DEF PlayerStates
    <3>4. ps[x].lives \in Nat
      BY <2>1, Positive DEF PlayerStates
    <3> QED
      BY <2>1, <3>2, <3>3, <3>4 DEF Follows, PlayerOK, Backed
  <2>3. CASE ~(ps[x].armor # 0 /\ tick > ps[x].armor)
    <3>1. es[x] = ps[x]
      BY <2>3 DEF expireTimedStates
    <3>2. es[x].temp > 0 => tick <= es[x].armor
      BY <2>1, <2>3, <3>1 DEF Backed
    <3> QED
      BY <2>1, <3>1, <3>2, FieldFollows
  <2> QED
    BY <2>2, <2>3
<1>2. \A x \in Players : es[x] \in PlayerStates
  BY <1>1 DEF Follows, PlayerOK
<1>3. es = [x \in Players |-> es[x]]
  BY DEF expireTimedStates
<1> QED
  BY <1>1, <1>2, <1>3

\* The guards hit the living only.
LEMMA GuardFacts ==
    ASSUME NEW es \in [Players -> PlayerStates], tick \in Nat, alarm \in Nat,
           lastShot \in [Players -> Nat],
           \A x \in Players : PlayerOK(es[x]) /\ Backed(es[x]),
           \A x \in Players : es[x].temp > 0 => tick <= es[x].armor,
           AlarmAndGuards(es)
    PROVE  /\ players' \in [Players -> PlayerStates]
           /\ alarm' \in Nat /\ lastShot' \in [Players -> Nat]
           /\ \A x \in Players : /\ Follows(es[x], players'[x])
                                 /\ players'[x].temp > 0 => tick <= players'[x].armor
<1>1. CASE alarm = 0 \/ tick >= alarm \/ RestrictedPrisoners(es) = {}
  <2>1. alarm' = 0 /\ lastShot' = [p \in Players |-> 0] /\ players' = es
    BY <1>1 DEF AlarmAndGuards
  <2>2. \A x \in Players : Follows(es[x], es[x])
    BY FieldFollows
  <2> QED
    BY <2>1, <2>2
<1>2. CASE ~(alarm = 0 \/ tick >= alarm \/ RestrictedPrisoners(es) = {})
  <2> DEFINE shot == {p \in RestrictedPrisoners(es) :
                         lastShot[p] = 0 \/ tick >= lastShot[p] + GuardInterval}
  <2>1. /\ alarm' = alarm
        /\ lastShot' = [p \in Players |-> IF p \in shot THEN tick ELSE lastShot[p]]
        /\ players' = [p \in Players |->
                          IF p \in shot THEN Hit(es[p], GuardDamage) ELSE es[p]]
    BY <1>2 DEF AlarmAndGuards
  <2>2. \A x \in shot : x \in Players /\ es[x].alive
    BY DEF RestrictedPrisoners
  <2> HIDE DEF shot
  <2>3. ASSUME NEW x \in Players
        PROVE  Follows(es[x], players'[x]) /\ (players'[x].temp > 0 => tick <= players'[x].armor)
    <3>1. CASE x \in shot
      <4>1. players'[x] = Hit(es[x], GuardDamage)
        BY <2>1, <3>1
      <4>2. /\ Follows(es[x], Hit(es[x], GuardDamage))
            /\ Hit(es[x], GuardDamage).armor \in {0, es[x].armor}
            /\ Hit(es[x], GuardDamage).temp <= es[x].temp
        BY <2>2, <3>1, HitFollows, Positive
      <4>3. es[x].temp \in Nat /\ es[x].armor \in Nat /\ players'[x].temp \in Nat
        BY <4>1, <4>2, Positive DEF Follows, PlayerOK, PlayerStates
      <4> QED
        BY <4>1, <4>2, <4>3 DEF Follows, Backed
    <3>2. CASE x \notin shot
      BY <2>1, <3>2, FieldFollows
    <3> QED
      BY <3>1, <3>2
  <2>4. \A x \in Players : players'[x] \in PlayerStates
    BY <2>3 DEF Follows, PlayerOK
  <2> QED
    BY <2>1, <2>3, <2>4
<1> QED
  BY <1>1, <1>2

\* What the steps after the commands make of the players.
LEMMA EndCommandsFacts ==
    ASSUME RulesInv, EndCommands
    PROVE  /\ players' \in [Players -> PlayerStates]
           /\ alarm' \in Nat /\ lastShot' \in [Players -> Nat]
           /\ \E ps \in ApplyGangLeaderSuccession(players) :
                 \A x \in Players : Follows(ps[x], players'[x])
           /\ \A x \in Players : players'[x].temp > 0 => tick <= players'[x].armor
<1>1. PICK ps \in ApplyGangLeaderSuccession(players) : AlarmAndGuards(expireTimedStates(ps))
  BY DEF EndCommands
<1>2. /\ ps \in [Players -> PlayerStates]
      /\ \A x \in Players : PlayerOK(ps[x]) /\ Backed(ps[x])
  BY SuccessionFacts
<1>3. tick \in Nat /\ alarm \in Nat /\ lastShot \in [Players -> Nat]
  BY DEF RulesInv, RulesTypeOK
<1> DEFINE es == expireTimedStates(ps)
<1>4. /\ es \in [Players -> PlayerStates]
      /\ \A x \in Players : Follows(ps[x], es[x]) /\ (es[x].temp > 0 => tick <= es[x].armor)
  BY <1>2, <1>3, ExpiryFacts
<1>5. \A x \in Players : PlayerOK(es[x]) /\ Backed(es[x])
  BY <1>4 DEF Follows
<1> HIDE DEF es
<1>6. AlarmAndGuards(es)
  BY <1>1 DEF es
<1>7. /\ players' \in [Players -> PlayerStates]
      /\ alarm' \in Nat /\ lastShot' \in [Players -> Nat]
      /\ \A x \in Players : /\ Follows(es[x], players'[x])
                            /\ players'[x].temp > 0 => tick <= players'[x].armor
  BY <1>3, <1>4, <1>5, <1>6, GuardFacts
<1>8. \A x \in Players : Follows(ps[x], players'[x])
  BY <1>2, <1>4, <1>7, FollowsTransitive
<1> QED
  BY <1>7, <1>8

-----------------------------------------------------------------------------
(* The players' part of the invariant *)

\* One leader is assigned.
LEMMA RulesInitInv == Init => RulesInv
<1> SUFFICES ASSUME Init PROVE RulesInv
  OBVIOUS
<1>1. \A p \in Players : /\ players[p] = NewPlayer(Assignment[p])
                         /\ PlayerOK(players[p]) /\ Backed(players[p])
  BY NewPlayerOK, RulesAssumption DEF Init
<1>2. players \in [Players -> PlayerStates]
  <2>1. \A p \in Players : players[p] \in PlayerStates
    BY <1>1 DEF PlayerOK
  <2>2. players = [p \in Players |-> players[p]]
    BY DEF Init
  <2> QED
    BY <2>1, <2>2
<1>3. WorldOK
  <2>1. breakout \in BOOLEAN
    BY DEF Init
  <2>2. outcome.winners \subseteq Players
    BY DEF Init
  <2>3. /\ phase \in [current : {"day", "night"}, started : Nat, ends : Nat]
        /\ cycle \in 0 .. MaxCycles
    BY Positive DEF Init
  <2> QED
    BY <2>1, <2>2, <2>3 DEF Init, WorldOK
<1>4. OneLeader
  <2>1. \A role : NewPlayer(role).role = role
    BY DEF NewPlayer
  <2>2. \A p \in Players : players[p].role = Assignment[p]
    BY <1>1, <2>1
  <2> QED
    BY <2>2, RulesAssumption DEF OneLeader
<1>5. ArmorInv
  <2>1. \A role : NewPlayer(role).temp = 0
    BY DEF NewPlayer
  <2> QED
    BY <1>1, <2>1 DEF ArmorInv
<1> QED
  BY <1>1, <1>2, <1>3, <1>4, <1>5, TypeParts DEF RulesInv

\* Where nobody's role changes, the leader stays.
LEMMA LeaderKept ==
    ASSUME OneLeader, \A x \in Players : players'[x].role = players[x].role
    PROVE  OneLeader'
BY DEF OneLeader

\* A command keeps the players' part.
LEMMA CommandStep ==
    ASSUME RulesInv, NEW p \in Players, Command(p)
    PROVE  RulesInv' /\ AllFollow
<1>1. players' \in [Players -> PlayerStates] /\ AllFollow
  BY CommandFollows DEF RulesInv
<1>2. \A x \in Players : PlayerOK(players'[x]) /\ Backed(players'[x])
                            /\ players'[x].role = players[x].role
  BY <1>1 DEF AllFollow, Follows
<1>3. WorldOK
  BY TypeParts DEF RulesInv
<1>4. CommandOf(p) /\ UNCHANGED lastShot /\ alarm' \in Nat /\ alarmUsed' \in Nat /\ breakout' \in BOOLEAN
  <2>1. tick + AlarmTicks \in Nat /\ phase.started \in Nat /\ alarm \in Nat /\ alarmUsed \in Nat
    BY <1>3, Positive DEF WorldOK
  <2>2. breakout \in BOOLEAN
    BY <1>3 DEF WorldOK
  <2> QED
    BY <2>1, <2>2 DEF Command, Move, EnterRoom, Escape, FireBaton, FireWeapon, UseMorphine,
       UseArmorPlate, UseGetOutOfJail, TriggerAlarm, ActionOf
<1>5. WorldOK' /\ stage = "commands" /\ stage' = "commands"
  BY <1>3, <1>4 DEF CommandOf, WorldOK, world
<1>6. OneLeader'
  BY <1>2, LeaderKept DEF RulesInv
<1>7. ArmorInv'
  BY <1>2, <1>5 DEF ArmorInv
<1> QED
  BY <1>1, <1>2, <1>5, <1>6, <1>7, TypeParts DEF RulesInv, RulesTypeOK, WorldOK, PlayerOK

\* So do the steps after the commands.
LEMMA EndCommandsStep ==
    ASSUME RulesInv, EndCommands
    PROVE  /\ RulesInv'
           /\ \A x \in Players : /\ players'[x].lives <= players[x].lives
                                 /\ ~players[x].alive => ~players'[x].alive
<1>1. /\ players' \in [Players -> PlayerStates]
      /\ alarm' \in Nat /\ lastShot' \in [Players -> Nat]
      /\ \A x \in Players : players'[x].temp > 0 => tick <= players'[x].armor
  BY EndCommandsFacts
<1>2. PICK ps \in ApplyGangLeaderSuccession(players) :
             \A x \in Players : Follows(ps[x], players'[x])
  BY EndCommandsFacts
<1>3. \A x \in Players : /\ PlayerOK(players'[x]) /\ Backed(players'[x])
                         /\ players'[x].role = ps[x].role
                         /\ players'[x].lives <= ps[x].lives
                         /\ ~ps[x].alive => ~players'[x].alive
  BY <1>2 DEF Follows
<1>4. /\ \A x \in Players : ps[x].alive = players[x].alive /\ ps[x].lives = players[x].lives
      /\ \E p \in Players : LeaderOf(ps, p)
  BY SuccessionFacts
<1>5. OneLeader'
  BY <1>3, <1>4 DEF OneLeader, LeaderOf
<1>6. stage' = "phase" /\ tick' = tick
  BY DEF EndCommands
<1>7. ArmorInv'
  BY <1>1, <1>3, <1>6 DEF ArmorInv
<1>8. RulesTypeOK'
  BY <1>1, <1>3, <1>6 DEF EndCommands, world, RulesInv, RulesTypeOK, PlayerOK
<1> QED
  BY <1>3, <1>4, <1>5, <1>7, <1>8 DEF RulesInv

\* The other steps leave the players alone.
LEMMA OtherStep ==
    ASSUME RulesInv, BeginTick \/ AdvancePhase \/ Evaluate \/ UNCHANGED vars
    PROVE  RulesInv' /\ players' = players
<1> USE DEF RulesInv, RulesTypeOK
<1>1. players' = players
  BY DEF BeginTick, AdvancePhase, Evaluate, vars
<1>2. OneLeader'
  BY <1>1 DEF OneLeader
<1>3. CASE BeginTick
  <2>1. RulesTypeOK'
    <3>1. breakout' \in BOOLEAN
      BY <1>3 DEF BeginTick
    <3>2. /\ tick' = tick + 1 /\ stage' = "commands"
          /\ UNCHANGED <<handled, players, alarm, alarmUsed, lastShot, phase, cycle, outcome>>
      BY <1>3 DEF BeginTick, world
    <3> QED
      BY <3>1, <3>2
  <2>2. ArmorInv'
    BY <1>1, <1>3 DEF BeginTick, ArmorInv
  <2> QED
    BY <1>1, <1>2, <2>1, <2>2
<1>4. CASE AdvancePhase
  <2>1. phase'.current \in {"day", "night"} /\ phase' \in [current : {"day", "night"}, started : Nat, ends : Nat]
        /\ alarm' \in Nat
    BY <1>4, Positive DEF AdvancePhase
  <2>2. cycle' \in 0 .. MaxCycles
    BY <1>4, Positive DEF AdvancePhase, Smaller
  <2>3. RulesTypeOK'
    BY <1>4, <2>1, <2>2 DEF AdvancePhase
  <2>4. ArmorInv'
    BY <1>1, <1>4 DEF AdvancePhase, ArmorInv
  <2> QED
    BY <1>1, <1>2, <2>3, <2>4
<1>5. CASE Evaluate
  <2>1. outcome'.winners \subseteq Players
    BY <1>5 DEF Evaluate, winnersForReason
  <2>2. RulesTypeOK'
    BY <1>5, <2>1 DEF Evaluate
  <2>3. ArmorInv'
    BY <1>1, <1>5 DEF Evaluate, ArmorInv
  <2> QED
    BY <1>1, <1>2, <2>2, <2>3
<1>6. CASE UNCHANGED vars
  <2>1. RulesTypeOK'
    BY <1>6 DEF vars
  <2>2. ArmorInv'
    BY <1>1, <1>6 DEF vars, ArmorInv
  <2> QED
    BY <1>1, <1>2, <2>1, <2>2
<1> QED
  BY <1>3, <1>4, <1>5, <1>6

\* The kinds of step.
LEMMA RulesCases ==
    ASSUME [Next]_vars
    PROVE  \/ \E p \in Players : Command(p)
           \/ EndCommands
           \/ BeginTick \/ AdvancePhase \/ Evaluate \/ UNCHANGED vars
BY DEF Next, Loop

-----------------------------------------------------------------------------
(* Theorems *)

\* The players' part of the inductive invariant: types, lives and hearts, the leader
\* and the plates hold together in every reachable state.
THEOREM RulesInvariant == Spec => []RulesInv
<1>1. RulesInv /\ [Next]_vars => RulesInv'
  BY RulesCases, CommandStep, EndCommandsStep, OtherStep
<1> QED
  BY <1>1, RulesInitInv, PTL DEF Spec

\* The state is always of its type; who is alive has a life and hearts, who is dead
\* has no life left.
THEOREM RulesTypeCorrect == Spec => []RulesTypeOK
<1>1. RulesInv => RulesTypeOK
  BY DEF RulesInv
<1> QED
  BY <1>1, RulesInvariant, PTL

\* However leaders die, exactly one player has the leader's role.
THEOREM AlwaysOneLeader == Spec => []OneLeader
<1>1. RulesInv => OneLeader
  BY DEF RulesInv
<1> QED
  BY <1>1, RulesInvariant, PTL

\* Temporary hearts never outlive the plate that gave them.
THEOREM PlatesBackHearts == Spec => []ArmorBacksTempHearts
<1>1. RulesInv => ArmorBacksTempHearts
  BY DEF RulesInv, ArmorInv, Backed, ArmorBacksTempHearts
<1> QED
  BY <1>1, RulesInvariant, PTL

\* No step of the match gives a life or revives the dead.
THEOREM EliminationsFinal == Spec => EliminationIsFinal
<1> DEFINE Final == \A p \in Players : /\ players'[p].lives <= players[p].lives
                                       /\ ~players[p].alive => ~players'[p].alive
<1>1. RulesInv /\ [Next]_vars => [Final]_vars
  <2> SUFFICES ASSUME RulesInv, [Next]_vars PROVE Final
    OBVIOUS
  <2>1. \A p \in Players : players[p].lives \in Nat
    BY Positive DEF RulesInv, RulesTypeOK, PlayerStates
  <2>2. ASSUME NEW q \in Players, Command(q) PROVE Final
    BY <2>2, CommandStep DEF AllFollow, Follows
  <2>3. CASE EndCommands
    BY <2>3, EndCommandsStep
  <2>4. CASE BeginTick \/ AdvancePhase \/ Evaluate \/ UNCHANGED vars
    BY <2>1, <2>4, OtherStep
  <2> QED
    BY <2>2, <2>3, <2>4, RulesCases
<1> QED
  BY <1>1, RulesInvariant, PTL DEF Spec, EliminationIsFinal

\* After the succession of a tick the leader is alive, or was alive until the guards
\* shot, or nobody of the gang is alive.
THEOREM SuccessionPrompt == Spec => SuccessionInTime
<1> DEFINE Prompt == stage = "commands" /\ stage' = "phase" =>
              \A p \in Players :
                  players'[p].role = "leader" =>
                      \/ players'[p].alive
                      \/ players[p].alive
                      \/ \A q \in Players : players'[q].role \in Gang => ~players'[q].alive
<1>1. RulesInv /\ [Next]_vars => [Prompt]_vars
  <2> SUFFICES ASSUME RulesInv, [Next]_vars PROVE Prompt
    OBVIOUS
  <2>1. CASE EndCommands
    <3>1. PICK ps \in ApplyGangLeaderSuccession(players) :
                 \A x \in Players : Follows(ps[x], players'[x])
      BY <2>1, EndCommandsFacts
    <3>2. \A x \in Players : /\ players'[x].role = ps[x].role
                             /\ ~ps[x].alive => ~players'[x].alive
      BY <3>1 DEF Follows
    <3>3. /\ \A x \in Players : ps[x].alive = players[x].alive
          /\ \A x \in Players : ps[x].role = "leader" =>
                ps[x].alive \/ \A y \in Players : ps[y].role \in Gang => ~ps[y].alive
      BY SuccessionFacts
    <3> QED
      BY <3>2, <3>3
  <2>2. ASSUME NEW q \in Players, Command(q) PROVE Prompt
    <3>1. stage' = stage
      BY <2>2 DEF Command, Move, EnterRoom, Escape, FireBaton, FireWeapon, UseMorphine,
         UseArmorPlate, UseGetOutOfJail, TriggerAlarm, ActionOf, CommandOf
    <3> QED
      BY <3>1
  <2>3. CASE BeginTick \/ AdvancePhase \/ Evaluate \/ UNCHANGED vars
    BY <2>3 DEF BeginTick, AdvancePhase, Evaluate, vars
  <2> QED
    BY <2>1, <2>2, <2>3, RulesCases
<1> QED
  BY <1>1, RulesInvariant, PTL DEF Spec, SuccessionInTime

-----------------------------------------------------------------------------
(* The clock *)

LEMMA Euclid ==
    \A n \in Nat, d \in Nat \ {0} :
        n \div d \in Nat /\ n % d \in 0 .. d - 1 /\ n = d * (n \div d) + (n % d)
OBVIOUS

LEMMA Multiples ==
    ASSUME NEW d \in Nat, NEW j \in Nat, NEW k \in Nat, j + 1 <= k
    PROVE  d * j + d <= d * k
<1>1. d * (j + 1) = d * j + d
  OBVIOUS
<1>2. k - (j + 1) \in Nat
  OBVIOUS
<1>3. d * (k - (j + 1)) >= 0
  BY <1>2
<1>4. d * (k - (j + 1)) = d * k - d * (j + 1)
  OBVIOUS
<1> QED
  BY <1>1, <1>3, <1>4

\* Quotient and remainder are unique.
LEMMA QuotientUnique ==
    ASSUME NEW d \in Nat \ {0}, NEW k \in Nat, NEW r \in 0 .. d - 1, NEW n \in Nat,
           n = d * k + r
    PROVE  n % d = r /\ n \div d = k
<1> DEFINE j == n \div d
           s == n % d
<1>1. j \in Nat /\ s \in 0 .. d - 1 /\ n = d * j + s
  BY Euclid
<1> HIDE DEF j, s
<1>2. d * j \in Nat /\ d * k \in Nat
  BY <1>1
<1>3. ~(j + 1 <= k)
  BY <1>1, <1>2, Multiples
<1>4. ~(k + 1 <= j)
  BY <1>1, <1>2, Multiples
<1>5. j = k
  BY <1>1, <1>3, <1>4
<1>6. s = r
  BY <1>1, <1>2, <1>5
<1> QED
  BY <1>5, <1>6 DEF j, s

\* The clock starts right, and no step puts it wrong.
LEMMA ClockInit == Init => ClockInv
<1> SUFFICES ASSUME Init PROVE ClockInv
  OBVIOUS
<1>1. (DayTicks + NightTicks) * 0 = 0
  BY Positive
<1> QED
  BY <1>1, Positive DEF Init, ClockInv

LEMMA ClockStep ==
    ASSUME RulesInv, ClockInv, [Next]_vars
    PROVE  ClockInv'
<1>1. /\ tick \in Nat /\ cycle \in 0 .. MaxCycles
      /\ phase \in [current : {"day", "night"}, started : Nat, ends : Nat]
      /\ stage \in {"idle", "commands", "phase", "over"}
  BY DEF RulesInv, RulesTypeOK
<1>2. ASSUME NEW p \in Players, Command(p) PROVE ClockInv'
  <2>1. UNCHANGED <<stage, tick, phase, cycle>>
    BY <1>2 DEF Command, Move, EnterRoom, Escape, FireBaton, FireWeapon, UseMorphine,
       UseArmorPlate, UseGetOutOfJail, TriggerAlarm, ActionOf, CommandOf, world
  <2> QED
    BY <2>1 DEF ClockInv
<1>3. CASE EndCommands
  <2>1. UNCHANGED <<tick, phase, cycle>> /\ stage = "commands" /\ stage' = "phase"
    BY <1>3 DEF EndCommands, world
  <2> QED
    BY <2>1 DEF ClockInv
<1>4. CASE BeginTick
  <2>1. UNCHANGED <<phase, cycle>> /\ stage = "idle" /\ stage' = "commands" /\ tick' = tick + 1
    BY <1>4 DEF BeginTick, world
  <2> QED
    BY <1>1, <2>1, Positive DEF ClockInv
<1>5. CASE AdvancePhase
  <2>1. UNCHANGED <<stage, tick>> /\ stage = "phase" /\ tick >= phase.ends
    BY <1>5 DEF AdvancePhase, PhaseIsOver
  <2>2. tick # 0 /\ tick = phase.ends /\ cycle < MaxCycles
    BY <1>1, <2>1, Positive DEF ClockInv
  <2>3. CASE phase.current = "night"
    <3>1. /\ phase' = [current |-> "day", started |-> phase.ends, ends |-> phase.ends + DayTicks]
          /\ cycle' = cycle + 1
      BY <1>1, <1>5, <2>2, <2>3, Positive DEF AdvancePhase, Smaller
    <3>2. phase.ends = 1 + (DayTicks + NightTicks) * cycle + DayTicks + NightTicks
      BY <1>1, <2>3, Positive DEF ClockInv
    <3>3. (DayTicks + NightTicks) * (cycle + 1)
             = (DayTicks + NightTicks) * cycle + DayTicks + NightTicks
      BY <1>1, Positive
    <3>4. phase'.started = 1 + (DayTicks + NightTicks) * cycle'
      BY <1>1, <3>1, <3>2, <3>3, Positive
    <3>5. phase'.current = "day" /\ phase'.started = tick /\ phase'.ends = tick + DayTicks
      BY <2>2, <3>1
    <3>6. (DayTicks + NightTicks) * cycle' \in Int
      BY <1>1, <3>1, Positive
    <3> QED
      BY <1>1, <2>1, <2>2, <3>4, <3>5, <3>6, Positive DEF ClockInv
  <2>4. CASE phase.current = "day"
    <3>1. /\ phase' = [current |-> "night", started |-> phase.ends,
                       ends |-> phase.ends + NightTicks]
          /\ cycle' = cycle
      BY <1>5, <2>4 DEF AdvancePhase
    <3>2. phase.ends = 1 + (DayTicks + NightTicks) * cycle + DayTicks
      BY <1>1, <2>4, Positive DEF ClockInv
    <3>3. phase'.current = "night" /\ phase'.started = tick /\ phase'.ends = tick + NightTicks
      BY <2>2, <3>1
    <3> QED
      BY <1>1, <2>1, <2>2, <3>1, <3>2, <3>3, Positive DEF ClockInv
  <2> QED
    BY <1>1, <2>3, <2>4
<1>6. CASE Evaluate
  <2>1. /\ UNCHANGED <<tick, phase, cycle>> /\ stage = "phase" /\ ~(tick >= phase.ends)
        /\ stage' = "over" \/ (stage' = "idle" /\ detectReason = "none")
    BY <1>6 DEF Evaluate, PhaseIsOver
  <2>2. detectReason = "none" => ~MaxCyclesReached
    BY DEF detectReason
  <2>3. stage' = "idle" => cycle < MaxCycles
    BY <1>1, <2>1, <2>2, Positive DEF MaxCyclesReached
  <2> QED
    BY <1>1, <2>1, <2>3 DEF ClockInv
<1>7. CASE UNCHANGED vars
  BY <1>7 DEF vars, ClockInv
<1> QED
  BY <1>2, <1>3, <1>4, <1>5, <1>6, <1>7, RulesCases

\* Between ticks, phase and cycle are a function of the tick number, for any lengths
\* of day and night.
THEOREM ClockCorrect == Spec => []PhaseFollowsClock
<1>1. RulesInv /\ ClockInv /\ [Next]_vars => ClockInv'
  BY ClockStep
<1>2. RulesInv /\ ClockInv => PhaseFollowsClock
  <2> SUFFICES ASSUME RulesInv, ClockInv, stage = "idle", tick > 0 PROVE PhaseFollowsClock
    BY DEF PhaseFollowsClock
  <2> DEFINE period == DayTicks + NightTicks
             offset == IF phase.current = "day" THEN 0 ELSE DayTicks
             since  == tick - phase.started + offset
  <2>1. /\ tick \in Nat /\ cycle \in Nat /\ period \in Nat \ {0}
        /\ phase \in [current : {"day", "night"}, started : Nat, ends : Nat]
    BY Positive DEF RulesInv, RulesTypeOK
  <2>2. period * cycle \in Nat
    BY <2>1
  <2>3. /\ phase.started = 1 + period * cycle + offset
        /\ phase.started <= tick /\ tick < phase.ends
        /\ phase.ends = phase.started + (IF phase.current = "day" THEN DayTicks ELSE NightTicks)
    BY <2>1 DEF ClockInv
  <2>4. since \in 0 .. period - 1 /\ (phase.current = "day" <=> since < DayTicks)
    BY <2>1, <2>3, Positive
  <2>5. tick - 1 \in Nat /\ tick - 1 = period * cycle + since
    BY <2>1, <2>2, <2>3, Positive
  <2> HIDE DEF period, since
  <2>6. (tick - 1) % period = since /\ (tick - 1) \div period = cycle
    BY <2>1, <2>4, <2>5, QuotientUnique
  <2>7. phase.ends = tick - since + IF since < DayTicks THEN DayTicks ELSE period
    BY <2>1, <2>2, <2>3, <2>4, Positive DEF since, period
  <2>8. phase.current = IF since < DayTicks THEN "day" ELSE "night"
    BY <2>1, <2>4
  <2> QED
    BY <2>6, <2>7, <2>8 DEF PhaseFollowsClock, period
<1> QED
  BY <1>1, <1>2, ClockInit, RulesInvariant, PTL DEF Spec

\* A match that goes on is undecided: nobody has won it at the end of a tick.
THEOREM OutcomeInTime == Spec => []NoCauseOutlivesTick
<1>1. Init => NoCauseOutlivesTick
  <2> SUFFICES ASSUME Init PROVE NoCauseOutlivesTick
    OBVIOUS
  <2>1. \A role : /\ NewPlayer(role).role = role /\ NewPlayer(role).alive
                  /\ NewPlayer(role).room # "escaped"
    BY DEF NewPlayer, RespawnRoom
  <2>2. \A p \in Players : /\ players[p].role = Assignment[p] /\ players[p].alive
                           /\ players[p].room # "escaped"
    BY <2>1 DEF Init
  <2>3. cycle < MaxCycles
    BY Positive DEF Init
  <2> QED
    BY <2>2, <2>3, RulesAssumption DEF NoCauseOutlivesTick, hasEscapedGangLeader, Gang
<1>2. RulesInv /\ NoCauseOutlivesTick /\ [Next]_vars => NoCauseOutlivesTick'
  <2> SUFFICES ASSUME RulesInv, NoCauseOutlivesTick, [Next]_vars, stage' = "idle"
               PROVE  NoCauseOutlivesTick'
    BY DEF NoCauseOutlivesTick
  <2>1. CASE Evaluate
    <3>1. detectReason = "none" /\ UNCHANGED <<players, cycle>>
      BY <2>1 DEF Evaluate
    <3>2. /\ ~hasEscapedGangLeader /\ ~hasDeadWarden /\ ~hasNoAliveGangMembers
          /\ ~MaxCyclesReached
      BY <3>1 DEF detectReason
    <3>3. cycle < MaxCycles
      BY <3>2, Positive DEF MaxCyclesReached, RulesInv, RulesTypeOK
    <3> QED
      BY <3>1, <3>2, <3>3 DEF NoCauseOutlivesTick, hasEscapedGangLeader, hasDeadWarden,
         hasNoAliveGangMembers
  <2>2. CASE UNCHANGED vars
    BY <2>2 DEF vars, NoCauseOutlivesTick, hasEscapedGangLeader
  <2>3. ASSUME NEW p \in Players, Command(p) PROVE FALSE
    <3>1. stage' = "commands"
      BY <2>3 DEF Command, Move, EnterRoom, Escape, FireBaton, FireWeapon, UseMorphine,
         UseArmorPlate, UseGetOutOfJail, TriggerAlarm, ActionOf, CommandOf
    <3> QED
      BY <3>1
  <2>4. CASE EndCommands \/ BeginTick \/ AdvancePhase
    BY <2>4 DEF EndCommands, BeginTick, AdvancePhase
  <2> QED
    BY <2>1, <2>2, <2>3, <2>4, RulesCases
<1> QED
  BY <1>1, <1>2, RulesInvariant, PTL DEF Spec

=============================================================================
