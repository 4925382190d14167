------------------------------ MODULE Economy -------------------------------
(***************************************************************************)
(* What the players of a running match own, and every way for it to change *)
(* hands: inventories with their slots and satchels (gamecore/items), the  *)
(* stash of a cell, dropped items, crafting, cards (gamecore/cards), the   *)
(* black market, the bribes and tasks of the NPC prisoners, and the        *)
(* weapons and ammunition of the authority (manager.go).                   *)
(*                                                                         *)
(* The commands of a tick are applied one after the other under the        *)
(* manager's lock; the end of a tick checks the equipped weapons, lets the *)
(* guards shoot and changes the phase.  Who is in which room, the hearts   *)
(* and lives that a shot takes, stuns and cooldowns are inputs: any living *)
(* player may meet any other, the market and the NPC.  Cards that move no  *)
(* item are left out.                                                      *)
(***************************************************************************)
EXTENDS Integers, FiniteSets, Sequences, SequencesExt, FiniteSetsExt, Bags

CONSTANTS
    Matches,           \* who plays, and what the commands are about: records, see match
    ItemOrder,         \* the item types in the order of their names
    MoneyCardCost,     \* items.blackMarketOffers: the price of an item, 0 of others
    BaseSlots,         \* playerInventorySlotCount
    StashSlots,        \* items.BaseInventoryStackLimit, the slots of a stash
    SatchelBonus,      \* items.SatchelBonusStacks
    MaxStack,          \* 255, the largest uint8
    AmmoMax,           \* authorityAmmoMax
    MaxCardsHeld,
    TaskItems,         \* holdItems of deterministicNPCTaskForDay: the items a task asks for
    Amounts,           \* bound: the amounts that players give, drop and stash
    MaxPeriods         \* bound: days and nights of one match

Items == ToSet(ItemOrder)

\* preferredEquippedWeapon: best first.
WeaponPriority == <<"pistol", "hunting_rifle", "baton", "shiv">>

Firearms == {"pistol", "hunting_rifle"}

Contraband == {"shiv", "pistol", "hunting_rifle", "ladder", "shovel", "wire_cutters"}

\* recipesByOutput: what one piece takes.
Recipes ==
    [shiv         |-> [wood |-> 1, metal_slab |-> 1],
     door_stop    |-> [wood |-> 1, metal_slab |-> 1],
     ladder       |-> [wood |-> 2, metal_slab |-> 1],
     shovel       |-> [wood |-> 1, metal_slab |-> 2],
     wire_cutters |-> [metal_slab |-> 2, lock_pick |-> 1]]

Cards == {"money", "bullet", "item_steal", "scrap_bundle"}

ASSUME EconomyAssumption ==
    /\ \A m \in Matches :
          /\ IsFiniteSet(DOMAIN m.commands)
          /\ \A p \in DOMAIN m.commands : m.commands[p] \in Nat
          /\ m.authority \cup m.mortal \subseteq DOMAIN m.commands
          /\ m.traded \subseteq Items
    /\ ItemOrder \in Seq(STRING) /\ IsInjective(ItemOrder)
    /\ {"baton", "bullet", "golden_bullet", "metal_slab", "pistol", "satchel", "wood"}
          \subseteq Items
    /\ MoneyCardCost \in [Items -> Nat]
    /\ {BaseSlots, StashSlots, SatchelBonus, MaxStack, AmmoMax, MaxCardsHeld} \subseteq Nat \ {0}
    /\ BaseSlots >= 3 /\ AmmoMax <= MaxStack
    /\ TaskItems \subseteq Items /\ Amounts \subseteq 1 .. MaxStack
    /\ MaxPeriods \in Nat

VARIABLES
    match,       \* authority: the warden and the deputies; and bounds: the commands of
                 \* each player, the items traded, the mortal who may lose their last life
    players,     \* gameState.Players
    stash,       \* the stash of every player's cell
    dropped,     \* the dropped_item entities: a bag of items and quantities
    npc,         \* npcPrisonerBribeState of an NPC prisoner
    task,        \* npcTaskByPlayer
    restocking,  \* the players of ammoRestockUntil
    sold,        \* blackMarketGoldenBulletSold
    period,      \* days and nights so far, this one included: odd by day
    handled,     \* commands of each player so far
    ledger,      \* history: units of each item made and not used up
    given,       \* history: money cards the NPC had of each player this night
    income,      \* history: cards each player came by in this period
    overfull     \* history: a gift or a theft left an inventory over its limit

vars == <<match, players, stash, dropped, npc, task, restocking, sold, period, handled,
          ledger, given, income, overfull>>

Players == DOMAIN match.commands

Authority == match.authority

Prisoners == Players \ Authority

MayDie(p) == p \in match.mortal /\ players[p].alive

IsDay == period % 2 = 1

-----------------------------------------------------------------------------
(* gamecore/items: an inventory maps every item to its quantity *)

EmptyInventory == [i \in Items |-> 0]

Stacks(inv) == {i \in Items : inv[i] > 0}

stackLimitForBase(inv, base) == base + inv["satchel"] * SatchelBonus

WithinLimit(inv, base) == Cardinality(Stacks(inv)) <= stackLimitForBase(inv, base)

\* addToInventory succeeds.
CanAdd(inv, i, n, base) ==
    /\ inv[i] + n <= MaxStack
    /\ WithinLimit([inv EXCEPT ![i] = @ + n], base)

AddItem(inv, i, n, base) ==
    IF CanAdd(inv, i, n, base) THEN [inv EXCEPT ![i] = @ + n] ELSE inv

\* RemoveItem succeeds: a satchel stays while what it holds needs it.
CanRemove(inv, i, n, base) ==
    /\ inv[i] >= n
    /\ i = "satchel" => WithinLimit([inv EXCEPT ![i] = @ - n], base)

Without(inv, i, n) == [inv EXCEPT ![i] = @ - n]

-----------------------------------------------------------------------------
(* Cards: a hand maps every card to its number *)

HandSize(hand) == SumFunction(hand)

AddCard(hand, c) == IF HandSize(hand) >= MaxCardsHeld THEN hand ELSE [hand EXCEPT ![c] = @ + 1]

\* RemoveCard, once for each card
Spend(q, c, n) == [q EXCEPT !.cards[c] = @ - n]

-----------------------------------------------------------------------------
(* Weapons *)

CanUseWeapon(q, w) == q.alive /\ w \in Items \cap ToSet(WeaponPriority) /\ q.inv[w] > 0

preferredEquippedWeapon(q) ==
    LET usable == {k \in DOMAIN WeaponPriority : CanUseWeapon(q, WeaponPriority[k])}
    IN IF usable = {} THEN "none" ELSE WeaponPriority[Min(usable)]

\* Seeded fault: a weapon once equipped stays so.
ensureEquippedItem_Sticky(q) ==
    IF q.equipped # "none" THEN q ELSE [q EXCEPT !.equipped = preferredEquippedWeapon(q)]

ensureEquippedItem(q) ==
    IF CanUseWeapon(q, q.equipped) THEN q
    ELSE [q EXCEPT !.equipped = preferredEquippedWeapon(q)]

\* Another inventory, and the weapon in hand that goes with it.
WithInventory(q, inv) == ensureEquippedItem([q EXCEPT !.inv = inv])

\* syncAuthorityBulletStackLocked of an authority: the bullets of the inventory become
\* those of the counter, if they fit.
SyncBullets(q) ==
    LET bullets == Min({q.bullets, AmmoMax})
        bare    == [q.inv EXCEPT !["bullet"] = 0]
    IN [q EXCEPT !.bullets = bullets,
                 !.inv = IF bullets = 0 THEN bare ELSE AddItem(bare, "bullet", bullets, BaseSlots)]

syncAuthorityBulletStack(p, q) == IF p \in Authority THEN SyncBullets(q) ELSE q

-----------------------------------------------------------------------------
(* The match starts *)

\* combat.ApplyRoleLoadouts and applyInventoryLoadoutsLocked
NewPlayer(p) ==
    LET q == [alive |-> TRUE, inv |-> EmptyInventory, equipped |-> "none", bullets |-> 0,
              cards |-> [c \in Cards |-> 0], offered |-> FALSE]
    IN IF p \in Prisoners THEN q
       ELSE SyncBullets([q EXCEPT !.inv = [@ EXCEPT !["baton"] = 1, !["pistol"] = 1],
                                  !.bullets = AmmoMax, !.equipped = "pistol"])

\* deterministicNPCPrisonerOffer draws one by a hash.
NPCOffers ==
    {i \in Items : MoneyCardCost[i] > 0} \ {"golden_bullet", "pistol", "hunting_rifle"}

\* A fresh offer: nobody has paid for it.
NPCOffer(i) == [item |-> i, stock |-> 1, payer |-> "none", paid |-> 0]

NoTask == [day |-> 0, kind |-> "none", item |-> "none"]

Init ==
    /\ match \in Matches
    /\ players = [p \in Players |-> NewPlayer(p)]
    /\ stash = [p \in Players |-> EmptyInventory]
    /\ dropped = EmptyBag
    /\ npc \in {NPCOffer(i) : i \in NPCOffers}
    /\ task = [p \in Players |-> NoTask]
    /\ restocking = {}
    /\ sold = FALSE
    /\ period = 1
    /\ handled = [p \in Players |-> 0]
    /\ ledger = [i \in Items |-> IF i \in {"baton", "pistol"} THEN Cardinality(Authority) ELSE 0]
    /\ given = [p \in Players |-> 0]
    /\ income = [p \in Players |-> 0]
    /\ overfull = FALSE

-----------------------------------------------------------------------------
(* Commands that move items *)

Command(p) ==
    /\ handled[p] < match.commands[p]
    /\ handled' = [handled EXCEPT ![p] = @ + 1]
    /\ UNCHANGED period

\* combat.IsActionBlocked: only cards are for the dead.
ActionOf(p) == Command(p) /\ players[p].alive

trade == <<npc, task, restocking, sold, given, income>>

\* No inventory holds more stacks than its slots and satchels allow, whatever is given,
\* stolen or taken away.
CapacityHolds == \A p \in Players : WithinLimit(players[p].inv, BaseSlots)

\* CmdUseItem, a gift.  What the giver keeps is not checked against the limit.  The
\* ability pick_pocket is one of a single item that the giver did not choose.
TransferItem(p, q, i, n) ==
    /\ ActionOf(p)
    /\ q # p /\ players[q].alive
    /\ players[p].inv[i] >= n
    /\ CanAdd(players[q].inv, i, n, BaseSlots)
    /\ players' = [players EXCEPT
            ![p] = WithInventory(@, Without(@.inv, i, n)),
            ![q] = WithInventory(@, AddItem(@.inv, i, n, BaseSlots))]
    /\ overfull' = (overfull \/ ~CapacityHolds')
    /\ UNCHANGED <<stash, dropped, ledger, trade>>

DropItem(p, i, n) ==
    /\ ActionOf(p)
    /\ CanRemove(players[p].inv, i, n, BaseSlots)
    /\ players' = [players EXCEPT ![p] = WithInventory(@, Without(@.inv, i, n))]
    /\ dropped' = dropped (+) SetToBag({<<i, n>>})
    /\ UNCHANGED <<stash, ledger, trade, overfull>>

\* CmdInteract with a dropped item.
PickUpItem(p, i, n) ==
    /\ ActionOf(p)
    /\ BagIn(<<i, n>>, dropped)
    /\ CanAdd(players[p].inv, i, n, BaseSlots)
    /\ players' = [players EXCEPT ![p] = WithInventory(@, AddItem(@.inv, i, n, BaseSlots))]
    /\ dropped' = dropped (-) SetToBag({<<i, n>>})
    /\ UNCHANGED <<stash, ledger, trade, overfull>>

\* Its inputs are removed first, and no satchel is among them.
Craft(p, output) ==
    LET inputs == Recipes[output]
        used   == [i \in Items |-> IF i \in DOMAIN inputs THEN inputs[i] ELSE 0]
        rest   == [i \in Items |-> players[p].inv[i] - used[i]]
    IN /\ ActionOf(p)
       /\ output \in Items /\ DOMAIN inputs \subseteq Items
       /\ \A i \in Items : rest[i] >= 0
       /\ CanAdd(rest, output, 1, BaseSlots)
       /\ players' = [players EXCEPT
               ![p] = WithInventory(@, AddItem(rest, output, 1, BaseSlots))]
       /\ ledger' = [i \in Items |-> ledger[i] - used[i] + IF i = output THEN 1 ELSE 0]
       /\ UNCHANGED <<stash, dropped, trade, overfull>>

\* Seeded fault: what the stash refuses is not given back.
StashRefuses_NoRollback(p, i, n) == Without(players[p].inv, i, n)

\* The rollback of a deposit puts the item back under the limit of the inventory.
StashRefuses(p, i, n) == AddItem(Without(players[p].inv, i, n), i, n, BaseSlots)

StashDeposit(p, i, n) ==
    /\ ActionOf(p)
    /\ CanRemove(players[p].inv, i, n, BaseSlots)
    /\ IF CanAdd(stash[p], i, n, StashSlots)
       THEN /\ stash' = [stash EXCEPT ![p] = AddItem(@, i, n, StashSlots)]
            /\ players' = [players EXCEPT ![p] = WithInventory(@, Without(@.inv, i, n))]
       ELSE /\ players' = [players EXCEPT ![p].inv = StashRefuses(p, i, n)]
            /\ UNCHANGED stash
    /\ UNCHANGED <<dropped, ledger, trade, overfull>>

\* When the inventory is full the stash is left as it was.
StashWithdraw(p, i, n) ==
    /\ ActionOf(p)
    /\ CanRemove(stash[p], i, n, StashSlots)
    /\ CanAdd(players[p].inv, i, n, BaseSlots)
    /\ stash' = [stash EXCEPT ![p] = Without(@, i, n)]
    /\ players' = [players EXCEPT ![p] = WithInventory(@, AddItem(@.inv, i, n, BaseSlots))]
    /\ UNCHANGED <<dropped, ledger, trade, overfull>>

\* The ability search of the authority takes every stack of contraband away.
Search(p, q) ==
    LET found == Stacks(players[q].inv) \cap Contraband
    IN /\ ActionOf(p)
       /\ p \in Authority /\ q # p /\ players[q].alive
       /\ found # {}
       /\ players' = [players EXCEPT
               ![q] = WithInventory(@, [i \in Items |-> IF i \in found THEN 0 ELSE @.inv[i]])]
       /\ ledger' = [i \in Items |-> ledger[i] - IF i \in found THEN players[q].inv[i] ELSE 0]
       /\ UNCHANGED <<stash, dropped, trade, overfull>>

-----------------------------------------------------------------------------
(* Weapons and ammunition *)

EquipItem(p, w) ==
    /\ ActionOf(p)
    /\ CanUseWeapon(players[p], w) /\ players[p].equipped # w
    /\ players' = [players EXCEPT ![p].equipped = w]
    /\ UNCHANGED <<stash, dropped, ledger, trade, overfull>>

\* The weapon named, or else the one in hand.
WeaponFor(q, w) == IF CanUseWeapon(q, w) THEN w ELSE q.equipped

\* combat.ConsumeShotCostAndResolveDamage has its cost.
CanPay(q, w, golden) ==
    IF w \notin Firearms THEN ~golden
    ELSE IF golden THEN q.inv["golden_bullet"] > 0
    ELSE q.bullets > 0

Paid(q, w, golden) ==
    IF w \notin Firearms THEN q
    ELSE IF golden THEN [q EXCEPT !.inv = Without(@, "golden_bullet", 1)]
    ELSE [q EXCEPT !.bullets = @ - 1]

\* A shot with nobody in its way, or without the round it needs, only changes the
\* weapon in hand; fatal: it takes the last life of its target.
FireWeapon(p, target, w, golden, fatal) ==
    LET q   == players[p]
        use == WeaponFor(q, w)
        armed == [q EXCEPT !.equipped = use]
    IN /\ ActionOf(p)
       /\ target # p /\ players[target].alive
       /\ CanUseWeapon(q, use) /\ CanPay(q, use, golden)
       /\ fatal => use # "baton" /\ MayDie(target)
       /\ players' = [players EXCEPT
               ![p] = syncAuthorityBulletStack(p, Paid(armed, use, golden)),
               ![target].alive = ~fatal]
       /\ ledger' = IF golden THEN [ledger EXCEPT !["golden_bullet"] = @ - 1] ELSE ledger
       /\ UNCHANGED <<stash, dropped, trade, overfull>>

FireInVain(p, w) ==
    LET q == players[p] IN
    /\ ActionOf(p)
    /\ players' = [players EXCEPT ![p] =
            IF CanUseWeapon(q, WeaponFor(q, w)) THEN [q EXCEPT !.equipped = WeaponFor(q, w)]
            ELSE ensureEquippedItem(q)]
    /\ players' # players
    /\ UNCHANGED <<stash, dropped, ledger, trade, overfull>>

\* CmdReload in the ammo room; it takes seconds.
Reload(p) ==
    /\ ActionOf(p)
    /\ p \in Authority \ restocking
    /\ players[p].bullets < AmmoMax
    /\ restocking' = restocking \cup {p}
    /\ UNCHANGED <<players, stash, dropped, ledger, npc, task, sold, given, income, overfull>>

\* resolveAmmoRestockCompletionsLocked, of one player; a player who moved away or was
\* shot meanwhile is served all the same, one who died is not.
RestockCompletes(p) ==
    /\ p \in restocking
    /\ restocking' = restocking \ {p}
    /\ players' = IF players[p].alive
                  THEN [players EXCEPT ![p] = SyncBullets([@ EXCEPT !.bullets = AmmoMax])]
                  ELSE players
    /\ UNCHANGED <<stash, dropped, ledger, npc, task, sold, given, income, period, handled, overfull>>

-----------------------------------------------------------------------------
(* The black market and the NPC prisoners *)

\* Seeded fault: only what players carry or dropped counts, not what was ever sold.
GoldenBulletGone_ForgetsSale ==
    \/ \E p \in Players : players[p].inv["golden_bullet"] > 0
    \/ \E d \in DOMAIN dropped : d[1] = "golden_bullet"

GoldenBulletGone ==
    \/ sold
    \/ \E p \in Players : players[p].inv["golden_bullet"] > 0
    \/ \E d \in DOMAIN dropped : d[1] = "golden_bullet"

\* applyBlackMarketPurchaseLocked, in the market's room.
BlackMarketBuy(p, i) ==
    /\ ActionOf(p)
    /\ p \in Prisoners /\ ~IsDay
    /\ MoneyCardCost[i] > 0
    /\ i = "golden_bullet" => ~GoldenBulletGone
    /\ players[p].cards["money"] >= MoneyCardCost[i]
    /\ CanAdd(players[p].inv, i, 1, BaseSlots)
    /\ players' = [players EXCEPT
            ![p] = WithInventory(Spend(@, "money", MoneyCardCost[i]), AddItem(@.inv, i, 1, BaseSlots))]
    /\ sold' = (sold \/ i = "golden_bullet")
    /\ ledger' = [ledger EXCEPT ![i] = @ + 1]
    /\ UNCHANGED <<stash, dropped, npc, task, restocking, given, income, overfull>>

\* Seeded fault: the next payer goes on where the last one stopped.
PaidBy_Anyone(p) == npc.paid

\* What the NPC had of this payer since the last one of another.
PaidBy(p) == IF npc.payer = p THEN npc.paid ELSE 0

\* tryBribeNPCPrisonerWithMoneyCardLocked: another card towards the price, or the last;
\* it equips nothing.
Bribe(p) ==
    /\ ActionOf(p)
    /\ p \in Prisoners /\ ~IsDay
    /\ players[p].cards["money"] > 0
    /\ npc.stock > 0
    /\ given' = [given EXCEPT ![p] = @ + 1]
    /\ IF PaidBy(p) + 1 < MoneyCardCost[npc.item]
       THEN /\ npc' = [npc EXCEPT !.payer = p, !.paid = PaidBy(p) + 1]
            /\ players' = [players EXCEPT ![p] = Spend(@, "money", 1)]
            /\ UNCHANGED ledger
       ELSE /\ CanAdd(players[p].inv, npc.item, 1, BaseSlots)
            /\ npc' = [npc EXCEPT !.stock = @ - 1, !.payer = "none", !.paid = 0]
            /\ players' = [players EXCEPT ![p] = [Spend(@, "money", 1) EXCEPT
                    !.inv = AddItem(players[p].inv, npc.item, 1, BaseSlots)]]
            /\ ledger' = [ledger EXCEPT ![npc.item] = @ + 1]
    /\ UNCHANGED <<stash, dropped, task, restocking, sold, income, overfull>>

\* deterministicNPCTaskForDay draws one by a hash.
TasksOf(day) ==
    {[day |-> day, kind |-> "visit_room", item |-> "none"]}
        \cup [day : {day}, kind : {"hold_item"}, item : TaskItems]

\* The first talk of a day with an NPC prisoner.
AssignTask(p) ==
    /\ ActionOf(p)
    /\ p \in Prisoners /\ IsDay
    /\ task[p].day # period
    /\ \E t \in TasksOf(period) : task' = [task EXCEPT ![p] = t]
    /\ UNCHANGED <<players, stash, dropped, ledger, npc, restocking, sold, given, income, overfull>>

\* A later one, with the task done (whether the room of a visit_room task is the NPC's
\* is an input).  With a full hand the task is over all the same.
ClaimTask(p) ==
    /\ ActionOf(p)
    /\ p \in Prisoners /\ IsDay
    /\ task[p].day = period /\ task[p].kind # "none"
    /\ task[p].kind = "hold_item" => players[p].inv[task[p].item] > 0
    /\ task' = [task EXCEPT ![p].kind = "none", ![p].item = "none"]
    /\ players' = [players EXCEPT ![p].cards = AddCard(@, "money")]
    /\ income' = [income EXCEPT ![p] = @ + IF players' # players THEN 1 ELSE 0]
    /\ UNCHANGED <<stash, dropped, ledger, npc, restocking, sold, given, overfull>>

-----------------------------------------------------------------------------
(* Cards *)

\* Seeded fault: the options are still there.
SelectNightCard_Again(p, c) ==
    /\ ActionOf(p)
    /\ players[p].offered
    /\ HandSize(players[p].cards) < MaxCardsHeld
    /\ players' = [players EXCEPT ![p].cards = AddCard(@, c)]
    /\ income' = [income EXCEPT ![p] = @ + 1]
    /\ UNCHANGED <<stash, dropped, ledger, npc, task, restocking, sold, given, overfull>>

\* Which three cards are offered is left out: the one picked may be any.
SelectNightCard(p, c) ==
    /\ ActionOf(p)
    /\ players[p].offered
    /\ HandSize(players[p].cards) < MaxCardsHeld
    /\ players' = [players EXCEPT ![p].cards = AddCard(@, c), ![p].offered = FALSE]
    /\ income' = [income EXCEPT ![p] = @ + 1]
    /\ UNCHANGED <<stash, dropped, ledger, npc, task, restocking, sold, given, overfull>>

\* Whoever holds a card may play it, the dead too; one without effect is put back.
Play(p, c) == Command(p) /\ players[p].cards[c] > 0

UseBulletCard(p) ==
    /\ Play(p, "bullet")
    /\ players[p].bullets < IF p \in Authority THEN AmmoMax ELSE MaxStack
    /\ players' = [players EXCEPT ![p] =
            syncAuthorityBulletStack(p, [Spend(@, "bullet", 1) EXCEPT
                                            !.bullets = players[p].bullets + 1])]
    /\ UNCHANGED <<stash, dropped, ledger, trade, overfull>>

\* item_steal and item_grab: the item named, the first one or one drawn by a hash.
UseItemSteal(p, q, i) ==
    /\ Play(p, "item_steal")
    /\ q # p /\ players[q].alive
    /\ players[q].inv[i] >= 1
    /\ CanAdd(players[p].inv, i, 1, BaseSlots)
    /\ players' = [players EXCEPT
            ![q] = WithInventory(@, Without(@.inv, i, 1)),
            ![p] = WithInventory(Spend(@, "item_steal", 1), AddItem(@.inv, i, 1, BaseSlots))]
    /\ overfull' = (overfull \/ ~CapacityHolds')
    /\ UNCHANGED <<stash, dropped, ledger, trade>>

\* A piece of wood and one of metal, or as much of it as fits.
UseScrapBundle(p) ==
    LET before == players[p].inv
        after  == AddItem(AddItem(before, "wood", 1, BaseSlots), "metal_slab", 1, BaseSlots)
    IN /\ Play(p, "scrap_bundle")
       /\ after # before
       /\ players' = [players EXCEPT
               ![p] = WithInventory(Spend(@, "scrap_bundle", 1), after)]
       /\ ledger' = [i \in Items |-> ledger[i] + after[i] - before[i]]
       /\ UNCHANGED <<stash, dropped, trade, overfull>>

-----------------------------------------------------------------------------
(* The end of a tick *)

\* normalizeInventoryToPlayerSlotsLocked: stack by stack in the order of the names; one
\* that comes before the satchel that makes room for it is lost.
normalizeInventoryToPlayerSlots(inv) ==
    FoldLeft(LAMBDA kept, i : IF inv[i] = 0 THEN kept ELSE AddItem(kept, i, inv[i], BaseSlots),
             EmptyInventory, ItemOrder)

\* evictAuthorityOverflowItemForSidearmLocked: the first stack that is not of the
\* loadout, or else the bullets.
Evict(inv) ==
    LET Evictable(i) == /\ i \notin {"baton", "pistol", "bullet"} /\ inv[i] > 0
                        /\ CanRemove(inv, i, inv[i], BaseSlots)
        evictable    == {k \in DOMAIN ItemOrder : Evictable(ItemOrder[k])}
        victim       == IF evictable = {} THEN "bullet" ELSE ItemOrder[Min(evictable)]
    IN [inv EXCEPT ![victim] = 0]

\* restoreAuthoritySidearmsForNewDayLocked, of one player; the dead are no exception.
RestoreSidearms(q) ==
    LET kept   == normalizeInventoryToPlayerSlots(q.inv)
        baton  == IF kept["baton"] > 0 THEN kept ELSE AddItem(kept, "baton", 1, BaseSlots)
        pistol == IF baton["pistol"] > 0 THEN baton
                  ELSE IF CanAdd(baton, "pistol", 1, BaseSlots)
                  THEN AddItem(baton, "pistol", 1, BaseSlots)
                  ELSE AddItem(Evict(baton), "pistol", 1, BaseSlots)
    IN ensureEquippedItem(SyncBullets([q EXCEPT !.inv = pistol]))

\* assignNightCardOffersForCycleLocked: three cards, drawn by a hash, to choose from.
WithNightCards(ps) ==
    [p \in Players |->
        [ps[p] EXCEPT !.offered = ps[p].alive /\ HandSize(ps[p].cards) < MaxCardsHeld]]

NightFalls(ps) ==
    /\ players' = WithNightCards(ps)
    /\ npc' \in {NPCOffer(i) : i \in NPCOffers}
    /\ given' = [p \in Players |-> 0]
    /\ UNCHANGED ledger

\* A new day rewrites the inventories of the authority, and the ledger follows.
DayBreaks(ps) ==
    /\ players' = [p \in Players |->
            LET q == [ps[p] EXCEPT !.offered = FALSE]
            IN IF p \in Authority THEN RestoreSidearms(q) ELSE q]
    /\ ledger' = [i \in Items |->
            ledger[i] + SumFunction([p \in Authority |-> players'[p].inv[i] - ps[p].inv[i]])]
    /\ UNCHANGED <<npc, given>>

\* The last part of expireTimedStatesLocked, and what the guards' shots end.
Expired(killed) ==
    [p \in Players |-> LET q == ensureEquippedItem(players[p])
                       IN IF p \in killed THEN [q EXCEPT !.alive = FALSE] ELSE q]

EndTick(killed) ==
    /\ \A p \in killed : MayDie(p)
    /\ players' = Expired(killed)
    /\ UNCHANGED <<stash, dropped, npc, task, restocking, sold, period, handled, ledger,
                   given, income, overfull>>

EndPeriod(killed) ==
    /\ \A p \in killed : MayDie(p)
    /\ period < MaxPeriods
    /\ period' = period + 1
    /\ IF IsDay THEN NightFalls(Expired(killed)) ELSE DayBreaks(Expired(killed))
    /\ income' = [p \in Players |-> 0]
    /\ UNCHANGED <<stash, dropped, task, restocking, sold, handled, overfull>>

-----------------------------------------------------------------------------
CommandOf(p) ==
    \/ \E i \in match.traded, n \in Amounts :
          \/ \E q \in Players : TransferItem(p, q, i, n)
          \/ DropItem(p, i, n) \/ PickUpItem(p, i, n)
          \/ StashDeposit(p, i, n) \/ StashWithdraw(p, i, n)
    \/ \E output \in DOMAIN Recipes : Craft(p, output)
    \/ \E q \in Players : Search(p, q)
    \/ \E w \in ToSet(WeaponPriority) :
          \/ EquipItem(p, w) \/ FireInVain(p, w)
          \/ \E target \in Players, golden, fatal \in BOOLEAN :
                FireWeapon(p, target, w, golden, fatal)
    \/ Reload(p)
    \/ \E i \in Items : BlackMarketBuy(p, i)
    \/ Bribe(p) \/ AssignTask(p) \/ ClaimTask(p)
    \/ \E c \in Cards : SelectNightCard(p, c)
    \/ UseBulletCard(p) \/ UseScrapBundle(p)
    \/ \E q \in Players, i \in match.traded : UseItemSteal(p, q, i)

Step ==
    \/ \E p \in Players : CommandOf(p) \/ RestockCompletes(p)
    \/ \E killed \in SUBSET Prisoners : EndTick(killed) \/ EndPeriod(killed)

Next == UNCHANGED match /\ Step

Spec == Init /\ [][Next]_vars

-----------------------------------------------------------------------------
(* Properties *)

\* Units of an item in the match, wherever they are.
UnitsOf(i) ==
    SumFunction([p \in Players |-> players[p].inv[i] + stash[p][i]])
        + SumFunction([d \in DOMAIN dropped |-> IF d[1] = i THEN d[2] * dropped[d] ELSE 0])

\* No chain of gifts, thefts, drops, pickups, stash moves, crafts and purchases
\* duplicates an item, and none loses one, but for a deposit that is refused to a player
\* whose inventory is over its limit.  (The bullets of the authority are made from a
\* counter and are left out.)
ItemsConserved ==
    \A i \in Items \ {"bullet"} :
        UnitsOf(i) <= ledger[i] /\ (~overfull => UnitsOf(i) = ledger[i])

\* One golden bullet a match: wherever the one that was sold is hidden, and even after
\* it is fired, no other appears.
OneGoldenBullet ==
    [][/\ UnitsOf("golden_bullet")' <= 1
       /\ sold => UnitsOf("golden_bullet")' <= UnitsOf("golden_bullet")]_vars

\* A living player's weapon is one they carry: nothing that takes it out of the
\* inventory leaves it in hand, but for a refused deposit of an overfull inventory.
EquippedIsHeld ==
    overfull \/ \A p \in Players :
        LET q == players[p]
        IN q.alive /\ q.equipped # "none" => CanUseWeapon(q, q.equipped)

\* Nobody gets an NPC prisoner's goods on what another player paid: whoever completes a
\* deal has given the whole price in this night.
BribePaidInFull ==
    [][npc'.stock < npc.stock =>
          \E p \in Players : /\ players'[p].inv[npc.item] = players[p].inv[npc.item] + 1
                             /\ given'[p] >= MoneyCardCost[npc.item]]_vars

\* A task or a night's options are good for one card in a day or a night, however often
\* a player asks again.
OneCardAPeriod == \A p \in Players : income[p] <= 1

-----------------------------------------------------------------------------
(* The inductive strengthening *)

Inventories == [Items -> 0 .. MaxStack]

PlayerStates ==
    [alive : BOOLEAN, inv : Inventories, equipped : ToSet(WeaponPriority) \cup {"none"},
     bullets : 0 .. MaxStack, cards : [Cards -> Nat], offered : BOOLEAN]

EconomyTypeOK ==
    /\ match \in Matches
    /\ players \in [Players -> PlayerStates]
    /\ stash \in [Players -> Inventories]
    /\ DOMAIN dropped \subseteq Items \X Amounts /\ IsFiniteSet(DOMAIN dropped)
    /\ dropped \in [DOMAIN dropped -> Nat \ {0}]
    /\ npc \in [item : NPCOffers, stock : {0, 1}, payer : Players \cup {"none"}, paid : Nat]
    /\ task \in [Players -> [day : Nat, kind : {"none", "visit_room", "hold_item"},
                             item : TaskItems \cup {"none"}]]
    /\ restocking \subseteq Authority
    /\ sold \in BOOLEAN /\ overfull \in BOOLEAN
    /\ period \in Nat
    /\ handled \in [Players -> Nat]
    /\ ledger \in [Items -> Int]
    /\ given \in [Players -> Nat]
    /\ income \in [Players -> Nat]

\* A card that came by day was the day's task's, and that is over; one that came by
\* night was picked, and there is nothing left to pick; by day there never is.
IncomeInv ==
    \A p \in Players :
        /\ IsDay => ~players[p].offered
        /\ income[p] > 0 =>
              IF IsDay THEN task[p].day = period /\ task[p].kind = "none"
              ELSE ~players[p].offered

\* What the NPC counts of the current payer was given in this night.
BribeInv == npc.payer \in Players => given[npc.payer] >= npc.paid

\* As long as no gift or theft has left an inventory over its limit, none is.
CapacityInv == overfull \/ CapacityHolds

\* The one golden bullet comes with its sale.
GoldenInv == ledger["golden_bullet"] <= IF sold THEN 1 ELSE 0

EconomyInv ==
    /\ EconomyTypeOK /\ OneCardAPeriod /\ IncomeInv /\ BribeInv /\ CapacityInv
    /\ EquippedIsHeld /\ ItemsConserved /\ GoldenInv

=============================================================================
