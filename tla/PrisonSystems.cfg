CONSTANTS
    p1 = p1
    p2 = p2
    p3 = p3
    Casts <- MCCasts
    Rooms = {"corridor_main", "cell_block_a", "warden_hq", "camera_room", "ammo_room", "power_room", "courtyard"}
    CommandRooms = {"camera_room", "power_room"}
    CommandDoors = {"power_room"}
    Actors = {"warden", "leader"}
    CommandCells = {"leader"}
    Deals <- MCDeals
    MaxCommands = 4
    MaxTick = 3
    DayTicks = 1
    NightTicks = 1
    CooldownTicks <- MCCooldown
    EffectTicks <- MCEffectTicks
    DoorStopTicks = 1
    PendingTicks = 1
    StunTicks = 1
    AlarmTicks = 2
SYMMETRY PlayerSymmetry
SPECIFICATION Spec
INVARIANTS
    CastComplete
    PowerOffOpensAll
    RestrictedRoomsKept
    HiddenOnlyWhenStill
PROPERTIES
    StoppedDoorHolds
CHECK_DEADLOCK FALSE
