\* A bag that can be worn on the back, an apple that rots, two players.
CONSTANTS
    Objects = {bag, apple}
    Players = {ann, bob}
    Npcs = {}
    Rooms = {hall, yard}
    Null = Null
    Containers = {bag}
    Trash = {apple}
    Rotting = {apple}
    Fixed = {}
    Torso = {}
    Back = {bag}
    Waist = {}
    RotTicks = 1
    TrashTicks = 2
SPECIFICATION Spec
INVARIANT Whereabouts
CHECK_DEADLOCK FALSE
