SPECIFICATION FairSpec
CONSTANTS
    Creatures = {c1, c2}
    c1 = c1
    c2 = c2
    r1 = r1
    r2 = r2
    door = door
    passage = passage
    Rooms = {r1, r2}
    Portals = {door, passage}
    Parent <- MCParent
    Target <- MCTarget
    Oneway = {passage}
    Doors = {door}
    Amounts = {1}
    MaxCoins = 2
    GoRounds = {1}
    MaxQueue <- MCMaxQueue
    RoomCoins <- MCRoomCoins
    Null = Null
PROPERTIES WorldHolds QueueDrains
