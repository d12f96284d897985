SPECIFICATION Spec
CONSTANTS
    Handlers = {h1, h2}
    Objs = {o1, o2}
    Chars = {c1, c2}
    Accounts = {a1, a2, a3}
    Disabled = {a3}
    MaxActive = 1
    MaxCharacters = 1
    TimeoutTicks = 2
    Null = Null
    Stale = Stale
SYMMETRY Symmetry
INVARIANTS OneLife CharactersBounded
