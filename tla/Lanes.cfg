\* One owner and its thieves, two levels, two roles.
SPECIFICATION Spec
CONSTANTS
    Levels = {1, 2}
    Roles = {a, b}
    MaxQueued = 3
SYMMETRY Symmetry
INVARIANTS
    RolesExact
    ShareKept
    SourcesAlternate
