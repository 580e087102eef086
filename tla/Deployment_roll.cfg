\* Two deploy jobs of any of three images, an empty database or one before 0005, one fault.
SPECIFICATION Spec
CONSTANTS
    j1 = j1  j2 = j2
    Jobs = {j1, j2}
    Images <- SomeImages
    Coords <- SomeCoords
    MaxFaults = 1
SYMMETRY JobSymmetry
INVARIANTS SchemaOfVersion MigrationsApply SecretsStayPut OldCodeServed OnlyKnownGaps
PROPERTY GreenJobDeployed
CHECK_DEADLOCK FALSE
