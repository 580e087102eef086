\* One job deploys the image of this source to an empty database.
SPECIFICATION Spec
CONSTANTS
    j1 = j1  j2 = j2
    Jobs = {j1}
    Images <- LastImage
    Coords <- NoCoords
    MaxFaults = 0
INVARIANT CodeHasSchema
CHECK_DEADLOCK FALSE
