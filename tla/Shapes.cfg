CONSTANTS
    NumFaces = 4
    Vertices = {1, 2, 3}
    Flaggings <- MCFlaggings
    Uuids = {u1, u2, u3}
    NumMembers = 2
    MaxUuids = 3
    Computations = {"overhangs", "place", "canonical", "distance"}
    Points <- MCPoints
    Positions = {0, 5}
    MaxMatches = 1
SPECIFICATION ShapesSpec
INVARIANTS
    RegionsAreComponents
    PlacedAlike
    PinnedToContent
CHECK_DEADLOCK FALSE
