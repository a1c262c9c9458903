SPECIFICATION Spec
CONSTANTS
    Suffix <- MCSuffix
    Alike <- MCAlike
    UnitWords = {"205"}
    Parcels <- MCParcels
    Segments <- MCSegments
    Junctions <- MCJunctions
    Metres <- MCMetres
    Threshold = 80
    Spaced <- MCSpaced
    SuggestionFloor = 85
    Band = 150
    CityZones = {1, 2}
    Halls = {1, 2, 3, 4}
    Crow <- MCCrow
    Minutes <- MCMinutes
    Snap <- MCSnap
    Routers <- MCRouters
    Descriptors <- MCDescriptors
    NearRadius = 400
    NearFloor = 75
    SnapLimit = 50
    Verified <- MCVerified
    Heard1 <- MCHeard1
    Heard2 <- MCHeard2
    Geocoded <- MCGeocoded
    Outages <- MCOutages
CHECK_DEADLOCK FALSE
INVARIANTS
    PlacementTypeOK
    MoreSaidNeverWorse
    NoQuietGuess
    FirstShownWasHeard
    RoutesFollowPlace
    FlagsFollowRecord
PROPERTY
    GridChangeIsFlagged
