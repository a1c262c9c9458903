SPECIFICATION Spec
CONSTANTS
    a1 = a1  a2 = a2  b1 = b1  b2 = b2
    p = p  q = q  pine = pine  oak = oak
    aLot = aLot  aSite = aSite  bLot = bLot  bSite = bSite
    g1 = g1  g2 = g2  x1 = x1  x2 = x2  h1 = h1  h2 = h2  t1 = t1  t2 = t2  j1 = j1
    MaxEdition = 2
    Plans <- MCPlans
    Hydrants = {h1, h2}
    HydrantsIn <- MCHydrantsIn
    Terms = {t1, t2}
    SeedTerms = {t1}
    Junctions = {j1}
    Lots <- MCLots
    LotOf <- MCLotOf
    Extract <- MCExtract
    Props <- MCProps
    Housed = {p, q}
    StreetOf <- MCStreetOf
    BaseAddress <- MCBaseAddress
    Streets <- MCStreets
    RoadsIn <- MCRoadsIn
    FullNames = {oak}
    Addresses <- MCAddresses
    Like <- MCLike
    GisIds <- MCGisIds
    Batch = 3
    MaxRow = 22
    Tiles = {x1, x2}
    TilesIn <- MCTilesIn
    Loose = {x1}
    TileBatch = 2
INVARIANTS
    CityDataTypeOK
    FailedUpdateReverts
    CrawlIsComplete
    RulingIsRead
    FrontsAreCurrent
    SiteMatchesLots
PROPERTY RulingsSurvive
CHECK_DEADLOCK FALSE
