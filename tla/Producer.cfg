SPECIFICATION MCSpec
CONSTANTS
  Districts <- MCDistricts
  Km <- MCKm
  Slug <- MCSlug
  NoDistrict = NoDistrict
  Ingests = {i1, i2}
  Declarations = {d1}
  Responses <- MCResponses
  Fixture <- MCFixture
INVARIANTS
  LotWithDetection
  CountsAreTrue
  DoneMeansListed
PROPERTIES
  EveryIngestEnds
