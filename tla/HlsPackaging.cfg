SPECIFICATION PackagingSpec
CONSTANTS
  Planners = {w1, w2}
  Files <- MCFiles
  Content <- MCContents
  Tracks <- MCTracks
  Targets <- MCTargets
  Jobs <- MCJobs
  NoBox = NoBox
  MaxTableEntries = 8
  OutputLimit = 90000
  CompressedLimit = 70000
  ReadLimits <- MCLimits
  MaxReplacements = 1
  MaxRuns = 2
INVARIANTS WindowsTile NoShortSegment EveryFrameOnce PackageComplete DoneMeansPublished
  BandwidthCoversPeak OutputFits StampsAdvance FragmentTimes ReadsDeliver ChunksTile
SYMMETRY Symmetry
CHECK_DEADLOCK FALSE
