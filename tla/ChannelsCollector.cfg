SPECIFICATION FairSpec
CONSTANT Channels = {c1, c2}
INVARIANTS
  TypeOK
  NoOpenChannelLost
  QuietChannelsExact
PROPERTIES
  CacheGrows
  ClosedIsCounted
  ImplementsScrape
