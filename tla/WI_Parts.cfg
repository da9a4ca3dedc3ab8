\* Every case of the pure parts; the units are scaled down.
SPECIFICATION Spec
CONSTANTS
  NanosPerSec = 10
  FractionsPerSec = 32
  MaxSeconds = 200
  MulticastPort = 1
  PlaceholderPort = 9
  HighUnit = 4
  WordBits = 2
  MaxBits = 4
  MaxPayload = 2
  Garbage = Garbage
  NoTimestamp = NoTimestamp
  NoBuffer = NoBuffer
  Unreadable = Unreadable
  MaxArrivals = 3
  Payloads <- MCPayloads
  MissingLists <- MCMissingLists
  Identifiers <- MCIdentifiers
  Lengths <- MCLengths
  TypeObjects <- MCTypeObjects
  Pairs <- MCPairs
  Messages <- MCMessages
  Announcements <- MCAnnouncements
INVARIANTS
  BothSidesAgree
  DestinationsAreAnnounced
  MessagesAreReadBack
  NacksAreSound
  SamplesAreReassembled
  MissingIsAsked
  ValuesAreReadBack
  OldReadersSkip
  HeadersSurvive
  LookupsAreComplete
  TypesAreCompatible
CHECK_DEADLOCK FALSE
