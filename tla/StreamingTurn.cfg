SPECIFICATION StreamSpec
CONSTANTS
  MaxFragments = 4
  Durations = {1, 2}
INVARIANTS ChunksPair SpeechCoversText
PROPERTY NothingStartsAfterCancel
CHECK_DEADLOCK FALSE
