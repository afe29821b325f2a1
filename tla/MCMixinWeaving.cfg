SPECIFICATION FairSpec
CONSTANTS
  a = a b = b c = c None = None
  Mixins <- MCMixins
  Ids <- MCIds
  Programs <- MCPrograms
CHECK_DEADLOCK FALSE
INVARIANTS PreferredFirst LargestClosedSet StackOrder FailsExactlyWhen EffectsFollowStack HooksAccountedFor
PROPERTIES Terminates
