SPECIFICATION MCSpec
CONSTANTS
  Accounts = {"a", "b", "c", "d"}
  WitnessNames = {"w", "x", "y"}
  Witnesses = {1, 2, 3, 4}
  Platforms = {"p"}
  Depth = 2
  MaxBallots = 2
  MaxShares = 2
  MaxTally = 3
  Self = Self
  VotingProfiles <- MCVotingProfiles
  Genesis = {1, 2, 3}
  MaxVoted = 1
  MaxMiners = 2
  Lap = 7
  Day = 1
  Required = 2
  NumHardforks = 1
  Window = 2
  Slots = 2
  MaxVotes = 2
  ScheduleProfiles <- MCScheduleProfiles
  Second = 6
  Margin = 2
  Interval = 2
  Own = {2, 3}
  Keyless = {1}
  MaxSecond = 8
  PluginProfiles <- MCPluginProfiles
INVARIANTS
  TalliesAddUp
  ScheduleSound
  ProductionSound
PROPERTIES
  PlatformVotesDriftOnlyByProxy
  MajorityDecides
  ScheduleProgresses
