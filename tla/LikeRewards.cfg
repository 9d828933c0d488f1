SPECIFICATION ApartSpec
CONSTANTS
  ann = ann
  topic = topic
  reply = reply
  Users = {ann, bob}
  Targets = {topic, reply}
  OwnerOf <- AnnOwnsAll
  AnonTargets = {reply}
  Workers = {w1, w2}
  MaxLikes = 3
  Admins = {}
  Serves <- OfAnn
  Start = 0
  Cost = 0
  Penalty = 0
  Adjustments <- NoAdjustments
  MaxRows = 3
  MaxCrashes = 1
  Refs = {topic}
  RewardXP <- One
  RewardCredits <- NoCredits
  DailyCap <- One
  Days = 1
SYMMETRY LikeRewardsSymmetry
INVARIANTS OneVote LikeCountNeverOver LikesExactApart RewardsKept
CHECK_DEADLOCK FALSE
