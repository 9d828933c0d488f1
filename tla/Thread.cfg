SPECIFICATION MCSpec
CONSTANTS
  t1 = t1
  p1 = p1
  p2 = p2
  p3 = p3
  Users <- TwoUsers
  Moderators <- ModOnly
  Topics <- OneTopic
  TopicOwner <- OwnedByAnn
  AnonTopics = {}
  Posts = {p1, p2}
  Texts = {"hello", "edited"}
  LongTexts = {"hello"}
  Requests = {r1, r2}
  MaxInFlight = 2
  MaxCrashes = 1
SYMMETRY ThreadSymmetry
INVARIANTS HiddenNoticeIsTrue OwnerToldOnce ReplyCountNeverOver FloorsConnected ThreadExactApart
PROPERTIES DeletedStaysDeleted LockDrains NoDoublePostApart
CHECK_DEADLOCK FALSE
