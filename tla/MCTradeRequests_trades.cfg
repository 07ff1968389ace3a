SPECIFICATION Spec
CONSTANTS
  r1 = r1
  r2 = r2
  Requests = {r1, r2}
  Versions = {1, 2}
  Stops = {90}
  Notes = {"early"}
  None = None
  NoRow = NoRow
  NoScore = NoScore
  Plans <- SomePlans
  Replies <- SomeReplies
  Answers = {"hidden"}
  Free = Free
INVARIANTS TypeOK ReviewSound
PROPERTIES AloneTakesEffect NotesStay RequestsEnd
CHECK_DEADLOCK FALSE
