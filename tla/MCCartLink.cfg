CONSTANTS
  TagCount = 2
  Attempts = 2
  MaxCalls = 3
  Room = 1
SPECIFICATION MCFairSpec
INVARIANTS
  AnswersTheCall
  RetriesAgree
  SessionAsAnswered
PROPERTIES
  RequestsAreTaken
  SessionsEnd
CHECK_DEADLOCK FALSE
