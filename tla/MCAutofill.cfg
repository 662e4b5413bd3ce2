SPECIFICATION OneFieldSpec
CONSTANTS
  Fields = {vendor, name}
  Name = name
  Tags = {tag}
  Values = {A, B}
  Blank = Blank
  ProbeCap = 1
  MaxNews = 2
  MaxEvents = 1
INVARIANTS
  TypeOK
  RestMeansDone
PROPERTIES
  EditsWin
  OwnedIsFinal
  OwnedForAReason
  StartReturns
CHECK_DEADLOCK FALSE
