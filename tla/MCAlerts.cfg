SPECIFICATION Spec
CONSTANTS
  Integrations = {px}
  Clickers = {click}
  Channels <- OneChannel
  QueueCap = 1
  OutCap = 1
  MailCap = 1
  Retries = 1
  MaxEvents = 3
  Mishaps = 1
INVARIANTS
  TypeOK
  OneEventPerOutage
  PageIsOwed
  NewsIsCurrent
PROPERTIES
  ComesToRest
CHECK_DEADLOCK FALSE
