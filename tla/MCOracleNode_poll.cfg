\* The oracle with every source: a connection that breaks or gets messages
\* twice, a discovered node, and reorgs of a chain that starts at block 0 or 1.
CONSTANTS
  f1 = f1
  f2 = f2
  Forks = {f1, f2}
  Starts = {0, 1}
  MaxLength = 2
  MaxChain = 2
  MaxNotifications = 2
  MaxRetries = 3
  MaxFeedInputs = 2
  MaxDiscovered = 1
SPECIFICATION Spec
INVARIANTS
  TypeOK
  OutcomeHoldsChain
  GivesUpAfterRetries
PROPERTIES
  MessagesRead
  NotificationsHandled
  FeedRecovers
CHECK_DEADLOCK FALSE
