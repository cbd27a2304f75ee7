\* Three starts against two permits, a cancellation and a notification.
CONSTANTS
  StartCalls = {1, 2, 3}
  CancelCalls = {4}
  BackfillLimit = 2
  MaxNotifications = 1
SPECIFICATION Spec
INVARIANTS
  TypeOK
  PermitsConserved
  CancelledJobStopped
  RunningJobIsCancellable
  NoStaleJobEntry
PROPERTIES
  EveryCallAnswered
  NotificationsHandled
  StoppedJobsEnd
CHECK_DEADLOCK FALSE
