CONSTANTS
  MaxId = 4
  MaxRegistrations = 4
  MaxPosts = 2
SPECIFICATION EventsSpec
CHECK_DEADLOCK FALSE
INVARIANT EventsTypeOK
INVARIANT NoSpuriousWake
INVARIANT NotificationsAreOwn
INVARIANT NothingStaysRegistered
PROPERTY PostsWake
