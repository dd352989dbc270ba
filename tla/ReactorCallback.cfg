SPECIFICATION Spec
CONSTANTS
  Conn = {1, 2}
  POLL_SIZE = 2
  Dispatchers = {"poll", "epoll"}
  ThreadNums = {0, 2}
  Servers = {"http"}
INVARIANT CallbackHasData
CHECK_DEADLOCK FALSE
