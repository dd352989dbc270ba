SPECIFICATION MCSpec
CONSTANTS
  Conn = {1, 2}
  POLL_SIZE = 2
  Dispatchers = {"poll", "epoll"}
  ThreadNums = {0, 2}
  Servers = {"http"}
  INIT_BUFFER_SIZE = 8
  Consumer = {c1, c2, c3}
  NUM = 2
  MaxMade = 5
  Key = {1, 2, 3}
  MaxLen = 5
INVARIANT NoLostWakeup
INVARIANT AnswersInOrder
INVARIANT TakenOnce
 
PROPERTY MessageIsRead
CHECK_DEADLOCK FALSE
