CONSTANTS
  Threads = {main, w1}
  MainThread = main
  Ids = {h1, h2}
  Nobody = nobody
  Poller = poller
  MaxWork = 1
SPECIFICATION Spec
INVARIANT TailIsLogged
CHECK_DEADLOCK FALSE
