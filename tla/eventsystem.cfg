SPECIFICATION FairSpec
CONSTANTS
  Threads = {t1, t2}
  Handlers = {h1, h2}
  NoThread = NoThread
  NoHandler = NoHandler
  MaxEvents = 2
  MaxHandlers = 3
  MaxRemoves = 2
INVARIANTS RunningHandlerAlive NothingDeferredAtRest RegistrationsHonoured
PROPERTIES ListFrozenInLoop BusReleased
