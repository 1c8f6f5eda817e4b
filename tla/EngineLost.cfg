SPECIFICATION Spec
CONSTANTS
  Threads = {t1, t2}
  Callers = {t1, t2}
  Requests = {"enqueue"}
  MaxRequests = 0
  Addr = {a1, a2}
  EntryPoints = {a1}
  Count = 1
  RunOnce = {1}
  MaxDecodes = 1
INVARIANT NoLostRequest
CHECK_DEADLOCK FALSE
