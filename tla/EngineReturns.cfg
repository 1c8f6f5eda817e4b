SPECIFICATION Spec
CONSTANTS
  Threads = {t1, t2}
  Callers = {t1}
  Requests = {}
  MaxRequests = 1
  Addr = {a1, a2}
  EntryPoints = {a1}
  Count = 1
  RunOnce = {1}
  MaxDecodes = 1
PROPERTY Returns
CHECK_DEADLOCK FALSE
