SPECIFICATION Spec
CONSTANTS
  Threads = {t1, t2}
  Callers = {t1, t2}
  Requests = {"enqueue", "function", "decode", "block", "location", "create"}
  MaxRequests = 1
  Addr = {a1, a2}
  EntryPoints = {a1}
  Count = 2
  RunOnce = {1}
  MaxDecodes = 1
INVARIANTS BusyWhileWorking WeakDiscipline Settled
PROPERTIES AnalyzersSeeGraphs Terminates
CHECK_DEADLOCK FALSE
