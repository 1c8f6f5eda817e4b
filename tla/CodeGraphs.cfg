CONSTANTS
  Limit <- Size
  Programs <- AllPrograms
  LayoutTypes <- AllTypes
  NodeSizes <- Sizes
SPECIFICATION Spec
INVARIANT TypeOK
INVARIANT BlocksAreFlow
INVARIANT OwnGraphFound
INVARIANT EachNodeOnce
INVARIANT NodesApart
INVARIANT RoutesClear
PROPERTY Terminates
CHECK_DEADLOCK FALSE
