SPECIFICATION Spec
CONSTANTS
  Root = "E"
  Plain <- MCPlain
  Lists <- MCLists
  Items <- MCItems
  Links <- MCLinks
  Order <- MCOrder
  Polled <- MCPolled
  LinkPolled <- MCLinkPolled
  Refusable <- MCRefusable
  PageMax = 1
  Ignorable <- MCIgnorable
  Overlap = FALSE
  Midway = FALSE
  Empties = FALSE
  MaxChange = 4
INVARIANT UpdateAwaited
CHECK_DEADLOCK FALSE
