SPECIFICATION Spec
CONSTANTS
  Root = "E"
  Plain <- MCPlain
  Lists <- MCLists
  Items <- MCItems
  Links <- MCLinks
  Order <- MCOrder
  Polled <- MCPolled
  LinkPolled <- MCLinkPolled
  Refusable <- MCRefusable
  PageMax = 1
  Ignorable <- MCIgnorable
  Overlap = FALSE
  Midway = FALSE
  Empties = TRUE
  MaxChange = 4
INVARIANT Pollable
CHECK_DEADLOCK FALSE
