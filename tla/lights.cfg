SPECIFICATION FairSpec
CONSTANTS
  Colours = {red, cyan}
  node3 = node3
  node4 = node4
  Nodes <- TwoNodes
  Dark = dark
  DimRed = dimred
INVARIANTS TypeOK LastHeardShows
PROPERTY UnisonReturns
