SPECIFICATION PaneSpec
CONSTANTS
  MaxSids = 2
  MaxActs = 3
  MaxSwitches = 1
  MaxPrints = 2
  MaxFaults = 1
  PreCap = 1
  
PROPERTY AwaitsEnd
CHECK_DEADLOCK FALSE
