CONSTANTS
  None = None
  Pack <- MCPack  Order <- MCOrder  Finals = {"F"}  Unowned = {"u"}
  RepairCap = 2  MaxIndex = 2  MaxAsks = 1  MaxCrashes = 1  MaxFaults = 1
SPECIFICATION Spec_Starts
CHECK_DEADLOCK FALSE
PROPERTIES ClosedByAllClosers Settles
