SPECIFICATION Spec
CONSTANTS
  citing = citing
  cited = cited
  NoRow = NoRow
  Papers <- MCPapers
  Cites <- MCCites
  OpenCopies = {citing}
  Fields = {"problem"}
  MaxLive = 2
  Concurrency = 2
  MaxTrouble = 1
INVARIANTS TypeOK StatusHonest NoSilentStall
PROPERTIES NeverRegresses Settles
CHECK_DEADLOCK FALSE
