SPECIFICATION EmergencyFairSpec
CONSTANTS
  Name = {"robot"}
  Watched = "robot"
  Alert <- FitsOrNot
  MaxAlert = 1
  AlertDepth = 1
  MainDepth = 1
  MaxSends = 2
  MaxMain = 1
 
PROPERTIES  AlertGetsThrough
CHECK_DEADLOCK FALSE
