CONSTANTS
  DataSectors = 2
  Jobs <- MCJobs
  Disks = 2
  SdModes = {TRUE, FALSE}
  MaxTransfers = 2
  MaxWrites = 1
  MaxFaults = 1
SPECIFICATION DiskSpec
INVARIANTS ReadsTheBlock WritesReachTheDisk
PROPERTIES WritesStayInPlace DriveAnswers
