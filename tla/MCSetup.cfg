\* Setup twice, or with another command, a server or a daemon beside the service, one fault.
SPECIFICATION FairSpec
CONSTANTS
  None = None
  Platforms = {"systemd", "launchd", "schtasks"}
  Pids = {1, 2, 3, 4, 5}
  Reuse = FALSE
  MaxOthers = 1
  MaxFaults = 1
  MaxJobs = 2
INVARIANTS
  FreshAfterSetup
PROPERTIES
  
  ServiceComesBack
CHECK_DEADLOCK FALSE
