CONSTANTS
  Absent = Absent
  Named = Named
  UNAVAILABLE = UNAVAILABLE
  Refresh = Refresh
  Pending = Pending
  Targets <- MCTargets
  ServiceNames = {"service", "missing", "message"}
  Environments <- MCEnvironments
  Processes <- MCProcesses
  Listings <- MCListings
  Owner <- MCOwner
  Calls = {u1}
  MaxChannels = 2
  MaxRequests = 2
  MaxImmediates = 2
  MaxEvents = 1
SPECIFICATION Spec
CHECK_DEADLOCK FALSE
PROPERTY IdleCallReconnects
