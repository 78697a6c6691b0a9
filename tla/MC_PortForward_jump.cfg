CONSTANTS
  t1 = t1
  t2 = t2
  http = http
  ssh = ssh
  Tasks <- MCTasks
  Labels <- MCLabels
  TaskPorts <- MCTaskPorts
  GuestIPs <- MCGuestIPs
  TaskIP <- MCTaskIP
  To <- MCTo
  MaxStarts = 2
  MaxInits = 2

SPECIFICATION Spec

INVARIANTS
  JumpRulesInstalled

CHECK_DEADLOCK FALSE
