CONSTANTS
  n1 = n1
  n2 = n2
  http = http
  Names <- MCNames
  Devices = {}
  DeviceRequests <- MCDeviceRequests
  Addr <- MCAddr
  SubnetFirst = 0
  SubnetLast = 3
  Gateway = 1
  PoolStart = 2
  PoolEnd = 3
  StaticIPs = {}
  BadIP = BadIP
  NoStatic = NoStatic
  NoIP = NoIP
  Labels = {http}
  TaskPorts <- MCTaskPorts
  To <- MCTo
  MaxStarts = 1
  MaxInits = 1

SPECIFICATION Spec

SYMMETRY MCSymmetry

INVARIANTS
  RunningForwardsTargetOwnVM
  SystemForwardsInstalled
