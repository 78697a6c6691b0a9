CONSTANTS
  n1 = n1
  n2 = n2
  n3 = n3
  d1 = d1
  d2 = d2
  Names <- MCNames
  Devices <- MCDevices
  DeviceRequests <- MCDeviceRequests
  Addr <- MCAddr
  SubnetFirst = 0
  SubnetLast = 7
  Gateway = 3
  PoolStart = 2
  PoolEnd = 4
  StaticIPs <- MCStaticIPs
  BadIP = BadIP
  NoStatic = NoStatic
  NoIP = NoIP
SPECIFICATION Spec
SYMMETRY MCSymmetry
INVARIANT RunningDevicesBound
