SPECIFICATION Spec
CONSTANTS
  BSIZE = 3
  NDIRECT = 1
  NINODES = 14
  FSSIZE = 26
  nmeta = 2
  Proc = {1, 2, 3}
  NINODE = 9
  NFILE = 5
  NOFILE = 3
  MaxWrite = 4
  Image <- MCImage
  Workloads <- SameName
INVARIANT NoCircularWait
