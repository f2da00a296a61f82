CONSTANTS
  a = a
  b = b
  k1 = k1
  k2 = k2
  k3 = k3
  none = none
  Port <- MCPort
  Pid <- MCPid
  initial <- MCInitial
  None = none
SPECIFICATION Spec
INVARIANT
  NoPortLost
