SPECIFICATION Spec
CONSTANTS
  Ips = {ip1, ip2}
  max = 2
  window = 2
  MAX_TIME = 6
INVARIANTS TypeOK WindowCap QueueIsRecent
PROPERTY ImplementsWindow
