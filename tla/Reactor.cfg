SPECIFICATION Spec
CONSTANTS
  Platforms = {"epoll", "kqueue"}
  Sockets = {s1,s2}
  Servers = {v1,v2}
  Programs = {{s1, s2}, {s1, v1, v2}}
  Talkers = {s1,s2}
  Fds = {1,2}
  MaxSeen = 1
  Absent = absent
INVARIANTS TypeOK OwnDescriptor Registered ConnectedIsReal SafeDispatch LifeCycle
CHECK_DEADLOCK FALSE
