SPECIFICATION FairSpec
CONSTANTS
  Platforms = {"epoll", "kqueue"}
  Sockets = {s1,s2,s3}
  Servers = {v1}
  Programs = {{s3, v1}, {s1, s2, v1}}
  Talkers = {s3}
  Fds = {1,2,3}
  MaxSeen = 1
  Absent = absent
PROPERTIES DataDelivered ConnectSettles BacklogAccepted
CHECK_DEADLOCK FALSE
