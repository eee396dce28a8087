SPECIFICATION ServersSpec
CONSTANTS
  w1 = w1
  w2 = w2
  f1 = f1
  f2 = f2
  Worker <- MCWorker
  MaxMessages = 2
  Victims <- MCMainThread
  Connection <- MCConnection
  FileSize = 3
  BufSize = 2
  MaxFd = 3
  max_clients = 2
  StrSize = 2
  MaxBytes = 3
  MaxConnections = 3
  MaxArrivals = 5
  ConfigCaller <- MCConnection
  Buffers = 2
  ConfigMaxCalls = 3
  RpcCaller <- MCConnection
  RpcMaxCalls = 2
  User <- MCConnection
  MaxAdds = 2
INVARIANTS
  SkynetInv
  ChatInv
  CopyInv
  ClientsInv
PROPERTIES
  NeverBack
  ServersServe
