CONSTANTS
  PythonThreads = {py}
  ReceiveThreads = {rt}
  Callbacks = {one}
  Wildcard = {}
  PythonCalls = {"process_datagram", "register_callback", "unregister_callbacks", "unregister_all_callbacks", "get_book"}
  MaxDepth = 2
  MaxMore = 1
  Nobody = nobody
SPECIFICATION FairSpec
INVARIANTS
  IInv
  NoDeadlock
  AliveWhenUsed
PROPERTY
  CallsReturn
