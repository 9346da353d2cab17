CONSTANTS
  IP = {x}
  TCPConn = {}
  HTTPConn = {}
  Assoc = {u}
  Listener = {l}
  Tunnel = {}
  Request = {q}
SPECIFICATION Spec
INVARIANT NoForbiddenAssoc
