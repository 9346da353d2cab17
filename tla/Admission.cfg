CONSTANTS
  IP = {x}
  TCPConn = {}
  HTTPConn = {h}
  Assoc = {u}
  Listener = {l}
  Tunnel = {t}
  Request = {q}
SPECIFICATION Spec
INVARIANTS TypeOK ForbiddenConnDoomed
