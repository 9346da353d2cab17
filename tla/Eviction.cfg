CONSTANTS
  IP = {x}
  TCPConn = {}
  HTTPConn = {h}
  Assoc = {}
  Listener = {}
  Tunnel = {t}
  Request = {q}
SPECIFICATION FairSpec
PROPERTY BannedConnDies
