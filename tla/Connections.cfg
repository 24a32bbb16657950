SPECIFICATION Spec
CONSTANTS
  Devices = {d1, d2}
  Requests = {"message", "keepalive", "bad", "undecodable"}
  MaxConns = 2
  MaxInserts = 1
INVARIANTS ConnectionsInv NoStandstill Served
CHECK_DEADLOCK FALSE
