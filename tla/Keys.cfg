SPECIFICATION KeysSpec
CONSTANTS
  Devices = {1, 2}
  Bundled = {1}
  Kinds = {"aci"}
  KeyIds = {1}
  FirstId = 1
  OneTime = 2
  Uploads = {{"preKey"}, {"preKey", "signed", "pqPreKey", "lastResort"}}
  Failures = TRUE
  MaxRequests = 3
INVARIANTS HandedOnce KeysInv
PROPERTY UploadKeepsKeys
CHECK_DEADLOCK FALSE
