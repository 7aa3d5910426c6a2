SPECIFICATION LiveSpec
CONSTANTS
  t1 = t1
  t2 = t2
  d1 = d1
  Tasks = {t1, t2}
  DeviceOf <- MCDeviceOf
  MaxConcurrent = 1
  Ops = {"cancel", "retry"}
  MaxRequests = 1
  MaxRestarts = 1
  StoreBusy = TRUE
INVARIANTS TypeOK SlotAccounting SuccessMeansSent MutedOnlyDuringTask CancelHonoured
PROPERTY ExecutorEnds
CHECK_DEADLOCK FALSE
