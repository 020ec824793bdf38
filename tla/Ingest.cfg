SPECIFICATION Spec
CONSTANTS
  Executors = {x1, x2}
  Devices <- MCDevices
  Slots <- MCSlots
  Requests <- MCRequests
  None = None
  MaxMinute = 3
  MaxDeliveries = 3
  Window = 3
  MAX_CLOCK_SKEW = 1
  NONCE_RETENTION = 1
  MAX_UPLOADS_PER_HOUR_PER_DEVICE = 1
  MAX_PAYLOAD_BYTES = 2
  MAX_TENANT_BYTES = 2
SYMMETRY Instances
INVARIANTS
  HourlyCapHolds
  NoReplay
  AcceptedIsStored
  OvershootBounded
PROPERTIES
  DoorFillsTable
CHECK_DEADLOCK FALSE
