CONSTANTS
  task = task  caller = caller  i1 = i1  i2 = i2  d1 = d1  d2 = d2
  Refresher <- MCRefresher
  Background <- MCBackground
  Interface <- MCInterface
  Bluetooth <- MCBluetooth
  Device <- MCDevice
  Owner <- MCOwner
  Changes = 1
  Errors = 1
SPECIFICATION AuthFairSpec
INVARIANTS
  CacheWasTrue
PROPERTIES
  EventuallyTrue
CHECK_DEADLOCK FALSE
