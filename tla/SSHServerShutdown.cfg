SPECIFICATION Spec
CONSTANT
  Conns = {c1}
PROPERTY
  ShutdownWaits
CHECK_DEADLOCK FALSE
