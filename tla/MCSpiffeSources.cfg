CONSTANTS
  Sources = {"x509", "jwt"}
  Path <- MCPath
  Extra <- MCExtra
  Capacity = 4
  Endpoints = {"unix://b"}
SPECIFICATION Spec
INVARIANTS
  BoundToSocket
CHECK_DEADLOCK FALSE
