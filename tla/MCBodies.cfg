SPECIFICATION Spec
INVARIANTS Sound Preserved DropsRight
CHECK_DEADLOCK FALSE
