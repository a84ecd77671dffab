SPECIFICATION Spec
CONSTANT Outputs <- OneFrame
INVARIANT ChangesReported
CHECK_DEADLOCK FALSE
