\* Three channels.
CONSTANT NumChannels = 3
SPECIFICATION Spec
CHECK_DEADLOCK FALSE
PROPERTY RelaysMoveOnDeadOutput
