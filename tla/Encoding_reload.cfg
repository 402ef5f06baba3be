\* A file is read again: the speculator remembers what it read before.
SPECIFICATION Spec
CONSTANTS
  Bytes = {65, 194, 128}
  MaxSize = 3
  MaxChanges = 1
INVARIANT FileIsRead
CHECK_DEADLOCK FALSE
