SPECIFICATION Spec
INVARIANT ByteNeverReadsAn
CHECK_DEADLOCK FALSE
