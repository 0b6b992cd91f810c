SPECIFICATION Spec
INVARIANT SingleOwner
INVARIANT HandlersComplete
INVARIANT DestinationsAlterable
INVARIANT EmulatorLinesFree
\* The package is initialised once and init() is over.
CHECK_DEADLOCK FALSE
