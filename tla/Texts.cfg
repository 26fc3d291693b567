\* Packets of 48 bytes: a file of 20 can be read, and 8 of it go into an update.
SPECIFICATION Spec
CONSTANTS
  LittleEndian = TRUE
  Commands <- MCCommands
  InitialFiles <- MCInitialFiles
  Watched <- MCWatched
  MaxDatagram = 48
  MaxCalls = 3
INVARIANT ContentsInv
INVARIANT PacketsExact
INVARIANT UnansweredOnlyIfTooLong
PROPERTY ImplementsTextService
\* Users stop, and processes end and are not started again.
CHECK_DEADLOCK FALSE
