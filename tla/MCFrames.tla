------------------------------ MODULE MCFrames ------------------------------
\* The system of MCBoard with the history of its frames.
EXTENDS M68kFrames, MCBoard

System == Program(SystemParts, 0 .. BusMod - 1)
=============================================================================
