------------------------------- MODULE MCLive -------------------------------
\* The system of MCBoard under a host that steps for ever.  The boot code may
\* stop and wait for devices instead of starting the task.
EXTENDS M68kLive, MCBoard

Waiting == [a \in {18} |-> {Ins("RTE"), [Ins("STOP") EXCEPT !.w = {13}]}]
System == Program(Merge(Waiting, SystemParts), 0 .. BusMod - 1)
=============================================================================
