--------------------------- MODULE MC_EventEngine ---------------------------
EXTENDS EventEngine

CONSTANTS u1, u2

\* A milestone goes to the survey's owner, or to the admins when the survey has
\* none; an org-wide event to the admins, one of whom has muted it.
OwnedTargets == [milestone |-> {u1}, orgwide |-> {}]
OwnerlessTargets == [milestone |-> {}]
SomeMuted == {<<u2, "orgwide">>}
None == {}
=============================================================================
