-------------------------- MODULE MCControlService --------------------------
EXTENDS ControlService, TLC

CONSTANTS c1, c2, i1, i2

TwoClients == {c1, c2}
TwoItems == {i1, i2}
OneItem == {i1}
NoOverlay == {FALSE}
Overlay == BOOLEAN
AnyOrder == Permutations(TwoClients) \cup Permutations(TwoItems)
=============================================================================
