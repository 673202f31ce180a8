----------------------------- MODULE MCPTBuilder ----------------------------
EXTENDS PTBuilder

CONSTANTS p1, p2, owned, shared, w1

MCPureValues == {p1, p2}
MCWithdrawals == {w1}
SharedRequests ==
  {SharedObject(shared, 1, "no"), SharedObject(shared, 1, "yes"), SharedObject(shared, 2, "yes")}
MCObjectArgs == SharedRequests \cup {OwnedObject(owned)}
=============================================================================
