---------------------------- MODULE MCLogicalNode ----------------------------
EXTENDS LogicalNode, TLC

CONSTANTS a, b, c

MCTicketIDs == {a, b, c}
===============================================================================
