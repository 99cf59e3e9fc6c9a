---------------------------- MODULE MCTicketStore ----------------------------
EXTENDS TicketStore, TLC

CONSTANTS a, b, c

MCTicketIDs == {a, b, c}
MCCreatedAts == {1, 2}
Symmetry == Permutations(MCTicketIDs)
===============================================================================
