--------------------------- MODULE MC_ChatServer ---------------------------
EXTENDS ChatServer

CONSTANTS c1, c2, c3

MCConns == {c1, c2, c3}
=============================================================================
