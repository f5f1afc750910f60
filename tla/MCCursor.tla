------------------------------ MODULE MCCursor ------------------------------
EXTENDS Cursor

\* Left, right, up, down, and none.
MCMoves == {-1, 0, 1}
=============================================================================
