------------------------------ MODULE MCNacMem ------------------------------
EXTENDS NacMem

MCPieces == 1..8
MCHigh == {8}
MCAsks == {0, 2, 8}
MCUnits == {"u0", "u1", "u2"}
MCSizes == {8, 4, 2, 1}
MCOddSizes == {3, 1}
=============================================================================
