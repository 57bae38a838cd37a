-------------------------- MODULE MCSionnaChannel --------------------------
EXTENDS SionnaChannel

MCConstant == {1}
MCExternal == {2}
MCWalking == {3}
MCSimulations == {{1, 2, 3}}
MCSettings == [mode : Modes, subMode : {4}] \cup [mode : {"P2MP_LAH"}, subMode : {1}]
MCSpots == {0, 1}
MCOneCoherence == {1}
=============================================================================
