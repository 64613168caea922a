--------------------------- MODULE MCPolicySweep ---------------------------
EXTENDS PolicySweep

CONSTANTS i1, i2

Invocations == {i1, i2}
Bodies == {{}, {i1}, {i1, i2}}
=============================================================================
