------------------------ MODULE MCLocalRuntimeManager ------------------------
EXTENDS LocalRuntimeManager
CONSTANTS c1, c2
=============================================================================
