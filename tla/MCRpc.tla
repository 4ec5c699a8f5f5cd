-------------------------------- MODULE MCRpc --------------------------------
EXTENDS MFRpc

CONSTANTS a, b
=============================================================================
