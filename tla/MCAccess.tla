-------------------------------- MODULE MCAccess --------------------------------
EXTENDS Access
=============================================================================
