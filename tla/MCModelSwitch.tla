--------------------------- MODULE MCModelSwitch ---------------------------
EXTENDS ModelSwitch
=============================================================================
