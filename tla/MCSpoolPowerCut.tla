-------------------------- MODULE MCSpoolPowerCut --------------------------
EXTENDS SpoolPowerCut
=============================================================================
