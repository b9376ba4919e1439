------------------------------ MODULE MCSpool ------------------------------
EXTENDS Spool
=============================================================================
