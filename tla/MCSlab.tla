------------------------------- MODULE MCSlab -------------------------------
EXTENDS Slab
=============================================================================
