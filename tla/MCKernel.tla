------------------------------ MODULE MCKernel ------------------------------
EXTENDS Kernel
=============================================================================
