------------------------------ MODULE MCPromise ------------------------------
EXTENDS Promise
=============================================================================
