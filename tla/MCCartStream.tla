----------------------------- MODULE MCCartStream ---------------------------
EXTENDS CartStream
=============================================================================
