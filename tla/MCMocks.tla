------------------------------ MODULE MCMocks ------------------------------
EXTENDS Mocks
=============================================================================
