--------------------------- MODULE MCMutationLoop ---------------------------
EXTENDS MutationLoop
=============================================================================
