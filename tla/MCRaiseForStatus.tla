-------------------------- MODULE MCRaiseForStatus ---------------------------
EXTENDS RaiseForStatus

\* The two codes the branches name, -32601 of the catalog, one beyond the
\* catalog, the neighbours of the comparisons, and a positive code.
MCCodes == {-32601, -32000, -32001, -250, -2, -1, 1}
=============================================================================
