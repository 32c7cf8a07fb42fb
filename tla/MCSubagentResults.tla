------------------------- MODULE MCSubagentResults -------------------------
EXTENDS SubagentResults
CONSTANTS s1, s2
=============================================================================
