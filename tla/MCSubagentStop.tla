--------------------------- MODULE MCSubagentStop ---------------------------
EXTENDS SubagentStop
CONSTANTS t, n, u
MCLauncher == [r \in Runs |-> IF r = n THEN t ELSE Parent]
=============================================================================
