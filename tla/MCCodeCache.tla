---------------------------- MODULE MCCodeCache ----------------------------
\* Six words of code: AppMain up to its startup check, the check, an import and
\* the address tasks return to.  The word that is overwritten, patched and
\* restored is a store in the middle of the first block, or a branch.
EXTENDS CodeCache

MCImage == [a \in 0 .. 5 |-> IF a \in {1, 3} THEN "memory" ELSE "plain"]
=============================================================================
