----------------------------- MODULE MCFrontend -----------------------------
\* The two buttons that an option exchanges, the first with priority.
EXTENDS Frontend

MCPriority == <<A, B>>
=============================================================================
