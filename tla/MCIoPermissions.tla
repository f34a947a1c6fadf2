--------------------------- MODULE MCIoPermissions ---------------------------
\* All arguments of both programs for TLC.
EXTENDS IoPermissions
=============================================================================
