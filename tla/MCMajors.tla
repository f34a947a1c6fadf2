------------------------------ MODULE MCMajors ------------------------------
\* Small instances of Majors for TLC.
EXTENDS Majors
=============================================================================
