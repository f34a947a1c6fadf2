-------------------------- MODULE MCCircularBuffer --------------------------
\* A small instance of CircularBuffer for TLC.
EXTENDS CircularBuffer
=============================================================================
