----------------------------- MODULE MCProcTree -----------------------------
\* Small instances of ProcTree for TLC.
EXTENDS ProcTree

\* Names lkm_mem falls back on when its directories cannot be made, and the
\* one of lkm_proc: a directory of another module each, or a file in it.
Colliding ==
  {<<"free">>, <<"mem">>, <<"mem", "free">>, <<"lkm_proc">>, <<"lkm_proc", "free">>}
=============================================================================
