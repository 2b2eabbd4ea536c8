------------------------- MODULE MCParallelInsmod -------------------------
\* An instance of ParallelInsmod for TLC.
EXTENDS ParallelInsmod

\* three heights, the second of them without modules (modparse.py leaves out
\* the built-in ones), and more modules at one height than threads
List ==
  <<"Height", "module", "module", "module", "module",
    "Height", "Height", "module", "module">>
=============================================================================
