-------------------------- MODULE MC_PyModuleName --------------------------
EXTENDS PyModuleName, TLC

\* Five characters, three of them the ones rstrip removes; names up to 4
\* long, alone and with a _pb2.py suffix.
MC_Alphabet == {".", "p", "y", "_", "a"}
MC_MaxLen == 4

=============================================================================
