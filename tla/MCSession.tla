----------------------------- MODULE MCSession -----------------------------
\* Two archives on disk, one of which needs a password; the other holds an
\* archive.
EXTENDS Session

CONSTANTS a, b, inner

Items == [x \in Archives |-> IF x = a THEN inner ELSE Plain]
=============================================================================
