--------------------------- MODULE MCExtractWindow ---------------------------
\* Two archives for [extract here], which may come together or apart, and one
\* for the form.
EXTENDS ExtractWindow, TLC

CONSTANTS a, b, c

MCVerb == [x \in Chosen |-> IF x = c THEN "form" ELSE "here"]
=============================================================================
