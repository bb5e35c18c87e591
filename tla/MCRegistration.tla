--------------------------- MODULE MCRegistration ---------------------------
\* Two extensions, another program, two places of the program.
EXTENDS Registration

CONSTANTS zip, egg, A, here, there, files, folders

Same == Permutations(Ext) \cup Permutations(Others) \cup Permutations(Places)

Limits == [take |-> 1, pick |-> 1, damage |-> 1, fail |-> 1, die |-> 1, edit |-> 2,
           move |-> 1, install |-> 2, any |-> 4]
=============================================================================
