---------------------------- MODULE MCMainWindow ----------------------------
\* Two archives, and another window that tests or edits.
EXTENDS MainWindow

CONSTANTS a, b
=============================================================================
