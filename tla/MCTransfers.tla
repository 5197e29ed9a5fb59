---------------------------- MODULE MCTransfers -----------------------------
EXTENDS Transfers

\* A valid and an invalid upload that fit, and two that do not, one of which
\* says so.
MCBodies == { [chunks |-> 1, declared |-> TRUE, valid |-> TRUE],
              [chunks |-> 1, declared |-> FALSE, valid |-> FALSE],
              [chunks |-> 2, declared |-> TRUE, valid |-> TRUE],
              [chunks |-> 2, declared |-> FALSE, valid |-> TRUE] }
=============================================================================
