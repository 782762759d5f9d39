----------------------------- MODULE MCMsgQueue -----------------------------
EXTENDS MsgQueue

\* Messages of all lengths from senders that leave one line free, in a build
\* that loads head twice; two-line messages in an odd ring, sent without
\* restraint, in a build that loads it once.
MCBuilds == {[oneLoad |-> FALSE, sizes |-> {1, 2, 3}, backlog |-> 4],
             [oneLoad |-> TRUE, sizes |-> {2}, backlog |-> 2 * Capacity]}

\* Messages of one line, which can fill the ring exactly.
MCExact == {[oneLoad |-> TRUE, sizes |-> {1}, backlog |-> Capacity]}

\* The same from senders that leave a line free, with two loads.
MCDrain == {[oneLoad |-> FALSE, sizes |-> {1}, backlog |-> Capacity - 1]}
=============================================================================
