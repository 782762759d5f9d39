----------------------------- MODULE MCBTreeOLC -----------------------------
EXTENDS BTreeOLC

\* Trees whose last leaf {8, 10} is full: a root leaf, a root that fills up with
\* the next split, and an inner node below the root that does.
MCLoads == {<<8, 10>>, <<5, 6, 7, 8, 10>>, <<3, 4, 5, 6, 7, 8, 10>>}
=============================================================================
