------------------------------ MODULE MCSatCheck ------------------------------
\* A small automaton: one path of length 1, two of length 2.
EXTENDS SatCheck

MCPaths == {<<1, 0>>, <<2, 0>>, <<2, 1>>}

\* One file of a path this automaton has, one of a path it does not have.
MCLeftover == {<<2, 0>>, <<1, 1>>}
===============================================================================
