-------------------------- MODULE MCCommandWatch --------------------------
EXTENDS CommandWatch
CONSTANTS k1, k2
\* Every mode; the constructed path of the scope exists for one of them.
MCHosts == {h \in Host : h.canonical => h.cgroup /\ h.sandboxed}
=============================================================================
