---------------------------- MODULE MCPathAccess ----------------------------
(* Instances of PathAccess for TLC.                                        *)
EXTENDS PathAccess, TLC

CONSTANTS top, ceil, src, vendor, secret, out, git, etc, r1, r2, r3, c1, c2

(* top (etc: a system directory)                                           *)
(* |-- ceil (src, vendor: protected, secret: excluded)                     *)
(* `-- out (git)                                                           *)
Paths == {top, etc, ceil, src, vendor, secret, out, git}
Tree == [p \in Paths |->
           CASE p = top -> Paths
             [] p = ceil -> {ceil, src, vendor, secret}
             [] p = out -> {out, git}
             [] OTHER -> {p}]

\* Write outside, read outside, and write above the ceiling.
Requests == {r1, r2, r3}
Roots == [r \in Requests |-> IF r = r3 THEN top ELSE out]
Modes == [r \in Requests |-> IF r = r2 THEN "ro" ELSE "rw"]

\* Nothing narrowed, a part of the ceiling, a protected part of it, and two
\* that are refused.
Narrowings == {{}, {src}, {vendor}, {src, secret}, {out}}

\* Both commands run in a directory that is protected.
Cwds == [c \in {c1, c2} |-> {vendor}]
Symmetry == Permutations({c1, c2})
=============================================================================
