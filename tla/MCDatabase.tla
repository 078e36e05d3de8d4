------------------------------ MODULE MCDatabase ------------------------------
(* Small instances of Database.                                                 *)
EXTENDS Database, TLC

CONSTANTS c1, c2,  \* cclip processes
          p1, p2,  \* payloads
          n1       \* a tag

MCContent == {p1, p2}

\* XXH3 without a collision.
MCHash == [p \in MCContent |-> p]

MCTag == {n1}

\* Processes of cclip are interchangeable, and so are payloads.
MCSymmetry == Permutations({c1, c2}) \cup Permutations(MCContent)
===============================================================================
