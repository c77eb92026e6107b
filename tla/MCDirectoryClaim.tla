-------------------------- MODULE MCDirectoryClaim --------------------------
(* Three processes of one machine over one directory.                      *)
EXTENDS DirectoryClaim

CONSTANTS p1, p2, p3, here

SameHost == [p \in Proc |-> here]

=============================================================================
