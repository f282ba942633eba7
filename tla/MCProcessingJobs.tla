--------------------------- MODULE MCProcessingJobs ---------------------------
(* Attempts at one artifact of one or two pages.                              *)
EXTENDS ProcessingJobs, TLC

CONSTANTS a1, j1, j2, j3

SameArtifact == [j \in Job |-> a1]
TwoPages == [a \in Artifact |-> 2]
OnePage == [a \in Artifact |-> 1]

\* Attempts at the same artifact are interchangeable.
JobSymmetry == Permutations(Job)
===============================================================================
