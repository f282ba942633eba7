------------------------ MODULE MCCompanyProcessing ------------------------
(* Two artifacts of a company, and an attempt from elsewhere at one of them.    *)
EXTENDS CompanyProcessing

CONSTANTS c1, j1, j2, j3, a1, a2

OfCompany == [j \in Job |-> IF j = j1 THEN a1 ELSE a2]
OnePage == [a \in Artifact |-> 1]
BothArtifacts == [c \in Call |-> <<j1, j2>>]
============================================================================
