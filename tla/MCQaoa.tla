------------------------------- MODULE MCQaoa -------------------------------
(* One call of a QAOA solver, over the problems of the catalogue.            *)
EXTENDS QaoaSolver, QaoaCatalogue
=============================================================================
