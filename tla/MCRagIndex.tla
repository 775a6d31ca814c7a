----------------------------- MODULE MCRagIndex -----------------------------
(* Instances of RagIndex for TLC. *)
EXTENDS RagIndex, TLC

CONSTANTS a, b, pdf, txt

MCContents == {<<a, b>>, <<b>>, <<>>}

MCSays == [f \in {pdf, txt} |-> IF f = pdf THEN MCContents ELSE {<<b>>, <<>>}]
=============================================================================
