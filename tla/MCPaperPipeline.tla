--------------------------- MODULE MCPaperPipeline ---------------------------
(* A small instance of PaperPipeline: a paper and one of its references. *)
EXTENDS PaperPipeline, TLC

CONSTANTS citing, cited

MCPapers == {citing, cited}
MCCites  == (citing :> {cited}) @@ (cited :> {})
=============================================================================
