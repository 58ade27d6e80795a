-------------------------- MODULE MC_FullTextIndex --------------------------
(***************************************************************************)
(* The instances of MC_CrawlLoop, with the full-text index.                *)
(***************************************************************************)
EXTENDS FullTextIndex, MC_CrawlLoop
=============================================================================
