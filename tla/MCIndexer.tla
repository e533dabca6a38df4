------------------------------- MODULE MCIndexer -------------------------------
(* One channel, own or foreign, and a short chain.                             *)
EXTENDS Indexer
================================================================================
