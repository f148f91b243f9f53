----------------------------- MODULE MCAvbStreams -----------------------------
(***************************************************************************)
(* Entities with a source and a sink.  Index 0 is the one that the CRF      *)
(* stream has by default; index 1 is that of the CRF stream, and one too   *)
(* many for the elements.                                                  *)
(***************************************************************************)
EXTENDS AvbStreams

MCEntities == {{<<"source", 0>>, <<"sink", 0>>}, {<<"source", 0>>, <<"sink", 1>>}}
===============================================================================
