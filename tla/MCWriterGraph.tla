---------------------------- MODULE MCWriterGraph ---------------------------
(* WriterGraph with the default limits of the code and two failure texts.  *)
EXTENDS WriterGraph
CONSTANTS f1, f2
MCFailures == {f1, f2}
=============================================================================
