---------------------------- MODULE MCPapServer ----------------------------
(* Two print jobs: one of two bursts, two queries, and one of one packet.  *)
EXTENDS PapServer

MCDoc == <<<<1, 2, 3>>, <<4>>>>
MCEnds == <<<<1, 3>>, <<1>>>>
MCQueries == {1, 2}
=============================================================================
