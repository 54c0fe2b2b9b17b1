---- MODULE MCFanout ----
EXTENDS Fanout

\* The diamond in -> [a, b], b -> a: a listener that sends pairs of batches to
\* both, one that keeps its place and reserves on both, and one on a alone.
MCNodes == {"a", "b"}
MCCap == [n \in MCNodes |-> 2]
MCSenders == {"b", "i", "j", "k"}
MCEdges == [s \in MCSenders |-> IF s \in {"i", "j"} THEN <<"a", "b">> ELSE <<"a">>]
MCMethod == [s \in MCSenders |->
  CASE s = "b" -> "send" [] s = "i" -> "deadline" [] OTHER -> "resumable"]
MCCount == [s \in MCSenders |-> IF s = "i" THEN 2 ELSE 1]
====
