-------------------------- MODULE MCSourceMapUpload --------------------------
\* A build with three maps, two of the client; with two blobs at a time, a
\* chunk of two and one of one.
EXTENDS SourceMapUpload

MCMapsOf == [c \in {"client", "server"} |-> IF c = "client" THEN {"a", "b"} ELSE {"c"}]
MCBytes == [f \in {"a", "b", "c"} |-> IF f = "a" THEN 2 ELSE 1]
=============================================================================
