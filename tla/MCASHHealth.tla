---------------------------- MODULE MCASHHealth ----------------------------
(* ASHHealth with every kind of fault, or some of them.                    *)
EXTENDS ASHHealth

AllFaults == {"db", "kafka", "bind", "file", "loop", "sigterm"}
=============================================================================
