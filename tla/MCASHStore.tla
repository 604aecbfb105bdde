----------------------------- MODULE MCASHStore -----------------------------
(* Model values for ASHStore: a session's start and end, and a file event. *)
EXTENDS ASHStore

CONSTANTS start, end, file, s1

MCKind == [e \in {start, end, file} |->
             IF e = start THEN "start" ELSE IF e = end THEN "end" ELSE "file"]
MCSessionOf == [e \in {start, end, file} |-> s1]
MCStamp == [e \in {start, end, file} |-> IF e = file THEN 1 ELSE 0]
NoneRefused == [e \in {start, end, file} |-> "none"]
FileRefused == [NoneRefused EXCEPT ![file] = "changes"]
InOrder == {<<start, file, end>>}
AnyOrder == {<<start, end, file>>, <<end, file, start>>, <<start, end, start>>}
=============================================================================
