-------------------------- MODULE MCASHTelemetry --------------------------
(* Model values for ASHTelemetry: a command's start and end in one trace   *)
(* that the ratio drops, and an event whose trace id is not valid.         *)
EXTENDS ASHTelemetry

CONSTANTS begin, end, odd

MCEvent == {begin, end, odd}
MCTrace == [e \in MCEvent |-> IF e = odd THEN NoId ELSE <<"agent", 1>>]
MCSpan == [e \in MCEvent |-> IF e = end THEN <<"agent", 2>> ELSE <<"agent", 1>>]
MCParent == [e \in MCEvent |-> IF e = begin THEN NoId ELSE <<"agent", 1>>]
MCNoId == <<"none", 0>>
MCKept == {"main", "timer", "worker"} \X {2, 4, 6, 8}
MCCarriers == {{}, {[trace |-> <<"client", 1>>, id |-> <<"client", 1>>,
                     sampled |-> TRUE]}}
=============================================================================
