--------------------------- MODULE MCASHAlerting ---------------------------
(* Model values for ASHAlerting: three events; rule "low" matches two of   *)
(* them, "high" two, "odd" is a custom rule with a severity of null.       *)
EXTENDS ASHAlerting

CONSTANTS e1, e2, e3, low, high, odd, bad, late

MCDefault == <<low, high>>
MCCustom == <<odd, bad, late>>
MCNoCustom == <<>>
MCMatches == [r \in Rule |-> CASE r = low -> {e1, e2}
                               [] r = high -> {e2, e3}
                               [] OTHER -> {e3}]
MCScore == [r \in Rule |-> IF r = low THEN 2 ELSE IF r = high THEN 7 ELSE 0]
MCActions == [r \in Rule |-> IF r = low THEN <<"log">>
                                        ELSE <<"webhook", "log">>]
MCCooldown == [r \in Rule |-> IF r = high THEN 2 ELSE 1]
MCTopic == <<e1, e2, e3, e1>>
=============================================================================
