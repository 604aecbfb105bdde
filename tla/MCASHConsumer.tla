--------------------------- MODULE MCASHConsumer ---------------------------
(***************************************************************************)
(* Instances of ASHConsumer for TLC: events of two hosts, an invalid line, *)
(* an event PostgreSQL refuses and one psycopg2 cannot encode.             *)
(***************************************************************************)
EXTENDS ASHConsumer

CONSTANTS e1, e2, e3, inv, rej, unenc,   \* lines
          web, app                       \* hosts

MCClassOf == [p \in Payload |->
                CASE p = inv   -> "invalid"
                  [] p = rej   -> "rejected"
                  [] p = unenc -> "unencodable"
                  [] OTHER     -> "event"]

MCHostOf == [p \in Payload |-> IF p \in {e2, rej} THEN app ELSE web]

=============================================================================
