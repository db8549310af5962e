------------------------------- MODULE MCPubSub -------------------------------
(* Publishers write to "news"; one subscriber has two topics, the other one.  *)
EXTENDS PubSub

CONSTANTS s1, s2

MCTopicOf  == [p \in Publishers |-> "news"]
MCTopicsOf == [s \in Subscribers |-> IF s = s1 THEN <<"sport", "news">> ELSE <<"news">>]
=============================================================================
