----------------------------- MODULE MCLifetimes -----------------------------
(* Every environment and every host Config that must not serve, and of the   *)
(* others a usual one and those with one setting changed.  A time unit       *)
(* stands for 100 s; Timeout and Cap are scaled to fit.                      *)
EXTENDS Lifetimes, FiniteSets

UsualEnvironment ==
    [key |-> "PKCS1", ttl |-> Unset, insecure |-> "other", redirect |-> "other",
     playerUrl |-> FALSE, gateway |-> TRUE]
UsualConfig ==
    [key |-> TRUE, secret |-> TRUE, ttl |-> 0, client |-> "none", redirect |-> FALSE]

Near(c, usual) == Cardinality({k \in DOMAIN c : c[k] # usual[k]}) <= 1

ManyEnvironments ==
    {e \in [key : KeyFiles, ttl : {Unset, NotANumber, -1, 0, 4, 13}, insecure : Flags,
            redirect : Flags, playerUrl : BOOLEAN, gateway : BOOLEAN] :
       \/ e.key \notin {"PKCS1", "PKCS8 RSA"} \/ e.ttl = NotANumber \/ ~e.gateway
       \/ Near(e, UsualEnvironment)}

ManyHostConfigs ==
    {c \in [key : BOOLEAN, secret : BOOLEAN, ttl : {-1, 0, 3, 13},
            client : {"none", "timed", "untimed"}, redirect : BOOLEAN] :
       ~c.key \/ ~c.secret \/ Near(c, UsualConfig)}

\* Complete but for the TTL: none, one that fits, and one over the gateway's cap.
LongEnvironments == {[UsualEnvironment EXCEPT !.ttl = t] : t \in {Unset, 4, 13}}
LongHostConfigs == {[UsualConfig EXCEPT !.ttl = t] : t \in {0, 3, 13}}

SomeSkews == {-3, 0, 3}
=============================================================================
