----------------------------- MODULE MCExchange -----------------------------
(* Every target of up to five words on one address, and two targets on every *)
(* address of a scheme and up to four words, for a gateway that acks at once; *)
(* and every body of up to MaxOutputs entries, for one address.            *)
EXTENDS Exchange

CONSTANT MaxOutputs

AllTargets == SeqOf({"v6", ":", "3389", "[", "]"}, 5) \cup {Tcp \o <<"v4", ":", "3389">>}
Addresses ==
    {scheme \o rest : scheme \in {<<>>, Https, Http, Wss, Ws},
                      rest \in SeqOf({"gw", "/", "jet", "rdp"}, 4)}
Paths == {<<>>, <<"/", "play">>}

ManyDeployments ==
    [target : {<<"host">>, <<"v4", ":", "4489">>}, base : Addresses,
     front : {<<>>, Https \o <<"proxy", "/">>}, path : Paths]
      \cup [target : AllTargets, base : {Https \o <<"gw">>}, front : {<<>>}, path : Paths]

\* `info` is only read on alerts.
MCOutput == {out \in Output : out.info => out.kind = "alert"}

ManyBodies ==
    [status : {"ok", "refused", "garbled"}, outputs : {<<>>}]
      \cup [status : {"ok"}, outputs : BoundedSeq(MCOutput, MaxOutputs)]

PlainAck ==
    [status |-> "ok", outputs |-> <<[own |-> TRUE, kind |-> "ack", info |-> FALSE]>>]

\* The reply does not depend on the addresses, nor they on it: one of the two varies.
MCInit ==
    /\ ExchangeInit
    /\ \/ reply = PlainAck
       \/ target = <<"host">> /\ base = Https \o <<"gw">> /\ front = <<>> /\ path = <<>>

MCSpec == MCInit /\ [][ExchangeNext]_exchange
=============================================================================
