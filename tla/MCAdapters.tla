------------------------------ MODULE MCAdapters ------------------------------
(* Adapters with three probes on a channel, two on the class, and reports  *)
(* of up to two candidate pairs.                                           *)
EXTENDS Adapters

Relayed == [id |-> "l-relay", own |-> "host"]
Gone(own) == [id |-> "l-gone", own |-> own]
Named(name, ends) ==
  {[type |-> "candidate-pair", name |-> name, selected |-> chosen, nominated |-> nominated,
    state |-> state, localId |-> end.id, localType |-> end.own] :
      chosen, nominated \in BOOLEAN, state \in {"succeeded", "failed"}, end \in ends}
Relay == [type |-> "local-candidate", id |-> "l-relay", candidateType |-> "relay"]
Untyped == [type |-> "local-candidate", id |-> "l-gone", candidateType |-> None]
Lost(n) == [type |-> "inbound-rtp", packetsLost |-> n]

MCReports ==
  [container : {"array"}, entries : {<<Relay, p, q>> : p \in Named("first", {Relayed, Gone("host")}),
                                                  q \in Named("second", {Relayed, Gone("relay")})}]
  \cup [container : {"map", "object"}, entries : {<<p, Untyped, Lost(1), Lost(-1), Lost(2)>>  :
                                    p \in Named("first", {Relayed, Gone("host"), Gone("relay")})}]
  \cup [container : {"array"}, entries : {<<Lost(-1)>>, <<Relay, [type |-> "null"]>>}]
  \cup {[container |-> "null"]}
=============================================================================
