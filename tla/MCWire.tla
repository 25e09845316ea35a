-------------------------------- MODULE MCWire --------------------------------
(* The layers between an envelope and a byte stream, and the ring that     *)
(* keeps what came out of it, one to a behaviour: texts and their bytes,   *)
(* envelopes and their encodings, frames, rows in a ring of three slots    *)
(* that wraps around twice.  Three peers, two of which share a handle, and *)
(* ULIDs of two characters.  The prefix of a frame has two binary digits;  *)
(* there are messages of every length it can state, and some that look     *)
(* like prefixes.                                                          *)
EXTENDS Framing, Envelope, RingBuffer, TLC

CONSTANTS n1, n2, alice, bob, carol
VARIABLE layer

MCUnits == {65, 127, 128, 2047, 2048, 55295, 55296, 56319, 56320, 57343, 57344, 65535}
MCOctets == {65, 128, 144, 159, 160, 191, 193, 194, 224, 237, 240, 244, 245}
MCPayloads == << <<1>>, <<>>, <<0, 1, 1>>, <<0, 1>> >>

MCNodes == {n1, n2}
MCPeers == {alice, bob, carol}
MCPeerOf == n1 :> alice @@ n2 :> bob
MCHandleOf == alice :> <<50>> @@ bob :> <<51>> @@ carol :> <<50>>
MCHashOf == alice :> <<1>> @@ bob :> <<2>> @@ carol :> <<1>>
MCSeed == <<"ping">>

Request == [msgId |-> <<0, 5>>, corrId |-> <<7, 31>>, kind |-> "req", method |-> "ping",
            src |-> alice, dst |-> bob, ts |-> 300, hlc |-> <<17, 0, <<65>>>>]
Reply == [Request EXCEPT !.kind = "err", !.method = "late", !.src = bob, !.dst = alice]
           @@ [causedBy |-> <<1, 0>>, ttl |-> 4, traceparent |-> <<233, 48>>,
               payload |-> [t |-> "array", v |-> <<[t |-> "null"], [t |-> "bool", v |-> TRUE],
                              [t |-> "int", v |-> -17], [t |-> "float", v |-> <<0, 1, 2, 3, 0, 0, 0, 0>>]>>]]
MCEnvelopes == {Request, Reply,
                [Request EXCEPT !.src = carol, !.dst = Broadcast, !.method = "other", !.kind = "event"],
                [Request EXCEPT !.dst = carol] @@ [causedBy |-> <<1, 32>>]}
Direct1to1 == [topology |-> "unicast-1to1", transport |-> "webrtc-dc", resolves |-> TRUE]
MCBindings == {Direct1to1, [Direct1to1 EXCEPT !.topology = "relayed"],
               [Direct1to1 EXCEPT !.transport = "raw-udp"], [Direct1to1 EXCEPT !.resolves = FALSE]}

WireInit == /\ layer \in {"text", "envelope", "frame", "ring"}
            /\ FramingInit /\ Utf8Init /\ EnvelopeInit /\ Init
            /\ layer # "envelope" => shared /\ binding = Direct1to1

WireNext ==
  /\ UNCHANGED layer
  /\ \/ layer = "text" /\ Utf8Next /\ UNCHANGED <<framingVars, envelopeVars, vars>>
     \/ layer = "envelope" /\ EnvelopeNext /\ UNCHANGED <<framingVars, utf8Vars, vars>>
     \/ layer = "frame" /\ FramingNext /\ UNCHANGED <<utf8Vars, envelopeVars, vars>>
     \/ layer = "ring" /\ Next /\ UNCHANGED <<framingVars, utf8Vars, envelopeVars>>

WireSpec == /\ WireInit
            /\ [][WireNext]_<<layer, framingVars, utf8Vars, envelopeVars, vars>>
            /\ FramingFairness
=============================================================================
