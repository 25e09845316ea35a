------------------------------- MODULE Adapters -------------------------------
(***************************************************************************)
(* packages/bare-probe/transport/contract.ts: one adapter per transport    *)
(* instruments one target.  A behaviour of this module is one of the       *)
(* target it starts with; the others are not there.                        *)
(***************************************************************************)
EXTENDS DataTap, PeerTap, SocketTap

(* The registered transports; the peer connection's probe is used directly. *)
TRANSPORT_REGISTRY == {"webrtc-dc", "websocket", "hyperswarm"}

adapterVars == <<channelVars, peerVars, socketVars>>

(* A probe takes no listener off a socket, if it could or not. *)
AdaptersInit == /\ transport \in TRANSPORT_REGISTRY \cup {"webrtc-pc"}
                /\ removable \in IF transport = "websocket" THEN {FALSE} ELSE BOOLEAN
                /\ ChannelInit /\ PeerInit /\ SocketInit

AdaptersNext ==
  \/ /\ transport \in {"webrtc-dc", "hyperswarm"}
     /\ ChannelNext
     /\ UNCHANGED <<peerVars, socketVars>>
  \/ /\ transport = "webrtc-pc"
     /\ PeerNext
     /\ UNCHANGED <<channelVars, socketVars>>
  \/ /\ transport = "websocket"
     /\ SocketNext
     /\ UNCHANGED <<channelVars, peerVars>>

AdaptersSpec == AdaptersInit /\ [][AdaptersNext]_adapterVars
=============================================================================
