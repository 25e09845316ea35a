------------------------------- MODULE Envelope -------------------------------
(***************************************************************************)
(* packages/bare-protocol/src: envelopes that one node encodes for a       *)
(* channel and another decodes, with tables of its own or with the same    *)
(* ones; decode() changes nothing, so any message may be decoded at any    *)
(* time, again, or never.  An envelope is a function from the fields it    *)
(* has to their values: a ULID is the sequence of its characters, hlc its  *)
(* three parts (<<>> if it is malformed), payload a CBOR value.  As        *)
(* JSON.parse undoes JSON.stringify (external), JSON on the wire is the    *)
(* object itself; CBOR is bytes.                                           *)
(***************************************************************************)
EXTENDS Cbor, Registry, Selection, Functions, FiniteSets

CONSTANTS Nodes, PeerOf,        \* the nodes, and the peer each of them is
          Seed,                 \* the methods every table begins with
          Envelopes,            \* what an application may send
          Bindings,             \* what the channel may be
          UlidLength, UlidBytes,
          MaxMessages           \* bound: messages

VARIABLES shared,               \* the nodes use the same tables
          binding,              \* the channel's
          methods, byHandle, byHash,    \* each node's tables
          messages              \* on the wire, or received

tables == <<methods, byHandle, byHash>>
envelopeVars == <<shared, binding, tables, messages>>

Kinds == <<"req", "res", "event", "ack", "err">>
Json == {"json-full", "json-short"}
Encodings == Json \cup {"cbor-compact", "cbor-binary"}

Ids == {"msgId", "corrId", "causedBy"}
V1_FIELDS == Ids \cup {"traceparent", "kind", "method", "src", "dst", "ts", "hlc", "ttl", "payload"}

ASSUME NodesAssumption == /\ \E a, b \in Nodes : a # b /\ Nodes = {a, b}
                          /\ PeerOf \in [Nodes -> Peers]
                          /\ MaxMessages \in Nat /\ UlidLength \in Nat /\ UlidBytes \in Nat
ASSUME SeedAssumption == Seed \in Seq(Range(Seed)) /\ Seed # <<>> /\ IsInjective(Seed)

(* A handle is a text and no '*', a hash is bytes.  Ids of methods can be  *)
(* stated, as can the numbers and the lengths in an envelope.              *)
ASSUME SymbolsAssumption == /\ HandleOf \in [Peers -> Text \ {<<42>>}]
                            /\ HashOf \in [Peers -> {s \in Seq(Byte) : Stated(Len(s))} \ {<<>>}]
ASSUME MethodsAssumption ==
  LET known == Range(Seed) \cup {env.method : env \in Envelopes}
  IN IsFiniteSet(known) /\ \A n \in 0 .. Cardinality(known) : Stated(n)
ASSUME EnvelopesAssumption ==
  /\ Nesting >= 2 /\ Stated(UlidBytes)
  /\ \A env \in Envelopes :
       /\ env = [f \in DOMAIN env |-> env[f]] /\ DOMAIN env \subseteq V1_FIELDS
       /\ V1_FIELDS \ {"causedBy", "traceparent", "ttl", "payload"} \subseteq DOMAIN env
       /\ \A f \in DOMAIN env \cap (Ids \cup {"traceparent"}) : env[f] \in Text
       /\ \A f \in DOMAIN env \cap {"ts", "ttl"} : env[f] \in Integer
       /\ env.kind \in Range(Kinds) /\ env.src \in Peers \cup {Broadcast} /\ env.dst \in Peers \cup {Broadcast}
       /\ env.hlc = <<>> \/ env.hlc \in Integer \X Integer \X Text
       /\ "payload" \in DOMAIN env => env.payload \in Values[Nesting - 1]

EnvelopeInit == /\ shared \in BOOLEAN
                /\ binding \in Bindings
                /\ methods = [n \in Nodes |-> Seed]
                /\ byHandle = [n \in Nodes |-> {}]
                /\ byHash = [n \in Nodes |-> {}]
                /\ messages = <<>>

-----------------------------------------------------------------------------
(* ulidToBytes and bytesToUlid: 5 bits a character, 8 bits a byte.         *)
IsUlid(chars) == /\ Len(chars) = UlidLength /\ \A i \in DOMAIN chars : chars[i] < 32
                 /\ Fits(Number(chars, 32), 256, UlidBytes)
ulidToBytes(chars) == Digits(Number(chars, 32), 256, UlidBytes)
bytesToUlid(bytes) == Digits(Number(bytes, 256), 32, UlidLength)

(* Fault: a relayed channel passes for one with a single peer at its end. *)
MayDropRelayed == binding.transport # "raw-udp" /\ binding.resolves

(* checkIdentityDrop *)
MayDrop == /\ binding.topology = "unicast-1to1"
           /\ binding.transport # "raw-udp"
           /\ binding.resolves

-----------------------------------------------------------------------------
(* The object encodeCborTier puts together, by the fields its keys (single *)
(* characters) stand for; `x` is one this version does not know.           *)
TextItem(s) == [t |-> "text", v |-> s]
IntItem(n) == [t |-> "int", v |-> n]
BytesItem(b) == [t |-> "bytes", v |-> b]

KeyOf == [v |-> 118, msgId |-> 105, corrId |-> 99, kind |-> 107, method |-> 109, ts |-> 116, hlc |-> 104,
          causedBy |-> 98, traceparent |-> 114, ttl |-> 108, payload |-> 112, src |-> 115, dst |-> 100, x |-> 120]
Key(f) == TextItem(<<KeyOf[f]>>)
InOrder == <<"v", "msgId", "corrId", "kind", "method", "ts", "hlc",
             "causedBy", "traceparent", "ttl", "payload", "src", "dst", "x">>

(* What stands for a peer: a hash or a handle. *)
Symbol(peer, binary) == IF peer = Broadcast THEN (IF binary THEN <<>> ELSE <<42>>)
                        ELSE IF binary THEN HashOf[peer] ELSE HandleOf[peer]

StringItem(s, binary) == IF binary THEN BytesItem(s) ELSE TextItem(s)
KindToInt(kind) == (CHOOSE n \in DOMAIN Kinds : Kinds[n] = kind) - 1

FieldItem(f, env, binary, method) ==
  CASE f \in Ids -> StringItem(IF binary THEN ulidToBytes(env[f]) ELSE env[f], binary)
    [] f \in {"src", "dst"} -> StringItem(Symbol(env[f], binary), binary)
    [] f = "kind" -> IntItem(KindToInt(env.kind))
    [] f = "method" -> IntItem(method)
    [] f = "hlc" -> [t |-> "array", v |-> <<IntItem(env.hlc[1]), IntItem(env.hlc[2]), TextItem(env.hlc[3])>>]
    [] f = "traceparent" -> TextItem(env[f])
    [] f = "payload" -> env[f]
    [] f \in {"ts", "ttl"} -> IntItem(env[f])
    [] f \in {"v", "x"} -> IntItem(1)

Without(fields, drop) == IF drop THEN fields \ {"src", "dst"} ELSE fields
CborObject(env, binary, method, drop) ==
  [f \in {"v"} \cup Without(DOMAIN env, drop) |-> FieldItem(f, env, binary, method)]

MapItem(object) ==
  LET order == Only(InOrder, DOMAIN object)
  IN [t |-> "map", v |-> [i \in DOMAIN order |-> <<Key(order[i]), object[order[i]]>>]]

(* The object encodeJson puts together. *)
JsonObject(env, short, drop) ==
  [f \in Without(DOMAIN env, drop) |->
     IF short /\ f \in {"src", "dst"} THEN Symbol(env[f], FALSE) ELSE env[f]]

-----------------------------------------------------------------------------
(* A change of node n's table is one of everybody's who shares it. *)
Updated(table, n, value) ==
  [k \in Nodes |-> IF k = n \/ shared THEN value ELSE table[k]]

(* src is entered before dst is looked at; either may be what throws. *)
Clash(n, table, code, env) ==
  \/ Collides(table[n], env.src, code) \/ Collides(Entered(table[n], env.src), env.dst, code)
WithPeers(n, table, code, env) ==
  LET first == Entered(table[n], env.src) IN
  IF Collides(table[n], env.src, code) THEN table
  ELSE Updated(table, n, IF Collides(first, env.dst, code) THEN first ELSE Entered(first, env.dst))

Sends(n, env, encoding, newer, bytes) ==
  messages' = Append(messages, [from |-> n, env |-> env, encoding |-> encoding,
                                newer |-> newer, wire |-> bytes])

EncodeJson(n, env, encoding, drop) ==
  LET naming == encoding = "json-short" /\ ~ drop IN
  /\ byHandle' = IF naming THEN WithPeers(n, byHandle, HandleOf, env) ELSE byHandle
  /\ IF naming /\ Clash(n, byHandle, HandleOf, env)
       THEN UNCHANGED messages
       ELSE Sends(n, env, encoding, FALSE, JsonObject(env, encoding = "json-short", drop))
  /\ UNCHANGED <<methods, byHash>>

EncodeCbor(n, env, encoding, drop) ==
  LET binary == encoding = "cbor-binary"
      table == IF binary THEN byHash ELSE byHandle
      code == IF binary THEN HashOf ELSE HandleOf
      interned == intern(methods[n], env.method)
      begun == env.hlc # <<>> /\ (binary => IsUlid(env.msgId) /\ IsUlid(env.corrId))
      late == binary /\ "causedBy" \in DOMAIN env
      naming == begun /\ (late => IsUlid(env.causedBy)) /\ ~ drop
      named == IF naming THEN WithPeers(n, table, code, env) ELSE table
  IN /\ methods' = IF begun THEN Updated(methods, n, interned) ELSE methods
     /\ byHash' = IF binary THEN named ELSE byHash
     /\ byHandle' = IF binary THEN byHandle ELSE named
     /\ IF begun /\ (late => IsUlid(env.causedBy)) /\ (naming => ~ Clash(n, table, code, env))
          THEN Sends(n, env, encoding, FALSE,
                 encodeCbor(MapItem(CborObject(env, binary, IdOf(interned, env.method), drop))))
          ELSE UNCHANGED messages

(* encode() sends a message or throws, having entered what it met before.  *)
(* On a channel to a single peer, that peer is who the message is for.     *)
Encode(n, env, encoding, drop) ==
  /\ Len(messages) < MaxMessages
  /\ binding.topology = "unicast-1to1" =>
       env.src = PeerOf[n] /\ \E k \in Nodes \ {n} : env.dst = PeerOf[k]
  /\ drop => MayDrop
  /\ IF encoding \in Json THEN EncodeJson(n, env, encoding, drop) ELSE EncodeCbor(n, env, encoding, drop)
  /\ UNCHANGED <<shared, binding>>

(* A peer of a later version adds a field, and may leave out corrId. *)
NewerSends(n, env, encoding, whole) ==
  LET binary == encoding = "cbor-binary"
      trimmed == IF whole THEN env ELSE Restrict(env, DOMAIN env \ {"corrId"})
      object == CborObject(trimmed, binary, 0, FALSE)
  IN /\ Len(messages) < MaxMessages
     /\ env.method = Seed[1] /\ env.hlc # <<>>
     /\ \A f \in Ids \cap DOMAIN env : IsUlid(env[f])
     /\ Sends(n, trimmed, encoding, TRUE,
          IF encoding \in Json
            THEN [f \in DOMAIN trimmed \cup {"x"} |-> IF f = "x" THEN 0 ELSE trimmed[f]]
            ELSE encodeCbor(MapItem([f \in DOMAIN object \cup {"x"} |->
                                       IF f = "x" THEN IntItem(0) ELSE object[f]])))
     /\ UNCHANGED <<shared, binding, tables>>

EnvelopeNext == \E n \in Nodes, env \in Envelopes :
  \/ \E encoding \in Encodings, drop \in BOOLEAN : Encode(n, env, encoding, drop)
  \/ \E encoding \in Encodings \ {"json-short"}, whole \in BOOLEAN : NewerSends(n, env, encoding, whole)

-----------------------------------------------------------------------------
Decoded(env) == [threw |-> FALSE, env |-> env]
Threw == [threw |-> TRUE]

(* resolveSrc and resolveDst of the channel a message came by. *)
recoverIdentity(fields, msg) ==
  IF ~ binding.resolves THEN Threw
  ELSE Decoded([f \in DOMAIN fields \cup {"src", "dst"} |->
         CASE f = "src" -> PeerOf[msg.from]
           [] f = "dst" -> PeerOf[CHOOSE k \in Nodes : k # msg.from]
           [] OTHER -> fields[f]])

(* The peers that two symbols stand for; one that is unknown throws. *)
NamePeers(n, fields, binary) ==
  LET table == IF binary THEN byHash[n] ELSE byHandle[n]
      Named(f) == {p \in table \cup {Broadcast} : Symbol(p, binary) = fields[f]}
  IN IF Named("src") = {} \/ Named("dst") = {} THEN Threw
     ELSE Decoded([f \in DOMAIN fields |->
            IF f \in {"src", "dst"} THEN CHOOSE p \in Named(f) : TRUE ELSE fields[f]])

(* tolerantSelect: fields it does not know are dropped, required ones enforced. *)
decodeJson(n, msg) ==
  LET fields == Restrict(msg.wire, DOMAIN msg.wire \cap V1_FIELDS) IN
  IF ~ {"corrId", "method"} \subseteq DOMAIN msg.wire THEN Threw
  ELSE IF ~ {"src", "dst"} \subseteq DOMAIN fields THEN recoverIdentity(fields, msg)
  ELSE IF msg.encoding = "json-full" THEN Decoded(fields)
  ELSE NamePeers(n, fields, FALSE)

(* The object that a map holds, by field. *)
ObjectOf(map) ==
  [f \in {g \in DOMAIN KeyOf : \E e \in Range(map.v) : e[1] = Key(g)} |->
     (CHOOSE e \in Range(map.v) : e[1] = Key(f))[2]]

FieldValue(n, f, item, binary) ==
  CASE f \in Ids /\ binary -> bytesToUlid(item.v)
    [] f = "kind" -> Kinds[item.v + 1]
    [] f = "method" -> lookup(methods[n], item.v)
    [] f = "hlc" -> [i \in 1 .. 3 |-> item.v[i].v]
    [] f = "payload" -> item
    [] OTHER -> item.v

FromObject(n, msg, object) ==
  LET binary == msg.encoding = "cbor-binary"
      fields == [f \in DOMAIN object \cap V1_FIELDS |-> FieldValue(n, f, object[f], binary)]
  IN IF ~ Knows(methods[n], object["method"].v) \/ (binary /\ "corrId" \notin DOMAIN object) THEN Threw
     ELSE IF ~ {"src", "dst"} \subseteq DOMAIN object THEN recoverIdentity(fields, msg)
     ELSE NamePeers(n, fields, binary)

decodeCborTier(n, msg) ==
  LET map == decodeCbor(msg.wire) IN
  IF map.ok THEN FromObject(n, msg, ObjectOf(map.value)) ELSE Threw

decode(n, msg) == IF msg.encoding \in Json THEN decodeJson(n, msg) ELSE decodeCborTier(n, msg)

EnvelopeSpec == EnvelopeInit /\ [][EnvelopeNext]_envelopeVars

(* Encode and decode lose nothing, in any of the encodings: with the tables*)
(* it was encoded with, every envelope comes back as it was.  With other   *)
(* tables, and from a later version, it comes back as it was or is refused,*)
(* so long as the method is one of the seed and no peer the receiver has   *)
(* met shares its handle with one the envelope names.  What JSON brings    *)
(* without its correlation is refused.                                     *)
Foretold(n, msg) ==
  /\ msg.encoding \in Json \/ msg.env.method \in Range(Seed)
  /\ \A p \in byHandle[n] \cup byHash[n], q \in {msg.env.src, msg.env.dst} \ {Broadcast} :
       HandleOf[p] = HandleOf[q] => p = q

EnvelopesSurvive ==
  \A n \in Nodes, k \in DOMAIN messages :
    LET msg == messages[k]
        back == decode(n, msg)
    IN /\ shared /\ ~ msg.newer => ~ back.threw
       /\ ~ back.threw /\ (Foretold(n, msg) \/ (shared /\ ~ msg.newer)) => back.env = msg.env
       /\ msg.encoding \in Json /\ "corrId" \notin DOMAIN msg.env => back.threw

(* CBOR that was cut short, or that more bytes follow, is never taken for  *)
(* something else, be it a message or any other bytes.                     *)
DamageRefused ==
  LET Ends(bytes) == decodeCbor(bytes).ok =>
        \A k \in 0 .. Len(bytes) - 1 : ~ decodeCbor(SubSeq(bytes, 1, k)).ok
  IN /\ Ends(octets)
     /\ Len(messages) = 1 /\ messages[1].encoding \notin Json =>
          decodeCbor(messages[1].wire).ok /\ Ends(messages[1].wire)
=============================================================================
