------------------------------- MODULE Registry -------------------------------
(***************************************************************************)
(* packages/bare-protocol/src/registry.ts: the tables that make compact    *)
(* identifiers reversible.  A method table is the sequence of the methods  *)
(* it has seen.  A peer table is a set of peers: what stands for a peer is *)
(* cut from a hash of it (48 bits, and 40 of these in a handle), so two    *)
(* peers may share one; a table never holds both.                          *)
(***************************************************************************)
EXTENDS Naturals, Sequences

CONSTANTS Peers, Broadcast,     \* peer ids, and '*'
          HandleOf, HashOf      \* what stands for a peer

ASSUME HandlesAssumption ==
  /\ Broadcast \notin Peers
  /\ \A p, q \in Peers : HashOf[p] = HashOf[q] => HandleOf[p] = HandleOf[q]

(* MethodRegistryImpl: an id is a place in the sequence. *)
intern(methods, m) ==
  IF \E i \in DOMAIN methods : methods[i] = m THEN methods ELSE Append(methods, m)
IdOf(methods, m) == (CHOOSE i \in DOMAIN methods : methods[i] = m) - 1
Knows(methods, id) == id + 1 \in DOMAIN methods
lookup(methods, id) == methods[id + 1]

(* Fault: the newcomer of a collision takes the name over. *)
CollidesNever(table, peer, code) == FALSE

(* handleFor and hashFor: `code` is HandleOf or HashOf. *)
Collides(table, peer, code) == peer # Broadcast /\ \E q \in table : q # peer /\ code[q] = code[peer]
Entered(table, peer) == IF peer = Broadcast THEN table ELSE table \cup {peer}

(* peerFromHandle and peerFromHash. *)
Names(table, code, c) == {p \in table : code[p] = c}
=============================================================================
