------------------------------- MODULE MCCalls -------------------------------
(* Calls with two clients that share a method name, one method of which    *)
(* the application has decorated.                                          *)
EXTENDS Calls

CONSTANTS wallet, chat, send, list

MCClients == {wallet, chat}
MCMethodsOf == [c \in MCClients |-> IF c = wallet THEN {send, list} ELSE {send}]
MCDecorated == {list}
=============================================================================
