----------------------------- MODULE MCTCPProxy -----------------------------
(***************************************************************************)
(* Two listeners, either of which may accept while the other one's loop    *)
(* has already ended, and a connection whose two peers do everything that  *)
(* peers can do, including nothing.                                        *)
(***************************************************************************)
EXTENDS TCPProxy

CONSTANTS l1, l2, c1

MCListeners == {l1, l2}
MCConns == {c1}
MCChatty == {<<c1, "client">>, <<c1, "server">>}
=============================================================================
