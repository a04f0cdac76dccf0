---------------------------- MODULE MCWatchRoom ----------------------------
(* WatchRoom for TLC: the owner ann and two guests; ann and bob may come   *)
(* twice.                                                                  *)
EXTENDS WatchRoom

CONSTANTS ann, bob, cyd, ann1, ann2, bob1, bob2, cyd1

MCUserOf == [c \in Conn |-> CASE c \in {ann1, ann2} -> ann
                              [] c \in {bob1, bob2} -> bob
                              [] c = cyd1 -> cyd]
=============================================================================
