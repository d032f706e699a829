-------------------------------- MODULE MCBot --------------------------------
(***************************************************************************)
(* Instances of Bot for TLC: two chats with a worker each, one phone that  *)
(* both may send.                                                          *)
(***************************************************************************)
EXTENDS Bot

CONSTANTS c1, c2, w1, w2, p1
OwnWorker == [c \in Chats |-> IF c = c1 THEN w1 ELSE w2]
ContactOrForget == {[is |-> "contact", phone |-> p1], [is |-> "forget", phone |-> NoPhone]}
=============================================================================
