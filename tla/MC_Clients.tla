----------------------------- MODULE MC_Clients -----------------------------
(* Three mails through a ring of one, one OAuth client too many, three     *)
(* wake-ups, two copies of the plugin registered twice, an operator's and  *)
(* a peer's message, under an id each or both under one, three messages in *)
(* two conversations, three threads that connect; two messages sent among  *)
(* three events in a room and a feed, a page of one.                       *)
EXTENDS Clients

Message(n, conv, op, signed) == [n |-> n, conv |-> conv, op |-> op, signed |-> signed]

MCHMsgs == {Message(1, "c", FALSE, TRUE), Message(2, "d", FALSE, FALSE), Message(3, "c", TRUE, FALSE)}

Mailing(n, id) ==
  {[id |-> 1, v |-> 1, from |-> "operator", key |-> "k1"], [id |-> id, v |-> n, from |-> "peer", key |-> "u"]}

MCMailings == {Mailing(1, 2), Mailing(2, 1)}
=============================================================================
