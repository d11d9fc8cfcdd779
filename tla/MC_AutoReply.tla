---------------------------- MODULE MC_AutoReply ----------------------------
(* Two conversations and the kinds of message the loop tells apart; every  *)
(* behaviour has one of the pairs of messages.                             *)
EXTENDS AutoReply

Message(conv, from, progress, good) ==
  [conv |-> conv, from |-> from, trigger |-> TRUE, progress |-> progress,
   signed |-> good # {}, good |-> good]

\* Generation 0 pins no key, so nothing is checked under it; the last message
\* is signed by a key that no generation pins.
MCMessages == <<
  Message("a", "peer", FALSE, {1}),
  Message("b", "peer", FALSE, {}),
  Message("a", "peer", FALSE, {}),
  Message("a", "operator", FALSE, {1}),
  Message("a", "peer", TRUE, {}),
  [Message("a", "peer", FALSE, {}) EXCEPT !.signed = TRUE] >>

MCScopes == {{1, 3}, {2, 3}, {3, 5}, {4, 6}}

MCSettings == {[peer |-> TRUE, trusted |-> FALSE, relay |-> 1, rooms |-> [c \in {} |-> 0]]}
=============================================================================
