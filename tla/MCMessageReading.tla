-------------------------- MODULE MCMessageReading --------------------------
\* The instance TLC checks: an intent with an entity of each kind, one with a
\* script entity alone, and one without entities.
EXTENDS MessageReading

CONSTANTS e1, e2, m1, near

MCIntents == 1..3
MCClosedValues == [i \in MCIntents |-> IF i = 1 THEN {m1} ELSE {}]

Message(spells, action, names) == [spells |-> spells, action |-> action, names |-> names]

\* Phrases of one intent and of two, an entry, words near one, a closed value,
\* and a message that repeats nothing, under one action and under two.
MCMessages ==
  {Message({3}, {3}, None), Message({1, 2}, {1, 2}, None), Message({}, {}, None),
   Message({}, {1}, e1), Message({}, {1, 2}, e1), Message({}, {2}, e2),
   Message({}, {1}, near), Message({}, {1}, m1)}
=============================================================================
