----------------------------- MODULE MCChatTurn -----------------------------
\* The instance TLC checks: two turns that may overlap in one conversation.
EXTENDS ChatTurn, TLC

CONSTANTS t1, t2, c1

MCTurns == {t1, t2}
MCConversations == {c1}

\* Turns are interchangeable.
TurnSymmetry == Permutations(MCTurns)
=============================================================================
