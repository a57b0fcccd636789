--------------------------- MODULE MCEpisodeQueue ---------------------------
\* The instance TLC checks: two turns about one subject.
EXTENDS EpisodeQueue

CONSTANT user

MCNames == {user}
=============================================================================
