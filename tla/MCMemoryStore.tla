--------------------------- MODULE MCMemoryStore ---------------------------
\* The instances TLC checks: one actor that does one call after another, and
\* a worker beside an editor.
EXTENDS MemoryStore, TLC

CONSTANTS x1, x2, lives, v1, v2, worker, editor

MCNames == {x1, x2}
MCRelations == {lives}
MCValues == {v1, v2}
MCOneValue == {v1}
MCWorkers == {worker}
MCEditors == {editor}

\* Names are interchangeable, and so are values.
NameSymmetry == Permutations(MCNames)
DataSymmetry == NameSymmetry \cup Permutations(MCValues)
=============================================================================
