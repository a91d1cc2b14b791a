--------------------------- MODULE MCRouterConfig ----------------------------
EXTENDS RouterConfig, TLC

\* Every part, with one beside it where there is room: parts written back as a
\* whole, parts written in part, those for which one member is read and sent
\* back, those set by a single request, and the reboot among them.
MCGroups == {{"led", "wan"}, {"acl"}, {"wifi", "dmz"}, {"accel", "power"},
             {"fan", "test"}, {"flow", "stats"}}

DmzOnly == {{"dmz"}}

Symmetry == Permutations(Tasks)
=============================================================================
