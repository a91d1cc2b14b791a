------------------------- MODULE MCFirmwareRouting ---------------------------
EXTENDS FirmwareRouting, TLC

\* Version strings around 4.8.0: with no, some and all of the numbers around it,
\* any of them written with a leading zero, and anything after them.
Around == {<< >>, <<4>>, <<4, 7>>, <<4, 8>>, <<4, 7, 9>>, <<4, 8, 0>>, <<4, 9, 0>>,
           <<4, 7, 9, 9>>, <<4, 8, 0, 0>>}

FirmwaresAround == {raw \in RawVersions : raw.segments \in Around}

Raw(segments, padded, tail) ==
    [segments |-> segments, padded |-> padded, tail |-> tail]

\* An older and a newer API, a beta of the newer, and a string that is no version.
MCInstalled == {
    Raw(<<4, 7, 9>>, 0, "none"), Raw(<<4, 8, 0>>, 0, "none"),
    Raw(<<4, 8, 0>>, 0, "prerelease"), Raw(<<4, 8, 0>>, 2, "none")}

Symmetry == Permutations(Tasks)
=============================================================================
