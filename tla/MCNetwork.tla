----------------------------- MODULE MCNetwork -----------------------------
EXTENDS Network

MCStrings    == UNION {[1 .. n -> 1 .. 2] : n \in 0 .. 2} \cup {<<3, 3, 3>>}
MCIds        == 0 .. 2
MCEchoName   == <<1>>
MCClientName == <<2, 2>>
MCLate       == {MCEchoName}
MCNobody     == {}
=============================================================================
