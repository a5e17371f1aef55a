------------------------------ MODULE MCAdmin -------------------------------
EXTENDS Admin, TLC

CONSTANTS b1, b2, t1, t2

MCBrowser == {b1, b2}
MCTarget == {t1, t2}
MCTargets == <<t1, t2>>
\* a shorter configuration after a longer one, which one read does not take
MCSize == [n \in 1..MaxRequest |-> IF n = 2 THEN 2 ELSE 3]
\* the result of the first request comes in two blocks
MCPieces == [n \in 1..MaxRequest |-> IF n = 1 THEN 2 ELSE 1]
MCSymmetry == Permutations(MCBrowser)
=============================================================================
