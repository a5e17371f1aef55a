----------------------------- MODULE MCAppShell -----------------------------
EXTENDS AppShell, TLC

CONSTANTS s1, s2, g1, g2, n1, n2, n3, t1, t2, t3

MCServer == {s1, s2}
MCServerLists == {{s1, s2}, {s2}}
MCGmCommand == {g1, g2}

MCNotice == {n1, n2, n3}
\* two items may have the same id, or none
MCNoticeId == n1 :> 1 @@ n2 :> 1 @@ n3 :> 2
MCNoticeType == n1 :> "notification" @@ n2 :> "message" @@ n3 :> "message"
MCTab == {t1, t2, t3}
MCPage == {"/debug", "/gm"}
=============================================================================
