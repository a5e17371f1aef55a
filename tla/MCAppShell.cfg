SPECIFICATION FairSpec
CONSTANTS
    s1 = s1
    s2 = s2
    g1 = g1
    g2 = g2
    n1 = n1
    n2 = n2
    n3 = n3
    t1 = t1
    t2 = t2
    t3 = t3
    Tab <- MCTab
    nil = nil
    none = none
    Server <- MCServer
    ServerLists <- MCServerLists
    GmCommand <- MCGmCommand
    MaxMount = 2
    MaxSend = 2
    MaxClose = 1
    MaxLine = 1
    Notice <- MCNotice
    NoticeId <- MCNoticeId
    NoticeType <- MCNoticeType
    Page <- MCPage
INVARIANTS
    TypeOK
    OneSocketPerPage
    AnswersInOwnPane
    ScreenIsCurrent
    LinesOfLastExport
    CleanedUp
PROPERTIES
    Reconnects
CHECK_DEADLOCK FALSE
