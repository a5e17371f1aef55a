----------------------------- MODULE HeaderBar -----------------------------
(***************************************************************************)
(* The components of the page header: the notice icon with its lists, the  *)
(* search box and the avatar menu.  They are modelled as components: what  *)
(* they get from outside (the signed-in user, the notices, the answers of  *)
(* the requests) is any value of its type.  No page of the two             *)
(* applications mounts them at present, and getInitialState returns no     *)
(* user.                                                                   *)
(***************************************************************************)
EXTENDS Naturals, FiniteSets

CONSTANTS Notice,       \* the items getNotices may return
          NoticeId,     \* the id of an item
          NoticeType,   \* its type, the key of a tab
          Page,         \* the paths the user may be at
          none

TabKeys == {"notification", "message", "event"}

ASSUME NoticeAssumption ==
    /\ none \notin Page \cup {"user", "admin", "name"}
    /\ "/user/login" \notin Page
    /\ NoticeType \in [Notice -> TabKeys]

VARIABLES request,              \* of getNotices: pending, ok or failed
          notices, read,        \* the items on the screen, and the read ones
          visible, tab,         \* the popup and its tab
          searchMode, value, reported, searched,
          currentUser, path, redirect, logout

noticeVars == <<request, notices, read, visible, tab>>
searchVars == <<searchMode, value, reported, searched>>
avatarVars == <<currentUser, path, redirect, logout>>

HeaderInit ==
    /\ request = "pending" /\ notices = {} /\ read = {}
    /\ visible = FALSE /\ tab = "notification"
    /\ searchMode = FALSE /\ value = 0 /\ reported = none /\ searched = none
    /\ currentUser \in {"user", "admin", none} /\ path \in Page /\ redirect = none /\ logout = "idle"

-----------------------------------------------------------------------------
(* NoticeIconView, NoticeIcon and NoticeList *)

\* getNoticeData: the items of one tab
NoticeData(ns, key) == {n \in ns : NoticeType[n] = key}

\* getUnreadData: the number in the title of a tab
Unread(key) == Cardinality(NoticeData(notices, key) \ read)

\* a list without items shows a hint, and neither items nor buttons
ListShown == visible /\ NoticeData(notices, tab) # {}

\* the request made when the icon is mounted, and the effect on its data
NoticesArrive ==
    /\ request = "pending"
    /\ \E ns \in SUBSET Notice : \E rd \in SUBSET ns :
          notices' = ns /\ read' = rd
    /\ request' = "ok"
    /\ UNCHANGED <<visible, tab, searchVars, avatarVars>>

\* without data the list stays empty
NoticesFail ==
    /\ request = "pending" /\ request' = "failed"
    /\ UNCHANGED <<notices, read, visible, tab, searchVars, avatarVars>>

\* the trigger, and a click outside
SetVisible ==
    /\ visible' = ~visible
    /\ UNCHANGED <<request, notices, read, tab, searchVars, avatarVars>>

\* a tab of the box, which is there also when its list is empty
ChangeTab(key) ==
    /\ visible /\ tab' = key
    /\ UNCHANGED <<request, notices, read, visible, searchVars, avatarVars>>

\* every item with the id of the clicked one is read
ChangeReadState(n) ==
    /\ ListShown /\ n \in NoticeData(notices, tab)
    /\ LET same == {x \in notices : NoticeId[x] = NoticeId[n]}
       IN  read' = read \cup same
    /\ UNCHANGED <<request, notices, visible, tab, searchVars, avatarVars>>

\* the clear button of a list that is not empty; the popup stays
ClearReadState ==
    /\ ListShown
    /\ LET cleared == NoticeData(notices, tab)
       IN  read' = read \cup cleared
    /\ UNCHANGED <<request, notices, visible, tab, searchVars, avatarVars>>

-----------------------------------------------------------------------------
(* HeaderSearch *)

\* useMergedState: the state is set, and a change of it is reported
SetSearchMode(b) ==
    /\ searchMode' = b
    /\ reported' = IF b # searchMode THEN b ELSE reported

\* a click opens the box, or gives an open one the focus
ClickSearch ==
    /\ SetSearchMode(TRUE)
    /\ UNCHANGED <<value, searched, noticeVars, avatarVars>>

Blur ==
    /\ searchMode /\ SetSearchMode(FALSE)
    /\ UNCHANGED <<value, searched, noticeVars, avatarVars>>

\* the end of the closing transition is reported once more
TransitionEnd ==
    /\ ~searchMode /\ reported' = FALSE
    /\ UNCHANGED <<searchMode, value, searched, noticeVars, avatarVars>>

ChangeValue(v) ==
    /\ searchMode /\ value' = v
    /\ UNCHANGED <<searchMode, reported, searched, noticeVars, avatarVars>>

PressEnter ==
    /\ searchMode /\ searched' = value
    /\ UNCHANGED <<searchMode, value, reported, noticeVars, avatarVars>>

-----------------------------------------------------------------------------
(* AvatarDropdown *)

\* the menu is there for a user with a name, otherwise a spinner
MenuShown == currentUser # none

\* the right of the plug-in access, and the name in the layout's water mark
CanAdmin == currentUser = "admin"
WaterMark == IF currentUser = none THEN none ELSE "name"

\* the entry `logout': the user is forgotten before the request is answered
ClickLogout ==
    /\ MenuShown /\ currentUser' = none /\ logout' = "asked"
    /\ UNCHANGED <<path, redirect, noticeVars, searchVars>>

\* where the applications live below the server's root
Base == "/dist"

\* window.location.pathname begins with the base, history.location.pathname
\* (path) does not: the first test is true on the login page, too
AtLogin == <<Base, path>> = <<"", "/user/login">>

\* the request is answered: the path of that moment is kept for the way back
LogoutDone ==
    /\ logout = "asked" /\ logout' = "done"
    /\ IF ~AtLogin /\ redirect = none
       THEN path' = "/user/login" /\ redirect' = path
       ELSE UNCHANGED <<path, redirect>>
    /\ UNCHANGED <<currentUser, noticeVars, searchVars>>

\* it throws (api.ts exports no `logout', so at present it always does)
LogoutFails ==
    /\ logout = "asked" /\ logout' = "failed"
    /\ UNCHANGED <<currentUser, path, redirect, noticeVars, searchVars>>

\* the entries center and settings, and any other navigation
Push(p) ==
    /\ p \in Page \cup {"/user/login"} /\ p # path
    /\ path' = p /\ redirect' = none
    /\ UNCHANGED <<currentUser, logout, noticeVars, searchVars>>

NoticeNext ==
    \/ NoticesArrive \/ NoticesFail \/ SetVisible \/ ClearReadState
    \/ \E key \in TabKeys : ChangeTab(key)
    \/ \E n \in Notice : ChangeReadState(n)

SearchNext ==
    \/ ClickSearch \/ Blur \/ TransitionEnd \/ PressEnter
    \/ \E v \in 0..1 : ChangeValue(v)

AvatarNext ==
    \/ ClickLogout \/ LogoutDone \/ LogoutFails
    \/ \E p \in Page \cup {"/user/login"} : Push(p)
=============================================================================
