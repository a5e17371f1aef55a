---------------------------- MODULE ExportConfig ----------------------------
(***************************************************************************)
(* The export pages of several browsers and the one configuration file of  *)
(* the admin server behind them.  The goroutines of the connections share  *)
(* the file, which a submit truncates and then writes without a lock.      *)
(*                                                                         *)
(* Submitted configurations are numbered.  The file is a sequence of       *)
(* blocks, each the number of the submit it was written for: a write       *)
(* starts at the beginning and leaves what lies beyond its own length.     *)
(*                                                                         *)
(* stored and overlapped are history: the configuration written last, or 0 *)
(* when that write failed, and whether two submits were ever at the file   *)
(* at the same time.                                                       *)
(***************************************************************************)
EXTENDS AdminConn

CONSTANTS Size,         \* the blocks of a configuration, by its number
          ReadSize      \* those that one read takes: the buffer of 2048 bytes

ASSUME SizeAssumption == Size \in [1..MaxRequest -> Nat \ {0}] /\ ReadSize \in Nat

VARIABLES config,       \* exportConfig of a page: none, or 0 for an empty one
          dialog,       \* the pages with configVisible
          lines,        \* resultData: the configurations of the exports shown
          sheet,        \* the configuration of the confirm box of a search
          file, stored, overlapped

pageVars == <<config, dialog, lines, sheet>>
fileVars == <<file, stored, overlapped>>

ConfigInit ==
    /\ config = [b \in Browser |-> none] /\ dialog = {}
    /\ lines = [b \in Browser |-> <<>>] /\ sheet = [b \in Browser |-> none]
    /\ file = <<>> /\ stored = 0 /\ overlapped = FALSE

-----------------------------------------------------------------------------
(* The page *)

\* the effect asks for the configuration once the client is set
PageOpened(b) ==
    /\ Open(b, <<[Idle EXCEPT !.step = "tableConfig"]>>)
    /\ UNCHANGED <<pageVars, fileVars>>

\* onclose forgets the client and connects again; what is shown stays
PageClosed(b) == Close(b) /\ UNCHANGED <<pageVars, fileVars>>

\* the card with its buttons is drawn once a configuration has arrived, and
\* a confirm box covers it
PageReady(b) == config[b] # none /\ sheet[b] = none

ToggleDialog(b) ==
    /\ PageReady(b)
    /\ dialog' = IF b \in dialog THEN dialog \ {b} ELSE dialog \cup {b}
    /\ UNCHANGED <<config, lines, sheet, fileVars, connVars>>

CloseConfirm(b) ==
    /\ sheet[b] # none /\ sheet' = [sheet EXCEPT ![b] = none]
    /\ UNCHANGED <<config, dialog, lines, fileVars, connVars>>

\* the dialog is submitted and stays open until the answer
OnSubmitConfig(b) ==
    /\ b \in dialog /\ PageReady(b) /\ Request(b, "setTableConfig", <<>>)
    /\ UNCHANGED <<pageVars, fileVars>>

\* the list is cleared even when there is no client to send to
DoExportTable(b) ==
    /\ b \notin dialog /\ PageReady(b)
    /\ lines' = [lines EXCEPT ![b] = <<>>]
    /\ \/ Request(b, "exportTable", <<>>)
       \/ client[b] = none /\ lines[b] # <<>> /\ UNCHANGED connVars
    /\ UNCHANGED <<config, dialog, sheet, fileVars>>

DoFindSheet(b) ==
    /\ b \notin dialog /\ PageReady(b) /\ Request(b, "findSheet", <<>>)
    /\ UNCHANGED <<pageVars, fileVars>>

\* onWebSocketMessage of the page at connection c, if there still is one
OnWebSocketMessage(c, type, value) ==
    LET on == {b \in Browser : client[b] = c}
    IN  /\ config' = [b \in Browser |-> IF b \in on /\ type = "tableConfig" THEN value ELSE config[b]]
        /\ dialog' = IF type = "setTableConfig" THEN dialog \ on ELSE dialog
        /\ lines' = [b \in Browser |->
                        IF b \in on /\ type = "exportTable" THEN Append(lines[b], value) ELSE lines[b]]
        /\ sheet' = [b \in Browser |-> IF b \in on /\ type = "findSheet" THEN value ELSE sheet[b]]

-----------------------------------------------------------------------------
(* The handlers of the admin server *)

Whole(n) == [k \in 1..Size[n] |-> n]

\* What one read of the file decodes to: 0 if the file is empty, and if the buffer
\* has only a part of a configuration, or blocks of two.
ReadConfig ==
    LET length == IF Len(file) <= ReadSize THEN Len(file) ELSE ReadSize
    IN  IF file # <<>> /\ length = Size[file[1]] /\ \A k \in 1..length : file[k] = file[1]
        THEN file[1] ELSE 0

OnGetExportTableConfig(c) ==
    /\ doing[c].step = "tableConfig" /\ Proceed(c, Idle)
    /\ OnWebSocketMessage(c, "tableConfig", ReadConfig)
    /\ UNCHANGED fileVars

\* a path that is no directory, a file that cannot be opened, or one that is open
\* for reading only: an error is answered and nothing was touched
SetRefused(c) ==
    /\ doing[c].step = "setTableConfig" /\ Proceed(c, Idle)
    /\ OnWebSocketMessage(c, "error", 0)
    /\ UNCHANGED fileVars

Writing == {c \in Conn : doing[c].step = "write"}

\* wrong variant: the old configuration is not cut off
TruncateNot(c) ==
    /\ doing[c].step = "setTableConfig" /\ Proceed(c, [doing[c] EXCEPT !.step = "write"])
    /\ overlapped' = (overlapped \/ Writing # {})
    /\ UNCHANGED <<pageVars, file, stored>>

Truncate(c) ==
    /\ doing[c].step = "setTableConfig" /\ Proceed(c, [doing[c] EXCEPT !.step = "write"])
    /\ file' = <<>> /\ overlapped' = (overlapped \/ Writing # {})
    /\ UNCHANGED <<pageVars, stored>>

\* the file after a write of the first i blocks of configuration n
Written(n, i) ==
    [k \in 1..(IF i > Len(file) THEN i ELSE Len(file)) |-> IF k <= i THEN n ELSE file[k]]

WriteString(c) ==
    LET n == doing[c].id
    IN  /\ doing[c].step = "write" /\ Proceed(c, Idle)
        /\ file' = Written(n, Size[n]) /\ stored' = n
        /\ OnWebSocketMessage(c, "setTableConfig", 0)
        /\ UNCHANGED overlapped

\* an error is answered, and a part of the configuration is in the file, or nothing
WriteFails(c) ==
    LET n == doing[c].id
    IN  /\ doing[c].step = "write" /\ Proceed(c, Idle)
        /\ \E i \in 0..(Size[n] - 1) : file' = Written(n, i)
        /\ stored' = 0
        /\ OnWebSocketMessage(c, "error", 0)
        /\ UNCHANGED overlapped

\* wrong variant: the search takes what it reads, whole or not
RunCommandUnchecked(c, type) ==
    /\ doing[c].step = type /\ Proceed(c, Idle)
    /\ OnWebSocketMessage(c, type, ReadConfig)
    /\ UNCHANGED fileVars

\* onExportTable and onFindSheet read the file again; without a whole
\* configuration, or when the command fails, an error is answered
RunCommand(c, type) ==
    /\ doing[c].step = type /\ Proceed(c, Idle)
    /\ \/ ReadConfig # 0 /\ OnWebSocketMessage(c, type, ReadConfig)
       \/ OnWebSocketMessage(c, "error", 0)
    /\ UNCHANGED fileVars

OnExportTable(c) == RunCommand(c, "exportTable")
OnFindSheet(c) == RunCommand(c, "findSheet")

ConfigNext ==
    \/ \E b \in Browser :
        \/ PageOpened(b) \/ PageClosed(b) \/ ToggleDialog(b) \/ CloseConfirm(b)
        \/ OnSubmitConfig(b) \/ DoExportTable(b) \/ DoFindSheet(b)
    \/ \E c \in Conn :
        \/ (Take(c) \/ LoopEnds(c)) /\ UNCHANGED <<pageVars, fileVars>>
        \/ OnGetExportTableConfig(c) \/ SetRefused(c) \/ Truncate(c)
        \/ WriteString(c) \/ WriteFails(c)
        \/ OnExportTable(c) \/ OnFindSheet(c)

-----------------------------------------------------------------------------
ConfigTypeOK ==
    /\ DOMAIN config = Browser /\ \A b \in Browser : config[b] = none \/ config[b] \in 0..requests
    /\ dialog \subseteq Browser
    /\ \A b \in Browser : \A k \in DOMAIN lines[b] : lines[b][k] \in 1..requests
    /\ \A b \in Browser : sheet[b] = none \/ sheet[b] \in 1..requests
    /\ \A k \in DOMAIN file : file[k] \in 1..requests
    /\ stored \in 0..requests /\ overlapped \in BOOLEAN

\* As long as no two submits were at the file at the same time, the file holds
\* the configuration written last, whole, whenever no submit is between its
\* truncation and its write, closed connections whose goroutine goes on included:
\* unless that write failed.  It is read as that configuration if one read takes
\* it, and as none if it is longer.
LastSubmitKept ==
    (~overlapped /\ stored # 0 /\ Writing = {})
        => /\ file = Whole(stored)
           /\ ReadConfig = IF Size[stored] <= ReadSize THEN stored ELSE 0
=============================================================================
