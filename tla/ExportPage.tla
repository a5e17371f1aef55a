----------------------------- MODULE ExportPage -----------------------------
(***************************************************************************)
(* The page /exportTable of the table export tool: ExportToLua.            *)
(*                                                                         *)
(* The lines of an export arrive one answer each.  They are collected in   *)
(* tempMsg, a variable of the JavaScript module that outlives the          *)
(* component, and copied to its state resultData.  A line is written as    *)
(* the number of the export it belongs to.                                 *)
(*                                                                         *)
(* current is history: the export clicked last, and those that were still  *)
(* running when it was clicked.                                            *)
(***************************************************************************)
EXTENDS PageSocket

CONSTANT MaxLine      \* bound: lines one export prints

ASSUME LineAssumption == MaxLine \in Nat

VARIABLES eClient, configVisible, exportConfig, resultData, tempMsg,
          config,     \* the configuration file of the backend: the submit it is from
          current

exportVars == <<eClient, configVisible, exportConfig, resultData, tempMsg, config, current>>

ExportInit ==
    /\ eClient = nil /\ configVisible = FALSE /\ exportConfig = nil
    /\ resultData = <<>> /\ tempMsg = <<>>
    /\ config = 0 /\ current = {}

\* unmounting the page and mounting it again starts from these values; the
\* module's tempMsg is not part of it
ExportReset ==
    /\ eClient' = nil /\ configVisible' = FALSE /\ exportConfig' = nil
    /\ resultData' = <<>>

ExportOpened(i) ==
    /\ sock[i].page = "exportTable"
    /\ OpenAndAsk(i, "tableConfig")
    /\ eClient' = IF Mounted(i) THEN i ELSE eClient
    /\ UNCHANGED <<configVisible, exportConfig, resultData, tempMsg, config, current>>

\* wrong variant: the close event does not start the next socket
ExportClosedStaysDown(i) ==
    /\ sock[i].page = "exportTable" /\ sock[i].st = "closing"
    /\ sock' = [sock EXCEPT ![i].st = "closed"]
    /\ eClient' = IF Mounted(i) THEN nil ELSE eClient
    /\ UNCHANGED <<configVisible, exportConfig, resultData, tempMsg, config, current>>
    /\ UNCHANGED <<mount, sent, closes>>

\* the close event starts the next socket, also when the page is gone
ExportClosed(i) ==
    /\ sock[i].page = "exportTable" /\ sock[i].st = "closing"
    /\ sock' = Append([sock EXCEPT ![i].st = "closed"], NewSocket("exportTable", sock[i].owner))
    /\ eClient' = IF Mounted(i) THEN nil ELSE eClient
    /\ UNCHANGED <<configVisible, exportConfig, resultData, tempMsg, config, current>>
    /\ UNCHANGED <<mount, sent, closes>>

\* a line of output; the empty one at the end of an export is ignored
AddLine(i, m) ==
    /\ tempMsg' = IF m.to = 0 THEN tempMsg ELSE Append(tempMsg, m.id)
    /\ resultData' = IF m.to = 0 \/ ~Mounted(i) THEN resultData ELSE tempMsg'
    /\ UNCHANGED <<eClient, configVisible, exportConfig>>

\* an error and a search result only open a dialog
ExportMessage(i, m) ==
    /\ sock[i].page = "exportTable"
    /\ sock' = Decoded(i, m)
    /\ \/ /\ Mounted(i) /\ m.type = "tableConfig"
          /\ exportConfig' = m.id
          /\ UNCHANGED <<eClient, configVisible, resultData, tempMsg>>
       \/ /\ Mounted(i) /\ m.type = "setTableConfig"
          /\ configVisible' = FALSE
          /\ UNCHANGED <<eClient, exportConfig, resultData, tempMsg>>
       \/ m.type = "exportTable" /\ AddLine(i, m)
       \/ /\ m.type \in {"error", "findSheet"} \/ (~Mounted(i) /\ m.type # "exportTable")
          /\ UNCHANGED <<eClient, configVisible, exportConfig, resultData, tempMsg>>
    /\ UNCHANGED <<config, current, mount, sent, closes>>

\* the card with the buttons is there once the configuration has arrived
CardShown == exportConfig # nil

\* the button and the dialog's own close control
ToggleConfig ==
    /\ CardShown \/ configVisible
    /\ configVisible' = ~configVisible
    /\ UNCHANGED <<eClient, exportConfig, resultData, tempMsg, config, current>>
    /\ UNCHANGED socketVars

\* the dialog stays open until the answer arrives
OnSubmitConfig ==
    /\ configVisible /\ sent < MaxSend /\ sent' = sent + 1
    /\ sock' = Send(sock, eClient, Msg("setTableConfig", nil, sent', {}))
    /\ UNCHANGED exportVars /\ UNCHANGED <<mount, closes>>

\* wrong variant: only the component's list is cleared
DoExportTableKeepsTemp ==
    /\ CardShown /\ sent < MaxSend /\ sent' = sent + 1
    /\ resultData' = <<>> /\ tempMsg' = tempMsg
    /\ sock' = Send(sock, eClient, Msg("exportTable", nil, sent', {}))
    /\ current' = {sent'} \cup Outstanding
    /\ UNCHANGED <<eClient, configVisible, exportConfig, config, mount, closes>>

DoExportTable ==
    /\ CardShown /\ sent < MaxSend /\ sent' = sent + 1
    /\ tempMsg' = <<>> /\ resultData' = <<>>
    /\ sock' = Send(sock, eClient, Msg("exportTable", nil, sent', {}))
    /\ current' = {sent'} \cup Outstanding
    /\ UNCHANGED <<eClient, configVisible, exportConfig, config, mount, closes>>

\* an empty name is refused with a hint
DoFindSheet ==
    /\ CardShown /\ sent < MaxSend /\ sent' = sent + 1
    /\ sock' = Send(sock, eClient, Msg("findSheet", nil, sent', {}))
    /\ UNCHANGED exportVars /\ UNCHANGED <<mount, closes>>

\* the answers of the backend: the stored configuration, which a submit that
\* passes the checks replaces; the lines of an export and its end; an error
ExportAnswer(i) ==
    /\ sock[i].page = "exportTable" /\ sock[i].up # <<>>
    /\ LET r == Head(sock[i].up)
           error == {Msg("error", nil, r.id, {})}
           lines(n) == {Msg("exportTable", k, r.id, {}) : k \in 0..n}
       IN  \/ r.type = "tableConfig" /\ Answer(i, {[r EXCEPT !.id = config]}) /\ UNCHANGED config
           \/ r.type = "setTableConfig" /\ Answer(i, {r}) /\ config' = r.id
           \/ r.type = "exportTable" /\ UNCHANGED config
              /\ \E n \in 0..MaxLine : Answer(i, lines(n))
           \/ r.type = "findSheet" /\ Answer(i, {r}) /\ UNCHANGED config
           \/ r.type # "tableConfig" /\ Answer(i, error) /\ UNCHANGED config
    /\ UNCHANGED <<eClient, configVisible, exportConfig, resultData, tempMsg, current>>
=============================================================================
