------------------------------- MODULE GmPage -------------------------------
(***************************************************************************)
(* The page /gm of the web console: GMPane with the form GMCommand.        *)
(*                                                                         *)
(* The answers of all commands live in ONE object, which the handlers of   *)
(* every render share and mutate; React draws again only when a state is   *)
(* set to another reference.  So the model keeps the object (response),    *)
(* and what was drawn from it last (shown), apart.  The same holds of the  *)
(* values typed into the forms: formValue is one mutated object, field is  *)
(* what the form shows, and initial what the last render passed to the     *)
(* form as its initial values.  A value is 0 (nothing typed) or 1.         *)
(***************************************************************************)
EXTENDS PageSocket

CONSTANT GmCommand

VARIABLES gClient, gmData, selectedMenu, gmCommandProps,
          response, shown, formValue, field, initial, timers

gmListVars == <<gmData, selectedMenu>>
formVars == <<gmCommandProps, formValue, field, initial>>
gmVars == <<gClient, gmListVars, formVars, response, shown, timers>>

NoValues == [c \in GmCommand |-> 0]
NoResponse == [c \in GmCommand |-> nil]

GmInit ==
    /\ gClient = nil /\ gmData = {} /\ selectedMenu = nil
    /\ gmCommandProps = nil /\ response = NoResponse /\ shown = nil
    /\ formValue = NoValues /\ field = 0 /\ initial = 0
    /\ timers = {}

\* unmounting the page and mounting it again starts from these values; the
\* timers are not part of it
GmReset ==
    /\ gClient' = nil /\ gmData' = {} /\ selectedMenu' = nil
    /\ gmCommandProps' = nil /\ response' = NoResponse /\ shown' = nil
    /\ formValue' = NoValues /\ field' = 0 /\ initial' = 0

\* GMCommand is on the screen with the form of a command
FormShown == gmData # {} /\ gmCommandProps # nil

Of(f, c, none) == IF c = nil THEN none ELSE f[c]

\* a render of GMPane that leaves the command alone: the answer is drawn and
\* the form gets its initial values anew
Draw == /\ shown' = Of(response', gmCommandProps, nil)
        /\ initial' = Of(formValue, gmCommandProps, 0)
        /\ UNCHANGED <<gmCommandProps, formValue, field>>

\* a render for command c: a form of another command is a new form (its key)
DrawCommand(c) ==
    /\ gmCommandProps' = c
    /\ shown' = Of(response, c, nil)
    /\ initial' = Of(formValue, c, 0)
    /\ field' = IF c = gmCommandProps THEN field ELSE Of(formValue, c, 0)
    /\ UNCHANGED <<formValue, response>>

-----------------------------------------------------------------------------
(* GMPane *)

\* setAllGmCommandResponse(r) for each r of refs in turn, starting from the
\* shared object: is anything drawn?
Renders(refs) == \E k \in DOMAIN refs : refs[k] # IF k = 1 THEN "info" ELSE refs[k - 1]

\* wrong variant: the shared object is set at once, without an empty one before it
SetCommandResponseInPlace(c, data) ==
    /\ response' = [response EXCEPT ![c] = data]
    /\ IF Renders(<<"info">>)
       THEN Draw
       ELSE UNCHANGED <<shown, formVars>>

\* the shared object is changed in place; setting it alone would draw nothing,
\* so an empty one is set first
SetCommandResponse(c, data) ==
    /\ response' = [response EXCEPT ![c] = data]
    /\ IF Renders(<<"empty", "info">>)
       THEN Draw
       ELSE UNCHANGED <<shown, formVars>>

GmOpened(i) ==
    /\ sock[i].page = "gm"
    /\ OpenAndAsk(i, "gmList")
    /\ IF Mounted(i)
       THEN gClient' = i /\ response' = response /\ Draw
       ELSE UNCHANGED <<gClient, response, shown, formVars>>
    /\ UNCHANGED <<gmListVars, timers>>

\* the close of any socket of the page forgets the client; nothing reconnects
GmClosed(i) ==
    /\ sock[i].page = "gm" /\ sock[i].st = "closing"
    /\ sock' = [sock EXCEPT ![i].st = "closed"]
    /\ IF Mounted(i) /\ gClient # nil
       THEN gClient' = nil /\ response' = response /\ Draw
       ELSE UNCHANGED <<gClient, response, shown, formVars>>
    /\ UNCHANGED <<gmListVars, timers, mount, sent, closes>>

\* the command list: categories, menu, options and the map from names to
\* commands are replaced together.  An empty list takes GMCommand, and the
\* values typed into it, off the screen.
SetGMData(list) ==
    /\ gmData' = list
    /\ response' = response
    /\ shown' = Of(response, gmCommandProps, nil)
    /\ formValue' = IF list = {} THEN NoValues ELSE formValue
    /\ initial' = Of(formValue', gmCommandProps, 0)
    /\ field' = IF gmData = {} \/ list = {} THEN initial' ELSE field
    /\ UNCHANGED <<gClient, selectedMenu, gmCommandProps>>

\* an answer is filed under the command it carries, one without is dropped;
\* anything that is no list of commands makes JSON.parse throw
GmMessage(i, m) ==
    /\ sock[i].page = "gm"
    /\ sock' = Decoded(i, m)
    /\ UNCHANGED <<mount, sent, closes, timers>>
    /\ \/ Mounted(i) /\ m.type = "gmList" /\ SetGMData(m.list)
       \/ /\ Mounted(i) /\ m.type = "gmCommand" /\ m.to # nil
          /\ SetCommandResponse(m.to, m.id)
          /\ UNCHANGED <<gClient, gmListVars>>
       \/ /\ ~Mounted(i) \/ m.type = "timeout" \/ (m.type = "gmCommand" /\ m.to = nil)
          /\ UNCHANGED <<gClient, gmListVars, formVars, response, shown>>

\* Menu: onClick always, onSelect only for an item not selected yet
OnClickGmCommand(c) ==
    /\ c \in gmData
    /\ selectedMenu' = c
    /\ DrawCommand(IF c = selectedMenu THEN gmCommandProps ELSE c)
    /\ UNCHANGED <<gClient, gmData, timers, socketVars>>

\* Select: another option is chosen, or (c = nil) the choice is cleared.  What
\* the box itself displays (currSelectOption) is left out.
OnCommandSelected(c) ==
    /\ gmData # {} /\ c \in gmData \cup {nil} /\ c # selectedMenu
    /\ selectedMenu' = c
    /\ DrawCommand(c)
    /\ UNCHANGED <<gClient, gmData, timers, socketVars>>

\* with a client the command goes out with its name; without one a new socket
\* is started, and half a second later the command goes out without it
OnSubmitGMCommand ==
    /\ FormShown /\ sent < MaxSend /\ sent' = sent + 1
    /\ SetCommandResponse(gmCommandProps, nil)
    /\ \/ /\ gClient # nil
          /\ sock' = Send(sock, gClient, Msg("gmCommand", gmCommandProps, sent', {}))
          /\ UNCHANGED timers
       \/ /\ gClient = nil
          /\ sock' = Append(sock, NewSocket("gm", mount))
          /\ timers' = timers \cup {[sock |-> Len(sock) + 1, id |-> sent']}
    /\ UNCHANGED <<gClient, gmListVars, mount, closes>>

\* c.send after 500 ms throws while the socket is still connecting
DelayedSend(t) ==
    /\ t \in timers
    /\ timers' = timers \ {t}
    /\ sock' = Send(sock, t.sock, Msg("gmCommand", nil, t.id, {}))
    /\ UNCHANGED <<gClient, gmListVars, formVars, response, shown>>
    /\ UNCHANGED <<mount, sent, closes>>

-----------------------------------------------------------------------------
(* GMCommand *)

\* the values are stored in place, which draws nothing
OnValuesChange(v) ==
    /\ FormShown /\ v # field
    /\ field' = v
    /\ formValue' = [formValue EXCEPT ![gmCommandProps] = v]
    /\ UNCHANGED <<gClient, gmListVars, gmCommandProps, initial, response, shown>>
    /\ UNCHANGED <<timers, socketVars>>

\* resetFields goes back to the initial values of the last render, which may
\* hold what was typed before it
OnReset ==
    /\ FormShown
    /\ formValue' = [formValue EXCEPT ![gmCommandProps] = 0]
    /\ field' = initial
    /\ UNCHANGED <<gClient, gmListVars, gmCommandProps, initial, response, shown>>
    /\ UNCHANGED <<timers, socketVars>>

-----------------------------------------------------------------------------
\* what the backend answers: the command list, {} when there is no GMStub, or
\* a timeout text; the result of a command with the name it came with
GmAnswers(r) ==
    IF r.type = "gmList"
    THEN {{Msg("gmList", nil, 0, GmCommand)}, {Msg("gmList", nil, 0, {})}, {Msg("timeout", nil, 0, {})}}
    ELSE {{r}}

GmAnswer(i) ==
    /\ sock[i].page = "gm" /\ sock[i].up # <<>>
    /\ \E a \in GmAnswers(Head(sock[i].up)) : Answer(i, a)
    /\ UNCHANGED gmVars
=============================================================================
