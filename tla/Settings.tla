------------------------------ MODULE Settings ------------------------------
(***************************************************************************)
(* The settings page: web/src/pages/SettingsPage.tsx, useFetch.ts and the  *)
(* panels of web/src/settings, with the daemon's tables they edit and the  *)
(* copy App.tsx keeps of what they save.  A panel is a list (tools, dirs,  *)
(* passkeys, sessions) or a form (daemon, appearance, preferences); it is  *)
(* mounted afresh whenever its tab is opened.  An optional value is a set. *)
(***************************************************************************)
EXTENDS Integers, SequencesExt, FiniteSetsExt, Filtering

CONSTANTS
  Opened,     \* the panels that may be opened
  FirstRows,  \* the ids the daemon's list has at first
  MaxClicks   \* bound on the steps of users

Lists == {"tools", "dirs", "passkeys", "sessions"}
Forms == {"daemon", "appearance", "preferences"}

ASSUME SettingsAssumption ==
  /\ Opened \subseteq Lists \cup Forms
  /\ FirstRows \in Seq(Nat \ {0}) /\ IsInjective(FirstRows)
  /\ MaxClicks \in Nat

Name == 0 .. 1
Value == 0 .. 3  \* of a form; of the daemon's, the RP ID is one half
RpId(v) == v \div 2

VARIABLES
  tab,           \* activeTab
  rows,          \* the daemon's table, in the order of positions
  setting,       \* the daemon's setting
  nextId,        \* the id a row added next gets
  fetched,       \* useFetch: data, error and loading
  requests,      \* requests not answered
  pendingOrder,       \* useReorder: pending
  dragIndex,     \* useReorder: dragIndex, 0 for none
  reorderError,
  edit,          \* editId and editName
  saving,        \* saving, busy or loading of a panel's own request
  saveError,     \* saveError, addError or error
  field,         \* what the form shows
  confirming,    \* pendingRpChange
  app,           \* App.tsx: health or confirmTerminate, as far as the form is about it
  clicks

\* Recorded to state the properties: what the page keeps may be behind the daemon,
\* because two of its writes may have crossed, a save's answer was lost, or another
\* page stored an order or a form.
VARIABLE overtaken

daemon == <<rows, setting, nextId>>
listState == <<pendingOrder, dragIndex, reorderError, edit>>
formState == <<field, confirming>>
busyState == <<saving, saveError>>
settingsVars == <<tab, daemon, fetched, requests, listState, formState, busyState, app, clicks, overtaken>>

Click == clicks < MaxClicks /\ clicks' = clicks + 1

----------------------------------------------------------------------------
(* useFetch *)

Request(kind, body) ==
  [kind |-> kind, body |-> body, confirm |-> FALSE, live |-> TRUE, handled |-> FALSE, ok |-> FALSE, answer |-> {}]

\* The effect: an earlier load no longer counts.
Loading(rs) == {IF r.kind = "load" THEN [r EXCEPT !.live = FALSE] ELSE r : r \in rs}
               \cup {Request("load", <<>>)}
Fresh == [data |-> {}, error |-> FALSE, loading |-> TRUE]
Reloading == [fetched EXCEPT !.error = FALSE, !.loading = TRUE]

\* The panel's content is rendered.
Rendered == ~fetched.loading /\ ~fetched.error
items == IF fetched.data = {} \/ tab \in Forms THEN <<>> ELSE CHOOSE d \in fetched.data : TRUE

----------------------------------------------------------------------------
(* useReorder *)

ids(list) == [i \in DOMAIN list |-> list[i].id]

\* ordered: the pending list wherever it has the rows of the loaded one.
ordered ==
  IF \E p \in pendingOrder : Len(p) = Len(items) /\ ToSet(ids(p)) \subseteq ToSet(ids(items))
  THEN CHOOSE p \in pendingOrder : TRUE ELSE items

moved(list, from, to) == InsertAt(RemoveAt(list, from), to, list[from])

Orders(r) == r.kind = "order"
save(next) ==
  /\ pendingOrder' = {next} /\ reorderError' = FALSE
  /\ requests' = requests \cup {Request("order", ids(next))}
  /\ overtaken' = (overtaken \/ \E r \in requests : Orders(r))

\* A row with its handle and its buttons; the one that is edited has neither.
Plain(i) == i \in DOMAIN ordered /\ \A e \in edit : e.id # ordered[i].id

OnList == Click /\ tab \in Lists /\ UNCHANGED <<tab, daemon, fetched, formState, app>>
HandlesShown == OnList /\ tab \in {"tools", "dirs"} /\ Rendered

DragStart(i) ==
  /\ HandlesShown /\ Plain(i) /\ dragIndex' = i
  /\ UNCHANGED <<requests, pendingOrder, reorderError, edit, busyState, overtaken>>
DragEnd ==
  /\ HandlesShown /\ dragIndex # 0 /\ dragIndex' = 0
  /\ UNCHANGED <<requests, pendingOrder, reorderError, edit, busyState, overtaken>>

move(from, to) ==
  IF from # to /\ {from, to} \subseteq DOMAIN ordered THEN save(moved(ordered, from, to))
  ELSE UNCHANGED <<requests, pendingOrder, reorderError, overtaken>>
DropRow(to) ==
  /\ HandlesShown /\ dragIndex # 0 /\ Plain(to)
  /\ dragIndex' = 0
  /\ move(dragIndex, to)
  /\ UNCHANGED <<edit, busyState>>
ArrowKey(i, step) ==
  /\ HandlesShown /\ Plain(i)
  /\ move(i, i + step)
  /\ UNCHANGED <<dragIndex, edit, busyState>>

----------------------------------------------------------------------------
(* The panels *)

Sends(r) == requests' = requests \cup {r}

\* add: the tools' and directories' button is not disabled while it is out; a
\* passkey is registered in two requests, with the authenticator between them.
Add ==
  /\ OnList /\ tab # "sessions"
  /\ tab = "passkeys" => ~saving
  /\ IF tab = "passkeys" THEN saving' = TRUE /\ saveError' = FALSE /\ Sends(Request("begin", <<clicks>>))
     ELSE UNCHANGED busyState /\ Sends(Request("add", <<clicks>>))
  /\ UNCHANGED <<listState, overtaken>>

\* delete and revoke; the last passkey is not offered.
Delete(i) ==
  /\ OnList /\ Rendered /\ Plain(i)
  /\ tab = "passkeys" => Len(items) > 1
  /\ Sends(Request("delete", <<ordered[i].id>>))
  /\ UNCHANGED <<listState, busyState, overtaken>>

StartEdit(i) ==
  /\ OnList /\ tab = "tools" /\ Rendered /\ Plain(i)
  /\ edit' = {ordered[i]}
  /\ UNCHANGED <<requests, pendingOrder, dragIndex, reorderError, busyState, overtaken>>
TypeEdit ==
  /\ OnList /\ Rendered /\ edit' = {[e EXCEPT !.name = 1 - @] : e \in edit} /\ edit' # edit
  /\ UNCHANGED <<requests, pendingOrder, dragIndex, reorderError, busyState, overtaken>>
CancelEdit ==
  /\ OnList /\ Rendered /\ edit # {} /\ edit' = {}
  /\ UNCHANGED <<requests, pendingOrder, dragIndex, reorderError, busyState, overtaken>>
SaveEdit ==
  /\ OnList /\ Rendered
  /\ \E e \in edit : e.id \in ToSet(ids(ordered)) /\ Sends(Request("edit", <<e.id, e.name>>))
  /\ UNCHANGED <<listState, busyState, overtaken>>

OnForm == Click /\ tab \in Forms /\ UNCHANGED <<tab, daemon, fetched, listState, app>>

TypeField(v) ==
  /\ OnForm /\ Rendered /\ ~saving /\ field # v
  /\ field' = v
  /\ UNCHANGED <<requests, confirming, busyState, overtaken>>

\* save: Save, or the banner's Confirm, which outlives changes of the fields.
Save(confirm) ==
  /\ OnForm /\ ~saving
  /\ IF confirm THEN confirming /\ fetched.data # {} ELSE Rendered
  /\ Sends([Request("save", <<field>>) EXCEPT !.confirm = confirm])
  /\ saving' = TRUE /\ saveError' = FALSE /\ confirming' = FALSE
  /\ overtaken' = (overtaken \/ \E r \in requests : r.kind \in {"startup", "save"})
  /\ UNCHANGED field
CancelConfirm ==
  /\ OnForm /\ ~saving /\ confirming /\ confirming' = FALSE
  /\ UNCHANGED <<requests, field, busyState, overtaken>>

Retry ==
  /\ Click /\ fetched.error
  /\ fetched' = Reloading
  /\ requests' = Loading(requests)
  /\ UNCHANGED <<tab, daemon, listState, formState, busyState, app, overtaken>>

\* Another tab and back: nothing that is still out reaches the panel.
Reopen ==
  /\ Click
  /\ fetched' = Fresh
  /\ requests' = {[r EXCEPT !.live = FALSE] : r \in requests} \cup {Request("load", <<>>)}
  /\ pendingOrder' = {} /\ dragIndex' = 0 /\ reorderError' = FALSE /\ edit' = {}
  /\ saving' = FALSE /\ saveError' = FALSE /\ field' = 0 /\ confirming' = FALSE
  /\ overtaken' = ((tab \in Forms /\ overtaken) \/ \E r \in requests : Orders(r))
  /\ UNCHANGED <<tab, daemon, app>>

----------------------------------------------------------------------------
(* The daemon *)

NewRow == [id |-> nextId, name |-> 0]

\* checkIDSet: every row once, or nothing happens.
checkIDSet(list) == Len(list) = Len(rows) /\ ToSet(list) = ToSet(ids(rows))

Applied(r) ==
  /\ rows' = CASE r.kind = "order" /\ checkIDSet(r.body) ->
                    [i \in DOMAIN rows |-> CHOOSE row \in ToSet(rows) : row.id = r.body[i]]
               [] r.kind = "edit" -> [i \in DOMAIN rows |->
                    IF rows[i].id = r.body[1] THEN [id |-> r.body[1], name |-> r.body[2]] ELSE rows[i]]
               [] r.kind = "delete" /\ (tab = "passkeys" => Len(rows) > 1) ->
                    Filter(rows, {row \in ToSet(rows) : row.id # r.body[1]})
               [] r.kind = "add" -> Append(rows, NewRow)
               [] OTHER -> rows
  /\ nextId' = IF r.kind = "add" THEN nextId + 1 ELSE nextId
  /\ setting' = IF r.kind = "save" /\ (r.confirm \/ tab # "daemon" \/ RpId(r.body[1]) = RpId(setting))
                THEN r.body[1] ELSE setting

\* Whether the daemon does what it is asked.
Accepts(r) ==
  CASE r.kind = "order" -> checkIDSet(r.body)
    [] r.kind = "delete" -> tab = "passkeys" => Len(rows) > 1
    [] r.kind = "save" -> r.confirm \/ tab # "daemon" \/ RpId(r.body[1]) = RpId(setting)
    [] OTHER -> TRUE

\* What the page then has of it is what the daemon stores: the one write that is
\* out, what App starts with, or a list loaded while no order is kept.
Alone(r, kinds) == r.kind \in kinds /\ \A q \in requests : q.kind \in kinds => q = r
CatchesUp(r) ==
  \/ tab \in Forms /\ Alone(r, {"startup", "save"}) /\ Accepts(r)
  \/ /\ tab \in Lists /\ r.live
     /\ \/ Alone(r, {"order"}) /\ Accepts(r) /\ \E p \in pendingOrder : r.body = ids(p)
        \/ r.kind = "load" /\ pendingOrder = {} /\ \A q \in requests : ~Orders(q)

DaemonHandles(r) ==
  /\ ~r.handled
  /\ Applied(r)
  /\ overtaken' = (overtaken /\ ~CatchesUp(r))
  /\ requests' = (requests \ {r}) \cup
       {[r EXCEPT !.handled = TRUE, !.ok = Accepts(r),
                  !.answer = IF r.kind \in {"load", "startup"} THEN {IF tab \in Lists THEN rows ELSE setting} ELSE {}]}
  /\ UNCHANGED <<tab, fetched, listState, formState, busyState, app, clicks>>

\* Another page, of any origin or in another tab, adds a row or deletes one, stores an
\* order of all the rows, or saves the form.
AddsOrDeletes ==
  /\ tab \in Lists
  /\ \/ rows' = Append(rows, NewRow) /\ nextId' = nextId + 1
     \/ rows # <<>> /\ rows' = Tail(rows) /\ UNCHANGED nextId
  /\ UNCHANGED <<setting, overtaken>>
StoresOrder ==
  /\ tab \in {"tools", "dirs"}
  /\ rows' \in {list \in [DOMAIN rows -> ToSet(rows)] : IsInjective(list)} \ {rows}
  /\ overtaken' = TRUE
  /\ UNCHANGED <<setting, nextId>>
SavesForm ==
  /\ tab \in Forms
  /\ setting' \in Value \ {setting}
  /\ overtaken' = TRUE
  /\ UNCHANGED <<rows, nextId>>
Elsewhere ==
  /\ Click
  /\ AddsOrDeletes \/ StoresOrder \/ SavesForm
  /\ UNCHANGED <<tab, fetched, requests, listState, formState, busyState, app>>

----------------------------------------------------------------------------
(* The answers; a request may fail on its way there or on its way back *)

Rest(r) == requests \ {r}
Reload(r) == fetched' = Reloading /\ requests' = Loading(Rest(r))
DropRequest(r) == requests' = Rest(r) /\ UNCHANGED <<fetched, listState, formState, busyState>>

Loaded(r, ok) ==
  /\ r.kind = "load" /\ requests' = Rest(r)
  /\ fetched' = IF ~r.live THEN fetched ELSE [data |-> IF ok THEN r.answer ELSE {}, error |-> ~ok, loading |-> FALSE]
  /\ field' = IF r.live /\ ok /\ tab \in Forms THEN CHOOSE v \in r.answer : TRUE ELSE field
  /\ UNCHANGED <<listState, confirming, busyState, app, overtaken>>

\* save of useReorder, after its PUT.
OrderSaved_KeepPending(r, ok) ==
  /\ Orders(r) /\ r.live
  /\ Reload(r)
  /\ reorderError' = (reorderError \/ ~ok)
  /\ UNCHANGED <<pendingOrder, dragIndex, edit, formState, busyState, app, overtaken>>
OrderSaved(r, ok) ==
  /\ Orders(r) /\ r.live
  /\ Reload(r)
  /\ pendingOrder' = (IF ok THEN pendingOrder ELSE {}) /\ reorderError' = (reorderError \/ ~ok)
  /\ UNCHANGED <<dragIndex, edit, formState, busyState, app, overtaken>>

\* Edits and deletes that fail leave the panel as it is.
Changed(r, ok) ==
  /\ r.kind \in {"edit", "delete"} /\ r.live
  /\ IF ok THEN /\ Reload(r)
               /\ edit' = (IF r.kind = "edit" THEN {} ELSE edit)
               /\ UNCHANGED <<pendingOrder, dragIndex, reorderError, formState, busyState>>
     ELSE DropRequest(r)
  /\ UNCHANGED <<app, overtaken>>

Added(r, ok) ==
  /\ r.kind = "add" /\ r.live
  /\ IF tab = "passkeys" THEN saving' = FALSE /\ saveError' = ~ok ELSE UNCHANGED busyState
  /\ IF ok THEN Reload(r) ELSE requests' = Rest(r) /\ UNCHANGED fetched
  /\ UNCHANGED <<listState, formState, app, overtaken>>

\* register, after its first request; an authenticator may refuse.
PasskeyBegun(r, ok) ==
  /\ r.kind = "begin"
  /\ IF ok THEN /\ requests' = Rest(r) \cup {[Request("add", r.body) EXCEPT !.live = r.live]}
               /\ UNCHANGED busyState
     ELSE /\ requests' = Rest(r)
          /\ IF r.live THEN saving' = FALSE /\ saveError' = TRUE ELSE UNCHANGED busyState
  /\ UNCHANGED <<fetched, listState, formState, app, overtaken>>

\* save of a form; App is told even when the panel is gone.
Saved(r, ok) ==
  /\ r.kind = "save"
  /\ app' = (IF ok /\ tab # "daemon" THEN r.body[1] ELSE app)
  /\ overtaken' = (overtaken \/ (~ok /\ r.ok))
  /\ IF ~r.live THEN DropRequest(r)
     ELSE /\ saving' = FALSE
          /\ confirming' = (~ok /\ r.handled /\ ~r.ok)
          /\ saveError' = (~ok /\ ~confirming')
          /\ IF ok THEN Reload(r) ELSE requests' = Rest(r) /\ UNCHANGED fetched
          /\ UNCHANGED <<listState, field>>

\* What App asked for when it was mounted; without an answer it keeps the default.
StartupLands(r, ok) ==
  /\ r.kind = "startup" /\ DropRequest(r)
  /\ app' = (IF ok THEN CHOOSE v \in r.answer : TRUE ELSE app)
  /\ overtaken' = (overtaken \/ ~ok)

\* A continuation whose panel is gone does nothing.
GoneLands(r) ==
  /\ r.kind \in {"order", "edit", "delete", "add"} /\ ~r.live /\ DropRequest(r)
  /\ UNCHANGED <<app, overtaken>>

RequestLands(r) ==
  /\ \/ \E ok \in {FALSE} \cup {r.handled /\ r.ok} :
          Loaded(r, ok) \/ OrderSaved(r, ok) \/ Changed(r, ok) \/ Added(r, ok)
            \/ PasskeyBegun(r, ok) \/ Saved(r, ok) \/ StartupLands(r, ok)
     \/ GoneLands(r)
  /\ UNCHANGED <<tab, daemon, clicks>>

----------------------------------------------------------------------------

SettingsInit ==
  /\ tab \in Opened
  /\ rows = [i \in DOMAIN FirstRows |-> [id |-> FirstRows[i], name |-> 0]]
  /\ nextId = 1 + Max(ToSet(FirstRows) \cup {0})
  /\ setting \in IF tab \in Forms THEN {0, 1} ELSE {0}
  /\ fetched = Fresh
  /\ requests = {Request("load", <<>>)} \cup {Request("startup", <<>>) : t \in {tab} \cap (Forms \ {"daemon"})}
  /\ pendingOrder = {} /\ dragIndex = 0 /\ reorderError = FALSE /\ edit = {}
  /\ saving = FALSE /\ saveError = FALSE /\ field = 0 /\ confirming = FALSE
  /\ app = 0 /\ clicks = 0 /\ overtaken = FALSE

SettingsNext ==
  \/ \E i \in DOMAIN ordered :
       \/ DragStart(i) \/ DropRow(i) \/ ArrowKey(i, 1) \/ ArrowKey(i, -1)
       \/ Delete(i) \/ StartEdit(i)
  \/ DragEnd \/ Add \/ TypeEdit \/ CancelEdit \/ SaveEdit
  \/ \E v \in Value : TypeField(v)
  \/ \E confirm \in BOOLEAN : Save(confirm)
  \/ CancelConfirm \/ Retry \/ Reopen \/ Elsewhere
  \/ \E r \in requests : DaemonHandles(r) \/ RequestLands(r)

SettingsSpec == SettingsInit /\ [][SettingsNext]_settingsVars

----------------------------------------------------------------------------
(* Properties *)

RowList == Seq([id : Nat \ {0}, name : Name])
SettingsTypeOK ==
  /\ rows \in RowList /\ IsInjective(ids(rows)) /\ setting \in Value
  /\ fetched.data \subseteq IF tab \in Lists THEN RowList ELSE Value
  /\ pendingOrder \subseteq RowList /\ \A p \in pendingOrder : IsInjective(ids(p))
  /\ dragIndex \in Nat /\ edit \subseteq [id : Nat, name : Name]
  /\ field \in Value /\ app \in Value
  /\ \A r \in requests : r.handled \/ ~r.ok
  /\ {fetched.error, fetched.loading, reorderError, saving, saveError, confirming} \subseteq BOOLEAN

\* Once every request is answered the page shows what the daemon stores: an order
\* that was refused or lost is not left on screen, nor is App with an old setting.
\* What may be behind: after two writes that may have crossed; after a save whose
\* answer was lost; and after another page's order or save, until the list is loaded
\* with no order kept (useReorder.ts:45 keeps one after a good save, and so hides a
\* newer one whatever is loaded), or an order or a form is written anew.
ScreenFollowsDaemon ==
  requests = {} /\ ~overtaken =>
    /\ tab \in Forms \ {"daemon"} => app = setting
    /\ tab \in Lists /\ Rendered /\ ToSet(ids(items)) = ToSet(ids(rows)) => ids(ordered) = ids(rows)

=============================================================================
