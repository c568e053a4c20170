------------------------------ MODULE Inventory ------------------------------
(***************************************************************************)
(* Devices, SIM cards and routers: the pages that list and edit them, the  *)
(* services that store them, their owners, recharges and telemetry.        *)
(*                                                                         *)
(* A page fills its form from the table it shows, sends the whole form     *)
(* back, and fetches the table again; it keeps a table for every text that *)
(* was typed into its filter.  Services check first and write later, and   *)
(* write two tables in two statements.  Of each kind of asset the model    *)
(* has a unique field and one more field of the form.                      *)
(***************************************************************************)
EXTENDS Integers, Sequences, FiniteSets

CONSTANTS
  Assets, KindOf,       \* rows, those still to be created included
  First,                \* the fields of the rows that exist at first
  Pages, Shows,         \* management pages, and the kind of asset each shows
  MayCreate, MayEdit,   \* pages whose user may create, or edit, assets
  Names, Words,         \* what is entered in unique fields, and in others
  Callers, May,         \* other clients of the API, and what each may ask for
  People,
  Hits,                 \* Hits[q]: the names in which a search finds the text q
  PageSize,             \* rows of a table, at most
  MaxCalls,             \* bound: requests in one behaviour
  MaxReloads,           \* bound: times a page fetches unasked, or is given a filter
  MaxFaults             \* bound: requests and fetches that fail

Kinds == {"DEVICE", "SIM", "ROUTER"}
Blank == ""             \* an empty input
Null == "null"          \* a column without a value
None == "none"

\* The forms, as they are before anything is entered.
DeviceForm == [serialNumber |-> Blank, maintenanceStatus |-> "OK"]
SimForm == [iccid |-> Blank, packageType |-> Blank]
RouterForm == [imei |-> Blank, maintenanceStatus |-> "OK"]
EmptyForm == [DEVICE |-> DeviceForm, SIM |-> SimForm, ROUTER |-> RouterForm]

Key == [DEVICE |-> "serialNumber", SIM |-> "iccid", ROUTER |-> "imei"]

\* What create stores for a request, with its defaults.
Given(dto, f, default) == IF f \in DOMAIN dto THEN dto[f] ELSE default
DeviceRow(dto) == [serialNumber |-> dto.serialNumber, signal |-> Null,
                   maintenanceStatus |-> Given(dto, "maintenanceStatus", "OK")]
SimRow(dto) == [iccid |-> dto.iccid, packageType |-> Given(dto, "packageType", Null)]
RouterRow(dto) == [imei |-> dto.imei, signal |-> Null,
                   maintenanceStatus |-> Given(dto, "maintenanceStatus", "OK")]
NewRow(kind, dto) ==
  CASE kind = "DEVICE" -> DeviceRow(dto) [] kind = "SIM" -> SimRow(dto) [] OTHER -> RouterRow(dto)

Operations == {"create", "update", "transfer", "return", "recharge", "telemetry", "direct"}

\* What a caller may ask for: an operation on an asset, with the fields of the
\* request, the person who gets the asset, or the package or reading.  The
\* name of what it creates is required.
IsGoal(g) ==
  /\ g.op \in Operations /\ g.of \in Assets
  /\ g.with \in IF g.op \in {"recharge", "telemetry", "direct"} THEN Words ELSE People
  /\ DOMAIN g.dto \subseteq DOMAIN EmptyForm[KindOf[g.of]]
  /\ \A f \in DOMAIN g.dto : g.dto[f] \in Names \cup Words
  /\ g.op = "create" => Key[KindOf[g.of]] \in DOMAIN g.dto

ASSUME InventoryConstantsOK ==
  /\ KindOf \in [Assets -> Kinds] /\ Shows \in [Pages -> Kinds]
  /\ MayCreate \subseteq Pages /\ MayEdit \subseteq Pages
  /\ DOMAIN May = Callers /\ Pages \cap Callers = {}
  /\ \A c \in Callers : \A g \in May[c] : IsGoal(g)
  /\ None \notin Assets /\ {Blank, Null, None} \cap (Names \cup Words) = {}
  /\ Blank \notin DOMAIN Hits
  /\ {PageSize, MaxCalls, MaxReloads, MaxFaults} \subseteq Nat

\* The fields of the forms, and what telemetry keeps.
Fields == {"signal"} \cup UNION {DOMAIN EmptyForm[k] : k \in Kinds}

\* Names are unique at first.
ASSUME FirstOK ==
  /\ DOMAIN First \subseteq Assets
  /\ \A a \in DOMAIN First : /\ DOMAIN EmptyForm[KindOf[a]] \subseteq DOMAIN First[a]
                            /\ DOMAIN First[a] \subseteq Fields
  /\ \A a, b \in DOMAIN First :
       KindOf[a] = KindOf[b] /\ First[a][Key[KindOf[a]]] = First[b][Key[KindOf[a]]] => a = b

VARIABLES
  row,        \* the rows that exist: their fields, how often they were written, their age
  owner,      \* the AssetOwnershipHistory table
  recorded,   \* the SimPackageHistory and AssetTelemetryMetric tables
  call,       \* the request a page or a caller is waiting for
  form,       \* a page's form: the row it edits, its inputs, and those typed in
  view,       \* the text in a page's filter
  shown,      \* a page's tables, by the filter they are for; are they still valid?
  fetch,      \* the fetches of these tables, and the rows they have read
  meant,      \* history: what was entered for which field of which row
  strayed,    \* history: what came with a form that had turned to another row
  saved,      \* history: the versions of the rows a page has saved
  calls, reloads, faults

tables == <<row, owner, recorded>>
table == <<view, shown, fetch>>
entered == <<meant, strayed>>
bounds == <<calls, reloads, faults>>
vars == <<tables, call, form, table, entered, saved, bounds>>

Clients == Pages \cup Callers
Texts == {Blank} \cup DOMAIN Hits
NoCall == [op |-> None, pc |-> "idle"]

\* A fetch is old (history) if a save was answered since it began.
NoFetch == [pc |-> "idle", old |-> FALSE]
Sending == [pc |-> "sent", old |-> FALSE]
Clean(p) == [of |-> None, vals |-> EmptyForm[Shows[p]], typed |-> {}]

\* Function f with the value v for a.
Put(f, a, v) == [b \in DOMAIN f \cup {a} |-> IF b = a THEN v ELSE f[b]]

Init ==
  /\ row = [a \in DOMAIN First |-> [vals |-> First[a], ver |-> 1, born |-> 0]]
  /\ owner = <<>> /\ recorded = {}
  /\ call = [x \in Clients |-> NoCall]
  /\ form = [p \in Pages |-> Clean(p)]
  /\ view = [p \in Pages |-> Blank] /\ shown = [p \in Pages |-> <<>>]
  /\ fetch = [p \in Pages |-> [q \in Texts |-> IF q = Blank THEN Sending ELSE NoFetch]]
  /\ meant = {} /\ strayed = {} /\ saved = [p \in Pages |-> <<>>]
  /\ calls = 0 /\ reloads = 0 /\ faults = 0

At(x, op, pc) == call[x].op = op /\ call[x].pc = pc
Goto(x, pc) == call' = [call EXCEPT ![x].pc = pc]
End(x) == call' = [call EXCEPT ![x] = NoCall]

Begin(x, pc, op, of, dto, typed, with) ==
  /\ call[x] = NoCall /\ calls < MaxCalls /\ calls' = calls + 1
  /\ call' = [call EXCEPT ![x] = [op |-> op, of |-> of, dto |-> dto, typed |-> typed,
                                  with |-> with, pc |-> pc, ver |-> 0, closed |-> 0,
                                  turned |-> FALSE, awaits |-> Blank]]
  /\ UNCHANGED <<reloads, faults>>

(***************************************************************************)
(* The form of a page.                                                     *)
(***************************************************************************)
\* toDeviceForm, toSimForm, toRouterForm: what has no value is as in the
\* empty form.
FormOf(kind, vals) ==
  [f \in DOMAIN EmptyForm[kind] |-> IF vals[f] = Null THEN EmptyForm[kind][f] ELSE vals[f]]

\* While the table for a new text is on its way there is nothing to see.
Displayed(p) == IF view[p] \in DOMAIN shown[p] THEN shown[p][view[p]].rows ELSE <<>>

\* The form is filled from the table, also while a save is pending.
Edit(p, a) ==
  /\ p \in MayEdit /\ a \in DOMAIN Displayed(p) /\ calls < MaxCalls   \* bound
  /\ form' = [form EXCEPT ![p] = [of |-> a, vals |-> FormOf(Shows[p], Displayed(p)[a].vals),
                                  typed |-> {}]]
  /\ UNCHANGED <<tables, call, table, entered, saved, bounds>>

IsOpen(p) == p \in MayCreate \/ form[p].of # None

Input(p, f) == IF f = Key[Shows[p]] THEN Names ELSE Words \cup {Blank}

UpdateField(p, f, v) ==
  /\ IsOpen(p) /\ v \in Input(p, f) /\ calls < MaxCalls   \* bound
  /\ form' = [form EXCEPT ![p].vals[f] = v, ![p].typed = @ \cup {f}]
  /\ UNCHANGED <<tables, call, table, entered, saved, bounds>>

CancelEdit(p) ==
  /\ form[p].of # None
  /\ form' = [form EXCEPT ![p] = Clean(p)]
  /\ UNCHANGED <<tables, call, table, entered, saved, bounds>>

\* Mutant: empty inputs are sent as well.
PayloadWithBlanks(vals) == vals

\* cleanPayload: an input left empty is not sent, so it clears nothing.
Payload(vals) == [f \in {g \in DOMAIN vals : vals[g] # Blank} |-> vals[f]]

\* The button is disabled while a save is pending, or without the right to create.
CanSave(p) == IsOpen(p) /\ form[p].vals[Key[Shows[p]]] # Blank

OpFor(of) == IF of = None THEN "create" ELSE "update"

\* mutate(form) takes the inputs along.  Offline the request is not sent yet.
Save(p) ==
  LET fm == form[p] IN
  /\ CanSave(p)
  /\ \E pc \in {"find", "paused"} :
       Begin(p, pc, OpFor(fm.of), fm.of, Payload(fm.vals), fm.typed, None)
  /\ UNCHANGED <<tables, form, table, entered, saved>>

\* mutationFn reads the id selected when it runs, of the latest render.
Target(p) == form[p].of

\* Online again.  The API refuses to create without the right to.
Resume(p) ==
  /\ call[p].pc = "paused"
  /\ IF Target(p) = None /\ p \notin MayCreate THEN End(p)
     ELSE call' = [call EXCEPT ![p].pc = "find", ![p].op = OpFor(Target(p)), ![p].of = Target(p),
                               ![p].turned = Target(p) # call[p].of]
  /\ UNCHANGED <<tables, form, table, entered, saved, bounds>>

(***************************************************************************)
(* The tables of a page: one for every text in its filter, kept by the     *)
(* query client.                                                           *)
(***************************************************************************)
IsValid(p, q) == q \in DOMAIN shown[p] /\ shown[p][q].valid

Fetches(p, q, f) == fetch' = [fetch EXCEPT ![p][q] = f]

\* setSearch.  What is not there, or no longer valid, is fetched; what is
\* valid may be, when it is older than staleTime; a fetch under way will do.
Filter(p, q) ==
  /\ q # view[p] /\ reloads < MaxReloads /\ reloads' = reloads + 1
  /\ view' = [view EXCEPT ![p] = q]
  /\ IF fetch[p][q] # NoFetch THEN UNCHANGED fetch
     ELSE \/ Fetches(p, q, Sending)
          \/ IsValid(p, q) /\ UNCHANGED fetch
  /\ UNCHANGED <<tables, call, form, shown, entered, saved, calls, faults>>

Reload(p) ==
  /\ fetch[p][view[p]] = NoFetch /\ reloads < MaxReloads /\ reloads' = reloads + 1
  /\ Fetches(p, view[p], Sending)
  /\ UNCHANGED <<tables, call, form, view, shown, entered, saved, calls, faults>>

Found(p, q) ==
  {a \in DOMAIN row : /\ KindOf[a] = Shows[p]
                      /\ q = Blank \/ row[a].vals[Key[KindOf[a]]] \in Hits[q]}

\* The newest first, and no more than fit on a page.
IsFirstPage(as, of) ==
  /\ \/ Cardinality(as) = PageSize
     \/ as = of /\ Cardinality(of) < PageSize
  /\ \A a \in as, b \in of \ as : row[a].born >= row[b].born

List(p, q) ==
  /\ fetch[p][q].pc = "sent"
  /\ \E as \in SUBSET Found(p, q) :
       /\ IsFirstPage(as, Found(p, q))
       /\ Fetches(p, q, [pc |-> "read", rows |-> [a \in as |-> row[a]], old |-> fetch[p][q].old])
  /\ UNCHANGED <<tables, call, form, view, shown, entered, saved, bounds>>

\* A save that waits for the fetch is over with it.
Fetched(p, q) ==
  /\ Fetches(p, q, NoFetch)
  /\ IF call[p].pc = "refetch" /\ call[p].awaits = q THEN End(p) ELSE UNCHANGED call

\* A table that has arrived is valid, whatever was invalidated on its way.
Show(p, q) ==
  /\ fetch[p][q].pc = "read"
  /\ shown' = [shown EXCEPT ![p] = Put(@, q, [rows |-> fetch[p][q].rows, valid |-> TRUE,
                                              old |-> fetch[p][q].old])]
  /\ Fetched(p, q)
  /\ UNCHANGED <<tables, form, view, entered, saved, bounds>>

Invalidated(ts) == [q \in DOMAIN ts |-> [ts[q] EXCEPT !.valid = FALSE]]

\* Of the fetches under way invalidateQueries cancels and repeats only that of
\* the table in view, and not if it is the first fetch of it.
GoesOn(p, q) == fetch[p][q] # NoFetch /\ (q # view[p] \/ q \notin DOMAIN shown[p])

\* Mutant: a fetch that is under way will do.
RefetchJoined(p) ==
  [q \in Texts |-> IF GoesOn(p, q) THEN [fetch[p][q] EXCEPT !.old = TRUE]
                   ELSE IF q = view[p] /\ fetch[p][q] = NoFetch THEN Sending ELSE fetch[p][q]]

Refetch(p) ==
  [q \in Texts |-> IF GoesOn(p, q) THEN [fetch[p][q] EXCEPT !.old = TRUE]
                   ELSE IF q = view[p] THEN Sending ELSE NoFetch]

\* Mutant: only the selection is dropped.
ClearedSelection(p) == [form[p] EXCEPT !.of = None, !.typed = {}]

\* Whatever is in the form by then, it is emptied.
Cleared(p) == Clean(p)

\* onSuccess.  The button stays disabled until the table in view has been
\* fetched; offline nobody waits for that.
Saved(p) ==
  /\ call[p].pc = "answer"
  /\ form' = [form EXCEPT ![p] = Cleared(p)]
  /\ saved' = [saved EXCEPT ![p] = Put(@, call[p].of, call[p].ver)]
  /\ shown' = [shown EXCEPT ![p] = Invalidated(@)]
  /\ fetch' = [fetch EXCEPT ![p] = Refetch(p)]
  /\ \/ End(p)
     \/ call' = [call EXCEPT ![p].pc = "refetch", ![p].awaits = view[p]]
  /\ UNCHANGED <<tables, view, entered, bounds>>

(***************************************************************************)
(* Create and update.                                                      *)
(***************************************************************************)
Ask(c) ==
  /\ \E g \in May[c] : Begin(c, "find", g.op, g.of, g.dto, DOMAIN g.dto, g.with)
  /\ UNCHANGED <<tables, form, table, entered, saved>>

KindFor(x) == IF call[x].of # None THEN KindOf[call[x].of] ELSE Shows[x]

\* Rows of the kind, other than a, with the name of the request.
Clashes(kind, dto, a) ==
  {b \in DOMAIN row \ {a} : /\ KindOf[b] = kind /\ Key[kind] \in DOMAIN dto
                            /\ row[b].vals[Key[kind]] = dto[Key[kind]]}

\* ensureUnique, get and ensureAsset: one query before anything is written.
Find(x) ==
  /\ call[x].pc = "find"
  /\ IF \/ call[x].op = "create" /\ Clashes(KindFor(x), call[x].dto, None) # {}
        \/ call[x].op # "create" /\ call[x].of \notin DOMAIN row
     THEN End(x) ELSE Goto(x, "write")
  /\ UNCHANGED <<tables, form, table, entered, saved, bounds>>

\* Mutant: no unique index.
IsFreeAlways(kind, dto, a) == TRUE

IsFree(kind, dto, a) == Clashes(kind, dto, a) = {}

\* What a request brings to fields of a.
Brings(a, x, fs) == {<<a, f, call[x].dto[f]>> : f \in fs \cap DOMAIN call[x].dto}

Means(a, x) ==
  IF call[x].turned THEN strayed' = strayed \cup Brings(a, x, DOMAIN call[x].dto) /\ UNCHANGED meant
  ELSE meant' = meant \cup Brings(a, x, call[x].typed) /\ UNCHANGED strayed

\* A page hears of the new version; nobody else needs the answer.
Answer(x, a, ver) ==
  IF x \in Pages
  THEN call' = [call EXCEPT ![x].pc = "answer", ![x].of = a, ![x].ver = ver]
  ELSE End(x)

Insert(x) ==
  LET kind == KindFor(x)
      unused == {a \in Assets \ DOMAIN row : KindOf[a] = kind} IN
  /\ At(x, "create", "write")
  /\ IF IsFree(kind, call[x].dto, None) /\ unused # {}   \* bound: rows to create
     THEN LET a == CHOOSE b \in unused : TRUE IN
            /\ row' = Put(row, a, [vals |-> NewRow(kind, call[x].dto), ver |-> 1,
                                  born |-> Cardinality(DOMAIN row)])
            /\ Means(a, x) /\ Answer(x, a, 1)
     ELSE End(x) /\ UNCHANGED <<row, entered>>
  /\ UNCHANGED <<owner, recorded, form, table, saved, bounds>>

\* What the request leaves out stays.
Merge(vals, dto) == [f \in DOMAIN vals |-> Given(dto, f, vals[f])]

Written(a, vals) == [row EXCEPT ![a].vals = vals, ![a].ver = @ + 1]

Update(x) ==
  LET a == call[x].of IN
  /\ At(x, "update", "write")
  /\ IF IsFree(KindOf[a], call[x].dto, a)
     THEN /\ row' = Written(a, Merge(row[a].vals, call[x].dto))
          /\ Means(a, x) /\ Answer(x, a, row[a].ver + 1)
     ELSE End(x) /\ UNCHANGED <<row, entered>>
  /\ UNCHANGED <<owner, recorded, form, table, saved, bounds>>

(***************************************************************************)
(* Recharges and telemetry: the history first, then the row.               *)
(***************************************************************************)
Record(x, f) ==
  /\ recorded' = recorded \cup {<<call[x].of, f, call[x].with>>}
  /\ UNCHANGED <<row, owner, form, table, entered, saved, bounds>>

Apply(x, f) ==
  LET a == call[x].of IN
  /\ row' = Written(a, [row[a].vals EXCEPT ![f] = call[x].with])
  /\ End(x)
  /\ UNCHANGED <<owner, recorded, form, table, saved, bounds>>

RecordRecharge(x) == At(x, "recharge", "write") /\ Record(x, "packageType") /\ Goto(x, "apply")
ApplyRecharge(x) == At(x, "recharge", "apply") /\ Apply(x, "packageType") /\ UNCHANGED entered

\* SIM cards show no signal.
RecordMetric(x) ==
  /\ At(x, "telemetry", "write") /\ Record(x, "signal")
  /\ IF KindOf[call[x].of] = "SIM" THEN End(x) ELSE Goto(x, "apply")
ApplyMetric(x) == At(x, "telemetry", "apply") /\ Apply(x, "signal") /\ UNCHANGED entered

\* The devices' own endpoint keeps no metric.
IngestTelemetry(x) ==
  /\ At(x, "direct", "write") /\ Apply(x, "signal")
  /\ meant' = meant \cup {<<call[x].of, "signal", call[x].with>>} /\ UNCHANGED strayed

(***************************************************************************)
(* Ownership: close what is open, then open a row of one's own.            *)
(***************************************************************************)
\* Mutant: a transfer closes the rows of the new owner only.
ToCloseOfOwner(x) ==
  {i \in DOMAIN owner : owner[i].of = call[x].of /\ owner[i].open /\ owner[i].who = call[x].with}

ToClose(x) == {i \in DOMAIN owner : owner[i].of = call[x].of /\ owner[i].open}

CloseOpen(x) ==
  /\ call[x].op \in {"transfer", "return"} /\ call[x].pc = "write"
  /\ owner' = [i \in DOMAIN owner |-> [owner[i] EXCEPT !.open = @ /\ i \notin ToClose(x)]]
  /\ call' = [call EXCEPT ![x] = IF call[x].op = "return" THEN NoCall
                                 ELSE [@ EXCEPT !.pc = "open", !.closed = Len(owner)]]
  /\ UNCHANGED <<row, recorded, form, table, entered, saved, bounds>>

\* closed is history: how many rows there were when the open ones were closed.
OpenRow(x) ==
  /\ At(x, "transfer", "open")
  /\ owner' = Append(owner, [of |-> call[x].of, who |-> call[x].with, open |-> TRUE,
                             closed |-> call[x].closed])
  /\ End(x)
  /\ UNCHANGED <<row, recorded, form, table, entered, saved, bounds>>

(***************************************************************************)
(* Faults.                                                                 *)
(***************************************************************************)
Fault == faults < MaxFaults /\ faults' = faults + 1 /\ UNCHANGED <<calls, reloads>>

\* The server dies or the answer is lost: the form keeps its inputs.
Lose(x) ==
  /\ Fault /\ call[x].pc \notin {"idle", "paused", "refetch"}
  /\ End(x)
  /\ UNCHANGED <<tables, form, table, entered, saved>>

\* A fetch that fails is sent once more; then its table is not valid any more.
FetchFails(p, q) ==
  /\ Fault /\ fetch[p][q] # NoFetch
  /\ \/ /\ fetch[p][q].pc = "read"
        /\ Fetches(p, q, [pc |-> "sent", old |-> fetch[p][q].old])
        /\ UNCHANGED <<call, shown>>
     \/ /\ shown' = [shown EXCEPT ![p] = [t \in DOMAIN @ |->
                       IF t = q THEN [@[t] EXCEPT !.valid = FALSE] ELSE @[t]]]
        /\ Fetched(p, q)
  /\ UNCHANGED <<tables, form, view, entered, saved>>

Serve(x) ==
  \/ Find(x) \/ Insert(x) \/ Update(x) \/ CloseOpen(x) \/ OpenRow(x)
  \/ RecordRecharge(x) \/ ApplyRecharge(x) \/ RecordMetric(x) \/ ApplyMetric(x)
  \/ IngestTelemetry(x)

Next ==
  \/ \E p \in Pages : Save(p) \/ Resume(p) \/ Saved(p) \/ CancelEdit(p) \/ Reload(p)
                      \/ \E a \in Assets : Edit(p, a)
  \/ \E p \in Pages, q \in Texts : Filter(p, q) \/ List(p, q) \/ Show(p, q) \/ FetchFails(p, q)
  \/ \E p \in Pages : \E f \in DOMAIN form[p].vals : \E v \in Input(p, f) : UpdateField(p, f, v)
  \/ \E c \in Callers : Ask(c)
  \/ \E x \in Clients : Serve(x) \/ Lose(x)

Spec == Init /\ [][Next]_vars

(***************************************************************************)
(* Properties.                                                             *)
(***************************************************************************)
Original == UNION {{First[a][f] : f \in DOMAIN First[a]} : a \in DOMAIN First}
Values == Names \cup Words \cup Original \cup {Null, "OK"}
Rows(r) == \A a \in DOMAIN r : a \in Assets /\ r[a].ver \in Nat \ {0}
             /\ \A f \in DOMAIN r[a].vals : f \in Fields /\ r[a].vals[f] \in Values

TypeOK ==
  /\ Rows(row) /\ DOMAIN First \subseteq DOMAIN row
  /\ \A i \in DOMAIN owner : owner[i] \in [of: Assets, who: People, open: BOOLEAN, closed: Nat]
  /\ recorded \subseteq Assets \X Fields \X Words
  /\ \A x \in Clients : call[x].pc \in {"idle", "paused", "find", "write", "apply", "open", "answer", "refetch"}
  /\ \A p \in Pages :
       /\ form[p].of \in Assets \cup {None} /\ form[p].typed \subseteq DOMAIN form[p].vals
       /\ view[p] \in Texts /\ DOMAIN shown[p] \subseteq Texts /\ DOMAIN saved[p] \subseteq DOMAIN row
       /\ \A q \in DOMAIN shown[p] : Rows(shown[p][q].rows) /\ shown[p][q].valid \in BOOLEAN
       /\ \A q \in Texts : fetch[p][q].pc \in {"idle", "sent", "read"} /\ fetch[p][q].old \in BOOLEAN
  /\ meant \cup strayed \subseteq Assets \X Fields \X Values
  /\ calls \in 0 .. MaxCalls /\ reloads \in 0 .. MaxReloads /\ faults \in 0 .. MaxFaults

\* Two assets of a kind never have the same name, although both services that
\* create them have looked, before, and edits do not look at all.
NamesUnique ==
  \A a, b \in DOMAIN row :
    LET k == Key[KindOf[a]] IN
      KindOf[a] = KindOf[b] /\ row[a].vals[k] = row[b].vals[k] => a = b

\* Every value of an asset was entered for that asset, or is on its history of
\* recharges or metrics, or is a default: a form may bring an old value back
\* (it overwrites a recharge made meanwhile), but none of another asset, and
\* a recharge that is cut short is never on the card without being recorded.
\* The one way for a value to stray is a save made offline whose page turned to
\* another row before it was sent: it carries the old inputs to the new row.
ValuesStayWithAsset ==
  \A a \in DOMAIN row : \A f \in DOMAIN row[a].vals :
    \/ row[a].vals[f] \in {Null, "OK"}
    \/ a \in DOMAIN First /\ row[a].vals[f] = First[a][f]
    \/ <<a, f, row[a].vals[f]>> \in meant \cup recorded \cup strayed

\* No table that a page has for valid, in view or kept for another filter, has
\* a row in an older version than the page saved, whatever fetches overlapped
\* the save; unless it came with a fetch the save found under way and could not
\* cancel, the first one for its text or one for a text no longer in view.
NoStaleTable ==
  \A p \in Pages : \A q \in DOMAIN shown[p] :
    LET t == shown[p][q] IN
      t.valid /\ ~t.old =>
        \A a \in DOMAIN saved[p] \cap DOMAIN t.rows : t.rows[a].ver >= saved[p][a]

\* An asset has two open owners only if their transfers overlapped: a transfer
\* leaves none of the rows open that it found.
TransfersClose ==
  \A i, j \in DOMAIN owner :
    i < j /\ owner[i].of = owner[j].of /\ owner[i].open => i > owner[j].closed
=============================================================================
