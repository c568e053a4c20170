--------------------------- MODULE InventoryProofs ---------------------------
(***************************************************************************)
(* Theorems about the inventory, for every set of assets, pages and other  *)
(* clients, and any number of requests, reloads and faults.                *)
(***************************************************************************)
EXTENDS Inventory, SequenceTheorems, TLAPS

-----------------------------------------------------------------------------
(* The invariant. *)

\* v is a value for field f of asset a: its own, and nothing of another's.
Legit(a, f, v) ==
  \/ v \in {Null, "OK"}
  \/ a \in DOMAIN First /\ v = First[a][f]
  \/ <<a, f, v>> \in meant \cup recorded \cup strayed

RowsOK(r) == \A a \in DOMAIN r : \A f \in DOMAIN r[a].vals : Legit(a, f, r[a].vals[f])

\* What may be in a form that fills a field by itself.
Filled(of, f, v) == v \in {Blank, "OK"} \/ (of # None /\ Legit(of, f, v))

RowType(a) ==
  /\ DOMAIN row[a] = {"vals", "ver", "born"} /\ row[a].ver \in Nat
  /\ DOMAIN EmptyForm[KindOf[a]] \subseteq DOMAIN row[a].vals

RowInv ==
  /\ DOMAIN row \subseteq Assets /\ \A a \in DOMAIN row : RowType(a)
  /\ NamesUnique /\ RowsOK(row)

OwnerRow == [of: Assets \cup {None}, who: People \cup Words \cup {None},
             open: BOOLEAN, closed: Nat]

OwnerInv == owner \in Seq(OwnerRow) /\ TransfersClose

CallFields == {"op", "of", "dto", "typed", "with", "pc", "ver", "closed", "turned", "awaits"}

IsRequest(x, c) ==
  /\ DOMAIN c = CallFields
  /\ c.op \in Operations /\ c.of \in Assets \cup {None}
  /\ c.with \in People \cup Words \cup {None} /\ c.closed \in Nat /\ c.ver \in Nat
  /\ c.turned \in BOOLEAN
  /\ x \in Pages => c.op \in {"create", "update"}
  /\ x \in Pages /\ c.of # None => KindOf[c.of] = Shows[x]
  /\ c.of = None => x \in Pages /\ c.op = "create"

KindIn(x, c) == IF c.of # None THEN KindOf[c.of] ELSE Shows[x]

\* The fields of a request that nobody typed in are those of the asset, unless
\* the page has turned to another.
IsFilled(x, c) ==
  /\ c.op = "create" => Key[KindIn(x, c)] \in DOMAIN c.dto
  /\ c.turned = FALSE => \A f \in DOMAIN c.dto \ c.typed :
       /\ c.op = "create" => c.dto[f] = "OK"
       /\ c.op = "update" => Legit(c.of, f, c.dto[f])

\* A save made offline: it may still turn to another row.
IsPaused(x, c) ==
  /\ x \in Pages /\ c.turned = FALSE /\ c.op = OpFor(c.of) /\ Key[Shows[x]] \in DOMAIN c.dto

\* What was there when a transfer closed the open rows of its asset is closed.
HasClosed(c) ==
  /\ c.closed <= Len(owner)
  /\ \A i \in 1 .. c.closed : owner[i].of = c.of => ~owner[i].open

CallOK(x, c) == c # NoCall =>
  /\ IsRequest(x, c)
  /\ c.pc \in {"paused", "find", "write"} => IsFilled(x, c)
  /\ c.pc = "paused" => IsPaused(x, c)
  /\ c.op # "create" /\ c.pc \notin {"paused", "find"} => c.of \in DOMAIN row
  /\ c.pc \in {"answer", "refetch"} => x \in Pages /\ c.of \in DOMAIN row /\ c.ver <= row[c.of].ver
  /\ c.op = "recharge" /\ c.pc = "apply" => <<c.of, "packageType", c.with>> \in recorded
  /\ c.op = "telemetry" /\ c.pc = "apply" => <<c.of, "signal", c.with>> \in recorded
  /\ c.op = "transfer" /\ c.pc = "open" => HasClosed(c)

FormOK(p, fm) ==
  /\ DOMAIN fm = {"of", "vals", "typed"}
  /\ fm.of \in Assets \cup {None} /\ (fm.of # None => KindOf[fm.of] = Shows[p])
  /\ DOMAIN fm.vals = DOMAIN EmptyForm[Shows[p]]
  /\ \A f \in DOMAIN fm.vals \ fm.typed : Filled(fm.of, f, fm.vals[f])

\* A table that a page may show: rows of its kind, with values of their own.
IsTable(p, t) == RowsOK(t) /\ \A a \in DOMAIN t : /\ a \in DOMAIN row /\ KindOf[a] = Shows[p]
                                                  /\ DOMAIN t[a] = {"vals", "ver", "born"}
                                                  /\ DOMAIN EmptyForm[KindOf[a]] \subseteq DOMAIN t[a].vals

\* Table t is as new as the saves sv.
IsFresh(t, sv) == \A a \in DOMAIN sv \cap DOMAIN t : t[a].ver >= sv[a]

EntryOK(p, e, sv) ==
  /\ DOMAIN e = {"rows", "valid", "old"} /\ IsTable(p, e.rows)
  /\ e.valid # FALSE /\ e.old # TRUE => IsFresh(e.rows, sv)

FetchOK(p, fe, sv) ==
  /\ {"pc", "old"} \subseteq DOMAIN fe
  /\ fe.pc = "read" => /\ "rows" \in DOMAIN fe /\ IsTable(p, fe.rows)
                       /\ fe.old # TRUE => IsFresh(fe.rows, sv)

\* What a page has saved is stored.
SavesOK(p, sv) == \A a \in DOMAIN sv : /\ a \in DOMAIN row /\ KindOf[a] = Shows[p]
                                       /\ sv[a] \in Nat /\ sv[a] <= row[a].ver

TablesOK(p, v, t, fe, sv) ==
  /\ v \in Texts /\ DOMAIN t \subseteq Texts /\ DOMAIN fe = Texts /\ SavesOK(p, sv)
  /\ \A q \in DOMAIN t : EntryOK(p, t[q], sv)
  /\ \A q \in Texts : FetchOK(p, fe[q], sv)

TableOK(p) == TablesOK(p, view[p], shown[p], fetch[p], saved[p])

Domains ==
  /\ DOMAIN call = Clients /\ DOMAIN form = Pages /\ DOMAIN view = Pages
  /\ DOMAIN shown = Pages /\ DOMAIN fetch = Pages /\ DOMAIN saved = Pages

InventoryInv ==
  /\ Domains /\ RowInv /\ OwnerInv
  /\ \A x \in Clients : CallOK(x, call[x])
  /\ \A p \in Pages : FormOK(p, form[p]) /\ TableOK(p)

-----------------------------------------------------------------------------
(* Forms and rows of the three kinds. *)

LEMMA KindFacts ==
  ASSUME NEW k \in Kinds
  PROVE  /\ Key[k] \in DOMAIN EmptyForm[k] /\ Key[k] \notin {"signal", "packageType"}
         /\ \A f \in DOMAIN EmptyForm[k] : EmptyForm[k][f] \in {Blank, "OK"}
  <1>1. CASE k = "DEVICE"
    BY <1>1 DEF Key, EmptyForm, DeviceForm
  <1>2. CASE k = "SIM"
    BY <1>2 DEF Key, EmptyForm, SimForm
  <1>3. CASE k = "ROUTER"
    BY <1>3 DEF Key, EmptyForm, RouterForm
  <1>4. QED BY <1>1, <1>2, <1>3 DEF Kinds

LEMMA NewRowFacts ==
  ASSUME NEW k \in Kinds, NEW dto, Key[k] \in DOMAIN dto
  PROVE  LET r == NewRow(k, dto) IN
           /\ DOMAIN EmptyForm[k] \subseteq DOMAIN r /\ r[Key[k]] = dto[Key[k]]
           /\ \A f \in DOMAIN r : r[f] \in {Null, "OK"} \/ (f \in DOMAIN dto /\ r[f] = dto[f])
  <1>1. CASE k = "DEVICE"
    BY <1>1 DEF Key, EmptyForm, DeviceForm, NewRow, DeviceRow, Given
  <1>2. CASE k = "SIM"
    BY <1>2 DEF Key, EmptyForm, SimForm, NewRow, SimRow, Given
  <1>3. CASE k = "ROUTER"
    BY <1>3 DEF Key, EmptyForm, RouterForm, NewRow, RouterRow, Given
  <1>4. QED BY <1>1, <1>2, <1>3 DEF Kinds

-----------------------------------------------------------------------------
(* What other steps leave of a request, a form and a table. *)

Grows ==
  /\ DOMAIN row \subseteq DOMAIN row'
  /\ \A a \in DOMAIN row : row[a].ver \in Nat /\ row'[a].ver \in Nat /\ row[a].ver <= row'[a].ver
  /\ meant \subseteq meant' /\ recorded \subseteq recorded' /\ strayed \subseteq strayed'
  /\ Len(owner) \in Nat /\ Len(owner') \in Nat /\ Len(owner) <= Len(owner')
  /\ \A i \in 1 .. Len(owner) : owner'[i].of = owner[i].of /\ (owner'[i].open => owner[i].open)

\* What is legitimate after the step.
LegitNext(a, f, v) ==
  \/ v \in {Null, "OK"}
  \/ a \in DOMAIN First /\ v = First[a][f]
  \/ <<a, f, v>> \in meant' \cup recorded' \cup strayed'

LEMMA LegitKept ==
  ASSUME Grows, NEW a, NEW f, NEW v, Legit(a, f, v)
  PROVE  Legit(a, f, v)'
  BY DEF Grows, Legit

LEMMA StaysLegit ==
  ASSUME meant \subseteq meant', recorded \subseteq recorded', strayed \subseteq strayed',
         NEW a, NEW f, NEW v, Legit(a, f, v)
  PROVE  LegitNext(a, f, v)
  BY DEF Legit, LegitNext

LEMMA RowsNext ==
  ASSUME \A a \in DOMAIN row' : \A f \in DOMAIN row'[a].vals : LegitNext(a, f, row'[a].vals[f])
  PROVE  RowsOK(row)'
  BY DEF RowsOK, Legit, LegitNext

LEMMA CallKept ==
  ASSUME Grows, NEW x, NEW c, CallOK(x, c)
  PROVE  CallOK(x, c)'
  <1> SUFFICES ASSUME c # NoCall
               PROVE  CallOK(x, c)'
    BY DEF CallOK
  <1>1. IsRequest(x, c) /\ IsRequest(x, c)'
    BY DEF CallOK, IsRequest
  <1>2. /\ c.pc \in {"paused", "find", "write"} => IsFilled(x, c)'
        /\ c.pc = "paused" => IsPaused(x, c)'
    <2>1. IsFilled(x, c) => IsFilled(x, c)'
      BY LegitKept DEF IsFilled, KindIn
    <2>2. IsPaused(x, c) => IsPaused(x, c)'
      BY DEF IsPaused, OpFor
    <2>3. QED BY <2>1, <2>2 DEF CallOK
  <1>3. c.op = "transfer" /\ c.pc = "open" => HasClosed(c)'
    <2> SUFFICES ASSUME HasClosed(c)
                 PROVE  HasClosed(c)'
      BY DEF CallOK
    <2>1. c.closed \in Nat
      BY <1>1 DEF IsRequest
    <2>2. QED BY <2>1 DEF HasClosed, Grows
  <1>4. c.op # "create" /\ c.pc \notin {"paused", "find"} => c.of \in DOMAIN row'
    BY DEF CallOK, Grows
  <1>5. c.pc \in {"answer", "refetch"} =>
          x \in Pages /\ c.of \in DOMAIN row' /\ c.ver <= row'[c.of].ver
    <2> SUFFICES ASSUME c.pc \in {"answer", "refetch"}
                 PROVE  x \in Pages /\ c.of \in DOMAIN row' /\ c.ver <= row'[c.of].ver
      OBVIOUS
    <2>1. x \in Pages /\ c.of \in DOMAIN row /\ c.ver <= row[c.of].ver /\ c.ver \in Nat
      BY <1>1 DEF CallOK, IsRequest
    <2>2. QED BY <2>1 DEF Grows
  <1>6. /\ c.op = "recharge" /\ c.pc = "apply" => <<c.of, "packageType", c.with>> \in recorded'
        /\ c.op = "telemetry" /\ c.pc = "apply" => <<c.of, "signal", c.with>> \in recorded'
    BY DEF CallOK, Grows
  <1>7. QED BY <1>1, <1>2, <1>3, <1>4, <1>5, <1>6 DEF CallOK

LEMMA FormKept ==
  ASSUME Grows, NEW p, NEW fm, FormOK(p, fm)
  PROVE  FormOK(p, fm)'
  BY LegitKept DEF FormOK, Filled

LEMMA IsTableKept ==
  ASSUME Grows, NEW p, NEW t, IsTable(p, t)
  PROVE  IsTable(p, t)'
  <1>1. RowsOK(t)'
    BY LegitKept DEF IsTable, RowsOK
  <1>2. QED BY <1>1 DEF IsTable, Grows

LEMMA TableKept ==
  ASSUME Grows, NEW p, NEW v, NEW t, NEW fe, NEW sv, TablesOK(p, v, t, fe, sv)
  PROVE  TablesOK(p, v, t, fe, sv)'
  <1>1. ASSUME NEW e, EntryOK(p, e, sv) PROVE EntryOK(p, e, sv)'
    <2>1. PICK r : r = e.rows
      OBVIOUS
    <2>2. IsTable(p, r)'
      BY <1>1, <2>1, IsTableKept DEF EntryOK
    <2>3. QED BY <1>1, <2>1, <2>2 DEF EntryOK, IsFresh
  <1>2. ASSUME NEW f, FetchOK(p, f, sv) PROVE FetchOK(p, f, sv)'
    <2>1. PICK r : r = f.rows
      OBVIOUS
    <2>2. f.pc = "read" => IsTable(p, r)'
      BY <1>2, <2>1, IsTableKept DEF FetchOK
    <2>3. QED BY <1>2, <2>1, <2>2 DEF FetchOK, IsFresh
  <1>3. SavesOK(p, sv)'
    <2> SUFFICES ASSUME NEW a \in DOMAIN sv
                 PROVE  a \in DOMAIN row' /\ KindOf[a] = Shows[p] /\ sv[a] \in Nat /\ sv[a] <= row'[a].ver
      BY DEF SavesOK
    <2>1. a \in DOMAIN row /\ KindOf[a] = Shows[p] /\ sv[a] \in Nat /\ sv[a] <= row[a].ver
      BY DEF TablesOK, SavesOK
    <2>2. QED BY <2>1 DEF Grows
  <1>4. QED BY <1>1, <1>2, <1>3 DEF TablesOK, Texts

LEMMA TablesGrow ==
  ASSUME InventoryInv, UNCHANGED <<row, owner>>, recorded \subseteq recorded',
         meant \subseteq meant', strayed \subseteq strayed'
  PROVE  Grows /\ RowInv' /\ OwnerInv'
  <1>1. Len(owner) \in Nat
    BY DEF InventoryInv, OwnerInv
  <1>2. Grows
    BY <1>1 DEF InventoryInv, RowInv, RowType, Grows
  <1>3. RowsOK(row)'
    BY <1>2, LegitKept DEF InventoryInv, RowInv, RowsOK
  <1>4. RowInv'
    BY <1>3 DEF InventoryInv, RowInv, RowType, NamesUnique
  <1>5. OwnerInv'
    BY DEF InventoryInv, OwnerInv, TransfersClose
  <1>6. QED BY <1>2, <1>4, <1>5

LEMMA TablesSame ==
  ASSUME InventoryInv, UNCHANGED <<tables, entered>>
  PROVE  Grows /\ RowInv' /\ OwnerInv'
  BY TablesGrow DEF tables, entered

\* A request, a form and the tables of a page that a step gives or leaves.
LEMMA CallAfter ==
  ASSUME Grows, NEW x, NEW c, CallOK(x, c), call'[x] = c
  PROVE  CallOK(x, call[x])'
  <1>1. CallOK(x, c)'
    BY CallKept
  <1>2. QED BY <1>1

LEMMA FormAfter ==
  ASSUME Grows, NEW p, NEW fm, FormOK(p, fm), form'[p] = fm
  PROVE  FormOK(p, form[p])'
  <1>1. FormOK(p, fm)'
    BY FormKept
  <1>2. QED BY <1>1

LEMMA TableAfter ==
  ASSUME Grows, NEW p, NEW v, NEW t, NEW fe, NEW sv, TablesOK(p, v, t, fe, sv),
         view'[p] = v, shown'[p] = t, fetch'[p] = fe, saved'[p] = sv
  PROVE  TableOK(p)'
  <1>1. TablesOK(p, v, t, fe, sv)'
    BY TableKept
  <1>2. QED BY <1>1 DEF TableOK

LEMMA TableSame ==
  ASSUME Grows, NEW p, TableOK(p),
         view'[p] = view[p], shown'[p] = shown[p], fetch'[p] = fetch[p], saved'[p] = saved[p]
  PROVE  TableOK(p)'
  <1>1. PICK v, t, fe, sv : v = view[p] /\ t = shown[p] /\ fe = fetch[p] /\ sv = saved[p]
    OBVIOUS
  <1>2. TablesOK(p, v, t, fe, sv)
    BY <1>1 DEF TableOK
  <1>3. QED BY <1>1, <1>2, TableAfter

\* A page's own step: its request, form and tables, and nobody else's.
LEMMA PageStep ==
  ASSUME InventoryInv, NEW p \in Pages, NEW c, CallOK(p, c), NEW fm, FormOK(p, fm),
         NEW v, NEW t, NEW fe, NEW sv, TablesOK(p, v, t, fe, sv),
         Domains', call'[p] = c, form'[p] = fm,
         view'[p] = v, shown'[p] = t, fetch'[p] = fe, saved'[p] = sv,
         \A y \in Clients \ {p} : call'[y] = call[y],
         \A q \in Pages \ {p} : /\ form'[q] = form[q] /\ view'[q] = view[q] /\ shown'[q] = shown[q]
                                /\ fetch'[q] = fetch[q] /\ saved'[q] = saved[q],
         UNCHANGED <<tables, entered>>
  PROVE  InventoryInv'
  <1>1. Grows /\ RowInv' /\ OwnerInv'
    BY TablesSame
  <1>2. ASSUME NEW y \in Clients PROVE CallOK(y, call[y])'
    BY <1>1, CallAfter DEF InventoryInv
  <1>3. ASSUME NEW q \in Pages PROVE FormOK(q, form[q])'
    BY <1>1, FormAfter DEF InventoryInv
  <1>4. ASSUME NEW q \in Pages PROVE TableOK(q)'
    BY <1>1, TableAfter, TableSame DEF InventoryInv
  <1>5. QED BY <1>1, <1>2, <1>3, <1>4 DEF InventoryInv

LEMMA FormStep ==
  ASSUME InventoryInv, NEW p \in Pages, NEW fm, FormOK(p, fm), form' = [form EXCEPT ![p] = fm],
         UNCHANGED <<tables, call, table, entered, saved>>
  PROVE  InventoryInv'
  <1>1. Grows /\ RowInv' /\ OwnerInv'
    BY TablesSame
  <1>2. Domains' /\ UNCHANGED <<view, shown, fetch>>
    BY DEF InventoryInv, Domains, table
  <1>3. ASSUME NEW x \in Clients PROVE CallOK(x, call[x])'
    BY <1>1, CallAfter DEF InventoryInv
  <1>4. ASSUME NEW q \in Pages PROVE FormOK(q, form[q])'
    BY <1>1, FormAfter DEF InventoryInv, Domains
  <1>5. ASSUME NEW q \in Pages PROVE TableOK(q)'
    BY <1>1, <1>2, TableSame DEF InventoryInv
  <1>6. QED BY <1>1, <1>2, <1>3, <1>4, <1>5 DEF InventoryInv

LEMMA ServeStep ==
  ASSUME InventoryInv, NEW x \in Clients, NEW c, call' = [call EXCEPT ![x] = c], CallOK(x, c)',
         Grows, RowInv', OwnerInv', UNCHANGED <<form, table, saved>>
  PROVE  InventoryInv'
  <1>1. Domains' /\ UNCHANGED <<view, shown, fetch>>
    BY DEF InventoryInv, Domains, table
  <1>2. ASSUME NEW y \in Clients PROVE CallOK(y, call[y])'
    <2>1. CASE y = x
      <3>1. call'[y] = c
        BY <2>1 DEF InventoryInv, Domains
      <3>2. QED BY <2>1, <3>1
    <2>2. CASE y # x
      BY <2>2, CallAfter DEF InventoryInv, Domains
    <2>3. QED BY <2>1, <2>2
  <1>3. ASSUME NEW p \in Pages PROVE FormOK(p, form[p])'
    BY FormAfter DEF InventoryInv
  <1>4. ASSUME NEW p \in Pages PROVE TableOK(p)'
    BY <1>1, TableSame DEF InventoryInv
  <1>5. QED BY <1>1, <1>2, <1>3, <1>4 DEF InventoryInv

-----------------------------------------------------------------------------
(* The form of a page. *)

\* What a page displays is one of its tables, or nothing.
LEMMA DisplayedTable ==
  ASSUME InventoryInv, NEW p \in Pages, NEW a \in DOMAIN Displayed(p)
  PROVE  IsTable(p, Displayed(p)) /\ view[p] \in DOMAIN shown[p]
  <1>1. view[p] \in DOMAIN shown[p]
    BY DEF Displayed
  <1>2. EntryOK(p, shown[p][view[p]], saved[p])
    BY <1>1 DEF InventoryInv, TableOK, TablesOK
  <1>3. QED BY <1>1, <1>2 DEF Displayed, EntryOK

LEMMA EditOK ==
  ASSUME InventoryInv, NEW p \in Pages, NEW a \in Assets, Edit(p, a)
  PROVE  InventoryInv'
  <1> DEFINE vals == Displayed(p)[a].vals
             fm == [of |-> a, vals |-> FormOf(Shows[p], vals), typed |-> {}]
  <1>1. a \in DOMAIN Displayed(p) /\ IsTable(p, Displayed(p)) /\ Shows[p] \in Kinds
    BY InventoryConstantsOK, DisplayedTable DEF Edit
  <1>2. KindOf[a] = Shows[p] /\ a # None
    BY <1>1, InventoryConstantsOK DEF IsTable
  <1>3. \A f \in DOMAIN EmptyForm[Shows[p]] : Legit(a, f, vals[f])
    BY <1>1, <1>2 DEF IsTable, RowsOK
  <1>4. \A f \in DOMAIN EmptyForm[Shows[p]] : Filled(a, f, FormOf(Shows[p], vals)[f])
    BY <1>1, <1>2, <1>3, KindFacts DEF FormOf, Filled
  <1>5. DOMAIN FormOf(Shows[p], vals) = DOMAIN EmptyForm[Shows[p]]
    BY DEF FormOf
  <1>6. FormOK(p, fm)
    BY <1>2, <1>4, <1>5 DEF FormOK
  <1>7. QED BY <1>6, FormStep DEF Edit

LEMMA CleanOK ==
  ASSUME NEW p \in Pages
  PROVE  FormOK(p, Clean(p))
  BY InventoryConstantsOK, KindFacts DEF FormOK, Clean, Filled

LEMMA CancelEditOK ==
  ASSUME InventoryInv, NEW p \in Pages, CancelEdit(p)
  PROVE  InventoryInv'
  <1>1. FormOK(p, Clean(p))
    BY CleanOK
  <1>2. PICK fm : fm = Clean(p)
    OBVIOUS
  <1>3. QED BY <1>1, <1>2, FormStep DEF CancelEdit

LEMMA UpdateFieldOK ==
  ASSUME InventoryInv, NEW p \in Pages, NEW f \in DOMAIN form[p].vals, NEW v, UpdateField(p, f, v)
  PROVE  InventoryInv'
  <1> DEFINE old == form[p]
             fm == [old EXCEPT !.vals = [old.vals EXCEPT ![f] = v], !.typed = old.typed \cup {f}]
  <1>1. FormOK(p, old)
    BY DEF InventoryInv
  <1>2. DOMAIN fm = {"of", "vals", "typed"} /\ fm.of = old.of
        /\ fm.vals = [old.vals EXCEPT ![f] = v] /\ fm.typed = old.typed \cup {f}
    BY <1>1 DEF FormOK
  <1>3. FormOK(p, fm)
    BY <1>1, <1>2 DEF FormOK
  <1>4. form' = [form EXCEPT ![p] = fm]
    BY <1>1 DEF UpdateField, InventoryInv, Domains, FormOK
  <1> HIDE DEF fm
  <1>5. QED BY <1>3, <1>4, FormStep DEF UpdateField

-----------------------------------------------------------------------------
(* Requests begin, are checked, and end. *)

\* A step of a request that leaves the tables as they are.
LEMMA QuietStep ==
  ASSUME InventoryInv, NEW x \in Clients, NEW c, call' = [call EXCEPT ![x] = c], CallOK(x, c),
         UNCHANGED <<tables, form, table, entered, saved>>
  PROVE  InventoryInv'
  <1>1. Grows /\ RowInv' /\ OwnerInv'
    BY TablesSame
  <1>2. QED BY <1>1, CallKept, ServeStep

LEMMA NoCallOK ==
  ASSUME NEW x
  PROVE  CallOK(x, NoCall) /\ NoCall.pc = "idle"
  BY DEF CallOK, NoCall

LEMMA CallOf ==
  ASSUME InventoryInv, NEW x \in Clients
  PROVE  CallOK(x, call[x]) /\ (call[x].pc # "idle" => IsRequest(x, call[x]))
  BY NoCallOK DEF InventoryInv, CallOK

LEMMA EndOK ==
  ASSUME InventoryInv, NEW x \in Clients, End(x),
         UNCHANGED <<tables, form, table, entered, saved>>
  PROVE  InventoryInv'
  <1>1. PICK c : c = NoCall
    OBVIOUS
  <1>2. CallOK(x, c)
    BY <1>1, NoCallOK
  <1>3. QED BY <1>1, <1>2, QuietStep DEF End

LEMMA SaveOK ==
  ASSUME InventoryInv, NEW p \in Pages, Save(p)
  PROVE  InventoryInv'
  <1>1. PICK pc \in {"find", "paused"} :
          Begin(p, pc, OpFor(form[p].of), form[p].of, Payload(form[p].vals), form[p].typed, None)
    BY DEF Save
  <1> DEFINE fm == form[p]
             dto == Payload(fm.vals)
             c == [op |-> OpFor(fm.of), of |-> fm.of, dto |-> dto, typed |-> fm.typed,
                   with |-> None, pc |-> pc, ver |-> 0, closed |-> 0,
                   turned |-> FALSE, awaits |-> Blank]
  <1>2. FormOK(p, fm) /\ p \in Clients /\ Shows[p] \in Kinds
    BY InventoryConstantsOK DEF InventoryInv, Clients
  <1>3. /\ call' = [call EXCEPT ![p] = c]
        /\ fm.vals[Key[Shows[p]]] # Blank /\ UNCHANGED <<tables, form, table, entered, saved>>
    BY <1>1 DEF Save, Begin, CanSave
  <1>4. Key[Shows[p]] \in DOMAIN fm.vals
    BY <1>2, KindFacts DEF FormOK
  <1>5. Key[Shows[p]] \in DOMAIN dto
    BY <1>3, <1>4 DEF Payload
  <1>6. \A f \in DOMAIN dto : f \in DOMAIN fm.vals /\ dto[f] = fm.vals[f] /\ dto[f] # Blank
    BY DEF Payload
  <1>7. IsRequest(p, c)
    BY <1>2 DEF FormOK, IsRequest, CallFields, Operations, OpFor
  <1> HIDE DEF dto
  <1>8. IsFilled(p, c)
    <2>1. CASE fm.of = None
      <3>1. \A f \in DOMAIN dto \ fm.typed : dto[f] = "OK"
        BY <1>2, <1>6, <2>1 DEF FormOK, Filled
      <3>2. QED BY <1>5, <2>1, <3>1 DEF IsFilled, KindIn, OpFor
    <2>2. CASE fm.of # None
      <3>1. \A f \in DOMAIN dto \ fm.typed : Legit(fm.of, f, dto[f])
        BY <1>2, <1>6 DEF FormOK, Filled, Legit
      <3>2. QED BY <2>2, <3>1 DEF IsFilled, OpFor
    <2>3. QED BY <2>1, <2>2
  <1>9. IsPaused(p, c)
    BY <1>5 DEF IsPaused
  <1>10. CallOK(p, c)
    BY <1>7, <1>8, <1>9 DEF CallOK
  <1> HIDE DEF c
  <1>11. QED BY <1>2, <1>3, <1>10, QuietStep

\* A paused save that turns to another row keeps its inputs.
LEMMA ResumeOK ==
  ASSUME InventoryInv, NEW p \in Pages, Resume(p)
  PROVE  InventoryInv'
  <1>1. /\ call[p].pc = "paused" /\ p \in Clients
        /\ UNCHANGED <<tables, form, table, entered, saved>>
    BY DEF Resume, Clients
  <1>2. CASE End(p)
    BY <1>1, <1>2, EndOK
  <1>3. CASE call' = [call EXCEPT ![p].pc = "find", ![p].op = OpFor(Target(p)), ![p].of = Target(p),
                                  ![p].turned = Target(p) # call[p].of]
    <2> DEFINE old == call[p]
               of == Target(p)
               c == [old EXCEPT !.pc = "find", !.op = OpFor(of), !.of = of, !.turned = of # old.of]
    <2>1. CallOK(p, old) /\ IsRequest(p, old) /\ old # NoCall
      BY <1>1, CallOf DEF NoCall
    <2>2. IsFilled(p, old) /\ IsPaused(p, old)
      BY <1>1, <2>1 DEF CallOK
    <2>3. /\ DOMAIN c = DOMAIN old /\ c.pc = "find" /\ c.op = OpFor(of) /\ c.of = of
          /\ c.dto = old.dto /\ c.typed = old.typed /\ c.with = old.with
          /\ c.closed = old.closed /\ c.ver = old.ver /\ c.turned = (of # old.of)
      BY <2>1 DEF IsRequest, CallFields
    <2>4. call' = [call EXCEPT ![p] = c]
      BY <1>1, <1>3, <2>1 DEF InventoryInv, Domains, IsRequest, CallFields
    <2>5. of \in Assets \cup {None} /\ (of # None => KindOf[of] = Shows[p])
      BY DEF InventoryInv, FormOK, Target
    <2> HIDE DEF c, of
    <2>6. IsRequest(p, c)
      BY <1>1, <2>1, <2>3, <2>5 DEF IsRequest, OpFor, Operations
    <2>7. IsFilled(p, c)
      <3>1. c.op = "create" => Key[KindIn(p, c)] \in DOMAIN c.dto
        BY <2>2, <2>3 DEF IsPaused, KindIn, OpFor
      <3>2. c.turned = FALSE => c.op = old.op /\ c.of = old.of /\ old.turned = FALSE
        BY <2>2, <2>3 DEF IsPaused
      <3>3. QED BY <2>2, <2>3, <3>1, <3>2 DEF IsFilled
    <2>8. CallOK(p, c)
      BY <2>3, <2>6, <2>7 DEF CallOK
    <2>9. QED BY <1>1, <2>4, <2>8, QuietStep
  <1>4. QED BY <1>2, <1>3 DEF Resume

LEMMA AskOK ==
  ASSUME InventoryInv, NEW x \in Callers, Ask(x)
  PROVE  InventoryInv'
  <1>1. PICK g \in May[x] : Begin(x, "find", g.op, g.of, g.dto, DOMAIN g.dto, g.with)
    BY DEF Ask
  <1> DEFINE c == [op |-> g.op, of |-> g.of, dto |-> g.dto, typed |-> DOMAIN g.dto,
                   with |-> g.with, pc |-> "find", ver |-> 0, closed |-> 0,
                   turned |-> FALSE, awaits |-> Blank]
  <1>2. /\ call[x] = NoCall /\ call' = [call EXCEPT ![x] = c]
        /\ UNCHANGED <<tables, form, table, entered, saved>>
    BY <1>1 DEF Ask, Begin
  <1>3. IsGoal(g) /\ x \in Clients /\ x \notin Pages /\ None \notin Assets
    BY InventoryConstantsOK DEF Clients
  <1>4. IsRequest(x, c)
    BY <1>3 DEF IsGoal, IsRequest, CallFields
  <1>5. IsFilled(x, c)
    BY <1>3 DEF IsGoal, IsFilled, KindIn
  <1>6. CallOK(x, c)
    BY <1>4, <1>5 DEF CallOK
  <1> HIDE DEF c
  <1>7. QED BY <1>2, <1>3, <1>6, QuietStep

LEMMA FindOK ==
  ASSUME InventoryInv, NEW x \in Clients, Find(x)
  PROVE  InventoryInv'
  <1>1. call[x].pc = "find" /\ UNCHANGED <<tables, form, table, entered, saved>>
    BY DEF Find
  <1>2. CASE End(x)
    BY <1>1, <1>2, EndOK
  <1>3. CASE Goto(x, "write") /\ (call[x].op = "create" \/ call[x].of \in DOMAIN row)
    <2> DEFINE old == call[x]
               c == [old EXCEPT !.pc = "write"]
    <2>1. CallOK(x, old) /\ IsRequest(x, old)
      BY <1>1, CallOf
    <2>2. old # NoCall
      BY <1>1 DEF NoCall
    <2>3. /\ DOMAIN c = DOMAIN old /\ c.pc = "write" /\ c.op = old.op /\ c.of = old.of
          /\ c.dto = old.dto /\ c.typed = old.typed /\ c.with = old.with
          /\ c.closed = old.closed /\ c.ver = old.ver /\ c.turned = old.turned
      BY <2>1 DEF IsRequest, CallFields
    <2>4. call' = [call EXCEPT ![x] = c]
      BY <1>3 DEF Goto
    <2> HIDE DEF c
    <2>5. IsRequest(x, c)
      BY <2>1, <2>3 DEF IsRequest
    <2>6. IsFilled(x, c)
      BY <1>1, <2>1, <2>2, <2>3 DEF CallOK, IsFilled, KindIn
    <2>7. CallOK(x, c)
      BY <1>3, <2>3, <2>5, <2>6 DEF CallOK
    <2>8. QED BY <1>1, <2>3, <2>4, <2>7, QuietStep
  <1>4. QED BY <1>2, <1>3 DEF Find

LEMMA LoseOK ==
  ASSUME InventoryInv, NEW x \in Clients, Lose(x)
  PROVE  InventoryInv'
  BY EndOK DEF Lose

-----------------------------------------------------------------------------
(* Rows are inserted and written. *)

LEMMA GoesTo ==
  ASSUME NEW x, NEW c, IsRequest(x, c), NEW pc
  PROVE  LET new == [c EXCEPT !.pc = pc] IN
           /\ IsRequest(x, new) /\ new.pc = pc /\ new.op = c.op /\ new.of = c.of
           /\ new.with = c.with /\ new.closed = c.closed
  <1> DEFINE new == [c EXCEPT !.pc = pc]
  <1>1. /\ DOMAIN new = DOMAIN c /\ new.pc = pc /\ new.op = c.op /\ new.of = c.of
        /\ new.with = c.with /\ new.closed = c.closed /\ new.ver = c.ver /\ new.turned = c.turned
    BY DEF IsRequest, CallFields
  <1>2. QED BY <1>1 DEF IsRequest

\* A step that ends a request and changes the tables.
LEMMA EndStep ==
  ASSUME InventoryInv, NEW x \in Clients, End(x),
         Grows, RowInv', OwnerInv', UNCHANGED <<form, table, saved>>
  PROVE  InventoryInv'
  <1>1. PICK c : c = NoCall
    OBVIOUS
  <1>2. CallOK(x, c)'
    BY <1>1, NoCallOK DEF CallOK
  <1>3. QED BY <1>1, <1>2, ServeStep DEF End

LEMMA AnswerStep ==
  ASSUME InventoryInv, NEW x \in Clients, call[x].pc = "write", call[x].op \in {"create", "update"},
         NEW a \in DOMAIN row', NEW ver \in Nat, ver <= row'[a].ver, KindOf[a] = KindFor(x), a # None,
         Answer(x, a, ver), Grows, RowInv', OwnerInv', UNCHANGED <<form, table, saved>>
  PROVE  InventoryInv'
  <1>1. CASE x \notin Pages
    BY <1>1, EndStep DEF Answer
  <1>2. CASE x \in Pages
    <2> DEFINE old == call[x]
               c == [old EXCEPT !.pc = "answer", !.of = a, !.ver = ver]
    <2>1. IsRequest(x, old)
      BY CallOf
    <2>2. /\ DOMAIN c = DOMAIN old /\ c.pc = "answer" /\ c.op = old.op /\ c.of = a
          /\ c.with = old.with /\ c.closed = old.closed /\ c.ver = ver /\ c.turned = old.turned
      BY <2>1 DEF IsRequest, CallFields
    <2>3. call' = [call EXCEPT ![x] = c]
      <3>1. call' = [call EXCEPT ![x].pc = "answer", ![x].of = a, ![x].ver = ver]
        BY <1>2 DEF Answer
      <3>2. DOMAIN call = Clients
        BY DEF InventoryInv, Domains
      <3>3. QED BY <2>1, <3>1, <3>2 DEF IsRequest, CallFields
    <2> HIDE DEF c
    <2>4. a \in Assets /\ KindOf[a] = Shows[x]
      BY <1>2, <2>1 DEF RowInv, KindFor, IsRequest
    <2>5. IsRequest(x, c)
      BY <2>1, <2>2, <2>4 DEF IsRequest
    <2>6. PICK d : d = c
      OBVIOUS
    <2>7. IsRequest(x, d)' /\ d.op \in {"create", "update"}
      BY <2>2, <2>5, <2>6 DEF IsRequest
    <2>8. CallOK(x, d)'
      BY <1>2, <2>2, <2>6, <2>7 DEF CallOK
    <2>9. QED BY <2>2, <2>3, <2>6, <2>8, ServeStep
  <1>3. QED BY <1>1, <1>2

LEMMA KeyOf ==
  ASSUME RowInv, NEW a \in DOMAIN row
  PROVE  /\ a \in Assets /\ KindOf[a] \in Kinds /\ RowType(a)
         /\ Key[KindOf[a]] \in DOMAIN row[a].vals
  BY InventoryConstantsOK, KindFacts DEF RowInv, RowType

LEMMA WriteStep ==
  ASSUME InventoryInv, NEW a \in DOMAIN row, NEW vals, DOMAIN vals = DOMAIN row[a].vals,
         row' = Written(a, vals), owner' = owner, recorded \subseteq recorded',
         meant \subseteq meant', strayed \subseteq strayed',
         \A f \in DOMAIN vals : LegitNext(a, f, vals[f]),
         \A b \in DOMAIN row \ {a} : KindOf[b] = KindOf[a] =>
           row[b].vals[Key[KindOf[a]]] # vals[Key[KindOf[a]]]
  PROVE  /\ Grows /\ RowInv' /\ OwnerInv'
         /\ a \in DOMAIN row' /\ row'[a].ver = row[a].ver + 1 /\ row[a].ver \in Nat
  <1>1. RowInv /\ OwnerInv /\ RowType(a)
    BY DEF InventoryInv, RowInv
  <1>2. /\ DOMAIN row' = DOMAIN row /\ DOMAIN row'[a] = {"vals", "ver", "born"}
        /\ row'[a].vals = vals /\ row'[a].ver = row[a].ver + 1
        /\ \A b \in DOMAIN row \ {a} : row'[b] = row[b]
    BY <1>1 DEF Written, RowType
  <1>3. Grows
    BY <1>1, <1>2 DEF Grows, RowInv, RowType, OwnerInv
  <1>4. \A b \in DOMAIN row' : RowType(b)'
    BY <1>1, <1>2 DEF RowInv, RowType
  <1>5. RowsOK(row)'
    <2> SUFFICES ASSUME NEW b \in DOMAIN row', NEW f \in DOMAIN row'[b].vals
                 PROVE  LegitNext(b, f, row'[b].vals[f])
      BY RowsNext
    <2>1. CASE b = a
      BY <1>2, <2>1
    <2>2. CASE b # a
      <3>1. row'[b] = row[b] /\ b \in DOMAIN row
        BY <1>2, <2>2
      <3>2. Legit(b, f, row[b].vals[f])
        BY <1>1, <3>1 DEF RowInv, RowsOK
      <3>3. QED BY <3>1, <3>2, StaysLegit
    <2>3. QED BY <2>1, <2>2
  <1>6. NamesUnique'
    BY <1>1, <1>2 DEF RowInv, NamesUnique
  <1>7. OwnerInv'
    BY <1>1 DEF OwnerInv, TransfersClose
  <1>8. QED BY <1>1, <1>2, <1>3, <1>4, <1>5, <1>6, <1>7 DEF RowInv, RowType

LEMMA UpdateOK ==
  ASSUME InventoryInv, NEW x \in Clients, Update(x)
  PROVE  InventoryInv'
  <1>1. PICK c, a : c = call[x] /\ a = c.of
    OBVIOUS
  <1>2. /\ c.op = "update" /\ c.pc = "write" /\ UNCHANGED <<owner, recorded, form, table, saved>>
    BY <1>1 DEF Update, At
  <1>3. IsRequest(x, c) /\ CallOK(x, c) /\ c # NoCall
    BY <1>1, <1>2, CallOf DEF NoCall
  <1>4. /\ a \in DOMAIN row /\ a # None
        /\ c.turned = FALSE => \A f \in DOMAIN c.dto \ c.typed : Legit(a, f, c.dto[f])
    BY <1>1, <1>2, <1>3 DEF CallOK, IsRequest, IsFilled
  <1>5. CASE End(x) /\ UNCHANGED <<row, entered>>
    BY <1>1, <1>2, <1>5, TablesGrow, EndStep DEF entered
  <1> DEFINE vals == Merge(row[a].vals, c.dto)
  <1>6. CASE /\ IsFree(KindOf[a], c.dto, a) /\ row' = Written(a, vals)
             /\ Means(a, x) /\ Answer(x, a, row[a].ver + 1)
    <2>1. /\ meant \subseteq meant' /\ strayed \subseteq strayed'
          /\ c.turned = FALSE => \A f \in c.typed \cap DOMAIN c.dto : <<a, f, c.dto[f]>> \in meant'
          /\ c.turned = TRUE => \A f \in DOMAIN c.dto : <<a, f, c.dto[f]>> \in strayed'
      BY <1>1, <1>6 DEF Means, Brings
    <2>2. DOMAIN vals = DOMAIN row[a].vals
          /\ \A f \in DOMAIN vals : vals[f] = IF f \in DOMAIN c.dto THEN c.dto[f] ELSE row[a].vals[f]
      BY DEF Merge, Given
    <2> HIDE DEF vals
    <2>3. ASSUME NEW f \in DOMAIN vals PROVE LegitNext(a, f, vals[f])
      <3>1. CASE f \in DOMAIN c.dto /\ (c.turned = TRUE \/ f \in c.typed)
        BY <1>3, <2>1, <2>2, <3>1 DEF LegitNext, IsRequest
      <3>2. CASE f \in DOMAIN c.dto /\ c.turned = FALSE /\ f \notin c.typed
        BY <1>2, <1>4, <2>1, <2>2, <3>2, StaysLegit
      <3>3. CASE f \notin DOMAIN c.dto
        <4>1. Legit(a, f, vals[f])
          BY <1>4, <2>2, <3>3 DEF InventoryInv, RowInv, RowsOK
        <4>2. QED BY <1>2, <2>1, <4>1, StaysLegit
      <3>4. QED BY <1>3, <3>1, <3>2, <3>3 DEF IsRequest
    <2>4. ASSUME NEW b \in DOMAIN row \ {a}, KindOf[b] = KindOf[a]
          PROVE  row[b].vals[Key[KindOf[a]]] # vals[Key[KindOf[a]]]
      <3> DEFINE k == Key[KindOf[a]]
      <3>1. k \in DOMAIN vals /\ RowInv
        BY <1>4, <2>2, KeyOf DEF InventoryInv
      <3>2. CASE k \in DOMAIN c.dto
        <4>1. b \notin Clashes(KindOf[a], c.dto, a)
          BY <1>6 DEF IsFree
        <4>2. QED BY <2>2, <2>4, <3>1, <3>2, <4>1 DEF Clashes
      <3>3. CASE k \notin DOMAIN c.dto
        BY <1>4, <2>2, <2>4, <3>1, <3>3 DEF RowInv, NamesUnique
      <3>4. QED BY <3>2, <3>3
    <2>5. /\ Grows /\ RowInv' /\ OwnerInv'
          /\ a \in DOMAIN row' /\ row'[a].ver = row[a].ver + 1 /\ row[a].ver \in Nat
      BY <1>2, <1>4, <1>6, <2>1, <2>2, <2>3, <2>4, WriteStep
    <2>6. KindOf[a] = KindFor(x) /\ row[a].ver + 1 \in Nat /\ row[a].ver + 1 <= row'[a].ver
      BY <1>1, <1>4, <2>5 DEF KindFor
    <2>7. PICK ver : ver = row[a].ver + 1
      OBVIOUS
    <2>8. QED BY <1>1, <1>2, <1>4, <1>6, <2>5, <2>6, <2>7, AnswerStep
  <1>7. QED BY <1>1, <1>5, <1>6 DEF Update

LEMMA InsertOK ==
  ASSUME InventoryInv, NEW x \in Clients, Insert(x)
  PROVE  InventoryInv'
  <1>1. PICK c, kind : c = call[x] /\ kind = KindFor(x)
    OBVIOUS
  <1> DEFINE unused == {b \in Assets \ DOMAIN row : KindOf[b] = kind}
  <1>2. /\ c.op = "create" /\ c.pc = "write" /\ UNCHANGED <<owner, recorded, form, table, saved>>
    BY <1>1 DEF Insert, At
  <1>3. IsRequest(x, c) /\ CallOK(x, c) /\ c # NoCall
    BY <1>1, <1>2, CallOf DEF NoCall
  <1>4. kind = KindIn(x, c) /\ kind \in Kinds
    BY <1>1, <1>3, InventoryConstantsOK DEF KindFor, KindIn, IsRequest
  <1>5. /\ Key[kind] \in DOMAIN c.dto
        /\ c.turned = FALSE => \A f \in DOMAIN c.dto \ c.typed : c.dto[f] = "OK"
    BY <1>2, <1>3, <1>4 DEF CallOK, IsFilled
  <1>6. CASE End(x) /\ UNCHANGED <<row, entered>>
    BY <1>1, <1>2, <1>6, TablesGrow, EndStep DEF entered
  <1> DEFINE new == [vals |-> NewRow(kind, c.dto), ver |-> 1, born |-> Cardinality(DOMAIN row)]
  <1>7. CASE /\ IsFree(kind, c.dto, None) /\ unused # {}
             /\ \E a \in unused : row' = Put(row, a, new) /\ Means(a, x) /\ Answer(x, a, 1)
    <2>1. PICK a \in unused : row' = Put(row, a, new) /\ Means(a, x) /\ Answer(x, a, 1)
      BY <1>7
    <2>2. a \in Assets /\ a \notin DOMAIN row /\ KindOf[a] = kind /\ a # None
      BY InventoryConstantsOK
    <2> DEFINE vals == NewRow(kind, c.dto)
    <2>3. /\ DOMAIN EmptyForm[kind] \subseteq DOMAIN vals /\ vals[Key[kind]] = c.dto[Key[kind]]
          /\ \A f \in DOMAIN vals : vals[f] \in {Null, "OK"} \/ (f \in DOMAIN c.dto /\ vals[f] = c.dto[f])
      BY <1>4, <1>5, NewRowFacts
    <2> HIDE DEF vals
    <2>4. /\ DOMAIN row' = DOMAIN row \cup {a} /\ DOMAIN row'[a] = {"vals", "ver", "born"}
          /\ row'[a].vals = vals /\ row'[a].ver = 1
          /\ \A b \in DOMAIN row : row'[b] = row[b]
      BY <2>1, <2>2 DEF Put, vals
    <2>5. /\ meant \subseteq meant' /\ strayed \subseteq strayed'
          /\ c.turned = FALSE => \A f \in c.typed \cap DOMAIN c.dto : <<a, f, c.dto[f]>> \in meant'
          /\ c.turned = TRUE => \A f \in DOMAIN c.dto : <<a, f, c.dto[f]>> \in strayed'
      BY <1>1, <2>1 DEF Means, Brings
    <2>6. RowInv /\ OwnerInv
      BY DEF InventoryInv
    <2>7. Grows
      BY <1>2, <2>4, <2>5, <2>6 DEF Grows, RowInv, RowType, OwnerInv
    <2>8. \A b \in DOMAIN row' : RowType(b)'
      BY <2>2, <2>3, <2>4, <2>6 DEF RowInv, RowType
    <2>9. RowsOK(row)'
      <3> SUFFICES ASSUME NEW b \in DOMAIN row', NEW f \in DOMAIN row'[b].vals
                   PROVE  LegitNext(b, f, row'[b].vals[f])
        BY RowsNext
      <3>1. CASE b = a
        <4>1. f \in DOMAIN vals /\ row'[b].vals[f] = vals[f]
          BY <2>4, <3>1
        <4>2. CASE vals[f] \in {Null, "OK"}
          BY <4>1, <4>2 DEF LegitNext
        <4>3. CASE vals[f] \notin {Null, "OK"}
          <5>1. /\ f \in DOMAIN c.dto /\ vals[f] = c.dto[f] /\ c.turned \in BOOLEAN
                /\ c.turned = FALSE => f \in c.typed
            BY <1>3, <1>5, <2>3, <4>1, <4>3 DEF IsRequest
          <5>2. <<a, f, vals[f]>> \in meant' \cup strayed'
            BY <2>5, <5>1
          <5>3. QED BY <3>1, <4>1, <5>2 DEF LegitNext
        <4>4. QED BY <4>2, <4>3
      <3>2. CASE b # a
        <4>1. row'[b] = row[b] /\ b \in DOMAIN row
          BY <2>4, <3>2
        <4>2. Legit(b, f, row[b].vals[f])
          BY <2>6, <4>1 DEF RowInv, RowsOK
        <4>3. QED BY <1>2, <2>5, <4>1, <4>2, StaysLegit
      <3>3. QED BY <3>1, <3>2
    <2>10. NamesUnique'
      <3>1. ASSUME NEW b \in DOMAIN row, KindOf[b] = kind
            PROVE  row[b].vals[Key[kind]] # vals[Key[kind]]
        <4>1. b \notin Clashes(kind, c.dto, None) /\ b # None
          BY <1>7, <2>6, InventoryConstantsOK DEF IsFree, RowInv
        <4>2. QED BY <1>5, <2>3, <3>1, <4>1 DEF Clashes
      <3>2. QED BY <2>2, <2>4, <2>6, <3>1 DEF RowInv, NamesUnique
    <2>11. RowInv'
      BY <2>2, <2>4, <2>6, <2>8, <2>9, <2>10 DEF RowInv
    <2>12. OwnerInv'
      BY <1>2, <2>6 DEF OwnerInv, TransfersClose
    <2>13. a \in DOMAIN row' /\ 1 <= row'[a].ver /\ KindOf[a] = KindFor(x)
      BY <1>1, <2>2, <2>4
    <2>14. QED BY <1>1, <1>2, <2>1, <2>2, <2>7, <2>11, <2>12, <2>13, AnswerStep
  <1>8. QED
    <2>1. CASE IsFree(kind, c.dto, None) /\ unused # {}
      <3> DEFINE a == CHOOSE b \in unused : TRUE
      <3>1. a \in unused
        BY <2>1
      <3>2. row' = Put(row, a, new) /\ Means(a, x) /\ Answer(x, a, 1)
        BY <1>1, <2>1 DEF Insert
      <3>3. QED BY <1>7, <2>1, <3>1, <3>2
    <2>2. CASE ~(IsFree(kind, c.dto, None) /\ unused # {})
      BY <1>1, <1>6, <2>2 DEF Insert
    <2>3. QED BY <2>1, <2>2

-----------------------------------------------------------------------------
(* Recharges and telemetry. *)

LEMMA RecordOK ==
  ASSUME InventoryInv, NEW x \in Clients, RecordRecharge(x) \/ RecordMetric(x)
  PROVE  InventoryInv'
  <1>1. PICK c : c = call[x]
    OBVIOUS
  <1>2. PICK f : /\ Record(x, f) /\ c.pc = "write"
                 /\ \/ c.op = "recharge" /\ f = "packageType"
                    \/ c.op = "telemetry" /\ f = "signal"
    BY <1>1 DEF RecordRecharge, RecordMetric, At
  <1>3. IsRequest(x, c) /\ CallOK(x, c) /\ c # NoCall
    BY <1>1, <1>2, CallOf DEF NoCall
  <1>4. /\ recorded' = recorded \cup {<<c.of, f, c.with>>}
        /\ UNCHANGED <<row, owner, form, table, entered, saved>>
    BY <1>1, <1>2 DEF Record
  <1>5. Grows /\ RowInv' /\ OwnerInv'
    BY <1>4, TablesGrow DEF entered
  <1>6. CASE End(x)
    BY <1>1, <1>2, <1>4, <1>5, <1>6, EndStep
  <1>7. CASE Goto(x, "apply")
    <2> DEFINE new == [c EXCEPT !.pc = "apply"]
    <2>1. /\ IsRequest(x, new) /\ new.pc = "apply" /\ new.op = c.op /\ new.of = c.of
          /\ new.with = c.with
      BY <1>3, GoesTo
    <2>2. call' = [call EXCEPT ![x] = new]
      BY <1>1, <1>7 DEF Goto
    <2> HIDE DEF new
    <2>3. PICK d : d = new
      OBVIOUS
    <2>4. c.of \in DOMAIN row
      BY <1>2, <1>3 DEF CallOK
    <2>5. IsRequest(x, d)'
      BY <2>1, <2>3 DEF IsRequest
    <2>6. CallOK(x, d)'
      BY <1>2, <1>4, <2>1, <2>3, <2>4, <2>5 DEF CallOK
    <2>7. QED BY <1>1, <1>2, <1>4, <1>5, <2>1, <2>2, <2>3, <2>6, ServeStep
  <1>8. QED BY <1>6, <1>7 DEF RecordRecharge, RecordMetric

LEMMA WriteFieldOK ==
  ASSUME InventoryInv, NEW x \in Clients, NEW f \in {"signal", "packageType"}, Apply(x, f),
         call[x].of \in DOMAIN row, meant \subseteq meant', strayed \subseteq strayed',
         LegitNext(call[x].of, f, call[x].with)
  PROVE  InventoryInv'
  <1>1. PICK a, w : a = call[x].of /\ w = call[x].with
    OBVIOUS
  <1> DEFINE vals == [row[a].vals EXCEPT ![f] = w]
  <1>2. /\ row' = Written(a, vals) /\ End(x)
        /\ UNCHANGED <<owner, recorded, form, table, saved>>
    BY <1>1 DEF Apply
  <1>3. /\ DOMAIN vals = DOMAIN row[a].vals
        /\ \A g \in DOMAIN vals : vals[g] = IF g = f THEN w ELSE row[a].vals[g]
    OBVIOUS
  <1> HIDE DEF vals
  <1>4. ASSUME NEW g \in DOMAIN vals PROVE LegitNext(a, g, vals[g])
    <2>1. CASE g = f
      BY <1>1, <1>3, <2>1
    <2>2. CASE g # f
      <3>1. Legit(a, g, vals[g])
        BY <1>1, <1>3, <2>2 DEF InventoryInv, RowInv, RowsOK
      <3>2. QED BY <1>2, <3>1, StaysLegit
    <2>3. QED BY <2>1, <2>2
  <1>5. ASSUME NEW b \in DOMAIN row \ {a}, KindOf[b] = KindOf[a]
        PROVE  row[b].vals[Key[KindOf[a]]] # vals[Key[KindOf[a]]]
    <2>1. /\ Key[KindOf[a]] \in DOMAIN vals /\ KindOf[a] \in Kinds
          /\ NamesUnique /\ a \in DOMAIN row
      BY <1>1, <1>3, KeyOf DEF InventoryInv, RowInv
    <2>2. Key[KindOf[a]] # f
      BY <2>1, KindFacts
    <2>3. QED BY <1>3, <1>5, <2>1, <2>2 DEF NamesUnique
  <1>6. Grows /\ RowInv' /\ OwnerInv'
    BY <1>1, <1>2, <1>3, <1>4, <1>5, WriteStep
  <1>7. QED BY <1>2, <1>6, EndStep

LEMMA ApplyOK ==
  ASSUME InventoryInv, NEW x \in Clients, ApplyRecharge(x) \/ ApplyMetric(x)
  PROVE  InventoryInv'
  <1>1. PICK c : c = call[x]
    OBVIOUS
  <1>2. PICK f \in {"signal", "packageType"} :
          /\ Apply(x, f) /\ c.pc = "apply" /\ UNCHANGED <<meant, strayed>>
          /\ \/ c.op = "recharge" /\ f = "packageType"
             \/ c.op = "telemetry" /\ f = "signal"
    BY <1>1 DEF ApplyRecharge, ApplyMetric, At, entered
  <1>3. CallOK(x, c) /\ c # NoCall
    BY <1>1, <1>2, CallOf DEF NoCall
  <1>4. c.of \in DOMAIN row /\ <<c.of, f, c.with>> \in recorded
    BY <1>2, <1>3 DEF CallOK
  <1>5. LegitNext(c.of, f, c.with)
    BY <1>2, <1>4 DEF LegitNext, Apply
  <1>6. QED BY <1>1, <1>2, <1>4, <1>5, WriteFieldOK

LEMMA IngestTelemetryOK ==
  ASSUME InventoryInv, NEW x \in Clients, IngestTelemetry(x)
  PROVE  InventoryInv'
  <1>1. PICK c : c = call[x]
    OBVIOUS
  <1>2. /\ c.op = "direct" /\ c.pc = "write" /\ Apply(x, "signal")
        /\ meant' = meant \cup {<<c.of, "signal", c.with>>} /\ UNCHANGED strayed
    BY <1>1 DEF IngestTelemetry, At
  <1>3. CallOK(x, c) /\ c # NoCall
    BY <1>1, <1>2, CallOf DEF NoCall
  <1>4. c.of \in DOMAIN row
    BY <1>2, <1>3 DEF CallOK
  <1>5. LegitNext(c.of, "signal", c.with)
    BY <1>2 DEF LegitNext
  <1>6. QED BY <1>1, <1>2, <1>4, <1>5, WriteFieldOK

-----------------------------------------------------------------------------
(* Ownership. *)

LEMMA OwnersGrow ==
  ASSUME InventoryInv, UNCHANGED <<row, recorded, entered>>, owner' \in Seq(OwnerRow), TransfersClose',
         Len(owner) <= Len(owner'),
         \A i \in 1 .. Len(owner) : owner'[i].of = owner[i].of /\ (owner'[i].open => owner[i].open)
  PROVE  Grows /\ RowInv' /\ OwnerInv'
  <1>1. owner \in Seq(OwnerRow) /\ Len(owner) \in Nat /\ Len(owner') \in Nat
    BY DEF InventoryInv, OwnerInv
  <1>2. Grows
    BY <1>1 DEF InventoryInv, RowInv, RowType, Grows, entered
  <1>3. RowsOK(row)'
    BY <1>2, LegitKept DEF InventoryInv, RowInv, RowsOK
  <1>4. RowInv'
    BY <1>3 DEF InventoryInv, RowInv, RowType, NamesUnique
  <1>5. QED BY <1>2, <1>4 DEF OwnerInv

LEMMA CloseOpenOK ==
  ASSUME InventoryInv, NEW x \in Clients, CloseOpen(x)
  PROVE  InventoryInv'
  <1>1. PICK old : old = call[x]
    OBVIOUS
  <1>2. /\ old.op \in {"transfer", "return"} /\ old.pc = "write"
        /\ owner' = [i \in DOMAIN owner |-> [owner[i] EXCEPT !.open = @ /\ i \notin ToClose(x)]]
        /\ UNCHANGED <<row, recorded, form, table, entered, saved>>
    BY <1>1 DEF CloseOpen
  <1>3. IsRequest(x, old) /\ CallOK(x, old) /\ old # NoCall
    BY <1>1, <1>2, CallOf DEF NoCall
  <1>4. owner \in Seq(OwnerRow) /\ TransfersClose /\ DOMAIN owner = 1 .. Len(owner) /\ Len(owner) \in Nat
        /\ \A i \in 1 .. Len(owner) : owner[i] \in OwnerRow
    BY DEF InventoryInv, OwnerInv
  <1>5. DOMAIN owner' = 1 .. Len(owner)
        /\ \A i \in 1 .. Len(owner) :
             /\ owner'[i] \in OwnerRow /\ owner'[i].of = owner[i].of
             /\ owner'[i].closed = owner[i].closed
             /\ owner'[i].open <=> owner[i].open /\ i \notin ToClose(x)
    BY <1>2, <1>4 DEF OwnerRow
  <1>6. owner' \in Seq(OwnerRow) /\ Len(owner') = Len(owner)
    <2>1. owner' = [i \in 1 .. Len(owner) |-> owner'[i]]
      BY <1>2, <1>4
    <2>2. owner' \in [1 .. Len(owner) -> OwnerRow]
      BY <1>5, <2>1
    <2>3. owner' \in Seq(OwnerRow)
      BY <1>4, <2>2, SeqDef
    <2>4. QED BY <1>4, <1>5, <2>3, LenProperties
  <1>7. TransfersClose'
    BY <1>4, <1>5, <1>6 DEF TransfersClose
  <1>8. Grows /\ RowInv' /\ OwnerInv'
    BY <1>2, <1>4, <1>5, <1>6, <1>7, OwnersGrow
  <1>9. CASE old.op = "return"
    <2>1. End(x)
      BY <1>1, <1>9 DEF CloseOpen, End
    <2>2. QED BY <1>1, <1>2, <1>8, <2>1, EndStep
  <1>10. CASE old.op = "transfer"
    <2> DEFINE c == [old EXCEPT !.pc = "open", !.closed = Len(owner)]
    <2>1. /\ DOMAIN c = DOMAIN old /\ c.pc = "open" /\ c.op = old.op /\ c.of = old.of
          /\ c.with = old.with /\ c.closed = Len(owner) /\ c.ver = old.ver /\ c.turned = old.turned
      BY <1>3 DEF IsRequest, CallFields
    <2>2. call' = [call EXCEPT ![x] = c]
      BY <1>1, <1>10 DEF CloseOpen
    <2> HIDE DEF c
    <2>3. IsRequest(x, c)
      BY <1>3, <1>4, <2>1 DEF IsRequest
    <2>4. PICK d, n : d = c /\ n = Len(owner)
      OBVIOUS
    <2>5. IsRequest(x, d)'
      BY <2>3, <2>4 DEF IsRequest
    <2>6. n <= Len(owner') /\ \A i \in 1 .. n : owner'[i].of = d.of => ~owner'[i].open
      BY <1>1, <1>4, <1>5, <1>6, <2>1, <2>4 DEF ToClose
    <2>7. d.closed = n
      BY <2>1, <2>4
    <2>8. HasClosed(d)'
      BY <2>6, <2>7 DEF HasClosed
    <2>9. d.of \in DOMAIN row' /\ d.op = "transfer" /\ d.pc = "open"
      BY <1>2, <1>3, <1>10, <2>1, <2>4 DEF CallOK
    <2>10. CallOK(x, d)'
      BY <2>5, <2>8, <2>9 DEF CallOK
    <2>11. QED BY <1>1, <1>2, <1>8, <2>2, <2>4, <2>9, <2>10, ServeStep
  <1>11. QED BY <1>2, <1>9, <1>10

LEMMA OpenRowOK ==
  ASSUME InventoryInv, NEW x \in Clients, OpenRow(x)
  PROVE  InventoryInv'
  <1>1. PICK c : c = call[x]
    OBVIOUS
  <1> DEFINE new == [of |-> c.of, who |-> c.with, open |-> TRUE, closed |-> c.closed]
  <1>2. /\ c.op = "transfer" /\ c.pc = "open" /\ owner' = Append(owner, new) /\ End(x)
        /\ UNCHANGED <<row, recorded, form, table, entered, saved>>
    BY <1>1 DEF OpenRow, At
  <1>3. IsRequest(x, c) /\ CallOK(x, c) /\ c # NoCall
    BY <1>1, <1>2, CallOf DEF NoCall
  <1>4. HasClosed(c) /\ c.closed \in Nat
    BY <1>2, <1>3 DEF CallOK, IsRequest
  <1>5. owner \in Seq(OwnerRow) /\ TransfersClose /\ Len(owner) \in Nat
        /\ DOMAIN owner = 1 .. Len(owner)
    BY DEF InventoryInv, OwnerInv
  <1>6. new \in OwnerRow /\ new.of = c.of /\ new.closed = c.closed
    BY <1>3 DEF IsRequest, OwnerRow
  <1> HIDE DEF new
  <1>7. /\ owner' \in Seq(OwnerRow) /\ DOMAIN owner' = 1 .. Len(owner) + 1
        /\ Len(owner') = Len(owner) + 1 /\ owner'[Len(owner) + 1] = new
        /\ \A i \in 1 .. Len(owner) : owner'[i] = owner[i]
    BY <1>2, <1>5, <1>6
  <1>8. TransfersClose'
    <2> SUFFICES ASSUME NEW i \in DOMAIN owner', NEW j \in DOMAIN owner', i < j,
                        owner'[i].of = owner'[j].of, owner'[i].open
                 PROVE  i > owner'[j].closed
      BY DEF TransfersClose
    <2>1. i \in 1 .. Len(owner) /\ owner'[i] = owner[i]
      BY <1>5, <1>7
    <2>2. CASE j = Len(owner) + 1
      <3>1. ~(i \in 1 .. c.closed)
        BY <1>4, <1>6, <1>7, <2>1, <2>2 DEF HasClosed
      <3>2. QED BY <1>4, <1>5, <1>6, <1>7, <2>1, <2>2, <3>1
    <2>3. CASE j \in 1 .. Len(owner)
      BY <1>5, <1>7, <2>1, <2>3 DEF TransfersClose
    <2>4. QED BY <1>5, <1>7, <2>2, <2>3
  <1>9. Len(owner) <= Len(owner') /\
        \A i \in 1 .. Len(owner) : owner'[i].of = owner[i].of /\ (owner'[i].open => owner[i].open)
    BY <1>5, <1>7
  <1>10. Grows /\ RowInv' /\ OwnerInv'
    BY <1>2, <1>7, <1>8, <1>9, OwnersGrow
  <1>11. QED BY <1>1, <1>2, <1>10, EndStep

-----------------------------------------------------------------------------
(* The tables of a page. *)

LEMMA NoFetchOK ==
  ASSUME NEW p, NEW sv
  PROVE  FetchOK(p, NoFetch, sv) /\ FetchOK(p, Sending, sv)
  BY DEF FetchOK, NoFetch, Sending

\* A step that gives a page another fetch for q, and perhaps another view,
\* other tables and another request.
LEMMA FetchStep ==
  ASSUME InventoryInv, NEW p \in Pages, NEW q \in Texts, NEW f, FetchOK(p, f, saved[p]), Fetches(p, q, f),
         NEW v \in Texts, view'[p] = v, NEW t, shown'[p] = t,
         DOMAIN t \subseteq Texts, \A u \in DOMAIN t : EntryOK(p, t[u], saved[p]),
         NEW c, CallOK(p, c), call'[p] = c, \A y \in Clients \ {p} : call'[y] = call[y],
         \A o \in Pages \ {p} : view'[o] = view[o] /\ shown'[o] = shown[o],
         DOMAIN call' = Clients, DOMAIN view' = Pages, DOMAIN shown' = Pages,
         UNCHANGED <<tables, form, entered, saved>>
  PROVE  InventoryInv'
  <1>1. PICK fe, sv, fm : fe = [fetch[p] EXCEPT ![q] = f] /\ sv = saved[p] /\ fm = form[p]
    OBVIOUS
  <1>2. TablesOK(p, view[p], shown[p], fetch[p], sv) /\ FormOK(p, fm)
    BY <1>1 DEF InventoryInv, TableOK
  <1>3. TablesOK(p, v, t, fe, sv)
    BY <1>1, <1>2 DEF TablesOK
  <1>4. /\ Domains' /\ fetch'[p] = fe /\ saved'[p] = sv /\ form'[p] = fm
        /\ \A o \in Pages \ {p} : fetch'[o] = fetch[o]
    BY <1>1 DEF Fetches, InventoryInv, Domains
  <1>5. QED BY <1>2, <1>3, <1>4, PageStep

\* The same when only the fetch and the view change.
LEMMA FetchOnly ==
  ASSUME InventoryInv, NEW p \in Pages, NEW q \in Texts, NEW f, FetchOK(p, f, saved[p]), Fetches(p, q, f),
         NEW v \in Texts, view' = [view EXCEPT ![p] = v] \/ (view' = view /\ v = view[p]),
         UNCHANGED <<tables, call, form, shown, entered, saved>>
  PROVE  InventoryInv'
  <1>1. PICK t, c : t = shown[p] /\ c = call[p]
    OBVIOUS
  <1>2. CallOK(p, c) /\ Domains
    BY <1>1 DEF InventoryInv, Clients
  <1>3. DOMAIN t \subseteq Texts /\ \A u \in DOMAIN t : EntryOK(p, t[u], saved[p])
    BY <1>1 DEF InventoryInv, TableOK, TablesOK
  <1>4. /\ view'[p] = v /\ DOMAIN view' = Pages /\ \A o \in Pages \ {p} : view'[o] = view[o]
    BY <1>2 DEF Domains
  <1>5. QED BY <1>1, <1>2, <1>3, <1>4, FetchStep DEF Domains

LEMMA FilterOK ==
  ASSUME InventoryInv, NEW p \in Pages, NEW q \in Texts, Filter(p, q)
  PROVE  InventoryInv'
  <1>1. view' = [view EXCEPT ![p] = q] /\ UNCHANGED <<tables, call, form, shown, entered, saved>>
    BY DEF Filter
  <1>2. CASE Fetches(p, q, Sending)
    <2>1. PICK f : f = Sending /\ FetchOK(p, f, saved[p])
      BY NoFetchOK
    <2>2. QED BY <1>1, <1>2, <2>1, FetchOnly
  <1>3. CASE UNCHANGED fetch
    <2>1. PICK c, fm, t, fe, sv :
            c = call[p] /\ fm = form[p] /\ t = shown[p] /\ fe = fetch[p] /\ sv = saved[p]
      OBVIOUS
    <2>2. CallOK(p, c) /\ FormOK(p, fm) /\ TablesOK(p, view[p], t, fe, sv)
      BY <2>1 DEF InventoryInv, TableOK, Clients
    <2>3. TablesOK(p, q, t, fe, sv)
      BY <2>2 DEF TablesOK
    <2>4. Domains' /\ view'[p] = q /\ \A o \in Pages \ {p} : view'[o] = view[o]
      BY <1>1, <1>3 DEF InventoryInv, Domains
    <2>5. QED BY <1>1, <1>3, <2>1, <2>2, <2>3, <2>4, PageStep
  <1>4. QED BY <1>2, <1>3 DEF Filter

LEMMA ReloadOK ==
  ASSUME InventoryInv, NEW p \in Pages, Reload(p)
  PROVE  InventoryInv'
  <1>1. PICK f : f = Sending /\ FetchOK(p, f, saved[p])
    BY NoFetchOK
  <1>2. view[p] \in Texts
    BY DEF InventoryInv, TableOK, TablesOK
  <1>3. Fetches(p, view[p], f) /\ UNCHANGED <<tables, call, form, view, shown, entered, saved>>
    BY <1>1 DEF Reload
  <1>4. QED BY <1>1, <1>2, <1>3, FetchOnly

LEMMA ListOK ==
  ASSUME InventoryInv, NEW p \in Pages, NEW q \in Texts, List(p, q)
  PROVE  InventoryInv'
  <1>1. PICK as \in SUBSET Found(p, q) :
          Fetches(p, q, [pc |-> "read", rows |-> [a \in as |-> row[a]], old |-> fetch[p][q].old])
    BY DEF List
  <1> DEFINE rows == [a \in as |-> row[a]]
             f == [pc |-> "read", rows |-> rows, old |-> fetch[p][q].old]
  <1>2. UNCHANGED <<tables, call, form, view, shown, entered, saved>> /\ view[p] \in Texts
    BY DEF List, InventoryInv, TableOK, TablesOK
  <1>3. DOMAIN rows = as /\ \A a \in as : rows[a] = row[a] /\ a \in DOMAIN row /\ KindOf[a] = Shows[p]
    BY <1>1 DEF Found
  <1>4. DOMAIN f = {"pc", "rows", "old"} /\ f.rows = rows
    OBVIOUS
  <1>5. Fetches(p, q, f)
    BY <1>1
  <1> HIDE DEF rows, f
  <1>6. IsTable(p, rows)
    BY <1>3 DEF InventoryInv, RowInv, RowType, RowsOK, IsTable
  <1>7. IsFresh(rows, saved[p])
    <2> SUFFICES ASSUME NEW a \in DOMAIN saved[p] \cap as
                 PROVE  rows[a].ver >= saved[p][a]
      BY <1>3 DEF IsFresh
    <2>1. rows[a] = row[a] /\ saved[p][a] \in Nat /\ saved[p][a] <= row[a].ver /\ row[a].ver \in Nat
      BY <1>3 DEF InventoryInv, RowInv, RowType, TableOK, TablesOK, SavesOK
    <2>2. QED BY <2>1
  <1>8. FetchOK(p, f, saved[p])
    BY <1>4, <1>6, <1>7 DEF FetchOK
  <1>9. QED BY <1>2, <1>5, <1>8, FetchOnly

\* The request a page is left with when its table is there, or is not coming.
LEMMA FetchedCall ==
  ASSUME InventoryInv, NEW p \in Pages, NEW q \in Texts, Fetched(p, q)
  PROVE  /\ DOMAIN call' = Clients /\ CallOK(p, call'[p])
         /\ \A y \in Clients \ {p} : call'[y] = call[y]
  <1>1. p \in Clients /\ DOMAIN call = Clients /\ CallOK(p, call[p])
    BY DEF InventoryInv, Domains, Clients
  <1>2. CallOK(p, NoCall)
    BY NoCallOK
  <1>3. QED BY <1>1, <1>2 DEF Fetched, End

LEMMA ShowOK ==
  ASSUME InventoryInv, NEW p \in Pages, NEW q \in Texts, Show(p, q)
  PROVE  InventoryInv'
  <1> DEFINE e == [rows |-> fetch[p][q].rows, valid |-> TRUE, old |-> fetch[p][q].old]
             t == Put(shown[p], q, e)
  <1>1. /\ fetch[p][q].pc = "read" /\ shown' = [shown EXCEPT ![p] = t] /\ Fetched(p, q)
        /\ UNCHANGED <<tables, form, view, entered, saved>>
    BY DEF Show
  <1>2. FetchOK(p, fetch[p][q], saved[p]) /\ view[p] \in Texts /\ DOMAIN shown[p] \subseteq Texts
        /\ \A u \in DOMAIN shown[p] : EntryOK(p, shown[p][u], saved[p])
    BY DEF InventoryInv, TableOK, TablesOK
  <1>3. EntryOK(p, e, saved[p])
    BY <1>1, <1>2 DEF FetchOK, EntryOK
  <1> HIDE DEF e
  <1>4. DOMAIN t \subseteq Texts /\ \A u \in DOMAIN t : EntryOK(p, t[u], saved[p])
    BY <1>2, <1>3 DEF Put
  <1>5. PICK c, f, v : c = call'[p] /\ f = NoFetch /\ v = view[p]
    OBVIOUS
  <1>6. /\ CallOK(p, c) /\ DOMAIN call' = Clients /\ \A y \in Clients \ {p} : call'[y] = call[y]
        /\ Fetches(p, q, f) /\ FetchOK(p, f, saved[p])
    BY <1>1, <1>5, FetchedCall, NoFetchOK DEF Fetched
  <1>7. /\ DOMAIN view' = Pages /\ DOMAIN shown' = Pages /\ shown'[p] = t
        /\ \A o \in Pages \ {p} : view'[o] = view[o] /\ shown'[o] = shown[o]
    BY <1>1 DEF InventoryInv, Domains
  <1> HIDE DEF t
  <1>8. QED BY <1>1, <1>2, <1>4, <1>5, <1>6, <1>7, FetchStep

\* A table that is not valid may be of any age.
LEMMA InvalidOK ==
  ASSUME NEW p, NEW e, NEW sv, NEW new, EntryOK(p, e, sv)
  PROVE  EntryOK(p, [e EXCEPT !.valid = FALSE], new)
  <1> DEFINE i == [e EXCEPT !.valid = FALSE]
  <1>1. DOMAIN i = {"rows", "valid", "old"} /\ i.rows = e.rows /\ i.valid = FALSE
    BY DEF EntryOK
  <1> HIDE DEF i
  <1>2. EntryOK(p, i, new)
    BY <1>1 DEF EntryOK
  <1>3. QED BY <1>2 DEF i

LEMMA FetchFailsOK ==
  ASSUME InventoryInv, NEW p \in Pages, NEW q \in Texts, FetchFails(p, q)
  PROVE  InventoryInv'
  <1>1. UNCHANGED <<tables, form, view, entered, saved>> /\ view[p] \in Texts
    BY DEF FetchFails, InventoryInv, TableOK, TablesOK
  <1>2. CASE /\ Fetches(p, q, [pc |-> "sent", old |-> fetch[p][q].old])
             /\ UNCHANGED <<call, shown>>
    <2>1. PICK f : f = [pc |-> "sent", old |-> fetch[p][q].old]
      OBVIOUS
    <2>2. FetchOK(p, f, saved[p])
      BY <2>1 DEF FetchOK
    <2>3. QED BY <1>1, <1>2, <2>1, <2>2, FetchOnly
  <1>3. CASE /\ shown' = [shown EXCEPT ![p] = [u \in DOMAIN @ |->
                            IF u = q THEN [@[u] EXCEPT !.valid = FALSE] ELSE @[u]]]
             /\ Fetched(p, q)
    <2> DEFINE t == [u \in DOMAIN shown[p] |->
                       IF u = q THEN [shown[p][u] EXCEPT !.valid = FALSE] ELSE shown[p][u]]
    <2>1. DOMAIN shown[p] \subseteq Texts /\ \A u \in DOMAIN shown[p] : EntryOK(p, shown[p][u], saved[p])
      BY DEF InventoryInv, TableOK, TablesOK
    <2>2. DOMAIN t \subseteq Texts /\ \A u \in DOMAIN t : EntryOK(p, t[u], saved[p])
      BY <2>1, InvalidOK
    <2>3. /\ shown' = [shown EXCEPT ![p] = t] /\ DOMAIN view' = Pages /\ DOMAIN shown' = Pages
          /\ shown'[p] = t /\ \A o \in Pages \ {p} : view'[o] = view[o] /\ shown'[o] = shown[o]
      BY <1>1, <1>3 DEF InventoryInv, Domains
    <2> HIDE DEF t
    <2>4. PICK c, f, v : c = call'[p] /\ f = NoFetch /\ v = view[p]
      OBVIOUS
    <2>5. /\ CallOK(p, c) /\ DOMAIN call' = Clients /\ \A y \in Clients \ {p} : call'[y] = call[y]
          /\ Fetches(p, q, f) /\ FetchOK(p, f, saved[p])
      BY <1>3, <2>4, FetchedCall, NoFetchOK DEF Fetched
    <2>6. QED BY <1>1, <2>2, <2>3, <2>4, <2>5, FetchStep
  <1>4. QED BY <1>2, <1>3 DEF FetchFails

\* The fetches a save finds: those that go on are old from then on, the others
\* begin anew or are gone.
LEMMA RefetchOK ==
  ASSUME NEW p, NEW sv, NEW new, \A q \in Texts : FetchOK(p, fetch[p][q], sv)
  PROVE  DOMAIN Refetch(p) = Texts /\ \A q \in Texts : FetchOK(p, Refetch(p)[q], new)
  <1>1. DOMAIN Refetch(p) = Texts
    BY DEF Refetch
  <1>2. ASSUME NEW q \in Texts PROVE FetchOK(p, Refetch(p)[q], new)
    <2>1. CASE GoesOn(p, q)
      <3> DEFINE f == [fetch[p][q] EXCEPT !.old = TRUE]
      <3>1. Refetch(p)[q] = f
        BY <2>1 DEF Refetch
      <3>2. DOMAIN f = DOMAIN fetch[p][q] /\ f.old = TRUE /\ f.pc = fetch[p][q].pc
            /\ (f.pc = "read" => f.rows = fetch[p][q].rows)
        BY DEF FetchOK
      <3> HIDE DEF f
      <3>3. QED BY <3>1, <3>2 DEF FetchOK
    <2>2. CASE ~GoesOn(p, q)
      <3>1. Refetch(p)[q] \in {Sending, NoFetch}
        BY <2>2 DEF Refetch
      <3>2. QED BY <3>1, NoFetchOK
    <2>3. QED BY <2>1, <2>2
  <1>3. QED BY <1>1, <1>2

LEMMA SavedOK ==
  ASSUME InventoryInv, NEW p \in Pages, Saved(p)
  PROVE  InventoryInv'
  <1> DEFINE old == call[p]
             sv == Put(saved[p], old.of, old.ver)
             t == Invalidated(shown[p])
             fe == Refetch(p)
  <1>1. /\ old.pc = "answer" /\ form' = [form EXCEPT ![p] = Clean(p)]
        /\ saved' = [saved EXCEPT ![p] = sv] /\ shown' = [shown EXCEPT ![p] = t]
        /\ fetch' = [fetch EXCEPT ![p] = fe] /\ UNCHANGED <<tables, view, entered>>
        /\ End(p) \/ call' = [call EXCEPT ![p].pc = "refetch", ![p].awaits = view[p]]
    BY DEF Saved, Cleared
  <1>2. p \in Clients /\ IsRequest(p, old) /\ CallOK(p, old) /\ old # NoCall
    BY <1>1, CallOf DEF NoCall, Clients
  <1>3. DOMAIN sv = DOMAIN saved[p] \cup {old.of}
        /\ \A a \in DOMAIN sv : sv[a] = IF a = old.of THEN old.ver ELSE saved[p][a]
    BY DEF Put
  <1>4. TablesOK(p, view[p], shown[p], fetch[p], saved[p])
    BY DEF InventoryInv, TableOK
  <1>5. /\ old.of \in DOMAIN row /\ old.ver \in Nat /\ old.ver <= row[old.of].ver
        /\ old.of \in Assets /\ old.of # None /\ KindOf[old.of] = Shows[p]
    BY <1>1, <1>2, InventoryConstantsOK DEF CallOK, IsRequest, InventoryInv, RowInv
  <1> HIDE DEF sv
  <1>6. SavesOK(p, sv)
    BY <1>3, <1>4, <1>5 DEF TablesOK, SavesOK
  <1>7. DOMAIN t \subseteq Texts /\ \A u \in DOMAIN t : EntryOK(p, t[u], sv)
    BY <1>4, InvalidOK DEF Invalidated, TablesOK
  <1>8. DOMAIN fe = Texts /\ \A q \in Texts : FetchOK(p, fe[q], sv)
    BY <1>4, RefetchOK DEF TablesOK
  <1> HIDE DEF t, fe
  <1>9. PICK v : v = view[p] /\ TablesOK(p, v, t, fe, sv)
    BY <1>4, <1>6, <1>7, <1>8 DEF TablesOK
  <1>10. PICK c : /\ CallOK(p, c) /\ call'[p] = c /\ DOMAIN call' = Clients
                  /\ \A y \in Clients \ {p} : call'[y] = call[y]
    <2>1. DOMAIN call = Clients
      BY DEF InventoryInv, Domains
    <2>2. CASE End(p)
      BY <1>2, <2>1, <2>2, NoCallOK DEF End
    <2>3. CASE call' = [call EXCEPT ![p].pc = "refetch", ![p].awaits = view[p]]
      <3> DEFINE new == [old EXCEPT !.pc = "refetch", !.awaits = view[p]]
      <3>1. call'[p] = new /\ DOMAIN call' = Clients /\ \A y \in Clients \ {p} : call'[y] = call[y]
        BY <1>2, <2>1, <2>3
      <3>2. /\ DOMAIN new = DOMAIN old /\ new.pc = "refetch" /\ new.op = old.op /\ new.of = old.of
            /\ new.with = old.with /\ new.closed = old.closed /\ new.ver = old.ver
            /\ new.turned = old.turned
        BY <1>2 DEF IsRequest, CallFields
      <3> HIDE DEF new
      <3>3. IsRequest(p, new)
        BY <1>2, <3>2 DEF IsRequest
      <3>4. CallOK(p, new)
        BY <1>5, <3>2, <3>3 DEF CallOK
      <3>5. QED BY <3>1, <3>4
    <2>4. QED BY <1>1, <2>2, <2>3
  <1>11. PICK fm : fm = Clean(p) /\ FormOK(p, fm)
    BY CleanOK
  <1>12. /\ Domains' /\ form'[p] = fm /\ saved'[p] = sv /\ shown'[p] = t /\ fetch'[p] = fe /\ view'[p] = v
         /\ \A q \in Pages \ {p} : /\ form'[q] = form[q] /\ saved'[q] = saved[q] /\ view'[q] = view[q]
                                   /\ shown'[q] = shown[q] /\ fetch'[q] = fetch[q]
    BY <1>1, <1>9, <1>10, <1>11 DEF InventoryInv, Domains
  <1>13. QED BY <1>1, <1>9, <1>10, <1>11, <1>12, PageStep

-----------------------------------------------------------------------------
(* The invariant holds. *)

LEMMA InventoryInit ==
  ASSUME Init
  PROVE  InventoryInv
  <1>1. /\ DOMAIN row = DOMAIN First
        /\ \A a \in DOMAIN First : row[a] = [vals |-> First[a], ver |-> 1, born |-> 0]
    BY DEF Init
  <1>2. RowInv
    BY <1>1, FirstOK DEF RowInv, RowType, NamesUnique, RowsOK, Legit
  <1>3. owner = <<>>
    BY DEF Init
  <1>4. OwnerInv
    BY <1>3 DEF OwnerInv, TransfersClose
  <1>5. ASSUME NEW x \in Clients PROVE CallOK(x, call[x])
    BY NoCallOK DEF Init
  <1>6. ASSUME NEW p \in Pages PROVE FormOK(p, form[p])
    BY CleanOK DEF Init
  <1>7. ASSUME NEW p \in Pages PROVE TableOK(p)
    <2>1. /\ view[p] = Blank /\ DOMAIN shown[p] = {} /\ DOMAIN saved[p] = {} /\ DOMAIN fetch[p] = Texts
          /\ \A q \in Texts : fetch[p][q] \in {Sending, NoFetch}
      BY DEF Init
    <2>2. \A q \in Texts : FetchOK(p, fetch[p][q], saved[p])
      BY <2>1, NoFetchOK
    <2>3. QED BY <2>1, <2>2 DEF TableOK, TablesOK, SavesOK, Texts
  <1>8. Domains
    BY DEF Init, Domains
  <1>9. QED BY <1>2, <1>4, <1>5, <1>6, <1>7, <1>8 DEF InventoryInv

LEMMA InventoryStep ==
  ASSUME InventoryInv, [Next]_vars
  PROVE  InventoryInv'
  <1>1. ASSUME NEW p \in Pages, \/ Save(p) \/ Resume(p) \/ Saved(p) \/ CancelEdit(p) \/ Reload(p)
                                \/ \E a \in Assets : Edit(p, a)
        PROVE  InventoryInv'
    BY <1>1, SaveOK, ResumeOK, SavedOK, CancelEditOK, ReloadOK, EditOK
  <1>2. ASSUME NEW p \in Pages, NEW q \in Texts, Filter(p, q) \/ List(p, q) \/ Show(p, q) \/ FetchFails(p, q)
        PROVE  InventoryInv'
    BY <1>2, FilterOK, ListOK, ShowOK, FetchFailsOK
  <1>3. ASSUME NEW p \in Pages, NEW f \in DOMAIN form[p].vals, NEW v \in Input(p, f), UpdateField(p, f, v)
        PROVE  InventoryInv'
    BY <1>3, UpdateFieldOK
  <1>4. ASSUME NEW c \in Callers, Ask(c)
        PROVE  InventoryInv'
    BY <1>4, AskOK
  <1>5. ASSUME NEW x \in Clients, Serve(x) \/ Lose(x)
        PROVE  InventoryInv'
    BY <1>5, FindOK, InsertOK, UpdateOK, CloseOpenOK, OpenRowOK, RecordOK, ApplyOK, IngestTelemetryOK,
       LoseOK DEF Serve
  <1>6. CASE UNCHANGED vars
    <2>1. Grows /\ RowInv' /\ OwnerInv'
      BY <1>6, TablesSame DEF vars
    <2>2. Domains' /\ UNCHANGED <<view, shown, fetch>>
      BY <1>6 DEF vars, table, InventoryInv, Domains
    <2>3. \A x \in Clients : CallOK(x, call[x])'
      BY <1>6, <2>1, CallAfter DEF vars, InventoryInv
    <2>4. \A p \in Pages : FormOK(p, form[p])' /\ TableOK(p)'
      BY <1>6, <2>1, <2>2, FormAfter, TableSame DEF vars, InventoryInv
    <2>5. QED BY <2>1, <2>2, <2>3, <2>4 DEF InventoryInv
  <1>7. QED BY <1>1, <1>2, <1>3, <1>4, <1>5, <1>6 DEF Next

\* The invariant: what is in a form, a request, a fetch and a table is of the
\* asset it is for, or came with a save that turned to it; a table that a page
\* has for valid, or is about to have, is as new as the page's saves, unless
\* its fetch was older; and what a transfer has to close stays closed until it
\* opens its own row.
THEOREM InventoryInvariant == Spec => []InventoryInv
  <1>1. Init => InventoryInv
    BY InventoryInit
  <1>2. InventoryInv /\ [Next]_vars => InventoryInv'
    BY InventoryStep
  <1>3. QED BY <1>1, <1>2, PTL DEF Spec

-----------------------------------------------------------------------------
(* What follows. *)

\* Two assets of a kind never have the same name (create and update of the
\* three services, which look first, or not at all, and write later).
THEOREM InventoryNamesUnique == Spec => []NamesUnique
  <1>1. InventoryInv => NamesUnique
    BY DEF InventoryInv, RowInv
  <1>2. QED BY <1>1, InventoryInvariant, PTL

\* Forms and half-done recharges carry no value to an asset that it was not
\* meant for, but for saves that were paused and turned to another row (the
\* pages' edit, mutationFn and onSuccess, recharge, ingestTelemetry).
THEOREM InventoryValuesStay == Spec => []ValuesStayWithAsset
  <1>1. InventoryInv => ValuesStayWithAsset
    BY DEF InventoryInv, RowInv, RowsOK, Legit, ValuesStayWithAsset
  <1>2. QED BY <1>1, InventoryInvariant, PTL

\* A valid table is as new as the saves of its page, unless its fetch was under
\* way and not cancelled when the save was answered (the pages' onSuccess,
\* which invalidates the query of every filter).
THEOREM InventoryNoStaleTable == Spec => []NoStaleTable
  <1>1. ASSUME InventoryInv PROVE NoStaleTable
    <2>1. ASSUME NEW p \in Pages, NEW q \in DOMAIN shown[p], shown[p][q].valid, ~shown[p][q].old
          PROVE  \A a \in DOMAIN saved[p] \cap DOMAIN shown[p][q].rows :
                   shown[p][q].rows[a].ver >= saved[p][a]
      <3>1. EntryOK(p, shown[p][q], saved[p])
        BY <1>1 DEF InventoryInv, TableOK, TablesOK
      <3>2. shown[p][q].valid # FALSE /\ shown[p][q].old # TRUE
        BY <2>1
      <3>3. QED BY <3>1, <3>2 DEF EntryOK, IsFresh
    <2>2. QED BY <2>1 DEF NoStaleTable
  <1>2. QED BY <1>1, InventoryInvariant, PTL

\* Open owners of one asset are of transfers that overlapped (transfer).
THEOREM InventoryTransfersClose == Spec => []TransfersClose
  <1>1. InventoryInv => TransfersClose
    BY DEF InventoryInv, OwnerInv
  <1>2. QED BY <1>1, InventoryInvariant, PTL

-----------------------------------------------------------------------------
(* Values and types.  What a request, a form or a fetch carries comes from   *)
(* the inputs, the first rows or the defaults, and so does what is stored.   *)

\* What comes with a request: a person if it hands an asset over, a package or
\* a reading if it stores one.
RequestVals(c) ==
  /\ \A f \in DOMAIN c.dto : f \in Fields /\ c.dto[f] \in Values
  /\ c.op = "transfer" => c.with \in People
  /\ c.op \in {"recharge", "telemetry", "direct"} => c.with \in Words

Phases == {"idle", "paused", "find", "write", "apply", "open", "answer", "refetch"}

CallTyped(c) == c.pc \in Phases /\ (c # NoCall => RequestVals(c))

FormTyped(fm) ==
  fm.typed \subseteq DOMAIN fm.vals /\ \A f \in DOMAIN fm.vals : fm.vals[f] \in Values \cup {Blank}

EntryTyped(e) == Rows(e.rows) /\ e.valid \in BOOLEAN /\ e.old \in BOOLEAN

FetchTyped(fe) ==
  fe.pc \in {"idle", "sent", "read"} /\ fe.old \in BOOLEAN /\ (fe.pc = "read" => Rows(fe.rows))

ViewTyped(t, fe) == (\A q \in DOMAIN t : EntryTyped(t[q])) /\ \A q \in Texts : FetchTyped(fe[q])

OwnersTyped ==
  \A i \in DOMAIN owner : owner[i] \in [of: Assets, who: People, open: BOOLEAN, closed: Nat]

MeantTyped == meant \cup strayed \subseteq Assets \X Fields \X Values

TablesTyped ==
  /\ Rows(row) /\ DOMAIN First \subseteq DOMAIN row /\ OwnersTyped
  /\ recorded \subseteq Assets \X Fields \X Words /\ MeantTyped

CallsTyped == \A x \in Clients : CallTyped(call[x])

FormsTyped == \A p \in Pages : FormTyped(form[p])

PagesTyped == \A p \in Pages : ViewTyped(shown[p], fetch[p])

BoundsOK == calls \in 0 .. MaxCalls /\ reloads \in 0 .. MaxReloads /\ faults \in 0 .. MaxFaults

ValuesInv == TablesTyped /\ CallsTyped /\ FormsTyped /\ PagesTyped /\ BoundsOK

LEMMA FieldFacts ==
  /\ {"signal", "packageType"} \subseteq Fields /\ \A k \in Kinds : DOMAIN EmptyForm[k] \subseteq Fields
  /\ Names \cup Words \cup {Null, "OK"} \subseteq Values
  <1>1. "packageType" \in DOMAIN EmptyForm["SIM"] /\ "SIM" \in Kinds
    BY DEF EmptyForm, SimForm, Kinds
  <1>2. QED BY <1>1 DEF Fields, Values

LEMMA NewRowFields ==
  ASSUME NEW k \in Kinds, NEW dto
  PROVE  DOMAIN NewRow(k, dto) \subseteq Fields
  <1>1. CASE k = "DEVICE"
    BY <1>1 DEF Fields, EmptyForm, DeviceForm, Kinds, NewRow, DeviceRow
  <1>2. CASE k = "SIM"
    BY <1>2 DEF Fields, EmptyForm, SimForm, Kinds, NewRow, SimRow
  <1>3. CASE k = "ROUTER"
    BY <1>3 DEF Fields, EmptyForm, RouterForm, Kinds, NewRow, RouterRow
  <1>4. QED BY <1>1, <1>2, <1>3 DEF Kinds

\* The steps that give a client a new request, or none.
LEMMA CallsTypedStep ==
  ASSUME InventoryInv, CallsTyped, NEW x \in Clients, NEW c, CallTyped(c), call' = [call EXCEPT ![x] = c]
  PROVE  CallsTyped'
  <1>1. DOMAIN call = Clients
    BY DEF InventoryInv, Domains
  <1>2. ASSUME NEW y \in Clients PROVE CallTyped(call[y])'
    <2>1. PICK d : d = call'[y] /\ CallTyped(d)
      BY <1>1 DEF CallsTyped
    <2>2. CallTyped(d)'
      BY <2>1 DEF CallTyped, RequestVals
    <2>3. QED BY <2>1, <2>2
  <1>3. QED BY <1>2 DEF CallsTyped

LEMMA NoCallTyped == CallTyped(NoCall)
  BY DEF CallTyped, NoCall, Phases

LEMMA CallsEnd ==
  ASSUME InventoryInv, CallsTyped, NEW x \in Clients, End(x)
  PROVE  CallsTyped'
  <1>1. PICK c : c = NoCall /\ CallTyped(c)
    BY NoCallTyped
  <1>2. QED BY <1>1, CallsTypedStep DEF End

\* The request of a client that waits for it.
LEMMA RequestOf ==
  ASSUME InventoryInv, CallsTyped, NEW x \in Clients, call[x].pc # "idle"
  PROVE  IsRequest(x, call[x]) /\ RequestVals(call[x])
  <1>1. call[x] # NoCall
    BY DEF NoCall
  <1>2. QED BY <1>1, CallOf DEF CallsTyped, CallTyped

LEMMA CallsGoto ==
  ASSUME InventoryInv, CallsTyped, NEW x \in Clients, call[x].pc # "idle", NEW pc \in Phases, Goto(x, pc)
  PROVE  CallsTyped'
  <1> DEFINE old == call[x]
             c == [old EXCEPT !.pc = pc]
  <1>1. IsRequest(x, old) /\ RequestVals(old)
    BY RequestOf
  <1>2. c.pc = pc /\ c.op = old.op /\ c.dto = old.dto /\ c.with = old.with
    BY <1>1 DEF IsRequest, CallFields
  <1>3. call' = [call EXCEPT ![x] = c]
    BY DEF Goto
  <1> HIDE DEF c
  <1>4. CallTyped(c)
    BY <1>1, <1>2 DEF CallTyped, RequestVals
  <1>5. QED BY <1>3, <1>4, CallsTypedStep

LEMMA CallsAnswer ==
  ASSUME InventoryInv, CallsTyped, NEW x \in Clients, call[x].pc # "idle", NEW a, NEW ver, Answer(x, a, ver)
  PROVE  CallsTyped'
  <1>1. CASE x \notin Pages
    BY <1>1, CallsEnd DEF Answer
  <1>2. CASE x \in Pages
    <2> DEFINE old == call[x]
               c == [old EXCEPT !.pc = "answer", !.of = a, !.ver = ver]
    <2>1. IsRequest(x, old) /\ RequestVals(old)
      BY RequestOf
    <2>2. c.pc = "answer" /\ c.op = old.op /\ c.dto = old.dto /\ c.with = old.with
      BY <2>1 DEF IsRequest, CallFields
    <2>3. call' = [call EXCEPT ![x] = c]
      <3>1. call' = [call EXCEPT ![x].pc = "answer", ![x].of = a, ![x].ver = ver]
        BY <1>2 DEF Answer
      <3>2. DOMAIN call = Clients
        BY DEF InventoryInv, Domains
      <3>3. QED BY <2>1, <3>1, <3>2 DEF IsRequest, CallFields
    <2> HIDE DEF c
    <2>4. CallTyped(c)
      BY <2>1, <2>2 DEF CallTyped, RequestVals, Phases
    <2>5. QED BY <2>3, <2>4, CallsTypedStep
  <1>3. QED BY <1>1, <1>2

LEMMA CallsBegin ==
  ASSUME InventoryInv, CallsTyped, BoundsOK, NEW x \in Clients, NEW pc \in Phases, NEW op, NEW of,
         NEW dto, NEW typed, NEW with, Begin(x, pc, op, of, dto, typed, with),
         \A f \in DOMAIN dto : f \in Fields /\ dto[f] \in Values,
         op = "transfer" => with \in People,
         op \in {"recharge", "telemetry", "direct"} => with \in Words
  PROVE  CallsTyped' /\ BoundsOK'
  <1> DEFINE c == [op |-> op, of |-> of, dto |-> dto, typed |-> typed,
                   with |-> with, pc |-> pc, ver |-> 0, closed |-> 0,
                   turned |-> FALSE, awaits |-> Blank]
  <1>1. CallTyped(c) /\ call' = [call EXCEPT ![x] = c]
    BY DEF Begin, CallTyped, RequestVals
  <1> HIDE DEF c
  <1>2. CallsTyped'
    BY <1>1, CallsTypedStep
  <1>3. BoundsOK'
    BY InventoryConstantsOK DEF Begin, BoundsOK
  <1>4. QED BY <1>2, <1>3

LEMMA FormsTypedStep ==
  ASSUME InventoryInv, FormsTyped, NEW p \in Pages, NEW fm, FormTyped(fm), form' = [form EXCEPT ![p] = fm]
  PROVE  FormsTyped'
  <1>1. DOMAIN form = Pages
    BY DEF InventoryInv, Domains
  <1>2. ASSUME NEW q \in Pages PROVE FormTyped(form[q])'
    <2>1. PICK f : f = form'[q] /\ FormTyped(f)
      BY <1>1 DEF FormsTyped
    <2>2. FormTyped(f)'
      BY <2>1 DEF FormTyped
    <2>3. QED BY <2>1, <2>2
  <1>3. QED BY <1>2 DEF FormsTyped

LEMMA CleanTyped ==
  ASSUME NEW p \in Pages
  PROVE  FormTyped(Clean(p))
  BY InventoryConstantsOK, KindFacts, FieldFacts DEF FormTyped, Clean

\* What is the same after a step is as well typed as before.
LEMMA TablesTypedSame ==
  ASSUME TablesTyped, UNCHANGED <<tables, entered>>
  PROVE  TablesTyped'
  BY DEF TablesTyped, OwnersTyped, MeantTyped, Rows, tables, entered

LEMMA CallsTypedSame ==
  ASSUME CallsTyped, UNCHANGED call
  PROVE  CallsTyped'
  BY DEF CallsTyped, CallTyped, RequestVals

LEMMA FormsTypedSame ==
  ASSUME FormsTyped, UNCHANGED form
  PROVE  FormsTyped'
  BY DEF FormsTyped, FormTyped

LEMMA PagesTypedSame ==
  ASSUME PagesTyped, UNCHANGED table
  PROVE  PagesTyped'
  BY DEF PagesTyped, ViewTyped, EntryTyped, FetchTyped, Rows, table

LEMMA BoundsSame ==
  ASSUME BoundsOK, UNCHANGED bounds
  PROVE  BoundsOK'
  BY DEF BoundsOK, bounds

\* A page's fetches and tables after a step.
LEMMA PagesTypedStep ==
  ASSUME PagesTyped, NEW p \in Pages, NEW t, NEW fe, ViewTyped(t, fe), shown'[p] = t, fetch'[p] = fe,
         \A q \in Pages \ {p} : shown'[q] = shown[q] /\ fetch'[q] = fetch[q]
  PROVE  PagesTyped'
  <1>1. ASSUME NEW q \in Pages PROVE ViewTyped(shown[q], fetch[q])'
    <2>1. PICK u, f : u = shown'[q] /\ f = fetch'[q] /\ ViewTyped(u, f)
      BY DEF PagesTyped
    <2>2. ViewTyped(u, f)'
      BY <2>1 DEF ViewTyped, EntryTyped, FetchTyped, Rows
    <2>3. QED BY <2>1, <2>2
  <1>2. QED BY <1>1 DEF PagesTyped

\* Pages and their forms.
LEMMA FormValues ==
  ASSUME InventoryInv, ValuesInv, NEW p \in Pages,
         CancelEdit(p) \/ (\E a \in Assets : Edit(p, a))
           \/ (\E f \in DOMAIN form[p].vals : \E v \in Input(p, f) : UpdateField(p, f, v))
  PROVE  ValuesInv'
  <1>1. UNCHANGED <<tables, call, table, entered, bounds>>
    BY DEF CancelEdit, Edit, UpdateField
  <1>2. FormsTyped'
    <2>1. CASE CancelEdit(p)
      <3>1. PICK fm : fm = Clean(p) /\ FormTyped(fm)
        BY CleanTyped
      <3>2. QED BY <2>1, <3>1, FormsTypedStep DEF CancelEdit, ValuesInv
    <2>2. ASSUME NEW a \in Assets, Edit(p, a) PROVE FormsTyped'
      <3> DEFINE vals == Displayed(p)[a].vals
                 fm == [of |-> a, vals |-> FormOf(Shows[p], vals), typed |-> {}]
      <3>1. /\ a \in DOMAIN Displayed(p) /\ IsTable(p, Displayed(p)) /\ Shows[p] \in Kinds
            /\ view[p] \in DOMAIN shown[p]
        BY <2>2, InventoryConstantsOK, DisplayedTable DEF Edit
      <3>2. Rows(Displayed(p))
        BY <3>1 DEF ValuesInv, PagesTyped, ViewTyped, EntryTyped, Displayed
      <3>3. \A f \in DOMAIN EmptyForm[Shows[p]] : vals[f] \in Values
        BY <3>1, <3>2 DEF IsTable, Rows
      <3>4. \A f \in DOMAIN EmptyForm[Shows[p]] : FormOf(Shows[p], vals)[f] \in Values \cup {Blank}
        BY <3>1, <3>3, KindFacts, FieldFacts DEF FormOf
      <3>5. DOMAIN FormOf(Shows[p], vals) = DOMAIN EmptyForm[Shows[p]]
        BY DEF FormOf
      <3>6. FormTyped(fm) /\ form' = [form EXCEPT ![p] = fm]
        BY <2>2, <3>4, <3>5 DEF FormTyped, Edit
      <3> HIDE DEF fm
      <3>7. QED BY <3>6, FormsTypedStep DEF ValuesInv
    <2>3. ASSUME NEW f \in DOMAIN form[p].vals, NEW v \in Input(p, f), UpdateField(p, f, v)
          PROVE  FormsTyped'
      <3> DEFINE old == form[p]
                 fm == [old EXCEPT !.vals = [old.vals EXCEPT ![f] = v], !.typed = old.typed \cup {f}]
      <3>1. FormOK(p, old) /\ FormTyped(old)
        BY DEF InventoryInv, ValuesInv, FormsTyped
      <3>2. fm.vals = [old.vals EXCEPT ![f] = v] /\ fm.typed = old.typed \cup {f}
        BY <3>1 DEF FormOK
      <3>3. v \in Values \cup {Blank}
        BY FieldFacts DEF Input
      <3>4. form' = [form EXCEPT ![p] = fm]
        BY <2>3, <3>1 DEF UpdateField, InventoryInv, Domains, FormOK
      <3> HIDE DEF fm
      <3>5. FormTyped(fm)
        BY <3>1, <3>2, <3>3 DEF FormTyped
      <3>6. QED BY <3>4, <3>5, FormsTypedStep DEF ValuesInv
    <2>4. QED BY <2>1, <2>2, <2>3
  <1>3. QED
    BY <1>1, <1>2, TablesTypedSame, CallsTypedSame, PagesTypedSame, BoundsSame DEF ValuesInv

LEMMA BeginValues ==
  ASSUME InventoryInv, ValuesInv, (\E p \in Pages : Save(p)) \/ (\E x \in Callers : Ask(x))
  PROVE  ValuesInv'
  <1>1. UNCHANGED <<tables, form, table, entered>>
    BY DEF Save, Ask
  <1>2. CallsTyped' /\ BoundsOK'
    <2>1. ASSUME NEW p \in Pages, Save(p) PROVE CallsTyped' /\ BoundsOK'
      <3> DEFINE fm == form[p]
                 dto == Payload(fm.vals)
                 op == OpFor(fm.of)
      <3>1. FormOK(p, fm) /\ FormTyped(fm) /\ p \in Clients /\ Shows[p] \in Kinds
        BY InventoryConstantsOK DEF InventoryInv, Clients, ValuesInv, FormsTyped
      <3>2. \A f \in DOMAIN dto : f \in DOMAIN fm.vals /\ dto[f] = fm.vals[f] /\ dto[f] # Blank
        BY DEF Payload
      <3>3. \A f \in DOMAIN dto : f \in Fields /\ dto[f] \in Values
        BY <3>1, <3>2, FieldFacts DEF FormOK, FormTyped
      <3>4. PICK pc \in Phases : Begin(p, pc, op, fm.of, dto, fm.typed, None)
        BY <2>1 DEF Save, Phases
      <3>5. op \in {"create", "update"}
        BY DEF OpFor
      <3> HIDE DEF dto, op
      <3>6. QED BY <3>1, <3>3, <3>4, <3>5, CallsBegin DEF ValuesInv
    <2>2. ASSUME NEW x \in Callers, Ask(x) PROVE CallsTyped' /\ BoundsOK'
      <3>1. PICK g \in May[x] : Begin(x, "find", g.op, g.of, g.dto, DOMAIN g.dto, g.with)
        BY <2>2 DEF Ask
      <3>2. IsGoal(g) /\ x \in Clients /\ KindOf[g.of] \in Kinds
        BY InventoryConstantsOK DEF Clients, IsGoal
      <3>3. \A f \in DOMAIN g.dto : f \in Fields /\ g.dto[f] \in Values
        BY <3>2, FieldFacts DEF IsGoal
      <3>4. /\ g.op = "transfer" => g.with \in People
            /\ g.op \in {"recharge", "telemetry", "direct"} => g.with \in Words
        BY <3>2 DEF IsGoal
      <3>5. "find" \in Phases
        BY DEF Phases
      <3>6. QED BY <3>1, <3>2, <3>3, <3>4, <3>5, CallsBegin DEF ValuesInv
    <2>3. QED BY <2>1, <2>2
  <1>3. QED BY <1>1, <1>2, TablesTypedSame, FormsTypedSame, PagesTypedSame DEF ValuesInv

LEMMA ResumeValues ==
  ASSUME InventoryInv, ValuesInv, NEW p \in Pages, Resume(p)
  PROVE  ValuesInv'
  <1>1. /\ call[p].pc = "paused" /\ p \in Clients
        /\ UNCHANGED <<tables, form, table, entered, bounds>>
    BY DEF Resume, Clients
  <1>2. CallsTyped'
    <2>1. CASE End(p)
      BY <1>1, <2>1, CallsEnd DEF ValuesInv
    <2>2. CASE call' = [call EXCEPT ![p].pc = "find", ![p].op = OpFor(Target(p)), ![p].of = Target(p),
                                    ![p].turned = Target(p) # call[p].of]
      <3> DEFINE old == call[p]
                 of == Target(p)
                 c == [old EXCEPT !.pc = "find", !.op = OpFor(of), !.of = of, !.turned = of # old.of]
      <3>1. IsRequest(p, old) /\ RequestVals(old)
        BY <1>1, RequestOf DEF ValuesInv
      <3>2. c.pc = "find" /\ c.op = OpFor(of) /\ c.dto = old.dto /\ c.with = old.with
        BY <3>1 DEF IsRequest, CallFields
      <3>3. call' = [call EXCEPT ![p] = c]
        BY <1>1, <2>2, <3>1 DEF InventoryInv, Domains, IsRequest, CallFields
      <3> HIDE DEF c, of
      <3>4. CallTyped(c)
        BY <3>1, <3>2 DEF CallTyped, RequestVals, Phases, OpFor
      <3>5. QED BY <1>1, <3>3, <3>4, CallsTypedStep DEF ValuesInv
    <2>3. QED BY <2>1, <2>2 DEF Resume
  <1>3. QED
    BY <1>1, <1>2, TablesTypedSame, FormsTypedSame, PagesTypedSame, BoundsSame DEF ValuesInv

LEMMA FetchedTyped ==
  ASSUME InventoryInv, CallsTyped, NEW p \in Pages, NEW q \in Texts, Fetched(p, q)
  PROVE  CallsTyped'
  <1>1. p \in Clients
    BY DEF Clients
  <1>2. QED BY <1>1, CallsEnd, CallsTypedSame DEF Fetched

LEMMA EntriesInvalid ==
  ASSUME NEW e, EntryTyped(e), NEW p, NEW sv, EntryOK(p, e, sv)
  PROVE  EntryTyped([e EXCEPT !.valid = FALSE])
  BY DEF EntryTyped, EntryOK

LEMMA NoFetchTyped == FetchTyped(NoFetch) /\ FetchTyped(Sending)
  BY DEF FetchTyped, NoFetch, Sending

\* A page's tables as they are, and with another fetch for q.
LEMMA FetchTypedStep ==
  ASSUME InventoryInv, PagesTyped, NEW p \in Pages, NEW q \in Texts, NEW f, FetchTyped(f), Fetches(p, q, f),
         NEW t, \A u \in DOMAIN t : EntryTyped(t[u]), shown'[p] = t,
         \A o \in Pages \ {p} : shown'[o] = shown[o]
  PROVE  PagesTyped'
  <1>1. PICK fe : fe = [fetch[p] EXCEPT ![q] = f]
    OBVIOUS
  <1>2. ViewTyped(t, fe)
    BY <1>1 DEF PagesTyped, ViewTyped, InventoryInv, TableOK, TablesOK
  <1>3. fetch'[p] = fe /\ \A o \in Pages \ {p} : fetch'[o] = fetch[o]
    BY <1>1 DEF Fetches, InventoryInv, Domains
  <1>4. QED BY <1>2, <1>3, PagesTypedStep

LEMMA SendValues ==
  ASSUME InventoryInv, ValuesInv, NEW p \in Pages, Reload(p) \/ \E q \in Texts : Filter(p, q)
  PROVE  ValuesInv'
  <1>1. /\ UNCHANGED <<tables, call, form, shown, entered>> /\ reloads < MaxReloads
        /\ reloads' = reloads + 1 /\ UNCHANGED <<calls, faults>>
    BY DEF Reload, Filter
  <1>2. PagesTyped'
    <2>1. view[p] \in Texts /\ \A u \in DOMAIN shown[p] : EntryTyped(shown[p][u])
      BY DEF InventoryInv, TableOK, TablesOK, ValuesInv, PagesTyped, ViewTyped
    <2>2. PICK f, t : f = Sending /\ FetchTyped(f) /\ t = shown[p]
      BY NoFetchTyped
    <2>3. ASSUME NEW q \in Texts, Fetches(p, q, f) PROVE PagesTyped'
      BY <1>1, <2>1, <2>2, <2>3, FetchTypedStep DEF ValuesInv
    <2>4. CASE UNCHANGED fetch
      BY <1>1, <2>4 DEF ValuesInv, PagesTyped, ViewTyped, EntryTyped, FetchTyped, Rows
    <2>5. QED BY <2>1, <2>2, <2>3, <2>4 DEF Reload, Filter
  <1>3. BoundsOK'
    BY <1>1, InventoryConstantsOK DEF BoundsOK, ValuesInv
  <1>4. QED BY <1>1, <1>2, <1>3, TablesTypedSame, CallsTypedSame, FormsTypedSame DEF ValuesInv

LEMMA FetchValues ==
  ASSUME InventoryInv, ValuesInv, NEW p \in Pages, NEW q \in Texts, List(p, q) \/ Show(p, q) \/ FetchFails(p, q)
  PROVE  ValuesInv'
  <1>1. UNCHANGED <<tables, form, entered>> /\ DOMAIN shown = Pages
    BY DEF List, Show, FetchFails, InventoryInv, Domains
  <1>2. /\ \A u \in DOMAIN shown[p] : EntryTyped(shown[p][u]) /\ EntryOK(p, shown[p][u], saved[p])
        /\ FetchTyped(fetch[p][q])
    BY DEF ValuesInv, PagesTyped, ViewTyped, InventoryInv, TableOK, TablesOK
  <1>3. CASE List(p, q)
    <2>1. PICK as \in SUBSET Found(p, q) :
            Fetches(p, q, [pc |-> "read", rows |-> [a \in as |-> row[a]], old |-> fetch[p][q].old])
      BY <1>3 DEF List
    <2> DEFINE rows == [a \in as |-> row[a]]
               f == [pc |-> "read", rows |-> rows, old |-> fetch[p][q].old]
    <2>2. Rows(rows) /\ f.pc = "read" /\ f.rows = rows /\ f.old \in BOOLEAN
      BY <1>2, <2>1 DEF ValuesInv, TablesTyped, Rows, Found, FetchTyped
    <2>3. Fetches(p, q, f)
      BY <2>1
    <2>4. UNCHANGED <<shown, call, form, bounds>>
      BY <1>3 DEF List
    <2> HIDE DEF f, rows
    <2>5. FetchTyped(f)
      BY <2>2 DEF FetchTyped
    <2>6. PICK t : t = shown[p]
      OBVIOUS
    <2>7. PagesTyped'
      BY <1>2, <2>3, <2>4, <2>5, <2>6, FetchTypedStep DEF ValuesInv
    <2>8. QED BY <1>1, <2>4, <2>7, TablesTypedSame, CallsTypedSame, FormsTypedSame, BoundsSame DEF ValuesInv
  <1>4. CASE Show(p, q)
    <2> DEFINE e == [rows |-> fetch[p][q].rows, valid |-> TRUE, old |-> fetch[p][q].old]
               t == Put(shown[p], q, e)
    <2>1. EntryTyped(e)
      BY <1>2, <1>4 DEF Show, FetchTyped, EntryTyped
    <2> HIDE DEF e
    <2>2. \A u \in DOMAIN t : EntryTyped(t[u])
      BY <1>2, <2>1 DEF Put
    <2>3. shown' = [shown EXCEPT ![p] = t] /\ Fetched(p, q) /\ UNCHANGED bounds
      BY <1>4 DEF Show, e
    <2>4. shown'[p] = t /\ \A o \in Pages \ {p} : shown'[o] = shown[o]
      BY <1>1, <2>3
    <2> HIDE DEF t
    <2>5. PICK f : f = NoFetch /\ FetchTyped(f) /\ Fetches(p, q, f)
      BY <2>3, NoFetchTyped DEF Fetched
    <2>6. PagesTyped' /\ CallsTyped'
      BY <2>2, <2>3, <2>4, <2>5, FetchTypedStep, FetchedTyped DEF ValuesInv
    <2>7. QED BY <1>1, <2>3, <2>6, TablesTypedSame, FormsTypedSame, BoundsSame DEF ValuesInv
  <1>5. CASE FetchFails(p, q)
    <2>1. BoundsOK'
      BY <1>5, InventoryConstantsOK DEF FetchFails, Fault, BoundsOK, ValuesInv
    <2>2. CASE /\ Fetches(p, q, [pc |-> "sent", old |-> fetch[p][q].old]) /\ UNCHANGED <<call, shown>>
      <3>1. PICK f, t : f = [pc |-> "sent", old |-> fetch[p][q].old] /\ t = shown[p]
        OBVIOUS
      <3>2. FetchTyped(f)
        BY <1>2, <3>1 DEF FetchTyped
      <3>3. PagesTyped'
        BY <1>2, <2>2, <3>1, <3>2, FetchTypedStep DEF ValuesInv
      <3>4. QED BY <1>1, <2>1, <2>2, <3>3, TablesTypedSame, CallsTypedSame, FormsTypedSame DEF ValuesInv
    <2>3. CASE /\ shown' = [shown EXCEPT ![p] = [u \in DOMAIN @ |->
                              IF u = q THEN [@[u] EXCEPT !.valid = FALSE] ELSE @[u]]]
               /\ Fetched(p, q)
      <3> DEFINE t == [u \in DOMAIN shown[p] |->
                         IF u = q THEN [shown[p][u] EXCEPT !.valid = FALSE] ELSE shown[p][u]]
      <3>1. \A u \in DOMAIN t : EntryTyped(t[u])
        BY <1>2, EntriesInvalid
      <3>2. shown'[p] = t /\ \A o \in Pages \ {p} : shown'[o] = shown[o]
        BY <1>1, <2>3
      <3> HIDE DEF t
      <3>3. PICK f : f = NoFetch /\ FetchTyped(f) /\ Fetches(p, q, f)
        BY <2>3, NoFetchTyped DEF Fetched
      <3>4. PagesTyped' /\ CallsTyped'
        BY <2>3, <3>1, <3>2, <3>3, FetchTypedStep, FetchedTyped DEF ValuesInv
      <3>5. QED BY <1>1, <2>1, <3>4, TablesTypedSame, FormsTypedSame DEF ValuesInv
    <2>4. QED BY <1>5, <2>2, <2>3 DEF FetchFails
  <1>6. QED BY <1>3, <1>4, <1>5

LEMMA SavedValues ==
  ASSUME InventoryInv, ValuesInv, NEW p \in Pages, Saved(p)
  PROVE  ValuesInv'
  <1> DEFINE t == Invalidated(shown[p])
             fe == Refetch(p)
  <1>1. /\ call[p].pc = "answer" /\ form' = [form EXCEPT ![p] = Clean(p)] /\ p \in Clients
        /\ shown' = [shown EXCEPT ![p] = t] /\ fetch' = [fetch EXCEPT ![p] = fe]
        /\ UNCHANGED <<tables, entered, bounds>>
        /\ End(p) \/ call' = [call EXCEPT ![p].pc = "refetch", ![p].awaits = view[p]]
    BY DEF Saved, Cleared, Clients
  <1>2. CallsTyped'
    <2>1. CASE End(p)
      BY <1>1, <2>1, CallsEnd DEF ValuesInv
    <2>2. CASE call' = [call EXCEPT ![p].pc = "refetch", ![p].awaits = view[p]]
      <3> DEFINE old == call[p]
                 c == [old EXCEPT !.pc = "refetch", !.awaits = view[p]]
      <3>1. IsRequest(p, old) /\ RequestVals(old)
        BY <1>1, RequestOf DEF ValuesInv
      <3>2. c.pc = "refetch" /\ c.op = old.op /\ c.dto = old.dto /\ c.with = old.with
        BY <3>1 DEF IsRequest, CallFields
      <3>3. call' = [call EXCEPT ![p] = c]
        BY <1>1, <2>2, <3>1 DEF InventoryInv, Domains, IsRequest, CallFields
      <3> HIDE DEF c
      <3>4. CallTyped(c)
        BY <3>1, <3>2 DEF CallTyped, RequestVals, Phases
      <3>5. QED BY <1>1, <3>3, <3>4, CallsTypedStep DEF ValuesInv
    <2>3. QED BY <1>1, <2>1, <2>2
  <1>3. FormsTyped'
    <2>1. PICK fm : fm = Clean(p) /\ FormTyped(fm)
      BY CleanTyped
    <2>2. QED BY <1>1, <2>1, FormsTypedStep DEF ValuesInv
  <1>4. /\ ViewTyped(shown[p], fetch[p]) /\ \A q \in Texts : FetchOK(p, fetch[p][q], saved[p])
        /\ \A u \in DOMAIN shown[p] : EntryOK(p, shown[p][u], saved[p])
    BY DEF ValuesInv, PagesTyped, InventoryInv, TableOK, TablesOK
  <1>5. ViewTyped(t, fe)
    <2>1. \A u \in DOMAIN t : EntryTyped(t[u])
      BY <1>4, EntriesInvalid DEF Invalidated, ViewTyped
    <2>2. ASSUME NEW q \in Texts PROVE FetchTyped(fe[q])
      <3>1. CASE GoesOn(p, q)
        <4> DEFINE f == [fetch[p][q] EXCEPT !.old = TRUE]
        <4>1. fe[q] = f
          BY <3>1 DEF Refetch
        <4>2. f.old = TRUE /\ f.pc = fetch[p][q].pc /\ (f.pc = "read" => f.rows = fetch[p][q].rows)
          BY <1>4 DEF FetchOK
        <4> HIDE DEF f
        <4>3. QED BY <1>4, <4>1, <4>2 DEF ViewTyped, FetchTyped
      <3>2. CASE ~GoesOn(p, q)
        <4>1. fe[q] \in {Sending, NoFetch}
          BY <3>2 DEF Refetch
        <4>2. QED BY <4>1, NoFetchTyped
      <3>3. QED BY <3>1, <3>2
    <2>3. QED BY <2>1, <2>2 DEF ViewTyped
  <1> HIDE DEF t, fe
  <1>6. /\ shown'[p] = t /\ fetch'[p] = fe
        /\ \A q \in Pages \ {p} : shown'[q] = shown[q] /\ fetch'[q] = fetch[q]
    BY <1>1 DEF InventoryInv, Domains
  <1>7. PagesTyped'
    BY <1>5, <1>6, PagesTypedStep DEF ValuesInv
  <1>8. QED BY <1>1, <1>2, <1>3, <1>7, TablesTypedSame, BoundsSame DEF ValuesInv

LEMMA FindValues ==
  ASSUME InventoryInv, ValuesInv, NEW x \in Clients, Find(x) \/ Lose(x)
  PROVE  ValuesInv'
  <1>1. UNCHANGED <<tables, form, table, entered>> /\ call[x].pc # "idle"
    BY DEF Find, Lose
  <1>2. CallsTyped'
    BY <1>1, CallsEnd, CallsGoto DEF Find, Lose, Phases, ValuesInv
  <1>3. BoundsOK'
    BY InventoryConstantsOK, BoundsSame DEF Find, Lose, Fault, BoundsOK, ValuesInv
  <1>4. QED BY <1>1, <1>2, <1>3, TablesTypedSame, FormsTypedSame, PagesTypedSame DEF ValuesInv

\* A step that serves a request and leaves the pages alone.
LEMMA ServeValues ==
  ASSUME ValuesInv, TablesTyped', CallsTyped', UNCHANGED <<form, table, bounds>>
  PROVE  ValuesInv'
  BY FormsTypedSame, PagesTypedSame, BoundsSame DEF ValuesInv

\* A row with new values.
LEMMA WrittenTyped ==
  ASSUME InventoryInv, TablesTyped, NEW a \in DOMAIN row, NEW vals, row' = Written(a, vals),
         DOMAIN vals = DOMAIN row[a].vals, \A f \in DOMAIN vals : vals[f] \in Values
  PROVE  Rows(row') /\ DOMAIN First \subseteq DOMAIN row'
  <1>1. DOMAIN row' = DOMAIN row /\ row'[a].vals = vals /\ row'[a].ver = row[a].ver + 1
        /\ \A b \in DOMAIN row \ {a} : row'[b] = row[b]
    BY DEF Written, InventoryInv, RowInv, RowType
  <1>2. \A f \in DOMAIN vals : f \in Fields
    BY DEF TablesTyped, Rows
  <1>3. row[a].ver + 1 \in Nat \ {0}
    BY DEF TablesTyped, Rows
  <1>4. QED BY <1>1, <1>2, <1>3 DEF TablesTyped, Rows

LEMMA MeansTyped ==
  ASSUME TablesTyped, NEW x, NEW a \in Assets, RequestVals(call[x]), Means(a, x)
  PROVE  MeantTyped'
  BY DEF TablesTyped, MeantTyped, RequestVals, Means, Brings

LEMMA InsertValues ==
  ASSUME InventoryInv, ValuesInv, NEW x \in Clients, Insert(x)
  PROVE  ValuesInv'
  <1>1. PICK c, kind : c = call[x] /\ kind = KindFor(x)
    OBVIOUS
  <1>2. /\ c.op = "create" /\ c.pc = "write" /\ UNCHANGED <<owner, recorded, form, table, saved, bounds>>
    BY <1>1 DEF Insert, At
  <1>3. IsRequest(x, c) /\ RequestVals(c) /\ CallOK(x, c) /\ c # NoCall
    BY <1>1, <1>2, RequestOf, CallOf DEF ValuesInv, NoCall
  <1>4. kind \in Kinds /\ kind = KindIn(x, c) /\ Key[kind] \in DOMAIN c.dto
    <2>1. kind = KindIn(x, c) /\ kind \in Kinds
      BY <1>1, <1>3, InventoryConstantsOK DEF KindFor, KindIn, IsRequest
    <2>2. QED BY <1>2, <1>3, <2>1 DEF CallOK, IsFilled
  <1>5. CASE End(x) /\ UNCHANGED <<row, entered>>
    BY <1>2, <1>5, CallsEnd, TablesTypedSame, ServeValues DEF ValuesInv, tables
  <1>6. ASSUME NEW a \in Assets \ DOMAIN row, Answer(x, a, 1), Means(a, x),
               row' = Put(row, a, [vals |-> NewRow(kind, c.dto), ver |-> 1, born |-> Cardinality(DOMAIN row)])
        PROVE  ValuesInv'
    <2> DEFINE vals == NewRow(kind, c.dto)
    <2>1. \A f \in DOMAIN vals : f \in Fields /\ vals[f] \in Values
      BY <1>3, <1>4, NewRowFacts, NewRowFields, FieldFacts DEF RequestVals
    <2> HIDE DEF vals
    <2>2. /\ DOMAIN row' = DOMAIN row \cup {a} /\ row'[a].vals = vals /\ row'[a].ver = 1
          /\ \A b \in DOMAIN row : row'[b] = row[b]
      BY <1>6 DEF Put, vals
    <2>3. Rows(row') /\ DOMAIN First \subseteq DOMAIN row'
      BY <1>6, <2>1, <2>2 DEF ValuesInv, TablesTyped, Rows
    <2>4. MeantTyped'
      BY <1>1, <1>3, <1>6, MeansTyped DEF ValuesInv
    <2>5. TablesTyped'
      BY <1>2, <2>3, <2>4 DEF ValuesInv, TablesTyped, OwnersTyped, Rows
    <2>6. CallsTyped'
      BY <1>1, <1>2, <1>6, CallsAnswer DEF ValuesInv
    <2>7. QED BY <1>2, <2>5, <2>6, ServeValues
  <1>7. QED
    <2> DEFINE unused == {b \in Assets \ DOMAIN row : KindOf[b] = kind}
    <2>1. CASE IsFree(kind, c.dto, None) /\ unused # {}
      <3> DEFINE a == CHOOSE b \in unused : TRUE
      <3>1. a \in unused
        BY <2>1
      <3>2. /\ row' = Put(row, a, [vals |-> NewRow(kind, c.dto), ver |-> 1,
                                  born |-> Cardinality(DOMAIN row)])
            /\ Means(a, x) /\ Answer(x, a, 1)
        BY <1>1, <2>1 DEF Insert
      <3>3. QED BY <1>6, <3>1, <3>2
    <2>2. CASE ~(IsFree(kind, c.dto, None) /\ unused # {})
      BY <1>1, <1>5, <2>2 DEF Insert
    <2>3. QED BY <2>1, <2>2

LEMMA UpdateValues ==
  ASSUME InventoryInv, ValuesInv, NEW x \in Clients, Update(x)
  PROVE  ValuesInv'
  <1>1. PICK c, a : c = call[x] /\ a = c.of
    OBVIOUS
  <1>2. /\ c.op = "update" /\ c.pc = "write" /\ UNCHANGED <<owner, recorded, form, table, saved, bounds>>
    BY <1>1 DEF Update, At
  <1>3. IsRequest(x, c) /\ RequestVals(c) /\ CallOK(x, c) /\ c # NoCall
    BY <1>1, <1>2, RequestOf, CallOf DEF ValuesInv, NoCall
  <1>4. a \in DOMAIN row /\ a \in Assets
    BY <1>1, <1>2, <1>3 DEF CallOK, InventoryInv, RowInv
  <1>5. CASE End(x) /\ UNCHANGED <<row, entered>>
    BY <1>2, <1>5, CallsEnd, TablesTypedSame, ServeValues DEF ValuesInv, tables
  <1> DEFINE vals == Merge(row[a].vals, c.dto)
  <1>6. CASE row' = Written(a, vals) /\ Means(a, x) /\ Answer(x, a, row[a].ver + 1)
    <2>1. DOMAIN vals = DOMAIN row[a].vals /\ \A f \in DOMAIN vals : vals[f] \in Values
      BY <1>3, <1>4 DEF Merge, Given, RequestVals, ValuesInv, TablesTyped, Rows
    <2> HIDE DEF vals
    <2>2. Rows(row') /\ DOMAIN First \subseteq DOMAIN row'
      BY <1>4, <1>6, <2>1, WrittenTyped DEF ValuesInv
    <2>3. MeantTyped'
      BY <1>1, <1>3, <1>4, <1>6, MeansTyped DEF ValuesInv
    <2>4. TablesTyped'
      BY <1>2, <2>2, <2>3 DEF ValuesInv, TablesTyped, OwnersTyped, Rows
    <2>5. PICK ver : ver = row[a].ver + 1
      OBVIOUS
    <2>6. CallsTyped'
      BY <1>1, <1>2, <1>6, <2>5, CallsAnswer DEF ValuesInv
    <2>7. QED BY <1>2, <2>4, <2>6, ServeValues
  <1>7. QED BY <1>1, <1>5, <1>6 DEF Update

LEMMA RecordValues ==
  ASSUME InventoryInv, ValuesInv, NEW x \in Clients, RecordRecharge(x) \/ RecordMetric(x)
  PROVE  ValuesInv'
  <1>1. PICK c : c = call[x]
    OBVIOUS
  <1>2. PICK f \in Fields : /\ Record(x, f) /\ c.pc = "write" /\ c.op \in {"recharge", "telemetry"}
    BY <1>1, FieldFacts DEF RecordRecharge, RecordMetric, At
  <1>3. IsRequest(x, c) /\ RequestVals(c) /\ CallOK(x, c) /\ c # NoCall
    BY <1>1, <1>2, RequestOf, CallOf DEF ValuesInv, NoCall
  <1>4. c.of \in Assets /\ c.with \in Words
    BY <1>2, <1>3 DEF CallOK, InventoryInv, RowInv, RequestVals
  <1>5. TablesTyped'
    BY <1>1, <1>2, <1>4 DEF Record, ValuesInv, TablesTyped, OwnersTyped, MeantTyped, Rows, entered
  <1>6. CallsTyped'
    BY <1>1, <1>2, CallsEnd, CallsGoto DEF RecordRecharge, RecordMetric, Phases, ValuesInv
  <1>7. QED BY <1>2, <1>5, <1>6, ServeValues DEF Record

LEMMA ApplyValues ==
  ASSUME InventoryInv, ValuesInv, NEW x \in Clients, ApplyRecharge(x) \/ ApplyMetric(x) \/ IngestTelemetry(x)
  PROVE  ValuesInv'
  <1>1. PICK c, a, w : c = call[x] /\ a = c.of /\ w = c.with
    OBVIOUS
  <1>2. PICK f : /\ Apply(x, f) /\ c.pc \in {"write", "apply"} /\ c.op \in {"recharge", "telemetry", "direct"}
                 /\ meant' \in {meant, meant \cup {<<a, "signal", w>>}} /\ UNCHANGED strayed
                 /\ c.pc = "write" => c.op = "direct"
    BY <1>1 DEF ApplyRecharge, ApplyMetric, IngestTelemetry, At, entered
  <1>3. IsRequest(x, c) /\ RequestVals(c) /\ CallOK(x, c) /\ c # NoCall
    BY <1>1, <1>2, RequestOf, CallOf DEF ValuesInv, NoCall
  <1>4. a \in DOMAIN row /\ a \in Assets /\ w \in Words
    BY <1>1, <1>2, <1>3 DEF CallOK, InventoryInv, RowInv, RequestVals
  <1> DEFINE vals == [row[a].vals EXCEPT ![f] = w]
  <1>5. row' = Written(a, vals) /\ End(x) /\ UNCHANGED <<owner, recorded, form, table, saved, bounds>>
    BY <1>1, <1>2 DEF Apply
  <1>6. DOMAIN vals = DOMAIN row[a].vals /\ \A g \in DOMAIN vals : vals[g] \in Values
    BY <1>4, FieldFacts DEF ValuesInv, TablesTyped, Rows
  <1> HIDE DEF vals
  <1>7. Rows(row') /\ DOMAIN First \subseteq DOMAIN row'
    BY <1>4, <1>5, <1>6, WrittenTyped DEF ValuesInv
  <1>8. MeantTyped'
    BY <1>2, <1>4, FieldFacts DEF ValuesInv, TablesTyped, MeantTyped
  <1>9. TablesTyped'
    BY <1>5, <1>7, <1>8 DEF ValuesInv, TablesTyped, OwnersTyped, Rows
  <1>10. QED BY <1>5, <1>9, CallsEnd, ServeValues DEF ValuesInv

LEMMA OwnerValues ==
  ASSUME InventoryInv, ValuesInv, NEW x \in Clients, CloseOpen(x) \/ OpenRow(x)
  PROVE  ValuesInv'
  <1>1. PICK c : c = call[x]
    OBVIOUS
  <1>2. /\ c.op \in {"transfer", "return"} /\ c.pc \in {"write", "open"}
        /\ UNCHANGED <<row, recorded, form, table, entered, saved, bounds>>
    BY <1>1 DEF CloseOpen, OpenRow, At
  <1>3. IsRequest(x, c) /\ RequestVals(c) /\ CallOK(x, c) /\ c # NoCall
    BY <1>1, <1>2, RequestOf, CallOf DEF ValuesInv, NoCall
  <1>4. c.of \in Assets /\ c.closed \in Nat
    BY <1>2, <1>3 DEF CallOK, IsRequest, InventoryInv, RowInv
  <1>5. Len(owner) \in Nat /\ DOMAIN owner = 1 .. Len(owner) /\ owner \in Seq(OwnerRow)
    BY DEF InventoryInv, OwnerInv
  <1>6. OwnersTyped
    BY DEF ValuesInv, TablesTyped
  <1>7. CASE CloseOpen(x)
    <2>1. OwnersTyped'
      BY <1>6, <1>7 DEF CloseOpen, OwnersTyped
    <2>2. CallsTyped'
      <3>1. CASE c.op = "return"
        BY <1>1, <1>7, <3>1, CallsEnd DEF CloseOpen, End, ValuesInv
      <3>2. CASE c.op = "transfer"
        <4> DEFINE d == [c EXCEPT !.pc = "open", !.closed = Len(owner)]
        <4>1. d.pc = "open" /\ d.op = c.op /\ d.dto = c.dto /\ d.with = c.with
          BY <1>3 DEF IsRequest, CallFields
        <4>2. call' = [call EXCEPT ![x] = d]
          BY <1>1, <1>7, <3>2 DEF CloseOpen
        <4> HIDE DEF d
        <4>3. CallTyped(d)
          BY <1>3, <4>1 DEF CallTyped, RequestVals, Phases
        <4>4. QED BY <4>2, <4>3, CallsTypedStep DEF ValuesInv
      <3>3. QED BY <1>2, <3>1, <3>2
    <2>3. QED BY <1>2, <2>1, <2>2, ServeValues DEF ValuesInv, TablesTyped, MeantTyped, Rows, entered
  <1>8. CASE OpenRow(x)
    <2> DEFINE new == [of |-> c.of, who |-> c.with, open |-> TRUE, closed |-> c.closed]
    <2>1. c.op = "transfer" /\ owner' = Append(owner, new) /\ End(x)
      BY <1>1, <1>8 DEF OpenRow, At
    <2>2. new \in [of: Assets, who: People, open: BOOLEAN, closed: Nat]
      BY <1>3, <1>4, <2>1 DEF RequestVals
    <2> HIDE DEF new
    <2>3. DOMAIN owner' = 1 .. Len(owner) + 1 /\ owner'[Len(owner) + 1] = new
          /\ \A i \in 1 .. Len(owner) : owner'[i] = owner[i]
      BY <1>5, <2>1
    <2>4. OwnersTyped'
      <3>1. ASSUME NEW i \in DOMAIN owner'
            PROVE  owner'[i] \in [of: Assets, who: People, open: BOOLEAN, closed: Nat]
        <4>1. i \in 1 .. Len(owner) \/ i = Len(owner) + 1
          BY <1>5, <2>3
        <4>2. QED BY <1>5, <1>6, <2>2, <2>3, <4>1 DEF OwnersTyped
      <3>2. QED BY <3>1 DEF OwnersTyped
    <2>5. QED BY <1>2, <2>1, <2>4, CallsEnd, ServeValues DEF ValuesInv, TablesTyped, MeantTyped, Rows, entered
  <1>9. QED BY <1>7, <1>8

LEMMA ValuesInit ==
  ASSUME Init
  PROVE  ValuesInv
  <1>1. Rows(row) /\ DOMAIN First \subseteq DOMAIN row
    <2>1. /\ DOMAIN row = DOMAIN First
          /\ \A a \in DOMAIN First : row[a] = [vals |-> First[a], ver |-> 1, born |-> 0]
      BY DEF Init
    <2>2. ASSUME NEW a \in DOMAIN First, NEW f \in DOMAIN First[a] PROVE First[a][f] \in Values
      BY DEF Values, Original
    <2>3. QED BY <2>1, <2>2, FirstOK DEF Rows
  <1>2. TablesTyped
    BY <1>1 DEF Init, TablesTyped, OwnersTyped, MeantTyped
  <1>3. CallsTyped
    BY NoCallTyped DEF Init, CallsTyped
  <1>4. FormsTyped
    BY CleanTyped DEF Init, FormsTyped
  <1>5. PagesTyped
    <2>1. \A p \in Pages : DOMAIN shown[p] = {} /\ \A q \in Texts : fetch[p][q] \in {Sending, NoFetch}
      BY DEF Init
    <2>2. QED BY <2>1, NoFetchTyped DEF PagesTyped, ViewTyped
  <1>6. BoundsOK
    BY InventoryConstantsOK DEF Init, BoundsOK
  <1>7. QED BY <1>2, <1>3, <1>4, <1>5, <1>6 DEF ValuesInv

LEMMA ValuesStep ==
  ASSUME InventoryInv, ValuesInv, [Next]_vars
  PROVE  ValuesInv'
  <1>1. ASSUME NEW p \in Pages, \/ Save(p) \/ Resume(p) \/ Saved(p) \/ CancelEdit(p) \/ Reload(p)
                                \/ \E a \in Assets : Edit(p, a)
        PROVE  ValuesInv'
    <2>1. CASE Save(p)
      BY <2>1, BeginValues
    <2>2. CASE CancelEdit(p) \/ \E a \in Assets : Edit(p, a)
      BY <2>2, FormValues
    <2>3. CASE Resume(p) \/ Saved(p) \/ Reload(p)
      BY <2>3, ResumeValues, SavedValues, SendValues
    <2>4. QED BY <1>1, <2>1, <2>2, <2>3
  <1>2. ASSUME NEW p \in Pages, NEW q \in Texts, Filter(p, q) \/ List(p, q) \/ Show(p, q) \/ FetchFails(p, q)
        PROVE  ValuesInv'
    BY <1>2, FetchValues, SendValues
  <1>3. ASSUME NEW p \in Pages, \E f \in DOMAIN form[p].vals : \E v \in Input(p, f) : UpdateField(p, f, v)
        PROVE  ValuesInv'
    BY <1>3, FormValues
  <1>4. ASSUME NEW c \in Callers, Ask(c)
        PROVE  ValuesInv'
    BY <1>4, BeginValues
  <1>5. ASSUME NEW x \in Clients, Serve(x) \/ Lose(x)
        PROVE  ValuesInv'
    BY <1>5, FindValues, InsertValues, UpdateValues, RecordValues, ApplyValues, OwnerValues DEF Serve
  <1>6. CASE UNCHANGED vars
    BY <1>6, TablesTypedSame, CallsTypedSame, FormsTypedSame, PagesTypedSame, BoundsSame DEF vars, ValuesInv
  <1>7. QED BY <1>1, <1>2, <1>3, <1>4, <1>5, <1>6 DEF Next

\* Whatever is stored, shown, fetched, sent or typed is a value that was entered
\* for some field, was there at first or is a default; only people own assets,
\* and the histories hold packages and readings (the create, update, transfer,
\* recharge and telemetry handlers, and the pages that fill and send forms).
THEOREM InventoryTypeCorrect == Spec => []TypeOK
  <1>1. Init => InventoryInv /\ ValuesInv
    BY InventoryInit, ValuesInit
  <1>2. InventoryInv /\ ValuesInv /\ [Next]_vars => (InventoryInv /\ ValuesInv)'
    BY InventoryStep, ValuesStep
  <1>3. ASSUME InventoryInv, ValuesInv PROVE TypeOK
    <2>1. \A x \in Clients :
            call[x].pc \in {"idle", "paused", "find", "write", "apply", "open", "answer", "refetch"}
      BY <1>3 DEF ValuesInv, CallsTyped, CallTyped, Phases
    <2>2. ASSUME NEW p \in Pages
          PROVE  /\ form[p].of \in Assets \cup {None} /\ form[p].typed \subseteq DOMAIN form[p].vals
                 /\ view[p] \in Texts /\ DOMAIN shown[p] \subseteq Texts /\ DOMAIN saved[p] \subseteq DOMAIN row
      BY <1>3 DEF InventoryInv, FormOK, TableOK, TablesOK, SavesOK, ValuesInv, FormsTyped, FormTyped
    <2>3. ASSUME NEW p \in Pages
          PROVE  /\ \A q \in DOMAIN shown[p] : Rows(shown[p][q].rows) /\ shown[p][q].valid \in BOOLEAN
                 /\ \A q \in Texts : fetch[p][q].pc \in {"idle", "sent", "read"} /\ fetch[p][q].old \in BOOLEAN
      BY <1>3 DEF ValuesInv, PagesTyped, ViewTyped, EntryTyped, FetchTyped
    <2>4. QED BY <1>3, <2>1, <2>2, <2>3 DEF TypeOK, ValuesInv, TablesTyped, OwnersTyped, MeantTyped, BoundsOK
  <1>4. QED BY <1>1, <1>2, <1>3, PTL DEF Spec
=============================================================================
