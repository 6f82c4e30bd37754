------------------------- MODULE SeoMetadataProofs --------------------------
(* Theorems about SeoMetadata, for every set of materials, columns and     *)
(* updates.                                                                *)
EXTENDS SeoMetadata, TLAPS

USE ConstantsAssumption

-----------------------------------------------------------------------------
(* Rows and bodies.                                                        *)

LEMMA BodiesGrow == Bodies(SeoFields) \subseteq Bodies(Columns)
  BY DEF Bodies, Columns

LEMMA BodyFacts ==
    ASSUME NEW body \in Bodies(Columns)
    PROVE  DOMAIN body \subseteq Columns /\ \A c \in DOMAIN body : body[c] \in Values
  BY DEF Bodies

LEMMA TotalBody ==
    ASSUME NEW row \in [Columns -> Values]
    PROVE  row \in Bodies(Columns)
  BY DEF Bodies

LEMMA OverlayFacts ==
    ASSUME NEW row \in [Columns -> Values], NEW body \in Bodies(Columns)
    PROVE  /\ Overlay(row, body) \in [Columns -> Values]
           /\ \A c \in DOMAIN body : Overlay(row, body)[c] = body[c]
           /\ \A c \in Columns \ DOMAIN body : Overlay(row, body)[c] = row[c]
           /\ DOMAIN body = {} => Overlay(row, body) = row
  BY BodyFacts DEF Overlay

LEMMA BlankRow == Blank \in [Columns -> Values]
  BY DEF Blank, Values

LEMMA InsertFacts ==
    ASSUME TypeOK, NEW body \in Bodies(Columns), InsertRow(body)
    PROVE  /\ lastRow \in Nat /\ lastRow' = lastRow + 1 /\ lastRow' \in 0..MaxRows
           /\ lastRow + 1 \in RowIds
           /\ rows' \in [RowIds -> [Columns -> Values]]
           /\ \A i \in 1..lastRow : rows'[i] = rows[i]
           /\ \A c \in DOMAIN body : rows'[lastRow + 1][c] = body[c]
<1>1. /\ lastRow \in Nat /\ lastRow' = lastRow + 1 /\ lastRow' \in 0..MaxRows
      /\ lastRow + 1 \in RowIds
  BY DEF InsertRow, TypeOK, RowIds
<1>2. PICK row \in [Columns -> Values] : row = Overlay(Blank, body)
  BY BlankRow, OverlayFacts
<1>3. rows' = [rows EXCEPT ![lastRow + 1] = row] /\ rows \in [RowIds -> [Columns -> Values]]
  BY <1>2 DEF InsertRow, TypeOK
<1>4. rows'[lastRow + 1] = row /\ \A i \in 1..lastRow : rows'[i] = rows[i]
  BY <1>1, <1>3 DEF RowIds
<1>5. \A c \in DOMAIN body : row[c] = body[c]
  BY <1>2, BlankRow, OverlayFacts
<1>6. QED
  BY <1>1, <1>3, <1>4, <1>5

-----------------------------------------------------------------------------
(* Type correctness. What save() compares with the row is a whole row,     *)
(* and only that makes the columns it goes on to write have values.        *)

Work == [at: {"select", "write", "insert", "link"}, material: Materials,
         body: Bodies(SeoFields), row: 0..MaxRows, columns: Bodies(Columns)]

WholeRowsCompared ==
    \A r \in Requests : At(r, "select") => requests[r].columns \in [Columns -> Values]

TypeInv == TypeOK /\ WholeRowsCompared

LEMMA WorkFacts ==
    ASSUME TypeOK, NEW r \in Requests
    PROVE  /\ At(r, "idle") \/ requests[r] \in Work
           /\ requests[r] \in Work =>
                /\ requests[r].at \in {"select", "write", "insert", "link"}
                /\ requests[r].material \in Materials
                /\ requests[r].body \in Bodies(SeoFields)
                /\ requests[r].body \in Bodies(Columns)
                /\ requests[r].row \in 0..MaxRows
                /\ requests[r].columns \in Bodies(Columns)
<1>1. requests[r] \in Request
  BY DEF TypeOK
<1>2. At(r, "idle") \/ requests[r] \in Work
  BY <1>1 DEF Request, Work, Idle, At
<1>3. QED
  BY <1>2, BodiesGrow DEF Work

(* A step of request r to q, or to its end.                                *)
LEMMA GotoType ==
    ASSUME TypeInv, NEW r \in Requests, NEW q \in Work \cup {Idle}, Goto(r, q),
           q.at = "select" => q.columns \in [Columns -> Values]
    PROVE  requests' \in [Requests -> Request] /\ WholeRowsCompared'
<1>1. q \in Request
  BY DEF Request, Work
<1>2. requests \in [Requests -> Request]
  BY DEF TypeInv, TypeOK
<1>3. /\ requests' \in [Requests -> Request] /\ requests'[r] = q
      /\ \A x \in Requests \ {r} : requests'[x] = requests[x]
  BY <1>1, <1>2 DEF Goto
<1>4. QED
  BY <1>3 DEF TypeInv, WholeRowsCompared, At

LEMMA GotoEffect ==
    ASSUME TypeOK, NEW r \in Requests, NEW q, Goto(r, q)
    PROVE  requests'[r] = q /\ \A x \in Requests \ {r} : requests'[x] = requests[x]
  BY DEF TypeOK, Goto

LEMMA WorkRecord ==
    ASSUME NEW a \in {"select", "write", "insert", "link"}, NEW m \in Materials,
           NEW body \in Bodies(SeoFields), NEW i \in 0..MaxRows, NEW columns \in Bodies(Columns)
    PROVE  [at |-> a, material |-> m, body |-> body, row |-> i, columns |-> columns] \in Work
  BY DEF Work

(* What the first half of save() hands to the second.                      *)
LEMMA DifferencesFacts ==
    ASSUME TypeOK, NEW q \in Work, q.columns \in [Columns -> Values]
    PROVE  /\ Differences(q) \in Bodies(Columns)
           /\ q.row \in RowIds => Overlay(rows[q.row], Differences(q)) = q.columns
<1>1. DOMAIN Differences(q) \subseteq Columns
      /\ \A c \in DOMAIN Differences(q) : Differences(q)[c] = q.columns[c]
  BY DEF Differences, Restrict
<1>2. Differences(q) \in [DOMAIN Differences(q) -> Values]
  BY <1>1 DEF Differences, Restrict
<1>3. Differences(q) \in Bodies(Columns)
  BY <1>1, <1>2 DEF Bodies
<1>4. ASSUME q.row \in RowIds PROVE Overlay(rows[q.row], Differences(q)) = q.columns
  <2>1. \A c \in Columns \ DOMAIN Differences(q) : rows[q.row][c] = q.columns[c]
    BY DEF Differences, Restrict
  <2>2. QED
    BY <1>1, <2>1 DEF Overlay
<1>5. QED
  BY <1>3, <1>4

LEMMA InitType == Init => TypeInv
<1> SUFFICES ASSUME Init PROVE TypeInv
  OBVIOUS
<1>1. 0 \in 0..MaxRows /\ 0 \in 0..MaxEdits /\ 0 \in 0..MaxFailures
  OBVIOUS
<1>2. rows \in [RowIds -> [Columns -> Values]]
  BY BlankRow DEF Init
<1>3. requests \in [Requests -> Request] /\ WholeRowsCompared
  BY DEF Init, Request, WholeRowsCompared, At, Idle
<1>4. QED
  BY <1>1, <1>2, <1>3 DEF Init, TypeOK, TypeInv

LEMMA StepType == TypeInv /\ [Next]_vars => TypeInv'
<1> SUFFICES ASSUME TypeInv, [Next]_vars PROVE TypeInv'
  OBVIOUS
<1>0. TypeOK
  BY DEF TypeInv
<1>1. ASSUME NEW r \in Requests, NEW m \in Materials, NEW body \in Bodies(SeoFields),
             SeoFind(r, m, body)
      PROVE  TypeInv'
  <2>1. body \in Bodies(Columns)
    BY BodiesGrow
  <2>2. PICK q \in Work : Goto(r, q) /\ (q.at = "select" => q.columns \in [Columns -> Values])
    <3>1. CASE link[m] = 0
      <4>1. [at |-> "insert", material |-> m, body |-> body, row |-> 0, columns |-> body] \in Work
        BY <2>1, WorkRecord
      <4>2. QED
        BY <1>1, <3>1, <4>1 DEF SeoFind
    <3>2. CASE link[m] # 0
      <4>1. link[m] \in 0..MaxRows /\ rows[link[m]] \in [Columns -> Values]
        BY <1>0, <3>2 DEF TypeOK, RowIds
      <4>2. PICK row \in [Columns -> Values] : row = Overlay(rows[link[m]], body)
        BY <2>1, <4>1, OverlayFacts
      <4>3. [at |-> "select", material |-> m, body |-> body, row |-> link[m], columns |-> row] \in Work
        BY <4>1, TotalBody, WorkRecord
      <4>4. QED
        BY <1>1, <3>2, <4>2, <4>3 DEF SeoFind
    <3>3. QED
      BY <3>1, <3>2
  <2>3. requests' \in [Requests -> Request] /\ WholeRowsCompared'
    BY <2>2, GotoType
  <2>4. QED
    BY <1>0, <1>1, <2>3 DEF SeoFind, TypeOK, TypeInv
<1>2. ASSUME NEW r \in Requests, SeoSelect(r) PROVE TypeInv'
  <2>1. requests[r] \in Work /\ requests[r].columns \in [Columns -> Values]
    BY <1>0, <1>2, WorkFacts DEF SeoSelect, At, TypeInv, WholeRowsCompared
  <2>2. PICK columns \in Bodies(Columns) : columns = Differences(requests[r])
    BY <1>0, <2>1, DifferencesFacts
  <2>3. PICK q \in Work : q = [requests[r] EXCEPT !.at = "write", !.columns = columns]
    BY <2>1 DEF Work
  <2>4. q.at = "write" /\ Goto(r, q)
    BY <1>2, <2>1, <2>2, <2>3 DEF SeoSelect, Work
  <2>5. requests' \in [Requests -> Request] /\ WholeRowsCompared'
    BY <2>4, GotoType
  <2>6. QED
    BY <1>0, <1>2, <2>5 DEF SeoSelect, TypeOK, TypeInv
<1>3. ASSUME NEW r \in Requests, SeoWrite(r) PROVE TypeInv'
  <2>1. requests[r] \in Work
    BY <1>0, <1>3, WorkFacts DEF SeoWrite, At
  <2>2. rows' \in [RowIds -> [Columns -> Values]]
    <3>1. requests[r].columns \in Bodies(Columns)
      BY <1>0, <2>1, WorkFacts
    <3>2. \A i \in RowIds : Overlay(rows[i], requests[r].columns) \in [Columns -> Values]
      BY <1>0, <3>1, OverlayFacts DEF TypeOK
    <3>3. rows' = [i \in RowIds |-> IF i = requests[r].row
                                    THEN Overlay(rows[i], requests[r].columns) ELSE rows[i]]
      BY <1>0, <1>3 DEF SeoWrite, TypeOK
    <3>4. QED
      BY <1>0, <3>2, <3>3 DEF TypeOK
  <2>3. Idle.at # "select" /\ Goto(r, Idle)
    BY <1>3 DEF SeoWrite, Idle
  <2>4. requests' \in [Requests -> Request] /\ WholeRowsCompared'
    BY <2>3, GotoType
  <2>5. disturbed' \subseteq Requests
    BY <1>0, <1>3 DEF SeoWrite, ReliantOnRow, TypeOK
  <2>6. QED
    BY <1>0, <1>3, <2>2, <2>4, <2>5 DEF SeoWrite, TypeOK, TypeInv
<1>4. ASSUME NEW r \in Requests, SeoInsert(r) PROVE TypeInv'
  <2>1. /\ requests[r] \in Work /\ requests[r].body \in Bodies(Columns)
        /\ requests[r].material \in Materials
    BY <1>0, <1>4, WorkFacts DEF SeoInsert, At
  <2>2. /\ lastRow' \in 0..MaxRows /\ lastRow + 1 \in RowIds
        /\ rows' \in [RowIds -> [Columns -> Values]]
    BY <1>0, <1>4, <2>1, InsertFacts DEF SeoInsert
  <2>3. PICK q \in Work : q = [requests[r] EXCEPT !.at = "link", !.row = lastRow + 1]
    <3>1. PICK i \in 0..MaxRows : i = lastRow + 1
      BY <2>2 DEF RowIds
    <3>2. [requests[r] EXCEPT !.at = "link", !.row = i] \in Work
      BY <2>1 DEF Work
    <3>3. QED
      BY <3>1, <3>2
  <2>4. q.at = "link" /\ Goto(r, q)
    BY <1>4, <2>1, <2>3 DEF SeoInsert, Work
  <2>5. requests' \in [Requests -> Request] /\ WholeRowsCompared'
    BY <2>4, GotoType
  <2>6. QED
    BY <1>0, <1>4, <2>2, <2>5 DEF SeoInsert, TypeOK, TypeInv
<1>5. ASSUME NEW r \in Requests, SeoLink(r) PROVE TypeInv'
  <2>1. requests[r] \in Work
    BY <1>0, <1>5, WorkFacts DEF SeoLink, At
  <2>2. link' \in [Materials -> 0..MaxRows]
    BY <1>0, <1>5, <2>1, WorkFacts DEF SeoLink, TypeOK
  <2>3. Idle.at # "select" /\ Goto(r, Idle)
    BY <1>5 DEF SeoLink, Idle
  <2>4. requests' \in [Requests -> Request] /\ WholeRowsCompared'
    BY <2>3, GotoType
  <2>5. disturbed' \subseteq Requests
    BY <1>0, <1>5 DEF SeoLink, ReliantOnLink, TypeOK
  <2>6. QED
    BY <1>0, <1>5, <2>2, <2>4, <2>5 DEF SeoLink, TypeOK, TypeInv
<1>6. ASSUME NEW m \in Materials, NEW body \in Bodies(Columns), EditMaterial(m, body)
      PROVE  TypeInv'
  <2>1. /\ lastRow' \in 0..MaxRows /\ lastRow + 1 \in 0..MaxRows
        /\ rows' \in [RowIds -> [Columns -> Values]]
    BY <1>0, <1>6, InsertFacts DEF EditMaterial
  <2>2. link' \in [Materials -> 0..MaxRows] /\ edits' \in 0..MaxEdits
    BY <1>0, <1>6, <2>1 DEF EditMaterial, TypeOK
  <2>3. disturbed' \subseteq Requests
    BY <1>0, <1>6 DEF EditMaterial, ReliantOnLink, TypeOK
  <2>4. WholeRowsCompared'
    BY <1>6 DEF EditMaterial, TypeInv, WholeRowsCompared, At
  <2>5. QED
    BY <1>0, <1>6, <2>1, <2>2, <2>3, <2>4 DEF EditMaterial, TypeOK, TypeInv
<1>7. ASSUME NEW m \in Materials, DeleteMaterial(m) PROVE TypeInv'
  BY <1>0, <1>7 DEF DeleteMaterial, TypeOK, TypeInv, WholeRowsCompared, At
<1>8. ASSUME NEW r \in Requests, Fail(r) PROVE TypeInv'
  <2>1. Idle.at # "select" /\ Goto(r, Idle)
    BY <1>8 DEF Fail, Idle
  <2>2. requests' \in [Requests -> Request] /\ WholeRowsCompared'
    BY <2>1, GotoType
  <2>3. failures' \in 0..MaxFailures
    BY <1>0, <1>8 DEF Fail, TypeOK
  <2>4. QED
    BY <1>0, <1>8, <2>2, <2>3 DEF Fail, TypeOK, TypeInv
<1>9. CASE UNCHANGED vars
  BY <1>0, <1>9 DEF vars, TypeOK, TypeInv, WholeRowsCompared, At
<1>10. QED
  BY <1>1, <1>2, <1>3, <1>4, <1>5, <1>6, <1>7, <1>8, <1>9 DEF Next, HandlerStep

(* Type correctness: rows stay whole rows, and what a running update has   *)
(* read of one is a row, too.                                              *)
THEOREM TypeCorrect == Spec => []TypeOK
<1>1. Spec => []TypeInv
  BY InitType, StepType, PTL DEF Spec
<1>2. QED
  BY <1>1, PTL DEF TypeInv

-----------------------------------------------------------------------------
(* Rows are not shared. A row that was inserted and is not linked yet is   *)
(* known to the update that inserted it alone, and new rows are new to     *)
(* every material: so whichever link comes last, it links a free row.      *)

LinksToInserted == \A m \in Materials : link[m] <= lastRow
RowIsNew(r) ==
    /\ requests[r].row \in 1..lastRow
    /\ \A m \in Materials : link[m] # requests[r].row
    /\ \A x \in Requests \ {r} :
            At(x, "select") \/ At(x, "write") \/ At(x, "link") => requests[x].row # requests[r].row
RowsInv ==
    /\ RowsNotShared /\ LinksToInserted
    /\ \A r \in Requests : At(r, "link") => RowIsNew(r)
    /\ \A r \in Requests : At(r, "select") \/ At(r, "write") => requests[r].row \in 1..lastRow

LEMMA LinkFacts ==
    ASSUME TypeOK
    PROVE  lastRow \in Nat /\ \A m \in Materials : link[m] \in Nat
  BY DEF TypeOK

(* Requests that go on as they were or end, links and rows that stay.      *)
LEMMA RowsFrame ==
    ASSUME RowsInv, UNCHANGED <<link, lastRow>>,
           \A r \in Requests : requests'[r] = requests[r] \/ requests'[r] = Idle
    PROVE  RowsInv'
<1>1. \A r \in Requests : At(r, "select")' \/ At(r, "write")' \/ At(r, "link")' =>
            requests'[r] = requests[r]
  BY DEF At, Idle
<1>2. ASSUME NEW r \in Requests, At(r, "link")' PROVE RowIsNew(r)'
  <2>1. requests'[r] = requests[r] /\ RowIsNew(r)
    BY <1>1, <1>2 DEF At, RowsInv
  <2>2. QED
    BY <1>1, <2>1 DEF RowIsNew, At
<1>3. QED
  BY <1>1, <1>2 DEF RowsInv, RowsNotShared, LinksToInserted, At

LEMMA InitRows == Init => RowsInv
  BY DEF Init, RowsInv, RowsNotShared, LinksToInserted, At, Idle

LEMMA StepRows == TypeInv /\ RowsInv /\ [Next]_vars => RowsInv'
<1> SUFFICES ASSUME TypeInv, RowsInv, [Next]_vars PROVE RowsInv'
  OBVIOUS
<1>0. TypeOK /\ lastRow \in Nat /\ \A m \in Materials : link[m] \in Nat
  BY LinkFacts DEF TypeInv
<1>1. ASSUME NEW r \in Requests, NEW m \in Materials, NEW body \in Bodies(SeoFields),
             SeoFind(r, m, body)
      PROVE  RowsInv'
  <2>1. PICK q : Goto(r, q) /\ q.at \in {"insert", "select"}
                 /\ (q.at = "select" => q.row = link[m] /\ link[m] # 0)
    BY <1>1 DEF SeoFind
  <2>2. requests'[r] = q /\ \A x \in Requests \ {r} : requests'[x] = requests[x]
    BY <1>0, <2>1, GotoEffect
  <2>3. q.at = "select" => q.row \in 1..lastRow
    BY <1>0, <2>1 DEF RowsInv, LinksToInserted
  <2>4. link' = link /\ lastRow' = lastRow
    BY <1>1 DEF SeoFind
  <2>5. ASSUME NEW x \in Requests, At(x, "link")' PROVE RowIsNew(x)'
    <3>1. x # r /\ requests'[x] = requests[x] /\ RowIsNew(x)
      BY <2>1, <2>2, <2>5 DEF At, RowsInv
    <3>2. At(r, "select")' \/ At(r, "write")' \/ At(r, "link")' =>
                requests'[r].row # requests[x].row
      BY <2>1, <2>2, <3>1 DEF At, RowIsNew
    <3>3. QED
      BY <2>2, <2>4, <3>1, <3>2 DEF RowIsNew, At
  <2>6. QED
    BY <2>1, <2>2, <2>3, <2>4, <2>5 DEF RowsInv, RowsNotShared, LinksToInserted, At
<1>2. ASSUME NEW r \in Requests, SeoSelect(r) PROVE RowsInv'
  <2>1. requests[r] \in Work
    BY <1>0, <1>2, WorkFacts DEF SeoSelect, At
  <2>2. PICK q : Goto(r, q) /\ q.at = "write" /\ q.row = requests[r].row
    <3>1. PICK columns, q : /\ q = [requests[r] EXCEPT !.at = "write", !.columns = columns]
                            /\ Goto(r, q)
      BY <1>2 DEF SeoSelect
    <3>2. q.at = "write" /\ q.row = requests[r].row
      BY <2>1, <3>1 DEF Work
    <3>3. QED
      BY <3>1, <3>2
  <2>3. requests'[r] = q /\ \A x \in Requests \ {r} : requests'[x] = requests[x]
    BY <1>0, <2>2, GotoEffect
  <2>4. link' = link /\ lastRow' = lastRow /\ At(r, "select")
    BY <1>2 DEF SeoSelect
  <2>5. ASSUME NEW x \in Requests, At(x, "link")' PROVE RowIsNew(x)'
    <3>1. x # r /\ requests'[x] = requests[x] /\ RowIsNew(x)
      BY <2>2, <2>3, <2>5 DEF At, RowsInv
    <3>2. requests'[r].row # requests[x].row
      BY <2>2, <2>3, <2>4, <3>1 DEF RowIsNew
    <3>3. QED
      BY <2>3, <2>4, <3>1, <3>2 DEF RowIsNew, At
  <2>6. QED
    BY <2>2, <2>3, <2>4, <2>5 DEF RowsInv, RowsNotShared, LinksToInserted, At
<1>3. ASSUME NEW r \in Requests, SeoWrite(r) PROVE RowsInv'
  <2>1. \A x \in Requests : requests'[x] = requests[x] \/ requests'[x] = Idle
    BY <1>0, <1>3, GotoEffect DEF SeoWrite
  <2>2. QED
    BY <1>3, <2>1, RowsFrame DEF SeoWrite
<1>4. ASSUME NEW r \in Requests, SeoInsert(r) PROVE RowsInv'
  <2>1. requests[r] \in Work /\ requests[r].body \in Bodies(Columns)
    BY <1>0, <1>4, WorkFacts DEF SeoInsert, At
  <2>2. lastRow' = lastRow + 1 /\ link' = link
    BY <1>0, <1>4, <2>1, InsertFacts DEF SeoInsert
  <2>3. PICK q : Goto(r, q) /\ q.at = "link" /\ q.row = lastRow + 1
    <3>1. PICK q : /\ q = [requests[r] EXCEPT !.at = "link", !.row = lastRow + 1]
                   /\ Goto(r, q)
      BY <1>4 DEF SeoInsert
    <3>2. q.at = "link" /\ q.row = lastRow + 1
      BY <2>1, <3>1 DEF Work
    <3>3. QED
      BY <3>1, <3>2
  <2>4. requests'[r] = q /\ \A x \in Requests \ {r} : requests'[x] = requests[x]
    BY <1>0, <2>3, GotoEffect
  <2>5. \A x \in Requests : At(x, "select") \/ At(x, "write") \/ At(x, "link") =>
            requests[x].row \in 1..lastRow
    BY DEF RowsInv, RowIsNew
  <2>6. RowIsNew(r)'
    <3>1. \A m \in Materials : link[m] # lastRow + 1
      BY <1>0 DEF RowsInv, LinksToInserted
    <3>2. \A x \in Requests \ {r} : At(x, "select") \/ At(x, "write") \/ At(x, "link") =>
                requests[x].row # lastRow + 1
      BY <1>0, <2>5
    <3>3. QED
      BY <1>0, <2>2, <2>3, <2>4, <3>1, <3>2 DEF RowIsNew, At
  <2>7. ASSUME NEW x \in Requests \ {r}, At(x, "link")' PROVE RowIsNew(x)'
    <3>1. requests'[x] = requests[x] /\ RowIsNew(x)
      BY <2>4, <2>7 DEF At, RowsInv
    <3>2. requests'[r].row # requests[x].row
      BY <1>0, <2>3, <2>4, <3>1 DEF RowIsNew
    <3>3. QED
      BY <1>0, <2>2, <2>4, <3>1, <3>2 DEF RowIsNew, At
  <2>8. LinksToInserted'
    BY <1>0, <2>2 DEF RowsInv, LinksToInserted
  <2>9. \A x \in Requests : At(x, "select")' \/ At(x, "write")' => requests'[x].row \in 1..lastRow'
    BY <1>0, <2>2, <2>3, <2>4, <2>5 DEF At
  <2>10. QED
    BY <2>2, <2>6, <2>7, <2>8, <2>9 DEF RowsInv, RowsNotShared
<1>5. ASSUME NEW r \in Requests, SeoLink(r) PROVE RowsInv'
  <2>1. /\ requests[r] \in Work /\ requests[r].material \in Materials
        /\ RowIsNew(r) /\ lastRow' = lastRow
    BY <1>0, <1>5, WorkFacts DEF SeoLink, At, RowsInv
  <2>2. /\ link'[requests[r].material] = requests[r].row
        /\ \A m \in Materials \ {requests[r].material} : link'[m] = link[m]
    BY <1>0, <1>5, <2>1 DEF SeoLink, TypeOK
  <2>3. requests'[r] = Idle /\ \A x \in Requests \ {r} : requests'[x] = requests[x]
    BY <1>0, <1>5, GotoEffect DEF SeoLink
  <2>4. RowsNotShared' /\ LinksToInserted'
    BY <1>0, <2>1, <2>2 DEF RowIsNew, RowsInv, RowsNotShared, LinksToInserted
  <2>5. ASSUME NEW x \in Requests, At(x, "link")' PROVE RowIsNew(x)'
    <3>1. x # r /\ requests'[x] = requests[x] /\ RowIsNew(x)
      BY <2>3, <2>5 DEF At, Idle, RowsInv
    <3>2. requests[r].row # requests[x].row
      BY <1>5, <3>1 DEF RowIsNew, SeoLink
    <3>3. \A m \in Materials : link'[m] # requests[x].row
      BY <2>2, <3>1, <3>2 DEF RowIsNew
    <3>4. ~(At(r, "select")' \/ At(r, "write")' \/ At(r, "link")')
      BY <2>3 DEF At, Idle
    <3>5. QED
      BY <2>1, <2>3, <3>1, <3>3, <3>4 DEF RowIsNew, At
  <2>6. \A x \in Requests : At(x, "select")' \/ At(x, "write")' => requests'[x].row \in 1..lastRow'
    BY <2>1, <2>3 DEF At, Idle, RowsInv
  <2>7. QED
    BY <2>4, <2>5, <2>6 DEF RowsInv
<1>6. ASSUME NEW m \in Materials, NEW body \in Bodies(Columns), EditMaterial(m, body)
      PROVE  RowsInv'
  <2>1. lastRow' = lastRow + 1 /\ requests' = requests
    BY <1>0, <1>6, InsertFacts DEF EditMaterial
  <2>2. link'[m] = lastRow + 1 /\ \A n \in Materials \ {m} : link'[n] = link[n]
    BY <1>0, <1>6 DEF EditMaterial, TypeOK
  <2>3. RowsNotShared' /\ LinksToInserted'
    BY <1>0, <2>1, <2>2 DEF RowsInv, RowsNotShared, LinksToInserted
  <2>4. ASSUME NEW x \in Requests, At(x, "link")' PROVE RowIsNew(x)'
    <3>1. requests'[x] = requests[x] /\ RowIsNew(x)
      BY <2>1, <2>4 DEF At, RowsInv
    <3>2. \A n \in Materials : link'[n] # requests[x].row
      BY <1>0, <2>2, <3>1 DEF RowIsNew
    <3>3. QED
      BY <1>0, <2>1, <3>1, <3>2 DEF RowIsNew, At
  <2>5. \A x \in Requests : At(x, "select")' \/ At(x, "write")' => requests'[x].row \in 1..lastRow'
    BY <1>0, <2>1 DEF At, RowsInv
  <2>6. QED
    BY <2>3, <2>4, <2>5 DEF RowsInv
<1>7. ASSUME NEW m \in Materials, DeleteMaterial(m) PROVE RowsInv'
  BY <1>7, RowsFrame DEF DeleteMaterial
<1>8. ASSUME NEW r \in Requests, Fail(r) PROVE RowsInv'
  <2>1. \A x \in Requests : requests'[x] = requests[x] \/ requests'[x] = Idle
    BY <1>0, <1>8, GotoEffect DEF Fail
  <2>2. QED
    BY <1>8, <2>1, RowsFrame DEF Fail
<1>9. CASE UNCHANGED vars
  BY <1>9, RowsFrame DEF vars
<1>10. QED
  BY <1>1, <1>2, <1>3, <1>4, <1>5, <1>6, <1>7, <1>8, <1>9 DEF Next, HandlerStep

(* Two materials never share a metadata row, whichever inserts and links   *)
(* of updates and ordinary saves overlap, and whichever of them fail.      *)
THEOREM RowsStayApart == Spec => []RowsNotShared
<1>1. Spec => [](TypeInv /\ RowsInv)
  BY InitType, StepType, InitRows, StepRows, PTL DEF Spec
<1>2. QED
  BY <1>1, PTL DEF RowsInv

-----------------------------------------------------------------------------
(* What an update that nothing has overtaken relies on: the row that it    *)
(* read, with its body laid over it, is what its save() works on, and the  *)
(* row it inserted holds what it was sent.                                 *)

AsRead(r) ==
    LET q == requests[r] IN
    /\ At(r, "select") => link[q.material] = q.row /\ q.columns = Overlay(rows[q.row], q.body)
    /\ At(r, "write")  => /\ link[q.material] = q.row
                          /\ Overlay(rows[q.row], q.columns) = Overlay(rows[q.row], q.body)
    /\ At(r, "link")   => \A c \in DOMAIN q.body : rows[q.row][c] = q.body[c]
UndisturbedInv == \A r \in Requests \ disturbed : AsRead(r)

LEMMA AsReadFrame ==
    ASSUME NEW r \in Requests, AsRead(r), requests'[r] = requests[r],
           At(r, "select") \/ At(r, "write") =>
                link'[requests[r].material] = link[requests[r].material],
           At(r, "select") \/ At(r, "write") \/ At(r, "link") =>
                rows'[requests[r].row] = rows[requests[r].row]
    PROVE  AsRead(r)'
  BY DEF AsRead, At

LEMMA IdleAsRead ==
    ASSUME NEW r \in Requests, requests'[r] = Idle
    PROVE  AsRead(r)'
  BY DEF AsRead, At, Idle

(* The row of an update that has one.                                      *)
LEMMA RowFacts ==
    ASSUME RowsInv, NEW r \in Requests, At(r, "select") \/ At(r, "write") \/ At(r, "link")
    PROVE  requests[r].row \in 1..lastRow
  BY DEF RowsInv, RowIsNew

LEMMA OneLinkChanges ==
    ASSUME TypeOK, NEW m \in Materials, NEW i, link' = [link EXCEPT ![m] = i],
           NEW x \in Requests, x \notin ReliantOnLink(m), At(x, "select") \/ At(x, "write")
    PROVE  link'[requests[x].material] = link[requests[x].material]
<1>1. requests[x] \in Work /\ requests[x].material \in Materials
  BY WorkFacts DEF At
<1>2. requests[x].material # m
  BY DEF ReliantOnLink, At
<1>3. QED
  BY <1>1, <1>2 DEF TypeOK

LEMMA StepUndisturbed == TypeInv /\ RowsInv /\ UndisturbedInv /\ [Next]_vars => UndisturbedInv'
<1> SUFFICES ASSUME TypeInv, RowsInv, UndisturbedInv, [Next]_vars,
                    NEW x \in Requests, x \notin disturbed'
             PROVE  AsRead(x)'
  BY DEF UndisturbedInv
<1>0. /\ TypeOK /\ lastRow \in Nat
      /\ At(x, "select") \/ At(x, "write") \/ At(x, "link") => requests[x].row \in 1..lastRow
  BY LinkFacts, RowFacts DEF TypeInv
<1>1. ASSUME NEW r \in Requests, NEW m \in Materials, NEW body \in Bodies(SeoFields),
             SeoFind(r, m, body)
      PROVE  AsRead(x)'
  <2>1. rows' = rows /\ link' = link
    BY <1>1 DEF SeoFind
  <2>2. CASE x = r
    <3>1. PICK q : Goto(r, q) /\ (\/ q.at = "insert"
                                  \/ /\ q.at = "select" /\ link[q.material] = q.row
                                     /\ q.columns = Overlay(rows[q.row], q.body))
      BY <1>1 DEF SeoFind
    <3>2. requests'[x] = q
      BY <1>0, <2>2, <3>1, GotoEffect
    <3>3. QED
      BY <2>1, <3>1, <3>2 DEF AsRead, At
  <2>3. CASE x # r
    <3>1. requests'[x] = requests[x] /\ AsRead(x)
      BY <1>0, <1>1, <2>3, GotoEffect DEF SeoFind, UndisturbedInv
    <3>2. QED
      BY <2>1, <3>1, AsReadFrame
  <2>4. QED
    BY <2>2, <2>3
<1>2. ASSUME NEW r \in Requests, SeoSelect(r) PROVE AsRead(x)'
  <2>1. rows' = rows /\ link' = link /\ AsRead(x) /\ At(r, "select")
    BY <1>2 DEF SeoSelect, UndisturbedInv
  <2>2. CASE x = r
    <3>1. /\ requests[x] \in Work /\ requests[x].columns \in [Columns -> Values]
          /\ requests[x].row \in RowIds
      BY <1>0, <2>1, <2>2, WorkFacts DEF At, TypeInv, WholeRowsCompared, TypeOK, RowIds
    <3>2. PICK columns : /\ columns = Differences(requests[x])
                         /\ Overlay(rows[requests[x].row], columns) = requests[x].columns
      BY <1>0, <3>1, DifferencesFacts
    <3>3. PICK q : q = [requests[x] EXCEPT !.at = "write", !.columns = columns] /\ Goto(x, q)
      BY <1>2, <2>2, <3>2 DEF SeoSelect
    <3>4. /\ q.at = "write" /\ q.columns = columns /\ q.row = requests[x].row
          /\ q.material = requests[x].material /\ q.body = requests[x].body
      BY <3>1, <3>3 DEF Work
    <3>5. requests'[x] = q
      BY <1>0, <3>3, GotoEffect
    <3>6. /\ link[q.material] = q.row
          /\ Overlay(rows[q.row], q.columns) = Overlay(rows[q.row], q.body)
      BY <2>1, <2>2, <3>2, <3>4 DEF AsRead
    <3>7. QED
      BY <2>1, <3>4, <3>5, <3>6 DEF AsRead, At
  <2>3. CASE x # r
    <3>1. requests'[x] = requests[x]
      BY <1>0, <1>2, <2>3, GotoEffect DEF SeoSelect
    <3>2. QED
      BY <2>1, <3>1, AsReadFrame
  <2>4. QED
    BY <2>2, <2>3
<1>3. ASSUME NEW r \in Requests, SeoWrite(r) PROVE AsRead(x)'
  <2>1. requests[r] \in Work /\ requests[r].columns \in Bodies(Columns) /\ At(r, "write")
    BY <1>0, <1>3, WorkFacts DEF SeoWrite, At
  <2>2. CASE x = r
    BY <1>0, <1>3, <2>2, GotoEffect, IdleAsRead DEF SeoWrite
  <2>3. CASE x # r
    <3>1. requests'[x] = requests[x] /\ AsRead(x) /\ link' = link
      BY <1>0, <1>3, <2>3, GotoEffect DEF SeoWrite, UndisturbedInv
    <3>2. rows' = [i \in RowIds |-> IF i = requests[r].row
                                    THEN Overlay(rows[i], requests[r].columns) ELSE rows[i]]
      BY <1>0, <1>3 DEF SeoWrite, TypeOK
    <3>3. At(x, "select") \/ At(x, "write") \/ At(x, "link") => requests[x].row \in RowIds
      BY <1>0 DEF TypeOK, RowIds
    <3>4. CASE DOMAIN requests[r].columns = {}
      <4>1. \A i \in RowIds : Overlay(rows[i], requests[r].columns) = rows[i]
        BY <1>0, <2>1, <3>4, OverlayFacts DEF TypeOK
      <4>2. \A i \in RowIds : rows'[i] = rows[i]
        BY <3>2, <4>1
      <4>3. QED
        BY <3>1, <3>3, <4>2, AsReadFrame
    <3>5. CASE DOMAIN requests[r].columns # {}
      <4>1. x \notin ReliantOnRow(requests[r].row)
        BY <1>3, <2>3, <3>5 DEF SeoWrite
      <4>2. At(x, "select") \/ At(x, "write") => requests[x].row # requests[r].row
        BY <4>1 DEF ReliantOnRow
      <4>3. At(x, "link") => requests[x].row # requests[r].row
        BY <2>1, <2>3 DEF RowsInv, RowIsNew
      <4>4. At(x, "select") \/ At(x, "write") \/ At(x, "link") =>
                rows'[requests[x].row] = rows[requests[x].row]
        BY <3>2, <3>3, <4>2, <4>3
      <4>5. QED
        BY <3>1, <4>4, AsReadFrame
    <3>6. QED
      BY <3>4, <3>5
  <2>4. QED
    BY <2>2, <2>3
<1>4. ASSUME NEW r \in Requests, SeoInsert(r) PROVE AsRead(x)'
  <2>1. requests[r] \in Work /\ requests[r].body \in Bodies(Columns)
    BY <1>0, <1>4, WorkFacts DEF SeoInsert, At
  <2>2. /\ \A i \in 1..lastRow : rows'[i] = rows[i]
        /\ \A c \in DOMAIN requests[r].body : rows'[lastRow + 1][c] = requests[r].body[c]
    BY <1>0, <1>4, <2>1, InsertFacts DEF SeoInsert
  <2>3. CASE x = r
    <3>1. PICK q : q = [requests[r] EXCEPT !.at = "link", !.row = lastRow + 1] /\ Goto(r, q)
      BY <1>4 DEF SeoInsert
    <3>2. q.at = "link" /\ q.row = lastRow + 1 /\ q.body = requests[r].body
      BY <2>1, <3>1 DEF Work
    <3>3. requests'[x] = q
      BY <1>0, <2>3, <3>1, GotoEffect
    <3>4. QED
      BY <2>2, <3>2, <3>3 DEF AsRead, At
  <2>4. CASE x # r
    <3>1. requests'[x] = requests[x] /\ AsRead(x) /\ link' = link
      BY <1>0, <1>4, <2>4, GotoEffect DEF SeoInsert, UndisturbedInv
    <3>2. QED
      BY <1>0, <2>2, <3>1, AsReadFrame
  <2>5. QED
    BY <2>3, <2>4
<1>5. ASSUME NEW r \in Requests, SeoLink(r) PROVE AsRead(x)'
  <2>1. CASE x = r
    BY <1>0, <1>5, <2>1, GotoEffect, IdleAsRead DEF SeoLink
  <2>2. CASE x # r
    <3>1. requests'[x] = requests[x] /\ AsRead(x) /\ rows' = rows
      BY <1>0, <1>5, <2>2, GotoEffect DEF SeoLink, UndisturbedInv
    <3>2. requests[r] \in Work /\ requests[r].material \in Materials
      BY <1>0, <1>5, WorkFacts DEF SeoLink, At
    <3>3. x \notin ReliantOnLink(requests[r].material)
      BY <1>5, <2>2 DEF SeoLink
    <3>4. link' = [link EXCEPT ![requests[r].material] = requests[r].row]
      BY <1>5 DEF SeoLink
    <3>5. At(x, "select") \/ At(x, "write") =>
            link'[requests[x].material] = link[requests[x].material]
      BY <1>0, <3>2, <3>3, <3>4, OneLinkChanges
    <3>6. QED
      BY <3>1, <3>5, AsReadFrame
  <2>3. QED
    BY <2>1, <2>2
<1>6. ASSUME NEW m \in Materials, NEW body \in Bodies(Columns), EditMaterial(m, body)
      PROVE  AsRead(x)'
  <2>1. requests'[x] = requests[x] /\ AsRead(x) /\ x \notin ReliantOnLink(m)
    BY <1>6 DEF EditMaterial, UndisturbedInv
  <2>2. \A i \in 1..lastRow : rows'[i] = rows[i]
    BY <1>0, <1>6, InsertFacts DEF EditMaterial
  <2>3. link' = [link EXCEPT ![m] = lastRow + 1]
    BY <1>6 DEF EditMaterial
  <2>4. At(x, "select") \/ At(x, "write") =>
            link'[requests[x].material] = link[requests[x].material]
    BY <1>0, <2>1, <2>3, OneLinkChanges
  <2>5. QED
    BY <1>0, <2>1, <2>2, <2>4, AsReadFrame
<1>7. ASSUME NEW m \in Materials, DeleteMaterial(m) PROVE AsRead(x)'
  BY <1>7, AsReadFrame DEF DeleteMaterial, UndisturbedInv
<1>8. ASSUME NEW r \in Requests, Fail(r) PROVE AsRead(x)'
  <2>1. AsRead(x) /\ rows' = rows /\ link' = link
    BY <1>8 DEF Fail, UndisturbedInv
  <2>2. requests'[x] = requests[x] \/ requests'[x] = Idle
    BY <1>0, <1>8, GotoEffect DEF Fail
  <2>3. QED
    BY <2>1, <2>2, AsReadFrame, IdleAsRead
<1>9. CASE UNCHANGED vars
  BY <1>9, AsReadFrame DEF vars, UndisturbedInv
<1>10. QED
  BY <1>1, <1>2, <1>3, <1>4, <1>5, <1>6, <1>7, <1>8, <1>9 DEF Next, HandlerStep

LEMMA UndisturbedAlways == Spec => [](TypeInv /\ RowsInv /\ UndisturbedInv)
<1>1. Init => UndisturbedInv
  BY DEF Init, UndisturbedInv, AsRead, At, Idle
<1>2. QED
  BY <1>1, InitType, StepType, InitRows, StepRows, StepUndisturbed, PTL DEF Spec

(* The row that an undisturbed update writes: its body over what it was.   *)
LEMMA WrittenRow ==
    ASSUME TypeInv, RowsInv, UndisturbedInv, NEW r \in Requests \ disturbed, SeoWrite(r)
    PROVE  /\ requests[r].row \in RowIds /\ requests[r].body \in Bodies(Columns)
           /\ link'[requests[r].material] = requests[r].row
           /\ rows'[requests[r].row] = Overlay(rows[requests[r].row], requests[r].body)
<1>0. TypeOK /\ At(r, "write") /\ AsRead(r)
  BY DEF TypeInv, SeoWrite, UndisturbedInv
<1>1. requests[r].row \in RowIds
  <2>1. requests[r].row \in 1..lastRow
    BY <1>0, RowFacts
  <2>2. QED
    BY <1>0, <2>1 DEF TypeOK, RowIds
<1>2. requests[r].body \in Bodies(Columns)
  BY <1>0, WorkFacts DEF At
<1>3. rows'[requests[r].row] = Overlay(rows[requests[r].row], requests[r].columns)
  BY <1>0, <1>1 DEF SeoWrite, TypeOK
<1>4. QED
  BY <1>0, <1>1, <1>2, <1>3 DEF AsRead, SeoWrite

(* A SEO update that nothing overtakes changes no column but those it was  *)
(* sent.                                                                   *)
THEOREM UndisturbedKeepsRest == Spec => UndisturbedLeavesRest
<1>1. ASSUME TypeInv, RowsInv, UndisturbedInv, NEW r \in Requests \ disturbed
      PROVE  LeavesRest(r)
  <2> SUFFICES ASSUME SeoWrite(r), NEW c \in Columns \ DOMAIN requests[r].body
               PROVE  rows'[requests[r].row][c] = rows[requests[r].row][c]
    BY DEF LeavesRest
  <2>1. rows[requests[r].row] \in [Columns -> Values]
    BY <1>1, WrittenRow DEF TypeInv, TypeOK
  <2>2. QED
    BY <1>1, <2>1, WrittenRow, OverlayFacts
<1>2. TypeInv /\ RowsInv /\ UndisturbedInv /\ [Next]_vars =>
            [\A r \in Requests \ disturbed : LeavesRest(r)]_vars
  BY <1>1
<1>3. QED
  BY <1>2, UndisturbedAlways, PTL DEF Spec, UndisturbedLeavesRest

(* When it answers, the row that the material points to holds what it was  *)
(* sent.                                                                   *)
THEOREM AcknowledgedShown == Spec => AcknowledgedIsShown
<1> DEFINE Shown(r) == /\ link'[requests[r].material] = requests[r].row
                       /\ \A c \in DOMAIN requests[r].body :
                            rows'[requests[r].row][c] = requests[r].body[c]
<1>1. ASSUME TypeInv, RowsInv, UndisturbedInv, NEW r \in Requests \ disturbed, SeoWrite(r)
      PROVE  Shown(r)
  <2>1. rows[requests[r].row] \in [Columns -> Values]
    BY <1>1, WrittenRow DEF TypeInv, TypeOK
  <2>2. QED
    BY <1>1, <2>1, WrittenRow, OverlayFacts
<1>2. ASSUME TypeInv, RowsInv, UndisturbedInv, NEW r \in Requests \ disturbed, SeoLink(r)
      PROVE  Shown(r)
  <2>1. TypeOK /\ At(r, "link") /\ AsRead(r) /\ rows' = rows
    BY <1>2 DEF TypeInv, SeoLink, UndisturbedInv
  <2>2. requests[r].material \in Materials
    BY <2>1, WorkFacts DEF At
  <2>3. link'[requests[r].material] = requests[r].row
    BY <1>2, <2>1, <2>2 DEF SeoLink, TypeOK
  <2>4. QED
    BY <2>1, <2>3 DEF AsRead
<1> HIDE DEF Shown
<1>3. TypeInv /\ RowsInv /\ UndisturbedInv /\ [Next]_vars =>
            [\A r \in Requests \ disturbed : SeoWrite(r) \/ SeoLink(r) => Shown(r)]_vars
  BY <1>1, <1>2
<1>4. QED
  BY <1>3, UndisturbedAlways, PTL DEF Spec, AcknowledgedIsShown, Shown
=============================================================================
