-------------------------- MODULE FileUploadsProofs --------------------------
(* Theorems about FileUploads, for every set of requests, parts and names. *)
EXTENDS FileUploads, TLAPS

USE ConstantsAssumption

-----------------------------------------------------------------------------
(* Facts about the data.                                                   *)

LEMMA AbsentFacts == Absent \notin Kinds /\ Absent \notin Object /\ Idle \notin Running
<1>1. Absent \notin Buffers
  BY DEF Absent, Buffers
<1>2. Absent \notin Object
  BY DEF Absent, Object
<1>3. Idle \notin Running
  BY DEF Idle, Running, Places
<1>4. QED
  BY <1>1, <1>2, <1>3

LEMMA SniffedFacts ==
    ASSUME NEW b
    PROVE  SniffImageType(b) \in {"jpeg", "png", "gif", "webp", "avif", "heic", "svg", Unknown}
  BY DEF SniffImageType

LEMMA DeclaredExtension == \A e \in Declared : e \in Extensions /\ MimeOf(e) \in Types
  BY DEF Extensions, Types

(* A corrected extension stands for the type that was found.               *)
LEMMA SniffedExtension ==
    ASSUME NEW b \in Kinds, SniffImageType(b) # Unknown
    PROVE  /\ SniffImageType(b) \in Types
           /\ ExtensionOf(SniffImageType(b)) \in Extensions
  BY DEF Extensions, Types

(* The mimetype of a corrected extension is the type that it was found by. *)
LEMMA ExtensionMime ==
    ASSUME NEW e \in Extensions
    PROVE  MimeOf(e) \in Types
<1>1. ASSUME NEW type \in Types PROVE type # "jpg"
  <2>1. CASE type \in {SniffImageType(b) : b \in Kinds}
    BY <2>1, SniffedFacts DEF Unknown
  <2>2. CASE type \in {MimeOf(d) : d \in Declared}
    BY <2>2 DEF MimeOf
  <2>3. QED
    BY <2>1, <2>2 DEF Types
<1>2. CASE e \in Declared
  BY <1>2, DeclaredExtension
<1>3. ASSUME NEW type \in Types, e = ExtensionOf(type) PROVE MimeOf(e) \in Types
  <2>1. MimeOf(e) = type
    BY <1>1, <1>3 DEF MimeOf, ExtensionOf
  <2>2. QED
    BY <2>1
<1>4. QED
  BY <1>2, <1>3 DEF Extensions

LEMMA NameFacts ==
    ASSUME NEW n \in Names
    PROVE  n = [stem |-> n.stem, ext |-> n.ext] /\ n.stem \in TopicStems \cup RandomStems
           /\ n.ext \in Extensions
  BY DEF Names

LEMMA NameType ==
    ASSUME NEW stem \in TopicStems \cup RandomStems, NEW ext \in Extensions
    PROVE  [stem |-> stem, ext |-> ext] \in Names
  BY DEF Names

(* The shape of a running request.                                         *)
LEMMA RunningFacts ==
    ASSUME NEW q \in Running
    PROVE  /\ q.at \in Places /\ q.parts \in Seq(Parts) /\ q.names \in Seq(Names)
           /\ q.name \in Names /\ q.body \in Kinds \cup {NoBytes} /\ q.sniffed \in BOOLEAN
  BY DEF Running

LEMMA GoesFacts ==
    ASSUME NEW q \in Running, NEW at \in Places, NEW name \in Names,
           NEW body \in Kinds \cup {NoBytes}, NEW sniffed \in BOOLEAN
    PROVE  LET to == Goes(q, at, name, body, sniffed) IN
           /\ to \in Running /\ to.at = at /\ to.name = name /\ to.body = body
<1>1. q.parts \in Seq(Parts) /\ q.names \in Seq(Names)
  BY RunningFacts
<1>2. QED
  BY <1>1 DEF Goes, Running

(* The request turns to a file that it has, or is over.                    *)
LEMMA TurnFacts ==
    ASSUME NEW names \in Seq(Names)
    PROVE  Turn(names) = Idle \/ (Turn(names) \in Running /\ Turn(names).at = "read")
<1>1. CASE names = <<>>
  BY <1>1 DEF Turn
<1>2. CASE names # <<>>
  <2>1. Tail(names) \in Seq(Names) /\ Head(names) \in Names
    BY <1>2
  <2>2. <<>> \in Seq(Parts) /\ "read" \in Places /\ NoBytes \in Kinds \cup {NoBytes}
    BY DEF Places
  <2>3. QED
    BY <1>2, <2>1, <2>2 DEF Turn, Running
<1>3. QED
  BY <1>1, <1>2

LEMMA FirstNamesType ==
    ASSUME NEW parts \in Seq(Parts), parts # <<>>, NEW names \in Seq(Names),
           Len(names) = Len(parts)
    PROVE  FirstNames(parts, names) \in Seq(Names)
<1> DEFINE others == {j \in DOMAIN parts : parts[j].field # parts[1].field /\ FirstOfField(parts, j)}
<1>1. DOMAIN parts = DOMAIN names /\ names[1] \in Names
  OBVIOUS
<1>2. others # {} => (CHOOSE j \in others : TRUE) \in DOMAIN names
  BY <1>1
<1> HIDE DEF others
<1>3. others # {} => names[CHOOSE j \in others : TRUE] \in Names
  BY <1>2
<1>4. QED
  BY <1>1, <1>3 DEF FirstNames, others

-----------------------------------------------------------------------------
(* The inductive invariant.                                                *)

(* What a request has at hand where it is: parts to receive, bytes to      *)
(* rename for or to store, and, with object storage, an object that is     *)
(* stored before its temporary file goes and its row comes.                *)
InHand(q, table) ==
    /\ q.at = "receive" => q.parts # <<>>
    /\ q.at \in {"rename", "put"} => q.body \in Kinds
    /\ q.at = "rename" => SniffImageType(q.body) # Unknown
    /\ Driver = "object" /\ q.at \in {"unlink", "insert"} => table[q.name] # Absent

IInv ==
    /\ TypeOK
    /\ \A r \in Requests : InHand(req[r], objects)
    /\ Driver = "object" => RowsServed

(* Nothing that is stored goes away.                                       *)
ObjectsStay ==
    /\ objects' \in [Names -> Object \cup {Absent}]
    /\ \A n \in Names : objects[n] # Absent => objects'[n] # Absent

LEMMA SameObjects == ASSUME IInv, objects' = objects PROVE ObjectsStay
  BY DEF IInv, TypeOK, ObjectsStay

LEMMA StoreObject ==
    ASSUME IInv, NEW n \in Names, NEW o \in Object, objects' = [objects EXCEPT ![n] = o]
    PROVE  ObjectsStay /\ objects'[n] = o /\ objects'[n] # Absent
  BY AbsentFacts DEF IInv, TypeOK, ObjectsStay

(* The requests after a step that moves one of them.                       *)
RequestsStep ==
    /\ req' \in [Requests -> Running \cup {Idle}]
    /\ \A r \in Requests : InHand(req'[r], objects')

LEMMA SameRequests == ASSUME IInv, ObjectsStay, req' = req PROVE RequestsStep
<1>1. ASSUME NEW r \in Requests PROVE InHand(req[r], objects')
  <2>1. req[r] \in Running \cup {Idle} /\ InHand(req[r], objects)
    BY DEF IInv, TypeOK
  <2>2. CASE req[r] \in Running
    BY <2>1, <2>2, RunningFacts DEF InHand, ObjectsStay
  <2>3. CASE req[r] = Idle
    BY <2>3 DEF InHand, Idle
  <2>4. QED
    BY <2>1, <2>2, <2>3
<1>2. QED
  BY <1>1 DEF RequestsStep, IInv, TypeOK

LEMMA MoveRequest ==
    ASSUME IInv, ObjectsStay, NEW r \in Requests, NEW q \in Running \cup {Idle},
           req' = [req EXCEPT ![r] = q], InHand(q, objects')
    PROVE  RequestsStep
<1>1. ASSUME NEW s \in Requests PROVE InHand(req'[s], objects')
  <2>1. CASE s = r
    BY <2>1 DEF IInv, TypeOK
  <2>2. CASE s # r
    <3>1. req'[s] = req[s] /\ req[s] \in Running \cup {Idle} /\ InHand(req[s], objects)
      BY <2>2 DEF IInv, TypeOK
    <3>2. CASE req[s] \in Running
      BY <3>1, <3>2, RunningFacts DEF InHand, ObjectsStay
    <3>3. CASE req[s] = Idle
      BY <3>1, <3>3 DEF InHand, Idle
    <3>4. QED
      BY <3>1, <3>2, <3>3
  <2>3. QED
    BY <2>1, <2>2
<1>2. QED
  BY <1>1 DEF RequestsStep, IInv, TypeOK

LEMMA EndRequest ==
    ASSUME IInv, ObjectsStay, NEW r \in Requests, req' = [req EXCEPT ![r] = Idle]
    PROVE  RequestsStep
  BY MoveRequest DEF InHand, Idle

LEMMA TurnRequest ==
    ASSUME IInv, ObjectsStay, NEW r \in Requests, NEW names \in Seq(Names),
           req' = [req EXCEPT ![r] = Turn(names)]
    PROVE  RequestsStep
<1>1. CASE Turn(names) = Idle
  BY <1>1, EndRequest
<1>2. CASE Turn(names) # Idle
  BY <1>2, TurnFacts, MoveRequest DEF InHand
<1>3. QED
  BY <1>1, <1>2

(* What every step leaves well-formed beside the requests and objects.     *)
RestOK ==
    /\ disk' \in [Names -> Kinds \cup {Absent}]
    /\ rows' \subseteq Row
    /\ uploads' \in 0..MaxUploads
    /\ Driver = "object" => \A row \in rows' : row.presigned \/ objects'[row.name] # Absent

LEMMA StepKeeps ==
    ASSUME ObjectsStay, RequestsStep, RestOK
    PROVE  IInv'
  BY DEF ObjectsStay, RequestsStep, RestOK, IInv, TypeOK, RowsServed, Served

(* The rows of before stay served.                                         *)
LEMMA SameRest ==
    ASSUME IInv, ObjectsStay, UNCHANGED rows,
           disk' \in [Names -> Kinds \cup {Absent}], uploads' \in 0..MaxUploads
    PROVE  RestOK
<1>1. ASSUME Driver = "object", NEW row \in rows
      PROVE  row.presigned \/ objects'[row.name] # Absent
  <2>1. row.name \in Names /\ (row.presigned \/ objects[row.name] # Absent)
    BY <1>1 DEF IInv, TypeOK, Row, RowsServed, Served
  <2>2. QED
    BY <2>1 DEF ObjectsStay
<1>2. QED
  BY <1>1 DEF RestOK, IInv, TypeOK

LEMMA CountUploads ==
    ASSUME IInv
    PROVE  /\ uploads \in 0..MaxUploads /\ disk \in [Names -> Kinds \cup {Absent}]
           /\ uploads < MaxUploads => uploads + 1 \in 0..MaxUploads
<1>1. uploads \in 0..MaxUploads /\ disk \in [Names -> Kinds \cup {Absent}]
  BY DEF IInv, TypeOK
<1>2. QED
  BY <1>1

LEMMA At ==
    ASSUME IInv, NEW r \in Requests, NEW at \in Places, req[r].at = at
    PROVE  req[r] \in Running /\ InHand(req[r], objects)
<1>1. Idle.at \notin Places
  BY DEF Idle, Places
<1>2. QED
  BY <1>1 DEF IInv, TypeOK

-----------------------------------------------------------------------------
(* The steps.                                                              *)

LEMMA RequestKeeps ==
    ASSUME IInv, NEW r \in Requests, NEW k \in 1..MaxParts, NEW parts \in [1..k -> Parts],
           Request(r, parts, parts[1].stem)
    PROVE  IInv'
<1> DEFINE name == [stem |-> parts[1].stem, ext |-> parts[1].ext]
           q    == [at |-> "receive", parts |-> parts, names |-> <<>>, name |-> name,
                    body |-> NoBytes, sniffed |-> FALSE]
<1>1. k \in Nat /\ 1 \in 1..k
  OBVIOUS
<1>2. parts \in Seq(Parts) /\ parts # <<>> /\ parts[1] \in Parts
  BY <1>1
<1>3. name \in Names
  <2>1. parts[1].stem \in TopicStems /\ parts[1].ext \in Declared
    BY <1>2
  <2>2. QED
    BY <2>1, DeclaredExtension, NameType
<1> HIDE DEF name
<1>4. q \in Running
  <2>1. "receive" \in Places /\ <<>> \in Seq(Names) /\ NoBytes \in Kinds \cup {NoBytes}
    BY DEF Places
  <2>2. QED
    BY <1>2, <1>3, <2>1 DEF Running
<1>5. q.at = "receive" /\ q.parts = parts /\ req' = [req EXCEPT ![r] = q]
  BY DEF Request, name
<1> HIDE DEF q
<1>6. ObjectsStay
  BY SameObjects DEF Request
<1>7. RequestsStep
  BY <1>2, <1>4, <1>5, <1>6, MoveRequest DEF InHand
<1>8. RestOK
  BY <1>6, CountUploads, SameRest DEF Request
<1>9. QED
  BY <1>6, <1>7, <1>8, StepKeeps

LEMMA WritePartKeeps ==
    ASSUME IInv, NEW r \in Requests, WritePart(r)
    PROVE  IInv'
<1> DEFINE written == Len(req[r].names)
           part    == req[r].parts[written + 1]
<1>1. /\ req[r] \in Running /\ req[r].at = "receive" /\ req[r].parts # <<>>
      /\ written < Len(req[r].parts)
  BY At DEF WritePart, Places, InHand
<1>2. PICK stem \in StemsFor(part.field, part.stem) :
        /\ disk' = [disk EXCEPT ![[stem |-> stem, ext |-> part.ext]] = part.bytes]
        /\ req' = [req EXCEPT ![r].names = Append(@, [stem |-> stem, ext |-> part.ext])]
  BY DEF WritePart
<1> DEFINE name == [stem |-> stem, ext |-> part.ext]
           q    == [req[r] EXCEPT !.names = Append(@, name)]
<1>3. written + 1 \in 1..Len(req[r].parts)
  <2>1. req[r].parts \in Seq(Parts) /\ req[r].names \in Seq(Names)
    BY <1>1, RunningFacts
  <2>2. written \in Nat /\ Len(req[r].parts) \in Nat
    BY <2>1
  <2>3. QED
    BY <1>1, <2>2
<1>4. part \in Parts
  BY <1>1, <1>3, RunningFacts
<1>5. stem \in TopicStems \cup RandomStems
  BY <1>4 DEF StemsFor
<1>6. name \in Names /\ part.bytes \in Kinds
  BY <1>4, <1>5, DeclaredExtension, NameType
<1> HIDE DEF name
<1>7. q \in Running /\ q.at = "receive" /\ q.parts = req[r].parts
  <2>1. Append(req[r].names, name) \in Seq(Names)
    BY <1>1, <1>6, RunningFacts
  <2>2. QED
    BY <1>1, <2>1 DEF Running
<1>8. req' = [req EXCEPT ![r] = q]
  BY <1>2 DEF name
<1> HIDE DEF q
<1>9. ObjectsStay
  BY SameObjects DEF WritePart
<1>10. RequestsStep
  BY <1>1, <1>7, <1>8, <1>9, MoveRequest DEF InHand
<1>11. disk' \in [Names -> Kinds \cup {Absent}]
  BY <1>2, <1>6, CountUploads DEF name
<1>12. RestOK
  BY <1>9, <1>11, CountUploads, SameRest DEF WritePart
<1>13. QED
  BY <1>9, <1>10, <1>12, StepKeeps

LEMMA RefuseKeeps ==
    ASSUME IInv, NEW r \in Requests, Refuse(r)
    PROVE  IInv'
<1>1. ObjectsStay
  BY SameObjects DEF Refuse
<1>2. RequestsStep
  BY <1>1, EndRequest DEF Refuse
<1>3. disk' \in [Names -> Kinds \cup {Absent}]
  BY CountUploads DEF Refuse
<1>4. RestOK
  BY <1>1, <1>3, CountUploads, SameRest DEF Refuse
<1>5. QED
  BY <1>1, <1>2, <1>4, StepKeeps

LEMMA HandleKeeps ==
    ASSUME IInv, NEW r \in Requests, Handle(r)
    PROVE  IInv'
<1> DEFINE names == FirstNames(req[r].parts, req[r].names)
<1>1. /\ req[r] \in Running /\ req[r].parts # <<>> /\ Len(req[r].names) = Len(req[r].parts)
  BY At DEF Handle, Places, InHand
<1>2. names \in Seq(Names)
  BY <1>1, RunningFacts, FirstNamesType
<1>3. req' = [req EXCEPT ![r] = Turn(names)]
  BY DEF Handle
<1> HIDE DEF names
<1>4. ObjectsStay
  BY SameObjects DEF Handle
<1>5. RequestsStep
  BY <1>2, <1>3, <1>4, TurnRequest
<1>6. RestOK
  BY <1>4, CountUploads, SameRest DEF Handle
<1>7. QED
  BY <1>4, <1>5, <1>6, StepKeeps

LEMMA AfterRenameFacts ==
    ASSUME NEW q \in Running, NEW name \in Names, NEW bytes \in Kinds, NEW table
    PROVE  AfterRename(q, name, bytes) \in Running /\ InHand(AfterRename(q, name, bytes), table)
<1>1. "insert" \in Places /\ "put" \in Places /\ NoBytes \in Kinds \cup {NoBytes}
  BY DEF Places
<1>2. CASE Driver = "local"
  <2> DEFINE to == Goes(q, "insert", name, NoBytes, FALSE)
  <2>1. to \in Running /\ to.at = "insert" /\ AfterRename(q, name, bytes) = to
    BY <1>1, <1>2, RunningFacts DEF AfterRename, Goes, Running
  <2> HIDE DEF to
  <2>2. QED
    BY <1>2, <2>1 DEF InHand
<1>3. CASE Driver # "local"
  <2> DEFINE to == Goes(q, "put", name, bytes, TRUE)
  <2>1. bytes \in Kinds \cup {NoBytes}
    OBVIOUS
  <2>2. to \in Running /\ to.at = "put" /\ to.body = bytes /\ AfterRename(q, name, bytes) = to
    BY <1>1, <1>3, <2>1, RunningFacts DEF AfterRename, Goes, Running
  <2> HIDE DEF to
  <2>3. QED
    BY <2>2 DEF InHand
<1>4. QED
  BY <1>2, <1>3

LEMMA ReadFileKeeps ==
    ASSUME IInv, NEW r \in Requests, ReadFile(r)
    PROVE  IInv'
<1> DEFINE bytes == disk[req[r].name]
           type  == SniffImageType(bytes)
           place == IF Driver = "local" THEN "insert" ELSE "load"
           q == IF bytes = Absent THEN Forget(req[r], place)
                ELSE IF type # Unknown /\ ~Matches(req[r].name.ext, type)
                THEN Goes(req[r], "rename", req[r].name, bytes, TRUE)
                ELSE AfterRename(req[r], req[r].name, bytes)
<1>1. req[r] \in Running /\ req[r].name \in Names /\ req[r].at = "read"
  BY At, RunningFacts DEF ReadFile, Places
<1>2. bytes \in Kinds \cup {Absent}
  BY <1>1, CountUploads
<1>3. ObjectsStay
  BY SameObjects DEF ReadFile
<1>4. q \in Running /\ InHand(q, objects')
  <2>1. CASE bytes = Absent
    <3>1. place \in Places /\ (Driver = "object" => place = "load")
          /\ place \notin {"receive", "rename", "put"} /\ NoBytes \in Kinds \cup {NoBytes}
      BY DEF Places
    <3>2. q = Goes(req[r], place, req[r].name, NoBytes, FALSE)
      BY <2>1 DEF Forget
    <3> HIDE DEF q, place
    <3>3. q \in Running /\ q.at = place
      BY <1>1, <3>1, <3>2, RunningFacts DEF Goes, Running
    <3>4. QED
      BY <3>1, <3>3 DEF InHand
  <2>2. CASE bytes # Absent /\ type # Unknown /\ ~Matches(req[r].name.ext, type)
    <3>1. q = Goes(req[r], "rename", req[r].name, bytes, TRUE)
      BY <2>2
    <3>2. bytes \in Kinds /\ bytes \in Kinds \cup {NoBytes} /\ "rename" \in Places
      BY <1>2, <2>2 DEF Places
    <3> HIDE DEF q, bytes
    <3>3. q \in Running /\ q.at = "rename" /\ q.body = bytes
      BY <1>1, <3>1, <3>2, RunningFacts DEF Goes, Running
    <3>4. QED
      BY <2>2, <3>2, <3>3 DEF InHand
  <2>3. CASE bytes # Absent /\ ~(type # Unknown /\ ~Matches(req[r].name.ext, type))
    <3>1. q = AfterRename(req[r], req[r].name, bytes)
      BY <2>3
    <3>2. bytes \in Kinds
      BY <1>2, <2>3
    <3> HIDE DEF q, bytes
    <3>3. QED
      BY <1>1, <3>1, <3>2, AfterRenameFacts
  <2>4. QED
    BY <2>1, <2>2, <2>3
<1>5. req' = [req EXCEPT ![r] = q]
  BY DEF ReadFile
<1> HIDE DEF q
<1>6. RequestsStep
  BY <1>3, <1>4, <1>5, MoveRequest
<1>7. RestOK
  BY <1>3, CountUploads, SameRest DEF ReadFile
<1>8. QED
  BY <1>3, <1>6, <1>7, StepKeeps

LEMMA RenameKeeps ==
    ASSUME IInv, NEW r \in Requests, Rename(r)
    PROVE  IInv'
<1> DEFINE from == req[r].name
           to   == [stem |-> from.stem, ext |-> ExtensionOf(SniffImageType(req[r].body))]
<1>1. /\ req[r] \in Running /\ from \in Names /\ req[r].body \in Kinds
      /\ SniffImageType(req[r].body) # Unknown
  BY At, RunningFacts DEF Rename, Places, InHand
<1>2. to \in Names
  BY <1>1, NameFacts, SniffedExtension, NameType
<1>3. ObjectsStay
  BY SameObjects DEF Rename
<1>4. CASE req' = [req EXCEPT ![r] = Idle] /\ disk' = disk
  <2>1. RequestsStep
    BY <1>3, <1>4, EndRequest
  <2>2. RestOK
    BY <1>3, <1>4, CountUploads, SameRest DEF Rename
  <2>3. QED
    BY <1>3, <2>1, <2>2, StepKeeps
<1>5. CASE /\ disk[from] # Absent
           /\ disk' = [disk EXCEPT ![to] = disk[from], ![from] = Absent]
           /\ req' = [req EXCEPT ![r] = AfterRename(req[r], to, req[r].body)]
  <2> HIDE DEF to, from
  <2>1. RequestsStep
    BY <1>1, <1>2, <1>3, <1>5, AfterRenameFacts, MoveRequest
  <2>2. disk' \in [Names -> Kinds \cup {Absent}]
    BY <1>1, <1>2, <1>5, CountUploads
  <2>3. RestOK
    BY <1>3, <2>2, CountUploads, SameRest DEF Rename
  <2>4. QED
    BY <1>3, <2>1, <2>3, StepKeeps
<1>6. QED
  BY <1>4, <1>5 DEF Rename

LEMMA LoadKeeps ==
    ASSUME IInv, NEW r \in Requests, Load(r)
    PROVE  IInv'
<1> DEFINE bytes == disk[req[r].name]
           q     == Goes(req[r], "put", req[r].name, bytes, req[r].sniffed)
<1>1. req[r] \in Running /\ req[r].name \in Names /\ req[r].sniffed \in BOOLEAN
  BY At, RunningFacts DEF Load, Places
<1>2. ObjectsStay
  BY SameObjects DEF Load
<1>3. RequestsStep
  <2>1. CASE req' = [req EXCEPT ![r] = Idle]
    BY <1>2, <2>1, EndRequest
  <2>2. CASE bytes # Absent /\ req' = [req EXCEPT ![r] = q]
    <3>1. bytes \in Kinds /\ bytes \in Kinds \cup {NoBytes} /\ "put" \in Places
      BY <1>1, <2>2, CountUploads DEF Places
    <3> HIDE DEF bytes
    <3>2. q \in Running /\ q.at = "put" /\ q.body = bytes
      BY <1>1, <3>1, GoesFacts
    <3> HIDE DEF q
    <3>3. QED
      BY <1>2, <2>2, <3>1, <3>2, MoveRequest DEF InHand
  <2>3. QED
    BY <2>1, <2>2 DEF Load
<1>4. RestOK
  BY <1>2, CountUploads, SameRest DEF Load
<1>5. QED
  BY <1>2, <1>3, <1>4, StepKeeps

LEMMA StoredType ==
    ASSUME NEW q \in Running, q.body \in Kinds
    PROVE  Stored(q, q.body) \in Object
<1> DEFINE type == IF q.sniffed THEN ContentType(q.body, q.name.ext) ELSE MimeOf(q.name.ext)
           by   == IF q.sniffed THEN "sniffed" ELSE "declared"
<1>1. q.name \in Names /\ q.name.ext \in Extensions
  BY RunningFacts, NameFacts
<1>2. MimeOf(q.name.ext) \in Types /\ SniffImageType(q.body) \in Types
  BY <1>1, ExtensionMime DEF Types
<1>3. type \in Types /\ by \in {"sniffed", "declared", "client"}
  BY <1>2 DEF ContentType
<1>4. Stored(q, q.body) = [bytes |-> q.body, type |-> type, by |-> by]
  BY DEF Stored
<1> HIDE DEF type, by
<1>5. QED
  BY <1>3, <1>4 DEF Object

LEMMA PutKeeps ==
    ASSUME IInv, NEW r \in Requests, NEW answered \in BOOLEAN, Put(r, answered)
    PROVE  IInv'
<1> DEFINE q == Forget(req[r], "unlink")
           o == Stored(req[r], req[r].body)
<1>1. req[r] \in Running /\ req[r].name \in Names /\ req[r].body \in Kinds
  BY At, RunningFacts DEF Put, Places, InHand
<1>2. o \in Object /\ objects' = [objects EXCEPT ![req[r].name] = o]
  BY <1>1, StoredType DEF Put
<1> HIDE DEF o
<1>3. ObjectsStay /\ objects'[req[r].name] # Absent
  BY <1>1, <1>2, StoreObject
<1>4. CASE req' = [req EXCEPT ![r] = Idle]
  <2>1. RequestsStep
    BY <1>3, <1>4, EndRequest
  <2>2. RestOK
    BY <1>3, CountUploads, SameRest DEF Put
  <2>3. QED
    BY <1>3, <2>1, <2>2, StepKeeps
<1>5. CASE req' = [req EXCEPT ![r] = q]
  <2>1. "unlink" \in Places /\ NoBytes \in Kinds \cup {NoBytes}
    BY DEF Places
  <2>2. q \in Running /\ q.at = "unlink" /\ q.name = req[r].name
    BY <1>1, <2>1, RunningFacts DEF Forget, Goes, Running
  <2> HIDE DEF q
  <2>3. RequestsStep
    BY <1>3, <1>5, <2>2, MoveRequest DEF InHand
  <2>4. RestOK
    BY <1>3, CountUploads, SameRest DEF Put
  <2>5. QED
    BY <1>3, <2>3, <2>4, StepKeeps
<1>6. QED
  BY <1>4, <1>5 DEF Put

LEMMA UnlinkKeeps ==
    ASSUME IInv, NEW r \in Requests, Unlink(r)
    PROVE  IInv'
<1> DEFINE q == Forget(req[r], "insert")
<1>1. /\ req[r] \in Running /\ req[r].name \in Names
      /\ Driver = "object" => objects[req[r].name] # Absent
  BY At, RunningFacts DEF Unlink, Places, InHand
<1>2. "insert" \in Places /\ NoBytes \in Kinds \cup {NoBytes}
  BY DEF Places
<1>3. q \in Running /\ q.at = "insert" /\ q.name = req[r].name
  BY <1>1, <1>2, RunningFacts DEF Forget, Goes, Running
<1>4. req' = [req EXCEPT ![r] = q] /\ objects' = objects
  BY DEF Unlink
<1> HIDE DEF q
<1>5. ObjectsStay
  BY <1>4, SameObjects
<1>6. RequestsStep
  BY <1>1, <1>3, <1>4, <1>5, MoveRequest DEF InHand
<1>7. disk' \in [Names -> Kinds \cup {Absent}]
  BY <1>1, CountUploads DEF Unlink
<1>8. RestOK
  BY <1>5, <1>7, CountUploads, SameRest DEF Unlink
<1>9. QED
  BY <1>5, <1>6, <1>8, StepKeeps

LEMMA InsertKeeps ==
    ASSUME IInv, NEW r \in Requests, NEW answered \in BOOLEAN, Insert(r, answered)
    PROVE  IInv'
<1> DEFINE row == [name |-> req[r].name, presigned |-> FALSE]
<1>1. /\ req[r] \in Running /\ req[r].name \in Names /\ req[r].names \in Seq(Names)
      /\ Driver = "object" => objects[req[r].name] # Absent
  BY At, RunningFacts DEF Insert, Places, InHand
<1>2. ObjectsStay /\ objects' = objects
  BY SameObjects DEF Insert
<1>3. RequestsStep
  <2>1. CASE req' = [req EXCEPT ![r] = Idle]
    BY <1>2, <2>1, EndRequest
  <2>2. CASE req' = [req EXCEPT ![r] = Turn(req[r].names)]
    BY <1>1, <1>2, <2>2, TurnRequest
  <2>3. QED
    BY <2>1, <2>2 DEF Insert
<1>4. row \in Row /\ row.name = req[r].name /\ rows' = rows \cup {row}
  BY <1>1 DEF Insert, Row
<1> HIDE DEF row
<1>5. Driver = "object" => \A x \in rows' : x.presigned \/ objects'[x.name] # Absent
  BY <1>1, <1>2, <1>4 DEF IInv, RowsServed, Served
<1>6. RestOK
  BY <1>4, <1>5, CountUploads DEF RestOK, IInv, TypeOK, Insert
<1>7. QED
  BY <1>2, <1>3, <1>6, StepKeeps

LEMMA FailKeeps ==
    ASSUME IInv, NEW r \in Requests, Fail(r)
    PROVE  IInv'
<1>1. ObjectsStay
  BY SameObjects DEF Fail
<1>2. RequestsStep
  BY <1>1, EndRequest DEF Fail
<1>3. RestOK
  BY <1>1, CountUploads, SameRest DEF Fail
<1>4. QED
  BY <1>1, <1>2, <1>3, StepKeeps

LEMMA PresignKeeps ==
    ASSUME IInv, NEW field \in {"topic", "post"}, NEW slug \in TopicStems, NEW ext \in Declared,
           Presign(field, slug, ext)
    PROVE  IInv'
<1>1. PICK stem \in StemsFor(field, slug) :
        rows' = rows \cup {[name |-> [stem |-> stem, ext |-> ext], presigned |-> TRUE]}
  BY DEF Presign
<1> DEFINE name == [stem |-> stem, ext |-> ext]
           row  == [name |-> name, presigned |-> TRUE]
<1>2. name \in Names
  <2>1. stem \in TopicStems \cup RandomStems
    BY DEF StemsFor
  <2>2. QED
    BY <2>1, DeclaredExtension, NameType
<1> HIDE DEF name
<1>3. row \in Row /\ row.presigned /\ rows' = rows \cup {row}
  BY <1>1, <1>2 DEF Row, name
<1> HIDE DEF row
<1>4. ObjectsStay /\ objects' = objects
  BY SameObjects DEF Presign
<1>5. RequestsStep
  BY <1>4, SameRequests DEF Presign
<1>6. Driver = "object" => \A x \in rows' : x.presigned \/ objects'[x.name] # Absent
  BY <1>3, <1>4 DEF IInv, RowsServed, Served
<1>7. RestOK
  BY <1>3, <1>6, CountUploads DEF RestOK, IInv, TypeOK, Presign
<1>8. QED
  BY <1>4, <1>5, <1>7, StepKeeps

LEMMA ClientPutKeeps ==
    ASSUME IInv, NEW row \in rows, NEW bytes \in Kinds, NEW type \in Types,
           ClientPut(row, bytes, type)
    PROVE  IInv'
<1> DEFINE o == [bytes |-> bytes, type |-> type, by |-> "client"]
<1>1. row.name \in Names
  BY DEF IInv, TypeOK, Row
<1>2. o \in Object /\ objects' = [objects EXCEPT ![row.name] = o]
  BY DEF ClientPut, Object
<1> HIDE DEF o
<1>3. ObjectsStay
  BY <1>1, <1>2, StoreObject
<1>4. RequestsStep
  BY <1>3, SameRequests DEF ClientPut
<1>5. RestOK
  BY <1>3, CountUploads, SameRest DEF ClientPut
<1>6. QED
  BY <1>3, <1>4, <1>5, StepKeeps

LEMMA CrashKeeps ==
    ASSUME IInv, Crash
    PROVE  IInv'
<1>1. ObjectsStay /\ objects' = objects
  BY SameObjects DEF Crash
<1>2. RequestsStep
  <2>1. \A r \in Requests : req'[r] = Idle /\ InHand(Idle, objects')
    BY DEF Crash, InHand, Idle
  <2>2. req' \in [Requests -> Running \cup {Idle}]
    BY DEF Crash
  <2>3. QED
    BY <2>1, <2>2 DEF RequestsStep
<1>3. RestOK
  BY <1>1, CountUploads DEF RestOK, IInv, TypeOK, RowsServed, Served, Crash
<1>4. QED
  BY <1>1, <1>2, <1>3, StepKeeps

LEMMA Inductive == Spec => []IInv
<1>1. ASSUME Init PROVE IInv
  <2>1. TypeOK
    <3>1. 0 \in 0..MaxUploads
      OBVIOUS
    <3>2. disk \in [Names -> Kinds \cup {Absent}] /\ objects \in [Names -> Object \cup {Absent}]
      BY <1>1 DEF Init
    <3>3. req \in [Requests -> Running \cup {Idle}]
      BY <1>1 DEF Init
    <3>4. QED
      BY <1>1, <3>1, <3>2, <3>3 DEF Init, TypeOK
  <2>2. \A r \in Requests : InHand(req[r], objects)
    BY <1>1 DEF Init, InHand, Idle
  <2>3. RowsServed
    BY <1>1 DEF Init, RowsServed
  <2>4. QED
    BY <2>1, <2>2, <2>3 DEF IInv
<1>2. ASSUME IInv, [Next]_vars PROVE IInv'
  <2>1. ASSUME NEW r \in Requests, NEW parts \in UNION {[1..k -> Parts] : k \in 1..MaxParts},
               Request(r, parts, parts[1].stem)
        PROVE  IInv'
    <3>1. PICK k \in 1..MaxParts : parts \in [1..k -> Parts]
      OBVIOUS
    <3>2. QED
      BY <1>2, <2>1, <3>1, RequestKeeps
  <2>2. ASSUME NEW r \in Requests,
               \/ WritePart(r) \/ Refuse(r) \/ Handle(r) \/ ReadFile(r) \/ Rename(r)
               \/ Load(r) \/ Unlink(r) \/ Fail(r)
        PROVE  IInv'
    BY <1>2, <2>2, WritePartKeeps, RefuseKeeps, HandleKeeps, ReadFileKeeps, RenameKeeps,
       LoadKeeps, UnlinkKeeps, FailKeeps
  <2>3. ASSUME NEW r \in Requests, NEW answered \in BOOLEAN,
               Put(r, answered) \/ Insert(r, answered)
        PROVE  IInv'
    BY <1>2, <2>3, PutKeeps, InsertKeeps
  <2>4. ASSUME NEW field \in {"topic", "post"}, NEW slug \in TopicStems, NEW ext \in Declared,
               Presign(field, slug, ext)
        PROVE  IInv'
    BY <1>2, <2>4, PresignKeeps
  <2>5. ASSUME NEW row \in rows, NEW bytes \in Kinds, NEW type \in Types \ {Unknown},
               ClientPut(row, bytes, type)
        PROVE  IInv'
    BY <1>2, <2>5, ClientPutKeeps
  <2>6. CASE Crash
    BY <1>2, <2>6, CrashKeeps
  <2>7. CASE UNCHANGED vars
    <3>1. ObjectsStay
      BY <1>2, <2>7, SameObjects DEF vars
    <3>2. RequestsStep
      BY <1>2, <2>7, <3>1, SameRequests DEF vars
    <3>3. RestOK
      BY <1>2, <2>7, <3>1, CountUploads, SameRest DEF vars
    <3>4. QED
      BY <3>1, <3>2, <3>3, StepKeeps
  <2>8. QED
    BY <1>2, <2>1, <2>2, <2>3, <2>4, <2>5, <2>6, <2>7 DEF Next
<1>3. QED
  BY <1>1, <1>2, PTL DEF Spec

-----------------------------------------------------------------------------
(* Theorems.                                                               *)

(* Files, objects, rows and requests keep their shape: no request stores   *)
(* bytes that it has not read.                                             *)
THEOREM TypeCorrect == Spec => []TypeOK
  BY Inductive, PTL DEF IInv

(* With object storage, every row that an upload inserted has its object,  *)
(* because the object is stored before and nothing takes it away.          *)
THEOREM RowsAreServed == ASSUME Driver = "object" PROVE Spec => []RowsServed
<1>1. IInv => RowsServed
  BY DEF IInv
<1>2. QED
  BY <1>1, Inductive, PTL

(* What readers of the table rely on, of StoredFiles.                      *)
stored  == {n \in Names : objects[n] # Absent}
linked  == {row.name : row \in {x \in rows : ~x.presigned}}
offered == {row.name : row \in {x \in rows : x.presigned}}

LEMMA StoreMaps ==
    ASSUME IInv, NEW n \in Names, NEW o \in Object, objects' = [objects EXCEPT ![n] = o],
           rows' = rows
    PROVE  Files!Next
<1>1. stored' = stored \cup {n}
  BY AbsentFacts DEF IInv, TypeOK, stored
<1>2. linked' = linked /\ offered' = offered
  BY DEF linked, offered
<1>3. QED
  BY <1>1, <1>2 DEF Files!Next, Files!Store, stored, linked, offered

LEMMA InsertMaps ==
    ASSUME IInv, Driver = "object", NEW r \in Requests, NEW answered \in BOOLEAN,
           Insert(r, answered)
    PROVE  Files!Next
<1>0. PICK n : n = req[r].name
  OBVIOUS
<1> DEFINE row == [name |-> n, presigned |-> FALSE]
<1>1. n \in Names /\ objects[n] # Absent
  BY <1>0, At, RunningFacts DEF Insert, Places, InHand
<1>2. row.name = n /\ ~row.presigned /\ rows' = rows \cup {row} /\ objects' = objects
  BY <1>0 DEF Insert
<1> HIDE DEF row
<1>3. linked' = linked \cup {n}
  BY <1>2 DEF linked
<1>4. stored' = stored /\ offered' = offered
  BY <1>2 DEF stored, offered
<1>5. n \in stored
  BY <1>1 DEF stored
<1>6. QED
  BY <1>1, <1>3, <1>4, <1>5 DEF Files!Next, Files!Link, stored, linked, offered

LEMMA PresignMaps ==
    ASSUME IInv, NEW field \in {"topic", "post"}, NEW slug \in TopicStems, NEW ext \in Declared,
           Presign(field, slug, ext)
    PROVE  Files!Next
<1>1. PICK stem \in StemsFor(field, slug) :
        rows' = rows \cup {[name |-> [stem |-> stem, ext |-> ext], presigned |-> TRUE]}
  BY DEF Presign
<1> DEFINE n   == [stem |-> stem, ext |-> ext]
           row == [name |-> n, presigned |-> TRUE]
<1>2. n \in Names
  <2>1. stem \in TopicStems \cup RandomStems
    BY DEF StemsFor
  <2>2. QED
    BY <2>1, DeclaredExtension, NameType
<1>3. row.name = n /\ row.presigned /\ rows' = rows \cup {row} /\ objects' = objects
  BY <1>1 DEF Presign
<1> HIDE DEF row, n
<1>4. offered' = offered \cup {n}
  BY <1>3 DEF offered
<1>5. stored' = stored /\ linked' = linked
  BY <1>3 DEF stored, linked
<1>6. QED
  BY <1>2, <1>4, <1>5 DEF Files!Next, Files!Offer, stored, linked, offered

(* With object storage every step of an upload is one of the promise, or   *)
(* none: whatever fails, stops or writes to the same name.                 *)
THEOREM UploadsKeepPromise == ASSUME Driver = "object" PROVE Spec => KeepsPromise
<1>1. Init => Files!Init
  BY DEF Init, Files!Init
<1>2. ASSUME IInv, [Next]_vars
      PROVE  Files!Next \/ UNCHANGED <<stored, linked, offered>>
  <2>1. ASSUME UNCHANGED <<objects, rows>>
        PROVE  UNCHANGED <<stored, linked, offered>>
    BY <2>1 DEF stored, linked, offered
  <2>2. ASSUME NEW r \in Requests, NEW answered \in BOOLEAN, Put(r, answered)
        PROVE  Files!Next
    <3>1. req[r] \in Running /\ req[r].name \in Names /\ req[r].body \in Kinds
      BY <1>2, <2>2, At, RunningFacts DEF Put, Places, InHand
    <3>2. Stored(req[r], req[r].body) \in Object
      BY <3>1, StoredType
    <3>3. PICK n, o : n = req[r].name /\ o = Stored(req[r], req[r].body)
      OBVIOUS
    <3>4. objects' = [objects EXCEPT ![n] = o] /\ rows' = rows
      BY <2>2, <3>3 DEF Put
    <3>5. QED
      BY <1>2, <3>1, <3>2, <3>3, <3>4, StoreMaps
  <2>3. ASSUME NEW r \in Requests, NEW answered \in BOOLEAN, Insert(r, answered)
        PROVE  Files!Next
    BY <1>2, <2>3, InsertMaps
  <2>4. ASSUME NEW field \in {"topic", "post"}, NEW slug \in TopicStems, NEW ext \in Declared,
               Presign(field, slug, ext)
        PROVE  Files!Next
    BY <1>2, <2>4, PresignMaps
  <2>5. ASSUME NEW row \in rows, NEW bytes \in Kinds, NEW type \in Types \ {Unknown},
               ClientPut(row, bytes, type)
        PROVE  Files!Next
    <3>1. row.name \in Names
      BY <1>2 DEF IInv, TypeOK, Row
    <3>2. [bytes |-> bytes, type |-> type, by |-> "client"] \in Object
      BY DEF Object
    <3>3. PICK n, o : n = row.name /\ o = [bytes |-> bytes, type |-> type, by |-> "client"]
      OBVIOUS
    <3>4. objects' = [objects EXCEPT ![n] = o] /\ rows' = rows
      BY <2>5, <3>3 DEF ClientPut
    <3>5. QED
      BY <1>2, <3>1, <3>2, <3>3, <3>4, StoreMaps
  <2>6. ASSUME NEW r \in Requests,
               \/ WritePart(r) \/ Refuse(r) \/ Handle(r) \/ ReadFile(r) \/ Rename(r)
               \/ Load(r) \/ Unlink(r) \/ Fail(r)
        PROVE  UNCHANGED <<objects, rows>>
    BY <2>6 DEF WritePart, Refuse, Handle, ReadFile, Rename, Load, Unlink, Fail
  <2>7. ASSUME NEW r \in Requests, NEW parts, NEW stem, Request(r, parts, stem)
        PROVE  UNCHANGED <<objects, rows>>
    BY <2>7 DEF Request
  <2>8. CASE Crash
    BY <2>1, <2>8 DEF Crash
  <2>9. CASE UNCHANGED vars
    BY <2>1, <2>9 DEF vars
  <2>10. QED
    BY <1>2, <2>1, <2>2, <2>3, <2>4, <2>5, <2>6, <2>7, <2>8, <2>9 DEF Next
<1>3. [Next]_vars /\ IInv => [Files!Next]_<<stored, linked, offered>>
  BY <1>2
<1>4. QED
  BY <1>1, <1>3, Inductive, PTL DEF Spec, KeepsPromise, Files!Spec, stored, linked, offered

-----------------------------------------------------------------------------
(* Types of stored objects.                                                *)

(* What a request would store as sniffed goes under a name that fits it:   *)
(* the name was corrected, or left, by the same bytes.                     *)
NameFits(q) ==
    /\ q.at = "load" => ~q.sniffed
    /\ q.at = "put" /\ q.sniffed /\ SniffImageType(q.body) # Unknown
        => Matches(q.name.ext, SniffImageType(q.body))

TypedInv == TypedByBytes /\ \A r \in Requests : NameFits(req[r])

(* A request that is elsewhere, or nowhere, has nothing to fit.            *)
LEMMA Elsewhere ==
    ASSUME NEW q, q.at \notin {"load", "put"}
    PROVE  NameFits(q)
  BY DEF NameFits

LEMMA TurnFits == ASSUME NEW names PROVE NameFits(Turn(names))
  BY Elsewhere DEF Turn, Idle

LEMMA MoveFits ==
    ASSUME TypeOK, TypedInv, NEW r \in Requests, NEW q, NameFits(q),
           req' = [req EXCEPT ![r] = q], objects' = objects
    PROVE  TypedInv'
<1>1. \A s \in Requests : req'[s] = IF s = r THEN q ELSE req[s]
  BY DEF TypeOK
<1>2. \A s \in Requests : NameFits(req'[s])
  BY <1>1 DEF TypedInv
<1>3. TypedByBytes'
  BY DEF TypedInv, TypedByBytes
<1>4. QED
  BY <1>2, <1>3 DEF TypedInv

LEMMA StoreTyped ==
    ASSUME TypeOK, TypedByBytes, NEW n \in Names, NEW o, objects' = [objects EXCEPT ![n] = o],
           o.by = "sniffed" /\ SniffImageType(o.bytes) # Unknown =>
                o.type = SniffImageType(o.bytes) /\ Matches(n.ext, SniffImageType(o.bytes))
    PROVE  TypedByBytes'
<1>1. \A m \in Names : objects'[m] = IF m = n THEN o ELSE objects[m]
  BY DEF TypeOK
<1>2. QED
  BY <1>1 DEF TypedByBytes

(* A corrected name fits the type it was corrected by.                     *)
LEMMA AfterRenameFits ==
    ASSUME NEW q, NEW name, NEW bytes,
           SniffImageType(bytes) # Unknown => Matches(name.ext, SniffImageType(bytes))
    PROVE  NameFits(AfterRename(q, name, bytes))
<1>1. CASE Driver = "local"
  BY <1>1, Elsewhere DEF AfterRename, Goes
<1>2. CASE Driver # "local"
  BY <1>2 DEF AfterRename, Goes, NameFits
<1>3. QED
  BY <1>1, <1>2

LEMMA ReadFileFits ==
    ASSUME IInv, TypedInv, NEW r \in Requests, ReadFile(r)
    PROVE  TypedInv'
<1> DEFINE bytes == disk[req[r].name]
           type  == SniffImageType(bytes)
           place == IF Driver = "local" THEN "insert" ELSE "load"
           fits  == type # Unknown /\ ~Matches(req[r].name.ext, type)
           q == IF bytes = Absent THEN Forget(req[r], place)
                ELSE IF fits THEN Goes(req[r], "rename", req[r].name, bytes, TRUE)
                ELSE AfterRename(req[r], req[r].name, bytes)
<1>1. NameFits(q)
  <2>1. CASE bytes = Absent
    <3>1. q = Goes(req[r], place, req[r].name, NoBytes, FALSE)
      BY <2>1 DEF Forget
    <3>2. QED
      BY <3>1 DEF Goes, NameFits
  <2>2. CASE bytes # Absent /\ fits
    <3>1. q = Goes(req[r], "rename", req[r].name, bytes, TRUE)
      BY <2>2
    <3>2. QED
      BY <3>1, Elsewhere DEF Goes
  <2>3. CASE bytes # Absent /\ ~fits
    <3>1. q = AfterRename(req[r], req[r].name, bytes)
      BY <2>3
    <3>2. QED
      BY <2>3, <3>1, AfterRenameFits
  <2>4. QED
    BY <2>1, <2>2, <2>3
<1>2. req' = [req EXCEPT ![r] = q] /\ objects' = objects
  BY DEF ReadFile
<1> HIDE DEF q
<1>3. QED
  BY <1>1, <1>2, MoveFits DEF IInv

LEMMA RenameFits ==
    ASSUME IInv, TypedInv, NEW r \in Requests, Rename(r)
    PROVE  TypedInv'
<1> DEFINE to == [stem |-> req[r].name.stem, ext |-> ExtensionOf(SniffImageType(req[r].body))]
           q  == AfterRename(req[r], to, req[r].body)
<1>1. NameFits(Idle)
  BY Elsewhere DEF Idle
<1>2. NameFits(q)
  BY AfterRenameFits DEF Matches
<1>3. /\ objects' = objects
      /\ req' = [req EXCEPT ![r] = Idle] \/ req' = [req EXCEPT ![r] = q]
  BY DEF Rename
<1> HIDE DEF q
<1>4. QED
  BY <1>1, <1>2, <1>3, MoveFits DEF IInv

LEMMA PutTyped ==
    ASSUME IInv, TypedInv, NEW r \in Requests, NEW answered \in BOOLEAN, Put(r, answered)
    PROVE  TypedInv'
<1> DEFINE o == Stored(req[r], req[r].body)
           q == IF answered THEN Forget(req[r], "unlink") ELSE Idle
<1>1. req[r].name \in Names
  BY At, RunningFacts DEF Put, Places
<1>2. NameFits(req[r]) /\ req[r].at = "put"
  BY DEF TypedInv, Put
<1>3. o.by = "sniffed" /\ SniffImageType(o.bytes) # Unknown =>
        o.type = SniffImageType(o.bytes) /\ Matches(req[r].name.ext, SniffImageType(o.bytes))
  BY <1>2 DEF Stored, ContentType, NameFits
<1>4. objects' = [objects EXCEPT ![req[r].name] = o] /\ req' = [req EXCEPT ![r] = q]
  BY DEF Put
<1>5. NameFits(q)
  BY Elsewhere DEF Forget, Goes, Idle
<1> HIDE DEF o, q
<1>6. TypedByBytes'
  BY <1>1, <1>3, <1>4, StoreTyped DEF IInv, TypedInv
<1>7. \A s \in Requests : req'[s] = IF s = r THEN q ELSE req[s]
  BY <1>4 DEF IInv, TypeOK
<1>8. QED
  BY <1>5, <1>6, <1>7 DEF TypedInv

LEMMA TypedStep == ASSUME IInv, TypedInv, [Next]_vars PROVE TypedInv'
<1>1. NameFits(Idle)
  BY Elsewhere DEF Idle
<1>2. ASSUME NEW r \in Requests, NEW parts, NEW stem, Request(r, parts, stem) PROVE TypedInv'
  <2> DEFINE q == [at |-> "receive", parts |-> parts, names |-> <<>>,
                   name |-> [stem |-> stem, ext |-> parts[1].ext], body |-> NoBytes,
                   sniffed |-> FALSE]
  <2>1. NameFits(q) /\ req' = [req EXCEPT ![r] = q] /\ objects' = objects
    BY <1>2, Elsewhere DEF Request
  <2> HIDE DEF q
  <2>2. QED
    BY <2>1, MoveFits DEF IInv
<1>3. ASSUME NEW r \in Requests, WritePart(r) PROVE TypedInv'
  <2>1. PICK name : req' = [req EXCEPT ![r].names = Append(@, name)]
    BY <1>3 DEF WritePart
  <2>2. PICK q : q = [req[r] EXCEPT !.names = Append(@, name)]
    OBVIOUS
  <2>3. req' = [req EXCEPT ![r] = q]
    BY <2>1, <2>2
  <2>4. q.at = req[r].at /\ req[r].at = "receive"
    BY <1>3, <2>2, At, RunningFacts DEF WritePart, Places, Running
  <2>5. QED
    BY <1>3, <2>3, <2>4, Elsewhere, MoveFits DEF IInv, WritePart
<1>4. ASSUME NEW r \in Requests, Refuse(r) \/ Fail(r) PROVE TypedInv'
  BY <1>1, <1>4, MoveFits DEF IInv, Refuse, Fail
<1>5. ASSUME NEW r \in Requests, Handle(r) PROVE TypedInv'
  BY <1>5, TurnFits, MoveFits DEF IInv, Handle
<1>6. ASSUME NEW r \in Requests, Load(r) PROVE TypedInv'
  <2>1. ~req[r].sniffed
    BY <1>6 DEF Load, TypedInv, NameFits
  <2>2. NameFits(Goes(req[r], "put", req[r].name, disk[req[r].name], req[r].sniffed))
    BY <2>1 DEF Goes, NameFits
  <2>3. QED
    BY <1>1, <1>6, <2>2, MoveFits DEF IInv, Load
<1>7. ASSUME NEW r \in Requests, Unlink(r) PROVE TypedInv'
  <2>1. NameFits(Forget(req[r], "insert"))
    BY Elsewhere DEF Forget, Goes
  <2>2. QED
    BY <1>7, <2>1, MoveFits DEF IInv, Unlink
<1>8. ASSUME NEW r \in Requests, NEW answered \in BOOLEAN, Insert(r, answered) PROVE TypedInv'
  BY <1>1, <1>8, TurnFits, MoveFits DEF IInv, Insert
<1>9. ASSUME NEW field, NEW slug, NEW ext, Presign(field, slug, ext) PROVE TypedInv'
  BY <1>9 DEF TypedInv, TypedByBytes, Presign
<1>10. ASSUME NEW row \in rows, NEW bytes, NEW type, ClientPut(row, bytes, type) PROVE TypedInv'
  <2>1. PICK n, o : n = row.name /\ o = [bytes |-> bytes, type |-> type, by |-> "client"]
    OBVIOUS
  <2>2. n \in Names /\ objects' = [objects EXCEPT ![n] = o] /\ o.by # "sniffed" /\ req' = req
    BY <1>10, <2>1 DEF ClientPut, IInv, TypeOK, Row
  <2>3. TypedByBytes'
    BY <2>2, StoreTyped DEF IInv, TypedInv
  <2>4. QED
    BY <2>2, <2>3 DEF TypedInv
<1>11. CASE Crash
  <2>1. \A r \in Requests : req'[r] = Idle
    BY <1>11 DEF Crash
  <2>2. QED
    BY <1>1, <1>11, <2>1 DEF TypedInv, TypedByBytes, Crash
<1>12. CASE UNCHANGED vars
  BY <1>12 DEF TypedInv, TypedByBytes, vars
<1>13. QED
  BY <1>2, <1>3, <1>4, <1>5, <1>6, <1>7, <1>8, <1>9, <1>10, <1>11, <1>12,
     ReadFileFits, RenameFits, PutTyped DEF Next

(* The type of a sniffed object is that of the bytes in it, with either    *)
(* driver and whatever other requests write to the same name meanwhile:    *)
(* the bytes that were sniffed are the bytes that are stored.              *)
THEOREM ObjectsTyped == Spec => []TypedByBytes
<1>1. Init => TypedInv
  BY Elsewhere DEF Init, TypedInv, TypedByBytes, Idle
<1>2. TypedInv => TypedByBytes
  BY DEF TypedInv
<1>3. QED
  BY <1>1, <1>2, Inductive, TypedStep, PTL DEF Spec
=============================================================================
