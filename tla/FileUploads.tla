----------------------------- MODULE FileUploads -----------------------------
(***************************************************************************)
(* POST /files/upload and /files/upload-presigned: multer writes the parts *)
(* of a request to the disk under names that topics share, the handler     *)
(* reads, renames, stores, unlinks and inserts, one await at a time beside *)
(* other requests; any of these may fail and the process may stop between  *)
(* them.                                                                   *)
(***************************************************************************)
EXTENDS Naturals, Sequences, ImageTypes

CONSTANTS
    Requests,       \* places for concurrent requests
    Driver,         \* FILE_STORAGE_DRIVER: "local", or any object storage
    TopicStems,     \* slugs of the names that clients give to topic images
    RandomStems,    \* names made of the time and a random number
    Parts,          \* parts that a client may send
    Declared,       \* extensions of the names that clients send
    Kinds,          \* first bytes of files, a subset of Buffers
    MaxParts,       \* bound: parts of one request
    MaxUploads      \* bound: requests and writes of clients

(* The extension that goes with what sniffImageType finds.                 *)
ExtensionOf(type) == IF type = "jpeg" THEN "jpg" ELSE type
Matches(ext, type) ==
    ext = ExtensionOf(type) \/ (ext \in {"jpg", "jpeg"} /\ type = "jpeg")

(* The mimetype that a client derives from the extension.                  *)
MimeOf(ext) == IF ext = "jpg" THEN "jpeg" ELSE ext
ContentType(bytes, ext) ==
    IF SniffImageType(bytes) = Unknown THEN MimeOf(ext) ELSE SniffImageType(bytes)

Types == {SniffImageType(b) : b \in Kinds} \cup {MimeOf(e) : e \in Declared}
Extensions == Declared \cup {ExtensionOf(type) : type \in Types \ {Unknown}}
Names == [stem: TopicStems \cup RandomStems, ext: Extensions]
Absent == [short |-> "absent"]

ASSUME ConstantsAssumption ==
    /\ Driver \in {"local", "object"}
    /\ Kinds \subseteq Buffers
    /\ Parts \subseteq [field: {"topic", "post"}, stem: TopicStems, ext: Declared, bytes: Kinds]
    /\ MaxParts \in Nat /\ MaxUploads \in Nat

VARIABLES
    disk,           \* bytes of the files under uploads/, or Absent
    objects,        \* bucket: bytes, Content-Type and who stored them
    rows,           \* table files: the name in the path, and how it came
    req,            \* the requests that are running
    uploads         \* requests and writes of clients so far

vars == <<disk, objects, rows, req, uploads>>

Object == [bytes: Kinds, type: Types, by: {"sniffed", "declared", "client"}]
Row == [name: Names, presigned: BOOLEAN]
Idle == [at |-> "idle"]
NoBytes == Absent

Places == {"receive", "read", "rename", "load", "put", "unlink", "insert"}
(* parts are those that multer has not handed over yet, names those that   *)
(* it gave to the ones it wrote and then those of the files to deal with;  *)
(* name is where the file at hand is and body what was read of it.         *)
Running == [at: Places, parts: Seq(Parts), names: Seq(Names),
            name: Names, body: Kinds \cup {NoBytes}, sniffed: BOOLEAN]

TypeOK ==
    /\ disk \in [Names -> Kinds \cup {Absent}]
    /\ objects \in [Names -> Object \cup {Absent}]
    /\ rows \subseteq Row
    /\ req \in [Requests -> Running \cup {Idle}]
    /\ uploads \in 0..MaxUploads

Init ==
    /\ disk = [n \in Names |-> Absent]
    /\ objects = [n \in Names |-> Absent]
    /\ rows = {} /\ req = [r \in Requests |-> Idle]
    /\ uploads = 0

-----------------------------------------------------------------------------
(* Date.now() and a random number below 1e9 are taken to be new.           *)
InUse(stem) ==
    \/ \E n \in Names : n.stem = stem /\ (disk[n] # Absent \/ objects[n] # Absent)
    \/ \E row \in rows : row.name.stem = stem
    \/ \E r \in Requests : req[r] # Idle /\
            \/ req[r].name.stem = stem
            \/ \E i \in DOMAIN req[r].names : req[r].names[i].stem = stem
StemsFor(field, slug) ==
    IF field = "topic" THEN {slug} ELSE {s \in RandomStems : ~InUse(s)}

-----------------------------------------------------------------------------
(* Multer.                                                                 *)

Request(r, parts, stem) ==
    /\ req[r] = Idle /\ uploads < MaxUploads
    /\ uploads' = uploads + 1
    /\ req' = [req EXCEPT ![r] =
            [at |-> "receive", parts |-> parts, names |-> <<>>,
             name |-> [stem |-> stem, ext |-> parts[1].ext], body |-> NoBytes, sniffed |-> FALSE]]
    /\ UNCHANGED <<disk, objects, rows>>

(* diskStorage: the next part goes to uploads/, over a file of that name.  *)
WritePart(r) ==
    LET written == Len(req[r].names) IN
    /\ req[r].at = "receive" /\ written < Len(req[r].parts)
    /\ LET part == req[r].parts[written + 1] IN
       \E stem \in StemsFor(part.field, part.stem) :
            LET name == [stem |-> stem, ext |-> part.ext] IN
            /\ disk' = [disk EXCEPT ![name] = part.bytes]
            /\ req' = [req EXCEPT ![r].names = Append(@, name)]
    /\ UNCHANGED <<objects, rows, uploads>>

(* A part with a wrong extension or too many bytes: multer removes what it *)
(* has written for the request.                                            *)
Refuse(r) ==
    /\ req[r].at = "receive"
    /\ disk' = [n \in Names |->
            IF \E i \in DOMAIN req[r].names : req[r].names[i] = n THEN Absent ELSE disk[n]]
    /\ req' = [req EXCEPT ![r] = Idle]
    /\ UNCHANGED <<objects, rows, uploads>>

-----------------------------------------------------------------------------
(* uploadFile.                                                             *)

(* The first file of each field, in the order in which fields came.        *)
FirstOfField(parts, i) == \A j \in 1..(i - 1) : parts[j].field # parts[i].field
FirstNames(parts, names) ==
    LET others == {j \in DOMAIN parts : parts[j].field # parts[1].field /\ FirstOfField(parts, j)}
    IN  IF others = {} THEN <<names[1]>> ELSE <<names[1], names[CHOOSE j \in others : TRUE]>>

(* The request as it turns to the next file.                               *)
Turn(names) ==
    IF names = <<>> THEN Idle
    ELSE [at |-> "read", parts |-> <<>>, names |-> Tail(names), name |-> Head(names),
          body |-> NoBytes, sniffed |-> FALSE]

Handle(r) ==
    /\ req[r].at = "receive" /\ Len(req[r].names) = Len(req[r].parts)
    /\ req' = [req EXCEPT ![r] = Turn(FirstNames(@.parts, @.names))]
    /\ UNCHANGED <<disk, objects, rows, uploads>>

(* fs.readFile(...).catch(() => null), and what follows from the bytes.    *)
Goes(request, at, name, body, sniffed) ==
    [at |-> at, parts |-> request.parts, names |-> request.names, name |-> name,
     body |-> body, sniffed |-> sniffed]
Forget(request, at) == Goes(request, at, request.name, NoBytes, FALSE)
AfterRename(request, name, bytes) ==
    IF Driver = "local" THEN Goes(request, "insert", name, NoBytes, FALSE)
    ELSE Goes(request, "put", name, bytes, TRUE)
ReadFile(r) ==
    LET bytes == disk[req[r].name]
        type  == SniffImageType(bytes)
    IN
    /\ req[r].at = "read"
    /\ req' = [req EXCEPT ![r] =
            IF bytes = Absent THEN Forget(@, IF Driver = "local" THEN "insert" ELSE "load")
            ELSE IF type # Unknown /\ ~Matches(@.name.ext, type)
            THEN Goes(@, "rename", @.name, bytes, TRUE)
            ELSE AfterRename(@, @.name, bytes)]
    /\ UNCHANGED <<disk, objects, rows, uploads>>

(* reconcileExtension; fs.rename rejects when the file is gone.            *)
Rename(r) ==
    LET from == req[r].name
        to   == [stem |-> from.stem, ext |-> ExtensionOf(SniffImageType(req[r].body))]
    IN
    /\ req[r].at = "rename"
    /\ IF disk[from] = Absent
       THEN req' = [req EXCEPT ![r] = Idle] /\ UNCHANGED disk
       ELSE /\ disk' = [disk EXCEPT ![to] = disk[from], ![from] = Absent]
            /\ req' = [req EXCEPT ![r] = AfterRename(@, to, @.body)]
    /\ UNCHANGED <<objects, rows, uploads>>

(* sniffBuffer ?? fs.readFile(actualPath)                                  *)
Load(r) ==
    LET bytes == disk[req[r].name] IN
    /\ req[r].at = "load"
    /\ req' = [req EXCEPT ![r] = IF bytes = Absent THEN Idle
                                 ELSE Goes(@, "put", @.name, bytes, @.sniffed)]
    /\ UNCHANGED <<disk, objects, rows, uploads>>

(* storage.upload, whose answer may be lost.                               *)
Stored(request, bytes) ==
    [bytes |-> bytes,
     type |-> IF request.sniffed THEN ContentType(request.body, request.name.ext)
              ELSE MimeOf(request.name.ext),
     by |-> IF request.sniffed THEN "sniffed" ELSE "declared"]
PutAgain(r, answered) ==    \* mutant: the body is read again for the upload
    /\ req[r].at = "put" /\ disk[req[r].name] # Absent
    /\ objects' = [objects EXCEPT ![req[r].name] = Stored(req[r], disk[req[r].name])]
    /\ req' = [req EXCEPT ![r] = IF answered THEN Forget(@, "unlink") ELSE Idle]
    /\ UNCHANGED <<disk, rows, uploads>>
PutUnawaited(r, answered) ==    \* mutant: the upload is not waited for
    /\ req[r].at = "put"
    /\ objects' = IF answered
                  THEN [objects EXCEPT ![req[r].name] = Stored(req[r], req[r].body)] ELSE objects
    /\ req' = [req EXCEPT ![r] = Forget(@, "unlink")]
    /\ UNCHANGED <<disk, rows, uploads>>
Put(r, answered) ==
    /\ req[r].at = "put"
    /\ objects' = [objects EXCEPT ![req[r].name] = Stored(req[r], req[r].body)]
    /\ req' = [req EXCEPT ![r] = IF answered THEN Forget(@, "unlink") ELSE Idle]
    /\ UNCHANGED <<disk, rows, uploads>>

(* fs.unlink(...).catch(() => undefined)                                   *)
Unlink(r) ==
    /\ req[r].at = "unlink"
    /\ disk' = [disk EXCEPT ![req[r].name] = Absent]
    /\ req' = [req EXCEPT ![r] = Forget(@, "insert")]
    /\ UNCHANGED <<objects, rows, uploads>>

(* fileRepository.save, whose answer may be lost, and on to the next field. *)
Insert(r, answered) ==
    /\ req[r].at = "insert"
    /\ rows' = rows \cup {[name |-> req[r].name, presigned |-> FALSE]}
    /\ req' = [req EXCEPT ![r] = IF answered THEN Turn(@.names) ELSE Idle]
    /\ UNCHANGED <<disk, objects, uploads>>

(* The storage or the database refuses: 500, and nothing is undone.        *)
FailCleans(r) ==    \* mutant: the object is deleted when its row cannot be saved
    /\ req[r].at \in {"put", "insert"}
    /\ objects' = [objects EXCEPT ![req[r].name] = IF req[r].at = "insert" THEN Absent ELSE @]
    /\ req' = [req EXCEPT ![r] = Idle]
    /\ UNCHANGED <<disk, rows, uploads>>
Fail(r) ==
    /\ req[r].at \in {"put", "insert"}
    /\ req' = [req EXCEPT ![r] = Idle]
    /\ UNCHANGED <<disk, objects, rows, uploads>>

-----------------------------------------------------------------------------
(* createPresignedUpload: the URL is signed here and the row is saved      *)
(* before anything is stored.  createStorageKey keeps the extension.       *)
Presign(field, slug, ext) ==
    /\ Driver = "object" /\ uploads < MaxUploads
    /\ uploads' = uploads + 1
    /\ \E stem \in StemsFor(field, slug) :
            rows' = rows \cup {[name |-> [stem |-> stem, ext |-> ext], presigned |-> TRUE]}
    /\ UNCHANGED <<disk, objects, req>>

(* The client uses its URL, with bytes and a type of its own.              *)
ClientPut(row, bytes, type) ==
    /\ row.presigned /\ uploads < MaxUploads
    /\ uploads' = uploads + 1
    /\ objects' = [objects EXCEPT ![row.name] = [bytes |-> bytes, type |-> type, by |-> "client"]]
    /\ UNCHANGED <<disk, rows, req>>

(* The process stops: requests are gone, the disk, the bucket and the      *)
(* table stay.                                                             *)
Crash ==
    /\ \E r \in Requests : req[r] # Idle
    /\ req' = [r \in Requests |-> Idle]
    /\ UNCHANGED <<disk, objects, rows, uploads>>

Next ==
    \/ \E r \in Requests, parts \in UNION {[1..k -> Parts] : k \in 1..MaxParts} :
            Request(r, parts, parts[1].stem)
    \/ \E r \in Requests :
            \/ WritePart(r) \/ Refuse(r) \/ Handle(r) \/ ReadFile(r) \/ Rename(r)
            \/ Load(r) \/ Unlink(r) \/ Fail(r)
            \/ \E answered \in BOOLEAN : Put(r, answered) \/ Insert(r, answered)
    \/ \E field \in {"topic", "post"}, slug \in TopicStems, ext \in Declared :
            Presign(field, slug, ext)
    \/ \E row \in rows, bytes \in Kinds, type \in Types \ {Unknown} : ClientPut(row, bytes, type)
    \/ Crash

Spec == Init /\ [][Next]_vars

-----------------------------------------------------------------------------
(* Properties.                                                             *)

Served(n) == IF Driver = "local" THEN disk[n] # Absent ELSE objects[n] # Absent

(* A row that an upload inserted names a file that is there, and goes on   *)
(* to be there, whatever fails or stops between storing and inserting and  *)
(* whatever other uploads of the same name do.                             *)
RowsServed == \A row \in rows : row.presigned \/ Served(row.name)

(* An object stored with the type of its bytes carries the type and the    *)
(* extension of the bytes that are in it, not of those of another request  *)
(* that wrote to the same name in the meantime.                            *)
TypedByBytes ==
    \A n \in Names : objects[n] # Absent /\ objects[n].by = "sniffed" =>
        LET type == SniffImageType(objects[n].bytes) IN
        type # Unknown => objects[n].type = type /\ Matches(n.ext, type)

(* A name that is corrected takes no file away that a row names.           *)
CorrectionKeepsServed ==
    [][\A r \in Requests : Rename(r) =>
            \A row \in rows : Served(row.name) => Served(row.name)']_vars

(* What readers of the table rely on.                                      *)
Files == INSTANCE StoredFiles WITH
    stored <- {n \in Names : objects[n] # Absent},
    linked <- {row.name : row \in {x \in rows : ~x.presigned}},
    offered <- {row.name : row \in {x \in rows : x.presigned}}
(* Uploads keep that promise with object storage.                          *)
KeepsPromise == Files!Spec
=============================================================================
