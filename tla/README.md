# Models of the vethealth backend

TLA+ models of this repository's NestJS backend, TLC instances of them and
TLAPS proofs about them. Paths below are relative to the repository root; a
definition carries the name the source uses for the same thing, and
`PROJECT.json` maps every definition to the lines it stands for.

The backend serves a veterinary content site: posts, pages, topics and
categories edited by users with roles, uploaded pictures in an S3-compatible
bucket, SEO fields written by hand or by a language model, and accounts with
e-mailed links and refresh tokens. It is one Node process (or several behind a
balancer) over one MySQL database through TypeORM. **No handler opens a
transaction or takes a lock**: a request is a sequence of awaited repository
calls, each of which is a transaction of its own, and between two of them any
step of any other request may run. That is where the hard behaviour of this code
lies, and what the models are about.

## 1. Inventory

| component | state | operations | interacts with | what makes it correct |
|---|---|---|---|---|
| auth (`src/modules/auth`) | none of its own; signed tokens at clients | login, logout, register, confirm, forgotPassword, changePassword, refreshTokens | users, sessions, confirm links, mail | a session ends only when it should and does end then; a changed password cuts other sessions off; a link is consumed by what it promises |
| sessions (`src/modules/session`) | table `session`: user, hash, soft delete | create, update(hash), softDelete(id / user, except one) | auth | one valid refresh token per session; a closed session stays closed |
| confirmation links (`src/modules/confirm`) | table `confirm`: user, hash, expiry | create, findOne, delete | auth, mail | a mailed link resolves, until it expires or is used |
| users (`src/modules/users`) | table `users`: role, status, password, soft delete | find, update, softDelete behind UpdateUserGuard, DeleteUserGuard | auth, posts | only a SuperAdmin gives a SuperAdmin another role or status; e-mails are unique |
| seo (`src/modules/seo`) | - | findEntries, generate, update | metadata, ai, posts, pages, topics | an update changes the fields it was sent and creates at most one row |
| metadata (`src/modules/metadata`) | table `metadata`, referenced by posts, pages, topics, categories | by SeoService and by the cascade of a material's save | seo, posts, pages, topics | a row belongs to one material |
| ai (`src/modules/ai`) | none; one abort timer per request | generateSeoMetadata: at most two attempts, error classification, Retry-After | providers, seo | bounded number of calls; every error gets the right status; a correction is used only when it is better |
| files (`src/modules/files`) | table `files`, objects in a bucket or on disk, temporary files | uploadFile, createPresignedUpload | posts, topics, bucket | a row names an object that exists; temporary files go |
| posts (`src/modules/posts`) | table `posts`: status, author, topics, slug | create, find, update, softDelete with ownership and publish checks | users, topics, files, metadata | only an administrator publishes; drafts are seen by their author |
| pages, topics, categories | tables with slug, status, parent, page | CRUD | posts, metadata, files | names are unique although the check precedes the insert |
| search (`src/modules/search`) | none | candidates by two LIKEs over the titles and the stored JSON of published posts, then a filter on the visible text, then a page | posts, text utilities | what the first filter drops the second would drop too; pages neither overlap nor miss |
| text utilities (`src/utils`) | none | the text of an editor state, the excerpts of a long one for a prompt, slugs, image types by their bytes | search, seo, ai, files, scripts | - |
| mail (`src/mail`, `src/mailer`) | none | three mails | auth | failure is reported after the rows were written |
| validators, roles, guards (`src/utils`, `src/roles`) | none | decisions on one request | all | - |
| throttler (`src/utils/guards`) | counters of a library | - | all | - |
| migrations, seeds (`src/database`) | schema | run once | - | content blocks keep their text |
| storage scripts (`scripts/`) | references in tables, objects in a bucket | copy objects, rewrite references, fix content types | database, bucket | a dry run writes nothing; a second run changes nothing |
| reviews, notifications, i18n, configuration, Docker | entities without service, an empty module, wording, start-up values | - | - | - |

Hard behaviours, and where: interleaving of awaited calls (auth, sessions, seo,
users, unique names), values used after another request changed them (session
row, metadata row, caller's role in the token), failures between two calls
(confirm, register, changePassword, upload, SEO link), lost responses and the
retry of what was done (refresh, scripts), timers against late answers (ai).
`PROJECT.json` lists each under "hazards" with its line and the properties that
would catch it, or why none does.

## 2. Modules

In the order of what would hurt most if it were wrong.

| module | models | runs | proofs |
|---|---|---|---|
| `AuthSessions`, abstract `SessionLifecycle` | users, sessions, links and every handler of auth | tokens, links, reuse | `AuthSessionsProofs` |
| `SeoMetadata` | metadata rows under SEO updates and ordinary saves | seo_overlap, seo_rest | `SeoMetadataProofs` |
| `AiGeneration` | one generation: attempts, retries, the abort timer, the classification of failures | ai_generation | `AiGenerationProofs` |
| `FileUploads`, abstract `StoredFiles` | multer, disk, bucket and table under uploads and presigned uploads | file_uploads, files_local | `FileUploadsProofs` |
| `UserAdmin` | users under guards, validators, old tokens and seeds | user_roles | `UserAdminProofs` |
| `PostsWorkflow` | who publishes, changes, deletes and reads a post | posts_publish | `PostsWorkflowProofs` |
| `PagesContent` | the migration of page contents and its revert, beside editors | content | `ContentProofs` |
| `UniqueNames` | titles and slugs: validator, hook, index | content | `ContentProofs` |
| `ContentSearch`, `SeoContext` | the text of an editor state and the search; the excerpts of a long text | content | `ContentProofs` |
| `StorageMigration`, `RefRewrite`, `ContentTypes`, `ImageTypes` | the scripts around the bucket, as procedures and as functions on a text or on the first bytes of a file | storage_scripts | `StorageProofs` |

Modules that are proved about have no RECURSIVE operator, name their assumptions
and state invariants as conjunctions of named parts. `MCStorage` and `MCContent`
each bring several small modules together: their variables are disjoint, a
behaviour follows one of them (`script`, `part`), and the others rest in one of
their initial states, so that one run checks the properties of all. `ContentTables` and
`StorageScripts` hold the instances and the names of their properties that the
runs and the proofs share.

What could be added: the composition of `AiGeneration` with `SeoMetadata` (a
generation followed by an update; the two share no state today), categories of
posts, and the tree of topics.

## 3. AuthSessions

### State

| variable | stands for |
|---|---|
| `users` | table `users`: row absent / live / soft-deleted, status, password |
| `sessions` | table `session`: row state, owner, hash |
| `confirms` | table `confirm`: row state (deleted = removed), owner, whether a day has passed |
| `requests` | the handlers that run now: the step each is about to take and the local variables it will use in it |
| `tokens` | refresh tokens that reached a client, each a pair (session, hash); whoever holds one may also hold the access token issued with it |
| `links` | confirm rows whose hash was e-mailed |
| `lastHash`, `lastPassword`, `failures` | generators of fresh values and the number of failures, bounded by the `Max...` constants |
| `presented`, `reused`, `lost`, `applied`, `cut`, `spared`, `raced`, `sessions[s].password` | history: what properties need to remember, read by no action's guard |

Abstractions. A password is the number of the write that stored it, 0 the null
column of an account that has none: two writes never store an equal password,
which separates "old" from "new". scrypt is equality. Hashes are fresh numbers.
A refused request that wrote nothing (401, 404, 422) is a stuttering step. The
expiry of JWTs and throttling only remove behaviours. `Repository.save` of one
entity is one step: the columns that two handlers save concurrently (status,
password) are disjoint or both set by the same handler. Roles are not here, so
`AdminSetStatus` and `AdminDeleteUser` may hit any live account; an e-mail
changed by PATCH renames an account and is not modelled.

### Actions

A handler starts with a `...Find` action (its first awaited read and every
early return after it) and goes through one action per further awaited call:

| endpoint | actions |
|---|---|
| POST /auth/login | `LoginFind`, `LoginCreate`, `Respond` |
| POST /auth/refresh | `RefreshFind`, then `RefreshRevoke`, or `RefreshRotate` and `Respond` |
| POST /auth/logout | `Logout` (a single call) |
| PATCH /auth/change-password | `ChangeFind`, `ChangeUpdate`, `ChangeRevoke` |
| POST /auth/register | `RegisterCreate`, `LinkCreate`, `LinkMail` |
| POST /auth/forgot-password | `ForgotFind`, `LinkCreate`, `LinkMail` |
| POST /auth/confirm | `ConfirmFind`, then `ConfirmExpire`, or `ConfirmRevoke`, `ConfirmUpdate`, `ConfirmDelete` |
| PATCH /users, DELETE /users/:id | `AdminSetStatus`, `AdminDeleteUser` |
| time | `ConfirmExpires` |
| crash, rejected await, lost response, mail failure | `Fail` |

Details that are easy to miss and are in the model: a soft-deleted user is
joined as null, so `refreshTokens` rotates the hash and then throws; `UPDATE
session SET hash` also hits a row deleted since; access tokens are not checked
against the table, so `logout` and `changePassword` accept those of a closed
session; a Blocked user may log in and is made Active by a link; several links
of one user are valid at once; `confirm` ends the sessions before it stores the
password.

### Properties

- `RevokedOnlyIfReused`: refreshTokens is about to end a session only if one of
  its tokens was presented twice. (Two refreshes with the *same* token count as
  two presentations: that is the code's reuse rule, and the reason why a lost
  response costs the client the session.)
- `LiveSessionHasHolder`: the hash of a live row is one somebody can present, or
  a failure lost it.
- `OldPasswordCutOff`: after a completed changePassword every live session with
  an older password is the caller's own (`spared`) or was inserted by a login
  that had compared the old password before (`raced`). The second part is what
  the code does, not what one would wish; it is named so that the exception is
  exact.
- `ConsumedLinkSetPassword`, `MailedLinkResolves`: what links promise when any
  call of confirm, register or forgotPassword fails.
- `SessionsFollowLifecycle`: the table refines `SessionLifecycle`: Open, Rotate
  to a hash never used before, Close for good.
- `ReuseEndsSession`: a refresh that found a superseded token ends the session.

## 4. SeoMetadata

`SeoService.update` reads the material with its metadata; then it either saves
the row as read with the new fields laid over it (`SeoSelect`, `SeoWrite`: the
two halves of `save`, which reads the row again and writes the columns that
differ), or inserts a row (`SeoInsert`) and sets the foreign key (`SeoLink`).
`EditMaterial` is an ordinary PATCH of a post, page or topic that carries a
metadata object: `CreateMetadataDto` has no id, so the cascade inserts a row and
repoints the material. `DeleteMaterial`, `Fail` are the rest of the world. A
column's value is a text or null; `trim() || null` makes a blank text null.

`disturbed` remembers which running updates have been overtaken: another write
to the row they work on, or a new link of their material. An update that is not
disturbed keeps what the code's comment promises (`UndisturbedLeavesRest`,
`AcknowledgedIsShown`), and no interleaving makes two materials share a row
(`RowsNotShared`). One that is disturbed does not, which run `seo_rest` shows
against `src/modules/seo/seo.service.ts:146-147`.

## 5. AiGeneration

One request of `AiService.run`. `config` is what the environment says (provider,
prefix of the model, keys); `at`, `attempt`, `try` are the loop of `run` and the
SDK's retry inside it; `previous` is a valid draft that is being corrected;
`aborted` is the one timer that all attempts share. `Generate` covers every
early answer; then `Answer`, `Misfit` (an object that does not fit the schema),
`CallFails`, `Retry`, `Timeout` and `CutOff` interleave. A draft is the set of
its defects, a failure its class, status, the depth of an abort inside it and
what Retry-After asks for.

- `CallsBounded`: two attempts, each with the SDK's retries, whatever comes back.
- `DraftNotLost`: no error of the correction and no timeout turns an answer with
  a valid draft into a failure.
- `RateLimitIsTold`: a rate limit that ends the request is answered 429, through
  the SDK's wrapper too, and never with less waiting than was asked for.
- `EveryRequestEnds`: every call ends although the provider may stay silent.

## 6. FileUploads and StoredFiles

`disk`, `objects` (the bucket), `rows` (table `files`), and `req`: the requests
between their awaits. One action per awaited call: `WritePart`, `Refuse` (multer),
`Handle`, `ReadFile`, `Rename`, `Load`, `Put`, `Unlink`, `Insert`, each of which
may be rejected (`Fail`) or answered after it took effect; `Presign` and
`ClientPut`; `Crash`. A topic image keeps the name its client gave it, so two
requests may share a file. A file is the bytes it begins with (`ImageTypes`);
the random names of other pictures are taken to be new.

- `RowsServed`: with object storage a row of an upload names an object that is
  there, whatever fails between storing and inserting.
- `TypedByBytes`: what is stored under a type that was sniffed has that type and
  extension, although another request may have rewritten the file meanwhile.
- `KeepsPromise`: the uploads implement `StoredFiles`: store first, link then,
  and take nothing away. The row of a presigned upload is only offered: it may
  come before its object, or without one, and neither property speaks of it.
- `CorrectionKeepsServed`, **violated** with local storage (`files_local`).

## 7. UserAdmin

`users`, `tokens` (who, and the role signed at login), `req`, and `seed`. An
update is its guard (`Update`), its validators (`Validate`) and its write
(`Save`); a removal and a registration likewise; `SeedCounts` and `SeedInserts`
are the user seed, of which several may run; `Confirm` is what a link does. The
id of a role may come as a string or as a number: the guard and the validator
compare it in different ways. And a field may come as null: no validator runs on
it, the guard, which asks by truth (`Names`), takes it for nothing sent, and the
write empties the column (`Merged`), or fails for an e-mail. A token may then be
signed without a role, and a row without one cannot be changed or removed by any
request, because both guards read its id and throw (`AllowedTarget`, `Deletable`).

- `SuperAdminsSeeded`: no sequence of requests makes a SuperAdmin.
- `SuperAdminAtMostEmptied`: without the token of a SuperAdmin a request neither
  removes a SuperAdmin nor gives it another role or status, however long ago the
  guard looked at the target; all it can do is empty them, by a body that sends
  null and names neither. That the code does: see the divergences below.
- `EmailsUnique`: among all rows, however validators, seeds and writes race.

## 8. PostsWorkflow

`posts`, `admins`, `tokens`, `req`, and the history `approved`. `Create` and
`Insert`; `Update`, `Read` and `Save`; `Delete` and `Remove`: a guard,
interceptor and pipes first, then the read with its checks, then the write, and
other requests in between. `Listed` and `Found` are the two ways of reading.

- `PublicOnlyOnceApproved`: an author alone never publishes, by whatever
  sequence. The exception is what the code has: `CreatePostGuard` compares the
  id of the status with a number, so a creation that spells it as a string is
  not stopped; `approved` counts it.
- `OutOfTurnOnlyIfOvertaken`: a write by somebody who may no longer write was
  overtaken between its read and its write.
- `ListedIsFound`: what a reader finds in a list can be read by itself.

Pictures, categories and the order of lists are left out.

## 9. The content tables

**UniqueNames.** `Come` is a request whose body has been transformed, `Check` one
validator's query (which finds *any* row with the name), `Save` the hook that
derives a slug and the write, which an index may refuse (`Fits`). `entity` says
which table it is: posts and topics have unique indexes, pages and categories
have none, and the name of a category is not validated. `NamesExplained`: two
rows share a name only if the slug of one was made of its title or one was
written after another request had written; an index refuses only such a write.
An update of the title alone replaces a slug that was chosen: that is in the
model, and no property is about it. Empty titles are left out.

**PagesContent.** Migration `PagesBuilderContent`: `Alter`, `Select`, `UpRow` for
each row, `Record`; `Revert`, `DownRow`, `Narrow`, `Unrecord`; `Crash` anywhere;
`Edit` by an editor that knows the builder or one that does not. ALTER commits,
so `up` runs outside a transaction and `down` is rolled back only before its
ALTER. The database refuses what a column cannot hold (strict mode).
`TextKept`: the text saved last is the text of its page, except where it was
saved between a run's read and its write of the row; no document is wrapped
twice. `RecordedIsWrapped`: when the migration is recorded every page is wrapped,
except those saved in the old form since.

**ContentSearch.** An editor state is a tree: `Nodes` is the set of all nodes
that are looked at, and the `Height` of a node, which grows from child to parent,
is what makes `Walk`, `Json` and `Prose` functions on it. `Walk` and `Collapse`
are `lexicalText`; `Json` is what the database sees of the same nodes, with
quotes, backslashes and line ends of a text escaped. A node without a list of
children that is no text, an image say (`Decorators`), gives no text, whatever it
carries. Strings are sequences of characters.
`OnlyBlocksSeparate`: in a document of blocks, formatting and links do not break
words, and blocks, line breaks and tabs do; blocks within blocks, those of a
list, it leaves out. `PlainPiecesFound`: what stands in a title or in one leaf
of the text, at any depth, is found although the first filter reads the JSON. A
query that spans two leaves may be missed, and so may one with a quote or a
backslash, which JSON escapes, or with a blank, which a text may hold twice: the
code does that, and the property says where its promise ends. `PagesCover`: the
pages in a row are the matches, each once, and all but the last are full.

**SeoContext.** `prepareSeoContext` on the lengths of sections. `ExcerptsCorrect`:
the context fits the limit, pieces are in order and do not overlap, the first
and the last character are shown, and `truncated` tells the truth. Every caller
takes the limit 12000; the property is stated from `LeastLimit`, 1308, upwards,
the least that leaves each of 16 sections two characters beside the outline and
the marks, one for either end. A blank text has neither end.

## 10. The scripts around the bucket

**StorageMigration.** `disk`, `bucket`, `rows`, the running `copy` and `refs`
scripts and an app that uploads, edits and is switched to the bucket (`Deploy`).
`CopyStart`, `CopyPut`, `CopySmoke` are the two copy scripts, `RefsStart`,
`RefsSelect`, `RefsUpdate`, `RefsField`, `RefsVerify` the rewriting, field by
field; either may crash anywhere and start again, dry or not. An upload of a topic image
goes over the file of its name, is renamed when its bytes are of another type
(`Corrections`) and, with the object driver, leaves the disk for the bucket; so a
later upload may take the file that an earlier row names. `gone` records those
files, and a copy that listed one before it went finds it missing (`CopyPut`).
A request is one step here; its own steps, and its failures between them, are
`FileUploads`'.
`ReferencesResolve`: at every moment a reference leads to a file, except for
uploads to the disk after it was listed and for files in `gone`. `RerunCompletes`: a run that goes
through finishes what earlier ones left. `LostOnlyIfExposed`: an edit is lost
only in the window of its own column.

**RefRewrite.** What one run makes of one value. A value is a sequence of tokens
as coarse as the two regular expressions allow. `TextsRepaired`: no reference
keeps a scheme without its colon, and what one string of a text becomes does not
depend on the strings beside it. `Idempotent`: a second run changes nothing,
when the public base begins with a scheme. `KeyOfName`: a files row holds the
key of its name, for every name without a quote or a parenthesis; one that has
one is cut there. `RefersAsApp`: the URL is the one the app builds, for settings
spelled in the usual way: not for `TRUE`, nor for addresses with more slashes at
their end than one side strips.

**ContentTypes** and **ImageTypes.** `ListPage`, `NextKey`, `Head`, `Read`, `Copy`
and `Finish`, with `KeyFails` and `Crash`, beside `AppWrite`. `CleanExitLeavesNoLie`:
exit code 0 of a run that applied its fixes leaves no object whose type its
bytes contradict. `OnlyLiesChange`: nothing else is touched, so that the two
detections of types agree on what the backend stores. Its exception is an object
that the app replaces between `Head` and `Copy`: the copy gives the new bytes the
type of the old.

## 11. Runs

| run | instance | shows |
|---|---|---|
| `tokens` | 1 user, 2 handlers, 2 sessions, 3 hashes, 2 passwords, 1 failure | `RevokedOnlyIfReused`, `LiveSessionHasHolder`, `OldPasswordCutOff`, refinement |
| `links` | 1 user from registration on, 2 handlers, 2 links, 3 passwords, 1 failure | `ConsumedLinkSetPassword`, `MailedLinkResolves` |
| `reuse` | 1 session, 3 hashes, no failure, fair handlers | `ReuseEndsSession` |
| `seo_overlap` | 2 materials, 2 updates, 1 edit, 2 rows, 1 failure | `RowsNotShared`, `UndisturbedLeavesRest`, `AcknowledgedIsShown` |
| `seo_rest` | 1 material, 2 fields, 2 updates | **violated**: `RestLeftAsWas`, an overlapping update undoes a field |
| `ai_generation` | 2 providers, every configuration, 1 retry, causes nested up to one level deeper than is looked, 5 drafts, 10 failures, fair timer | section 5 |
| `file_uploads` | object storage, 2 requests of up to 2 parts of one name, 3 uploads or presigned writes | `RowsServed`, `TypedByBytes`, `KeepsPromise` |
| `files_local` | local storage, 2 uploads | **violated**: `CorrectionKeepsServed`, a row names a file that was renamed |
| `user_roles` | 2 users, 3 e-mails, bodies with a role in either spelling, a status, an e-mail or nulls, 2 requests at a time, both symmetric, 6 requests, sign-ins and seeds in all | section 7 |
| `posts_publish` | 1 post, 2 users, 1 topic, 2 requests, 4 requests and changes of role in all | section 8 |
| `content` | pages: 2 pages, 2 texts, 2 edits, 4 runs. Names: 2 rows, 4 names with 2 slugs, 2 requests, 3 bodies, each table. Search: 1 post with any of about 200 texts of one or two blocks of up to three nodes, and up to 5 posts, pages of 1 to 3. Excerpts: no section to 60, of lengths around the limits 1308 and 12000 | section 9 |
| `storage_scripts` | move: 2 keys, of which one may be corrected into the other, 3 rows in 3 columns, 1 upload to what was there, 1 edit, 3 runs. Rewriting: every text of up to 5 of 6 tokens, every form of 3 names, 90 deployments (four spellings of either address), 3 runs. Types: 2 keys in pages of one, 3 kinds of bytes, 1 write, 2 runs, 1 failure | section 10 |

Why these bounds. Every property speaks of one session, link, material, row or
key at a time, or of a pair; handlers interact only through rows, so two requests
reach each overlap of two steps, and what happened before is carried by rows,
tokens and history. Two sessions of one user are needed for "the others" of
changePassword and three hashes for two logins and a rotation, or one login and
two rotations; two rows for a shared name, three bodies for one that comes
between the check and the write of another; two pages for a run that dies
between them, four runs for a migration, a revert and a repetition of either;
two texts of the same page for a lost edit. One failure may fall between any two
steps. Five tokens hold two references, a gap between them and a scheme before
either. Sessions of different users never meet in a criterion, hence one user;
the proofs cover the rest. Deadlock is not checked: with bounded generators the
systems really stop.

Fairness. `AuthSessions!FairSpec` asks weak fairness of the steps of a handler
that already runs, and so does `SeoMetadata!FairSpec`, so that the
counterexample of `seo_rest` is one of a system that keeps running: Node's event
loop resumes every continuation whose await has settled.
`AiGeneration!FairSpec` asks that the timer of `AbortSignal.timeout` fires and
that a call with an aborted signal is rejected; the provider owes nothing.
Nothing is asked of clients, administrators or time. `reuse` has no failures
because a crash is allowed to leave a step undone.

Each property of a passing run has a mutant: an operator marked `mutant` in the
module, a plausible bug that makes that property false in that run.

**Divergences.** Two disagreements of code and comment have a run (`seo_rest`,
`files_local`). Others met while reading are built into the models as the code
has them, but no run is kept for them:

- two overlapping first SEO updates insert two rows (`SeoInsert`) although
  `src/modules/seo/seo.service.ts:145` says that no row is duplicated;
- a temporary file stays when the storage refuses an upload, and so does every
  file of a field but its first (`Fail`, `FirstNames`;
  `src/modules/files/files.service.ts:94`);
- an Admin may change the names and the e-mail of a SuperAdmin, and a null in
  place of role or status passes for a body that names neither: an Admin, or a
  user on the own account, empties the column, although the comment says that
  only another SuperAdmin may update a SuperAdmin (`Names`, `AllowedTarget`;
  `src/modules/users/guards/update-user.guard.ts:40`). Where the role is emptied,
  every later update or removal of that user is answered 500;
- while files are moved, a topic image of a name that is taken removes the file
  of an earlier row from the disk, by its renaming or, once the driver is the
  bucket, by the unlink of its own temporary copy (`Upload`, `gone`;
  `src/modules/files/files.service.ts:208`);
- PATCH of a post without topics is answered 500 (`Update`;
  `test/posts.e2e-spec.ts:94`), POST with an author 400, and an author who has a
  topic is refused every creation (`Create`, `TopicsRefused`;
  `src/modules/posts/guards/create-post.guard.ts:36`);
- a page or category without a slug gets one made of its title, compared with
  nothing (`CreateSlug`, `derived`);
- a topic picture with a parenthesis in its name loses the end of its key
  (`KeyEnd`; `scripts/migrate-db-refs-to-r2.js:211`), and
  FILE_CDN_INCLUDE_BUCKET_IN_PATH=TRUE gives other URLs than the app's
  (`PublicBase`, `AppUrl`);
- a copy script run after the switch puts old files over newer objects
  (`CopyPut`; `README.md:78`).

## 12. Proofs

For every set of users, requests, rows and texts and every value of the bounds,
from the assumption each module names for its constants.

| module | theorem | argument |
|---|---|---|
| `AuthSessionsProofs` | `TypeCorrect` | `TypeOK` is inductive by itself because `Request` says which local variables each step relies on |
| | `LinksCorrect`, `MailedLinksResolve` | `LinkInv` adds what a handler knows of its link: it is stored; expired at `confirm.expire`; applied at `confirm.delete` |
| | `HolderCorrect` | `LiveSessionHasHolder` is inductive: the hash moves from row and handler to client in step |
| | `CutOffCorrect` | `CutInv` adds that passwords only grow, that a running revocation is for a stored password, and that handlers and sessions belong to rows that exist; without the first, a login that compared the current password could fall below `cut` |
| | `ReuseCorrect` | `TokenInv`: of a session none of whose tokens was presented twice, either a delivered token not presented yet or exactly one handler holds the current hash, never both. This is the reason why two refreshes cannot both rotate without a reuse |
| | `RefinesLifecycle` | every step is an Open, a Rotate, a Close or a stutter of the abstract table; `TokenInv` gives that a rotation is of a row that exists |
| `SeoMetadataProofs` | `TypeCorrect` | `TypeInv` adds that a compared row is a whole row |
| | `RowsStayApart` | `RowsInv`: links lead to inserted rows only, and the row of a handler that is about to link is linked by nobody |
| | `UndisturbedKeepsRest`, `AcknowledgedShown` | `UndisturbedInv`: an update that nothing has overtaken still sees the row and the link that it read |
| `AiGenerationProofs` | `CallsAreBounded`, `DraftIsNotLost`, `CallsNeedKey`, `RateLimitTold` | `CallsCounted` ties the number of calls to attempt and try; `DraftKept`: a draft received and not answered yet is in `previous`; `KeyIsSet` |
| `FileUploadsProofs` | `ObjectsTyped` | with either driver; `NameFits`: what a request would store with a sniffed type goes under a name that the same bytes have corrected or left |
| | `RowsAreServed`, `UploadsKeepPromise` | under `Driver = "object"`: `InHand` says that the name a request holds past its `Put` is in the bucket, and that objects stay; every step is a Store, a Link, an Offer or a stutter |
| `UserAdminProofs` | `OnlySeedMakesSuperAdmins`, `EmailsStayUnique`, `SuperAdminsAreSafe` | `NoneWrittenSuper`: no body past the validators names SuperAdmin; `TargetsChecked`: the target of a request past its guard still has a row, and if it is a SuperAdmin whose role or status the body names, the caller is one too; `MergedFacts`: a body that names neither leaves or empties them; no removal past its guard has a SuperAdmin for target (only seeds make them, on unused rows) |
| `PostsWorkflowProofs` | `PublicOnceApproved`, `OutOfTurnIsOvertaken` | `PublishingChecked`: an insert that publishes is by an administrator or has a string id, a save that publishes is by an administrator or of an approved post; `ReadHolds`: what a request not overtaken has read still holds |
| | `ListsAgree` | for every reader, role, filter and post, from the visibility of one post alone |
| `ContentProofs` | `TextIsKept`, `RecordedAreWrapped` | `RowsAreKept`, `RowsAreBefore`: the rows a revert holds are those of before; `RollbackIsKept`: what a crash restores is what was recorded; and a row of `up` is wrapped or pending |
| | `SharedNames`, `NamesIndexed` | for `UniqueNames`; `ChecksHold`: what a request has validated is, until it is overtaken, held by no row but its own; `BodiesHold`: a body that creates has a title, and its slug is one; `IndexesHold` |
| | `ExcerptsFit` | for `SeoContext`; `ContextInv`: a result is that of its text. `Spans`: pieces in order from one place to another, which `Joins` puts together and `ChainSpans` flattens; `SectionsFollow`: a section begins where the one before ends; `SampledFacts`: a sample of 16 goes up, from the first section to the last; `RoomFacts`: the budgets of the sections, with outline and marks, fit the limit (`SumBounds`) |
| | `PagesAreAll` | for `ContentSearch`; `PagingInv`: an answer is what the search gives for the table. `PageBounds`: a page begins where the one before ends, and the last ends at the end; `PagesFlatten` puts the pages together |
| | `PlainIsFound` | from `PagingInv` again. `FedHolds`: what writes every character that is not special as itself, and takes nothing back, keeps a query without special characters, and escaping and collapsing are both of that kind (`EscapedHolds`, `CollapseHolds`); `FlattenHolds` and `PartHolds` carry it to the parent, and `LeafFound` from a leaf to the root |
| | `OnlyBlocksPart` | `Same`: two strings with blanks in the same places collapse alike (`OutAgree`), and a blank more at the end of one that ends with a blank makes no difference (`Settles`); the text of a block and the leaves it is compared with are such strings (`LeafWords`, `BlockWords`) |
| `StorageProofs` | `References` | `CopyHolds`: a copy has in its list, or in `late`, every file of the disk, and has put what it no longer has to do, unless it has gone from the disk; `CopiedReached`, `MovedReached`, `OldOnDisk`: what each form of reference rests on, up to `gone`; what is in `gone` is not on the disk; `RefsAfterCopy`: references are only moved after a copy |
| | `Lost` | `ChangesHold`: the script holds one value of each row of its column, as it is stored or with the stored one in `exposed` |
| | `Rerun` | `ColumnsDone`: columns that a run has passed hold no old reference in rows left alone; `VerifyLast` |
| | `CleanExit`, `RepairsOnly` | for `ContentTypes`; `LiesAhead`: as long as no key has failed, an object that lies and that the app has left alone is in the list, behind its token, or at hand; `SeenHolds`: what was read of the object at hand still holds unless it was overtaken |
| | `SameSniff` | the signature of each type singles out the buffers that the app's conditions do, in the app's order |
| | `RowsMigrated` | for the files rows of `RefRewrite`; in each form of a row the key is the first of its kind and lasts to the end |
| | `RunsOnce`, `Repairs`, `AppReads` | `RefInv`: a value is what the first run made of the original. `RewriteSplits`: a rewriting goes string by string. `MatchedForm`: a string with a key becomes tokens that begin no match, the base URL, and the key to its end (`Repaired`); `RepairedStays`: such a string is its own rewriting. `TextSettles` puts the strings together, by induction over the length of the text; `WellFormed` is what every key of the result has before it; `BaseFacts`: the base URL leads with a scheme, and is the app's for the usual spellings |
| | `ScriptsTyped` | `FieldAtHand`: a run that has not come to its verification has a column at hand |

Each module of the table has `TypeCorrect`. Frame lemmas (`LinkFrame`,
`HolderFrame`, `CutFrame`, `TokenFrame` and their kin) say once what the many
actions that touch none of the relevant state have in common. Beyond that the
constants are assumed to be what they are named for: a scan or a move has at
least one field, page and version (zero would be a script without a column), no
client declares the absence of a type (`Unknown`), and no file name is empty. An
address of a deployment is unset or begins with a scheme, and holds no key
(`IsAddress`); the limit of a prompt is at least `LeastLimit`; a page has at
least one post, which `PaginationQueryDto` validates; nodes form trees, and what
they hold are strings over `Characters`, among which are the blanks, quotes and
braces that the code writes itself.

Functions that are defined along a sequence or a tree (`SumOf`, `Collapse`,
`Walk`, `Json`, `Prose`, the folds of the library) are proved about by two
lemmas that stand for an induction: `AllFrom`, from a number upwards, and
`FromLeaves`, from the leaves of a tree to its root, both as facts about a set;
and by two that say that such a function exists (`Computed`, `TreeComputed`).

The theorems about one script, or about one of the modules that share
`ContentTables`, are of that module's own specification (`Types!Spec`,
`Rewrite!Spec`, `Unique!Spec`, `Seo!Spec`, `Search!Spec`): `MCStorage` and `MCContent` follow one of them
at a time, so each theorem holds of the part of a run that it is about.

Every safety and action property of a run is a theorem. Only model-checked is
liveness (`ReuseEndsSession`, `EveryRequestEnds`): the prover has no ENABLED. And
what the theorems leave open, because the properties do: a text with blocks
within blocks (`OnlyBlocksSeparate`), and queries with a character that the
stored form escapes (`PlainPiecesFound`).

`RowsAreServed` and `UploadsKeepPromise` hold for object storage only:
`files_local` shows that they do not for the local driver.

## 13. Not modelled

- throttling: counters of a library over wall-clock windows; no state of the
  program depends on them;
- configuration, bootstrap, Docker, Swagger: read once at start;
- i18n, templates of mails: wording;
- reviews and notifications: entities and a module without code;
- the other migrations: schema changes with no reader between their statements;
- `IsExist`, `IsNotAdmin`, the list of roles of an endpoint: decisions on one
  request without state;
- the structured form of `lexicalText` and `pageBlocksText`: layout of a prompt;
- the tree of topics and categories, pictures and categories of posts: no two
  writes of them depend on each other.
