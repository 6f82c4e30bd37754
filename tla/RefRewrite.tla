------------------------------ MODULE RefRewrite ------------------------------
(***************************************************************************)
(* What scripts/migrate-db-refs-to-r2.js writes over one stored value: the *)
(* image references of a text, or the path of a files row.  A value is a   *)
(* sequence of tokens, as coarse as its two regular expressions allow.     *)
(***************************************************************************)
EXTENDS Naturals, Sequences

CONSTANTS
    Names,      \* file names the app has stored, as token sequences
    Texts,      \* stored texts before the migration
    Envs,       \* what FILE_CDN_* and FILE_S3_* may say
    MaxRuns     \* bound: executions of the script

(* "http" is https?://, "htp" the same with its colon lost, "key" one of   *)
(* images/posts/ and images/topics/, "gap" a character that the character  *)
(* classes exclude (quote, space, backslash, closing parenthesis), "text"  *)
(* any other characters.                                                   *)
Schemes == {"http", "htp"}
Tokens  == Schemes \cup {"/", "uploads", "key", "gap", "text", "bucket"}

(* Unset, or a scheme with a host and a path that no key is a part of.     *)
IsAddress(u) == u \in Seq({"http", "/", "text"}) /\ (u # <<>> => u[1] = "http")

TextsAssumption ==
    /\ \A s \in Texts \cup Names : s \in Seq(Tokens)
    /\ <<>> \notin Names
    /\ \A e \in Envs : IsAddress(e.cdn) /\ IsAddress(e.s3) /\ e.bucket \in BOOLEAN
    /\ MaxRuns \in Nat

VARIABLES
    env,        \* environment of this deployment
    column,     \* "files" for files.path, "text" for the seven other columns
    original, value, runs

vars == <<env, column, original, value, runs>>

-----------------------------------------------------------------------------
(* Base URL of the bucket.                                                 *)

EndsInSlash(s) == s # <<>> /\ s[Len(s)] = "/"
StripSlash(s)  == IF EndsInSlash(s) THEN SubSeq(s, 1, Len(s) - 1) ELSE s
(* replace(/\/+$/, '')                                                     *)
StripSlashes(s) ==
    SubSeq(s, 1, CHOOSE n \in 0..Len(s) :
                    /\ \A i \in n+1..Len(s) : s[i] = "/"
                    /\ n # 0 => s[n] # "/")

PublicBaseNoBucket(e) ==    \* mutant: the bucket in the path forgotten
    IF StripSlashes(e.cdn) # <<>> THEN StripSlashes(e.cdn) ELSE StripSlashes(e.s3)
(* The script's; includeBucket ignores the case of the word.               *)
PublicBase(e) ==
    LET base == IF StripSlashes(e.cdn) # <<>> THEN StripSlashes(e.cdn)
                ELSE StripSlashes(e.s3)
    IN IF base # <<>> /\ e.bucket /\ e.include \in {"true", "TRUE"}
       THEN base \o <<"/", "bucket">> ELSE base

(* FileEntity.updatePath and getPublicUrl, for a bare key.                 *)
AppUrl(e, key) ==
    LET url  == IF e.cdn # <<>> THEN e.cdn ELSE e.s3
        base == StripSlash(url)
    IN (IF e.include = "true" /\ e.bucket THEN base \o <<"/", "bucket">> ELSE base)
       \o <<"/">> \o key

-----------------------------------------------------------------------------
(* The regular expressions.                                                *)

NoGap(s, i, j) == \A k \in i..j : s[k] # "gap"
(* A canonical key starts at j: an anchor and at least one character.      *)
KeyAt(s, j) == s[j] = "key" /\ j < Len(s) /\ s[j+1] # "gap"
HasKey(s)   == \E j \in DOMAIN s : KeyAt(s, j)

FirstOf(S) == CHOOSE i \in S : \A j \in S : i <= j
(* The greedy end of the key that starts at j.                             *)
KeyEnd(s, j) ==
    CHOOSE e \in j..Len(s) : NoGap(s, j, e) /\ (e < Len(s) => s[e+1] = "gap")
Key(s, j) == SubSeq(s, j, KeyEnd(s, j))

(* May a match start at i and have its key at j?                           *)
CanLeadColon(s, i, j) ==         \* mutant: the colon of the scheme mandatory
    \/ j = i
    \/ j = i + 1 /\ s[i] = "/"
    \/ s[i] = "http" /\ NoGap(s, i, j)
CanLeadSlash(s, i, j) ==         \* mutant: only a leading slash is consumed
    j = i \/ (j = i + 1 /\ s[i] = "/")
CanLead(s, i, j) ==
    \/ j = i
    \/ j = i + 1 /\ s[i] = "/"
    \/ s[i] \in Schemes /\ NoGap(s, i, j)
KeysFrom(s, i) == {j \in i..Len(s) : KeyAt(s, j) /\ CanLead(s, i, j)}

(* value.replace(IMG_KEY_RE, `${publicBase}/$1`)                           *)
RewriteImageRefs(s, base) ==
    LET rest[i \in 1..Len(s) + 1] ==
            IF i > Len(s) THEN <<>>
            ELSE IF KeysFrom(s, i) = {} THEN <<s[i]>> \o rest[i + 1]
            ELSE LET j == FirstOf(KeysFrom(s, i))
                 IN base \o <<"/">> \o Key(s, j) \o rest[KeyEnd(s, j) + 1]
    IN rest[1]

(* value.replace(/^\/?uploads\//, '')                                      *)
StripUploadsPrefix(s) ==
    IF Len(s) >= 2 /\ s[1] = "/" /\ s[2] = "uploads" THEN SubSeq(s, 3, Len(s))
    ELSE IF s # <<>> /\ s[1] = "uploads" THEN Tail(s) ELSE s

NormalizeStripOnly(s) == StripUploadsPrefix(s)  \* mutant: as it was before
NormalizeFileKey(s) ==
    IF HasKey(s) THEN Key(s, FirstOf({j \in DOMAIN s : KeyAt(s, j)}))
    ELSE StripUploadsPrefix(s)

-----------------------------------------------------------------------------
(* A files row of a name: as the local driver stores it, bare, or a URL    *)
(* that was saved back, its colon lost or not.                             *)
StoredForms(name) ==
    {prefix \o <<"key">> \o name : prefix \in
        {<<"/", "uploads">>, <<"uploads">>, <<>>,
         <<"http", "text", "/">>, <<"htp", "text", "/">>}}

Init ==
    /\ env \in {e \in Envs : PublicBase(e) # <<>>}
    /\ \/ column = "text" /\ original \in Texts
       \/ column = "files" /\ original \in UNION {StoredForms(n) : n \in Names}
    /\ value = original /\ runs = 0

(* The field's part of one run with --execute: for a text only the rows    *)
(* that LIKE finds, and an UPDATE only when something changes.             *)
Migrate ==
    /\ runs < MaxRuns
    /\ runs' = runs + 1
    /\ value' = IF column = "files" THEN NormalizeFileKey(value)
                ELSE IF \E i \in DOMAIN value : value[i] = "key"
                THEN RewriteImageRefs(value, PublicBase(env)) ELSE value
    /\ UNCHANGED <<env, column, original>>

Spec == Init /\ [][Migrate]_vars

-----------------------------------------------------------------------------
(* Properties.                                                             *)

(* A second run finds nothing to change, whatever the first one met.       *)
Idempotent == [][runs > 0 => value' = value]_vars

(* After a run no reference keeps a scheme without its colon in front of   *)
(* its key, so that the script's own verification has nothing to find      *)
(* there.                                                                  *)
NoMalformedReference ==
    runs > 0 => \A j \in DOMAIN value : KeyAt(value, j) =>
        \A i \in 1..j : NoGap(value, i, j) /\ value[i] = "htp" =>
            \E k \in 1..i : KeyAt(value, k) /\ NoGap(value, k, i)

(* A repair stays between two gaps: what one string of the text becomes    *)
(* does not depend on the strings beside it.                               *)
StringsIndependent ==
    column = "text" => \A g \in DOMAIN original : original[g] = "gap" =>
        LET base   == PublicBase(env)
            before == SubSeq(original, 1, g - 1)
            after  == SubSeq(original, g + 1, Len(original))
        IN RewriteImageRefs(original, base) =
            RewriteImageRefs(before, base) \o <<"gap">> \o RewriteImageRefs(after, base)

(* What a run makes of a text: every malformed reference is repaired, and  *)
(* each string by itself.                                                  *)
TextsRepaired == NoMalformedReference /\ StringsIndependent

(* Once migrated, the first reference of a text is the URL that FileEntity *)
(* builds from the same key: the script mirrors the app, if the settings   *)
(* are spelled the usual way. FileEntity reads no word but "true", and     *)
(* strips one slash only.                                                  *)
UsualUrl(u) == \A i \in DOMAIN u : i + 1 = Len(u) => u[i] # "/" \/ u[i+1] # "/"
Usual(e)    == UsualUrl(e.cdn) /\ UsualUrl(e.s3) /\ e.include # "TRUE"
RefersAsApp ==
    Usual(env) /\ column = "text" /\ runs > 0 /\ HasKey(value) =>
        LET j   == FirstOf({k \in DOMAIN value : KeyAt(value, k)})
            url == AppUrl(env, Key(value, j))
        IN \E i \in 1..j : SubSeq(value, i, KeyEnd(value, j)) = url

(* A migrated files row holds the key of its name, whichever form it had,  *)
(* if no character of the name ends a key. The slug that multer stores a   *)
(* topic picture by may keep a quote or a parenthesis, which do.           *)
Plain(n) == \A i \in DOMAIN n : n[i] # "gap"
KeyOfName ==
    column = "files" /\ runs > 0 =>
        \A n \in Names : Plain(n) /\ original \in StoredForms(n) => value = <<"key">> \o n
=============================================================================
