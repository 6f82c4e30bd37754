------------------------------ MODULE ImageTypes ------------------------------
(***************************************************************************)
(* The type of an image by its first bytes, twice: as the app finds it     *)
(* when it stores an upload, and as the repair script finds it again.      *)
(***************************************************************************)

(* What the two look at: fewer than twelve bytes or not, the bytes at 0,   *)
(* at 4 and at 8, and how the text of the first 1024 begins.               *)
Buffers ==
    [short: BOOLEAN, at0: {"ffd8ff", "PNG", "GIF", "RIFF", "other"},
     at4: {"ftyp", "other"}, at8: {"WEBP", "avif", "avis", "heic", "heix", "mif1", "other"},
     head: {"<svg ", "<svgfoo", "<?xml <svg ", "<?xml ", "other"}]

Unknown == "unknown"
IsSvg(b) == b.head \in {"<svg ", "<?xml <svg "}

(* utils/sniff-image-type.ts                                               *)
SniffBrandless(b) ==    \* mutant: the image sequence brand avis not known
    IF b.short THEN Unknown
    ELSE IF b.at0 = "ffd8ff" THEN "jpeg"
    ELSE IF b.at0 = "PNG" THEN "png"
    ELSE IF b.at0 = "GIF" THEN "gif"
    ELSE IF b.at0 = "RIFF" /\ b.at8 = "WEBP" THEN "webp"
    ELSE IF b.at4 = "ftyp" /\ b.at8 = "avif" THEN "avif"
    ELSE IF b.at4 = "ftyp" /\ b.at8 \in {"heic", "heix", "mif1"} THEN "heic"
    ELSE IF IsSvg(b) THEN "svg" ELSE Unknown
SniffImageType(b) ==
    IF b.short THEN Unknown
    ELSE IF b.at0 = "ffd8ff" THEN "jpeg"
    ELSE IF b.at0 = "PNG" THEN "png"
    ELSE IF b.at0 = "GIF" THEN "gif"
    ELSE IF b.at0 = "RIFF" /\ b.at8 = "WEBP" THEN "webp"
    ELSE IF b.at4 = "ftyp" /\ b.at8 \in {"avif", "avis"} THEN "avif"
    ELSE IF b.at4 = "ftyp" /\ b.at8 \in {"heic", "heix", "mif1"} THEN "heic"
    ELSE IF IsSvg(b) THEN "svg" ELSE Unknown

(* scripts/fix-r2-content-types.js: the signatures in one table.           *)
Signatures ==
    {<<"jpeg", [at0 |-> "ffd8ff"]>>, <<"png", [at0 |-> "PNG"]>>, <<"gif", [at0 |-> "GIF"]>>,
     <<"webp", [at0 |-> "RIFF", at8 |-> "WEBP"]>>}
    \cup {<<"avif", [at4 |-> "ftyp", at8 |-> brand]>> : brand \in {"avif", "avis"}}
    \cup {<<"heic", [at4 |-> "ftyp", at8 |-> brand]>> : brand \in {"heic", "heix", "mif1"}}
Carries(b, signature) == \A f \in DOMAIN signature : b[f] = signature[f]
ScriptSniff(b) ==
    LET types == {s[1] : s \in {x \in Signatures : Carries(b, x[2])}} IN
    IF b.short THEN Unknown
    ELSE IF types \cap {"jpeg", "png", "gif", "webp"} # {}
    THEN CHOOSE t \in types : t \in {"jpeg", "png", "gif", "webp"}
    ELSE IF types # {} THEN CHOOSE t \in types : TRUE
    ELSE IF IsSvg(b) THEN "svg" ELSE Unknown
=============================================================================
