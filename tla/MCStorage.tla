------------------------------ MODULE MCStorage ------------------------------
(* The scripts around the bucket, for TLC: the move with its rewriting of  *)
(* references, what the rewriting makes of one text, and the repair of     *)
(* Content-Types. They share no variable: a behaviour follows one of them, *)
(* and the others rest in one of their initial states.                     *)
EXTENDS StorageScripts, SequencesExt

-----------------------------------------------------------------------------
(* One topic image under two extensions, either of which may turn out to   *)
(* be wrong. The first has a files row and is shown in a text; the second  *)
(* is in another column.                                                   *)
CONSTANTS png, webp, pngFile, pngText, webpText
MCKeyOf   == [r \in Rows |-> IF r = webpText THEN webp ELSE png]
MCFieldOf == [r \in Rows |-> CASE r = pngFile -> 1 [] r = pngText -> 2 [] r = webpText -> 3]
MCCorrections == {<<png, webp>>, <<webp, png>>}

-----------------------------------------------------------------------------
Host == <<"http", "text">>
Env(cdn, s3, include, named) ==
    [cdn |-> cdn, s3 |-> s3, include |-> include, bucket |-> named]
OneEnv    == Env(Host, <<>>, "", TRUE)
(* The ways to spell the settings, the usual ones and others.              *)
Hosts    == {<<>>, Host, Host \o <<"/">>, Host \o <<"/", "/">>}
SomeEnvs == [cdn: Hosts, s3: Hosts, include: {"", "true", "TRUE"}, bucket: BOOLEAN]
(* Every text of at most five tokens, and fewer for all the deployments.   *)
AllTexts   == BoundedSeq({"http", "htp", "/", "key", "gap", "text"}, 5)
FewTexts   == BoundedSeq({"htp", "/", "key", "text"}, 4)
(* Three names, the last with a parenthesis.                               *)
SomeFiles  == {<<"text">>, <<"text", "text">>, <<"text", "gap", "text">>}

-----------------------------------------------------------------------------
Buffer(at0, at4, at8, head) ==
    [short |-> FALSE, at0 |-> at0, at4 |-> at4, at8 |-> at8, head |-> head]
(* A jpeg, an AVIF image sequence and a text.                              *)
ThreeKinds == {Buffer("ffd8ff", "other", "other", "other"),
               Buffer("other", "ftyp", "avis", "other"),
               Buffer("other", "other", "other", "<?xml ")}

-----------------------------------------------------------------------------
VARIABLE script     \* the script that a behaviour follows

MoveRests  == Init /\ \A k \in Keys : ~WasStored(k)
RefsRest   == env = OneEnv /\ original = <<>> /\ column = "text" /\ Rewrite!Init
TypesRest  == objects = [k \in 1..2 |-> Types!Absent] /\ Types!Init

StorageInit ==
    \/ script = "move" /\ Init /\ RefsRest /\ TypesRest
    \/ script = "rewrite" /\ MoveRests /\ TypesRest /\ Rewrite!Init
       /\ (column = "text" => env = OneEnv \/ original \in FewTexts)
    \/ script = "types" /\ MoveRests /\ RefsRest /\ Types!Init

StorageNext ==
    /\ UNCHANGED script
    /\ \/ script = "move" /\ Next /\ UNCHANGED <<refVars, typeVars>>
       \/ script = "rewrite" /\ Rewrite!Migrate /\ UNCHANGED <<vars, typeVars>>
       \/ script = "types" /\ Types!Next /\ UNCHANGED <<vars, refVars>>

StorageSpec == StorageInit /\ [][StorageNext]_<<script, vars, refVars, typeVars>>
=============================================================================
