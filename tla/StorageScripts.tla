---------------------------- MODULE StorageScripts ----------------------------
(* The three scripts around the bucket, side by side: the move with its    *)
(* rewriting of references, what the rewriting makes of one value, and the *)
(* repair of Content-Types. They share no variable.                        *)
EXTENDS StorageMigration, Sequences

-----------------------------------------------------------------------------
CONSTANTS FileNames, StoredTexts, Envs, MaxRewrites
VARIABLES env, column, original, value, rewrites
refVars == <<env, column, original, value, rewrites>>

Rewrite == INSTANCE RefRewrite WITH
    Names <- FileNames, Texts <- StoredTexts, MaxRuns <- MaxRewrites, runs <- rewrites

-----------------------------------------------------------------------------
CONSTANTS N, Kinds, Declared, PageSize, MaxWrites, MaxScans, MaxFailures
VARIABLES objects, scan, exit, writes, scans, failures, written, overtaken
typeVars == <<objects, scan, exit, writes, scans, failures, written, overtaken>>

Types == INSTANCE ContentTypes WITH MaxRuns <- MaxScans, runs <- scans

ASSUME RewriteAssumption == Rewrite!TextsAssumption
ASSUME ScanAssumption    == Types!ConstantsAssumption

-----------------------------------------------------------------------------
(* The properties of the two instances, by the names of their modules, and *)
(* the types of what changes.                                              *)
TypesOK              == TypeOK /\ Types!TypeOK
TextsRepaired        == Rewrite!TextsRepaired
KeyOfName            == Rewrite!KeyOfName
RefersAsApp          == Rewrite!RefersAsApp
Idempotent           == Rewrite!Idempotent
CleanExitLeavesNoLie == Types!CleanExitLeavesNoLie
OnlyLiesChange       == Types!OnlyLiesChange
=============================================================================
