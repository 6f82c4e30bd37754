---------------------------- MODULE ContentTables ----------------------------
(* The content tables side by side: the contents of pages, that a          *)
(* migration wraps, the names of the rows of a table, the excerpts of a    *)
(* text for a prompt, and the search of posts. They share no variable.     *)
EXTENDS PagesContent

CONSTANTS Rows, Names, Slug, Entities, Requests, MaxRequests
VARIABLES entity, table, req, requests, late, derived

Unique == INSTANCE UniqueNames

ASSUME NamesAssumption == Unique!ConstantsAssumption

CONSTANTS Documents, Limits
VARIABLES doc, maxChars, result

Seo == INSTANCE SeoContext

ASSUME ExcerptsAssumption == Seo!ConstantsAssumption

CONSTANTS Characters, Nodes, Height, MaxHeight, Tables, Queries, Sizes
VARIABLES posts, answer

Search == INSTANCE ContentSearch

ASSUME SearchAssumption == Search!ConstantsAssumption

(* Two rows share a name, and an index refuses a write, only for reasons   *)
(* that no validator could see.                                            *)
NamesExplained == Unique!NamesExplained

(* The excerpts of a text fit the limit, are in order, and show both ends. *)
ExcerptsCorrect == Seo!ExcerptsCorrect

(* The pages of a search are what was found, each post once, in order; the *)
(* stored form of a post hides no query that its text has; and only blocks *)
(* and line breaks separate the words of a text.                           *)
PagesCover         == Search!PagesCover
PlainPiecesFound   == Search!PlainPiecesFound
OnlyBlocksSeparate == Search!OnlyBlocksSeparate
=============================================================================
