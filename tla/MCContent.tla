------------------------------ MODULE MCContent ------------------------------
(* The content tables, for TLC: the wrapping of page contents, the titles  *)
(* and slugs of rows, the search for a text, and the excerpts of one for a *)
(* prompt. They share no variable: a behaviour follows one of them, and    *)
(* the others rest in one of their initial states.                         *)
EXTENDS ContentTables, Sequences, TLC

-----------------------------------------------------------------------------
nameVars == <<entity, table, req, requests, late, derived>>

(* Two titles with one slug, and one of which nothing remains.             *)
SomeNames == {"A b", "a-b", "!", "empty"}
SlugOf == [n \in SomeNames |-> IF n = "A b" THEN "a-b" ELSE IF n = "!" THEN "empty" ELSE n]

-----------------------------------------------------------------------------
searchVars == <<posts, answer>>

Node(type, string, url, children) ==
    [type |-> type, text |-> string, url |-> url, children |-> children]
Leaf(string) == Node("text", string, <<>>, <<>>)
SomeCharacters == {"a", "b", "n", "t", " ", "\n", "\t", "\"", "\\", "{", "}"}
A == Leaf(<<"a">>)   B == Leaf(<<"b", " ", "b">>)   Q == Leaf(<<"a", "\"", "b">>)
(* A link to "ab", a line break, and an image with a text of its own.      *)
Image == Node("image", <<"b", "a">>, <<>>, <<>>)
Inlines == {A, B, Q, Image, Leaf(<<" ", "a", "b">>), Node("link", <<>>, <<"a", "b">>, <<B>>),
            Node("linebreak", <<>>, <<>>, <<>>), Node("tab", <<>>, <<>>, <<>>)}
Block(children) == Node("paragraph", <<>>, <<>>, children)
Blocks == {Block(<<x>>) : x \in Inlines} \cup {Block(<<x, y>>) : x \in Inlines, y \in Inlines}
          \cup {Block(<<A, x, B>>) : x \in Inlines}
Roots == {Node("root", <<>>, <<>>, <<x>>) : x \in Blocks}
         \cup {Node("root", <<>>, <<>>, <<x, y>>) : x \in {Block(<<A>>), Block(<<B, A>>)}, y \in Blocks}
SomeNodes == Inlines \cup Blocks \cup Roots
HeightOf == [node \in SomeNodes |->
    IF node \in Roots THEN 3 ELSE IF node \in Blocks THEN 2 ELSE Len(node.children)]
Post(title, published, c) == [title |-> title, published |-> published, content |-> c]
Legacy(string) == [kind |-> "legacy", text |-> string]
Untitled == {Post(<<"t">>, TRUE, [kind |-> "lexical", root |-> root]) : root \in Roots}
Titled   == {Post(<<"a", "b">>, p, Legacy(<<"t">>)) : p \in BOOLEAN}
(* One post of any kind, or up to five of few kinds.                       *)
SomeTables ==
    {<<post>> : post \in Untitled \cup {Post(<<"t">>, TRUE, Legacy(<<"a", "b">>))}}
    \cup UNION {[1..n -> Titled \cup {Post(<<"t">>, TRUE, Legacy(<<"a">>))}] : n \in 0..5}

SomeQueries == {<<>>, <<"a">>, <<"a", "b">>, <<"b", "a">>, <<"b", " ", "b">>}

-----------------------------------------------------------------------------
excerptVars == <<doc, maxChars, result>>

Counts  == {0, 1, 2, 3, 15, 16, 17, 18, 31, 32, 60}
Heads   == {4, 30, 300}
Bodies  == {1, 340, 700, 701, 5000, 11996, 11997}
(* No text, or one with a first section that may lack a heading, sections  *)
(* of one length, and one section among them of another.                   *)
SomeDocuments ==
    {[s \in 1..n |-> [head |-> IF s = 1 /\ ~first THEN 0 ELSE h,
                      body |-> IF s = (n + 1) \div k THEN b ELSE a]] :
        n \in Counts, h \in Heads, a \in Bodies, b \in Bodies, k \in 1..2, first \in BOOLEAN}

-----------------------------------------------------------------------------
VARIABLE part       \* what a behaviour follows

PagesRest == content = [p \in Pages |-> Nothing] /\ Init
NamesRest == entity = "post" /\ Unique!Init
FindRest  == posts = <<>> /\ Search!Init
SeoRests  == doc = CHOOSE d \in SomeDocuments : TRUE

ContentInit ==
    \/ part = "pages"  /\ Init /\ NamesRest /\ FindRest /\ SeoRests /\ Seo!Init
    \/ part = "names"  /\ PagesRest /\ Unique!Init /\ FindRest /\ SeoRests /\ Seo!Init
    \/ part = "search" /\ PagesRest /\ NamesRest /\ Search!Init /\ SeoRests /\ Seo!Init
    \/ part = "seo"    /\ PagesRest /\ NamesRest /\ FindRest /\ Seo!Init

ContentNext ==
    /\ UNCHANGED part
    /\ \/ part = "pages" /\ Next /\ UNCHANGED <<nameVars, searchVars, excerptVars>>
       \/ part = "names" /\ Unique!Next /\ UNCHANGED <<vars, searchVars, excerptVars>>
       \/ part = "search" /\ Search!Next /\ UNCHANGED <<vars, nameVars, excerptVars>>
       \/ part = "seo" /\ Seo!Next /\ UNCHANGED <<vars, nameVars, searchVars>>

ContentSpec ==
    ContentInit /\ [][ContentNext]_<<part, vars, nameVars, searchVars, excerptVars>>

Symmetry == Permutations(Pages) \cup Permutations(Rows) \cup Permutations(Requests)
=============================================================================
