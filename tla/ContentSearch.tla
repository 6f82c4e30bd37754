---------------------------- MODULE ContentSearch ----------------------------
(***************************************************************************)
(* The text of an editor state, and the public search that reads it: the   *)
(* database selects candidates with LIKE on the stored JSON, the service   *)
(* keeps those whose title or visible text has the query, and cuts pages.  *)
(***************************************************************************)
EXTENDS Integers, Sequences, SequencesExt

CONSTANTS
    Characters,     \* those of a string, which is a sequence of them
    Nodes,          \* nodes of the editor states that are looked at
    Height, MaxHeight,      \* of a node, greater than that of its children
    Tables,         \* tables looked at: sequences of [title, published, content]
    Queries,        \* strings that are searched, trimmed
    Sizes           \* sizes of a page

Blanks == {" ", "\n", "\t"}
Quotes == {"\"", "\\"}
TextLeaf == {"text", "code-highlight", "hashtag", "keyword"}
Inline   == {"link", "autolink", "mark"}
Breaks   == {"linebreak", "tab"}
Decorators == {"image"}     \* nodes that have no children

(* An editor state is a tree of nodes, and a content is one or a string.   *)
IsString(string) == string \in Seq(Characters)
IsNode(node) ==
    /\ IsString(node.text) /\ IsString(node.url) /\ node.children \in Seq(Nodes)
    /\ Height[node] \in 0..MaxHeight
    /\ \A i \in 1..Len(node.children) : Height[node.children[i]] < Height[node]
Lexical(content) == content.kind = "lexical"
IsPost(post) ==
    /\ IsString(post.title) /\ post.published \in BOOLEAN
    /\ IF Lexical(post.content) THEN post.content.root \in Nodes ELSE IsString(post.content.text)
ConstantsAssumption ==
    /\ Blanks \cup Quotes \cup {"{", "}", "n"} \subseteq Characters
    /\ MaxHeight \in Nat /\ \A node \in Nodes : IsNode(node)
    /\ \A query \in Queries : IsString(query)
    /\ \A table \in Tables :
        table \in Seq({table[i] : i \in DOMAIN table}) /\ \A i \in 1..Len(table) : IsPost(table[i])
    /\ Sizes \subseteq Nat \ {0}    \* validated to be at least 1

VARIABLES
    posts,      \* the table, newest first
    answer      \* of the last search
vars == <<posts, answer>>

-----------------------------------------------------------------------------
(* lexicalText, not structured. A decorator, an image say, may carry text  *)
(* that is not prose.                                                      *)
Walk[node \in Nodes] ==
    LET children == FlattenSeq([i \in 1..Len(node.children) |-> Walk[node.children[i]]]) IN
    CASE node.type = "linebreak"     -> <<"\n">>
      [] node.type = "tab"           -> <<"\t">>
      [] node.type \in TextLeaf      -> node.text
      [] node.type \in Decorators    -> <<>>
      [] node.type \in Inline        -> children
      [] OTHER                       -> children \o <<"\n">>

(* Runs of blanks become one space, and none is left at the ends.          *)
Ends(string, c) == string # <<>> /\ string[Len(string)] = c
Collapsed(out, c) ==
    IF c \notin Blanks THEN Append(out, c)
    ELSE IF out = <<>> \/ Ends(out, " ") THEN out ELSE Append(out, " ")
Collapse(string) ==
    LET out[i \in 0..Len(string)] == IF i = 0 THEN <<>> ELSE Collapsed(out[i - 1], string[i])
        all == out[Len(string)]
    IN  IF Ends(all, " ") THEN SubSeq(all, 1, Len(all) - 1) ELSE all

WalkApart(node) ==      \* mutant: every node ends its text with a line
    LET leaves == FlattenSeq([i \in 1..Len(node.children) |->
                    FlattenSeq([j \in 1..Len(node.children[i].children) |->
                        Walk[node.children[i].children[j]] \o <<"\n">>])])
    IN  Collapse(leaves)
LexicalText(node) == Collapse(Walk[node])
VisibleText(content) == IF Lexical(content) THEN LexicalText(content.root) ELSE content.text

-----------------------------------------------------------------------------
(* The stored JSON: every node in braces, with its texts quoted, quotes in *)
(* them escaped, and the address of a link, which nobody sees.             *)
Escape(c) ==
    IF c \in Quotes THEN <<"\\", c>> ELSE IF c \in {"\n", "\t"} THEN <<"\\", "n">> ELSE <<c>>
Escaped(string) == FlattenSeq([i \in 1..Len(string) |-> Escape(string[i])])
Json[node \in Nodes] ==
    <<"{", "\"">> \o Escaped(node.text) \o <<"\"">> \o node.url
        \o FlattenSeq([i \in 1..Len(node.children) |-> Json[node.children[i]]]) \o <<"}">>
Stored(content) == IF Lexical(content) THEN Json[content.root] ELSE content.text

Includes(string, query) ==
    \E from \in 1..(Len(string) - Len(query) + 1) :
        \A i \in 1..Len(query) : string[from + i - 1] = query[i]

(* LIKE with its wildcards escaped is inclusion.                           *)
CandidateByTitle(post, query) ==        \* mutant: only the title is searched
    post.published /\ Includes(post.title, query)
Candidate(post, query) ==
    /\ post.published
    /\ Includes(post.title, query) \/ Includes(Stored(post.content), query)

Match(post, query) ==
    /\ Candidate(post, query)
    /\ Includes(post.title, query) \/ Includes(VisibleText(post.content), query)

Kept(post, query) == IF Match(post, query) THEN <<post>> ELSE <<>>
Matches(query) ==
    IF query = <<>> THEN <<>> ELSE FlattenSeq([i \in 1..Len(posts) |-> Kept(posts[i], query)])

PageShort(found, page, size) ==     \* mutant: the page ends one too early
    SubSeq(found, (page - 1) * size + 1, page * size - 1)
Page(found, page, size) ==
    LET last == IF page * size < Len(found) THEN page * size ELSE Len(found) IN
    SubSeq(found, (page - 1) * size + 1, last)

FindManyWithPagination(query, page, size) ==
    LET found == Matches(query) IN
    [items |-> Page(found, page, size), count |-> Len(found), currentPage |-> page,
     totalPages |-> (Len(found) + size - 1) \div size]

-----------------------------------------------------------------------------
NoAnswer == [query |-> <<>>, size |-> 0, pages |-> <<>>]
Init == posts \in Tables /\ answer = NoAnswer

(* A reader asks for page after page, until the last.                      *)
Search(query, size) ==
    LET first == FindManyWithPagination(query, 1, size) IN
    /\ answer = NoAnswer
    /\ answer' = [query |-> query, size |-> size,
                  pages |-> [page \in 1..first.totalPages |->
                                FindManyWithPagination(query, page, size)]]
    /\ UNCHANGED posts

Next == \E query \in Queries, size \in Sizes : Search(query, size)
Spec == Init /\ [][Next]_vars

-----------------------------------------------------------------------------
(* Properties.                                                             *)

(* Formatting and links inside a block do not separate words, blocks and   *)
(* line breaks do, and what a decorator carries is not text: the text of a *)
(* document of blocks is that of the leaves of each block in one piece.    *)
(* Blocks within blocks, those of a list, are left out.                    *)
IsBlock(node) == node.type \notin TextLeaf \cup Inline \cup Breaks \cup Decorators
InBlock(node) ==
    \/ node.type \in TextLeaf \cup Breaks \cup Decorators
    \/ /\ node.type \in Inline
       /\ \A i \in 1..Len(node.children) : node.children[i].type \in TextLeaf
OfBlocks(root) ==
    /\ IsBlock(root)
    /\ \A i \in 1..Len(root.children) :
        /\ IsBlock(root.children[i])
        /\ \A j \in 1..Len(root.children[i].children) : InBlock(root.children[i].children[j])
LeafText(node) ==
    IF node.type \in Inline
    THEN FlattenSeq([i \in 1..Len(node.children) |-> node.children[i].text])
    ELSE IF node.type \in Breaks THEN <<" ">>
    ELSE IF node.type \in TextLeaf THEN node.text ELSE <<>>
BlockText(block) == FlattenSeq([i \in 1..Len(block.children) |-> LeafText(block.children[i])])
Separated(blocks) == FlattenSeq([i \in 1..Len(blocks) |-> BlockText(blocks[i]) \o <<" ">>])
OnlyBlocksSeparate ==
    \A n \in 1..Len(posts) :
        Lexical(posts[n].content) /\ OfBlocks(posts[n].content.root) =>
            VisibleText(posts[n].content) = Collapse(Separated(posts[n].content.root.children))

(* Although the database looks at the stored form, a published post is     *)
(* found whenever its title, or one leaf of its text at any depth, has the *)
(* query. Left out are queries with a character that the stored form       *)
(* escapes, or with a blank, which a text may hold twice.                  *)
Plain(query) == \A i \in 1..Len(query) : query[i] \notin Quotes \cup Blanks
Prose[node \in Nodes] ==
    IF node.type \in TextLeaf THEN {node.text}
    ELSE IF node.type \in Breaks \cup Decorators THEN {}
    ELSE UNION {Prose[node.children[i]] : i \in 1..Len(node.children)}
InOnePiece(post, query) ==
    \/ Includes(post.title, query)
    \/ IF Lexical(post.content) THEN \E leaf \in Prose[post.content.root] : Includes(leaf, query)
       ELSE Includes(post.content.text, query)
PlainPiecesFound ==
    answer.query # <<>> /\ Plain(answer.query) =>
        \A n \in 1..Len(posts) :
            posts[n].published /\ InOnePiece(posts[n], answer.query)
                => Contains(Matches(answer.query), posts[n])

(* The pages, one after the other, are the posts that were found, each     *)
(* once, in their order, and only the last one may be short.               *)
PagesCover ==
    answer # NoAnswer =>
        LET items(page) == answer.pages[page].items  n == Len(answer.pages) IN
        /\ FlattenSeq([page \in 1..n |-> items(page)]) = Matches(answer.query)
        /\ \A page \in 1..n : Len(items(page)) > 0 /\ (page < n => Len(items(page)) = answer.size)
=============================================================================
