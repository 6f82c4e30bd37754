--------------------------- MODULE MCPostsWorkflow ---------------------------
(* Instances of PostsWorkflow for TLC.                                     *)
EXTENDS PostsWorkflow

StatusOf(name, json) == [name |-> name, json |-> json]
Given(set) == [given |-> TRUE, set |-> set]
(* One author has a topic, the others none.                                *)
OneAssigned == [u \in Users |-> IF u = "zoe" THEN {"t"} ELSE {}]

Ways == {StatusOf("Published", "number"), StatusOf("Published", "string"), StatusOf("Draft", "number")}
(* The last is the body of a test, which names an author.                  *)
SomeCreations ==
    [status: Ways, topics: {Given({"t"})}, author: {Omitted}]
    \cup [status: {StatusOf("Draft", "number")}, topics: {OmittedTopics}, author: {"ann"}]
(* A status, a new author, neither, or not even the topics.                *)
Change1(p, s, a) == [id |-> p, status |-> s, topics |-> Given({}), author |-> a]
SomeChanges ==
    {Change1(p, s, Omitted) : p \in Posts, s \in Ways \ {StatusOf("Published", "number")}}
    \cup {Change1(p, NoStatus(Omitted), u) : p \in Posts, u \in Users}
    \cup {Change1(p, NoStatus(Nothing), Omitted) : p \in Posts}
    \cup [id: Posts, status: {NoStatus(Omitted)}, topics: {OmittedTopics}, author: {Omitted}]
=============================================================================
