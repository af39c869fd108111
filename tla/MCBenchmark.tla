----------------------------- MODULE MCBenchmark -----------------------------
(***************************************************************************)
(* Directories and documents for the driver.  "h" is a beginning of "href" *)
(* that is not the whole name.                                             *)
(***************************************************************************)
EXTENDS Benchmark, TLC

MCKeys == Words \cup {"h", "id"}
MCPrefixOf == [w \in Words |-> IF w = "href" THEN {"href", "h"} ELSE {w}]

Node(parent, tag, attrs, text) == [parent |-> parent, tag |-> tag, attrs |-> attrs, text |-> text]
Element(parent, tag) == Node(parent, tag, <<>>, <<>>)
Attr(key) == [key |-> key, value |-> TRUE]
Bare(key) == [key |-> key, value |-> FALSE]
With(parent, tag, attrs) == Node(parent, tag, attrs, <<>>)
Words2 == <<"x", " ", "x">>
Text(parent, text) == Node(parent, "#text", <<>>, text)

\* A page with a title, a link around an image, a script and a comment.
Page ==
  <<Element(0, "html"), Element(1, "head"), Element(2, "title"), Text(3, Words2),
    Element(1, "body"), With(5, "a", <<Attr("id"), Attr("href")>>), Text(6, Words2),
    With(6, "img", <<Attr("alt"), Attr("src")>>), Text(5, <<" ">>),
    Element(5, "script"), Text(10, Words2), Node(5, "#comment", <<>>, <<"x">>),
    With(5, "img", <<Attr("src")>>)>>
\* A link in the head, one in a template, one after an attribute without a
\* value, and an attribute whose name is a beginning of "href".
InHead == <<Element(0, "html"), Element(1, "head"), With(2, "a", <<Attr("href")>>), Element(1, "body")>>
InTemplate == <<Element(0, "html"), Element(1, "body"), Element(2, "template"),
                With(3, "a", <<Attr("href")>>)>>
Odd == <<Element(0, "html"), Element(1, "body"), With(2, "a", <<Bare("id"), Attr("href")>>),
         With(2, "a", <<Attr("h")>>), Text(2, <<"x">>)>>

File(doc, size) == [kind |-> "good", doc |-> doc, size |-> size]
Entry(kind) == [kind |-> kind, doc |-> <<Element(0, "html")>>, size |-> 0]
MCDirectories ==
  {<<>>, <<Entry("other")>>, <<Entry("short"), File(Page, 3)>>, <<File(Page, 3), File(Odd, 1)>>,
   <<Entry("closed"), File(Page, 4), Entry("empty")>>, <<File(InHead, 1), Entry("other"), File(Page, 2)>>,
   <<File(Page, 1), File(Page, 4), File(Page, 2)>>, <<File(InTemplate, 2)>>,
   <<Entry("empty"), Entry("short"), Entry("short")>>}
MCOptions ==
  {<<>>, <<"gumbo", "hubbub">>, <<"hubbub", "all">>, <<"hsp", "bad">>, <<"myhtml", "myhtml", "dummy">>}
MCAmounts == {2, 3}
===============================================================================
