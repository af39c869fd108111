------------------------------- MODULE Adapters -------------------------------
(***************************************************************************)
(* What the adapters test_libxml2.c, test_haut.c, test_gumbo.c and         *)
(* test_myhtml.c add to a result for one document.  The parsers behind     *)
(* them are not part of this module: a document is the tree that a parser  *)
(* finds in a page, the same for all of them.  Gumbo and MyHTML hand the   *)
(* tree out; libxml2 and haut call back while they walk over it.           *)
(*                                                                         *)
(* A document is a sequence of nodes in document order.  A node has the    *)
(* number of its parent (0: the top), a tag ("#text", "#comment" or the    *)
(* name of an element; "template" is a type of node of its own in gumbo),  *)
(* the attributes of an element and the characters of a text, of which     *)
(* only " " and others are told apart.                                     *)
(***************************************************************************)
EXTENDS Integers, Sequences, FiniteSetsExt, SequencesExt

CONSTANTS
  Keys,       \* the attributes' names
  PrefixOf    \* for "href", "src", "alt": which keys are a beginning of it

Words == {"href", "src", "alt"}
ASSUME KeysAssumption ==
  /\ Words \subseteq Keys
  /\ PrefixOf \in [Words -> SUBSET Keys]
  /\ \A w \in Words : w \in PrefixOf[w]

Nothing == [href |-> 0, src |-> 0, alt |-> 0, text |-> 0]
More(got, href, src, alt) ==
  [href |-> got.href + href, src |-> got.src + src, alt |-> got.alt + alt, text |-> got.text]

\* A parser finds an element at least, and nodes only in elements.
Nodes(doc) == DOMAIN doc
IsElement(node) == node.tag \notin {"#text", "#comment"}
TreeNodes ==
  [parent : Nat, tag : STRING, text : Seq(STRING), attrs : Seq([key : Keys, value : BOOLEAN])]
Documents ==
  {doc \in Seq(TreeNodes) :
     /\ doc # <<>>
     /\ \A k \in Nodes(doc) :
          LET up == doc[k].parent IN up < k /\ (up = 0 \/ IsElement(doc[up]))}

\* The nodes below a node, the first of them, and the next one beside it.
Children(doc, k) == {j \in Nodes(doc) : doc[j].parent = k}
FirstOf(S) == IF S = {} THEN 0 ELSE Min(S)
FirstChild(doc, k) == FirstOf(Children(doc, k))
NextSibling(doc, k) == FirstOf({j \in Children(doc, doc[k].parent) : j > k})
Blank(text) == \A j \in DOMAIN text : text[j] = " "
HasKey(node, key) == \E j \in DOMAIN node.attrs : node.attrs[j].key = key

-----------------------------------------------------------------------------
\* The calls of a parser that reports what it meets: the beginning and the
\* end of an element, and a text.
Call(do, node) == [do |-> do, node |-> node]
Calls(doc) ==
  LET from[k \in 0 .. Len(doc)] ==      \* of node k, then of its siblings behind it
        IF k = 0 THEN <<>>
        ELSE LET inside == from[FirstChild(doc, k)]
                 here == CASE doc[k].tag = "#text" -> <<Call("characters", doc[k])>>
                           [] doc[k].tag = "#comment" -> <<>>
                           [] OTHER -> <<Call("start", doc[k])>> \o inside \o <<Call("end", doc[k])>>
             IN here \o from[NextSibling(doc, k)]
  IN from[FirstChild(doc, 0)]

\* test_libxml2.c.  The attributes up to the first one without a value.
Valued(attrs) ==
  LET bare == {j \in DOMAIN attrs : ~ attrs[j].value}
  IN IF bare = {} THEN attrs ELSE SubSeq(attrs, 1, Min(bare) - 1)
Occurrences(attrs, key) == Cardinality({j \in DOMAIN attrs : attrs[j].key = key})

LibxmlStart(s, node) ==
  LET seen == Valued(node.attrs)
      count(tag, key) == IF node.tag = tag THEN Occurrences(seen, key) ELSE 0
  IN [s EXCEPT !.title = @ \/ node.tag = "title",
               !.body = @ \/ node.tag = "body",
               !.script = @ \/ node.tag = "script",
               !.inText = FALSE,
               !.got = More(@, count("a", "href"), count("img", "src"), count("img", "alt"))]

LibxmlEnd(s, node) ==
  [s EXCEPT !.title = @ /\ node.tag # "title",
            !.body = @ /\ node.tag # "body",
            !.script = @ /\ node.tag # "script",
            !.inText = FALSE]

\* White space counts for one space, and only between other text.
LibxmlCharacters(s, node) ==
  IF ~ s.body \/ s.script THEN s
  ELSE IF Blank(node.text)
       THEN IF s.inText THEN [s EXCEPT !.got.text = @ + 1] ELSE s
       ELSE [s EXCEPT !.inText = TRUE, !.got.text = @ + Len(node.text)]

LibxmlCall(s, call) ==
  CASE call.do = "start" -> LibxmlStart(s, call.node)
    [] call.do = "end" -> LibxmlEnd(s, call.node)
    [] call.do = "characters" -> LibxmlCharacters(s, call.node)
LibxmlBegin ==
  [title |-> FALSE, body |-> FALSE, script |-> FALSE, inText |-> FALSE, got |-> Nothing]
TestLibxml2(doc) == FoldLeft(LibxmlCall, LibxmlBegin, Calls(doc)).got

\* test_haut.c: only inside the body, which never ends; a key that is a
\* beginning of the word looked for is taken for it; a space before each text.
HautStart(s, node) ==
  LET body == s.body \/ node.tag = "body"
      count(tag, keys) ==
        IF ~ body \/ node.tag # tag THEN 0
        ELSE Cardinality({j \in DOMAIN node.attrs : node.attrs[j].key \in keys})
  IN [s EXCEPT !.body = body,
               !.got = More(@, count("a", PrefixOf["href"]), count("img", PrefixOf["src"]),
                            count("img", PrefixOf["alt"] \ PrefixOf["src"]))]

HautCharacters(s, node) ==
  IF s.body THEN [s EXCEPT !.got.text = @ + 1 + Len(node.text)] ELSE s
HautCall(s, call) ==
  CASE call.do = "start" -> HautStart(s, call.node)
    [] call.do = "end" -> s
    [] call.do = "characters" -> HautCharacters(s, call.node)
HautBegin == [body |-> FALSE, got |-> Nothing]
TestHaut(doc) == FoldLeft(HautCall, HautBegin, Calls(doc)).got

-----------------------------------------------------------------------------
\* A mutant: the search does not go into a link.
SearchedBeside(doc) ==
  LET reached[k \in Nodes(doc)] ==
        /\ IsElement(doc[k]) /\ doc[k].tag # "template"
        /\ doc[k].parent = 0 \/ (doc[doc[k].parent].tag # "a" /\ reached[doc[k].parent])
  IN {k \in Nodes(doc) : reached[k]}

\* test_gumbo.c.  search_for_links goes from elements to elements.
Searched(doc) ==
  LET reached[k \in Nodes(doc)] ==
        /\ IsElement(doc[k]) /\ doc[k].tag # "template"
        /\ doc[k].parent = 0 \/ reached[doc[k].parent]
  IN {k \in Nodes(doc) : reached[k]}

\* innertext: a space before each text but that of a first child.
GumboText(doc) ==
  LET text[k \in Nodes(doc)] ==
        CASE doc[k].tag = "#text" -> IF Blank(doc[k].text) THEN 0 ELSE Len(doc[k].text)
          [] doc[k].tag \in {"#comment", "script", "style", "title", "template"} -> 0
          [] OTHER ->
               LET inside == Children(doc, k)
                   part == [j \in inside |->
                              text[j] + (IF text[j] > 0 /\ j # Min(inside) THEN 1 ELSE 0)]
               IN SumFunction(part)
  IN text[1]

TestGumbo(doc) ==
  LET count(tag, key) ==
        Cardinality({k \in Searched(doc) : doc[k].tag = tag /\ HasKey(doc[k], key)})
  IN [href |-> count("a", "href"), src |-> count("img", "src"),
      alt |-> count("img", "alt"), text |-> GumboText(doc)]

-----------------------------------------------------------------------------
\* test_myhtml.c: all nodes of the tree with a tag; the text of the body and
\* of what follows it, comments and scripts included.  Blank texts are not in
\* the tree, as MyHTML_TREE_PARSE_FLAGS_SKIP_WHITESPACE_TOKEN asks.
MyHtmlText(doc) ==
  LET text[k \in Nodes(doc)] ==
        IF IsElement(doc[k]) THEN SumFunctionOnSet(text, Children(doc, k))
        ELSE IF doc[k].tag = "#text" /\ Blank(doc[k].text) THEN 0 ELSE Len(doc[k].text)
      bodies == {k \in Nodes(doc) : doc[k].tag = "body"}
      body == Min(bodies)
      from == {k \in Nodes(doc) : k >= body /\ doc[k].parent = doc[body].parent}
  IN IF bodies = {} THEN 0 ELSE SumFunctionOnSet(text, from)

TestMyHtml(doc) ==
  LET count(tag, key) ==
        Cardinality({k \in Nodes(doc) : doc[k].tag = tag /\ HasKey(doc[k], key)})
  IN [href |-> count("a", "href"), src |-> count("img", "src"),
      alt |-> count("img", "alt"), text |-> MyHtmlText(doc)]

-----------------------------------------------------------------------------
\* The documents on which the adapters can agree: links and images are in the
\* body and not in a template, attributes have values and whole names, and an
\* element has no two of the same name.
Plain(doc) ==
  LET below[k \in Nodes(doc)] ==
        doc[k].tag = "body" \/ (doc[k].parent # 0 /\ below[doc[k].parent])
  IN /\ \A k \in Nodes(doc) : doc[k].tag \in {"a", "img"} => below[k]
     /\ \A k \in Nodes(doc) : doc[k].tag # "template"
     /\ \A k \in Nodes(doc) : \A j \in DOMAIN doc[k].attrs :
          /\ doc[k].attrs[j].value
          /\ \A l \in DOMAIN doc[k].attrs : doc[k].attrs[l].key = doc[k].attrs[j].key => l = j
          /\ \A w \in Words : doc[k].attrs[j].key \in PrefixOf[w] => doc[k].attrs[j].key = w

\* What there is to count in a document.
Links(doc) ==
  LET with(tag, key) == Cardinality({k \in Nodes(doc) : doc[k].tag = tag /\ HasKey(doc[k], key)})
  IN [href |-> with("a", "href"), src |-> with("img", "src"), alt |-> with("img", "alt")]
===============================================================================
