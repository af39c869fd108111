-------------------------------- MODULE Markup --------------------------------
(***************************************************************************)
(* What a page says, told from its text and without the machine that reads *)
(* it: a page is cut into tokens (a piece of text, a comment, the name of  *)
(* a tag, ...), each of which has the shape of its kind and follows one    *)
(* that it may follow.  The pages with such a reading are those whose tags *)
(* are complete, with white space before every attribute and an attribute  *)
(* and a value at every "="; a value in quotes, a comment and a script may *)
(* have any characters but those that end them.                            *)
(***************************************************************************)
EXTENDS HtmlStreamParser

\* A token: the characters from .. to of the text.  The name of an attribute
\* and the "=" are at "at", behind white space.  A token in a tag knows the
\* name of the tag, and one behind an attribute the name of the attribute.
Kinds == {"text", "comment", "open", "attr", "equals", "unquoted", "quoted", "close", "raw"}
Tokens == [kind : Kinds, from : Nat, at : Nat, to : Nat, tag : Seq(Chars), attr : Seq(Chars)]

\* A page: its characters, with the NUL that the driver adds, and its tokens,
\* or none if nothing is known of it.
Pages == [text : Seq(Chars), tokens : Seq(Tokens)]

\* The characters a .. b of a text: in lower case, or without some of them.
Lowered(t, a, b) == [j \in 1 .. b - a + 1 |-> Lower[t[a + j - 1]]]
Without(t, a, b, chars) == \A j \in a .. b : t[j] \notin chars
Blank(t, a, b) == \A j \in a .. b : t[j] \in Spaces

Quotes == {"QUOT", "'"}
Stops == Spaces \cup {">"}
EndTag == <<"<", "/">> \o Script
\* The end tag of a script is complete at j.
EndTagAt(t, a, j) == j - Len(Script) - 1 >= a /\ Lowered(t, j - Len(Script) - 1, j) = EndTag

\* The shape of a token.
IsComment(t, k) ==      \* and "<>"
  /\ k.from < k.to /\ t[k.from] = "<" /\ t[k.to] = ">"
  /\ k.from + 1 = k.to \/ t[k.from + 1] = "!"
  /\ Without(t, k.from + 1, k.to - 1, {">"})
IsOpen(t, k) ==
  /\ k.from < k.to /\ t[k.from] = "<" /\ t[k.from + 1] \in Letters \cup {"/"}
  /\ Without(t, k.from + 2, k.to, Stops)
  /\ k.tag = Lowered(t, k.from + 1, k.to)
IsAttr(t, k) ==
  /\ k.from < k.at /\ k.at <= k.to
  /\ Blank(t, k.from, k.at - 1) /\ Without(t, k.at, k.to, Stops \cup {"="})
  /\ k.attr = Lowered(t, k.at, k.to)
IsEquals(t, k) ==
  /\ k.from <= k.at /\ k.at <= k.to
  /\ Blank(t, k.from, k.at - 1) /\ t[k.at] = "=" /\ Blank(t, k.at + 1, k.to)
IsUnquoted(t, k) == t[k.from] \notin Quotes /\ Without(t, k.from, k.to, Stops)
IsQuoted(t, k) ==
  /\ k.from < k.to /\ t[k.from] \in Quotes /\ t[k.to] = t[k.from]
  /\ Without(t, k.from + 1, k.to - 1, {t[k.from]})
IsClose(t, k) == Blank(t, k.from, k.to - 1) /\ t[k.to] = ">"
\* A script, up to the first "</script" that ends it.
IsRaw(t, k) ==
  /\ EndTagAt(t, k.from, k.to) /\ k.tag = Tail(EndTag)
  /\ \A j \in k.from .. k.to - 1 : EndTagAt(t, k.from, j) => ~ Completes(t[j + 1])
Shaped(t, k) ==
  /\ k.kind = "text" => Without(t, k.from, k.to, {"<"})
  /\ k.kind = "comment" => IsComment(t, k)
  /\ k.kind = "open" => IsOpen(t, k)
  /\ k.kind = "attr" => IsAttr(t, k)
  /\ k.kind = "equals" => IsEquals(t, k)
  /\ k.kind = "unquoted" => IsUnquoted(t, k)
  /\ k.kind = "quoted" => IsQuoted(t, k)
  /\ k.kind = "close" => IsClose(t, k)
  /\ k.kind = "raw" => IsRaw(t, k)

\* What may stand between tags, and what may follow a token.
Outside == {"text", "comment", "open"}
After(k) ==
  IF k.kind = "close" /\ k.tag = Script THEN {"raw"}
  ELSE IF k.kind \in {"text", "comment", "close"} THEN Outside
  ELSE IF k.kind = "attr" THEN {"attr", "equals", "close"}
  ELSE IF k.kind = "equals" THEN {"unquoted", "quoted"}
  ELSE {"attr", "close"}
Joins(b, k) ==
  /\ k.from = b.to + 1 /\ k.kind \in After(b)
  /\ k.kind \notin {"open", "raw"} => k.tag = b.tag
  /\ k.kind # "attr" => k.attr = b.attr

\* The tokens of a page are a reading of its text.
Reading(page) ==
  LET t == page.text
      k == page.tokens
  IN /\ k # <<>>
     /\ k[1].from = 1 /\ k[1].kind \in Outside /\ (k[1].kind # "open" => k[1].tag = <<>>)
     /\ k[Len(k)].to = Len(t) /\ k[Len(k)].kind = "text"
     /\ \A j \in DOMAIN k : /\ 1 <= k[j].from /\ k[j].from <= k[j].to /\ k[j].to <= Len(t)
                            /\ Shaped(t, k[j])
     /\ \A j \in DOMAIN k : j > 1 => Joins(k[j - 1], k[j])

\* The page has a tag of that name, and the values that an attribute of that
\* name has in its tags.
HasTag(page, name) == \E j \in DOMAIN page.tokens : page.tokens[j].tag = name
Values(page, tag, attr) ==
  {j \in DOMAIN page.tokens :
     LET k == page.tokens[j] IN k.kind \in {"unquoted", "quoted"} /\ k.tag = tag /\ k.attr = attr}
===============================================================================
