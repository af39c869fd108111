------------------------------ MODULE MCTestHsp ------------------------------
(***************************************************************************)
(* Test sets for the adapter of htmlstreamparser.  Every name has one      *)
(* letter but "script", which has two ("sc"), and "/title" ("/t"): "a",    *)
(* "i" for "img", "h" for "href", "r" for "src", "l" for "alt".            *)
(***************************************************************************)
EXTENDS TestHsp, TLC

MCLetters == {"a", "i", "h", "r", "l", "s", "c", "t", "A"}
MCOthers == {"NUL", "."}
MCLower == [c \in Chars |-> IF c = "A" THEN "a" ELSE c]
MCScript == <<"s", "c">>
MCCaps == [tag |-> 3, attr |-> 2, val |-> 1, inner |-> 3]
MCTagA == <<"a">>
MCTagImg == <<"i">>
MCTagEndTitle == <<"/", "t">>
MCHref == <<"h">>
MCSrc == <<"r">>
MCAlt == <<"l">>

\* Tokens by their texts, with the number of spaces before an attribute or a "=".
Bit(kind, text) == [kind |-> kind, lead |-> 0, text |-> text]
Led(kind, text) == [kind |-> kind, lead |-> 1, text |-> text]
Open(name) == Bit("open", <<"<">> \o name)
Attr(name) == Led("attr", <<" ", name>>)
Is == Bit("equals", <<"=">>)
Dot == Bit("unquoted", <<".">>)
Quoted(q, text) == Bit("quoted", <<q>> \o text \o <<q>>)
Close == Bit("close", <<">">>)
SpaceClose == Bit("close", <<" ", ">">>)

\* Complete pieces of a page: without a link, with one and with two.
Pieces ==
  {<<Open(<<"/", "a">>), Close>>, <<Open(<<"a">>), Attr("h"), Close>>,
   <<Open(<<"c">>), Attr("h"), Is, Dot, Close>>,
   <<Open(<<"a">>), Attr("r"), Is, Bit("unquoted", <<"h">>), SpaceClose>>,
   <<Bit("text", <<" ", ".", " ", " ", ".">>)>>,
   <<Bit("comment", <<"<", "!", "a", " ", "h", "=", ".", ">">>)>>, <<Bit("comment", <<"<", ">">>)>>,
   <<Open(<<"/", "t">>), Close>>,
   <<Open(<<"s", "c">>), Attr("r"), Is, Dot, Close,
     Bit("raw", <<"<", "a", " ", "h", "=", ".", ">", "<", "/", "s", "c">>), SpaceClose>>,
   <<Open(<<"a">>), Attr("h"), Is, Dot, Close>>,
   <<Open(<<"A">>), Attr("h"), Is, Quoted("QUOT", <<"a">>), Attr("l"), Close>>,
   <<Open(<<"a">>), Attr("l"), Is, Quoted("'", <<>>), Attr("h"), Led("equals", <<" ", "=">>),
     Quoted("'", <<".">>), Close>>,
   <<Open(<<"a">>), Attr("h"), Is, Dot, Attr("h"), Is, Quoted("QUOT", <<">", "'">>), SpaceClose>>}
Img ==
  {<<"<", "i", ">">>, <<"<", "i", " ", "r", "=", ".", " ", "l", "=", ".", ">">>,
   <<"<", "i", " ", "r", "=", "'", "a", "'", " ", "r", "=", "a", ">">>}

TextOfBits(bits) == FlattenSeq([j \in DOMAIN bits |-> bits[j].text])
Small(text) == [j \in DOMAIN text |-> Lower[text[j]]]
Token(before, bit) ==
  LET from == IF before = <<>> THEN 1 ELSE Last(before).to + 1
  IN [kind |-> bit.kind, from |-> from, at |-> from + bit.lead, to |-> from + Len(bit.text) - 1,
      tag |-> IF bit.kind = "open" THEN Small(Tail(bit.text))
              ELSE IF bit.kind = "raw" THEN Tail(EndTag)
              ELSE IF before = <<>> THEN <<>> ELSE Last(before).tag,
      attr |-> IF bit.kind = "attr" THEN Small(Tail(bit.text))
               ELSE IF before = <<>> THEN <<>> ELSE Last(before).attr]
Known(bits) ==
  [text |-> TextOfBits(bits),
   tokens |-> FoldLeft(LAMBDA before, bit : Append(before, Token(before, bit)), <<>>, bits)]
Unknown(text) == [text |-> Append(text, "NUL"), tokens |-> <<>>]

End == <<Bit("text", <<"NUL">>)>>
WellFormed == {Known(p \o q \o r \o End) : p, q, r \in Pieces}
\* An image somewhere between two other pieces.
Images ==
  LET texts == {TextOfBits(p) : p \in Pieces} \cup Img
      mixed == {s \in [1 .. 3 -> texts] : \E j \in 1 .. 3 : s[j] \in Img}
  IN {Unknown(s[1] \o s[2] \o s[3]) : s \in mixed}
\* Any text behind a beginning of a script, and any short text at all.
Free(prefix, letters, length) ==
  {Unknown(prefix \o t) : t \in UNION {[1 .. m -> letters] : m \in 0 .. length}}
Scripts == Free(<<"<", "s", "c", ">", "<">>, {"<", "/", "s", "c", ">", " "}, 5)
Short == Free(<<>>, Punctuation \cup {"a", " ", "."}, 3)
Tags == Free(<<"<", "a", " ", "h">>, Punctuation \cup {"a", " "}, 3)

\* Links before a page that is parsed again.
Links ==
  {<<"<", "a", " ", "h", "=", ".", ">">>, <<"<", "A", " ", "h", "=", "QUOT", "a", "QUOT", " ", "l", ">">>,
   <<"<", "a", " ", "l", "=", "'", "'", " ", "h", " ", "=", "'", ".", "'", ">">>}

\* Every page alone, and the short ones again after another page.
MCTestSets ==
  {<<p>> : p \in WellFormed \cup Images \cup Scripts \cup Tags} \cup
  {<<p, q, p>> : p \in Short,
      q \in {Unknown(t \o <<"<", "/", "a", ">">>) :
               t \in Links \cup Img \cup {<<"<", "s", "c", ">", "<", "s", "c">>, <<"<", "s", "c", ">">>,
                                     <<".">>, <<"<", "a", " ", "h", "=", "QUOT">>, <<"<", "a", " ", "h">>,
                                     <<"<", "/">>}}}
===============================================================================
