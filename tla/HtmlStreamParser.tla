--------------------------- MODULE HtmlStreamParser ---------------------------
(***************************************************************************)
(* htmlstreamparser/htmlstreamparser.c: a parser that is fed one character *)
(* at a time.  Its structure HTMLSTREAMPARSER is the record hsp:           *)
(*   state   parser_state, with the numbers of the code;                   *)
(*   part    the flags of html_part that are set;                          *)
(*   eq      script_equality_len: how much of "script" was matched, or -1; *)
(*   tag, attr, inner   the used part of three of the buffers;             *)
(*   val     how much of the fourth one is used (nobody reads the value);  *)
(*   cap     the sizes of the buffers.                                     *)
(* Names are stored in lower case, which is how the benchmark sets the     *)
(* parser up.  The "real" lengths, which nothing in the program reads, are *)
(* left out.                                                               *)
(***************************************************************************)
EXTENDS Integers, Sequences

CONSTANTS      \* "QUOT" stands for the double quote
  Letters,   \* the characters isalpha accepts
  Spaces,    \* those ishtmlspace accepts
  Others,    \* the rest of the alphabet but for the punctuation below
  Lower,     \* tolower, a function on the alphabet
  Script,    \* the name "script" as a sequence of letters
  Caps       \* the sizes of the buffers, a record

Punctuation == {"<", ">", "/", "!", "=", "QUOT", "'"}
Chars == Letters \cup Spaces \cup Others \cup Punctuation
CapRecords == [tag : Nat, attr : Nat, val : Nat, inner : Nat]

ASSUME AlphabetAssumption ==
  /\ Spaces \cap (Letters \cup Others \cup Punctuation) = {}
  /\ Letters \cap (Others \cup Punctuation) = {}
  /\ Others \cap Punctuation = {}
ASSUME LowerAssumption ==
  /\ Lower \in [Chars -> Chars]
  /\ \A c \in Chars \ Letters : Lower[c] = c
  /\ \A c \in Letters : Lower[c] \in Letters
ASSUME ScriptAssumption ==
  Script \in Seq(Letters) /\ Script # <<>>
ASSUME CapsAssumption == Caps \in CapRecords

VARIABLES
  hsp,     \* the parser
  since    \* history: the characters from the last "<" on, in lower case

Parts ==
  {"INNER_TEXT", "INNER_TEXT_BEGINNING", "TAG", "TAG_BEGINNING", "TAG_END",
   "NAME", "NAME_BEGINNING", "NAME_ENDED", "ATTRIBUTE", "ATTRIBUTE_BEGINNING",
   "ATTRIBUTE_ENDED", "VALUE", "VALUE_BEGINNING", "VALUE_ENDED", "VALUE_QUOTED",
   "VALUE_SINGLE_QUOTED", "VALUE_DOUBLE_QUOTED", "SPACE", "EQUALITY", "SLASH",
   "CLOSING_TAG", "SCRIPT", "COMMENT"}
Parsers ==
  [state : 0 .. 13, part : SUBSET Parts, eq : -1 .. Len(Script),
   tag : Seq(Chars), attr : Seq(Chars), inner : Seq(Chars), val : Nat,
   cap : CapRecords]

NoCaps == [tag |-> 0, attr |-> 0, val |-> 0, inner |-> 0]

\* html_parser_reset: everything empty, the buffers released.
Reset ==
  [state |-> 0, part |-> {}, eq |-> 0, tag |-> <<>>, attr |-> <<>>,
   inner |-> <<>>, val |-> 0, cap |-> NoCaps]

-----------------------------------------------------------------------------
\* The switch of html_parser_char_parse, one operator per case.

\* The parser in state s with some flags cleared and some set.
Go(p, s, off, on) == [p EXCEPT !.state = s, !.part = (@ \ off) \cup on]

\* script_equality_len is assigned.
Count(p, e) == [p EXCEPT !.eq = e]

InText(p, c) ==
  IF c = "<" THEN Go(p, 1, Parts, {"TAG", "TAG_BEGINNING"})
    ELSE IF "INNER_TEXT" \in p.part THEN Go(p, 0, {"INNER_TEXT_BEGINNING"}, {})
    ELSE Go(p, 0, Parts, {"INNER_TEXT", "INNER_TEXT_BEGINNING"})

\* A mutant: the counter is not reset at the beginning of a tag.
TagBeginningCounts(p, c) ==
  LET off == {"TAG_BEGINNING"}
  IN IF c = "/" THEN Go(p, 2, off, {"CLOSING_TAG", "SLASH", "NAME", "NAME_BEGINNING"})
       ELSE IF c = "!" THEN Go(p, 9, off, {"COMMENT"})
       ELSE IF c = ">" THEN Go(p, 0, off, {"TAG_END"})
       ELSE IF c = "<" THEN Go(p, 1, off, {})
       ELSE IF c \in Letters THEN Go(p, 2, off, {"NAME", "NAME_BEGINNING"})
       ELSE Go(p, 0, Parts, {"INNER_TEXT", "INNER_TEXT_BEGINNING"})

TagBeginning(q, c) ==
  LET p == Count(q, 0)
      off == {"TAG_BEGINNING"}
  IN IF c = "/" THEN Go(p, 2, off, {"CLOSING_TAG", "SLASH", "NAME", "NAME_BEGINNING"})
       ELSE IF c = "!" THEN Go(p, 9, off, {"COMMENT"})
       ELSE IF c = ">" THEN Go(p, 0, off, {"TAG_END"})
       ELSE IF c = "<" THEN Go(p, 1, off, {})
       ELSE IF c \in Letters THEN Go(p, 2, off, {"NAME", "NAME_BEGINNING"})
       ELSE Go(p, 0, Parts, {"INNER_TEXT", "INNER_TEXT_BEGINNING"})

TagName(p, c) ==
  LET off == {"NAME_BEGINNING", "SLASH"}
  IN IF c = ">" THEN Go(p, 0, off \cup {"NAME"}, {"TAG_END", "NAME_ENDED"})
       ELSE IF c \in Spaces THEN Go(p, 3, off \cup {"NAME"}, {"SPACE", "NAME_ENDED"})
       ELSE Go(p, 2, off, {})

\* A mutant: the value of the attribute before stays completed.
TagSpaceKeepsValue(p, c) ==
  LET off == {"NAME_ENDED", "ATTRIBUTE_ENDED", "VALUE_QUOTED",
              "VALUE_SINGLE_QUOTED", "VALUE_DOUBLE_QUOTED", "EQUALITY"}
  IN IF c \in Spaces THEN Go(p, 3, off, {})
       ELSE IF c = ">" THEN Go(p, 0, off \cup {"SPACE"}, {"TAG_END"})
       ELSE IF c = "=" THEN Go(p, 5, off \cup {"SPACE"}, {"EQUALITY"})
       ELSE Go(p, 4, off \cup {"SPACE"}, {"ATTRIBUTE", "ATTRIBUTE_BEGINNING"})

TagSpace(p, c) ==
  LET off == {"NAME_ENDED", "ATTRIBUTE_ENDED", "VALUE_ENDED", "VALUE_QUOTED",
              "VALUE_SINGLE_QUOTED", "VALUE_DOUBLE_QUOTED", "EQUALITY"}
  IN IF c \in Spaces THEN Go(p, 3, off, {})
       ELSE IF c = ">" THEN Go(p, 0, off \cup {"SPACE"}, {"TAG_END"})
       ELSE IF c = "=" THEN Go(p, 5, off \cup {"SPACE"}, {"EQUALITY"})
       ELSE Go(p, 4, off \cup {"SPACE"}, {"ATTRIBUTE", "ATTRIBUTE_BEGINNING"})

AttributeName(p, c) ==
  LET off == {"ATTRIBUTE_BEGINNING"}
      end == off \cup {"ATTRIBUTE"}
  IN IF c = ">" THEN Go(p, 0, end, {"TAG_END", "ATTRIBUTE_ENDED"})
       ELSE IF c = "=" THEN Go(p, 5, end, {"EQUALITY", "ATTRIBUTE_ENDED"})
       ELSE IF c \in Spaces THEN Go(p, 3, end, {"SPACE", "ATTRIBUTE_ENDED"})
       ELSE Go(p, 4, off, {})

BeforeValue(p, c) ==
  LET off == {"EQUALITY", "ATTRIBUTE_ENDED", "SPACE"}
  IN IF c \in Spaces THEN Go(p, 5, off, {"SPACE"})
       ELSE IF c = ">" THEN Go(p, 0, off, {"TAG_END"})
       ELSE IF c = "QUOT" THEN Go(p, 6, off, {"VALUE_QUOTED", "VALUE_DOUBLE_QUOTED"})
       ELSE IF c = "'" THEN Go(p, 7, off, {"VALUE_QUOTED", "VALUE_SINGLE_QUOTED"})
       ELSE Go(p, 8, off, {"VALUE", "VALUE_BEGINNING"})

\* The first character of the value begins it, be it the closing quote.
DoubleQuoted(p, c) ==
  LET q == IF "VALUE" \in p.part THEN Go(p, 6, {"VALUE_BEGINNING"}, {})
                                 ELSE Go(p, 6, {}, {"VALUE", "VALUE_BEGINNING"})
  IN IF c = "QUOT" THEN Go(q, 3, {"VALUE"}, {"VALUE_ENDED"}) ELSE q

\* Here no character begins the value.
SingleQuoted(p, c) ==
  IF c = "'" THEN Go(p, 3, {"VALUE", "VALUE_BEGINNING"}, {"VALUE_ENDED"})
             ELSE Go(p, 7, {"VALUE_BEGINNING"}, {"VALUE"})

Unquoted(p, c) ==
  LET off == {"VALUE_BEGINNING"}
  IN IF c = ">" THEN Go(p, 0, off \cup {"VALUE"}, {"TAG_END", "VALUE_ENDED"})
       ELSE IF c \in Spaces THEN Go(p, 3, off \cup {"VALUE"}, {"SPACE", "VALUE_ENDED"})
       ELSE Go(p, 8, off, {})

InComment(p, c) == IF c = ">" THEN Go(p, 0, {}, {"TAG_END"}) ELSE p

SearchScriptEnd(p, c) == IF c = "<" THEN Go(p, 11, {}, {}) ELSE p

\* A mutant: a second "<" is taken for text of the script.
ScriptLessOnce(p, c) ==
  IF c = "/" THEN Count(Go(p, 12, {}, {}), 0) ELSE Go(p, 10, {}, {})

ScriptLess(p, c) ==
  IF c = "<" THEN p
    ELSE IF c = "/" THEN Count(Go(p, 12, {}, {}), 0)
    ELSE Go(p, 10, {}, {})

ScriptEndName(p, c) ==
  LET found == p.eq = Len(Script)
      on == {"TAG", "NAME_ENDED", "CLOSING_TAG"}
  IN IF c = "<" THEN Go(p, 11, {}, {})
       ELSE IF c = ">" /\ found THEN Count(Go(p, 0, {"SCRIPT"}, on \cup {"TAG_END"}), 0)
       ELSE IF c \in Spaces /\ found THEN Count(Go(p, 3, {"SCRIPT"}, on \cup {"SPACE"}), 0)
       ELSE Go(p, 13, {}, {})

Switch(p, c) ==
  CASE p.state = 0 -> InText(p, c)
    [] p.state = 1 -> TagBeginning(p, c)
    [] p.state = 2 -> TagName(p, c)
    [] p.state = 3 -> TagSpace(p, c)
    [] p.state = 4 -> AttributeName(p, c)
    [] p.state = 5 -> BeforeValue(p, c)
    [] p.state = 6 -> DoubleQuoted(p, c)
    [] p.state = 7 -> SingleQuoted(p, c)
    [] p.state = 8 -> Unquoted(p, c)
    [] p.state = 9 -> InComment(p, c)
    [] p.state = 10 -> SearchScriptEnd(p, c)
    [] p.state = 11 -> ScriptLess(p, c)
    [] p.state \in {12, 13} -> ScriptEndName(p, c)

\* Before the switch: the tag that has just ended was named "script".
EnterScript(p) ==
  IF p.state = 0 /\ p.eq = Len(Script)
  THEN [p EXCEPT !.state = 10, !.part = {"SCRIPT"}] ELSE p

\* After the switch: one more letter of "script", or no match any more.
MatchScript(p, c) ==
  IF p.state \notin {2, 13} THEN p
  ELSE IF p.eq \in 0 .. Len(Script) - 1 /\ Script[p.eq + 1] = Lower[c]
       THEN Count(p, p.eq + 1) ELSE Count(p, -1)

\* A mutant: one character too many.
PutOver(buffer, c, max) == IF Len(buffer) <= max THEN Append(buffer, c) ELSE buffer

\* A character put into a buffer that holds at most max.
Put(buffer, c, max) == IF Len(buffer) < max THEN Append(buffer, c) ELSE buffer

\* The buffers that a beginning name, attribute or value empties.
Emptied(p) ==
  IF "INNER_TEXT" \in p.part
  THEN IF "INNER_TEXT_BEGINNING" \in p.part THEN [p EXCEPT !.inner = <<>>] ELSE p
  ELSE IF "NAME" \in p.part \/ p.state \in {12, 13}
  THEN IF "NAME_BEGINNING" \in p.part \/ p.state = 12
       THEN [p EXCEPT !.tag = <<>>, !.attr = <<>>, !.val = 0] ELSE p
  ELSE IF {"ATTRIBUTE", "ATTRIBUTE_BEGINNING"} \subseteq p.part
  THEN [p EXCEPT !.attr = <<>>, !.val = 0]
  ELSE IF "ATTRIBUTE" \notin p.part /\ {"VALUE", "VALUE_BEGINNING"} \subseteq p.part
  THEN [p EXCEPT !.val = 0]
  ELSE p

\* The character goes into the buffer of the part that the parser is in.
Stored(p, c) ==
  IF "INNER_TEXT" \in p.part
  THEN [p EXCEPT !.inner = Put(@, c, p.cap.inner)]
  ELSE IF "NAME" \in p.part \/ p.state \in {12, 13}
  THEN [p EXCEPT !.tag = Put(@, Lower[c], p.cap.tag)]
  ELSE IF "ATTRIBUTE" \in p.part
  THEN [p EXCEPT !.attr = Put(@, Lower[c], p.cap.attr)]
  ELSE IF "VALUE" \in p.part /\ p.val < p.cap.val
  THEN [p EXCEPT !.val = @ + 1]
  ELSE p

CharParse(p, c) ==
  LET q == MatchScript(Switch(EnterScript(p), c), c)
  IN Stored(Emptied(q), c)

-----------------------------------------------------------------------------
\* What the getters return.
IsIn(p, part) == part \in p.part
CmpTag(p, name) == ~ IsIn(p, "NAME") /\ p.state \notin {12, 13} /\ p.tag = name
CmpAttr(p, name) == ~ IsIn(p, "ATTRIBUTE") /\ p.attr = name

\* The history: long enough to tell "</script" from anything longer.
SinceNext(s, c) ==
  IF c = "<" THEN <<c>>
  ELSE IF Len(s) < Len(Script) + 3 THEN Append(s, Lower[c])
  ELSE s

-----------------------------------------------------------------------------
HspInit == hsp = Reset /\ since = <<>>

\* A mutant: the parser is not reset.
PrepareNoReset == hsp' = [hsp EXCEPT !.cap = Caps] /\ since' = <<>>

\* A page begins: reset, and the setters of the buffers.
Prepare == hsp' = [Reset EXCEPT !.cap = Caps] /\ since' = <<>>

Feed(c) == hsp' = CharParse(hsp, c) /\ since' = SinceNext(since, c)

HspNext == Prepare \/ \E c \in Chars : Feed(c)
HspSpec == HspInit /\ [][HspNext]_<<hsp, since>>

-----------------------------------------------------------------------------
\* Type correctness: in particular no buffer is ever filled beyond its size
\* (htmlstreamparser.c:180, 189, 196, 202).
HspTypeOK ==
  /\ hsp \in Parsers
  /\ Len(hsp.tag) <= hsp.cap.tag /\ Len(hsp.attr) <= hsp.cap.attr
  /\ Len(hsp.inner) <= hsp.cap.inner /\ hsp.val <= hsp.cap.val
  /\ since \in Seq(Chars)

\* The flags, which single statements of fourteen cases set and clear, agree
\* with parser_state: the getters, which look at flags, and the machine, which
\* looks at the state, have the same idea of what has been completed.  At
\* most one buffer is being filled, and a flag left over from a part that has
\* ended (TAG_END in the next tag, an attribute in the text) does not occur.
PartsAgree(p) ==
  LET in(part) == part \in p.part
  IN /\ in("NAME") <=> p.state = 2
     /\ in("ATTRIBUTE") <=> p.state = 4
     /\ in("VALUE") => p.state \in {6, 7, 8}
     /\ p.state = 8 => in("VALUE")
     /\ in("INNER_TEXT") => p.state = 0 /\ p.part \subseteq {"INNER_TEXT", "INNER_TEXT_BEGINNING"}
     /\ in("TAG_END") => p.state = 0
     /\ in("VALUE_ENDED") => p.state \in {0, 3}
     /\ in("NAME_BEGINNING") => p.state = 2
     /\ in("ATTRIBUTE_BEGINNING") => p.state = 4
     /\ in("TAG") <=> p.state \in 1 .. 9 \/ in("TAG_END")
     /\ p.state = 9 => in("COMMENT")
     /\ p.state \in 10 .. 13 <=> in("SCRIPT")
     /\ in("SCRIPT") => p.part = {"SCRIPT"}
PartsOfState == PartsAgree(hsp)

InScript(p) == p.state \in 10 .. 13
Completes(c) == c = ">" \/ c \in Spaces

\* Inside a script nothing is markup but "</script" followed by ">" or white
\* space, whatever came before, and that always ends it: the machine, which
\* keeps a state and a counter and starts over at any "<"
\* (htmlstreamparser.c:158-176), agrees with the text.
ScriptEnds ==
  [][ \A c \in Chars : Feed(c) /\ InScript(hsp) =>
        (~ InScript(hsp') <=> since = <<"<", "/">> \o Script /\ Completes(c)) ]_<<hsp, since>>

\* A script begins after the tags whose stored name is "script" and after no
\* others: the counter script_equality_len, which the machine goes by, and the
\* buffer, which the callers of html_parser_cmp_tag go by, agree, although a
\* tag with attributes leaves the counter standing through six states and a
\* comment or "<>" leaves the buffer (htmlstreamparser.c:83, 95, 176).
ScriptNamed ==
  hsp.cap.tag > Len(Script) =>
    (hsp.state = 0 /\ hsp.eq = Len(Script) <=> "TAG_END" \in hsp.part /\ hsp.tag = Script)
===============================================================================
