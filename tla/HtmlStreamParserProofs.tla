------------------------ MODULE HtmlStreamParserProofs ------------------------
(***************************************************************************)
(* Theorems about htmlstreamparser, for every alphabet, name of the script *)
(* element and size of buffers.                                            *)
(***************************************************************************)
EXTENDS HtmlStreamParser, SequenceTheorems, TLAPS

USE DEF Punctuation, CapRecords

\* The flags of a machine that goes on keep their type.
LEMMA GoType ==
  ASSUME NEW p \in Parsers, NEW s \in 0 .. 13, NEW off, NEW on \in SUBSET Parts
  PROVE  Go(p, s, off, on) \in Parsers
BY DEF Go, Parsers

\* To count on in a word leaves a parser.
LEMMA CountType ==
  ASSUME NEW p \in Parsers, NEW e \in -1 .. Len(Script)
  PROVE  Count(p, e) \in Parsers
BY DEF Parsers, Count

\* html_parser_reset leaves a parser, whatever the buffers.
LEMMA ResetType == ASSUME NEW caps \in CapRecords
  PROVE [Reset EXCEPT !.cap = caps] \in Parsers /\ Reset \in Parsers
<1>1. 0 \in -1 .. Len(Script) /\ <<>> \in Seq(Chars) /\ NoCaps \in CapRecords
  BY ScriptAssumption DEF NoCaps
<1>2. Reset \in Parsers
  BY <1>1 DEF Reset, Parsers
<1> QED BY <1>1, <1>2 DEF Parsers

\* The switch, case by case.
LEMMA SwitchCases ==
  ASSUME NEW p, NEW c
  PROVE  /\ p.state = 0 => Switch(p, c) = InText(p, c)
         /\ p.state = 1 => Switch(p, c) = TagBeginning(p, c)
         /\ p.state = 2 => Switch(p, c) = TagName(p, c)
         /\ p.state = 3 => Switch(p, c) = TagSpace(p, c)
         /\ p.state = 4 => Switch(p, c) = AttributeName(p, c)
         /\ p.state = 5 => Switch(p, c) = BeforeValue(p, c)
         /\ p.state = 6 => Switch(p, c) = DoubleQuoted(p, c)
         /\ p.state = 7 => Switch(p, c) = SingleQuoted(p, c)
         /\ p.state = 8 => Switch(p, c) = Unquoted(p, c)
         /\ p.state = 9 => Switch(p, c) = InComment(p, c)
         /\ p.state = 10 => Switch(p, c) = SearchScriptEnd(p, c)
         /\ p.state = 11 => Switch(p, c) = ScriptLess(p, c)
         /\ p.state \in {12, 13} => Switch(p, c) = ScriptEndName(p, c)
<1>0. p.state = 0 => Switch(p, c) = InText(p, c)
  BY DEF Switch
<1>1. p.state = 1 => Switch(p, c) = TagBeginning(p, c)
  BY DEF Switch
<1>2. p.state = 2 => Switch(p, c) = TagName(p, c)
  BY DEF Switch
<1>3. p.state = 3 => Switch(p, c) = TagSpace(p, c)
  BY DEF Switch
<1>4. p.state = 4 => Switch(p, c) = AttributeName(p, c)
  BY DEF Switch
<1>5. p.state = 5 => Switch(p, c) = BeforeValue(p, c)
  BY DEF Switch
<1>6. p.state = 6 => Switch(p, c) = DoubleQuoted(p, c)
  BY DEF Switch
<1>7. p.state = 7 => Switch(p, c) = SingleQuoted(p, c)
  BY DEF Switch
<1>8. p.state = 8 => Switch(p, c) = Unquoted(p, c)
  BY DEF Switch
<1>9. p.state = 9 => Switch(p, c) = InComment(p, c)
  BY DEF Switch
<1>10. p.state = 10 => Switch(p, c) = SearchScriptEnd(p, c)
  BY DEF Switch
<1>11. p.state = 11 => Switch(p, c) = ScriptLess(p, c)
  BY DEF Switch
<1>12. p.state \in {12, 13} => Switch(p, c) = ScriptEndName(p, c)
  BY DEF Switch
<1> QED BY <1>0, <1>1, <1>2, <1>3, <1>4, <1>5, <1>6, <1>7, <1>8, <1>9, <1>10, <1>11, <1>12

\* In the name of the tag that may end the script.
ScriptEnded(p, s) == Count(Go(p, s, {"SCRIPT"},
  {"TAG", "NAME_ENDED", "CLOSING_TAG"} \cup {IF s = 0 THEN "TAG_END" ELSE "SPACE"}), 0)

\* What a character at the end of a script does.
LEMMA ScriptEndCases ==
  ASSUME NEW p, NEW c, p.state \in {12, 13}
  PROVE  \/ c = "<" /\ Switch(p, c) = Go(p, 11, {}, {})
         \/ c = ">" /\ p.eq = Len(Script) /\ Switch(p, c) = ScriptEnded(p, 0)
         \/ c \in Spaces /\ p.eq = Len(Script) /\ Switch(p, c) = ScriptEnded(p, 3)
         \/ /\ c # "<" /\ (p.eq = Len(Script) => ~ Completes(c))
            /\ Switch(p, c) = Go(p, 13, {}, {})
BY SwitchCases DEF ScriptEndName, ScriptEnded, Completes

\* Every case of the switch gives a parser again.
LEMMA SwitchType ==
  ASSUME NEW p \in Parsers, NEW c \in Chars
  PROVE  Switch(p, c) \in Parsers
<1> USE GoType DEF Parts
<1>0. 0 \in -1 .. Len(Script) /\ p.state \in 0 .. 13
  BY ScriptAssumption DEF Parsers
<1>a. Count(p, 0) \in Parsers
  BY <1>0, CountType
<1>1. CASE p.state = 0
  BY <1>1, SwitchCases DEF InText
<1>2. CASE p.state = 1
  BY <1>2, SwitchCases, <1>a DEF TagBeginning
<1>3. CASE p.state = 2
  BY <1>3, SwitchCases DEF TagName
<1>4. CASE p.state = 3
  BY <1>4, SwitchCases DEF TagSpace
<1>5. CASE p.state = 4
  BY <1>5, SwitchCases DEF AttributeName
<1>6. CASE p.state = 5
  <2>1. Switch(p, c) = BeforeValue(p, c)
    BY <1>6, SwitchCases
  <2>2. \E s \in 0 .. 13, off \in SUBSET Parts, on \in SUBSET Parts : BeforeValue(p, c) = Go(p, s, off, on)
    <3>1. /\ {} \in SUBSET Parts /\ {"SPACE"} \in SUBSET Parts
          /\ {"TAG_END"} \in SUBSET Parts /\ {"VALUE_QUOTED", "VALUE_DOUBLE_QUOTED"} \in SUBSET Parts
      OBVIOUS
    <3> QED BY <3>1 DEF BeforeValue
  <2> QED BY <2>1, <2>2
<1>7. CASE p.state = 6
  BY <1>7, SwitchCases DEF DoubleQuoted
<1>8. CASE p.state = 7
  BY <1>8, SwitchCases DEF SingleQuoted
<1>9. CASE p.state = 8
  BY <1>9, SwitchCases DEF Unquoted
<1>10. CASE p.state = 9
  BY <1>10, SwitchCases DEF InComment
<1>11. CASE p.state = 10
  BY <1>11, SwitchCases DEF SearchScriptEnd
<1>12. CASE p.state = 11
  <2>1. Go(p, 12, {}, {}) \in Parsers
    OBVIOUS
  <2>2. Count(Go(p, 12, {}, {}), 0) \in Parsers
    BY <1>0, <2>1, CountType
  <2> QED BY <1>12, SwitchCases, <2>2 DEF ScriptLess
<1>13. CASE p.state \in {12, 13}
  <2>1. ASSUME NEW s \in {0, 3}
        PROVE  ScriptEnded(p, s) \in Parsers
    <3>1. {"TAG", "NAME_ENDED", "CLOSING_TAG"} \cup {IF s = 0 THEN "TAG_END" ELSE "SPACE"}
            \in SUBSET Parts
      OBVIOUS
    <3>2. Go(p, s, {"SCRIPT"},
             {"TAG", "NAME_ENDED", "CLOSING_TAG"} \cup {IF s = 0 THEN "TAG_END" ELSE "SPACE"})
            \in Parsers
      BY <3>1, <2>1
    <3> QED BY <3>2, <1>0, CountType DEF ScriptEnded
  <2>2. Go(p, 11, {}, {}) \in Parsers /\ Go(p, 13, {}, {}) \in Parsers
    OBVIOUS
  <2> QED BY <1>13, <2>1, <2>2, ScriptEndCases
<1> QED BY <1>0, <1>1, <1>2, <1>3, <1>4, <1>5, <1>6, <1>7, <1>8, <1>9, <1>10, <1>11, <1>12, <1>13

\* To enter a script leaves a parser.
LEMMA EnterScriptType ==
  ASSUME NEW p \in Parsers
  PROVE  EnterScript(p) \in Parsers
<1>1. 10 \in 0 .. 13 /\ {"SCRIPT"} \in SUBSET Parts
  BY DEF Parts
<1>2. [p EXCEPT !.state = 10, !.part = {"SCRIPT"}] \in Parsers
  BY <1>1 DEF Parsers
<1> QED BY <1>2 DEF EnterScript

\* The counter stays in its range: it only grows below the length of the name.
LEMMA MatchScriptType ==
  ASSUME NEW p \in Parsers, NEW c \in Chars
  PROVE  MatchScript(p, c) \in Parsers
<1>1. Len(Script) \in Nat /\ p.eq \in -1 .. Len(Script)
  BY ScriptAssumption DEF Parsers
<1>2. p.eq \in 0 .. Len(Script) - 1 => p.eq + 1 \in -1 .. Len(Script)
  BY <1>1
<1> QED BY <1>1, <1>2, CountType DEF MatchScript

\* No buffer is filled beyond its size.
Fits(p) ==
  /\ Len(p.tag) <= p.cap.tag /\ Len(p.attr) <= p.cap.attr
  /\ Len(p.inner) <= p.cap.inner /\ p.val <= p.cap.val

\* The lower case of a character is a character.
LEMMA LowerType == \A c \in Chars : Lower[c] \in Chars
BY LowerAssumption

\* A buffer takes a character only below its maximum.
LEMMA PutType ==
  ASSUME NEW b \in Seq(Chars), NEW c \in Chars, NEW max \in Nat, Len(b) <= max
  PROVE  Put(b, c, max) \in Seq(Chars) /\ Len(Put(b, c, max)) <= max
<1>1. Append(b, c) \in Seq(Chars) /\ Len(Append(b, c)) = Len(b) + 1 /\ Len(b) \in Nat
  OBVIOUS
<1> QED BY <1>1 DEF Put

\* Emptied buffers fit.
LEMMA EmptiedType ==
  ASSUME NEW p \in Parsers, Fits(p)
  PROVE  Emptied(p) \in Parsers /\ Fits(Emptied(p))
<1>1. <<>> \in Seq(Chars) /\ Len(<<>>) = 0
  OBVIOUS
<1>2. p.cap \in CapRecords
  BY DEF Parsers
<1>3. /\ [p EXCEPT !.inner = <<>>] \in Parsers
      /\ [p EXCEPT !.tag = <<>>, !.attr = <<>>, !.val = 0] \in Parsers
      /\ [p EXCEPT !.attr = <<>>, !.val = 0] \in Parsers
      /\ [p EXCEPT !.val = 0] \in Parsers
  BY <1>1 DEF Parsers
<1>4. 0 <= p.cap.tag /\ 0 <= p.cap.attr /\ 0 <= p.cap.inner /\ 0 <= p.cap.val
  BY <1>2
<1>5. /\ Fits([p EXCEPT !.inner = <<>>])
      /\ Fits([p EXCEPT !.tag = <<>>, !.attr = <<>>, !.val = 0])
      /\ Fits([p EXCEPT !.attr = <<>>, !.val = 0])
      /\ Fits([p EXCEPT !.val = 0])
  BY <1>1, <1>4 DEF Parsers, Fits
<1> QED BY <1>3, <1>5 DEF Emptied

\* A stored character fits.
LEMMA StoredType ==
  ASSUME NEW p \in Parsers, Fits(p), NEW c \in Chars
  PROVE  Stored(p, c) \in Parsers /\ Fits(Stored(p, c))
<1>1. p.cap \in CapRecords /\ Lower[c] \in Chars /\ p.tag \in Seq(Chars)
      /\ p.attr \in Seq(Chars) /\ p.inner \in Seq(Chars) /\ p.val \in Nat
  BY LowerType DEF Parsers
<1>2. ASSUME NEW b \in Seq(Chars), Len(b) <= p.cap.inner
      PROVE  [p EXCEPT !.inner = b] \in Parsers /\ Fits([p EXCEPT !.inner = b])
  BY <1>2 DEF Parsers, Fits
<1>3. ASSUME NEW b \in Seq(Chars), Len(b) <= p.cap.tag
      PROVE  [p EXCEPT !.tag = b] \in Parsers /\ Fits([p EXCEPT !.tag = b])
  BY <1>3 DEF Parsers, Fits
<1>4. ASSUME NEW b \in Seq(Chars), Len(b) <= p.cap.attr
      PROVE  [p EXCEPT !.attr = b] \in Parsers /\ Fits([p EXCEPT !.attr = b])
  BY <1>4 DEF Parsers, Fits
<1>5. p.val < p.cap.val =>
        [p EXCEPT !.val = @ + 1] \in Parsers /\ Fits([p EXCEPT !.val = @ + 1])
  <2>1. [p EXCEPT !.val = @ + 1] \in Parsers
    <3>1. p.val + 1 \in Nat
      BY <1>1
    <3> QED BY <3>1 DEF Parsers
  <2>2. p.val < p.cap.val => p.val + 1 <= p.cap.val
    BY <1>1
  <2> QED BY <2>1, <2>2 DEF Parsers, Fits
<1>6. [p EXCEPT !.inner = Put(@, c, p.cap.inner)] \in Parsers
      /\ Fits([p EXCEPT !.inner = Put(@, c, p.cap.inner)])
  BY <1>1, <1>2, PutType DEF Fits
<1>7. [p EXCEPT !.tag = Put(@, Lower[c], p.cap.tag)] \in Parsers
      /\ Fits([p EXCEPT !.tag = Put(@, Lower[c], p.cap.tag)])
  BY <1>1, <1>3, PutType DEF Fits
<1>8. [p EXCEPT !.attr = Put(@, Lower[c], p.cap.attr)] \in Parsers
      /\ Fits([p EXCEPT !.attr = Put(@, Lower[c], p.cap.attr)])
  BY <1>1, <1>4, PutType DEF Fits
<1> QED BY <1>5, <1>6, <1>7, <1>8 DEF Stored

\* The part of the parser that the switch leaves alone.
Buffers(p) == <<p.tag, p.attr, p.inner, p.val, p.cap>>

\* The steps of the automaton leave the buffers alone: to go to a state, ...
LEMMA GoKeeps ==
  ASSUME NEW p \in Parsers, NEW s, NEW off, NEW on
  PROVE  Buffers(Go(p, s, off, on)) = Buffers(p)
BY DEF Go, Buffers, Parsers

\* ... to count, ...
LEMMA CountKeeps ==
  ASSUME NEW p \in Parsers, NEW e
  PROVE  Buffers(Count(p, e)) = Buffers(p)
BY DEF Count, Buffers, Parsers

\* ... one after the other, ...
LEMMA GoCountKeeps ==
  ASSUME NEW p \in Parsers, NEW s, NEW off, NEW on, NEW e
  PROVE  /\ Buffers(Count(Go(p, s, off, on), e)) = Buffers(p)
         /\ Buffers(Go(Count(p, e), s, off, on)) = Buffers(p)
BY DEF Count, Go, Buffers, Parsers

\* ... to go twice, ...
LEMMA GoGoKeeps ==
  ASSUME NEW p \in Parsers, NEW s, NEW off, NEW on, NEW t, NEW n, NEW m
  PROVE  Buffers(Go(Go(p, s, off, on), t, n, m)) = Buffers(p)
BY DEF Go, Buffers, Parsers

\* ... and so the whole switch.
LEMMA SwitchKeeps ==
  ASSUME NEW p \in Parsers, NEW c \in Chars
  PROVE  Buffers(Switch(p, c)) = Buffers(p)
<1>1. p.state \in 0 .. 13
  BY DEF Parsers
<1>2. CASE p.state = 0
  BY <1>2, GoKeeps, SwitchCases DEF InText
<1>3. CASE p.state = 1
  BY <1>3, GoCountKeeps, SwitchCases DEF TagBeginning
<1>4. CASE p.state = 2
  BY <1>4, GoKeeps, SwitchCases DEF TagName
<1>5. CASE p.state = 3
  BY <1>5, GoKeeps, SwitchCases DEF TagSpace
<1>6. CASE p.state = 4
  BY <1>6, GoKeeps, SwitchCases DEF AttributeName
<1>7. CASE p.state = 5
  BY <1>7, GoKeeps, SwitchCases DEF BeforeValue
<1>8. CASE p.state = 6
  BY <1>8, GoKeeps, GoGoKeeps, SwitchCases DEF DoubleQuoted
<1>9. CASE p.state = 7
  BY <1>9, GoKeeps, SwitchCases DEF SingleQuoted
<1>10. CASE p.state = 8
  BY <1>10, GoKeeps, SwitchCases DEF Unquoted
<1>11. CASE p.state = 9
  BY <1>11, GoKeeps, SwitchCases DEF InComment
<1>12. CASE p.state = 10
  BY <1>12, GoKeeps, SwitchCases DEF SearchScriptEnd
<1>13. CASE p.state = 11
  BY <1>13, GoKeeps, GoCountKeeps, SwitchCases DEF ScriptLess
<1>14. CASE p.state \in {12, 13}
  BY <1>14, GoKeeps, GoCountKeeps, SwitchCases DEF ScriptEndName
<1> QED BY <1>1, <1>2, <1>3, <1>4, <1>5, <1>6, <1>7, <1>8, <1>9, <1>10, <1>11, <1>12,
           <1>13, <1>14

\* To compare with the word "script" changes only how far it agrees.
LEMMA MatchScriptKeeps ==
  ASSUME NEW p \in Parsers, NEW c
  PROVE  /\ Buffers(MatchScript(p, c)) = Buffers(p)
         /\ MatchScript(p, c).state = p.state /\ MatchScript(p, c).part = p.part
<1>1. \A e : Count(p, e).state = p.state /\ Count(p, e).part = p.part
  BY DEF Count, Parsers
<1> QED BY <1>1, CountKeeps DEF MatchScript

\* To enter a script leaves the buffers and the comparison alone.
LEMMA EnterScriptKeeps ==
  ASSUME NEW p \in Parsers
  PROVE  Buffers(EnterScript(p)) = Buffers(p) /\ EnterScript(p).eq = p.eq
BY DEF EnterScript, Buffers, Parsers

\* Whether the buffers fit depends on the buffers.
LEMMA FitsKeeps ==
  ASSUME NEW p, NEW q, Buffers(p) = Buffers(q), Fits(p)
  PROVE  Fits(q)
BY DEF Buffers, Fits

\* A character makes a parser of a parser.
LEMMA CharParseType ==
  ASSUME NEW p \in Parsers, Fits(p), NEW c \in Chars
  PROVE  CharParse(p, c) \in Parsers /\ Fits(CharParse(p, c))
<1> DEFINE e == EnterScript(p)
           s == Switch(e, c)
           q == MatchScript(s, c)
<1>1. e \in Parsers /\ s \in Parsers /\ q \in Parsers
  BY EnterScriptType, SwitchType, MatchScriptType
<1>2. Buffers(q) = Buffers(p)
  BY <1>1, EnterScriptKeeps, SwitchKeeps, MatchScriptKeeps
<1>3. Fits(q)
  BY <1>2, FitsKeeps
<1>4. Emptied(q) \in Parsers /\ Fits(Emptied(q))
  BY <1>1, <1>3, EmptiedType
<1> HIDE DEF e, s, q
<1>5. Stored(Emptied(q), c) \in Parsers /\ Fits(Stored(Emptied(q), c))
  BY <1>4, StoredType
<1> QED BY <1>5 DEF CharParse, q, s, e

\* Empty buffers fit.
LEMMA ResetFits == ASSUME NEW caps \in CapRecords
  PROVE Fits([Reset EXCEPT !.cap = caps]) /\ Fits(Reset)
<1>1. Len(<<>>) = 0
  OBVIOUS
<1> QED BY <1>1 DEF Reset, Fits, NoCaps

\* The characters since the last ">" are characters.
LEMMA SinceType ==
  ASSUME NEW h \in Seq(Chars), NEW c \in Chars
  PROVE  SinceNext(h, c) \in Seq(Chars)
<1>1. Lower[c] \in Chars
  BY LowerType
<1>2. <<c>> \in Seq(Chars) /\ Append(h, Lower[c]) \in Seq(Chars)
  BY <1>1
<1> QED BY <1>2 DEF SinceNext

\* No sequence of characters makes the parser write beyond a buffer, whatever
\* the sizes.
THEOREM ParserTypeCorrect == HspSpec => []HspTypeOK
<1>1. HspInit => HspTypeOK
  <2>1. Reset \in Parsers /\ Fits(Reset) /\ <<>> \in Seq(Chars)
    <3>1. Reset \in Parsers
      BY ResetType, CapsAssumption
    <3>2. Fits(Reset)
      BY ResetFits, CapsAssumption
    <3> QED BY <3>1, <3>2
  <2> QED BY <2>1 DEF HspInit, HspTypeOK, Fits
<1>2. ASSUME HspTypeOK, [HspNext]_<<hsp, since>>
      PROVE  HspTypeOK'
  <2>1. CASE Prepare
    <3>1. hsp' \in Parsers /\ Fits(hsp') /\ since' \in Seq(Chars)
      BY <2>1, ResetType, ResetFits, CapsAssumption DEF Prepare
    <3> QED BY <3>1 DEF HspTypeOK, Fits
  <2>2. ASSUME NEW c \in Chars, Feed(c)
        PROVE  HspTypeOK'
    <3>1. hsp \in Parsers /\ Fits(hsp) /\ since \in Seq(Chars)
      BY <1>2 DEF HspTypeOK, Fits
    <3>2. hsp' \in Parsers /\ Fits(hsp') /\ since' \in Seq(Chars)
      BY <2>2, <3>1, CharParseType, SinceType DEF Feed
    <3> QED BY <3>2 DEF HspTypeOK, Fits
  <2>3. CASE UNCHANGED <<hsp, since>>
    BY <1>2, <2>3 DEF HspTypeOK
  <2> QED BY <1>2, <2>1, <2>2, <2>3 DEF HspNext
<1> QED BY <1>1, <1>2, PTL DEF HspSpec

-----------------------------------------------------------------------------
\* The flags and the state.

\* The switch keeps the parts what the state says.
LEMMA SwitchAgrees ==
  ASSUME NEW p \in Parsers, PartsAgree(p), NEW c \in Chars
  PROVE  PartsAgree(Switch(p, c))
<1> USE DEF PartsAgree
<1>1. p.state \in 0 .. 13 /\ p.part \in SUBSET Parts
  BY DEF Parsers
<1>2. \A s, off, on : Go(p, s, off, on).state = s /\ Go(p, s, off, on).part = (p.part \ off) \cup on
  BY DEF Go, Parsers
<1>a. \A s, off, on, e : /\ Count(Go(p, s, off, on), e).state = s
                         /\ Count(Go(p, s, off, on), e).part = (p.part \ off) \cup on
                         /\ Go(Count(p, e), s, off, on).state = s
                         /\ Go(Count(p, e), s, off, on).part = (p.part \ off) \cup on
  BY DEF Go, Count, Parsers
<1>b. \A s, off, on, t, n, m :
        /\ Go(Go(p, s, off, on), t, n, m).state = t
        /\ Go(Go(p, s, off, on), t, n, m).part = (((p.part \ off) \cup on) \ n) \cup m
  BY DEF Go, Parsers
<1>3. CASE p.state = 0
  BY <1>1, <1>2, <1>3, SwitchCases DEF InText, Parts
<1>4. CASE p.state = 1
  BY <1>1, <1>2, <1>a, <1>4, SwitchCases DEF TagBeginning, Parts
<1>5. CASE p.state = 2
  BY <1>1, <1>2, <1>5, SwitchCases DEF TagName, Parts
<1>6. CASE p.state = 3
  BY <1>1, <1>2, <1>6, SwitchCases DEF TagSpace, Parts
<1>7. CASE p.state = 4
  BY <1>1, <1>2, <1>7, SwitchCases DEF AttributeName, Parts
<1>8. CASE p.state = 5
  BY <1>1, <1>2, <1>8, SwitchCases DEF BeforeValue, Parts
<1>9. CASE p.state = 6
  BY <1>1, <1>2, <1>b, <1>9, SwitchCases DEF DoubleQuoted, Parts
<1>10. CASE p.state = 7
  BY <1>1, <1>2, <1>10, SwitchCases DEF SingleQuoted, Parts
<1>11. CASE p.state = 8
  BY <1>1, <1>2, <1>11, SwitchCases DEF Unquoted, Parts
<1>12. CASE p.state = 9
  BY <1>1, <1>2, <1>12, SwitchCases DEF InComment, Parts
<1>13. CASE p.state = 10
  BY <1>1, <1>2, <1>13, SwitchCases DEF SearchScriptEnd, Parts
<1>14. CASE p.state = 11
  BY <1>1, <1>2, <1>a, <1>14, SwitchCases DEF ScriptLess, Parts
<1>15. CASE p.state \in {12, 13}
  <2>1. /\ PartsAgree(Go(p, 11, {}, {})) /\ PartsAgree(Go(p, 13, {}, {}))
        /\ PartsAgree(ScriptEnded(p, 0)) /\ PartsAgree(ScriptEnded(p, 3))
    BY <1>1, <1>2, <1>a, <1>15 DEF ScriptEnded, Parts
  <2> QED BY <1>15, <2>1, ScriptEndCases
<1> QED BY <1>1, <1>3, <1>4, <1>5, <1>6, <1>7, <1>8, <1>9, <1>10, <1>11, <1>12, <1>13, <1>14, <1>15

\* What follows the switch in html_parser_char_parse leaves these alone.
Control(p) == <<p.state, p.part, p.eq, p.cap>>

\* To empty and to fill buffers leaves the automaton alone.
LEMMA BufferSteps ==
  ASSUME NEW p \in Parsers, NEW c
  PROVE  /\ Control(Emptied(p)) = Control(p)
         /\ Emptied(p) \in Parsers => Control(Stored(Emptied(p), c)) = Control(p)
<1>1. Control(Emptied(p)) = Control(p)
  BY DEF Emptied, Control, Parsers
<1>2. ASSUME NEW q \in Parsers
      PROVE  Control(Stored(q, c)) = Control(q)
  BY DEF Stored, Control, Parsers
<1> QED BY <1>1, <1>2

\* The character as a whole: the machine of the switch and its counter, then
\* the buffers.
Machine(p, c) == MatchScript(Switch(EnterScript(p), c), c)

\* A character moves the automaton first, then the buffers.
LEMMA MachineType ==
  ASSUME NEW p \in Parsers, Fits(p), NEW c \in Chars
  PROVE  /\ Machine(p, c) \in Parsers /\ Buffers(Machine(p, c)) = Buffers(p)
         /\ Emptied(Machine(p, c)) \in Parsers
         /\ CharParse(p, c) = Stored(Emptied(Machine(p, c)), c)
         /\ Control(CharParse(p, c)) = Control(Machine(p, c))
<1> DEFINE q == Machine(p, c)
<1>1. q \in Parsers
  BY EnterScriptType, SwitchType, MatchScriptType DEF Machine
<1>2. Buffers(q) = Buffers(p)
  BY EnterScriptType, SwitchType, EnterScriptKeeps, SwitchKeeps, MatchScriptKeeps DEF Machine
<1>3. Emptied(q) \in Parsers
  BY <1>1, <1>2, FitsKeeps, EmptiedType
<1>4. CharParse(p, c) = Stored(Emptied(q), c)
  BY DEF CharParse, Machine
<1> HIDE DEF q
<1> QED BY <1>1, <1>2, <1>3, <1>4, BufferSteps DEF q

\* In a script the parts are what the state says.
LEMMA EnterScriptAgrees ==
  ASSUME NEW p \in Parsers, PartsAgree(p)
  PROVE  PartsAgree(EnterScript(p))
<1>1. [p EXCEPT !.state = 10, !.part = {"SCRIPT"}].state = 10
      /\ [p EXCEPT !.state = 10, !.part = {"SCRIPT"}].part = {"SCRIPT"}
  BY DEF Parsers
<1> QED BY <1>1 DEF EnterScript, PartsAgree

\* The automaton keeps the parts what the state says.
LEMMA MachineAgrees ==
  ASSUME NEW p \in Parsers, PartsAgree(p), NEW c \in Chars
  PROVE  PartsAgree(Switch(EnterScript(p), c)) /\ PartsAgree(Machine(p, c))
<1>1. EnterScript(p) \in Parsers /\ PartsAgree(EnterScript(p))
  BY EnterScriptType, EnterScriptAgrees
<1>2. Switch(EnterScript(p), c) \in Parsers /\ PartsAgree(Switch(EnterScript(p), c))
  BY <1>1, SwitchType, SwitchAgrees
<1> QED BY <1>2, MatchScriptKeeps DEF Machine, PartsAgree

\* So does html_parser_char_parse.
LEMMA CharParseAgrees ==
  ASSUME NEW p \in Parsers, Fits(p), PartsAgree(p), NEW c \in Chars
  PROVE  PartsAgree(CharParse(p, c))
<1>1. CharParse(p, c).state = Machine(p, c).state /\ CharParse(p, c).part = Machine(p, c).part
  BY MachineType DEF Control
<1> QED BY <1>1, MachineAgrees DEF PartsAgree

\* The flags agree with the state after every sequence of characters.
THEOREM FlagsAgree == HspSpec => []PartsOfState
<1>1. HspInit => PartsOfState
  BY DEF HspInit, PartsOfState, PartsAgree, Reset
<1>2. ASSUME PartsOfState, HspTypeOK, [HspNext]_<<hsp, since>>
      PROVE  PartsOfState'
  <2>1. CASE Prepare
    BY <2>1 DEF Prepare, PartsOfState, PartsAgree, Reset
  <2>2. ASSUME NEW c \in Chars, Feed(c)
        PROVE  PartsOfState'
    <3>1. hsp \in Parsers /\ Fits(hsp) /\ PartsAgree(hsp)
      BY <1>2 DEF HspTypeOK, Fits, PartsOfState
    <3>2. PartsAgree(hsp')
      BY <2>2, <3>1, CharParseAgrees DEF Feed
    <3> QED BY <3>2 DEF PartsOfState, PartsAgree
  <2>3. CASE UNCHANGED <<hsp, since>>
    BY <1>2, <2>3 DEF PartsOfState, PartsAgree
  <2> QED BY <1>2, <2>1, <2>2, <2>3 DEF HspNext
<1> QED BY <1>1, <1>2, ParserTypeCorrect, PTL DEF HspSpec

-----------------------------------------------------------------------------
\* The name of the tag and the counter.

\* Where the switch goes from each state, and what becomes of the counter.
Moves(p, q, c) ==
  /\ p.state = 0 => q.state \in {0, 1} /\ q.eq = p.eq /\ "TAG_END" \notin q.part
  /\ p.state = 1 => /\ q.state \in {0, 1, 2, 9} /\ q.eq = 0
                    /\ q.state = 2 => "NAME_BEGINNING" \in q.part
  /\ p.state = 2 => /\ q.state \in {0, 2, 3} /\ q.eq = p.eq
                    /\ q.state = 2 => "NAME_BEGINNING" \notin q.part
  /\ p.state \in 3 .. 8 => q.state \in {0} \cup 3 .. 8 /\ q.eq = p.eq
  /\ p.state = 9 => q.state \in {0, 9} /\ q.eq = p.eq
  /\ p.state \in 2 .. 9 /\ q.state = 0 => c = ">" /\ "TAG_END" \in q.part
  /\ p.state = 10 => q.state = IF c = "<" THEN 11 ELSE 10
  /\ p.state = 11 => /\ q.state = IF c = "<" THEN 11 ELSE IF c = "/" THEN 12 ELSE 10
                     /\ q.state = 12 => q.eq = 0
  /\ p.state \in {12, 13} =>
       \/ c = "<" /\ q.state = 11
       \/ q.state \in {0, 3} /\ q.eq = 0 /\ p.eq = Len(Script) /\ Completes(c)
       \/ /\ c # "<" /\ q.state = 13 /\ q.eq = p.eq
          /\ p.eq = Len(Script) => ~ Completes(c)

\* The moves that the switch makes on a character.
LEMMA SwitchMoves ==
  ASSUME NEW p \in Parsers, PartsAgree(p), NEW c \in Chars
  PROVE  Moves(p, Switch(p, c), c)
<1> DEFINE q == Switch(p, c)
<1> USE DEF PartsAgree, Moves
<1>1. p.state \in 0 .. 13 /\ p.part \in SUBSET Parts
  BY DEF Parsers
<1>2. \A s, off, on : /\ Go(p, s, off, on).state = s /\ Go(p, s, off, on).eq = p.eq
                      /\ Go(p, s, off, on).part = (p.part \ off) \cup on
  BY DEF Go, Parsers
<1>a. \A s, off, on, e : /\ Count(Go(p, s, off, on), e).state = s
                         /\ Count(Go(p, s, off, on), e).eq = e
                         /\ Go(Count(p, e), s, off, on).state = s
                         /\ Go(Count(p, e), s, off, on).eq = e
                         /\ Go(Count(p, e), s, off, on).part = (p.part \ off) \cup on
  BY DEF Go, Count, Parsers
<1>b. \A s, off, on, t, n, m :
        /\ Go(Go(p, s, off, on), t, n, m).state = t
        /\ Go(Go(p, s, off, on), t, n, m).eq = p.eq
  BY DEF Go, Parsers
<1>3. CASE p.state = 0
  BY <1>1, <1>2, <1>3, SwitchCases DEF InText, Parts
<1>4. CASE p.state = 1
  BY <1>1, <1>2, <1>a, <1>4, SwitchCases DEF TagBeginning, Parts
<1>5. CASE p.state = 2
  BY <1>1, <1>2, <1>5, SwitchCases DEF TagName, Parts
<1>6. CASE p.state = 3
  BY <1>1, <1>2, <1>6, SwitchCases DEF TagSpace, Parts
<1>7. CASE p.state = 4
  BY <1>1, <1>2, <1>7, SwitchCases DEF AttributeName, Parts
<1>8. CASE p.state = 5
  BY <1>1, <1>2, <1>8, SwitchCases DEF BeforeValue, Parts
<1>9. CASE p.state = 6
  BY <1>1, <1>2, <1>b, <1>9, SwitchCases DEF DoubleQuoted, Parts
<1>10. CASE p.state = 7
  BY <1>1, <1>2, <1>10, SwitchCases DEF SingleQuoted, Parts
<1>11. CASE p.state = 8
  BY <1>1, <1>2, <1>11, SwitchCases DEF Unquoted, Parts
<1>12. CASE p.state = 9
  BY <1>1, <1>2, <1>12, SwitchCases DEF InComment, Parts
<1>13. CASE p.state = 10
  BY <1>1, <1>2, <1>13, SwitchCases DEF SearchScriptEnd, Parts
<1>14. CASE p.state = 11
  BY <1>1, <1>2, <1>a, <1>14, SwitchCases DEF ScriptLess, Parts
<1>15. CASE p.state \in {12, 13}
  <2>1. Go(p, 11, {}, {}).state = 11 /\ Go(p, 13, {}, {}).state = 13 /\ Go(p, 13, {}, {}).eq = p.eq
    BY <1>2
  <2>2. /\ ScriptEnded(p, 0).state = 0 /\ ScriptEnded(p, 0).eq = 0
        /\ ScriptEnded(p, 3).state = 3 /\ ScriptEnded(p, 3).eq = 0
    BY <1>a DEF ScriptEnded
  <2> QED BY <1>15, <2>1, <2>2, ScriptEndCases DEF Completes
<1> HIDE DEF PartsAgree, Moves
<1> QED BY <1>1, <1>3, <1>4, <1>5, <1>6, <1>7, <1>8, <1>9, <1>10, <1>11, <1>12, <1>13, <1>14, <1>15

\* What the character does to the buffer of the name.
LEMMA TagStored ==
  ASSUME NEW q \in Parsers, PartsAgree(q), Emptied(q) \in Parsers, NEW c \in Chars,
         NEW t, t = Stored(Emptied(q), c).tag
  PROVE  /\ q.state \notin {2, 12, 13} => t = q.tag
         /\ q.state = 12 \/ (q.state = 2 /\ "NAME_BEGINNING" \in q.part) =>
              t = Put(<<>>, Lower[c], q.cap.tag)
         /\ q.state = 13 \/ (q.state = 2 /\ "NAME_BEGINNING" \notin q.part) =>
              t = Put(q.tag, Lower[c], q.cap.tag)
<1>1. /\ Emptied(q).state = q.state /\ Emptied(q).part = q.part /\ Emptied(q).cap = q.cap
  BY BufferSteps DEF Control
<1>2. /\ q.state \notin {2, 12, 13} => Emptied(q).tag = q.tag
      /\ q.state = 12 \/ (q.state = 2 /\ "NAME_BEGINNING" \in q.part) => Emptied(q).tag = <<>>
      /\ q.state = 13 \/ (q.state = 2 /\ "NAME_BEGINNING" \notin q.part) => Emptied(q).tag = q.tag
  <2>1. /\ [q EXCEPT !.inner = <<>>].tag = q.tag
        /\ [q EXCEPT !.tag = <<>>, !.attr = <<>>, !.val = 0].tag = <<>>
        /\ [q EXCEPT !.attr = <<>>, !.val = 0].tag = q.tag
        /\ [q EXCEPT !.val = 0].tag = q.tag
    BY DEF Parsers
  <2>2. /\ "NAME" \in q.part <=> q.state = 2
        /\ "INNER_TEXT" \in q.part => q.state = 0
        /\ "NAME_BEGINNING" \in q.part => q.state = 2
    BY DEF PartsAgree
  <2>3. CASE "INNER_TEXT" \in q.part
    BY <2>1, <2>2, <2>3 DEF Emptied
  <2>4. CASE "INNER_TEXT" \notin q.part /\ q.state \in {2, 12, 13}
    BY <2>1, <2>2, <2>4 DEF Emptied
  <2>5. CASE "INNER_TEXT" \notin q.part /\ q.state \notin {2, 12, 13}
    BY <2>1, <2>2, <2>5 DEF Emptied
  <2> QED BY <2>3, <2>4, <2>5
<1>3. ASSUME NEW r \in Parsers, PartsAgree(r)
      PROVE  /\ r.state \notin {2, 12, 13} => Stored(r, c).tag = r.tag
             /\ r.state \in {2, 12, 13} => Stored(r, c).tag = Put(r.tag, Lower[c], r.cap.tag)
  <2>1. /\ [r EXCEPT !.inner = Put(@, c, r.cap.inner)].tag = r.tag
        /\ [r EXCEPT !.tag = Put(@, Lower[c], r.cap.tag)].tag = Put(r.tag, Lower[c], r.cap.tag)
        /\ [r EXCEPT !.attr = Put(@, Lower[c], r.cap.attr)].tag = r.tag
        /\ [r EXCEPT !.val = @ + 1].tag = r.tag
    BY DEF Parsers
  <2>2. /\ "NAME" \in r.part <=> r.state = 2
        /\ "INNER_TEXT" \in r.part => r.state = 0
    BY <1>3 DEF PartsAgree
  <2> QED BY <2>1, <2>2 DEF Stored
<1>4. PartsAgree(Emptied(q))
  BY <1>1 DEF PartsAgree
<1>5. q.state \in 0 .. 13
  BY DEF Parsers
<1> QED BY <1>1, <1>2, <1>3, <1>4, <1>5

\* The sequence s is a prefix of the word w.
PrefixOf(s, w) == Len(s) <= Len(w) /\ \A j \in 1 .. Len(s) : s[j] = w[j]

\* A longer beginning of a word.
LEMMA PrefixAppend ==
  ASSUME NEW s \in Seq(Chars), NEW w \in Seq(Chars), NEW x \in Chars
  PROVE  PrefixOf(Append(s, x), w) <=>
           PrefixOf(s, w) /\ Len(s) < Len(w) /\ w[Len(s) + 1] = x
<1>1. /\ Len(s) \in Nat /\ Len(w) \in Nat /\ Len(Append(s, x)) = Len(s) + 1
      /\ \A j \in 1 .. Len(s) : Append(s, x)[j] = s[j]
      /\ Append(s, x)[Len(s) + 1] = x
  OBVIOUS
<1>2. 1 .. Len(s) + 1 = 1 .. Len(s) \cup {Len(s) + 1}
  BY <1>1
<1> QED BY <1>1, <1>2 DEF PrefixOf

\* Nothing is a beginning of every word.
LEMMA PrefixEmpty == ASSUME NEW w \in Seq(Chars) PROVE PrefixOf(<<>>, w)
BY DEF PrefixOf

\* The beginning that has all of the length is the word.
LEMMA PrefixFull ==
  ASSUME NEW s \in Seq(Chars), NEW w \in Seq(Chars)
  PROVE  s = w <=> PrefixOf(s, w) /\ Len(s) = Len(w)
<1>1. PrefixOf(s, w) /\ Len(s) = Len(w) => s = w
  BY SeqEqual DEF PrefixOf
<1>2. PrefixOf(w, w)
  BY DEF PrefixOf
<1> QED BY <1>1, <1>2

\* A character that is put into a buffer longer than the word.
LEMMA PrefixPut ==
  ASSUME NEW s \in Seq(Chars), NEW w \in Seq(Chars), NEW x \in Chars, NEW max \in Nat,
         Len(s) <= max, max > Len(w)
  PROVE  /\ PrefixOf(Put(s, x, max), w) <=>
              PrefixOf(s, w) /\ Len(s) < Len(w) /\ w[Len(s) + 1] = x
         /\ PrefixOf(s, w) => Len(Put(s, x, max)) = Len(s) + 1
<1>1. Len(s) \in Nat /\ Len(w) \in Nat /\ Len(Append(s, x)) = Len(s) + 1
  OBVIOUS
<1>2. CASE Len(s) < max
  BY <1>1, <1>2, PrefixAppend DEF Put
<1>3. CASE Len(s) = max
  BY <1>1, <1>3 DEF Put, PrefixOf
<1> QED BY <1>1, <1>2, <1>3

\* The word w is made of k characters and the name of the script element; the
\* counter says how far s agrees with it.
Ends(w, k) == Len(w) = Len(Script) + k /\ \A j \in 1 .. Len(Script) : w[j + k] = Script[j]
Counted(eq, s, w, k) ==
  IF eq = -1 THEN ~ PrefixOf(s, w) ELSE PrefixOf(s, w) /\ Len(s) = eq + k

\* One more character: the counter and the sequence still agree.
LEMMA MatchScriptCounts ==
  ASSUME NEW p \in Parsers, p.state \in {2, 13}, NEW c \in Chars,
         NEW s \in Seq(Chars), NEW w \in Seq(Chars), NEW k \in Nat, Ends(w, k),
         NEW max \in Nat, Len(s) <= max, max > Len(w), Counted(p.eq, s, w, k)
  PROVE  Counted(MatchScript(p, c).eq, Put(s, Lower[c], max), w, k)
<1> DEFINE x == Lower[c]
           t == Put(s, x, max)
<1>1. x \in Chars /\ p.eq \in -1 .. Len(Script) /\ Len(s) \in Nat /\ Len(Script) \in Nat
  BY LowerType, ScriptAssumption DEF Parsers
<1>2. \A e : Count(p, e).eq = e
  BY DEF Count, Parsers
<1>3. /\ PrefixOf(t, w) <=> PrefixOf(s, w) /\ Len(s) < Len(w) /\ w[Len(s) + 1] = x
      /\ PrefixOf(s, w) => Len(t) = Len(s) + 1
  BY <1>1, PrefixPut
<1> HIDE DEF t, x
<1>4. CASE p.eq = -1
  <2>1. MatchScript(p, c).eq = -1
    BY <1>2, <1>4 DEF MatchScript
  <2> QED BY <1>3, <1>4, <2>1 DEF Counted, t, x
<1>5. CASE p.eq = Len(Script)
  <2>1. MatchScript(p, c).eq = -1
    BY <1>1, <1>2, <1>5 DEF MatchScript
  <2>2. Len(s) = Len(w)
    BY <1>1, <1>5 DEF Counted, Ends
  <2> QED BY <1>1, <1>3, <2>1, <2>2 DEF Counted, t, x
<1>6. CASE p.eq \in 0 .. Len(Script) - 1
  <2>1. PrefixOf(s, w) /\ Len(s) = p.eq + k
    BY <1>1, <1>6 DEF Counted
  <2>2. Len(s) < Len(w) /\ w[Len(s) + 1] = Script[p.eq + 1]
    <3>1. p.eq + 1 \in 1 .. Len(Script) /\ (p.eq + 1) + k = Len(s) + 1
      BY <1>1, <1>6, <2>1
    <3>2. Len(w) = Len(Script) + k
      BY DEF Ends
    <3>3. w[(p.eq + 1) + k] = Script[p.eq + 1]
      BY <3>1 DEF Ends
    <3>4. Len(s) < Len(w)
      BY <1>1, <1>6, <2>1, <3>2
    <3> QED BY <3>1, <3>3, <3>4
  <2>3. MatchScript(p, c).eq = IF Script[p.eq + 1] = x THEN p.eq + 1 ELSE -1
    BY <1>2, <1>6 DEF MatchScript, x
  <2>4. CASE Script[p.eq + 1] = x
    <3>1. PrefixOf(t, w) /\ Len(t) = (p.eq + 1) + k
      BY SMTT(30), <1>1, <1>3, <1>6, <2>1, <2>2, <2>4
    <3> QED BY <1>1, <1>6, <2>3, <2>4, <3>1 DEF Counted, t, x
  <2>5. CASE Script[p.eq + 1] # x
    <3>1. ~ PrefixOf(t, w)
      BY <1>3, <2>2, <2>5
    <3> QED BY <2>3, <2>5, <3>1 DEF Counted, t, x
  <2> QED BY <2>4, <2>5
<1> QED BY <1>1, <1>4, <1>5, <1>6

\* What the counter and the stored name say of each other in every state.  It
\* is more than ScriptNamed, which is about the ends of tags: within a name the
\* counter is the number of its letters; at the other places the name of an
\* earlier tag is still there.
NameInv(p) ==
  /\ p.state = 2 => Counted(p.eq, p.tag, Script, 0)
  /\ p.state \in 3 .. 8 => (p.eq = Len(Script) <=> p.tag = Script)
  /\ p.state = 0 => /\ p.eq = Len(Script) <=> p.tag = Script
                    /\ p.eq = Len(Script) => "TAG_END" \in p.part
  /\ p.state \in {1, 9} => p.tag # Script /\ p.eq # Len(Script)
  /\ p.state \in {12, 13} => p.tag # <<>> /\ p.tag[1] = "/"

\* No letter of "script" ends a tag.
LEMMA ScriptFacts ==
  /\ Script \in Seq(Chars) /\ Len(Script) \in Nat \ {0} /\ Ends(Script, 0)
  /\ \A j \in 1 .. Len(Script) : Script[j] # "/" /\ Script[j] # ">"
<1>1. Script \in Seq(Chars) /\ Len(Script) \in Nat /\ Len(Script) # 0
  BY ScriptAssumption, EmptySeq DEF Chars
<1>2. \A j \in 1 .. Len(Script) : Script[j] \in Letters
  BY ScriptAssumption
<1>3. "/" \notin Letters /\ ">" \notin Letters
  BY AlphabetAssumption
<1>4. Ends(Script, 0)
  BY <1>1 DEF Ends
<1> QED BY <1>1, <1>2, <1>3, <1>4

\* The count reaches the length exactly when the word has been read.
LEMMA CountedFull ==
  ASSUME NEW e \in -1 .. Len(Script), NEW s \in Seq(Chars), Counted(e, s, Script, 0)
  PROVE  e = Len(Script) <=> s = Script
<1>1. Len(Script) \in Nat /\ Script \in Seq(Chars)
  BY ScriptFacts
<1> QED BY <1>1, PrefixFull DEF Counted

\* A character keeps the comparison with a tag's name right.
LEMMA NameStep ==
  ASSUME NEW p \in Parsers, Fits(p), PartsAgree(p), p.cap.tag > Len(Script), NameInv(p),
         NEW c \in Chars
  PROVE  NameInv(CharParse(p, c))
<1> DEFINE e == EnterScript(p)
           s == Switch(e, c)
           q == Machine(p, c)
           r == CharParse(p, c)
           l == Lower[c]
<1>1. /\ e \in Parsers /\ PartsAgree(e) /\ e.eq = p.eq
      /\ s \in Parsers /\ PartsAgree(s) /\ q \in Parsers /\ PartsAgree(q)
      /\ Emptied(q) \in Parsers /\ r = Stored(Emptied(q), c) /\ r \in Parsers
  BY EnterScriptType, EnterScriptKeeps, EnterScriptAgrees, SwitchType, MachineType,
     MachineAgrees, CharParseType
<1>2. /\ q.state = s.state /\ q.part = s.part /\ q = MatchScript(s, c)
      /\ q.tag = p.tag /\ q.cap = p.cap
  BY <1>1, MatchScriptKeeps, MachineType DEF Machine, Buffers
<1>3. r.state = s.state /\ r.part = s.part /\ r.eq = q.eq
  BY <1>1, <1>2, MachineType DEF Control
<1>4. s.state \notin {2, 13} => q.eq = s.eq
  BY <1>2 DEF MatchScript
<1>5. /\ s.state \notin {2, 12, 13} => r.tag = p.tag
      /\ s.state = 12 \/ (s.state = 2 /\ "NAME_BEGINNING" \in s.part) =>
           r.tag = Put(<<>>, l, p.cap.tag)
      /\ s.state = 13 \/ (s.state = 2 /\ "NAME_BEGINNING" \notin s.part) =>
           r.tag = Put(p.tag, l, p.cap.tag)
  BY <1>1, <1>2, TagStored
<1>6. /\ p.tag \in Seq(Chars) /\ p.cap.tag \in Nat /\ Len(p.tag) <= p.cap.tag
      /\ Script \in Seq(Chars) /\ Len(Script) \in Nat \ {0} /\ p.state \in 0 .. 13
      /\ <<>> \in Seq(Chars) /\ Len(<<>>) = 0 /\ p.eq \in -1 .. Len(Script)
      /\ s.state \in 0 .. 13 /\ p.cap.tag > 0 /\ l \in Chars
  <2>1. /\ p.tag \in Seq(Chars) /\ p.cap.tag \in Nat /\ p.state \in 0 .. 13
        /\ p.eq \in -1 .. Len(Script)
    BY DEF Parsers
  <2>2. s.state \in 0 .. 13
    BY <1>1 DEF Parsers
  <2>3. Len(p.tag) <= p.cap.tag
    BY DEF Fits
  <2>4. l \in Chars
    BY LowerType
  <2>5. Script \in Seq(Chars) /\ Len(Script) \in Nat \ {0}
    BY ScriptFacts
  <2>6. p.cap.tag > 0
    BY <2>1, <2>5
  <2>7. <<>> \in Seq(Chars) /\ Len(<<>>) = 0
    OBVIOUS
  <2> QED BY <2>1, <2>2, <2>3, <2>4, <2>5, <2>6, <2>7
<1>7. IF p.state = 0 /\ p.eq = Len(Script) THEN e.state = 10 ELSE e = p
  BY DEF EnterScript, Parsers
<1>m. Moves(e, s, c)
  BY <1>1, SwitchMoves
<1> HIDE DEF e, s, q, r, l
<1>8. CASE e.state = 10 \/ e.state = 11
  <2>1. s.state \in {10, 11, 12}
    BY <1>6, <1>m, <1>8 DEF Moves
  <2>2. s.state = 12 => c = "/"
    BY <1>6, <1>m, <1>8 DEF Moves
  <2>3. s.state = 12 => r.tag # <<>> /\ r.tag[1] = "/"
    <3>1. c = "/" => l = "/"
      BY LowerAssumption, AlphabetAssumption DEF l, Chars
    <3>2. Put(<<>>, l, p.cap.tag) = <<l>>
      BY <1>6 DEF Put
    <3> QED BY <1>5, <2>2, <3>1, <3>2
  <2> QED BY <1>3, <2>1, <2>3 DEF NameInv, r
<1>9. CASE p.state = 0 /\ e = p /\ p.eq # Len(Script)
  <2>1. s.state \in {0, 1} /\ s.eq = p.eq
    BY <1>6, <1>m, <1>9 DEF Moves
  <2>2. p.tag # Script
    BY <1>9 DEF NameInv
  <2> QED BY <1>3, <1>4, <1>5, <1>9, <2>1, <2>2 DEF NameInv, r
<1>10. CASE p.state = 1 /\ e = p
  <2>1. s.state \in {0, 1, 2, 9} /\ s.eq = 0 /\ (s.state = 2 => "NAME_BEGINNING" \in s.part)
    BY <1>6, <1>m, <1>10 DEF Moves
  <2>2. p.tag # Script
    BY <1>10 DEF NameInv
  <2>3. s.state = 2 => Counted(r.eq, r.tag, Script, 0)
    <3>1. Counted(0, <<>>, Script, 0)
      BY <1>6, PrefixEmpty DEF Counted
    <3>2. Len(<<>>) <= p.cap.tag /\ 0 \in Nat /\ Counted(s.eq, <<>>, Script, 0)
      BY <1>6, <2>1, <3>1
    <3>3. s.state = 2 => Counted(MatchScript(s, c).eq, Put(<<>>, Lower[c], p.cap.tag), Script, 0)
      <4>1. SUFFICES ASSUME s.state \in {2, 13}
                     PROVE  Counted(MatchScript(s, c).eq, Put(<<>>, Lower[c], p.cap.tag), Script, 0)
        OBVIOUS
      <4> QED BY <1>1, <1>6, <3>2, <4>1, ScriptFacts, MatchScriptCounts
    <3> QED BY <1>2, <1>3, <1>5, <2>1, <3>3 DEF l
  <2> QED BY SMTT(30), <1>3, <1>4, <1>5, <1>6, <2>1, <2>2, <2>3 DEF NameInv, r
<1>11. CASE p.state = 2 /\ e = p
  <2>1. s.state \in {0, 2, 3} /\ s.eq = p.eq /\ (s.state = 2 => "NAME_BEGINNING" \notin s.part)
        /\ (s.state = 0 => "TAG_END" \in s.part)
    BY <1>6, <1>m, <1>11 DEF Moves
  <2>2. Counted(p.eq, p.tag, Script, 0)
    BY <1>11 DEF NameInv
  <2>3. s.state = 2 => Counted(r.eq, r.tag, Script, 0)
    <3>1. s.state = 2 => Counted(q.eq, Put(p.tag, l, p.cap.tag), Script, 0)
      BY <1>1, <1>2, <1>6, <2>1, <2>2, ScriptFacts, MatchScriptCounts DEF l
    <3> QED BY <1>3, <1>5, <2>1, <3>1
  <2>4. p.eq = Len(Script) <=> p.tag = Script
    BY <1>6, <2>2, CountedFull
  <2> QED BY <1>3, <1>4, <1>5, <2>1, <2>3, <2>4 DEF NameInv, r
<1>12. CASE p.state \in 3 .. 8 /\ e = p
  <2>1. s.state \in {0} \cup 3 .. 8 /\ s.eq = p.eq /\ (s.state = 0 => "TAG_END" \in s.part)
    BY <1>6, <1>m, <1>12 DEF Moves
  <2>2. p.eq = Len(Script) <=> p.tag = Script
    BY <1>12 DEF NameInv
  <2> QED BY <1>3, <1>4, <1>5, <2>1, <2>2 DEF NameInv, r
<1>13. CASE p.state = 9 /\ e = p
  <2>1. s.state \in {0, 9} /\ s.eq = p.eq
    BY <1>6, <1>m, <1>13 DEF Moves
  <2>2. p.tag # Script /\ p.eq # Len(Script)
    BY <1>13 DEF NameInv
  <2> QED BY <1>3, <1>4, <1>5, <2>1, <2>2 DEF NameInv, r
<1>14. CASE p.state \in {12, 13} /\ e = p
  <2>1. s.state \in {0, 3, 11, 13} /\ (s.state \in {0, 3} => s.eq = 0)
    BY <1>6, <1>m, <1>14 DEF Moves
  <2>2. p.tag # <<>> /\ p.tag[1] = "/" /\ p.tag # Script
    BY <1>6, <1>14, ScriptFacts DEF NameInv
  <2>3. s.state = 13 => r.tag # <<>> /\ r.tag[1] = "/"
    <3>1. Append(p.tag, l) # <<>> /\ Append(p.tag, l)[1] = "/"
      BY <1>6, <2>2
    <3> QED BY <1>5, <2>2, <3>1 DEF Put
  <2> QED BY SMTT(30), <1>3, <1>4, <1>5, <1>6, <2>1, <2>2, <2>3 DEF NameInv, r
<1> QED BY <1>6, <1>7, <1>8, <1>9, <1>10, <1>11, <1>12, <1>13, <1>14 DEF r

\* The buffers keep their places and sizes.
LEMMA CharParseCap ==
  ASSUME NEW p \in Parsers, Fits(p), NEW c \in Chars
  PROVE  CharParse(p, c).cap = p.cap
BY MachineType DEF Control, Buffers

\* A script begins after a tag exactly when its stored name is "script".
THEOREM ScriptIsNamed == HspSpec => []ScriptNamed
<1> DEFINE Inv == hsp.cap.tag > Len(Script) => NameInv(hsp)
<1>1. \A caps \in CapRecords : NameInv([Reset EXCEPT !.cap = caps]) /\ NameInv(Reset)
  <2>1. Len(Script) # 0 /\ Script # <<>>
    BY ScriptFacts, ScriptAssumption
  <2> QED BY <2>1 DEF NameInv, Reset
<1>2. HspInit => Inv
  BY <1>1, CapsAssumption DEF HspInit
<1>3. ASSUME Inv, HspTypeOK, PartsOfState, [HspNext]_<<hsp, since>>
      PROVE  Inv'
  <2>1. CASE Prepare
    BY <1>1, <2>1, CapsAssumption DEF Prepare
  <2>2. ASSUME NEW c \in Chars, Feed(c)
        PROVE  Inv'
    <3>1. hsp \in Parsers /\ Fits(hsp) /\ PartsAgree(hsp)
      BY <1>3 DEF HspTypeOK, Fits, PartsOfState
    <3>2. hsp'.cap = hsp.cap
      BY <2>2, <3>1, CharParseCap DEF Feed
    <3>3. hsp.cap.tag > Len(Script) => NameInv(hsp')
      BY <1>3, <2>2, <3>1, NameStep DEF Feed
    <3> QED BY <3>2, <3>3
  <2>3. CASE UNCHANGED <<hsp, since>>
    BY <1>3, <2>3 DEF NameInv
  <2> QED BY <1>3, <2>1, <2>2, <2>3 DEF HspNext
<1>4. Inv /\ PartsOfState => ScriptNamed
  BY DEF NameInv, PartsOfState, PartsAgree, ScriptNamed
<1> QED BY <1>2, <1>3, <1>4, ParserTypeCorrect, FlagsAgree, PTL DEF HspSpec

-----------------------------------------------------------------------------
\* The end of a script.

End == <<"<", "/">> \o Script
Most == Len(Script) + 3     \* so much of the history is kept

\* The end of a script, "</script": only the ">" behind it ends it.
LEMMA EndFacts ==
  /\ End \in Seq(Chars) /\ Len(End) = Len(Script) + 2 /\ Ends(End, 2)
  /\ End[1] = "<" /\ End[2] = "/" /\ \A j \in 1 .. Len(End) : End[j] # ">"
  /\ Most \in Nat /\ Most > Len(End)
<1>1. Script \in Seq(Chars) /\ Len(Script) \in Nat
  BY ScriptFacts
<1>2. <<"<", "/">> \in Seq(Chars) /\ Len(<<"<", "/">>) = 2
  BY DEF Chars
<1>3. /\ End \in Seq(Chars) /\ Len(End) = Len(Script) + 2
      /\ \A j \in 1 .. Len(End) :
           End[j] = IF j <= 2 THEN <<"<", "/">>[j] ELSE Script[j - 2]
  BY <1>1, <1>2, ConcatProperties DEF End
<1>4. End[1] = "<" /\ End[2] = "/"
  BY <1>1, <1>3
<1>5. \A j \in 1 .. Len(Script) : End[j + 2] = Script[j]
  <2>1. ASSUME NEW j \in 1 .. Len(Script)
        PROVE  End[j + 2] = Script[j]
    <3>1. j + 2 \in 1 .. Len(End) /\ ~ (j + 2 <= 2) /\ (j + 2) - 2 = j
      BY <1>1, <1>3
    <3> QED BY <1>3, <3>1
  <2> QED BY <2>1
<1>6. ASSUME NEW j \in 1 .. Len(End)
      PROVE  End[j] # ">"
  <2>1. CASE j \in {1, 2}
    BY <1>4, <2>1
  <2>2. CASE j \in 3 .. Len(Script) + 2
    <3>1. j - 2 \in 1 .. Len(Script) /\ (j - 2) + 2 = j
      BY <1>1, <2>2
    <3>2. End[j] = Script[j - 2]
      BY <1>5, <3>1
    <3> QED BY <3>1, <3>2, ScriptFacts
  <2> QED BY <1>1, <1>3, <2>1, <2>2
<1> QED BY <1>1, <1>3, <1>4, <1>5, <1>6 DEF Ends, Most

\* The history is a buffer of that size, which "<" empties.
LEMMA SincePut ==
  ASSUME NEW h, NEW c
  PROVE  SinceNext(h, c) = IF c = "<" THEN <<c>> ELSE Put(h, Lower[c], Most)
BY DEF SinceNext, Put, Most

\* What state and counter know of the characters since the last "<", once the
\* parser is in a script.
SinceInv(p, s) ==
  /\ p.state = 11 => s = <<"<">>
  /\ p.state = 12 => s = <<"<", "/">> /\ p.eq = 0
  /\ p.state = 13 => Counted(p.eq, s, End, 2)
  /\ p.state = 10 \/ (p.state = 0 /\ p.eq = Len(Script)) => ~ PrefixOf(s, End)
  /\ Len(s) <= Most

\* Where a character takes the machine, the check for a script included.
LEMMA MachineMoves ==
  ASSUME NEW p \in Parsers, Fits(p), PartsAgree(p), NEW c \in Chars
  PROVE  \E e, s \in Parsers :
           /\ IF p.state = 0 /\ p.eq = Len(Script) THEN e.state = 10 ELSE e = p
           /\ Moves(e, s, c)
           /\ CharParse(p, c).state = s.state
           /\ CharParse(p, c).eq = MatchScript(s, c).eq
           /\ s.state \notin {2, 13} => CharParse(p, c).eq = s.eq
<1> DEFINE e == EnterScript(p)
           s == Switch(e, c)
<1>1. e \in Parsers /\ PartsAgree(e) /\ s \in Parsers
  BY EnterScriptType, EnterScriptAgrees, SwitchType
<1>2. IF p.state = 0 /\ p.eq = Len(Script) THEN e.state = 10 ELSE e = p
  BY DEF EnterScript, Parsers
<1>3. Moves(e, s, c)
  BY <1>1, SwitchMoves
<1>4. CharParse(p, c).state = Machine(p, c).state /\ CharParse(p, c).eq = Machine(p, c).eq
  BY MachineType DEF Control
<1>5. Machine(p, c).state = s.state /\ Machine(p, c) = MatchScript(s, c)
  BY <1>1, MatchScriptKeeps DEF Machine
<1>6. s.state \notin {2, 13} => MatchScript(s, c).eq = s.eq
  BY DEF MatchScript
<1> QED BY <1>1, <1>2, <1>3, <1>4, <1>5, <1>6

\* A character keeps the comparison inside a script right.
LEMMA SinceStep ==
  ASSUME NEW p \in Parsers, Fits(p), PartsAgree(p), NEW h \in Seq(Chars), SinceInv(p, h),
         NEW c \in Chars
  PROVE  SinceInv(CharParse(p, c), SinceNext(h, c))
<1> DEFINE r == CharParse(p, c)
           t == SinceNext(h, c)
           l == Lower[c]
<1>1. PICK e \in Parsers, s \in Parsers :
        /\ IF p.state = 0 /\ p.eq = Len(Script) THEN e.state = 10 ELSE e = p
        /\ Moves(e, s, c)
        /\ r.state = s.state
        /\ r.eq = MatchScript(s, c).eq
        /\ s.state \notin {2, 13} => r.eq = s.eq
  BY MachineMoves
<1>2. /\ p.state \in 0 .. 13 /\ Len(Script) \in Nat \ {0} /\ p.eq \in -1 .. Len(Script)
      /\ Len(h) \in Nat /\ Len(h) <= Most /\ s.state \in 0 .. 13 /\ e.state \in 0 .. 13
  <2>1. p.state \in 0 .. 13 /\ p.eq \in -1 .. Len(Script) /\ s.state \in 0 .. 13 /\ e.state \in 0 .. 13
    BY DEF Parsers
  <2>2. Len(h) <= Most
    BY DEF SinceInv
  <2> QED BY <2>1, <2>2, ScriptFacts
<1>3. l \in Chars /\ (c \in {"<", ">", "/"} => l = c) /\ (l = "/" => c = "/")
  <2>1. c \in Letters => l \in Letters
    BY LowerAssumption
  <2>2. c \notin Letters => l = c
    BY LowerAssumption
  <2>3. "<" \notin Letters /\ ">" \notin Letters /\ "/" \notin Letters
    BY AlphabetAssumption
  <2> QED BY <2>1, <2>2, <2>3, LowerType
<1>4. t = IF c = "<" THEN <<c>> ELSE Put(h, l, Most)
  BY SincePut
<1>5. Len(t) <= Most
  <2>1. Len(<<c>>) = 1 /\ 1 <= Most
    BY <1>2 DEF Most
  <2>2. Len(Put(h, l, Most)) <= Most
    BY <1>2, <1>3, PutType, EndFacts
  <2> QED BY <1>4, <2>1, <2>2
<1>6. /\ PrefixOf(Put(h, l, Most), End) <=>
           PrefixOf(h, End) /\ Len(h) < Len(End) /\ End[Len(h) + 1] = l
  BY <1>2, <1>3, EndFacts, PrefixPut
<1>7. c = ">" => ~ PrefixOf(t, End)
  <2>1. Len(h) < Len(End) => Len(h) + 1 \in 1 .. Len(End)
    BY <1>2, EndFacts
  <2> QED BY <1>3, <1>4, <1>6, <2>1, EndFacts
<1> HIDE DEF r, t, l
<1>8. CASE e.state = 10
  <2>1. ~ PrefixOf(h, End)
    BY <1>1, <1>8 DEF SinceInv
  <2>2. r.state = IF c = "<" THEN 11 ELSE 10
    BY <1>1, <1>8 DEF Moves
  <2> QED BY <1>4, <1>5, <1>6, <2>1, <2>2 DEF SinceInv, r, t
<1>9. CASE p.state = 0 /\ e = p /\ p.eq # Len(Script)
  <2>1. r.state \in {0, 1} /\ r.eq = p.eq
    BY <1>1, <1>9 DEF Moves
  <2> QED BY <1>5, <1>9, <2>1 DEF SinceInv, r, t
<1>10. CASE p.state = 1 /\ e = p
  <2>1. s.state \in {0, 1, 2, 9} /\ s.eq = 0
    BY <1>1, <1>10 DEF Moves
  <2>2. r.state = 0 => r.eq # Len(Script)
    BY <1>1, <1>2, <2>1
  <2> QED BY <1>1, <1>5, <2>1, <2>2 DEF SinceInv, r, t
<1>11. CASE p.state \in 2 .. 9 /\ e = p
  <2>1. s.state \in 0 .. 9
    BY <1>1, <1>2, <1>11 DEF Moves
  <2>2. s.state = 0 => c = ">"
    BY <1>1, <1>11 DEF Moves
  <2> QED BY <1>1, <1>5, <1>7, <2>1, <2>2 DEF SinceInv, r, t
<1>12. CASE p.state = 11 /\ e = p
  <2>1. h = <<"<">>
    BY <1>12 DEF SinceInv
  <2>2. s.state = (IF c = "<" THEN 11 ELSE IF c = "/" THEN 12 ELSE 10) /\ (s.state = 12 => s.eq = 0)
    BY <1>1, <1>12 DEF Moves
  <2>3. Len(h) = 1 /\ Len(h) < Most
    BY <1>2, <2>1 DEF Most
  <2>4. c = "/" => t = <<"<", "/">>
    <3>1. Append(<<"<">>, "/") = <<"<", "/">>
      <4> DEFINE a == Append(<<"<">>, "/")
                 b == <<"<", "/">>
      <4>1. a \in Seq({"<", "/"}) /\ Len(a) = 2 /\ a[1] = "<" /\ a[2] = "/"
        OBVIOUS
      <4>2. b \in Seq({"<", "/"}) /\ Len(b) = 2 /\ b[1] = "<" /\ b[2] = "/"
        OBVIOUS
      <4> HIDE DEF a, b
      <4>3. a = b
        BY <4>1, <4>2, SeqEqual
      <4> QED BY <4>3 DEF a, b
    <3> QED BY <1>3, <1>4, <2>1, <2>3, <3>1 DEF Put
  <2>5. c \notin {"<", "/"} => ~ PrefixOf(t, End)
    <3>1. End[Len(h) + 1] = "/"
      BY <2>3, EndFacts
    <3> QED BY <1>3, <1>4, <1>6, <3>1
  <2> QED BY <1>1, <1>4, <1>5, <2>2, <2>4, <2>5 DEF SinceInv, r, t
<1>13. CASE p.state \in {12, 13} /\ e = p
  <2>1. Counted(p.eq, h, End, 2)
    <3>1. CASE p.state = 13
      BY <3>1 DEF SinceInv
    <3>2. CASE p.state = 12
      <4>1. h = <<"<", "/">> /\ p.eq = 0
        BY <3>2 DEF SinceInv
      <4>2. PrefixOf(<<"<", "/">>, End)
        BY <1>2, EndFacts DEF PrefixOf
      <4> QED BY <4>1, <4>2 DEF Counted
    <3> QED BY <1>13, <3>1, <3>2
  <2>2. \/ c = "<" /\ s.state = 11
        \/ s.state \in {0, 3} /\ s.eq = 0
        \/ c # "<" /\ s.state = 13 /\ s.eq = p.eq
    BY <1>1, <1>13 DEF Moves
  <2>3. CASE c = "<" /\ s.state = 11
    BY <1>1, <1>4, <1>5, <2>3 DEF SinceInv, r, t
  <2>4. CASE s.state \in {0, 3} /\ s.eq = 0
    BY <1>1, <1>2, <1>5, <2>4 DEF SinceInv, r, t
  <2>5. CASE c # "<" /\ s.state = 13 /\ s.eq = p.eq
    <3>1. Counted(MatchScript(s, c).eq, Put(h, Lower[c], Most), End, 2)
      BY <1>2, <2>1, <2>5, EndFacts, MatchScriptCounts
    <3>2. Counted(r.eq, t, End, 2)
      BY <1>1, <1>4, <2>5, <3>1 DEF l
    <3> QED BY <1>1, <1>5, <2>5, <3>2 DEF SinceInv, r, t
  <2> QED BY <2>2, <2>3, <2>4, <2>5
<1> QED BY <1>1, <1>2, <1>8, <1>9, <1>10, <1>11, <1>12, <1>13 DEF r, t

\* In a script, a character leaves it exactly when it completes the end tag.
LEMMA ScriptLeft ==
  ASSUME NEW p \in Parsers, Fits(p), PartsAgree(p), NEW h \in Seq(Chars), SinceInv(p, h),
         NEW c \in Chars, InScript(p)
  PROVE  ~ InScript(CharParse(p, c)) <=> h = End /\ Completes(c)
<1>1. PICK s \in Parsers : Moves(p, s, c) /\ CharParse(p, c).state = s.state
  BY MachineMoves DEF InScript
<1>2. /\ p.state \in 10 .. 13 /\ Len(Script) \in Nat \ {0} /\ p.eq \in -1 .. Len(Script)
      /\ Len(End) = Len(Script) + 2 /\ End \in Seq(Chars)
  BY ScriptFacts, EndFacts DEF InScript, Parsers
<1>3. h = End <=> PrefixOf(h, End) /\ Len(h) = Len(End)
  BY <1>2, PrefixFull
<1>4. "<" \notin Spaces
  BY AlphabetAssumption
<1>5. CASE p.state = 10
  BY <1>1, <1>3, <1>5 DEF SinceInv, Moves, InScript
<1>6. CASE p.state = 11
  <2>1. s.state \in {10, 11, 12}
    BY <1>1, <1>6 DEF Moves
  <2>2. Len(h) = 1
    BY <1>6 DEF SinceInv
  <2> QED BY <1>1, <1>2, <1>3, <2>1, <2>2 DEF InScript
<1>7. CASE p.state \in {12, 13}
  <2>1. h = End <=> p.eq = Len(Script)
    <3>1. CASE p.state = 12
      <4>1. Len(h) = 2 /\ p.eq = 0
        BY <3>1 DEF SinceInv
      <4> QED BY <1>2, <1>3, <4>1
    <3>2. CASE p.state = 13
      <4>1. Counted(p.eq, h, End, 2)
        BY <3>2 DEF SinceInv
      <4> QED BY <1>2, <1>3, <4>1 DEF Counted
    <3> QED BY <1>7, <3>1, <3>2
  <2>2. \/ c = "<" /\ s.state = 11
        \/ s.state \in {0, 3} /\ p.eq = Len(Script) /\ Completes(c)
        \/ s.state = 13 /\ (p.eq = Len(Script) => ~ Completes(c))
    BY <1>1, <1>7 DEF Moves
  <2>3. c = "<" => ~ Completes(c)
    BY <1>4 DEF Completes
  <2> QED BY <1>1, <2>1, <2>2, <2>3 DEF InScript
<1> QED BY <1>2, <1>5, <1>6, <1>7

\* A script ends at its end tag and nowhere else.
THEOREM ScriptEnd == HspSpec => ScriptEnds
<1> DEFINE Inv == SinceInv(hsp, since)
<1>1. \A caps \in CapRecords :
        SinceInv([Reset EXCEPT !.cap = caps], <<>>) /\ SinceInv(Reset, <<>>)
  <2>1. Len(Script) # 0 /\ Len(<<>>) <= Most
    BY ScriptFacts DEF Most
  <2> QED BY <2>1 DEF SinceInv, Reset
<1>2. HspInit => Inv
  BY <1>1, CapsAssumption DEF HspInit
<1>3. ASSUME Inv, HspTypeOK, PartsOfState, [HspNext]_<<hsp, since>>
      PROVE  Inv'
  <2>1. CASE Prepare
    BY <1>1, <2>1, CapsAssumption DEF Prepare
  <2>2. ASSUME NEW c \in Chars, Feed(c)
        PROVE  Inv'
    <3>1. hsp \in Parsers /\ Fits(hsp) /\ PartsAgree(hsp) /\ since \in Seq(Chars)
      BY <1>3 DEF HspTypeOK, Fits, PartsOfState
    <3> QED BY <1>3, <2>2, <3>1, SinceStep DEF Feed
  <2>3. CASE UNCHANGED <<hsp, since>>
    BY <1>3, <2>3
  <2> QED BY <1>3, <2>1, <2>2, <2>3 DEF HspNext
<1>4. ASSUME Inv, HspTypeOK, PartsOfState, NEW c \in Chars, Feed(c), InScript(hsp)
      PROVE  ~ InScript(hsp)' <=> since = End /\ Completes(c)
  <2>1. hsp \in Parsers /\ Fits(hsp) /\ PartsAgree(hsp) /\ since \in Seq(Chars)
    BY <1>4 DEF HspTypeOK, Fits, PartsOfState
  <2>2. ~ InScript(CharParse(hsp, c)) <=> since = End /\ Completes(c)
    BY <1>4, <2>1, ScriptLeft
  <2> QED BY <1>4, <2>2 DEF Feed, InScript
<1> DEFINE Exact == \A c \in Chars : Feed(c) /\ InScript(hsp) =>
                      (~ InScript(hsp') <=> since = End /\ Completes(c))
<1>5. Inv /\ HspTypeOK /\ PartsOfState => Exact
  BY <1>4 DEF InScript
<1>6. Exact <=> \A c \in Chars : Feed(c) /\ InScript(hsp) =>
                  (~ InScript(hsp') <=> since = <<"<", "/">> \o Script /\ Completes(c))
  BY DEF End
<1> HIDE DEF Inv, Exact
<1> QED BY <1>2, <1>3, <1>5, <1>6, ParserTypeCorrect, FlagsAgree, PTL DEF HspSpec, ScriptEnds
===============================================================================
