----------------------------- MODULE TestHspProofs -----------------------------
(***************************************************************************)
(* Theorems about the adapter for htmlstreamparser, for every alphabet,    *)
(* every size of the buffers and every test set of every length.           *)
(*                                                                         *)
(* What it counts and what it leaves out follow from an invariant on the   *)
(* places of its two loops.  That a page counts for the same wherever it   *)
(* stands is shown with runs: the loops over a page are a run from one     *)
(* fixed state, each turn of it determined by the state before; the        *)
(* adapter is always in a run over its page, and where two runs over the   *)
(* same characters stop, they stop in the same state.                      *)
(*                                                                         *)
(* That the links are counted is shown along such a run: behind every      *)
(* character of a page with a reading the parser stands (Place) where the  *)
(* token that the character is of says, within a token as well as from one *)
(* to the next, and a value has ended just where the reading says so.      *)
(***************************************************************************)
EXTENDS TestHsp, HtmlStreamParserProofs, RecursionLemmas, FiniteSetTheorems

-----------------------------------------------------------------------------
\* What html_parser_trim and html_parser_replace_spaces make of a text.

\* White space and the null character are characters.
LEMMA SpaceType == " " \in Chars /\ Spaces \subseteq Chars /\ "NUL" \in Chars
BY TestAssumption DEF Chars

\* The characters after k of them have been taken over, as an equation.
Taken(s, k, f) ==
  IF k = 0 THEN <<>>
  ELSE LET before == f[k - 1]
       IN IF s[k] \notin Spaces THEN Append(before, s[k])
          ELSE IF before # <<>> /\ Last(before) = " " THEN before ELSE Append(before, " ")

\* html_parser_replace_spaces makes characters of characters.
LEMMA ReplaceSpacesType ==
  ASSUME NEW s \in Seq(Chars)
  PROVE  ReplaceSpaces(s) \in Seq(Chars)
<1> DEFINE D == 0 .. Len(s)
           V == Seq(Chars)
           R == {p \in D \X D : p[1] < p[2]}
           H == [k \in D |-> [f \in [D -> V] |-> Taken(s, k, f)]]
           P(d) == d = [k \in D |-> Taken(s, k, d)]
           done == CHOOSE d : P(d)
<1>0. Len(s) \in Nat /\ <<>> \in V
  OBVIOUS
<1>1. ASSUME NEW k \in D, NEW f, k # 0 => f[k - 1] \in V
      PROVE  Taken(s, k, f) \in V
  <2>1. CASE k = 0
    BY <2>1 DEF Taken
  <2>2. CASE k # 0
    <3>1. s[k] \in Chars
      BY <2>2
    <3>2. \A b \in V : \A c \in Chars : Append(b, c) \in V
      OBVIOUS
    <3>3. Append(f[k - 1], s[k]) \in V /\ Append(f[k - 1], " ") \in V
      BY <1>1, <2>2, <3>1, <3>2, SpaceType
    <3> QED BY <1>1, <2>2, <3>3 DEF Taken
  <2> QED BY <2>1, <2>2
<1>2. H \in [D -> [[D -> V] -> V]]
  <2>1. ASSUME NEW k \in D, NEW f \in [D -> V] PROVE Taken(s, k, f) \in V
    <3>1. k # 0 => k - 1 \in D
      OBVIOUS
    <3> QED BY <1>1, <3>1
  <2> QED BY <2>1
<1>3. \A k \in D : \A f \in [D -> V] : H[k][f] = Taken(s, k, f)
  OBVIOUS
<1>4. \A j, k \in D : <<j, k>> \in R <=> j < k
  OBVIOUS
<1>5. ReplaceSpaces(s) = done[Len(s)]
  BY DEF ReplaceSpaces, Taken
<1> HIDE DEF R, H, P, done
<1>6. Founded(R, D)
  <2> SUFFICES ASSUME NEW T \in SUBSET D, T # {} PROVE \E k \in T : \A j \in T : <<j, k>> \notin R
    BY DEF Founded
  <2>1. \A k \in T : k \in Nat
    BY <1>0
  <2>2. PICK k \in T : \A j \in T : k <= j
    BY <2>1, Least
  <2>3. \A j \in T : j \in D /\ j \in Nat
    BY <2>1
  <2> QED BY <1>4, <2>2, <2>3
<1>7. Follows(H, R, D, V)
  <2> SUFFICES ASSUME NEW k \in D, NEW f \in [D -> V], NEW g \in [D -> V],
                      \A j \in D : <<j, k>> \in R => f[j] = g[j]
               PROVE  H[k][f] = H[k][g]
    BY DEF Follows
  <2>1. CASE k = 0
    BY <1>3, <2>1 DEF Taken
  <2>2. CASE k # 0
    <3>1. k - 1 \in D /\ <<k - 1, k>> \in R
      BY <1>4, <2>2
    <3>2. f[k - 1] = g[k - 1]
      BY <3>1
    <3> QED BY <1>3, <3>2 DEF Taken
  <2> QED BY <2>1, <2>2
<1>8. PICK f \in [D -> V] : Solves(f, H, D)
  BY <1>0, <1>2, <1>6, <1>7, RecursionExists
<1>9. P(f)
  <2>1. \A k \in D : f[k] = Taken(s, k, f)
    BY <1>3, <1>8 DEF Solves
  <2> QED BY <2>1 DEF P
<1>10. done = [k \in D |-> Taken(s, k, done)]
  <2>1. P(done)
    BY <1>9 DEF done
  <2> QED BY <2>1 DEF P
<1> DEFINE S == {k \in Nat : k \in D => done[k] \in V}
<1>11. 0 \in S
  BY <1>1, <1>10
<1>12. \A k \in Nat : k \in S => k + 1 \in S
  <2> SUFFICES ASSUME NEW k \in Nat, k \in S, k + 1 \in D PROVE done[k + 1] \in V
    OBVIOUS
  <2>1. k \in D /\ done[k] \in V
    OBVIOUS
  <2>2. Taken(s, k + 1, done) \in V
    BY <1>1, <2>1
  <2> QED BY <1>10, <2>2
<1> HIDE DEF S
<1>13. Len(s) \in S
  BY <1>0, <1>11, <1>12, NatSetInduction
<1> QED BY <1>0, <1>5, <1>13 DEF S

-----------------------------------------------------------------------------
\* The bounds of what is visible.
LEMMA VisibleBounds ==
  ASSUME NEW s \in Seq(Chars), Visible(s) # {}
  PROVE  /\ Min(Visible(s)) \in 1 .. Len(s) /\ Max(Visible(s)) \in 1 .. Len(s)
         /\ Min(Visible(s)) <= Max(Visible(s))
<1>1. \A j \in Visible(s) : j \in Nat /\ j <= Len(s) /\ j \in 1 .. Len(s)
  BY DEF Visible
<1>2. Len(s) \in Nat
  OBVIOUS
<1>3. \E j \in Visible(s) : \A k \in Visible(s) : j <= k
  BY <1>1, Least
<1>4. \E j \in Visible(s) : \A k \in Visible(s) : k <= j
  BY <1>1, <1>2, Greatest
<1>5. Min(Visible(s)) \in Visible(s) /\ \A k \in Visible(s) : Min(Visible(s)) <= k
  BY <1>3 DEF Min
<1>6. Max(Visible(s)) \in Visible(s)
  BY <1>4 DEF Max
<1> QED BY <1>1, <1>5, <1>6

\* The text of an element has characters.
LEMMA TextOfType ==
  ASSUME NEW s \in Seq(Chars)
  PROVE  TextOf(s) \in Seq(Chars)
<1>1. Trim(s) \in Seq(Chars)
  <2>1. CASE Visible(s) = {}
    BY <2>1 DEF Trim
  <2>2. CASE Visible(s) # {}
    <3>1. SubSeq(s, Min(Visible(s)), Max(Visible(s))) \in Seq(Chars)
      BY <2>2, VisibleBounds
    <3> QED BY <2>2, <3>1 DEF Trim
  <2> QED BY <2>1, <2>2
<1> QED BY <1>1, ReplaceSpacesType DEF TextOf

\* A text that is worked on in its buffer keeps its length.
LEMMA InPlaceType ==
  ASSUME NEW s \in Seq(Chars)
  PROVE  InPlace(s) \in Seq(Chars) /\ Len(InPlace(s)) = Len(s)
<1>1. CASE Visible(s) = {}
  BY <1>1 DEF InPlace
<1>2. CASE Visible(s) # {}
  <2> DEFINE lead == Min(Visible(s)) - 1
             t == TextOf(s)
             done == [j \in DOMAIN s |-> IF j \in lead + 1 .. lead + Len(t) THEN t[j - lead] ELSE s[j]]
  <2>1. lead \in Nat /\ t \in Seq(Chars) /\ Len(t) \in Nat
    BY <1>2, VisibleBounds, TextOfType
  <2>2. InPlace(s) = done
    BY <1>2 DEF InPlace
  <2> HIDE DEF lead, t
  <2>3. ASSUME NEW j \in DOMAIN s PROVE done[j] \in Chars
    <3>1. j \in lead + 1 .. lead + Len(t) => j - lead \in 1 .. Len(t)
      BY <2>1
    <3> QED BY <2>1, <3>1
  <2>4. done \in [1 .. Len(s) -> Chars]
    BY <2>3
  <2> HIDE DEF done
  <2>5. done \in Seq(Chars) /\ Len(done) = Len(s)
    BY <2>4, Len(s) \in Nat
  <2> QED BY <2>2, <2>5
<1> QED BY <1>1, <1>2

\* So does one that is cut off by a null character.
LEMMA CutOffType ==
  ASSUME NEW s \in Seq(Chars)
  PROVE  CutOff(s) \in Seq(Chars) /\ Len(CutOff(s)) = Len(s)
<1>1. InPlace(s) \in Seq(Chars) /\ Len(InPlace(s)) = Len(s)
  BY InPlaceType
<1>2. ASSUME NEW b \in Seq(Chars), NEW m
      PROVE  [b EXCEPT ![m] = "NUL"] \in Seq(Chars) /\ Len([b EXCEPT ![m] = "NUL"]) = Len(b)
  <2>1. b \in [1 .. Len(b) -> Chars] /\ Len(b) \in Nat
    OBVIOUS
  <2> DEFINE d == [b EXCEPT ![m] = "NUL"]
  <2>2. d \in [1 .. Len(b) -> Chars]
    BY <2>1, SpaceType
  <2> HIDE DEF d
  <2>3. d \in Seq(Chars) /\ Len(d) = Len(b)
    BY <2>1, <2>2
  <2> QED BY <2>3 DEF d
<1> QED BY <1>1, <1>2 DEF CutOff

\* Working in the buffer leaves a parser whose buffers fit.
LEMMA WorkedType ==
  ASSUME NEW p \in Parsers, Fits(p)
  PROVE  /\ Worked(p) \in Parsers /\ Fits(Worked(p))
         /\ Worked(p).state = p.state /\ Worked(p).part = p.part /\ Worked(p).eq = p.eq
         /\ Worked(p).tag = p.tag /\ Worked(p).attr = p.attr /\ Worked(p).cap = p.cap
<1> DEFINE b == IF TitleEnded(p) THEN CutOff(p.inner) ELSE IF TextEnded(p) THEN InPlace(p.inner) ELSE p.inner
<1>1. p.inner \in Seq(Chars)
  BY DEF Parsers
<1>2. b \in Seq(Chars) /\ Len(b) = Len(p.inner)
  BY <1>1, CutOffType, InPlaceType
<1>3. Worked(p) = [p EXCEPT !.inner = b]
  BY DEF Worked
<1> HIDE DEF b
<1> QED BY <1>2, <1>3 DEF Parsers, Fits

-----------------------------------------------------------------------------
\* A tag has just ended only at a ">".
LEMMA SwitchTagEnd ==
  ASSUME NEW p \in Parsers, PartsAgree(p), NEW c \in Chars, "TAG_END" \in Switch(p, c).part
  PROVE  c = ">"
<1> USE DEF PartsAgree
<1>1. p.state \in 0 .. 13 /\ p.part \in SUBSET Parts
  BY DEF Parsers
<1>2. \A s, off, on : Go(p, s, off, on).part = (p.part \ off) \cup on
  BY DEF Go, Parsers
<1>a. \A s, off, on, e : /\ Count(Go(p, s, off, on), e).part = (p.part \ off) \cup on
                         /\ Go(Count(p, e), s, off, on).part = (p.part \ off) \cup on
  BY DEF Go, Count, Parsers
<1>b. \A s, off, on, t, off2, on2 :
        Go(Go(p, s, off, on), t, off2, on2).part = (((p.part \ off) \cup on) \ off2) \cup on2
  BY DEF Go, Parsers
<1>3. CASE p.state = 0
  BY <1>1, <1>2, <1>3, SwitchCases DEF InText, Parts
<1>4. CASE p.state = 1
  BY <1>a, <1>4, SwitchCases DEF TagBeginning
<1>5. CASE p.state = 2
  BY <1>2, <1>5, SwitchCases DEF TagName
<1>6. CASE p.state = 3
  BY <1>2, <1>6, SwitchCases DEF TagSpace
<1>7. CASE p.state = 4
  BY <1>2, <1>7, SwitchCases DEF AttributeName
<1>8. CASE p.state = 5
  BY <1>2, <1>8, SwitchCases DEF BeforeValue
<1>9. CASE p.state = 6
  BY <1>2, <1>b, <1>9, SwitchCases DEF DoubleQuoted
<1>10. CASE p.state = 7
  BY <1>2, <1>10, SwitchCases DEF SingleQuoted
<1>11. CASE p.state = 8
  BY <1>2, <1>11, SwitchCases DEF Unquoted
<1>12. CASE p.state = 9
  BY <1>2, <1>12, SwitchCases DEF InComment
<1>13. CASE p.state = 10
  BY <1>2, <1>13, SwitchCases DEF SearchScriptEnd
<1>14. CASE p.state = 11
  BY <1>2, <1>a, <1>14, SwitchCases DEF ScriptLess
<1>15. CASE p.state \in {12, 13}
  <2>1. /\ "TAG_END" \notin Go(p, 11, {}, {}).part /\ "TAG_END" \notin Go(p, 13, {}, {}).part
        /\ "TAG_END" \notin ScriptEnded(p, 3).part
    BY <1>2, <1>a, <1>15 DEF ScriptEnded
  <2> QED BY <1>15, <2>1, ScriptEndCases
<1> QED BY <1>1, <1>3, <1>4, <1>5, <1>6, <1>7, <1>8, <1>9, <1>10, <1>11, <1>12, <1>13, <1>14, <1>15

\* A tag ends only at a ">": the loop for images cannot end elsewhere.
LEMMA TagEnd ==
  ASSUME NEW p \in Parsers, Fits(p), PartsAgree(p), NEW c \in Chars, IsIn(CharParse(p, c), "TAG_END")
  PROVE  c = ">"
<1> DEFINE s == Switch(EnterScript(p), c)
<1>1. EnterScript(p) \in Parsers /\ PartsAgree(EnterScript(p))
  BY EnterScriptType, EnterScriptAgrees
<1>2. s \in Parsers
  BY <1>1, SwitchType
<1>3. "TAG_END" \in MatchScript(s, c).part
  BY MachineType DEF IsIn, Control, Machine
<1>4. "TAG_END" \in s.part
  BY <1>2, <1>3, MatchScriptKeeps
<1> QED BY <1>1, <1>4, SwitchTagEnd

-----------------------------------------------------------------------------
\* Where the two loops are in the page, and what they have left out.
Missed == {j \in 0 .. Length - 1 : j < i /\ j \notin fed}
Position ==
  /\ set \in TestSets
  /\ pc \in {"call", "done"} => i = 0 /\ fed = {} /\ images = 0 /\ img = NoImg
  /\ pc = "for" => \A j \in fed : j < i
  /\ pc = "img" => /\ i < Length /\ i \in fed /\ \A j \in fed : j <= i
                   /\ IsIn(hsp, "TAG_END") => At(i) = ">"
Left ==
  /\ Cardinality(Missed) <= images /\ (i < Length => Cardinality(Missed) = images)
  /\ \A j \in Missed : j = Length - 1 \/ At(j - 1) = ">"
ParserOK == HspTypeOK /\ PartsOfState
TestInv == ParserOK /\ TestTypeOK /\ Position /\ Left

\* The page of the call, and the characters in it.
LEMMA PageType ==
  ASSUME TestTypeOK, Position
  PROVE  /\ Page \in Seq(Chars) /\ Length \in Nat
         /\ \A j \in 0 .. Length - 1 : At(j) \in Chars
<1>1. set \in Seq(Pages) /\ n \in DOMAIN set
  BY TestAssumption DEF TestTypeOK, Position
<1>2. set[n] \in Pages
  BY <1>1
<1>3. Page \in Seq(Chars)
  BY <1>2 DEF Page, Pages
<1> QED BY <1>3 DEF Length, At

\* What a turn of a loop makes of the parser.
LEMMA ParserTurn ==
  ASSUME ParserOK, NEW c \in Chars
  PROVE  /\ CharParse(hsp, c) \in Parsers /\ Fits(CharParse(hsp, c)) /\ PartsAgree(CharParse(hsp, c))
         /\ IsIn(CharParse(hsp, c), "TAG_END") => c = ">"
         /\ SinceNext(since, c) \in Seq(Chars)
<1>1. hsp \in Parsers /\ Fits(hsp) /\ PartsAgree(hsp) /\ since \in Seq(Chars)
  BY DEF ParserOK, HspTypeOK, PartsOfState, Fits
<1> QED BY <1>1, CharParseType, CharParseAgrees, TagEnd, SinceType

\* What a turn of the loops counts is added to numbers.
LEMMA CountingType ==
  ASSUME NEW p \in Parsers, NEW m,
         NEW counts \in [href : Nat, src : Nat, alt : Nat, text : Nat]
  PROVE  /\ Counting(counts, p) \in [href : Nat, src : Nat, alt : Nat, text : Nat]
         /\ CountingImg(counts, m, p) \in [href : Nat, src : Nat, alt : Nat, text : Nat]
         /\ Len(TextOf(Text(p))) \in Nat
<1>1. Text(p) \in Seq(Chars)
  BY DEF Text, Parsers
<1>2. Len(TextOf(Text(p))) \in Nat
  BY <1>1, TextOfType
<1>3. Counting(counts, p) \in [href : Nat, src : Nat, alt : Nat, text : Nat]
  <2>1. PICK h \in Nat, t \in Nat : Counting(counts, p) = [counts EXCEPT !.href = h, !.text = t]
    <3> DEFINE h == IF LinkEnded(p) THEN counts.href + 1 ELSE counts.href
               t == IF TextEnded(p) THEN counts.text + Len(TextOf(Text(p))) ELSE counts.text
    <3>1. Counting(counts, p) = [counts EXCEPT !.href = h, !.text = t]
      BY DEF Counting
    <3>2. h \in Nat /\ t \in Nat
      BY <1>2
    <3> QED BY <3>1, <3>2
  <2> QED BY <2>1
<1>4. CountingImg(counts, m, p) \in [href : Nat, src : Nat, alt : Nat, text : Nat]
  <2>1. PICK h \in Nat, t \in Nat : CountingImg(counts, m, p) = [counts EXCEPT !.src = h, !.alt = t]
    <3> DEFINE h == IF Ended(p, Src) /\ ~ m.src THEN counts.src + 1 ELSE counts.src
               t == IF Ended(p, Alt) /\ ~ m.alt THEN counts.alt + 1 ELSE counts.alt
    <3>1. CountingImg(counts, m, p) = [counts EXCEPT !.src = h, !.alt = t]
      BY DEF CountingImg
    <3>2. h \in Nat /\ t \in Nat
      OBVIOUS
    <3> QED BY <3>1, <3>2
  <2> QED BY <2>1
<1> QED BY <1>2, <1>3, <1>4

\* What is left out stays the same, or grows by one character.
LEMMA LeftSame ==
  ASSUME Left, UNCHANGED <<set, n, images>>, Missed' = Missed, i' < Length' => i < Length
  PROVE  Left'
BY DEF Left, At, Length, Page

\* Every action keeps the invariant.
LEMMA InitTest == TestInit => TestInv
<1> SUFFICES ASSUME TestInit PROVE TestInv
  OBVIOUS
<1>1. ParserOK
  <2>1. HspTypeOK
    <3>1. Reset \in Parsers
      BY ResetType, CapsAssumption
    <3>2. Fits(Reset)
      BY ResetFits, CapsAssumption
    <3>3. <<>> \in Seq(Chars)
      OBVIOUS
    <3> QED BY <3>1, <3>2, <3>3 DEF TestInit, HspInit, HspTypeOK, Fits
  <2>2. PartsOfState
    BY DEF TestInit, HspInit, PartsOfState, PartsAgree, Reset
  <2> QED BY <2>1, <2>2 DEF ParserOK
<1>2. n \in DOMAIN set /\ set \in TestSets
  <2>1. set \in Seq(Pages) /\ set # <<>> /\ n = 1 /\ set \in TestSets
    BY TestAssumption DEF TestInit
  <2> QED BY <2>1
<1>3. Position
  BY <1>2 DEF TestInit, Position
<1>4. TestTypeOK
  <2>1. Page \in Seq(Chars)
    <3>1. set \in Seq(Pages)
      BY <1>2, TestAssumption
    <3>2. set[n] \in Pages
      BY <1>2, <3>1
    <3> QED BY <3>2 DEF Page, Pages
  <2>2. Length \in Nat
    BY <2>1 DEF Length
  <2> QED BY <1>2, <2>2 DEF TestInit, TestTypeOK, Zero, NoImg
<1>5. Left
  <2>1. Missed = {}
    BY <1>4 DEF TestInit, Missed
  <2> QED BY <2>1, FS_EmptySet DEF TestInit, Left
<1> QED BY <1>1, <1>3, <1>4, <1>5 DEF TestInv

\* test_hsp begins with a page (test_hsp.c:49-69).
LEMMA CallStep == ASSUME TestInv, Call PROVE TestInv'
<1> USE DEF TestInv
<1>1. ParserOK'
  <2>1. hsp' \in Parsers /\ Fits(hsp') /\ since' \in Seq(Chars)
    BY ResetType, ResetFits, CapsAssumption DEF Call, Prepare
  <2>2. PartsAgree(hsp')
    BY DEF Call, Prepare, PartsAgree, Reset
  <2> QED BY <2>1, <2>2 DEF ParserOK, HspTypeOK, Fits, PartsOfState
<1>2. TestTypeOK' /\ Position'
  BY DEF Call, TestTypeOK, Position, Length, Page
<1>3. Missed' = Missed /\ i' = i /\ Length' = Length
  BY DEF Call, Missed, Length, Page
<1>4. Left'
  BY <1>3, LeftSame DEF Call
<1> QED BY <1>1, <1>2, <1>4

\* A turn of the outer loop (test_hsp.c:69-136).
LEMMA CharacterStep == ASSUME TestInv, Character PROVE TestInv'
<1> USE DEF TestInv
<1> DEFINE p == CharParse(hsp, At(i))
<1>0. i \in 0 .. Length - 1 /\ At(i) \in Chars /\ Length \in Nat /\ i \in Nat
      /\ Page' = Page /\ Length' = Length
  BY PageType DEF Character, TestTypeOK, Page, Length
<1>1. p \in Parsers /\ Fits(p) /\ PartsAgree(p) /\ since' \in Seq(Chars)
  BY <1>0, ParserTurn DEF Character
<1>2. hsp' = Worked(p) /\ result' = Counting(result, p)
  BY DEF Character
<1> HIDE DEF p
<1>3. ParserOK'
  BY <1>1, <1>2, WorkedType DEF ParserOK, HspTypeOK, Fits, PartsOfState, PartsAgree
<1>4. TestTypeOK'
  <2>1. result' \in [href : Nat, src : Nat, alt : Nat, text : Nat]
    BY <1>1, <1>2, CountingType DEF TestTypeOK
  <2> QED BY <1>0, <2>1 DEF Character, TestTypeOK
<1>5. Position'
  <2>1. \A j \in fed : j \in Nat /\ j < i
    BY DEF Character, Position, TestTypeOK
  <2>2. \A j \in fed' : j < i'
    BY <1>0, <2>1 DEF Character
  <2> QED BY <2>2 DEF Character, Position
<1>6. Missed' = Missed
  BY <1>0 DEF Missed, Character
<1>7. Left'
  BY <1>0, <1>6, LeftSame DEF Character
<1> QED BY <1>3, <1>4, <1>5, <1>7

\* An image begins (test_hsp.c:82-83): the index stays where it was fed.
LEMMA ImageStep == ASSUME TestInv, Image PROVE TestInv'
<1> USE DEF TestInv
<1>0. i \in 0 .. Length - 1 /\ At(i) \in Chars /\ Length \in Nat /\ i \in Nat
      /\ Page' = Page /\ Length' = Length
  BY PageType DEF Image, TestTypeOK, Page, Length
<1>1. hsp' \in Parsers /\ Fits(hsp') /\ PartsAgree(hsp') /\ since' \in Seq(Chars)
      /\ (IsIn(hsp', "TAG_END") => At(i) = ">")
  BY <1>0, ParserTurn DEF Image, Feed
<1>2. ParserOK'
  BY <1>1 DEF ParserOK, HspTypeOK, Fits, PartsOfState
<1>3. TestTypeOK'
  BY <1>0 DEF Image, TestTypeOK, NoImg
<1>4. Position'
  <2>1. \A j \in fed : j \in Nat /\ j < i
    BY DEF Image, Position, TestTypeOK
  <2>2. i \in fed' /\ \A j \in fed' : j <= i
    BY <1>0, <2>1 DEF Image
  <2>3. IsIn(hsp', "TAG_END") => At(i)' = ">"
    BY <1>0, <1>1 DEF Image, At
  <2> QED BY <1>0, <2>2, <2>3 DEF Image, Position
<1>5. Missed' = Missed
  BY <1>0 DEF Missed, Image
<1>6. Left'
  BY <1>0, <1>5, LeftSame DEF Image
<1> QED BY <1>2, <1>3, <1>4, <1>6

\* A turn of the loop for images (test_hsp.c:86-106).
LEMMA ImageCharacterStep == ASSUME TestInv, ImageCharacter PROVE TestInv'
<1> USE DEF TestInv
<1> DEFINE p == CharParse(hsp, At(i + 1))
<1>0. i + 1 \in 0 .. Length - 1 /\ At(i + 1) \in Chars /\ Length \in Nat /\ i \in Nat
      /\ Page' = Page /\ Length' = Length
  BY PageType DEF ImageCharacter, InImage, TestTypeOK, Page, Length
<1>1. /\ p \in Parsers /\ Fits(p) /\ PartsAgree(p) /\ since' \in Seq(Chars)
      /\ IsIn(p, "TAG_END") => At(i + 1) = ">"
  BY <1>0, ParserTurn DEF ImageCharacter
<1>2. hsp' = p /\ result' = CountingImg(result, img, p) /\ img' = Found(img, p)
  BY DEF ImageCharacter
<1> HIDE DEF p
<1>3. ParserOK'
  BY <1>1, <1>2 DEF ParserOK, HspTypeOK, Fits, PartsOfState
<1>4. TestTypeOK'
  <2>1. result' \in [href : Nat, src : Nat, alt : Nat, text : Nat]
    BY <1>1, <1>2, CountingType DEF TestTypeOK
  <2>2. img' \in [src : BOOLEAN, alt : BOOLEAN]
    BY <1>2 DEF Found, Ended, CmpAttr, IsIn, TestTypeOK
  <2> QED BY <1>0, <2>1, <2>2 DEF ImageCharacter, TestTypeOK
<1>5. Position'
  <2>1. \A j \in fed : j \in Nat /\ j <= i
    BY DEF ImageCharacter, Position, TestTypeOK
  <2>2. i + 1 \in fed' /\ \A j \in fed' : j <= i + 1
    BY <1>0, <2>1 DEF ImageCharacter
  <2>3. IsIn(hsp', "TAG_END") => At(i)' = ">"
    BY <1>0, <1>1, <1>2 DEF ImageCharacter, At
  <2> QED BY <1>0, <2>2, <2>3 DEF ImageCharacter, Position
<1>6. Missed' = Missed
  BY <1>0 DEF Missed, ImageCharacter, Position
<1>7. Left'
  BY <1>0, <1>6, LeftSame DEF ImageCharacter, Position
<1> QED BY <1>3, <1>4, <1>5, <1>7

\* The loop for images ends (test_hsp.c:85-107): the index goes on by two, so
\* one character more is missed.
LEMMA ImageEndStep == ASSUME TestInv, ImageEnd PROVE TestInv'
<1> USE DEF TestInv
<1>0. /\ i \in Nat /\ i < Length /\ Length \in Nat /\ images \in Nat
      /\ Page' = Page /\ Length' = Length /\ i' = i + 2 /\ images' = images + 1 /\ fed' = fed
      /\ \A j : At(j)' = At(j)
      /\ (i + 1 < Length - 1 => At(i) = ">")
      /\ i \in fed /\ \A j \in fed : j <= i
  BY PageType DEF ImageEnd, InImage, TestTypeOK, Position, Page, Length, At
<1>1. ParserOK'
  BY DEF ImageEnd, ParserOK, HspTypeOK, PartsOfState
<1>2. TestTypeOK'
  BY <1>0 DEF ImageEnd, TestTypeOK
<1>3. Position'
  <2>1. \A j \in fed : j \in Nat /\ j < i + 2
    BY <1>0 DEF TestTypeOK
  <2> QED BY <1>0, <2>1 DEF ImageEnd, Position
<1>4. IsFiniteSet(Missed)
  <2>1. Missed \subseteq 0 .. Length - 1
    BY DEF Missed
  <2>2. IsFiniteSet(0 .. Length - 1)
    BY <1>0, FS_Interval
  <2> QED BY <2>1, <2>2, FS_Subset
<1>5. Cardinality(Missed) \in Nat /\ Cardinality(Missed) = images
  BY <1>0, <1>4, FS_CardinalityType DEF Left
<1>6. CASE i + 1 < Length
  <2>1. Missed' = Missed \cup {i + 1} /\ i + 1 \notin Missed
    BY <1>0, <1>6 DEF Missed, TestTypeOK
  <2>2. Cardinality(Missed') = images + 1
    BY <1>4, <1>5, <2>1, FS_AddElement
  <2>3. i + 1 = Length - 1 \/ At(i) = ">"
    BY <1>0, <1>6
  <2>4. \A j \in Missed' : j = Length - 1 \/ At(j - 1) = ">"
    BY <1>0, <2>1, <2>3 DEF Left
  <2> QED BY <1>0, <1>2, <1>3, <1>1, <2>2, <2>4 DEF Left
<1>7. CASE i + 1 >= Length
  <2>1. Missed' = Missed
    BY <1>0, <1>7 DEF Missed, TestTypeOK
  <2>2. \A j \in Missed' : j = Length - 1 \/ At(j - 1) = ">"
    BY <2>1 DEF Left
  <2> QED BY <1>0, <1>1, <1>2, <1>3, <1>5, <1>7, <2>1, <2>2 DEF Left
<1> QED BY <1>0, <1>6, <1>7

\* test_hsp is done with a page (test_hsp.c:136-142).
LEMMA ReturnStep == ASSUME TestInv, Return PROVE TestInv'
<1> USE DEF TestInv
<1>0. /\ set \in Seq(Pages) /\ set' = set /\ n \in 1 .. Len(set) /\ n' \in DOMAIN set'
      /\ i' = 0 /\ fed' = {} /\ images' = 0 /\ img' = NoImg /\ pc' \in {"call", "done"}
  <2>1. set \in Seq(Pages)
    BY TestAssumption DEF Position
  <2>2. n \in 1 .. Len(set) /\ Len(set) \in Nat
    BY <2>1 DEF TestTypeOK
  <2> QED BY <2>1, <2>2 DEF Return
<1>1. ParserOK'
  BY DEF Return, ParserOK, HspTypeOK, PartsOfState
<1>2. Position'
  BY <1>0 DEF Return, Position
<1>3. Length' \in Nat
  <2>1. set'[n'] \in Pages
    BY <1>0
  <2>2. Page' \in Seq(Chars)
    BY <2>1 DEF Page, Pages
  <2> QED BY <2>2 DEF Length
<1>4. TestTypeOK'
  <2>1. i' \in 0 .. Length' + 1
    <3>1. \A l \in Nat : 0 \in 0 .. l + 1
      OBVIOUS
    <3> QED BY <1>0, <1>3, <3>1
  <2>2. pc' \in {"call", "for", "img", "done"}
    BY <1>0
  <2>3. result' = result
    BY DEF Return
  <2> QED BY <1>0, <2>1, <2>2, <2>3 DEF TestTypeOK, NoImg
<1>5. Left'
  <2>1. Missed' = {}
    BY <1>0, <1>3 DEF Missed
  <2> QED BY <1>0, <2>1, FS_EmptySet DEF Left
<1> QED BY <1>1, <1>2, <1>4, <1>5

\* A step of nobody.
LEMMA StutterTest == ASSUME TestInv, UNCHANGED tvars PROVE TestInv'
BY DEF tvars, TestInv, ParserOK, HspTypeOK, PartsOfState, TestTypeOK, Position, Left, Missed, Length, Page, At

\* The two loops stay inside the page and keep an account of what they fed to
\* the parser, whatever the pages are (test_hsp.c:65-133).
THEOREM AdapterInvariant == TestSpec => []TestInv
<1>1. TestInit => TestInv
  BY InitTest
<1>2. TestInv /\ [TestNext]_tvars => TestInv'
  BY CallStep, CharacterStep, ImageStep, ImageCharacterStep, ImageEndStep, ReturnStep, StutterTest
     DEF TestNext
<1> QED BY <1>1, <1>2, PTL DEF TestSpec

\* The index never runs further than one character past the page, and what is
\* fed to the parser is in the page (test_hsp.c:65, 85).
THEOREM AdapterTypeCorrect == TestSpec => []TestTypeOK
<1>1. TestInv => TestTypeOK
  BY DEF TestInv
<1> QED BY <1>1, AdapterInvariant, PTL

\* The parser is never given the character after an image, in whatever way the
\* image ends, and is given every other one (test_hsp.c:65, 85).
THEOREM AdapterMisses == TestSpec => []MissedAfterImages
<1>1. TestInv => MissedAfterImages
  BY DEF TestInv, Left, Missed, MissedAfterImages
<1> QED BY <1>1, AdapterInvariant, PTL

-----------------------------------------------------------------------------
\* The two loops over a page P as a run: where they start, where they stop and
\* what a turn makes of their state, which has no part of the pages before.
Start == [pc |-> "for", i |-> 0, p |-> [Reset EXCEPT !.cap = Caps], img |-> NoImg, add |-> Zero]
Stop(P, q) == q.pc = "for" /\ q.i >= Len(P)
Turn(P, q) ==
  IF q.pc = "for"
  THEN LET p == CharParse(q.p, P[q.i + 1])
       IN IF CmpTag(p, TagImg)
          THEN [pc |-> "img", i |-> q.i, p |-> p, img |-> NoImg, add |-> q.add]
          ELSE [pc |-> "for", i |-> q.i + 1, p |-> Worked(p), img |-> q.img, add |-> Counting(q.add, p)]
  ELSE IF q.i + 1 < Len(P) - 1 /\ ~ IsIn(q.p, "TAG_END")
       THEN LET p == CharParse(q.p, P[q.i + 2])
            IN [pc |-> "img", i |-> q.i + 1, p |-> p, img |-> Found(q.img, p),
                add |-> CountingImg(q.add, q.img, p)]
       ELSE [pc |-> "for", i |-> q.i + 2, p |-> q.p, img |-> q.img, add |-> q.add]
Run(P, m, run) ==
  m \in Nat /\ run[0] = Start /\ \A k \in Nat : k < m => ~ Stop(P, run[k]) /\ run[k + 1] = Turn(P, run[k])
Reached(P, q) == \E m, run : Run(P, m, run) /\ run[m] = q

\* The beginning of a run is reached.
LEMMA StartReached == ASSUME NEW P PROVE Reached(P, Start)
<1>1. Run(P, 0, [k \in Nat |-> Start]) /\ [k \in Nat |-> Start][0] = Start
  BY DEF Run
<1> QED BY <1>1 DEF Reached

\* With a state that does not stop, the next one is reached.
LEMMA TurnReached ==
  ASSUME NEW P, NEW q, Reached(P, q), ~ Stop(P, q)
  PROVE  Reached(P, Turn(P, q))
<1>1. PICK m, run : Run(P, m, run) /\ run[m] = q
  BY DEF Reached
<1> DEFINE on == [k \in Nat |-> IF k <= m THEN run[k] ELSE Turn(P, q)]
<1>2. m \in Nat
  BY <1>1 DEF Run
<1>3. on[m + 1] = Turn(P, q) /\ \A k \in Nat : k <= m => on[k] = run[k]
  BY <1>2
<1> HIDE DEF on
<1>4. ASSUME NEW k \in Nat, k < m + 1
      PROVE  ~ Stop(P, on[k]) /\ on[k + 1] = Turn(P, on[k])
  <2>1. CASE k = m
    BY <1>1, <1>3, <2>1
  <2>2. CASE k < m
    <3>1. ~ Stop(P, run[k]) /\ run[k + 1] = Turn(P, run[k])
      BY <1>1, <2>2 DEF Run
    <3>2. on[k] = run[k] /\ on[k + 1] = run[k + 1]
      BY <1>2, <1>3, <2>2
    <3> QED BY <3>1, <3>2
  <2> QED BY <1>2, <1>4, <2>1, <2>2
<1>5. on[0] = Start
  BY <1>1, <1>2, <1>3 DEF Run
<1>6. Run(P, m + 1, on)
  BY <1>2, <1>4, <1>5 DEF Run
<1> QED BY <1>3, <1>6 DEF Reached

\* Two runs agree as far as both go.
LEMMA RunsAgree ==
  ASSUME NEW P, NEW m, NEW run, Run(P, m, run), NEW l, NEW other, Run(P, l, other)
  PROVE  \A k \in Nat : k <= m /\ k <= l => run[k] = other[k]
<1> DEFINE S == {k \in Nat : k <= m /\ k <= l => run[k] = other[k]}
<1>0. m \in Nat /\ l \in Nat
  BY DEF Run
<1>1. 0 \in S
  BY DEF Run
<1>2. \A k \in Nat : k \in S => k + 1 \in S
  <2> SUFFICES ASSUME NEW k \in Nat, k \in S, k + 1 <= m, k + 1 <= l PROVE run[k + 1] = other[k + 1]
    OBVIOUS
  <2>1. k < m /\ k < l /\ k <= m /\ k <= l
    BY <1>0
  <2>2. run[k] = other[k]
    BY <2>1
  <2>3. run[k + 1] = Turn(P, run[k]) /\ other[k + 1] = Turn(P, other[k])
    BY <2>1 DEF Run
  <2> QED BY <2>2, <2>3
<1> HIDE DEF S
<1>3. Nat \subseteq S
  BY <1>1, <1>2, NatSetInduction
<1> QED BY <1>3 DEF S

\* The loops stop in one state.
LEMMA StopUnique ==
  ASSUME NEW P, NEW q, NEW u, Reached(P, q), Stop(P, q), Reached(P, u), Stop(P, u)
  PROVE  q = u
<1>1. PICK m, run : Run(P, m, run) /\ run[m] = q
  BY DEF Reached
<1>2. PICK l, other : Run(P, l, other) /\ other[l] = u
  BY DEF Reached
<1>3. m \in Nat /\ l \in Nat
  BY <1>1, <1>2 DEF Run
<1>4. \A k \in Nat : k <= m /\ k <= l => run[k] = other[k]
  BY <1>1, <1>2, RunsAgree
<1>5. CASE m < l
  <2>1. other[m] = q
    BY <1>1, <1>3, <1>4, <1>5
  <2>2. ~ Stop(P, other[m])
    BY <1>2, <1>3, <1>5 DEF Run
  <2> QED BY <2>1, <2>2
<1>6. CASE l < m
  <2>1. run[l] = u
    BY <1>2, <1>3, <1>4, <1>6
  <2>2. ~ Stop(P, run[l])
    BY <1>1, <1>3, <1>6 DEF Run
  <2> QED BY <2>1, <2>2
<1>7. CASE m = l
  BY <1>1, <1>2, <1>3, <1>4, <1>7
<1> QED BY <1>3, <1>5, <1>6, <1>7

-----------------------------------------------------------------------------
\* What the counts were when this page began, and what it has added so far.
Counts == [href : Nat, src : Nat, alt : Nat, text : Nat]
Fields == {"href", "src", "alt", "text"}
Before == IF counted = <<>> THEN Zero ELSE counted[Len(counted)]
Less(counts, b) == [f \in Fields |-> counts[f] - b[f]]
Here == [pc |-> pc, i |-> i, p |-> hsp, img |-> img, add |-> Less(result, Before)]

History ==
  /\ counted \in Seq(Counts) /\ Len(counted) = IF pc = "done" THEN n ELSE n - 1
  /\ pc \in {"call", "done"} => result = Before
Alone ==
  /\ pc \in {"for", "img"} => Reached(Page, Here)
  /\ \A k \in 1 .. Len(counted) :
       \E q : Reached(set[k].text, q) /\ Stop(set[k].text, q) /\ q.add = Added(k)

\* The counts before the first page.
LEMMA ZeroFields == DOMAIN Zero = Fields /\ Zero \in Counts /\ \A f \in Fields : Zero[f] = 0
BY DEF Zero, Fields, Counts

\* The result before a page is one of numbers.
LEMMA BeforeType == ASSUME History PROVE Before \in Counts
<1>1. CASE counted = <<>>
  BY <1>1, ZeroFields DEF Before
<1>2. CASE counted # <<>>
  <2>1. Len(counted) \in DOMAIN counted
    BY <1>2 DEF History
  <2> QED BY <1>2, <2>1 DEF Before, History
<1> QED BY <1>1, <1>2

\* Counting is adding: it may be done to the sum or to what is added to it.
LEMMA CountingAdds ==
  ASSUME NEW counts \in Counts, NEW b \in Counts, NEW p \in Parsers, NEW m
  PROVE  /\ Less(Counting(counts, p), b) = Counting(Less(counts, b), p)
         /\ Less(CountingImg(counts, m, p), b) = CountingImg(Less(counts, b), m, p)
<1>1. Len(TextOf(Text(p))) \in Nat
  BY CountingType DEF Counts
<1> DEFINE d == Less(counts, b)
           c == Counting(counts, p)
           e == CountingImg(counts, m, p)
<1>2. \A f \in Fields : counts[f] \in Nat /\ b[f] \in Nat
  BY DEF Counts, Fields
<1>3. /\ DOMAIN d = Fields /\ \A f \in Fields : d[f] = counts[f] - b[f]
      /\ DOMAIN counts = Fields
  BY DEF Less, Counts, Fields
<1>4. /\ DOMAIN c = Fields /\ c["src"] = counts["src"] /\ c["alt"] = counts["alt"]
      /\ c["href"] = (IF LinkEnded(p) THEN counts["href"] + 1 ELSE counts["href"])
      /\ c["text"] = (IF TextEnded(p) THEN counts["text"] + Len(TextOf(Text(p))) ELSE counts["text"])
  BY <1>3 DEF Counting, Fields
<1>5. /\ DOMAIN Counting(d, p) = Fields
      /\ Counting(d, p)["src"] = d["src"] /\ Counting(d, p)["alt"] = d["alt"]
      /\ Counting(d, p)["href"] = (IF LinkEnded(p) THEN d["href"] + 1 ELSE d["href"])
      /\ Counting(d, p)["text"] = (IF TextEnded(p) THEN d["text"] + Len(TextOf(Text(p))) ELSE d["text"])
  <2> HIDE DEF d
  <2> QED BY <1>3 DEF Counting, Fields
<1>6. /\ DOMAIN e = Fields /\ e["href"] = counts["href"] /\ e["text"] = counts["text"]
      /\ e["src"] = (IF Ended(p, Src) /\ ~ m.src THEN counts["src"] + 1 ELSE counts["src"])
      /\ e["alt"] = (IF Ended(p, Alt) /\ ~ m.alt THEN counts["alt"] + 1 ELSE counts["alt"])
  BY <1>3 DEF CountingImg, Fields
<1>7. /\ DOMAIN CountingImg(d, m, p) = Fields
      /\ CountingImg(d, m, p)["href"] = d["href"] /\ CountingImg(d, m, p)["text"] = d["text"]
      /\ CountingImg(d, m, p)["src"] = (IF Ended(p, Src) /\ ~ m.src THEN d["src"] + 1 ELSE d["src"])
      /\ CountingImg(d, m, p)["alt"] = (IF Ended(p, Alt) /\ ~ m.alt THEN d["alt"] + 1 ELSE d["alt"])
  <2> HIDE DEF d
  <2> QED BY <1>3 DEF CountingImg, Fields
<1> HIDE DEF c, e, d
<1>8. \A f \in Fields : Counting(d, p)[f] = c[f] - b[f]
  <2>1. Counting(d, p)["text"] = c["text"] - b["text"]
    <3>1. /\ d["text"] = counts["text"] - b["text"] /\ counts["text"] \in Nat /\ b["text"] \in Nat
      BY <1>2, <1>3 DEF Fields
    <3>2. \A x, y, z \in Nat : (x - y) + z = (x + z) - y
      OBVIOUS
    <3>3. CASE TextEnded(p)
      BY <1>1, <1>4, <1>5, <3>1, <3>2, <3>3
    <3>4. CASE ~ TextEnded(p)
      BY <1>4, <1>5, <3>1, <3>4
    <3> QED BY <3>3, <3>4
  <2>2. Counting(d, p)["href"] = c["href"] - b["href"]
    <3>1. /\ d["href"] = counts["href"] - b["href"] /\ counts["href"] \in Nat /\ b["href"] \in Nat
      BY <1>2, <1>3 DEF Fields
    <3>2. \A x, y \in Nat : (x - y) + 1 = (x + 1) - y
      OBVIOUS
    <3>3. CASE LinkEnded(p)
      BY <1>4, <1>5, <3>1, <3>2, <3>3
    <3>4. CASE ~ LinkEnded(p)
      BY <1>4, <1>5, <3>1, <3>4
    <3> QED BY <3>3, <3>4
  <2>3. Counting(d, p)["src"] = c["src"] - b["src"] /\ Counting(d, p)["alt"] = c["alt"] - b["alt"]
    BY <1>3, <1>4, <1>5 DEF Fields
  <2> QED BY <2>1, <2>2, <2>3 DEF Fields
<1>9. \A f \in Fields : CountingImg(d, m, p)[f] = e[f] - b[f]
  BY <1>2, <1>3, <1>6, <1>7 DEF Fields
<1>10. Counting(d, p) = [f \in Fields |-> Counting(d, p)[f]]
  BY <1>5 DEF Counting
<1>11. CountingImg(d, m, p) = [f \in Fields |-> CountingImg(d, m, p)[f]]
  BY <1>7 DEF CountingImg
<1>12. Less(c, b) = Counting(d, p)
  BY <1>8, <1>10 DEF Less
<1>13. Less(e, b) = CountingImg(d, m, p)
  BY <1>9, <1>11 DEF Less
<1> QED BY <1>12, <1>13 DEF c, d, e

\* A turn of the loops is a turn of the run.
LEMMA TurnOfRun ==
  ASSUME TestInv, History, Character \/ Image \/ ImageCharacter \/ ImageEnd
  PROVE  Here' = Turn(Page, Here) /\ ~ Stop(Page, Here)
<1>1. result \in Counts /\ Before \in Counts /\ Before' = Before /\ i \in Nat
  BY BeforeType DEF TestInv, TestTypeOK, Counts, Before, Character, Image, ImageCharacter, ImageEnd
<1>2. /\ Here.pc = pc /\ Here.i = i /\ Here.p = hsp /\ Here.img = img /\ Here.add = Less(result, Before)
  BY DEF Here
<1>3. ~ Stop(Page, Here)
  <2>1. pc = "img" \/ i < Length
    BY DEF Character, Image, ImageCharacter, ImageEnd
  <2>2. Length \in Nat
    BY PageType DEF TestInv
  <2> QED BY <1>1, <1>2, <2>1, <2>2 DEF Stop, Length
<1>4. CASE Character
  <2> DEFINE p == CharParse(hsp, Page[i + 1])
  <2>1. /\ pc = "for" /\ pc' = "for" /\ i' = i + 1 /\ hsp' = Worked(p) /\ img' = img
        /\ result' = Counting(result, p) /\ ~ CmpTag(p, TagImg)
    BY <1>4 DEF Character, At
  <2>2. p \in Parsers
    <3>1. i \in 0 .. Length - 1
      BY <1>4, <1>1, PageType DEF Character, TestInv
    <3> QED BY <3>1, PageType, ParserTurn DEF TestInv, At
  <2>3. Less(result', Before) = Counting(Less(result, Before), p)
    BY <1>1, <2>1, <2>2, CountingAdds
  <2>4. Turn(Page, Here) = [pc |-> "for", i |-> i + 1, p |-> Worked(p), img |-> img,
                            add |-> Counting(Less(result, Before), p)]
    BY <1>2, <2>1 DEF Turn
  <2> QED BY <1>1, <1>3, <2>1, <2>3, <2>4 DEF Here
<1>5. CASE Image
  <2> DEFINE p == CharParse(hsp, Page[i + 1])
  <2>1. /\ pc = "for" /\ pc' = "img" /\ i' = i /\ hsp' = p /\ img' = NoImg
        /\ result' = result /\ CmpTag(p, TagImg)
    BY <1>5 DEF Image, Feed, At
  <2>2. Turn(Page, Here) = [pc |-> "img", i |-> i, p |-> p, img |-> NoImg, add |-> Less(result, Before)]
    BY <1>2, <2>1 DEF Turn
  <2> QED BY <1>1, <1>3, <2>1, <2>2 DEF Here
<1>6. CASE ImageCharacter
  <2> DEFINE p == CharParse(hsp, Page[i + 2])
  <2>1. (i + 1) + 1 = i + 2
    BY <1>1
  <2>2. /\ pc = "img" /\ pc' = "img" /\ i' = i + 1 /\ hsp' = p /\ img' = Found(img, p)
        /\ result' = CountingImg(result, img, p) /\ i + 1 < Len(Page) - 1 /\ ~ IsIn(hsp, "TAG_END")
    BY <1>6, <2>1 DEF ImageCharacter, InImage, At, Length
  <2>3. p \in Parsers
    <3>1. i + 1 \in 0 .. Length - 1 /\ At(i + 1) = Page[i + 2]
      BY <1>1, <2>1, <2>2, PageType DEF TestInv, Length, At
    <3> QED BY <3>1, PageType, ParserTurn DEF TestInv
  <2>4. Less(result', Before) = CountingImg(Less(result, Before), img, p)
    BY <1>1, <2>2, <2>3, CountingAdds
  <2>5. Turn(Page, Here) = [pc |-> "img", i |-> i + 1, p |-> p, img |-> Found(img, p),
                            add |-> CountingImg(Less(result, Before), img, p)]
    BY <1>2, <2>2 DEF Turn
  <2> QED BY <1>1, <1>3, <2>2, <2>4, <2>5 DEF Here
<1>7. CASE ImageEnd
  <2>1. /\ pc = "img" /\ pc' = "for" /\ i' = i + 2 /\ hsp' = hsp /\ img' = img /\ result' = result
        /\ ~ (i + 1 < Len(Page) - 1 /\ ~ IsIn(hsp, "TAG_END"))
    BY <1>7 DEF ImageEnd, InImage, Length
  <2>2. Turn(Page, Here) = [pc |-> "for", i |-> i + 2, p |-> hsp, img |-> img, add |-> Less(result, Before)]
    BY <1>2, <2>1 DEF Turn
  <2> QED BY <1>1, <1>3, <2>1, <2>2 DEF Here
<1> QED BY <1>4, <1>5, <1>6, <1>7

\* A turn of the loops stays in the run over the page.
LEMMA AloneTurn ==
  ASSUME TestInv, History, Alone, Character \/ Image \/ ImageCharacter \/ ImageEnd
  PROVE  History' /\ Alone'
<1>1. /\ counted' = counted /\ set' = set /\ n' = n /\ pc \in {"for", "img"} /\ pc' \in {"for", "img"}
      /\ Page' = Page
  BY DEF Character, Image, ImageCharacter, ImageEnd, Page
<1>2. Reached(Page, Here')
  BY <1>1, TurnOfRun, TurnReached DEF Alone
<1>3. \A k : Added(k)' = Added(k)
  BY <1>1 DEF Added
<1> QED BY <1>1, <1>2, <1>3 DEF History, Alone

\* A call begins the run over its page.
LEMMA AloneCall ==
  ASSUME TestInv, History, Alone, Call
  PROVE  History' /\ Alone'
<1>1. /\ counted' = counted /\ set' = set /\ n' = n /\ pc = "call" /\ pc' = "for" /\ Page' = Page
      /\ i' = 0 /\ img' = NoImg /\ hsp' = [Reset EXCEPT !.cap = Caps] /\ result' = result
  BY DEF Call, Prepare, Page, TestInv, Position
<1>2. Less(result', Before') = Zero
  <2>1. result' = Before' /\ Before' \in Counts
    BY <1>1, BeforeType DEF History, Before
  <2>2. \A f \in Fields : Before'[f] - Before'[f] = 0
    BY <2>1 DEF Counts, Fields
  <2>3. Less(Before', Before') = [f \in Fields |-> 0]
    BY <2>2 DEF Less
  <2>4. Zero = [f \in Fields |-> 0]
    BY DEF Zero, Fields
  <2> QED BY <2>1, <2>3, <2>4
<1>3. Here' = Start
  BY <1>1, <1>2 DEF Here, Start
<1>4. \A k : Added(k)' = Added(k)
  BY <1>1 DEF Added
<1> QED BY <1>1, <1>3, <1>4, StartReached DEF History, Alone

\* At the end of a page the run has stopped: what the page adds is determined.
LEMMA AloneReturn ==
  ASSUME TestInv, History, Alone, Return
  PROVE  History' /\ Alone'
<1>0. PICK l \in Nat : l = Len(counted)
  BY DEF History
<1>1. /\ counted \in Seq(Counts) /\ result \in Counts /\ pc = "for" /\ l = n - 1 /\ n \in Nat
      /\ set' = set /\ counted' = Append(counted, result) /\ result' = result
      /\ pc' = (IF n < Len(set) THEN "call" ELSE "done") /\ n' = (IF n < Len(set) THEN n + 1 ELSE n)
  <2>1. set \in Seq(Pages)
    BY TestAssumption DEF TestInv, Position
  <2>2. n \in Nat
    BY <2>1 DEF TestInv, TestTypeOK
  <2> QED BY <1>0, <2>2 DEF Return, History, TestInv, TestTypeOK, Counts
<1>2. /\ counted' \in Seq(Counts) /\ Len(counted') = l + 1 /\ counted'[l + 1] = result
      /\ \A k \in 1 .. l : counted'[k] = counted[k]
  <2>1. /\ counted \in Seq(Counts) /\ result \in Counts
        /\ counted' = Append(counted, result) /\ l = Len(counted)
    BY <1>0, <1>1
  <2>2. /\ Append(counted, result) \in Seq(Counts)
        /\ Len(Append(counted, result)) = Len(counted) + 1
        /\ Append(counted, result)[Len(counted) + 1] = result
        /\ \A k \in 1 .. Len(counted) : Append(counted, result)[k] = counted[k]
    BY <2>1, AppendProperties
  <2> QED BY <2>1, <2>2, Zenon
<1>3. History'
  <2>1. counted' # <<>> /\ Before' = result
    BY <1>1, <1>2 DEF Before
  <2> QED BY <1>1, <1>2, <2>1 DEF History
<1>4. \A k \in 1 .. l : Added(k)' = Added(k)
  <2>1. ASSUME NEW k \in 1 .. l PROVE Added(k)' = Added(k)
    <3>1. counted'[k] = counted[k] /\ (k # 1 => counted'[k - 1] = counted[k - 1])
      <4>1. k # 1 => k - 1 \in 1 .. l
        BY <1>1
      <4> QED BY <1>2, <4>1
    <3> QED BY <3>1 DEF Added
  <2> QED BY <2>1
<1>5. Added(l + 1)' = Here.add
  <2>0. Added(l + 1)' = [f \in Fields |-> result[f] - (IF l + 1 = 1 THEN 0 ELSE counted'[(l + 1) - 1][f])]
    BY <1>2, ZeroFields DEF Added
  <2>1. Here.add = [f \in Fields |-> result[f] - Before[f]]
    BY DEF Here, Less
  <2>2. CASE l = 0
    <3>1. counted = <<>> /\ Before = Zero
      BY <1>0, <1>1, <2>2, EmptySeq DEF Before
    <3>2. \A f \in Fields : Before[f] = 0
      BY <3>1, ZeroFields
    <3> QED BY <2>0, <2>1, <2>2, <3>2
  <2>3. CASE l # 0
    <3>1. Before = counted[l] /\ counted'[l] = counted[l] /\ l + 1 # 1 /\ (l + 1) - 1 = l
      BY <1>0, <1>1, <1>2, <2>3 DEF Before
    <3> QED BY <2>0, <2>1, <3>1
  <2> QED BY <2>2, <2>3
<1>6. Reached(Page, Here) /\ Stop(Page, Here) /\ Page = set[l + 1].text
  <2>1. Here.pc = pc /\ Here.i = i
    BY DEF Here
  <2> QED BY <1>1, <2>1 DEF Alone, Return, Stop, Length, Page
<1>7. Alone'
  <2>1. \A k \in 1 .. l + 1 : k \in 1 .. l \/ k = l + 1
    BY <1>1
  <2>2. ASSUME NEW k \in 1 .. l + 1
        PROVE  \E q : Reached(set'[k].text, q) /\ Stop(set'[k].text, q) /\ q.add = Added(k)'
    <3>1. CASE k \in 1 .. l
      <4>1. PICK q : Reached(set[k].text, q) /\ Stop(set[k].text, q) /\ q.add = Added(k)
        BY <1>0, <3>1 DEF Alone
      <4>2. Added(k)' = Added(k) /\ set' = set
        BY <1>1, <1>4, <3>1
      <4> QED BY <4>1, <4>2
    <3>2. CASE k = l + 1
      <4>1. Reached(set'[k].text, Here) /\ Stop(set'[k].text, Here)
        BY <1>1, <1>6, <3>2
      <4>2. Here.add = Added(k)'
        BY <1>5, <3>2
      <4> QED BY <4>1, <4>2
    <3> QED BY <2>1, <3>1, <3>2
  <2>3. pc' \notin {"for", "img"}
    BY <1>1
  <2> QED BY <1>2, <2>2, <2>3 DEF Alone
<1> QED BY <1>3, <1>7

\* The adapter is always in the run over its page alone, and what a page before
\* it added is what the run over that one adds (test_hsp.c:53).
THEOREM AdapterAlone == TestSpec => [](History /\ Alone)
<1>1. TestInit => History /\ Alone
  <2> SUFFICES ASSUME TestInit PROVE History /\ Alone
    OBVIOUS
  <2>1. counted = <<>> /\ n = 1 /\ pc = "call" /\ result = Zero
    BY DEF TestInit
  <2>2. counted \in Seq(Counts) /\ Len(counted) = 0
    BY <2>1
  <2> QED BY <2>1, <2>2 DEF History, Alone, Before
<1>2. TestInv /\ History /\ Alone /\ [TestNext]_tvars => (History /\ Alone)'
  <2> SUFFICES ASSUME TestInv, History, Alone, [TestNext]_tvars PROVE (History /\ Alone)'
    OBVIOUS
  <2>1. CASE UNCHANGED tvars
    BY <2>1 DEF tvars, History, Alone, Before, Here, Added, Page
  <2> QED BY <2>1, AloneCall, AloneTurn, AloneReturn DEF TestNext
<1> QED BY <1>1, <1>2, AdapterInvariant, PTL DEF TestSpec

\* A page counts for the same whatever was parsed before it with the one
\* parser: test_hsp resets what the pages before it left (test_hsp.c:53).
THEOREM AdapterCountsSame == TestSpec => []SameCounts
<1>1. History /\ Alone => SameCounts
  <2> SUFFICES ASSUME History, Alone, NEW j \in DOMAIN counted, NEW k \in DOMAIN counted,
                      set[j].text = set[k].text
               PROVE  Added(j) = Added(k)
    BY DEF SameCounts
  <2>1. j \in 1 .. Len(counted) /\ k \in 1 .. Len(counted)
    BY DEF History
  <2>2. PICK q : Reached(set[j].text, q) /\ Stop(set[j].text, q) /\ q.add = Added(j)
    BY <2>1 DEF Alone
  <2>3. PICK u : Reached(set[k].text, u) /\ Stop(set[k].text, u) /\ u.add = Added(k)
    BY <2>1 DEF Alone
  <2>4. q = u
    BY <2>2, <2>3, StopUnique
  <2> QED BY <2>2, <2>3, <2>4
<1> QED BY <1>1, AdapterAlone, PTL

-----------------------------------------------------------------------------
\* What the adapter does to the parser: a page begins, or a character is
\* parsed and what it completed is worked on.
LEMMA ParserSteps ==
  ASSUME TestInv, [TestNext]_tvars
  PROVE  \/ Prepare
         \/ UNCHANGED <<hsp, since>>
         \/ \E c \in Chars : /\ since' = SinceNext(since, c)
                             /\ hsp' = CharParse(hsp, c) \/ hsp' = Worked(CharParse(hsp, c))
<1>1. CASE Character \/ Image
  <2>1. i \in 0 .. Length - 1
    BY <1>1, PageType DEF Character, Image, TestInv, TestTypeOK
  <2>2. At(i) \in Chars
    BY <2>1, PageType DEF TestInv
  <2> QED BY <1>1, <2>2 DEF Character, Image, Feed
<1>2. CASE ImageCharacter
  <2>1. i + 1 \in 0 .. Length - 1
    BY <1>2, PageType DEF ImageCharacter, InImage, TestInv, TestTypeOK
  <2>2. At(i + 1) \in Chars
    BY <2>1, PageType DEF TestInv
  <2> QED BY <1>2, <2>2 DEF ImageCharacter
<1>3. CASE Call \/ ImageEnd \/ Return \/ UNCHANGED tvars
  BY <1>3 DEF Call, ImageEnd, Return, tvars
<1> QED BY <1>1, <1>2, <1>3 DEF TestNext

\* The parser of the adapter is one of those the lemmas about it are for.
LEMMA ParserFits ==
  ASSUME TestInv
  PROVE  hsp \in Parsers /\ Fits(hsp) /\ PartsAgree(hsp) /\ since \in Seq(Chars)
BY DEF TestInv, ParserOK, HspTypeOK, Fits, PartsOfState

\* A script begins after a tag exactly when its stored name is "script", also
\* if the adapter works in the buffers meanwhile.
THEOREM AdapterScriptIsNamed == TestSpec => []ScriptNamed
<1> DEFINE Inv == hsp.cap.tag > Len(Script) => NameInv(hsp)
<1>1. \A caps \in CapRecords : NameInv([Reset EXCEPT !.cap = caps]) /\ NameInv(Reset)
  <2>1. Len(Script) # 0 /\ Script # <<>>
    BY ScriptFacts, ScriptAssumption
  <2> QED BY <2>1 DEF NameInv, Reset
<1>2. TestInit => Inv
  BY <1>1, CapsAssumption DEF TestInit, HspInit
<1>3. ASSUME Inv, TestInv, [TestNext]_tvars
      PROVE  Inv'
  <2>1. CASE Prepare
    BY <1>1, <2>1, CapsAssumption DEF Prepare
  <2>2. ASSUME NEW c \in Chars, hsp' = CharParse(hsp, c) \/ hsp' = Worked(CharParse(hsp, c))
        PROVE  Inv'
    <3> DEFINE p == CharParse(hsp, c)
    <3>1. p \in Parsers /\ Fits(p) /\ p.cap = hsp.cap
      BY <1>3, ParserFits, CharParseType, CharParseCap
    <3>2. hsp.cap.tag > Len(Script) => NameInv(p)
      BY <1>3, ParserFits, NameStep
    <3> HIDE DEF p
    <3>3. Worked(p).cap = p.cap /\ (NameInv(p) => NameInv(Worked(p)))
      BY <3>1, WorkedType DEF NameInv
    <3>4. hsp' = p \/ hsp' = Worked(p)
      BY <2>2 DEF p
    <3> QED BY <3>1, <3>2, <3>3, <3>4
  <2>3. CASE UNCHANGED <<hsp, since>>
    BY <1>3, <2>3 DEF NameInv
  <2> QED BY <1>3, <2>1, <2>2, <2>3, ParserSteps
<1>4. Inv /\ TestInv => ScriptNamed
  BY DEF NameInv, TestInv, ParserOK, PartsOfState, PartsAgree, ScriptNamed
<1> QED BY <1>2, <1>3, <1>4, AdapterInvariant, PTL DEF TestSpec

\* A script ends at its end tag and nowhere else, also if the adapter works in
\* the buffers meanwhile.
THEOREM AdapterScriptEnd == TestSpec => ScriptEnds
<1> DEFINE Inv == SinceInv(hsp, since)
<1>1. \A caps \in CapRecords :
        SinceInv([Reset EXCEPT !.cap = caps], <<>>) /\ SinceInv(Reset, <<>>)
  <2>1. Len(Script) # 0 /\ Len(<<>>) <= Most
    BY ScriptFacts DEF Most
  <2> QED BY <2>1 DEF SinceInv, Reset
<1>2. TestInit => Inv
  BY <1>1, CapsAssumption DEF TestInit, HspInit
<1>3. ASSUME Inv, TestInv, [TestNext]_tvars
      PROVE  Inv'
  <2>1. CASE Prepare
    BY <1>1, <2>1, CapsAssumption DEF Prepare
  <2>2. ASSUME NEW c \in Chars, since' = SinceNext(since, c),
               hsp' = CharParse(hsp, c) \/ hsp' = Worked(CharParse(hsp, c))
        PROVE  Inv'
    <3> DEFINE p == CharParse(hsp, c)
    <3>1. p \in Parsers /\ Fits(p) /\ SinceInv(p, since')
      BY <1>3, <2>2, ParserFits, CharParseType, SinceStep
    <3> HIDE DEF p
    <3>2. SinceInv(Worked(p), since')
      BY <3>1, WorkedType DEF SinceInv
    <3> QED BY <2>2, <3>1, <3>2 DEF p
  <2>3. CASE UNCHANGED <<hsp, since>>
    BY <1>3, <2>3
  <2> QED BY <1>3, <2>1, <2>2, <2>3, ParserSteps
<1> DEFINE Exact == \A c \in Chars : Feed(c) /\ InScript(hsp) =>
                      (~ InScript(hsp') <=> since = End /\ Completes(c))
<1>4. Inv /\ TestInv => Exact
  <2> SUFFICES ASSUME Inv, TestInv, NEW c \in Chars, Feed(c), InScript(hsp)
               PROVE  ~ InScript(hsp') <=> since = End /\ Completes(c)
    OBVIOUS
  <2>1. ~ InScript(CharParse(hsp, c)) <=> since = End /\ Completes(c)
    BY ParserFits, ScriptLeft
  <2> QED BY <2>1 DEF Feed
<1>5. Exact <=> \A c \in Chars : Feed(c) /\ InScript(hsp) =>
                  (~ InScript(hsp') <=> since = <<"<", "/">> \o Script /\ Completes(c))
  BY DEF End
<1> HIDE DEF Inv, Exact
<1> QED BY <1>2, <1>3, <1>4, <1>5, AdapterInvariant, PTL DEF TestSpec, ScriptEnds

-----------------------------------------------------------------------------
\* Where a character takes the parser, outside of scripts and at their end,
\* and when a value has ended.
Goes(p, r, c) ==
  /\ p.state = 0 => IF c = "<" THEN r.state = 1 ELSE r.state = 0 /\ "INNER_TEXT" \in r.part
  /\ p.state = 1 => /\ c \in Letters \cup {"/"} => r.state = 2
                    /\ c = "!" => r.state = 9
                    /\ c = ">" => r.state = 0 /\ "TAG_END" \in r.part
  /\ p.state = 2 => r.state = IF c = ">" THEN 0 ELSE IF c \in Spaces THEN 3 ELSE 2
  /\ p.state \in {3, 4} =>
       r.state = IF c = ">" THEN 0 ELSE IF c \in Spaces THEN 3 ELSE IF c = "=" THEN 5 ELSE 4
  /\ p.state = 5 => r.state = IF c = ">" THEN 0 ELSE IF c \in Spaces THEN 5
                              ELSE IF c = "QUOT" THEN 6 ELSE IF c = "'" THEN 7 ELSE 8
  /\ p.state = 6 => r.state = IF c = "QUOT" THEN 3 ELSE 6
  /\ p.state = 7 => r.state = IF c = "'" THEN 3 ELSE 7
  /\ p.state = 8 => r.state = IF c = ">" THEN 0 ELSE IF c \in Spaces THEN 3 ELSE 8
  /\ p.state = 9 => r.state = IF c = ">" THEN 0 ELSE 9
  /\ p.state = 13 /\ p.eq = Len(Script) => /\ c = ">" => r.state = 0 /\ "TAG_END" \in r.part
                                           /\ c \in Spaces => r.state = 3
  /\ p.state \in 2 .. 9 /\ r.state = 0 => "TAG_END" \in r.part
  /\ "VALUE_ENDED" \in r.part <=> p.state \in {6, 7, 8} /\ r.state # p.state
  /\ p.state = 3 /\ r.state = 4 => "ATTRIBUTE_BEGINNING" \in r.part
  /\ p.state = 4 /\ r.state = 4 => "ATTRIBUTE_BEGINNING" \notin r.part

\* The switch goes there.
LEMMA SwitchGoes ==
  ASSUME NEW p \in Parsers, PartsAgree(p), NEW c \in Chars
  PROVE  Goes(p, Switch(p, c), c)
<1> USE DEF PartsAgree, Goes
<1>1. p.state \in 0 .. 13 /\ p.part \in SUBSET Parts
  BY DEF Parsers
<1>2. \A s, off, on : /\ Go(p, s, off, on).state = s
                      /\ Go(p, s, off, on).part = (p.part \ off) \cup on
  BY DEF Go, Parsers
<1>a. \A s, off, on, e : /\ Count(Go(p, s, off, on), e).state = s
                         /\ Count(Go(p, s, off, on), e).part = (p.part \ off) \cup on
                         /\ Go(Count(p, e), s, off, on).state = s
                         /\ Go(Count(p, e), s, off, on).part = (p.part \ off) \cup on
  BY DEF Go, Count, Parsers
<1>b. \A s, off, on, t, off2, on2 :
        /\ Go(Go(p, s, off, on), t, off2, on2).state = t
        /\ Go(Go(p, s, off, on), t, off2, on2).part = (((p.part \ off) \cup on) \ off2) \cup on2
  BY DEF Go, Parsers
<1>c. /\ Spaces \cap {"=", ">", "QUOT", "'", "<", "/", "!"} = {}
      /\ Letters \cap {"=", ">", "QUOT", "'", "<", "/", "!"} = {}
  BY AlphabetAssumption DEF Punctuation
<1>3. CASE p.state = 0
  BY <1>1, <1>2, <1>3, SwitchCases DEF InText, Parts
<1>4. CASE p.state = 1
  BY <1>1, <1>2, <1>a, <1>c, <1>4, SwitchCases DEF TagBeginning
<1>5. CASE p.state = 2
  BY <1>1, <1>2, <1>c, <1>5, SwitchCases DEF TagName
<1>6. CASE p.state = 3
  BY <1>1, <1>2, <1>c, <1>6, SwitchCases DEF TagSpace
<1>7. CASE p.state = 4
  BY <1>1, <1>2, <1>c, <1>7, SwitchCases DEF AttributeName
<1>8. CASE p.state = 5
  BY <1>1, <1>2, <1>c, <1>8, SwitchCases DEF BeforeValue
<1>9. CASE p.state = 6
  BY <1>1, <1>2, <1>b, <1>9, SwitchCases DEF DoubleQuoted
<1>10. CASE p.state = 7
  BY <1>1, <1>2, <1>10, SwitchCases DEF SingleQuoted
<1>11. CASE p.state = 8
  BY <1>1, <1>2, <1>c, <1>11, SwitchCases DEF Unquoted
<1>12. CASE p.state = 9
  BY <1>1, <1>2, <1>12, SwitchCases DEF InComment
<1>13. CASE p.state = 10
  BY <1>1, <1>2, <1>13, SwitchCases DEF SearchScriptEnd
<1>14. CASE p.state = 11
  BY <1>1, <1>2, <1>a, <1>14, SwitchCases DEF ScriptLess
<1>15. CASE p.state \in {12, 13}
  <2>1. p.part = {"SCRIPT"}
    BY <1>15
  <2>2. /\ "VALUE_ENDED" \notin Go(p, 11, {}, {}).part /\ "VALUE_ENDED" \notin Go(p, 13, {}, {}).part
        /\ Go(p, 11, {}, {}).state = 11 /\ Go(p, 13, {}, {}).state = 13
    BY <1>2, <2>1
  <2>3. \A s : /\ ScriptEnded(p, s).state = s /\ "VALUE_ENDED" \notin ScriptEnded(p, s).part
    BY <1>a, <2>1 DEF ScriptEnded
  <2>4. "TAG_END" \in ScriptEnded(p, 0).part
    BY <1>a DEF ScriptEnded
  <2>5. c \in Spaces => c # "<" /\ c # ">"
    BY <1>c
  <2>6. /\ "VALUE_ENDED" \notin Switch(p, c).part
        /\ p.eq = Len(Script) /\ c = ">" => Switch(p, c).state = 0 /\ "TAG_END" \in Switch(p, c).part
        /\ p.eq = Len(Script) /\ c \in Spaces => Switch(p, c).state = 3
    BY <1>15, <2>2, <2>3, <2>4, <2>5, ScriptEndCases DEF Completes
  <2> QED BY <1>15, <2>6
<1> HIDE DEF PartsAgree, Goes
<1> QED BY <1>1, <1>3, <1>4, <1>5, <1>6, <1>7, <1>8, <1>9, <1>10, <1>11, <1>12, <1>13, <1>14, <1>15

\* So does html_parser_char_parse, and inside a script no value ends.
LEMMA CharGoes ==
  ASSUME NEW p \in Parsers, Fits(p), PartsAgree(p), NEW c \in Chars
  PROVE  IF p.state = 0 /\ p.eq = Len(Script)
         THEN CharParse(p, c).state \in {10, 11} /\ "VALUE_ENDED" \notin CharParse(p, c).part
         ELSE Goes(p, CharParse(p, c), c)
<1> DEFINE e == EnterScript(p)
           s == Switch(e, c)
           r == CharParse(p, c)
<1>1. e \in Parsers /\ PartsAgree(e) /\ s \in Parsers
  BY EnterScriptType, EnterScriptAgrees, SwitchType
<1>2. r.state = s.state /\ r.part = s.part
  BY <1>1, MachineType, MatchScriptKeeps DEF Control, Machine
<1>3. IF p.state = 0 /\ p.eq = Len(Script) THEN e.state = 10 ELSE e = p
  BY DEF EnterScript, Parsers
<1>4. Goes(e, s, c) /\ Moves(e, s, c)
  BY <1>1, SwitchGoes, SwitchMoves
<1> HIDE DEF e, s, r
<1>5. CASE p.state = 0 /\ p.eq = Len(Script)
  <2>1. s.state \in {10, 11} /\ "VALUE_ENDED" \notin s.part
    BY <1>3, <1>4, <1>5 DEF Goes, Moves
  <2> QED BY <1>2, <1>5, <2>1 DEF r
<1>6. CASE ~ (p.state = 0 /\ p.eq = Len(Script))
  <2>1. Goes(p, s, c)
    BY <1>3, <1>4, <1>6
  <2>2. Goes(p, r, c)
    BY <1>2, <2>1 DEF Goes
  <2> QED BY <1>6, <2>2 DEF r
<1> QED BY <1>5, <1>6

\* What the character does to the buffer of the attribute's name.
LEMMA AttrStored ==
  ASSUME NEW q \in Parsers, PartsAgree(q), Emptied(q) \in Parsers, NEW c \in Chars,
         NEW t, t = Stored(Emptied(q), c).attr
  PROVE  /\ q.state \notin {2, 4, 12} => t = q.attr
         /\ q.state = 4 /\ "ATTRIBUTE_BEGINNING" \in q.part => t = Put(<<>>, Lower[c], q.cap.attr)
         /\ q.state = 4 /\ "ATTRIBUTE_BEGINNING" \notin q.part => t = Put(q.attr, Lower[c], q.cap.attr)
<1>1. /\ Emptied(q).state = q.state /\ Emptied(q).part = q.part /\ Emptied(q).cap = q.cap
  BY BufferSteps DEF Control
<1>2. /\ "NAME" \in q.part <=> q.state = 2
      /\ "ATTRIBUTE" \in q.part <=> q.state = 4
      /\ "INNER_TEXT" \in q.part => q.state = 0
      /\ "NAME_BEGINNING" \in q.part => q.state = 2
      /\ "ATTRIBUTE_BEGINNING" \in q.part => q.state = 4
  BY DEF PartsAgree
<1>3. /\ q.state \notin {2, 4, 12} => Emptied(q).attr = q.attr
      /\ q.state = 4 /\ "ATTRIBUTE_BEGINNING" \in q.part => Emptied(q).attr = <<>>
      /\ q.state = 4 /\ "ATTRIBUTE_BEGINNING" \notin q.part => Emptied(q).attr = q.attr
  <2>1. /\ [q EXCEPT !.inner = <<>>].attr = q.attr
        /\ [q EXCEPT !.attr = <<>>, !.val = 0].attr = <<>>
        /\ [q EXCEPT !.val = 0].attr = q.attr
    BY DEF Parsers
  <2>2. CASE "INNER_TEXT" \in q.part
    BY <1>2, <2>1, <2>2 DEF Emptied
  <2>3. CASE q.state = 4
    BY <1>2, <2>1, <2>3 DEF Emptied
  <2>4. CASE "INNER_TEXT" \notin q.part /\ q.state \notin {2, 4, 12}
    BY <1>2, <2>1, <2>4 DEF Emptied
  <2> QED BY <1>2, <2>2, <2>3, <2>4
<1>4. ASSUME NEW r \in Parsers, PartsAgree(r)
      PROVE  /\ r.state # 4 => Stored(r, c).attr = r.attr
             /\ r.state = 4 => Stored(r, c).attr = Put(r.attr, Lower[c], r.cap.attr)
  <2>1. /\ [r EXCEPT !.inner = Put(@, c, r.cap.inner)].attr = r.attr
        /\ [r EXCEPT !.tag = Put(@, Lower[c], r.cap.tag)].attr = r.attr
        /\ [r EXCEPT !.attr = Put(@, Lower[c], r.cap.attr)].attr = Put(r.attr, Lower[c], r.cap.attr)
        /\ [r EXCEPT !.val = @ + 1].attr = r.attr
    BY DEF Parsers
  <2>2. /\ "NAME" \in r.part <=> r.state = 2
        /\ "ATTRIBUTE" \in r.part <=> r.state = 4
        /\ "INNER_TEXT" \in r.part => r.state = 0
    BY <1>4 DEF PartsAgree
  <2> QED BY <2>1, <2>2 DEF Stored
<1>5. PartsAgree(Emptied(q))
  BY <1>1 DEF PartsAgree
<1>6. q.state \in 0 .. 13
  BY DEF Parsers
<1> QED BY <1>1, <1>3, <1>4, <1>5, <1>6

\* The buffers of the two names behind a character.
LEMMA CharBuffers ==
  ASSUME NEW p \in Parsers, Fits(p), PartsAgree(p), NEW c \in Chars,
         NEW r, r = CharParse(p, c)
  PROVE  /\ r.state \notin {2, 12, 13} => r.tag = p.tag
         /\ p.state = 1 /\ r.state = 2 => r.tag = Put(<<>>, Lower[c], p.cap.tag)
         /\ p.state = 2 /\ r.state = 2 => r.tag = Put(p.tag, Lower[c], p.cap.tag)
         /\ r.state \notin {2, 4, 12} => r.attr = p.attr
         /\ p.state = 3 /\ r.state = 4 => r.attr = Put(<<>>, Lower[c], p.cap.attr)
         /\ p.state = 4 /\ r.state = 4 => r.attr = Put(p.attr, Lower[c], p.cap.attr)
         /\ r.cap = p.cap
<1> DEFINE q == Machine(p, c)
           s == Switch(EnterScript(p), c)
<1>1. /\ q \in Parsers /\ PartsAgree(q) /\ Emptied(q) \in Parsers
      /\ q.tag = p.tag /\ q.attr = p.attr /\ q.cap = p.cap
      /\ r = Stored(Emptied(q), c) /\ r.state = q.state /\ r.part = q.part
  BY MachineType, MachineAgrees DEF Buffers, Control
<1>2. r.cap = p.cap
  BY CharParseCap
<1>3. p.state \in 1 .. 4 => Goes(p, r, c)
  BY CharGoes
<1>4. p.state \in 1 .. 4 => Moves(p, s, c) /\ q.state = s.state /\ q.part = s.part
  <2>1. p.state \in 1 .. 4 => EnterScript(p) = p
    BY DEF EnterScript
  <2>2. EnterScript(p) \in Parsers /\ s \in Parsers
    BY EnterScriptType, SwitchType
  <2> QED BY <2>1, <2>2, SwitchMoves, MatchScriptKeeps DEF Machine
<1>5. /\ q.state \notin {2, 12, 13} => r.tag = q.tag
      /\ q.state = 2 /\ "NAME_BEGINNING" \in q.part => r.tag = Put(<<>>, Lower[c], q.cap.tag)
      /\ q.state = 2 /\ "NAME_BEGINNING" \notin q.part => r.tag = Put(q.tag, Lower[c], q.cap.tag)
  BY <1>1, TagStored
<1>6. /\ q.state \notin {2, 4, 12} => r.attr = q.attr
      /\ q.state = 4 /\ "ATTRIBUTE_BEGINNING" \in q.part => r.attr = Put(<<>>, Lower[c], q.cap.attr)
      /\ q.state = 4 /\ "ATTRIBUTE_BEGINNING" \notin q.part => r.attr = Put(q.attr, Lower[c], q.cap.attr)
  BY <1>1, AttrStored
<1> HIDE DEF q, s
<1>7. /\ p.state = 1 /\ q.state = 2 => "NAME_BEGINNING" \in q.part
      /\ p.state = 2 /\ q.state = 2 => "NAME_BEGINNING" \notin q.part
  BY <1>4 DEF Moves
<1>8. /\ p.state = 3 /\ q.state = 4 => "ATTRIBUTE_BEGINNING" \in q.part
      /\ p.state = 4 /\ q.state = 4 => "ATTRIBUTE_BEGINNING" \notin q.part
  BY <1>1, <1>3 DEF Goes
<1> QED BY <1>1, <1>2, <1>5, <1>6, <1>7, <1>8

-----------------------------------------------------------------------------
\* The buffer b, which takes max, has been given the first m characters of w.
Holds(b, w, m, max) ==
  b \in Seq(Chars) /\ Len(b) = (IF m <= max THEN m ELSE max) /\ \A j \in 1 .. Len(b) : b[j] = w[j]

\* One more character.
LEMMA HoldsPut ==
  ASSUME NEW b, NEW w, NEW m \in Nat, NEW max \in Nat, Holds(b, w, m, max),
         NEW x \in Chars, x = w[m + 1]
  PROVE  Holds(Put(b, x, max), w, m + 1, max)
<1>1. /\ Append(b, x) \in Seq(Chars) /\ Len(Append(b, x)) = Len(b) + 1 /\ Len(b) \in Nat
      /\ \A j \in 1 .. Len(b) : Append(b, x)[j] = b[j]
      /\ Append(b, x)[Len(b) + 1] = x
  BY DEF Holds
<1>2. 1 .. Len(b) + 1 = 1 .. Len(b) \cup {Len(b) + 1}
  BY <1>1
<1>3. CASE m < max
  <2>1. Len(b) = m /\ Put(b, x, max) = Append(b, x)
    BY <1>3 DEF Holds, Put
  <2> QED BY <1>1, <1>2, <1>3, <2>1 DEF Holds
<1>4. CASE m >= max
  <2>1. Len(b) = max /\ Put(b, x, max) = b
    BY <1>4 DEF Holds, Put
  <2> QED BY <1>4, <2>1 DEF Holds
<1> QED BY <1>3, <1>4

\* A word that is shorter than the buffer is recognised in it.
LEMMA HoldsAll ==
  ASSUME NEW b, NEW w \in Seq(Chars), NEW max \in Nat, Holds(b, w, Len(w), max),
         NEW v \in Seq(Chars), Len(v) < max
  PROVE  b = v <=> w = v
<1>1. b \in Seq(Chars) /\ Len(b) \in Nat /\ Len(w) \in Nat /\ Len(v) \in Nat
  BY DEF Holds
<1>2. ASSUME b = v PROVE w = v
  <2>1. Len(w) = Len(v) /\ \A j \in 1 .. Len(v) : v[j] = w[j]
    BY <1>1, <1>2 DEF Holds
  <2> QED BY <2>1, SeqEqual
<1>3. ASSUME w = v PROVE b = v
  <2>1. Len(b) = Len(v) /\ \A j \in 1 .. Len(v) : b[j] = v[j]
    BY <1>1, <1>3 DEF Holds
  <2> QED BY <1>1, <2>1, SeqEqual
<1> QED BY <1>2, <1>3

-----------------------------------------------------------------------------
\* How the parser stands to the tokens of a page.

\* A parser as the lemmas above want it.
Sound(p) == p \in Parsers /\ Fits(p) /\ PartsAgree(p) /\ NameInv(p) /\ p.cap = Caps

\* The names in the buffers are those that the token says, as far as anybody
\* looks for them.
TagRight(p, k) ==
  p.tag # TagImg /\ (p.tag = TagA <=> k.tag = TagA) /\ (p.tag = Script <=> k.tag = Script)
AttrRight(p, k) == p.attr = Href <=> k.attr = Href

\* The parser p behind the j-th character of the text t, which is one of the
\* token k; the value that ends there, if one does, is that of k (e is FALSE)
\* or that of the token before, which has no quotes.
Place(p, t, k, j, e) ==
  /\ "VALUE_ENDED" \in p.part <=> e \/ (k.kind = "quoted" /\ j = k.to)
  /\ k.kind \notin {"open", "raw"} => TagRight(p, k)
  /\ k.kind = "text" => p.state = 0 /\ "INNER_TEXT" \in p.part
  /\ k.kind = "comment" => /\ p.state = IF j = k.from THEN 1 ELSE IF j = k.to THEN 0 ELSE 9
                           /\ p.tag # Script
  /\ k.kind = "open" => IF j = k.from THEN p.state = 1 /\ p.tag # TagImg
                        ELSE p.state = 2 /\ Holds(p.tag, k.tag, j - k.from, Caps.tag)
  /\ k.kind = "attr" => IF j < k.at THEN p.state = 3
                        ELSE p.state = 4 /\ Holds(p.attr, k.attr, j - k.at + 1, Caps.attr)
  /\ k.kind = "equals" => p.state = (IF j < k.at THEN 3 ELSE 5) /\ AttrRight(p, k)
  /\ k.kind = "unquoted" => p.state = 8 /\ AttrRight(p, k)
  /\ k.kind = "quoted" => /\ p.state = IF j = k.to THEN 3 ELSE IF t[k.from] = "QUOT" THEN 6 ELSE 7
                          /\ AttrRight(p, k)
  /\ k.kind = "close" => IF j = k.to THEN p.state = 0 /\ "TAG_END" \in p.part ELSE p.state = 3
  /\ k.kind = "raw" => /\ p.state \in 10 .. 13 /\ p.tag # TagImg
                       /\ j = k.to => p.state = 13 /\ p.eq = Len(Script)

\* The history s is what it should be behind the j-th character.
Since(s, t, j) ==
  \E a \in 1 .. j + 1 :
     /\ Holds(s, Lowered(t, a, Len(t)), j - a + 1, Most)
     /\ \A x \in a + 1 .. j : t[x] # "<"
     /\ a > 1 => a <= j /\ t[a] = "<"

\* The kinds of characters do not overlap.
LEMMA Apart ==
  /\ Spaces \cap {"=", ">", "QUOT", "'", "<", "/", "!"} = {}
  /\ Letters \cap {"=", ">", "QUOT", "'", "<", "/", "!"} = {}
  /\ Spaces \cap Letters = {}
BY AlphabetAssumption DEF Punctuation

\* Lower case keeps "<", "/" and ">", and makes no other character one of them.
LEMMA LowerKeeps ==
  \A c \in Chars : \A d \in {"<", "/", ">"} : Lower[c] = d <=> c = d
<1>1. \A c \in Letters : Lower[c] \in Letters
  BY LowerAssumption
<1> QED BY <1>1, Apart, LowerAssumption

\* The names are not "</script" nor anything else with a "/" in front.
LEMMA NamesFacts ==
  /\ TagA \in Seq(Chars) /\ TagImg \in Seq(Chars) /\ Script \in Seq(Chars) /\ Href \in Seq(Chars)
  /\ TagA # <<>> /\ TagImg # <<>> /\ Script # <<>>
  /\ \A w : w # <<>> /\ w[1] = "/" => w # TagA /\ w # TagImg /\ w # Script
  /\ Len(TagA) < Caps.tag /\ Len(TagImg) < Caps.tag /\ Len(Script) < Caps.tag
  /\ Len(Href) < Caps.attr /\ Caps.tag \in Nat /\ Caps.attr \in Nat
<1>1. /\ TagA \in Seq(Letters) /\ TagImg \in Seq(Letters) /\ Script \in Seq(Letters)
      /\ Href \in Seq(Letters) /\ TagA # <<>> /\ TagImg # <<>> /\ Script # <<>>
  BY NamesAssumption, ScriptAssumption
<1>2. Letters \subseteq Chars
  BY DEF Chars
<1>3. \A w \in Seq(Letters) : w # <<>> => w \in Seq(Chars) /\ w[1] # "/"
  <2> SUFFICES ASSUME NEW w \in Seq(Letters), w # <<>> PROVE w \in Seq(Chars) /\ w[1] # "/"
    OBVIOUS
  <2>1. w[1] \in Letters
    BY EmptySeq
  <2> QED BY <1>2, <2>1, Apart
<1>4. Caps.tag \in Nat /\ Caps.attr \in Nat
  BY CapsAssumption DEF CapRecords
<1>5. Href \in Seq(Chars)
  BY <1>1, <1>2
<1> QED BY <1>1, <1>3, <1>4, <1>5, NamesAssumption

\* The history goes on with the text.
LEMMA SinceOn ==
  ASSUME NEW t \in Seq(Chars), NEW j \in Nat, j < Len(t), NEW s, Since(s, t, j)
  PROVE  Since(SinceNext(s, t[j + 1]), t, j + 1)
<1> DEFINE c == t[j + 1]
           s2 == SinceNext(s, c)
<1>0. c \in Chars /\ Len(t) \in Nat /\ Most \in Nat /\ Most > 1
  BY EndFacts, ScriptFacts DEF Most
<1>1. PICK a \in 1 .. j + 1 :
        /\ Holds(s, Lowered(t, a, Len(t)), j - a + 1, Most)
        /\ \A x \in a + 1 .. j : t[x] # "<"
        /\ a > 1 => a <= j /\ t[a] = "<"
  BY DEF Since
<1>2. s2 = IF c = "<" THEN <<c>> ELSE Put(s, Lower[c], Most)
  BY SincePut
<1>3. CASE c = "<"
  <2>1. Lower[c] = "<"
    BY <1>0, <1>3, LowerKeeps
  <2>2. Lowered(t, j + 1, Len(t))[1] = "<"
    BY <1>0, <1>3, <2>1 DEF Lowered
  <2>3. Holds(<<"<">>, Lowered(t, j + 1, Len(t)), 1, Most)
    BY <1>0, <1>3, <2>2 DEF Holds
  <2>4. Holds(s2, Lowered(t, j + 1, Len(t)), (j + 1) - (j + 1) + 1, Most)
    BY <1>2, <1>3, <2>3
  <2>5. /\ j + 1 \in 1 .. (j + 1) + 1 /\ \A x \in (j + 1) + 1 .. j + 1 : t[x] # "<"
        /\ j + 1 > 1 => j + 1 <= j + 1 /\ t[j + 1] = "<"
    BY <1>3
  <2> QED BY <2>4, <2>5 DEF Since
<1>4. CASE c # "<"
  <2>1. Lower[c] = Lowered(t, a, Len(t))[(j - a + 1) + 1]
    <3>1. (j - a + 1) + 1 \in 1 .. Len(t) - a + 1 /\ a + ((j - a + 1) + 1) - 1 = j + 1
      BY <1>0
    <3> QED BY <3>1 DEF Lowered
  <2>2. j - a + 1 \in Nat /\ Lower[c] \in Chars
    BY <1>0, LowerType
  <2>3. Holds(s2, Lowered(t, a, Len(t)), (j - a + 1) + 1, Most)
    BY <1>0, <1>1, <1>2, <1>4, <2>1, <2>2, HoldsPut
  <2>4. (j - a + 1) + 1 = (j + 1) - a + 1
    BY <1>0
  <2>5. \A x \in a + 1 .. j + 1 : t[x] # "<"
    <3>1. \A x \in a + 1 .. j + 1 : x \in a + 1 .. j \/ x = j + 1
      OBVIOUS
    <3> QED BY <1>1, <1>4, <3>1
  <2>6. a \in 1 .. (j + 1) + 1 /\ (a > 1 => a <= j + 1 /\ t[a] = "<")
    BY <1>1
  <2>7. Holds(s2, Lowered(t, a, Len(t)), (j + 1) - a + 1, Most)
    BY <2>3, <2>4
  <2> HIDE DEF s2
  <2>8. Since(s2, t, j + 1)
    BY <2>5, <2>6, <2>7 DEF Since
  <2> QED BY <2>8 DEF s2
<1> QED BY <1>3, <1>4

\* In a script the history is the end tag exactly where the text has one.
LEMMA SinceEnd ==
  ASSUME NEW t \in Seq(Chars), NEW j \in Nat, j <= Len(t), NEW s, Since(s, t, j),
         NEW f \in Nat, f > 1, f <= j, t[f - 1] = ">"
  PROVE  s = End <=> EndTagAt(t, f, j)
<1> DEFINE n0 == Len(Script)
           w == Lowered(t, j - n0 - 1, j)
<1>0. /\ n0 \in Nat \ {0} /\ Len(End) = n0 + 2 /\ End \in Seq(Chars) /\ End[1] = "<"
      /\ Most = n0 + 3 /\ EndTag = End /\ \A x \in 1 .. Len(End) : End[x] # ">"
  BY ScriptFacts, EndFacts DEF Most, EndTag, End
<1>1. PICK a \in 1 .. j + 1 :
        /\ Holds(s, Lowered(t, a, Len(t)), j - a + 1, Most)
        /\ \A x \in a + 1 .. j : t[x] # "<"
        /\ a > 1 => a <= j /\ t[a] = "<"
  BY DEF Since
<1>2. /\ s \in Seq(Chars) /\ Len(s) = (IF j - a + 1 <= Most THEN j - a + 1 ELSE Most)
      /\ \A x \in 1 .. Len(s) : s[x] = Lower[t[a + x - 1]]
  <2>1. \A x \in 1 .. Len(t) - a + 1 : Lowered(t, a, Len(t))[x] = Lower[t[a + x - 1]]
    BY DEF Lowered
  <2>2. /\ s \in Seq(Chars) /\ Len(s) = (IF j - a + 1 <= Most THEN j - a + 1 ELSE Most)
        /\ \A x \in 1 .. Len(s) : s[x] = Lowered(t, a, Len(t))[x]
    BY <1>1 DEF Holds
  <2>3. \A x \in 1 .. Len(s) : x \in 1 .. Len(t) - a + 1
    BY <1>0, <2>2
  <2> QED BY <2>1, <2>2, <2>3
<1> HIDE DEF n0
<1>3. ASSUME s = End PROVE EndTagAt(t, f, j)
  <2>1. a = j - n0 - 1
    BY <1>0, <1>2, <1>3
  <2>2. a >= f
    <3> SUFFICES ASSUME a < f PROVE FALSE
      BY <2>1
    <3>1. f - 1 - a + 1 \in 1 .. Len(End) /\ a + (f - 1 - a + 1) - 1 = f - 1
      BY <1>0, <2>1
    <3>2. End[f - 1 - a + 1] = Lower[t[f - 1]]
      BY <1>2, <1>3, <3>1
    <3>3. Lower[">"] = ">"
      BY LowerKeeps DEF Chars, Punctuation
    <3> QED BY <1>0, <3>1, <3>2, <3>3
  <2>3. Lowered(t, a, j) = End
    <3>1. j - a + 1 = Len(End)
      BY <1>0, <2>1
    <3>2. \A x \in 1 .. Len(End) : End[x] = Lower[t[a + x - 1]]
      BY <1>2, <1>3
    <3>3. Lowered(t, a, j) = [x \in 1 .. Len(End) |-> End[x]]
      BY <3>1, <3>2 DEF Lowered
    <3>4. End = [x \in 1 .. Len(End) |-> End[x]]
      BY <1>0
    <3> QED BY <3>3, <3>4
  <2> QED BY <1>0, <2>1, <2>2, <2>3 DEF EndTagAt, n0
<1>4. ASSUME EndTagAt(t, f, j) PROVE s = End
  <2> DEFINE b == j - n0 - 1
  <2>1. b >= f /\ b \in Nat /\ Lowered(t, b, j) = End
    BY <1>0, <1>4 DEF EndTagAt, n0
  <2>2. \A x \in 1 .. Len(End) : End[x] = Lower[t[b + x - 1]]
    <3>1. j - b + 1 = Len(End)
      BY <1>0, <2>1
    <3>2. \A x \in 1 .. j - b + 1 : Lowered(t, b, j)[x] = Lower[t[b + x - 1]]
      BY DEF Lowered
    <3> QED BY <2>1, <3>1, <3>2
  <2>3. t[b] = "<"
    <3>1. 1 \in 1 .. Len(End) /\ b + 1 - 1 = b /\ b \in 1 .. Len(t)
      BY <1>0, <2>1
    <3>2. "<" = Lower[t[b]] /\ t[b] \in Chars
      BY <1>0, <2>2, <3>1
    <3> QED BY <3>2, LowerKeeps
  <2>4. \A x \in b + 1 .. j : t[x] # "<"
    <3> SUFFICES ASSUME NEW x \in b + 1 .. j, t[x] = "<" PROVE FALSE
      OBVIOUS
    <3>1. x - b + 1 \in 2 .. Len(End) /\ b + (x - b + 1) - 1 = x
      BY <1>0, <2>1
    <3>2. End[x - b + 1] = "<"
      BY <2>2, <3>1, LowerKeeps DEF Chars, Punctuation
    <3>3. \A y \in 2 .. Len(End) : End[y] # "<"
      <4> SUFFICES ASSUME NEW y \in 2 .. Len(End) PROVE End[y] # "<"
        OBVIOUS
      <4>1. CASE y = 2
        BY <4>1, EndFacts
      <4>2. CASE y > 2
        <5>1. y - 2 \in 1 .. Len(Script) /\ (y - 2) + 2 = y
          BY <1>0, <4>2 DEF n0
        <5>2. End[y] = Script[y - 2]
          BY <5>1, EndFacts DEF Ends
        <5>3. Script[y - 2] \in Letters
          BY <5>1, ScriptAssumption
        <5> QED BY <5>2, <5>3, Apart
      <4> QED BY <4>1, <4>2
    <3> QED BY <3>1, <3>2, <3>3
  <2>5. a = b
    <3>1. ~ (b \in a + 1 .. j)
      BY <1>1, <2>3
    <3>2. a >= b
      BY <1>0, <2>1, <3>1
    <3>3. a > 1
      BY <2>1, <3>2
    <3>4. ~ (a \in b + 1 .. j)
      BY <1>1, <2>4, <3>3
    <3> QED BY <1>1, <2>1, <3>2, <3>3, <3>4
  <2>6. Len(s) = Len(End)
    BY <1>0, <1>2, <2>5
  <2>7. \A x \in 1 .. Len(End) : s[x] = End[x]
    BY <1>2, <2>2, <2>5, <2>6
  <2> QED BY <1>0, <1>2, <2>6, <2>7, SeqEqual
<1> QED BY <1>3, <1>4

-----------------------------------------------------------------------------
\* One character further.

\* A token of the text, of the shape of its kind.
Fine(t, k) ==
  k \in Tokens /\ 1 <= k.from /\ k.from <= k.to /\ k.to <= Len(t) /\ Shaped(t, k)

\* The parser stays sound, also if the adapter works in its buffer.
LEMMA SoundStep ==
  ASSUME NEW p, Sound(p), NEW c \in Chars, NEW r, r = CharParse(p, c)
  PROVE  Sound(r) /\ Sound(Worked(r))
<1>1. r \in Parsers /\ Fits(r) /\ PartsAgree(r) /\ r.cap = Caps
  BY CharParseType, CharParseAgrees, CharParseCap DEF Sound
<1>2. NameInv(r)
  BY NameStep, NamesFacts, ScriptFacts DEF Sound
<1>3. /\ Worked(r) \in Parsers /\ Fits(Worked(r)) /\ Worked(r).cap = Caps
      /\ Worked(r).state = r.state /\ Worked(r).part = r.part /\ Worked(r).eq = r.eq
      /\ Worked(r).tag = r.tag
  BY <1>1, WorkedType
<1>4. PartsAgree(Worked(r)) /\ NameInv(Worked(r))
  BY <1>1, <1>2, <1>3 DEF PartsAgree, NameInv
<1> QED BY <1>1, <1>2, <1>3, <1>4 DEF Sound

\* What a character does to a sound parser that is not at a script.
LEMMA SoundGoes ==
  ASSUME NEW p, Sound(p), ~ (p.state = 0 /\ p.eq = Len(Script)),
         NEW c \in Chars, NEW r, r = CharParse(p, c)
  PROVE  /\ Goes(p, r, c) /\ p.state \in 0 .. 13 /\ r.state \in 0 .. 13
         /\ r.state \notin {2, 12, 13} => r.tag = p.tag
         /\ p.state = 1 /\ r.state = 2 => r.tag = Put(<<>>, Lower[c], Caps.tag)
         /\ p.state = 2 /\ r.state = 2 => r.tag = Put(p.tag, Lower[c], Caps.tag)
         /\ r.state \notin {2, 4, 12} => r.attr = p.attr
         /\ p.state = 3 /\ r.state = 4 => r.attr = Put(<<>>, Lower[c], Caps.attr)
         /\ p.state = 4 /\ r.state = 4 => r.attr = Put(p.attr, Lower[c], Caps.attr)
<1>1. Goes(p, r, c)
  BY CharGoes DEF Sound
<1>2. p.state \in 0 .. 13 /\ r.state \in 0 .. 13
  BY CharParseType DEF Sound, Parsers
<1> QED BY <1>1, <1>2, CharBuffers DEF Sound

\* A name of nothing.
LEMMA HoldsNothing == ASSUME NEW w, NEW max \in Nat PROVE Holds(<<>>, w, 0, max)
BY DEF Holds

\* One character further in the same token, if that is not a script.
LEMMA StepWithin ==
  ASSUME NEW t \in Seq(Chars), NEW k, Fine(t, k), NEW j \in Nat, k.from <= j, j < k.to,
         NEW p, Sound(p), NEW e, Place(p, t, k, j, e), k.kind # "raw",
         NEW r, r = CharParse(p, t[j + 1])
  PROVE  Place(r, t, k, j + 1, FALSE)
<1> DEFINE c == t[j + 1]
<1>1. /\ c \in Chars /\ k.from \in Nat /\ k.at \in Nat /\ k.to \in Nat
      /\ k.tag \in Seq(Chars) /\ k.attr \in Seq(Chars) /\ k.kind \in Kinds
      /\ j + 1 \in k.from .. k.to
  BY DEF Fine, Tokens
<1>2. ~ (p.state = 0 /\ p.eq = Len(Script))
  <2>1. k.kind = "text" => "TAG_END" \notin p.part
    BY DEF Place, Sound, PartsAgree
  <2>2. p.state = 0 => k.kind = "text"
    BY <1>1 DEF Place, Kinds
  <2> QED BY <2>1, <2>2 DEF Sound, NameInv
<1>3. /\ Goes(p, r, c) /\ p.state \in 0 .. 13 /\ r.state \in 0 .. 13
      /\ r.state \notin {2, 12, 13} => r.tag = p.tag
      /\ p.state = 1 /\ r.state = 2 => r.tag = Put(<<>>, Lower[c], Caps.tag)
      /\ p.state = 2 /\ r.state = 2 => r.tag = Put(p.tag, Lower[c], Caps.tag)
      /\ r.state \notin {2, 4, 12} => r.attr = p.attr
      /\ p.state = 3 /\ r.state = 4 => r.attr = Put(<<>>, Lower[c], Caps.attr)
      /\ p.state = 4 /\ r.state = 4 => r.attr = Put(p.attr, Lower[c], Caps.attr)
  BY <1>1, <1>2, SoundGoes
<1> HIDE DEF c
<1>4. Lower[c] \in Chars /\ Caps.tag \in Nat /\ Caps.attr \in Nat
  BY <1>1, LowerType, NamesFacts
<1>5. CASE k.kind = "text"
  <2>1. c # "<"
    BY <1>1, <1>5 DEF Fine, Shaped, Without, c
  <2>2. p.state = 0 /\ TagRight(p, k)
    BY <1>5 DEF Place
  <2>3. r.state = 0 /\ "INNER_TEXT" \in r.part /\ "VALUE_ENDED" \notin r.part /\ r.tag = p.tag
    BY <1>3, <2>1, <2>2 DEF Goes
  <2> QED BY <1>5, <2>2, <2>3 DEF Place, TagRight
<1>6. CASE k.kind = "comment"
  <2>1. /\ p.state = (IF j = k.from THEN 1 ELSE 9) /\ TagRight(p, k) /\ p.tag # Script
    BY <1>6 DEF Place
  <2>2. /\ c = ">" <=> j + 1 = k.to
        /\ j = k.from => c = ">" \/ c = "!"
    BY <1>1, <1>6 DEF Fine, Shaped, IsComment, Without, c
  <2>3. /\ r.state = (IF j + 1 = k.to THEN 0 ELSE 9) /\ "VALUE_ENDED" \notin r.part /\ r.tag = p.tag
    <3>1. CASE j = k.from
      BY <1>3, <2>1, <2>2, <3>1 DEF Goes
    <3>2. CASE j # k.from
      BY <1>3, <2>1, <2>2, <3>2 DEF Goes
    <3> QED BY <3>1, <3>2
  <2>4. j + 1 # k.from
    BY <1>1
  <2> QED BY <1>6, <2>1, <2>3, <2>4 DEF Place, TagRight
<1>7. CASE k.kind = "open"
  <2> DEFINE m == j - k.from
  <2>1. m \in Nat /\ m + 1 = (j + 1) - k.from /\ j + 1 # k.from
    BY <1>1
  <2>2. Lower[c] = k.tag[m + 1]
    <3>1. k.tag = Lowered(t, k.from + 1, k.to)
      BY <1>7 DEF Fine, Shaped, IsOpen
    <3>2. m + 1 \in 1 .. k.to - (k.from + 1) + 1 /\ (k.from + 1) + (m + 1) - 1 = j + 1
      BY <1>1
    <3> QED BY <3>1, <3>2 DEF Lowered, c
  <2>5. j = k.from => m = 0
    BY <1>1
  <2>6. k.kind = "open" /\ j # k.from => p.state = 2 /\ Holds(p.tag, k.tag, m, Caps.tag)
    BY DEF Place
  <2> HIDE DEF m
  <2>3. CASE j = k.from
    <3>1. p.state = 1 /\ c \in Letters \cup {"/"} /\ m = 0
      BY <1>1, <1>7, <2>3, <2>5 DEF Place, Fine, Shaped, IsOpen, c
    <3>2. r.state = 2 /\ "VALUE_ENDED" \notin r.part /\ r.tag = Put(<<>>, Lower[c], Caps.tag)
      BY <1>3, <3>1 DEF Goes
    <3>3. Holds(r.tag, k.tag, m + 1, Caps.tag)
      <4>1. m \in Nat /\ Holds(<<>>, k.tag, m, Caps.tag)
        BY <1>4, <3>1, HoldsNothing
      <4> QED BY <1>4, <2>2, <3>2, <4>1, HoldsPut
    <3>4. Holds(r.tag, k.tag, (j + 1) - k.from, Caps.tag)
      BY <2>1, <3>3
    <3> QED BY <1>7, <2>1, <3>2, <3>4 DEF Place
  <2>4. CASE j # k.from
    <3>1. p.state = 2 /\ Holds(p.tag, k.tag, m, Caps.tag)
      BY <1>7, <2>4, <2>6
    <3>2. c \notin Stops
      BY <1>1, <1>7, <2>4 DEF Fine, Shaped, IsOpen, Without, c
    <3>3. r.state = 2 /\ "VALUE_ENDED" \notin r.part /\ r.tag = Put(p.tag, Lower[c], Caps.tag)
      BY <1>3, <3>1, <3>2 DEF Goes, Stops
    <3>4. Holds(r.tag, k.tag, m + 1, Caps.tag)
      <4>1. m \in Nat
        BY <2>1
      <4>2. Holds(Put(p.tag, Lower[c], Caps.tag), k.tag, m + 1, Caps.tag)
        BY <1>4, <2>2, <3>1, <4>1, HoldsPut
      <4> QED BY <3>3, <4>2
    <3>5. Holds(r.tag, k.tag, (j + 1) - k.from, Caps.tag)
      BY <2>1, <3>4
    <3> QED BY <1>7, <2>1, <3>3, <3>5 DEF Place
  <2> QED BY <2>3, <2>4
<1>8. CASE k.kind = "attr"
  <2> DEFINE m == j - k.at + 1
  <2>1. /\ k.from < k.at /\ k.at <= k.to /\ TagRight(p, k)
        /\ j + 1 < k.at => c \in Spaces
        /\ k.at <= j + 1 => c \notin Stops \cup {"="} /\ Lower[c] = k.attr[(j + 1) - k.at + 1]
    <3>1. IsAttr(t, k) /\ TagRight(p, k)
      BY <1>8 DEF Place, Fine, Shaped
    <3>2. k.at <= j + 1 => /\ (j + 1) - k.at + 1 \in 1 .. k.to - k.at + 1
                           /\ k.at + ((j + 1) - k.at + 1) - 1 = j + 1
      BY <1>1
    <3> QED BY <1>1, <3>1, <3>2 DEF IsAttr, Blank, Without, Lowered, c
  <2>2. CASE j + 1 < k.at
    <3>1. p.state = 3
      BY <1>1, <1>8, <2>2 DEF Place
    <3>2. r.state = 3 /\ "VALUE_ENDED" \notin r.part /\ r.tag = p.tag
      BY <1>3, <2>1, <2>2, <3>1, Apart DEF Goes
    <3> QED BY <1>8, <2>1, <2>2, <3>2 DEF Place, TagRight
  <2>3. CASE j + 1 = k.at
    <3>1. p.state = 3 /\ (j + 1) - k.at + 1 = 1
      BY <1>1, <1>8, <2>3 DEF Place
    <3>2. r.state = 4 /\ "VALUE_ENDED" \notin r.part /\ r.tag = p.tag /\ r.attr = Put(<<>>, Lower[c], Caps.attr)
      BY <1>3, <2>1, <2>3, <3>1 DEF Goes, Stops
    <3>3. Holds(r.attr, k.attr, 0 + 1, Caps.attr)
      <4>1. Lower[c] = k.attr[0 + 1] /\ Holds(<<>>, k.attr, 0, Caps.attr)
        BY <1>1, <1>4, <2>1, <2>3, <3>1, HoldsNothing
      <4> QED BY <1>4, <3>2, <4>1, HoldsPut
    <3>4. Holds(r.attr, k.attr, (j + 1) - k.at + 1, Caps.attr)
      BY <3>1, <3>3
    <3> QED BY <1>8, <2>1, <2>3, <3>2, <3>4 DEF Place, TagRight
  <2>4. CASE j + 1 > k.at
    <3>1. m \in Nat /\ m + 1 = (j + 1) - k.at + 1 /\ ~ (j < k.at) /\ ~ (j + 1 < k.at)
      BY <1>1, <2>4
    <3>2. p.state = 4 /\ Holds(p.attr, k.attr, m, Caps.attr)
      BY <1>8, <3>1 DEF Place
    <3>5. Lower[c] = k.attr[m + 1]
      BY <1>1, <2>1, <2>4, <3>1
    <3> HIDE DEF m
    <3>6. c \notin Stops \cup {"="}
      BY <1>1, <2>1, <2>4
    <3>3. r.state = 4 /\ "VALUE_ENDED" \notin r.part /\ r.tag = p.tag /\ r.attr = Put(p.attr, Lower[c], Caps.attr)
      BY <1>3, <3>2, <3>6 DEF Goes, Stops
    <3>4. Holds(r.attr, k.attr, m + 1, Caps.attr)
      BY <1>4, <3>1, <3>2, <3>3, <3>5, HoldsPut
    <3>7. Holds(r.attr, k.attr, (j + 1) - k.at + 1, Caps.attr)
      BY <3>1, <3>4
    <3>8. TagRight(r, k) /\ ~ (j + 1 < k.at)
      BY <2>1, <3>1, <3>3 DEF TagRight
    <3> QED BY <1>1, <1>8, <3>3, <3>7, <3>8 DEF Place
  <2>5. j + 1 < k.at \/ j + 1 = k.at \/ j + 1 > k.at
    BY <1>1
  <2> QED BY <2>2, <2>3, <2>4, <2>5
<1>9. CASE k.kind = "equals"
  <2>1. /\ p.state = (IF j < k.at THEN 3 ELSE 5) /\ AttrRight(p, k) /\ TagRight(p, k)
    BY <1>9 DEF Place
  <2>2. /\ j + 1 # k.at => c \in Spaces
        /\ j + 1 = k.at => c = "="
    BY <1>1, <1>9 DEF Fine, Shaped, IsEquals, Blank, c
  <2>3. /\ r.state = (IF j + 1 < k.at THEN 3 ELSE 5) /\ "VALUE_ENDED" \notin r.part
        /\ r.tag = p.tag /\ r.attr = p.attr
    <3>1. CASE j + 1 < k.at
      <4>1. j < k.at /\ j + 1 # k.at
        BY <1>1, <3>1
      <4> QED BY <1>3, <2>1, <2>2, <3>1, <4>1, Apart DEF Goes
    <3>2. CASE j + 1 = k.at
      <4>1. j < k.at /\ ~ (j + 1 < k.at)
        BY <1>1, <3>2
      <4> QED BY <1>3, <2>1, <2>2, <3>2, <4>1, Apart DEF Goes
    <3>3. CASE j + 1 > k.at
      <4>1. ~ (j < k.at) /\ ~ (j + 1 < k.at) /\ j + 1 # k.at
        BY <1>1, <3>3
      <4> QED BY <1>3, <2>1, <2>2, <4>1, Apart DEF Goes
    <3> QED BY <1>1, <3>1, <3>2, <3>3
  <2> QED BY <1>9, <2>1, <2>3 DEF Place, TagRight, AttrRight
<1>10. CASE k.kind = "unquoted"
  <2>1. /\ p.state = 8 /\ AttrRight(p, k) /\ TagRight(p, k)
    BY <1>10 DEF Place
  <2>2. c \notin Stops
    BY <1>1, <1>10 DEF Fine, Shaped, IsUnquoted, Without, c
  <2>3. r.state = 8 /\ "VALUE_ENDED" \notin r.part /\ r.tag = p.tag /\ r.attr = p.attr
    BY <1>3, <2>1, <2>2 DEF Goes, Stops
  <2> QED BY <1>10, <2>1, <2>3 DEF Place, TagRight, AttrRight
<1>11. CASE k.kind = "quoted"
  <2>1. /\ p.state = (IF t[k.from] = "QUOT" THEN 6 ELSE 7) /\ AttrRight(p, k) /\ TagRight(p, k)
    BY <1>11 DEF Place
  <2>2. /\ t[k.from] \in Quotes
        /\ c = t[k.from] <=> j + 1 = k.to
    BY <1>1, <1>11 DEF Fine, Shaped, IsQuoted, Without, c
  <2>3. /\ r.state = (IF j + 1 = k.to THEN 3 ELSE IF t[k.from] = "QUOT" THEN 6 ELSE 7)
        /\ "VALUE_ENDED" \in r.part <=> j + 1 = k.to
    <3>1. CASE t[k.from] = "QUOT"
      BY <1>3, <2>1, <2>2, <3>1 DEF Goes
    <3>2. CASE t[k.from] = "'"
      BY <1>3, <2>1, <2>2, <3>2 DEF Goes
    <3> QED BY <2>2, <3>1, <3>2 DEF Quotes
  <2>4. r.tag = p.tag /\ r.attr = p.attr
    BY <1>3, <2>3
  <2> QED BY <1>11, <2>1, <2>3, <2>4 DEF Place, TagRight, AttrRight
<1>12. CASE k.kind = "close"
  <2>1. p.state = 3 /\ TagRight(p, k)
    BY <1>1, <1>12 DEF Place
  <2>2. /\ j + 1 # k.to => c \in Spaces
        /\ j + 1 = k.to => c = ">"
    BY <1>1, <1>12 DEF Fine, Shaped, IsClose, Blank, c
  <2>3. /\ r.state = (IF j + 1 = k.to THEN 0 ELSE 3) /\ "VALUE_ENDED" \notin r.part
        /\ r.state = 0 => "TAG_END" \in r.part
        /\ r.tag = p.tag
    BY <1>3, <2>1, <2>2, Apart DEF Goes
  <2> QED BY <1>12, <2>1, <2>3 DEF Place, TagRight
<1> QED BY <1>1, <1>5, <1>6, <1>7, <1>8, <1>9, <1>10, <1>11, <1>12 DEF Kinds

-----------------------------------------------------------------------------
\* One character further in a script: the machine leaves it nowhere, and is
\* ready to leave it at the end.
LEMMA StepScript ==
  ASSUME NEW t \in Seq(Chars), NEW k, Fine(t, k), NEW j \in Nat, k.from <= j, j < k.to,
         NEW p, Sound(p), NEW e, Place(p, t, k, j, e), k.kind = "raw",
         k.from > 1, t[k.from - 1] = ">",
         NEW s \in Seq(Chars), SinceInv(p, s), Since(s, t, j),
         NEW r, r = CharParse(p, t[j + 1])
  PROVE  Place(r, t, k, j + 1, FALSE)
<1> DEFINE c == t[j + 1]
           s2 == SinceNext(s, c)
<1>1. /\ c \in Chars /\ k.from \in Nat /\ k.to \in Nat /\ Len(t) \in Nat
      /\ j < Len(t) /\ j + 1 \in k.from .. k.to /\ j \in k.from .. k.to - 1
  BY DEF Fine, Tokens
<1>2. p.state \in 10 .. 13 /\ p.tag # TagImg
  BY DEF Place
<1>3. p \in Parsers /\ Fits(p) /\ PartsAgree(p)
  BY DEF Sound
<1>4. Sound(r) /\ r \in Parsers
  BY <1>1, SoundStep DEF Sound
<1>5. r.state \in 10 .. 13
  <2>1. ~ InScript(r) <=> s = End /\ Completes(c)
    BY <1>1, <1>2, <1>3, ScriptLeft DEF InScript
  <2>2. s = End <=> EndTagAt(t, k.from, j)
    <3>1. j <= Len(t)
      BY <1>1
    <3> QED BY <1>1, <3>1, SinceEnd
  <2>3. EndTagAt(t, k.from, j) => ~ Completes(c)
    BY <1>1 DEF Fine, Shaped, IsRaw
  <2> QED BY <2>1, <2>2, <2>3 DEF InScript
<1>6. "VALUE_ENDED" \notin r.part
  <2>1. "SCRIPT" \in r.part
    BY <1>4, <1>5 DEF Sound, PartsAgree
  <2> QED BY <1>4, <2>1 DEF Sound, PartsAgree
<1>7. r.tag # TagImg
  <2>1. CASE r.state \in {12, 13}
    BY <1>4, <2>1, NamesFacts DEF Sound, NameInv
  <2>2. CASE r.state \notin {12, 13}
    <3>1. r.tag = p.tag
      BY <1>1, <1>3, <1>5, <2>2, CharBuffers
    <3> QED BY <1>2, <3>1
  <2> QED BY <2>1, <2>2
<1>8. j + 1 = k.to => r.state = 13 /\ r.eq = Len(Script)
  <2> SUFFICES ASSUME j + 1 = k.to PROVE r.state = 13 /\ r.eq = Len(Script)
    OBVIOUS
  <2>1. s2 = End
    <3>1. Since(s2, t, j + 1)
      BY <1>1, SinceOn
    <3>2. EndTagAt(t, k.from, j + 1)
      BY DEF Fine, Shaped, IsRaw
    <3>3. j + 1 \in Nat /\ j + 1 <= Len(t) /\ k.from <= j + 1
      BY <1>1
    <3> HIDE DEF s2
    <3> QED BY <1>1, <3>1, <3>2, <3>3, SinceEnd
  <2>2. SinceInv(r, End)
    <3>1. SinceInv(r, s2)
      BY <1>1, <1>3, SinceStep
    <3> QED BY <2>1, <3>1
  <2>3. Len(End) = Len(Script) + 2 /\ Len(Script) \in Nat \ {0} /\ PrefixOf(End, End)
    BY EndFacts, ScriptFacts DEF PrefixOf
  <2>4. End # <<"<">> /\ End # <<"<", "/">>
    <3>1. Len(End) # 1 /\ Len(End) # 2
      BY EndFacts, ScriptFacts
    <3>2. \A w : w = <<"<">> => Len(w) = 1
      OBVIOUS
    <3>3. \A w : w = <<"<", "/">> => Len(w) = 2
      OBVIOUS
    <3> HIDE DEF s2
    <3> QED BY <3>1, <3>2, <3>3, Zenon
  <2>5. r.state = 13
    BY <1>5, <2>2, <2>3, <2>4 DEF SinceInv
  <2>6. Counted(r.eq, End, End, 2)
    BY <2>2, <2>5 DEF SinceInv
  <2>7. r.eq \in -1 .. Len(Script)
    BY <1>4 DEF Parsers
  <2> QED BY <2>3, <2>5, <2>6, <2>7 DEF Counted
<1> QED BY <1>5, <1>6, <1>7, <1>8 DEF Place

\* The first character of a token between tags.
LEMMA StepOutside ==
  ASSUME NEW t \in Seq(Chars), NEW k, Fine(t, k), k.kind \in Outside,
         NEW p, Sound(p), p.state = 0, p.eq # Len(Script), p.tag # TagImg,
         k.kind # "open" => TagRight(p, k),
         NEW r, r = CharParse(p, t[k.from])
  PROVE  Place(r, t, k, k.from, FALSE)
<1> DEFINE c == t[k.from]
<1>1. c \in Chars /\ k.from \in Nat /\ k.to \in Nat /\ k.from <= k.to
  BY DEF Fine, Tokens
<1>2. /\ Goes(p, r, c) /\ p.state \in 0 .. 13 /\ r.state \in 0 .. 13
      /\ r.state \notin {2, 12, 13} => r.tag = p.tag
  BY <1>1, SoundGoes
<1>3. Sound(r)
  BY <1>1, SoundStep
<1> HIDE DEF c
<1>4. CASE k.kind = "text"
  <2>1. c # "<"
    BY <1>1, <1>4 DEF Fine, Shaped, Without, c
  <2>2. r.state = 0 /\ "INNER_TEXT" \in r.part /\ "VALUE_ENDED" \notin r.part /\ r.tag = p.tag
    BY <1>2, <2>1 DEF Goes
  <2> QED BY <1>4, <2>2 DEF Place, TagRight
<1>5. CASE k.kind \in {"comment", "open"}
  <2>1. c = "<"
    BY <1>5 DEF Fine, Shaped, IsComment, IsOpen, c
  <2>2. r.state = 1 /\ "VALUE_ENDED" \notin r.part /\ r.tag = p.tag
    BY <1>2, <2>1 DEF Goes
  <2>3. r.tag # Script
    BY <1>3, <2>2 DEF Sound, NameInv
  <2> QED BY <1>5, <2>2, <2>3 DEF Place, TagRight
<1> QED BY <1>4, <1>5 DEF Outside

\* The first character of an attribute or of the end of a tag.
LEMMA StepInTag ==
  ASSUME NEW t \in Seq(Chars), NEW k, Fine(t, k), k.kind \in {"attr", "close"},
         NEW p, Sound(p), p.state \in {2, 3, 4, 8} \/ (p.state = 13 /\ p.eq = Len(Script)),
         TagRight(p, k),
         NEW r, r = CharParse(p, t[k.from])
  PROVE  /\ Place(r, t, k, k.from, p.state = 8)
         /\ r.tag = p.tag /\ r.attr = p.attr
<1> DEFINE c == t[k.from]
<1>1. c \in Chars /\ k.from \in Nat /\ k.at \in Nat /\ k.to \in Nat /\ k.from <= k.to
  BY DEF Fine, Tokens
<1>2. /\ Goes(p, r, c) /\ p.state \in 0 .. 13 /\ r.state \in 0 .. 13
      /\ r.state \notin {2, 12, 13} => r.tag = p.tag
      /\ r.state \notin {2, 4, 12} => r.attr = p.attr
  BY <1>1, SoundGoes
<1> HIDE DEF c
<1>3. /\ c \in Spaces \/ c = ">"
      /\ k.kind = "attr" => c \in Spaces /\ k.from < k.at
      /\ k.kind = "close" => (c = ">" <=> k.from = k.to)
  <2>1. CASE k.kind = "attr"
    BY <1>1, <2>1 DEF Fine, Shaped, IsAttr, Blank, c
  <2>2. CASE k.kind = "close"
    <3>1. IsClose(t, k)
      BY <2>2 DEF Fine, Shaped
    <3>2. k.from # k.to => c \in Spaces
      BY <1>1, <3>1 DEF IsClose, Blank, c
    <3>3. k.from = k.to => c = ">"
      BY <3>1 DEF IsClose, c
    <3> QED BY <2>2, <3>2, <3>3, Apart
  <2> QED BY <2>1, <2>2
<1>4. r.state = IF c = ">" THEN 0 ELSE 3
  BY <1>2, <1>3, Apart DEF Goes
<1>5. "VALUE_ENDED" \in r.part <=> p.state = 8
  BY <1>2, <1>4 DEF Goes
<1>6. r.state = 0 => "TAG_END" \in r.part
  BY <1>2, <1>3, <1>4, Apart DEF Goes
<1>7. r.tag = p.tag /\ r.attr = p.attr
  BY <1>2, <1>4
<1>8. CASE k.kind = "attr"
  <2>1. r.state = 3
    BY <1>3, <1>4, <1>8, Apart
  <2> QED BY <1>3, <1>5, <1>7, <1>8, <2>1 DEF Place, TagRight
<1>9. CASE k.kind = "close"
  BY <1>3, <1>4, <1>5, <1>6, <1>7, <1>9 DEF Place, TagRight
<1> QED BY <1>7, <1>8, <1>9

\* The first character of the token behind another one.  A value without
\* quotes has ended there.
LEMMA StepOn ==
  ASSUME NEW t \in Seq(Chars), NEW b, Fine(t, b), NEW k, Fine(t, k), Joins(b, k), k.tag # TagImg,
         NEW p, Sound(p), NEW e, Place(p, t, b, b.to, e),
         NEW r, r = CharParse(p, t[k.from])
  PROVE  /\ Place(r, t, k, k.from, b.kind = "unquoted")
         /\ b.kind = "unquoted" => TagRight(r, b) /\ AttrRight(r, b)
<1> DEFINE c == t[k.from]
<1>1. /\ c \in Chars /\ k.from \in Nat /\ k.at \in Nat /\ k.to \in Nat /\ k.from <= k.to
      /\ b.from \in Nat /\ b.at \in Nat /\ b.to \in Nat /\ b.from <= b.to
      /\ b.kind \in Kinds /\ k.kind \in Kinds
      /\ b.tag \in Seq(Chars) /\ b.attr \in Seq(Chars)
  BY DEF Fine, Tokens
<1>2. /\ k.kind \in After(b)
      /\ k.kind \notin {"open", "raw"} => k.tag = b.tag
      /\ k.kind # "attr" => k.attr = b.attr
  BY DEF Joins
<1>3. CASE b.kind \in {"text", "comment"} \/ (b.kind = "close" /\ b.tag # Script)
  <2>1. p.state = 0 /\ TagRight(p, b) /\ k.kind \in Outside
    BY <1>1, <1>2, <1>3 DEF Place, After, Fine, Shaped, IsComment
  <2>2. p.eq # Len(Script)
    <3>1. CASE b.kind = "text"
      <4>1. "INNER_TEXT" \in p.part
        BY <3>1 DEF Place
      <4>2. "TAG_END" \notin p.part
        BY <4>1 DEF Sound, PartsAgree
      <4> QED BY <2>1, <4>2 DEF Sound, NameInv
    <3>2. CASE b.kind = "comment"
      <4>1. p.tag # Script
        BY <3>2 DEF Place
      <4> QED BY <2>1, <4>1 DEF Sound, NameInv
    <3>3. CASE b.kind = "close" /\ b.tag # Script
      BY <2>1, <3>3 DEF TagRight, Sound, NameInv
    <3> QED BY <1>3, <3>1, <3>2, <3>3
  <2>3. k.kind # "open" => TagRight(p, k)
    BY <1>2, <2>1 DEF Outside, TagRight
  <2>4. Place(r, t, k, k.from, FALSE)
    BY <2>1, <2>2, <2>3, StepOutside DEF TagRight
  <2>5. b.kind # "unquoted"
    BY <1>3
  <2>6. (b.kind = "unquoted") = FALSE
    BY <2>5
  <2> QED BY <2>4, <2>5, <2>6
<1>4. CASE b.kind = "close" /\ b.tag = Script
  <2>1. p.state = 0 /\ p.tag = Script /\ p.tag # TagImg /\ k.kind = "raw"
    BY <1>2, <1>4 DEF Place, TagRight, After
  <2>2. p.eq = Len(Script)
    BY <2>1 DEF Sound, NameInv
  <2>3. r.state \in {10, 11} /\ "VALUE_ENDED" \notin r.part
    BY <1>1, <2>1, <2>2, CharGoes DEF Sound
  <2>4. r.tag = p.tag
    BY <1>1, <2>3, CharBuffers DEF Sound
  <2>5. k.from # k.to
    <3>1. k.to - Len(Script) - 1 >= k.from /\ Len(Script) \in Nat
      BY <2>1, ScriptFacts DEF Fine, Shaped, IsRaw, EndTagAt
    <3> QED BY <1>1, <3>1
  <2> QED BY <1>4, <2>1, <2>3, <2>4, <2>5 DEF Place
<1>5. CASE k.kind \in {"attr", "close"} /\ b.kind \in {"open", "raw", "attr", "unquoted", "quoted"}
  <2>1. k.tag = b.tag
    BY <1>2, <1>5
  <2>2. /\ p.state \in {2, 3, 4, 8} \/ (p.state = 13 /\ p.eq = Len(Script))
        /\ TagRight(p, k) /\ (p.state = 8 <=> b.kind = "unquoted")
    <3>1. CASE b.kind = "open"
      <4>1. IsOpen(t, b)
        BY <3>1 DEF Fine, Shaped
      <4>2. p.state = 2 /\ Holds(p.tag, b.tag, b.to - b.from, Caps.tag)
        BY <1>1, <3>1, <4>1 DEF Place, IsOpen
      <4>3. Len(b.tag) = b.to - b.from
        <5>1. b.to - (b.from + 1) + 1 = b.to - b.from /\ b.to - b.from \in Nat
          BY <1>1
        <5>2. b.tag = [j \in 1 .. b.to - b.from |-> Lower[t[(b.from + 1) + j - 1]]]
          BY <4>1, <5>1 DEF IsOpen, Lowered
        <5> QED BY <1>1, <5>1, <5>2
      <4>4. Holds(p.tag, b.tag, Len(b.tag), Caps.tag)
        BY <4>2, <4>3
      <4>5. /\ p.tag = TagA <=> b.tag = TagA
            /\ p.tag = TagImg <=> b.tag = TagImg
            /\ p.tag = Script <=> b.tag = Script
        BY <1>1, <4>4, HoldsAll, NamesFacts
      <4> QED BY <2>1, <3>1, <4>2, <4>5 DEF TagRight
    <3>2. CASE b.kind = "raw"
      <4>1. p.state = 13 /\ p.eq = Len(Script)
        BY <3>2 DEF Place
      <4>2. p.tag # <<>> /\ p.tag[1] = "/"
        BY <4>1 DEF Sound, NameInv
      <4>3. b.tag # <<>> /\ b.tag[1] = "/"
        <5>1. b.tag = Tail(End) /\ Len(End) > 1 /\ End \in Seq(Chars) /\ End[2] = "/"
          BY <3>2, EndFacts, ScriptFacts DEF Fine, Shaped, IsRaw, EndTag, End
        <5>2. /\ Tail(End) \in Seq(Chars) /\ Len(Tail(End)) = Len(End) - 1
              /\ \A x \in 1 .. Len(Tail(End)) : Tail(End)[x] = End[x + 1]
          <6>1. End # <<>>
            BY <5>1
          <6> QED BY <5>1, <6>1, HeadTailProperties
        <5>3. Len(Tail(End)) > 0 /\ 1 \in 1 .. Len(Tail(End)) /\ 1 + 1 = 2
          BY <5>1, <5>2
        <5>4. \A v \in Seq(Chars) : Len(v) > 0 => v # <<>>
          OBVIOUS
        <5>5. Tail(End)[1] = "/"
          BY <5>1, <5>2, <5>3, Zenon
        <5>6. Tail(End) # <<>>
          BY <5>2, <5>3, <5>4, Zenon
        <5> QED BY <5>1, <5>5, <5>6
      <4>4. /\ p.tag # TagA /\ p.tag # TagImg /\ p.tag # Script
            /\ b.tag # TagA /\ b.tag # TagImg /\ b.tag # Script
        BY <4>2, <4>3, NamesFacts
      <4> QED BY <2>1, <3>2, <4>1, <4>4 DEF TagRight
    <3>3. CASE b.kind = "attr"
      <4>1. p.state = 4 /\ TagRight(p, b)
        BY <1>1, <3>3 DEF Place, Fine, Shaped, IsAttr
      <4> QED BY <2>1, <3>3, <4>1 DEF TagRight
    <3>4. CASE b.kind = "unquoted"
      BY <2>1, <3>4 DEF Place, TagRight
    <3>5. CASE b.kind = "quoted"
      BY <2>1, <3>5 DEF Place, TagRight
    <3> QED BY <1>5, <3>1, <3>2, <3>3, <3>4, <3>5
  <2>3. Place(r, t, k, k.from, p.state = 8) /\ r.tag = p.tag /\ r.attr = p.attr
    BY <1>5, <2>2, StepInTag
  <2>4. Place(r, t, k, k.from, b.kind = "unquoted")
    BY <2>2, <2>3 DEF Place
  <2>5. b.kind = "unquoted" => TagRight(p, b) /\ AttrRight(p, b)
    BY DEF Place
  <2> QED BY <2>3, <2>4, <2>5 DEF TagRight, AttrRight
<1>6. CASE k.kind = "equals" /\ b.kind = "attr"
  <2>1. p.state = 4 /\ TagRight(p, b) /\ Holds(p.attr, b.attr, b.to - b.at + 1, Caps.attr)
    BY <1>1, <1>6 DEF Place, Fine, Shaped, IsAttr
  <2>2. Len(b.attr) = b.to - b.at + 1
    <3>1. b.attr = [j \in 1 .. b.to - b.at + 1 |-> Lower[t[b.at + j - 1]]] /\ b.at <= b.to
      BY <1>6 DEF Fine, Shaped, IsAttr, Lowered
    <3> QED BY <1>1, <3>1
  <2>3. Holds(p.attr, b.attr, Len(b.attr), Caps.attr)
    BY <2>1, <2>2
  <2>4. p.attr = Href <=> b.attr = Href
    BY <1>1, <2>3, HoldsAll, NamesFacts
  <2>5. /\ Goes(p, r, c) /\ p.state \in 0 .. 13 /\ r.state \in 0 .. 13
        /\ r.state \notin {2, 12, 13} => r.tag = p.tag
        /\ r.state \notin {2, 4, 12} => r.attr = p.attr
    <3>1. ~ (p.state = 0 /\ p.eq = Len(Script)) /\ c \in Chars /\ r = CharParse(p, c)
      BY <1>1, <2>1
    <3> HIDE DEF c
    <3> QED BY <3>1, SoundGoes
  <2>6. IF k.from < k.at THEN c \in Spaces ELSE c = "="
    <3>1. IsEquals(t, k)
      BY <1>6 DEF Fine, Shaped
    <3>2. k.from < k.at => k.from \in k.from .. k.at - 1
      BY <1>1
    <3>3. ~ (k.from < k.at) => k.from = k.at
      BY <1>1, <3>1 DEF IsEquals
    <3> QED BY <3>1, <3>2, <3>3 DEF IsEquals, Blank
  <2>7. r.state = (IF k.from < k.at THEN 3 ELSE 5) /\ "VALUE_ENDED" \notin r.part
    BY <2>1, <2>5, <2>6, Apart DEF Goes
  <2>8. TagRight(r, k) /\ AttrRight(r, k)
    BY <1>2, <1>6, <2>1, <2>4, <2>5, <2>7 DEF TagRight, AttrRight
  <2> HIDE DEF c
  <2> QED BY <1>6, <2>7, <2>8 DEF Place
<1>7. CASE k.kind \in {"unquoted", "quoted"} /\ b.kind = "equals"
  <2>1. p.state = 5 /\ TagRight(p, b) /\ AttrRight(p, b)
    BY <1>1, <1>7 DEF Place, Fine, Shaped, IsEquals
  <2>2. /\ Goes(p, r, c) /\ p.state \in 0 .. 13 /\ r.state \in 0 .. 13
        /\ r.state \notin {2, 12, 13} => r.tag = p.tag
        /\ r.state \notin {2, 4, 12} => r.attr = p.attr
    <3>1. ~ (p.state = 0 /\ p.eq = Len(Script)) /\ c \in Chars /\ r = CharParse(p, c)
      BY <1>1, <2>1
    <3> HIDE DEF c
    <3> QED BY <3>1, SoundGoes
  <2> HIDE DEF c
  <2>5. c = t[k.from]
    BY DEF c
  <2>3. CASE k.kind = "unquoted"
    <3>1. c \notin Quotes /\ c \notin Stops
      BY <1>1, <2>3, <2>5 DEF Fine, Shaped, IsUnquoted, Without
    <3>2. r.state = 8 /\ "VALUE_ENDED" \notin r.part
      BY <2>1, <2>2, <3>1 DEF Goes, Quotes, Stops
    <3>3. TagRight(r, k) /\ AttrRight(r, k)
      BY <1>2, <2>1, <2>2, <2>3, <3>2 DEF TagRight, AttrRight
    <3> QED BY <1>7, <2>3, <3>2, <3>3 DEF Place
  <2>4. CASE k.kind = "quoted"
    <3>1. c \in Quotes /\ k.from # k.to
      BY <1>1, <2>4, <2>5 DEF Fine, Shaped, IsQuoted
    <3>2. r.state = (IF c = "QUOT" THEN 6 ELSE 7) /\ "VALUE_ENDED" \notin r.part
      BY <2>1, <2>2, <3>1, Apart DEF Goes, Quotes
    <3>3. TagRight(r, k) /\ AttrRight(r, k)
      BY <1>2, <2>1, <2>2, <2>4, <3>2 DEF TagRight, AttrRight
    <3> QED BY <1>7, <2>4, <2>5, <3>1, <3>2, <3>3 DEF Place
  <2> QED BY <1>7, <2>3, <2>4
<1> QED BY <1>1, <1>2, <1>3, <1>4, <1>5, <1>6, <1>7 DEF Kinds, After

\* What the adapter sees behind a character of a token: no image, and a link
\* exactly if a value ended that is one of a link.
LEMMA PlaceSeen ==
  ASSUME NEW t, NEW k, NEW j, NEW p, Sound(p), NEW e \in BOOLEAN, Place(p, t, k, j, e)
  PROVE  /\ ~ CmpTag(p, TagImg)
         /\ ~ e /\ ~ (k.kind = "quoted" /\ j = k.to) => ~ LinkEnded(p)
         /\ k.kind = "quoted" /\ j = k.to => (LinkEnded(p) <=> k.tag = TagA /\ k.attr = Href)
         /\ \A b : e /\ TagRight(p, b) /\ AttrRight(p, b) =>
                     (LinkEnded(p) <=> b.tag = TagA /\ b.attr = Href)
<1>1. /\ "VALUE_ENDED" \in p.part => p.state \in {0, 3}
      /\ "NAME" \in p.part <=> p.state = 2
      /\ "ATTRIBUTE" \in p.part <=> p.state = 4
  BY DEF Sound, PartsAgree
<1>2. "VALUE_ENDED" \in p.part <=> e \/ (k.kind = "quoted" /\ j = k.to)
  BY DEF Place
<1>3. \A b : TagRight(p, b) /\ AttrRight(p, b) /\ "VALUE_ENDED" \in p.part =>
              (LinkEnded(p) <=> b.tag = TagA /\ b.attr = Href)
  BY <1>1 DEF TagRight, AttrRight, LinkEnded, CmpTag, CmpAttr, IsIn
<1>4. "VALUE_ENDED" \notin p.part => ~ LinkEnded(p)
  BY DEF LinkEnded, IsIn
<1>5. ~ CmpTag(p, TagImg)
  <2>1. k.kind \notin {"open", "raw"} => p.tag # TagImg
    BY DEF Place, TagRight
  <2>2. k.kind = "raw" => p.tag # TagImg
    BY DEF Place
  <2>3. k.kind = "open" => p.tag # TagImg \/ "NAME" \in p.part
    BY <1>1 DEF Place
  <2> QED BY <2>1, <2>2, <2>3 DEF CmpTag, IsIn
<1>6. k.kind = "quoted" => TagRight(p, k) /\ AttrRight(p, k)
  BY DEF Place
<1> QED BY <1>2, <1>3, <1>4, <1>5, <1>6

-----------------------------------------------------------------------------
\* The tokens of a page with a reading.
LEMMA TokensFine ==
  ASSUME NEW page \in Pages, Reading(page), NEW m \in DOMAIN page.tokens
  PROVE  /\ page.text \in Seq(Chars) /\ page.tokens \in Seq(Tokens) /\ m \in Nat /\ m >= 1
         /\ Fine(page.text, page.tokens[m]) /\ page.tokens[m] \in Tokens
         /\ page.tokens[m].from \in Nat /\ page.tokens[m].to \in Nat
         /\ m > 1 => m - 1 \in DOMAIN page.tokens /\ Joins(page.tokens[m - 1], page.tokens[m])
<1>1. page.text \in Seq(Chars) /\ page.tokens \in Seq(Tokens)
  BY DEF Pages
<1>2. page.tokens[m] \in Tokens /\ m \in Nat /\ m >= 1 /\ m <= Len(page.tokens)
  BY <1>1
<1>3. Fine(page.text, page.tokens[m])
  BY <1>2 DEF Reading, Fine
<1>4. m > 1 => m - 1 \in DOMAIN page.tokens /\ Joins(page.tokens[m - 1], page.tokens[m])
  BY <1>1, <1>2 DEF Reading
<1>5. page.tokens[m].from \in Nat /\ page.tokens[m].to \in Nat
  BY <1>2 DEF Tokens
<1> QED BY <1>1, <1>2, <1>3, <1>4, <1>5

\* They do not overlap.
LEMMA TokensOrdered ==
  ASSUME NEW page \in Pages, Reading(page), NEW a \in DOMAIN page.tokens,
         NEW b \in DOMAIN page.tokens, a < b
  PROVE  page.tokens[a].to < page.tokens[b].from
<1> DEFINE ks == page.tokens
           D == DOMAIN ks
           S == {m \in Nat : m \in D /\ a < m => ks[a].to < ks[m].from}
<1>1. 0 \in S
  BY TokensFine
<1>2. \A m \in Nat : m \in S => m + 1 \in S
  <2> SUFFICES ASSUME NEW m \in Nat, m \in S, m + 1 \in D, a < m + 1
               PROVE  ks[a].to < ks[m + 1].from
    OBVIOUS
  <2>1. a \in Nat /\ a >= 1 /\ (m + 1) - 1 = m
    BY TokensFine
  <2>2. m \in D /\ Joins(ks[m], ks[m + 1])
    BY <2>1, TokensFine
  <2>3. /\ ks[m + 1].from = ks[m].to + 1 /\ ks[m].from <= ks[m].to
        /\ ks[m].to \in Nat /\ ks[m].from \in Nat /\ ks[a].to \in Nat
    BY <2>2, TokensFine DEF Joins, Fine
  <2>4. a = m \/ (a < m /\ ks[a].to < ks[m].from)
    BY <2>1, <2>2
  <2> QED BY <2>3, <2>4
<1> HIDE DEF S
<1>3. b \in S
  BY <1>1, <1>2, NatSetInduction, TokensFine
<1> QED BY <1>3 DEF S

\* Where a value has ended: with its last quote, or else behind it.
EndOf(k) == IF k.kind = "quoted" THEN k.to ELSE k.to + 1
Ending(page, j) == {v \in Values(page, TagA, Href) : EndOf(page.tokens[v]) = j}

\* A value has a character before its end.
LEMMA EndOfValue ==
  ASSUME NEW page \in Pages, Reading(page), NEW v \in Values(page, TagA, Href)
  PROVE  /\ v \in DOMAIN page.tokens /\ page.tokens[v].kind \in {"unquoted", "quoted"}
         /\ page.tokens[v].tag = TagA /\ page.tokens[v].attr = Href
         /\ page.tokens[v].kind = "quoted" => page.tokens[v].from < page.tokens[v].to
         /\ EndOf(page.tokens[v]) \in Nat /\ page.tokens[v].from < EndOf(page.tokens[v])
<1>1. /\ v \in DOMAIN page.tokens /\ page.tokens[v].kind \in {"unquoted", "quoted"}
      /\ page.tokens[v].tag = TagA /\ page.tokens[v].attr = Href
  BY DEF Values
<1>2. /\ page.tokens[v].from \in Nat /\ page.tokens[v].to \in Nat /\ Fine(page.text, page.tokens[v])
  BY <1>1, TokensFine
<1>3. page.tokens[v].kind = "quoted" => page.tokens[v].from < page.tokens[v].to
  BY <1>2 DEF Fine, Shaped, IsQuoted
<1>4. page.tokens[v].from <= page.tokens[v].to
  BY <1>2 DEF Fine
<1> QED BY <1>1, <1>2, <1>3, <1>4 DEF EndOf

\* No two values end at the same place.
LEMMA EndingUnique ==
  ASSUME NEW page \in Pages, Reading(page), NEW j, NEW a \in Ending(page, j), NEW b \in Ending(page, j)
  PROVE  a = b
<1>1. \A v, w \in Values(page, TagA, Href) :
        v < w => EndOf(page.tokens[v]) < EndOf(page.tokens[w])
  <2> SUFFICES ASSUME NEW v \in Values(page, TagA, Href), NEW w \in Values(page, TagA, Href), v < w
               PROVE  EndOf(page.tokens[v]) < EndOf(page.tokens[w])
    OBVIOUS
  <2>1. v \in DOMAIN page.tokens /\ w \in DOMAIN page.tokens /\ page.tokens[w].from < EndOf(page.tokens[w])
        /\ EndOf(page.tokens[w]) \in Nat /\ EndOf(page.tokens[v]) \in Nat
    BY EndOfValue
  <2>2. page.tokens[v].to < page.tokens[w].from /\ page.tokens[v].to \in Nat /\ page.tokens[w].from \in Nat
    BY <2>1, TokensOrdered, TokensFine
  <2>3. EndOf(page.tokens[v]) <= page.tokens[v].to + 1
    BY <2>2 DEF EndOf
  <2> QED BY <2>1, <2>2, <2>3
<1>2. a \in Values(page, TagA, Href) /\ b \in Values(page, TagA, Href)
      /\ EndOf(page.tokens[a]) = j /\ EndOf(page.tokens[b]) = j
  BY DEF Ending
<1>3. a \in Nat /\ b \in Nat /\ j \in Nat
  BY <1>2, EndOfValue, TokensFine
<1> QED BY <1>1, <1>2, <1>3

\* The parser behind the first j characters of a page.
Fresh == [Reset EXCEPT !.cap = Caps]
Stands(page, p, j) ==
  /\ Sound(p)
  /\ \E s \in Seq(Chars) : SinceInv(p, s) /\ Since(s, page.text, j)
  /\ j = 0 => p = Fresh
  /\ j > 0 => \E m \in DOMAIN page.tokens :
                /\ page.tokens[m].from <= j /\ j <= page.tokens[m].to
                /\ \E e \in BOOLEAN : Place(p, page.text, page.tokens[m], j, e)

\* It stands so before the first one.
LEMMA StandsFirst == ASSUME NEW page \in Pages PROVE Stands(page, Fresh, 0)
<1>1. Fresh \in Parsers /\ Fits(Fresh)
  BY ResetType, ResetFits, CapsAssumption DEF Fresh
<1>2. /\ Fresh.state = 0 /\ Fresh.part = {} /\ Fresh.eq = 0 /\ Fresh.tag = <<>> /\ Fresh.cap = Caps
  BY DEF Fresh, Reset
<1>3. Len(Script) # 0 /\ Script # <<>> /\ Most \in Nat /\ Len(Script) \in Nat
  BY ScriptFacts, ScriptAssumption DEF Most
<1>4. PartsAgree(Fresh) /\ NameInv(Fresh)
  BY <1>2, <1>3 DEF PartsAgree, NameInv
<1>5. <<>> \in Seq(Chars) /\ Len(<<>>) = 0
  OBVIOUS
<1>6. SinceInv(Fresh, <<>>)
  BY <1>2, <1>3, <1>5 DEF SinceInv
<1>7. Since(<<>>, page.text, 0)
  <2>1. Holds(<<>>, Lowered(page.text, 1, Len(page.text)), 0 - 1 + 1, Most)
    BY <1>3, HoldsNothing
  <2> QED BY <2>1 DEF Since
<1>8. Sound(Fresh)
  BY <1>1, <1>2, <1>4 DEF Sound
<1>9. ~ (0 > 0)
  OBVIOUS
<1> QED BY <1>5, <1>6, <1>7, <1>8, <1>9, Zenon DEF Stands

\* What the adapter does in the buffer does not matter.
LEMMA StandsWorked ==
  ASSUME NEW page, NEW p, NEW j \in Nat, j > 0, Stands(page, p, j), Sound(Worked(p))
  PROVE  Stands(page, Worked(p), j)
<1>1. /\ Worked(p).state = p.state /\ Worked(p).part = p.part /\ Worked(p).eq = p.eq
      /\ Worked(p).tag = p.tag /\ Worked(p).attr = p.attr
  BY WorkedType DEF Stands, Sound
<1>2. \A s : SinceInv(p, s) => SinceInv(Worked(p), s)
  BY <1>1 DEF SinceInv
<1>3. \A k, e : Place(p, page.text, k, j, e) => Place(Worked(p), page.text, k, j, e)
  BY <1>1 DEF Place, TagRight, AttrRight
<1> QED BY <1>2, <1>3 DEF Stands

\* Its first token begins a page.
LEMMA StandsAtFirst ==
  ASSUME NEW page \in Pages, Reading(page), ~ HasTag(page, TagImg),
         NEW r, r = CharParse(Fresh, page.text[1])
  PROVE  \E m \in DOMAIN page.tokens :
           /\ page.tokens[m].from <= 1 /\ 1 <= page.tokens[m].to
           /\ Place(r, page.text, page.tokens[m], 1, FALSE)
           /\ ~ LinkEnded(r) /\ ~ CmpTag(r, TagImg) /\ Ending(page, 1) = {}
<1> DEFINE k == page.tokens[1]
<1>1. 1 \in DOMAIN page.tokens /\ k.from = 1 /\ k.kind \in Outside /\ (k.kind # "open" => k.tag = <<>>)
  <2>1. page.tokens \in Seq(Tokens) /\ page.tokens # <<>>
    BY DEF Pages, Reading
  <2>2. Len(page.tokens) \in Nat /\ Len(page.tokens) # 0
    BY <2>1, EmptySeq
  <2> QED BY <2>1, <2>2 DEF Reading
<1>2. /\ Fine(page.text, k) /\ page.text \in Seq(Chars) /\ k.to \in Nat /\ k.from <= k.to
  BY <1>1, TokensFine DEF Fine
<1>3. /\ Fresh.state = 0 /\ Fresh.eq = 0 /\ Fresh.tag = <<>> /\ Sound(Fresh)
  BY StandsFirst DEF Fresh, Reset, Stands
<1>4. Len(Script) # 0 /\ TagA # <<>> /\ TagImg # <<>> /\ Script # <<>>
  BY NamesFacts, ScriptFacts
<1>5. k.kind # "open" => TagRight(Fresh, k)
  BY <1>1, <1>3, <1>4 DEF TagRight
<1> HIDE DEF k
<1>6. Place(r, page.text, k, 1, FALSE)
  BY <1>1, <1>2, <1>3, <1>4, <1>5, StepOutside
<1>7. page.text[1] \in Chars
  BY <1>1, <1>2 DEF Fine
<1>8. Sound(r)
  BY <1>3, <1>7, SoundStep
<1>9. ~ CmpTag(r, TagImg) /\ ~ LinkEnded(r)
  BY <1>1, <1>6, <1>8, PlaceSeen DEF Outside
<1>10. Ending(page, 1) = {}
  <2> SUFFICES ASSUME NEW v \in Ending(page, 1) PROVE FALSE
    OBVIOUS
  <2>1. v \in Values(page, TagA, Href) /\ EndOf(page.tokens[v]) = 1
    BY DEF Ending
  <2>2. /\ page.tokens[v].from < 1 /\ v \in DOMAIN page.tokens
    BY <2>1, EndOfValue
  <2>3. page.tokens[v].from \in Nat /\ 1 <= page.tokens[v].from
    BY <2>2, TokensFine DEF Fine
  <2> QED BY <2>2, <2>3
<1>11. k.from <= 1 /\ 1 <= k.to
  BY <1>1, <1>2
<1>12. k = page.tokens[1]
  BY DEF k
<1> QED BY <1>1, <1>6, <1>9, <1>10, <1>11, <1>12, Zenon

\* A script stands behind the end of a tag.
LEMMA ScriptBehind ==
  ASSUME NEW page \in Pages, Reading(page), NEW m \in DOMAIN page.tokens, page.tokens[m].kind = "raw"
  PROVE  page.tokens[m].from > 1 /\ page.text[page.tokens[m].from - 1] = ">"
<1>1. m # 1
  BY DEF Reading, Outside
<1>2. m > 1 /\ m - 1 \in DOMAIN page.tokens /\ Joins(page.tokens[m - 1], page.tokens[m])
  BY <1>1, TokensFine
<1>3. page.tokens[m - 1].kind = "close" /\ page.tokens[m].from = page.tokens[m - 1].to + 1
  BY <1>2 DEF Joins, After, Outside
<1>4. /\ page.tokens[m - 1].to \in Nat /\ page.tokens[m - 1].to >= 1
      /\ page.text[page.tokens[m - 1].to] = ">"
  <2>1. Fine(page.text, page.tokens[m - 1]) /\ page.tokens[m - 1].to \in Nat /\ page.tokens[m - 1].from \in Nat
    BY <1>2, TokensFine
  <2> QED BY <1>3, <2>1 DEF Fine, Shaped, IsClose
<1> QED BY <1>3, <1>4

\* Behind every character of a known page the parser stands where the tokens
\* say, no image is seen, and a link exactly where the value of one has ended.
LEMMA StandsOn ==
  ASSUME NEW page \in Pages, Reading(page), ~ HasTag(page, TagImg),
         NEW j \in Nat, j < Len(page.text), NEW p, Stands(page, p, j),
         NEW r, r = CharParse(p, page.text[j + 1])
  PROVE  /\ Stands(page, r, j + 1) /\ Sound(Worked(r)) /\ ~ CmpTag(r, TagImg)
         /\ LinkEnded(r) <=> Ending(page, j + 1) # {}
<1> DEFINE t == page.text
           ks == page.tokens
           here(m) == /\ ks[m].from <= j + 1 /\ j + 1 <= ks[m].to
                      /\ \E e \in BOOLEAN : Place(r, t, ks[m], j + 1, e)
<1>1. t \in Seq(Chars) /\ t[j + 1] \in Chars /\ Sound(p)
  <2>1. t \in Seq(Chars)
    BY DEF Pages
  <2> QED BY <2>1 DEF Stands
<1>2. Sound(r) /\ Sound(Worked(r))
  BY <1>1, SoundStep
<1>3. PICK s \in Seq(Chars) : SinceInv(p, s) /\ Since(s, t, j)
  BY DEF Stands
<1>4. \E s2 \in Seq(Chars) : SinceInv(r, s2) /\ Since(s2, t, j + 1)
  <2>1. SinceNext(s, t[j + 1]) \in Seq(Chars) /\ SinceInv(r, SinceNext(s, t[j + 1]))
    BY <1>1, <1>3, SinceType, SinceStep DEF Sound
  <2>2. Since(SinceNext(s, t[j + 1]), t, j + 1)
    BY <1>1, <1>3, SinceOn
  <2> QED BY <2>1, <2>2
<1>8. ASSUME NEW k, NEW e \in BOOLEAN, Place(r, t, k, j + 1, e)
      PROVE  /\ ~ CmpTag(r, TagImg)
             /\ ~ e /\ ~ (k.kind = "quoted" /\ j + 1 = k.to) => ~ LinkEnded(r)
             /\ k.kind = "quoted" /\ j + 1 = k.to => (LinkEnded(r) <=> k.tag = TagA /\ k.attr = Href)
             /\ \A b : e /\ TagRight(r, b) /\ AttrRight(r, b) =>
                         (LinkEnded(r) <=> b.tag = TagA /\ b.attr = Href)
  BY <1>2, <1>8, PlaceSeen
<1>5. SUFFICES /\ \E m \in DOMAIN ks : here(m)
               /\ ~ CmpTag(r, TagImg) /\ (LinkEnded(r) <=> Ending(page, j + 1) # {})
  BY <1>2, <1>4 DEF Stands
<1>6. CASE j = 0
  <2>1. p = Fresh /\ j + 1 = 1
    BY <1>6 DEF Stands
  <2>2. r = CharParse(Fresh, page.text[1])
    BY <2>1
  <2>3. PICK m \in DOMAIN page.tokens :
           /\ page.tokens[m].from <= 1 /\ 1 <= page.tokens[m].to
           /\ Place(r, page.text, page.tokens[m], 1, FALSE)
           /\ ~ LinkEnded(r) /\ ~ CmpTag(r, TagImg) /\ Ending(page, 1) = {}
    BY <2>2, StandsAtFirst
  <2>4. here(m)
    BY <2>1, <2>3
  <2> QED BY <2>1, <2>3, <2>4
<1>7. CASE j > 0
  <2>1. PICK m \in DOMAIN ks : /\ ks[m].from <= j /\ j <= ks[m].to
                               /\ \E e \in BOOLEAN : Place(p, t, ks[m], j, e)
    BY <1>7 DEF Stands
  <2>2. PICK e \in BOOLEAN : Place(p, t, ks[m], j, e)
    BY <2>1
  <2>3. /\ Fine(t, ks[m]) /\ ks[m].from \in Nat /\ ks[m].to \in Nat /\ m \in Nat
    BY TokensFine
  <2>4. ASSUME NEW v \in Ending(page, j + 1)
        PROVE  /\ v \in DOMAIN ks /\ ks[v].from \in Nat /\ ks[v].to \in Nat /\ v \in Nat
               /\ ks[v].tag = TagA /\ ks[v].attr = Href
               /\ \/ ks[v].kind = "quoted" /\ ks[v].to = j + 1 /\ ks[v].from < ks[v].to
                  \/ ks[v].kind = "unquoted" /\ ks[v].to = j /\ ks[v].from <= ks[v].to
    <3>1. v \in Values(page, TagA, Href) /\ EndOf(ks[v]) = j + 1
      BY DEF Ending
    <3>2. /\ v \in DOMAIN ks /\ ks[v].kind \in {"unquoted", "quoted"} /\ ks[v].tag = TagA /\ ks[v].attr = Href
          /\ ks[v].kind = "quoted" => ks[v].from < ks[v].to
          /\ ks[v].from < EndOf(ks[v])
      BY <3>1, EndOfValue
    <3>3. ks[v].from \in Nat /\ ks[v].to \in Nat /\ v \in Nat
      BY <3>2, TokensFine
    <3> QED BY <3>1, <3>2, <3>3 DEF EndOf
  <2>5. \A v \in DOMAIN ks : /\ ks[v].kind \in {"unquoted", "quoted"} /\ ks[v].tag = TagA /\ ks[v].attr = Href
                             /\ EndOf(ks[v]) = j + 1
                             => v \in Ending(page, j + 1)
    BY DEF Ending, Values
  <2>6. CASE j < ks[m].to
    <3>1. Place(r, t, ks[m], j + 1, FALSE)
      <4>1. CASE ks[m].kind = "raw"
        BY <1>1, <1>3, <2>1, <2>2, <2>3, <2>6, <4>1, ScriptBehind, StepScript
      <4>2. CASE ks[m].kind # "raw"
        BY <1>1, <2>1, <2>2, <2>3, <2>6, <4>2, StepWithin
      <4> QED BY <4>1, <4>2
    <3>2. here(m)
      <4>1. ks[m].from <= j + 1 /\ j + 1 <= ks[m].to
        BY <2>1, <2>3, <2>6
      <4>2. \E d \in BOOLEAN : Place(r, t, ks[m], j + 1, d)
        BY <3>1
      <4> QED BY <4>1, <4>2
    <3>3. /\ ~ CmpTag(r, TagImg)
          /\ ~ (ks[m].kind = "quoted" /\ j + 1 = ks[m].to) => ~ LinkEnded(r)
          /\ ks[m].kind = "quoted" /\ j + 1 = ks[m].to =>
               (LinkEnded(r) <=> ks[m].tag = TagA /\ ks[m].attr = Href)
      <4>1. FALSE \in BOOLEAN
        OBVIOUS
      <4> HIDE DEF t, ks
      <4> QED BY <1>8, <3>1, <4>1
    <3>4. ASSUME NEW v \in Ending(page, j + 1) PROVE v = m /\ ks[m].kind = "quoted" /\ j + 1 = ks[m].to
      <4>1. v < m => ks[v].to < ks[m].from
        BY <2>4, TokensOrdered
      <4>2. m < v => ks[m].to < ks[v].from
        BY <2>4, TokensOrdered
      <4>3. v = m
        BY <2>1, <2>3, <2>4, <2>6, <4>1, <4>2
      <4> QED BY <2>3, <2>4, <2>6, <4>3
    <3>5. ks[m].kind = "quoted" /\ j + 1 = ks[m].to /\ ks[m].tag = TagA /\ ks[m].attr = Href
            => m \in Ending(page, j + 1)
      BY <2>5 DEF EndOf
    <3>6. Ending(page, j + 1) # {} =>
            ks[m].kind = "quoted" /\ j + 1 = ks[m].to /\ ks[m].tag = TagA /\ ks[m].attr = Href
      BY <2>4, <3>4
    <3> QED BY <3>2, <3>3, <3>5, <3>6
  <2>7. CASE j = ks[m].to
    <3> DEFINE b == ks[m]
               k == ks[m + 1]
    <3>1. /\ m + 1 \in DOMAIN ks /\ Joins(b, k) /\ Fine(t, k)
          /\ k.from = j + 1 /\ k.to \in Nat /\ k.from <= k.to /\ k.tag # TagImg
      <4>1. ks \in Seq(Tokens) /\ ks[Len(ks)].to = Len(t)
        BY TokensFine DEF Reading
      <4>2. m + 1 \in DOMAIN ks /\ m + 1 > 1 /\ (m + 1) - 1 = m
        BY <2>3, <2>7, <4>1
      <4>3. Joins(b, k) /\ Fine(t, k) /\ k.to \in Nat
        BY <4>2, TokensFine
      <4> QED BY <2>7, <4>2, <4>3 DEF Joins, Fine, HasTag
    <3>2. /\ Place(r, t, k, j + 1, b.kind = "unquoted")
          /\ b.kind = "unquoted" => TagRight(r, b) /\ AttrRight(r, b)
      <4>1. Fine(t, b) /\ Place(p, t, b, b.to, e) /\ r = CharParse(p, t[k.from])
        BY <2>2, <2>3, <2>7, <3>1
      <4> HIDE DEF b, k, t
      <4>2. /\ Place(r, t, k, k.from, b.kind = "unquoted")
            /\ b.kind = "unquoted" => TagRight(r, b) /\ AttrRight(r, b)
        BY <1>1, <3>1, <4>1, StepOn
      <4> QED BY <3>1, <4>2
    <3>3. here(m + 1)
      <4>1. (b.kind = "unquoted") \in BOOLEAN
        OBVIOUS
      <4>2. \E d \in BOOLEAN : Place(r, t, k, j + 1, d)
        BY <3>2, <4>1
      <4> QED BY <3>1, <4>2
    <3>4. ~ (k.kind = "quoted" /\ j + 1 = k.to)
      BY <3>1 DEF Fine, Shaped, IsQuoted
    <3>5. /\ ~ CmpTag(r, TagImg)
          /\ b.kind # "unquoted" => ~ LinkEnded(r)
          /\ b.kind = "unquoted" => (LinkEnded(r) <=> b.tag = TagA /\ b.attr = Href)
      <4> HIDE DEF t, b, k
      <4>1. CASE b.kind = "unquoted"
        <5>1. Place(r, t, k, j + 1, TRUE) /\ TRUE \in BOOLEAN
          BY <3>2, <4>1
        <5> QED BY <1>8, <3>2, <4>1, <5>1
      <4>2. CASE b.kind # "unquoted"
        <5>1. Place(r, t, k, j + 1, FALSE) /\ FALSE \in BOOLEAN
          BY <3>2, <4>2
        <5> QED BY <1>8, <3>4, <4>2, <5>1
      <4> QED BY <4>1, <4>2
    <3>6. ASSUME NEW v \in Ending(page, j + 1) PROVE v = m /\ b.kind = "unquoted"
      <4>1. v < m => ks[v].to < ks[m].from
        BY <2>4, TokensOrdered
      <4>2. m + 1 < v => k.to < ks[v].from
        BY <2>4, <3>1, TokensOrdered
      <4>3. v < m \/ v = m \/ v = m + 1 \/ m + 1 < v
        BY <2>3, <2>4
      <4>4. v # m + 1
        BY <2>4, <3>1
      <4>5. ~ (v < m) /\ ~ (m + 1 < v)
        <5>1. ASSUME v < m PROVE FALSE
          <6>1. ks[v].to < ks[m].from /\ ks[m].from <= j /\ (ks[v].to = j \/ ks[v].to = j + 1)
            BY <2>1, <2>4, <4>1, <5>1
          <6> QED BY <2>3, <2>4, <6>1
        <5>2. ASSUME m + 1 < v PROVE FALSE
          <6>1. k.to < ks[v].from /\ ks[v].from <= j + 1 /\ k.from = j + 1 /\ k.from <= k.to /\ k.to \in Nat
            BY <2>4, <3>1, <4>2, <5>2
          <6> HIDE DEF k
          <6> QED BY <2>4, <6>1
        <5> QED BY <5>1, <5>2
      <4>6. v = m
        BY <4>3, <4>4, <4>5
      <4> QED BY <2>3, <2>4, <2>7, <4>6
    <3>7. b.kind = "unquoted" /\ b.tag = TagA /\ b.attr = Href => m \in Ending(page, j + 1)
      BY <2>5, <2>7 DEF EndOf
    <3>8. Ending(page, j + 1) # {} => b.kind = "unquoted" /\ b.tag = TagA /\ b.attr = Href
      BY <2>4, <3>6
    <3> QED BY <3>1, <3>3, <3>5, <3>7, <3>8
  <2> QED BY <2>1, <2>3, <2>6, <2>7
<1> QED BY <1>6, <1>7

-----------------------------------------------------------------------------
\* The values that have ended within the first j characters.
FoundBy(page, j) == {v \in Values(page, TagA, Href) : EndOf(page.tokens[v]) <= j}

\* Each character ends at most one more, and all have ended with the page.
LEMMA FoundNext ==
  ASSUME NEW page \in Pages, Reading(page), NEW j \in Nat
  PROVE  /\ Cardinality(FoundBy(page, 0)) = 0 /\ Cardinality(FoundBy(page, j)) \in Nat
         /\ Cardinality(FoundBy(page, j + 1)) =
              Cardinality(FoundBy(page, j)) + (IF Ending(page, j + 1) # {} THEN 1 ELSE 0)
         /\ FoundBy(page, Len(page.text)) = Values(page, TagA, Href)
<1> DEFINE V == Values(page, TagA, Href)
           end(v) == EndOf(page.tokens[v])
<1>1. \A v \in V : v \in DOMAIN page.tokens /\ end(v) \in Nat /\ end(v) > 0
  <2> SUFFICES ASSUME NEW v \in V PROVE v \in DOMAIN page.tokens /\ end(v) \in Nat /\ end(v) > 0
    OBVIOUS
  <2>1. v \in DOMAIN page.tokens /\ end(v) \in Nat /\ page.tokens[v].from < end(v)
    BY EndOfValue
  <2>2. page.tokens[v].from \in Nat
    BY <2>1, TokensFine
  <2> QED BY <2>1, <2>2
<1>2. IsFiniteSet(V)
  <2>1. page.tokens \in Seq(Tokens)
    BY DEF Pages
  <2>2. Len(page.tokens) \in Nat /\ DOMAIN page.tokens = 1 .. Len(page.tokens)
    BY <2>1
  <2>3. IsFiniteSet(1 .. Len(page.tokens))
    BY <2>2, FS_Interval
  <2>4. V \subseteq 1 .. Len(page.tokens)
    BY <1>1, <2>2
  <2> QED BY <2>3, <2>4, FS_Subset
<1>3. FoundBy(page, 0) = {}
  BY <1>1 DEF FoundBy
<1>4. IsFiniteSet(FoundBy(page, j)) /\ Cardinality(FoundBy(page, j)) \in Nat
  <2>1. FoundBy(page, j) \subseteq V
    BY DEF FoundBy
  <2> QED BY <1>2, <2>1, FS_Subset, FS_CardinalityType
<1>5. Cardinality(FoundBy(page, j + 1)) =
        Cardinality(FoundBy(page, j)) + (IF Ending(page, j + 1) # {} THEN 1 ELSE 0)
  <2>1. FoundBy(page, j + 1) = FoundBy(page, j) \cup Ending(page, j + 1)
    <3>1. \A v \in V : end(v) <= j + 1 <=> end(v) <= j \/ end(v) = j + 1
      BY <1>1
    <3> QED BY <3>1 DEF FoundBy, Ending
  <2>2. CASE Ending(page, j + 1) = {}
    BY <1>4, <2>1, <2>2
  <2>3. CASE Ending(page, j + 1) # {}
    <3>1. PICK v \in Ending(page, j + 1) : TRUE
      BY <2>3
    <3>2. Ending(page, j + 1) = {v}
      BY <3>1, EndingUnique
    <3>3. v \notin FoundBy(page, j)
      <4>1. end(v) = j + 1
        BY DEF Ending
      <4>2. ~ (end(v) <= j)
        BY <4>1
      <4> QED BY <4>2 DEF FoundBy
    <3>4. Cardinality(FoundBy(page, j) \cup {v}) = Cardinality(FoundBy(page, j)) + 1
      BY <1>4, <3>3, FS_AddElement
    <3> QED BY <2>1, <2>3, <3>2, <3>4
  <2> QED BY <2>2, <2>3
<1>6. FoundBy(page, Len(page.text)) = V
  <2> SUFFICES ASSUME NEW v \in V PROVE end(v) <= Len(page.text)
    BY DEF FoundBy
  <2>1. v \in DOMAIN page.tokens /\ page.tokens[v].kind \in {"unquoted", "quoted"}
    BY EndOfValue
  <2>2. page.tokens \in Seq(Tokens) /\ page.tokens[Len(page.tokens)].kind = "text"
    BY DEF Pages, Reading
  <2>3. v + 1 \in DOMAIN page.tokens /\ v < v + 1
    <3>1. v # Len(page.tokens)
      BY <2>1, <2>2
    <3> QED BY <2>1, <2>2, <3>1
  <2>4. page.tokens[v].to < page.tokens[v + 1].from
    BY <2>1, <2>3, TokensOrdered
  <2>5. /\ page.tokens[v + 1].from <= page.tokens[v + 1].to
        /\ page.tokens[v + 1].to <= Len(page.text) /\ Len(page.text) \in Nat
        /\ page.tokens[v + 1].from \in Nat /\ page.tokens[v + 1].to \in Nat /\ page.tokens[v].to \in Nat
    <3>1. /\ Fine(page.text, page.tokens[v + 1]) /\ page.text \in Seq(Chars)
          /\ page.tokens[v + 1].from \in Nat /\ page.tokens[v + 1].to \in Nat
      BY <2>3, TokensFine
    <3>2. page.tokens[v].to \in Nat
      BY <2>1, TokensFine
    <3>3. Len(page.text) \in Nat
      BY <3>1
    <3> QED BY <3>1, <3>2, <3>3 DEF Fine
  <2> QED BY <2>4, <2>5 DEF EndOf
<1> QED BY <1>3, <1>4, <1>5, <1>6, FS_EmptySet

\* The run over a known page stays in the outer loop, and has counted the links
\* up to where it is.
Knows(page, q) ==
  /\ q.pc = "for" /\ q.i \in Nat /\ q.i <= Len(page.text) /\ Stands(page, q.p, q.i)
  /\ q.add \in Counts /\ q.add.href = Cardinality(FoundBy(page, q.i))

\* A turn keeps that.
LEMMA KnowsTurn ==
  ASSUME NEW page \in Pages, Reading(page), ~ HasTag(page, TagImg),
         NEW q, Knows(page, q), ~ Stop(page.text, q)
  PROVE  Knows(page, Turn(page.text, q))
<1> DEFINE t == page.text
           p == CharParse(q.p, t[q.i + 1])
           u == [pc |-> "for", i |-> q.i + 1, p |-> Worked(p), img |-> q.img, add |-> Counting(q.add, p)]
<1>1. /\ q.pc = "for" /\ q.i \in Nat /\ q.i < Len(t) /\ Len(t) \in Nat
      /\ Stands(page, q.p, q.i) /\ q.add \in Counts
      /\ q.add.href = Cardinality(FoundBy(page, q.i))
  <2>1. Len(t) \in Nat
    BY DEF Pages
  <2> QED BY <2>1 DEF Knows, Stop
<1>2. /\ Stands(page, p, q.i + 1) /\ Sound(Worked(p)) /\ ~ CmpTag(p, TagImg)
      /\ LinkEnded(p) <=> Ending(page, q.i + 1) # {}
  BY <1>1, StandsOn
<1>3. Turn(t, q) = u
  BY <1>1, <1>2 DEF Turn
<1>4. Stands(page, Worked(p), q.i + 1)
  BY <1>1, <1>2, StandsWorked
<1>5. p \in Parsers
  BY <1>2 DEF Stands, Sound
<1> HIDE DEF p
<1>6. /\ Counting(q.add, p) \in Counts
      /\ Counting(q.add, p).href = IF LinkEnded(p) THEN q.add.href + 1 ELSE q.add.href
  <2>1. Counting(q.add, p) \in Counts
    BY <1>1, <1>5, CountingType DEF Counts
  <2> QED BY <1>1, <2>1 DEF Counting, Counts
<1>7. Counting(q.add, p).href = Cardinality(FoundBy(page, q.i + 1))
  <2>1. /\ Cardinality(FoundBy(page, q.i)) \in Nat
        /\ Cardinality(FoundBy(page, q.i + 1)) =
             Cardinality(FoundBy(page, q.i)) + (IF Ending(page, q.i + 1) # {} THEN 1 ELSE 0)
    BY <1>1, FoundNext
  <2> QED BY <1>1, <1>2, <1>6, <2>1
<1>8. u.pc = "for" /\ u.i = q.i + 1 /\ u.p = Worked(p) /\ u.add = Counting(q.add, p)
  OBVIOUS
<1>9. q.i + 1 \in Nat /\ q.i + 1 <= Len(t)
  BY <1>1
<1> HIDE DEF u
<1>10. Knows(page, u)
  BY <1>4, <1>6, <1>7, <1>8, <1>9 DEF Knows
<1> QED BY <1>3, <1>10

\* So it has wherever the run over the page comes.
LEMMA KnowsReached ==
  ASSUME NEW page \in Pages, Reading(page), ~ HasTag(page, TagImg), NEW q, Reached(page.text, q)
  PROVE  Knows(page, q)
<1>1. PICK m, run : Run(page.text, m, run) /\ run[m] = q
  BY DEF Reached
<1> DEFINE S == {k \in Nat : k <= m => Knows(page, run[k])}
<1>2. 0 \in S
  <2>1. run[0] = Start /\ Start.pc = "for" /\ Start.i = 0 /\ Start.p = Fresh /\ Start.add = Zero
    BY <1>1 DEF Run, Start, Fresh
  <2>2. Zero \in Counts /\ Zero.href = 0 /\ Len(page.text) \in Nat
    BY DEF Zero, Counts, Pages
  <2>3. Knows(page, Start)
    BY <2>1, <2>2, StandsFirst, FoundNext DEF Knows
  <2> QED BY <2>1, <2>3
<1>3. \A k \in Nat : k \in S => k + 1 \in S
  <2> SUFFICES ASSUME NEW k \in Nat, k \in S, k + 1 <= m PROVE Knows(page, run[k + 1])
    OBVIOUS
  <2>1. m \in Nat /\ k < m /\ k <= m
    BY <1>1 DEF Run
  <2>2. Knows(page, run[k]) /\ ~ Stop(page.text, run[k]) /\ run[k + 1] = Turn(page.text, run[k])
    BY <1>1, <2>1 DEF Run
  <2> QED BY <2>2, KnowsTurn
<1> HIDE DEF S
<1>4. m \in S
  BY <1>1, <1>2, <1>3, NatSetInduction DEF Run
<1>5. m <= m
  BY <1>1 DEF Run
<1> QED BY <1>1, <1>4, <1>5 DEF S

\* On a page without images every link is counted, once, and nothing else is
\* taken for one: whatever the page says in scripts, comments and values, and
\* whatever the adapter was given before it (test_hsp.c:73-80).
THEOREM AdapterLinksCounted == TestSpec => []LinksCounted
<1>1. TestInv /\ History /\ Alone => LinksCounted
  <2> SUFFICES ASSUME TestInv, History, Alone, NEW k \in DOMAIN counted,
                      Reading(set[k]), ~ HasTag(set[k], TagImg)
               PROVE  Added(k).href = Cardinality(Values(set[k], TagA, Href))
    BY DEF LinksCounted
  <2>1. k \in 1 .. Len(counted)
    BY DEF History
  <2>2. PICK q : Reached(set[k].text, q) /\ Stop(set[k].text, q) /\ q.add = Added(k)
    BY <2>1 DEF Alone
  <2>3. set[k] \in Pages
    <3>1. set \in Seq(Pages) /\ n \in 1 .. Len(set)
      <4>1. set \in Seq(Pages)
        BY TestAssumption DEF TestInv, Position
      <4> QED BY <4>1 DEF TestInv, TestTypeOK
    <3>2. k \in 1 .. Len(set)
      <4>1. Len(counted) = n \/ Len(counted) = n - 1
        BY DEF History
      <4>2. Len(set) \in Nat /\ n \in Nat
        BY <3>1
      <4> QED BY <2>1, <3>1, <4>1, <4>2
    <3> QED BY <3>1, <3>2
  <2>4. Knows(set[k], q)
    BY <2>2, <2>3, KnowsReached
  <2>5. q.i = Len(set[k].text)
    <3>1. Len(set[k].text) \in Nat
      BY <2>3 DEF Pages
    <3> QED BY <2>2, <2>4, <3>1 DEF Knows, Stop
  <2>6. FoundBy(set[k], Len(set[k].text)) = Values(set[k], TagA, Href)
    BY <2>3, FoundNext
  <2> QED BY <2>2, <2>4, <2>5, <2>6 DEF Knows
<1> QED BY <1>1, AdapterInvariant, AdapterAlone, PTL
===============================================================================
