------------------------------- MODULE TestHsp -------------------------------
(***************************************************************************)
(* test_hsp.c: the benchmark's adapter for htmlstreamparser.  test_hsp is  *)
(* called once for every page of the test set (benchmark.c:217) with the   *)
(* one parser that test_hsp_init made; it feeds the page to the parser     *)
(* and after every character asks whether a link, an image, a title or a   *)
(* piece of text has been completed.  One step per turn of its two loops.  *)
(***************************************************************************)
EXTENDS Markup, FiniteSets, SequencesExt

CONSTANTS
  TagA, TagImg, TagEndTitle,   \* the names "a", "img", "/title"
  Href, Src, Alt,              \* the names of the attributes
  TestSets                     \* the test sets: sequences of pages

\* A test set has a page: over an empty one test_hsp is not called
\* (benchmark.c:217).
ASSUME TestAssumption ==
  /\ " " \in Spaces /\ "NUL" \in Chars
  /\ TestSets \subseteq Seq(Pages) \ {<<>>}

\* The names are words, and shorter than the buffers they are looked for in
\* (test_hsp.c:12-27, 33-34).
ASSUME NamesAssumption ==
  /\ {TagA, TagImg, Href} \subseteq Seq(Letters) \ {<<>>}
  /\ Len(TagA) < Caps.tag /\ Len(TagImg) < Caps.tag /\ Len(Script) < Caps.tag
  /\ Len(Href) < Caps.attr

VARIABLES
  set,      \* the test set
  n,        \* the page that is parsed
  pc,       \* "call" before a page, "for" and "img" in the loops, "done"
  i,        \* the index into the page, from 0
  img,      \* img_src and img_alt: what this image was counted for
  result,   \* total_href, total_src, total_alt and total_innertext_bytes
  fed,      \* history: the indices of this page that were fed to the parser
  images,   \* history: how often the loop for images has ended in this page
  counted   \* history: the result after each page so far

tvars == <<hsp, since, set, n, pc, i, img, result, fed, images, counted>>

Zero == [href |-> 0, src |-> 0, alt |-> 0, text |-> 0]
NoImg == [src |-> FALSE, alt |-> FALSE]

Page == set[n].text
Length == Len(Page)
At(j) == Page[j + 1]      \* htmlpage[j]

-----------------------------------------------------------------------------
\* html_parser_replace_spaces: runs of white space become one space.
ReplaceSpaces(s) ==
  LET done[k \in 0 .. Len(s)] ==
        IF k = 0 THEN <<>>
        ELSE LET before == done[k - 1]
             IN IF s[k] \notin Spaces THEN Append(before, s[k])
                ELSE IF before # <<>> /\ Last(before) = " " THEN before ELSE Append(before, " ")
  IN done[Len(s)]

\* html_parser_trim: the bounds of what is left, an empty range if nothing is.
Visible(s) == {j \in DOMAIN s : s[j] \notin Spaces}
Trim(s) ==
  IF Visible(s) = {} THEN <<>>
  ELSE SubSeq(s, Min(Visible(s)), Max(Visible(s)))

\* trim and replace_spaces work in the buffer: what they return begins where
\* the leading spaces end, and the characters behind it stay what they were.
TextOf(s) == ReplaceSpaces(Trim(s))
InPlace(s) ==
  IF Visible(s) = {} THEN s
  ELSE LET lead == Min(Visible(s)) - 1
       IN [j \in DOMAIN s |->
             IF j \in lead + 1 .. lead + Len(TextOf(s)) THEN TextOf(s)[j - lead] ELSE s[j]]
\* The title is also cut off: its first character becomes NUL.
CutOff(s) ==
  IF Visible(s) = {} THEN s ELSE [InPlace(s) EXCEPT ![Min(Visible(s))] = "NUL"]

\* The inner text, if it is complete.
Text(p) == IF IsIn(p, "INNER_TEXT") THEN <<>> ELSE p.inner

-----------------------------------------------------------------------------
TestInit ==
  /\ HspInit
  /\ set \in TestSets /\ n = 1 /\ pc = "call" /\ i = 0
  /\ img = NoImg
  /\ result = Zero /\ fed = {} /\ images = 0 /\ counted = <<>>

\* test_hsp is called: reset and the buffers.
Call ==
  /\ pc = "call" /\ n <= Len(set)
  /\ Prepare
  /\ pc' = "for"
  /\ UNCHANGED <<set, n, i, img, result, fed, images, counted>>

\* A mutant: a link is counted at any character behind its attribute.
LinkNamed(p) == CmpTag(p, TagA) /\ CmpAttr(p, Href)

\* Case 1 of the loop: the value of an href has ended.
LinkEnded(p) == CmpTag(p, TagA) /\ CmpAttr(p, Href) /\ IsIn(p, "VALUE_ENDED")

\* Cases 3 and 4: a title, or any other text, is complete.
TitleEnded(p) == CmpTag(p, TagEndTitle) /\ IsIn(p, "TAG_END")
TextEnded(p) == ~ CmpTag(p, TagEndTitle) /\ IsIn(p, "TAG_END") /\ IsIn(p, "CLOSING_TAG")

\* What a turn of the outer loop makes of the buffer and of the counts.
Worked(p) ==
  [p EXCEPT !.inner = IF TitleEnded(p) THEN CutOff(@) ELSE IF TextEnded(p) THEN InPlace(@) ELSE @]
Counting(counts, p) ==
  [counts EXCEPT !.href = IF LinkEnded(p) THEN @ + 1 ELSE @,
                 !.text = IF TextEnded(p) THEN @ + Len(TextOf(Text(p))) ELSE @]

\* A turn of the outer loop that does not find an image.
Character ==
  /\ pc = "for" /\ i < Length
  /\ LET p == CharParse(hsp, At(i))
     IN ~ CmpTag(p, TagImg) /\ hsp' = Worked(p) /\ result' = Counting(result, p)
  /\ since' = SinceNext(since, At(i))
  /\ fed' = fed \cup {i} /\ i' = i + 1
  /\ UNCHANGED <<set, n, pc, img, images, counted>>

\* A turn that finds one: on into the inner loop, with the index where it is.
Image ==
  /\ pc = "for" /\ i < Length
  /\ CmpTag(CharParse(hsp, At(i)), TagImg)
  /\ Feed(At(i))
  /\ fed' = fed \cup {i} /\ pc' = "img" /\ img' = NoImg
  /\ UNCHANGED <<set, n, i, result, images, counted>>

\* while( ++i < length-1 && !html_parser_is_in(hsp, HTML_TAG_END) )
InImage == i + 1 < Length - 1 /\ ~ IsIn(hsp, "TAG_END")

\* The value of a src or an alt has ended: counted once for an image.
Ended(p, attr) == CmpAttr(p, attr) /\ IsIn(p, "VALUE_ENDED")
Found(m, p) == [src |-> m.src \/ Ended(p, Src), alt |-> m.alt \/ Ended(p, Alt)]
CountingImg(counts, m, p) ==
  [counts EXCEPT !.src = IF Ended(p, Src) /\ ~ m.src THEN @ + 1 ELSE @,
                 !.alt = IF Ended(p, Alt) /\ ~ m.alt THEN @ + 1 ELSE @]

ImageCharacter ==
  /\ pc = "img" /\ InImage
  /\ LET p == CharParse(hsp, At(i + 1))
     IN hsp' = p /\ img' = Found(img, p) /\ result' = CountingImg(result, img, p)
  /\ since' = SinceNext(since, At(i + 1))
  /\ fed' = fed \cup {i + 1} /\ i' = i + 1
  /\ UNCHANGED <<set, n, pc, images, counted>>

\* Mutants: the index is counted on by one, or by three.
ImageEndOnce ==
  /\ pc = "img" /\ ~ InImage
  /\ pc' = "for" /\ i' = i + 1 /\ images' = images + 1
  /\ UNCHANGED <<hsp, since, set, n, img, result, fed, counted>>

ImageEndThrice ==
  /\ pc = "img" /\ ~ InImage
  /\ pc' = "for" /\ i' = i + 3 /\ images' = images + 1
  /\ UNCHANGED <<hsp, since, set, n, img, result, fed, counted>>

\* The inner loop ends after its ++i, and the outer one counts once more.
ImageEnd ==
  /\ pc = "img" /\ ~ InImage
  /\ pc' = "for" /\ i' = i + 2 /\ images' = images + 1
  /\ UNCHANGED <<hsp, since, set, n, img, result, fed, counted>>

\* test_hsp returns; its locals are gone.
Return ==
  /\ pc = "for" /\ i >= Length
  /\ pc' = (IF n < Len(set) THEN "call" ELSE "done")
  /\ n' = (IF n < Len(set) THEN n + 1 ELSE n)
  /\ counted' = Append(counted, result)
  /\ i' = 0 /\ img' = NoImg /\ fed' = {} /\ images' = 0
  /\ UNCHANGED <<hsp, since, set, result>>

TestNext == Call \/ Character \/ Image \/ ImageCharacter \/ ImageEnd \/ Return
TestSpec == TestInit /\ [][TestNext]_tvars

-----------------------------------------------------------------------------
\* What the k-th page added to the result.
Added(k) == [f \in DOMAIN Zero |-> counted[k][f] - (IF k = 1 THEN 0 ELSE counted[k - 1][f])]

\* Type correctness of the adapter.
TestTypeOK ==
  /\ pc \in {"call", "for", "img", "done"} /\ n \in DOMAIN set /\ i \in 0 .. Length + 1
  /\ img \in [src : BOOLEAN, alt : BOOLEAN]
  /\ result \in [href : Nat, src : Nat, alt : Nat, text : Nat]
  /\ fed \subseteq 0 .. Length - 1 /\ images \in Nat

\* The same page counts for the same whatever was parsed before it: the one
\* parser and its four static buffers, shared by all pages, carry nothing
\* over, be the page before cut off inside a tag, a value or a script
\* (test_hsp.c:53, htmlstreamparser.c:23).
SameCounts ==
  \A j, k \in DOMAIN counted : set[j].text = set[k].text => Added(j) = Added(k)

\* On a page without images every link is counted, once: every value that its
\* text gives to an href of a tag "a", and nothing else.  A link is not counted
\* again at the characters behind it, for which the tag and the attribute still
\* stand, and none is counted in a script or a comment (test_hsp.c:73-80).
LinksCounted ==
  \A k \in DOMAIN counted :
    Reading(set[k]) /\ ~ HasTag(set[k], TagImg) =>
      Added(k).href = Cardinality(Values(set[k], TagA, Href))

\* Each image costs the page one character, which the parser is never given,
\* and nothing else does: the loop for images counts the index on once and
\* the outer loop once more (test_hsp.c:69, 85).
MissedAfterImages ==
  LET missed == {j \in 0 .. Length - 1 : j < i /\ j \notin fed}
  IN pc = "for" =>
       /\ Cardinality(missed) <= images /\ (i < Length => Cardinality(missed) = images)
       /\ \A j \in missed : j = Length - 1 \/ At(j - 1) = ">"
===============================================================================
