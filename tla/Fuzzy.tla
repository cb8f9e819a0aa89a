------------------------------- MODULE Fuzzy -------------------------------
(***************************************************************************)
(* How the command palette matches what is typed against the label and the *)
(* keywords of an item, and which letters of the label it marks            *)
(* (components/palette/fuzzy.ts).  The user types letter by letter.        *)
(* Scores, which only order the matches of one group, are left out.        *)
(***************************************************************************)
EXTENDS Naturals, SequencesExt

CONSTANTS
  MaxText,   \* bound on the length of a label
  MaxTerm,   \* bound on the length of a term
  MaxTerms   \* bound on the terms typed

Letters == {"a", "b"}

Space == " "

VARIABLES
  label, keywords,
  terms   \* the terms of the query, the last one being typed

vars == <<label, keywords, terms>>

-----------------------------------------------------------------------------
isWordStart(text, at) == at = 1 \/ text[at - 1] = Space

Least(positions) == CHOOSE p \in positions : \A q \in positions : p <= q

\* The first occurrence that starts a word, else the first, 0 if there is none.
findSubstring(haystack, needle) ==
  LET hits == {at \in 1 .. (Len(haystack) + 1 - Len(needle)) :
                 SubSeq(haystack, at, at + Len(needle) - 1) = needle}
      starts == {at \in hits : isWordStart(haystack, at)}
  IN IF starts # {} THEN Least(starts) ELSE IF hits # {} THEN Least(hits) ELSE 0

\* Mutation: the letters may all be found in one place.
NextFromSame(haystack, letter, from) == {at \in DOMAIN haystack : at >= from /\ haystack[at] = letter}

NextFrom(haystack, letter, from) == {at \in DOMAIN haystack : at > from /\ haystack[at] = letter}

\* Each letter at the first place after the one before, past the end once one is missing.
Scatter(haystack, needle) ==
  LET place[i \in 0 .. Len(needle)] ==
        IF i = 0 THEN 0
        ELSE LET next == NextFrom(haystack, needle[i], place[i - 1]) IN
             IF next = {} THEN Len(haystack) + 1 ELSE Least(next)
  IN [i \in 1 .. Len(needle) |-> place[i]]

\* Joins adjacent places into ranges [start, end).
toRanges(places) ==
  FoldLeft(LAMBDA ranges, p :
             IF ranges # <<>> /\ Last(ranges)[2] = p THEN Append(Front(ranges), <<Last(ranges)[1], p + 1>>)
             ELSE Append(ranges, <<p, p + 1>>),
           <<>>, places)

NoMatch == [found |-> FALSE, ranges |-> <<>>, contiguous |-> FALSE]

fuzzyMatch(term, text) ==
  LET at == findSubstring(text, term)
      places == Scatter(text, term)
  IN IF term = <<>> THEN [found |-> TRUE, ranges |-> <<>>, contiguous |-> TRUE]
     ELSE IF at # 0 THEN [found |-> TRUE, ranges |-> <<<<at, at + Len(term)>>>>, contiguous |-> TRUE]
     ELSE IF Last(places) > Len(text) THEN NoMatch
     ELSE [found |-> TRUE, ranges |-> toRanges(places), contiguous |-> FALSE]

\* Mutation: a range inside the one before it cuts that one short.
JoinedShort(range, next) == <<range[1], next[2]>>

Joined(range, next) == <<range[1], IF next[2] > range[2] THEN next[2] ELSE range[2]>>

\* Sorts ranges and merges those that overlap or touch.
mergeRanges(ranges) ==
  FoldLeft(LAMBDA merged, r :
             IF merged # <<>> /\ r[1] <= Last(merged)[2] THEN Append(Front(merged), Joined(Last(merged), r))
             ELSE Append(merged, r),
           <<>>, SortSeq(ranges, LAMBDA r, s : r[1] < s[1]))

\* Mutation: the keywords are asked first.
FromEither(inLabel, inKeywords) == IF inKeywords.found THEN [inKeywords EXCEPT !.ranges = <<>>] ELSE inLabel

\* The label wins unless only the keywords hold the term as one run; only the label is marked.
From(inLabel, inKeywords) ==
  IF inLabel.found /\ (inLabel.contiguous \/ ~inKeywords.contiguous) THEN inLabel
  ELSE [inKeywords EXCEPT !.ranges = <<>>]

\* Every term must be found in the label or in the keywords.
matchItem(query, text, words) ==
  LET each == [i \in DOMAIN query |-> From(fuzzyMatch(query[i], text), fuzzyMatch(query[i], words))]
  IN IF \E i \in DOMAIN each : ~each[i].found THEN NoMatch
     ELSE [found |-> TRUE,
           ranges |-> mergeRanges(FlattenSeq([i \in DOMAIN each |-> each[i].ranges])),
           contiguous |-> \A i \in DOMAIN each : each[i].contiguous]

\* Cuts a text into plain and matched runs.
highlightSegments(text, ranges) ==
  LET Segment(from, to, match) == IF from < to THEN <<[text |-> SubSeq(text, from, to - 1), match |-> match]>> ELSE <<>>
      done == FoldLeft(LAMBDA d, r : [segments |-> d.segments \o Segment(d.cursor, r[1], FALSE) \o Segment(r[1], r[2], TRUE),
                                      cursor |-> r[2]],
                       [segments |-> <<>>, cursor |-> 1], mergeRanges(ranges))
  IN done.segments \o Segment(done.cursor, Len(text) + 1, FALSE)

-----------------------------------------------------------------------------
Texts == BoundedSeq(Letters \cup {Space}, MaxText)

Init == label \in Texts /\ keywords \in {<<>>, <<"b", "a">>} /\ terms = <<>>

\* A letter goes on with the term, or begins another after a space.
Type ==
  /\ \E c \in Letters :
       \/ terms # <<>> /\ Len(Last(terms)) < MaxTerm /\ terms' = Append(Front(terms), Append(Last(terms), c))
       \/ Len(terms) < MaxTerms /\ terms' = Append(terms, <<c>>)
  /\ UNCHANGED <<label, keywords>>

Clear == terms # <<>> /\ terms' = <<>> /\ UNCHANGED <<label, keywords>>

Next == Type \/ Clear

Spec == Init /\ [][Next]_vars

-----------------------------------------------------------------------------
(* Properties.                                                             *)

TypeOK ==
  /\ label \in Texts /\ keywords \in Texts
  /\ Len(terms) <= MaxTerms
  /\ \A i \in DOMAIN terms : terms[i] \in BoundedSeq(Letters, MaxTerm) \ {<<>>}

\* Places of a text, in order, that spell a term.
Spelled(text, places) == [i \in DOMAIN places |-> text[places[i]]]

Spells(term, text) == \E places \in SUBSET DOMAIN text : Spelled(text, SetToSortSeq(places, <)) = term

Covered(ranges) == UNION {ranges[i][1] .. (ranges[i][2] - 1) : i \in DOMAIN ranges}

\* A term is found exactly when its letters are there in order (components/palette/fuzzy.ts:54):
\* taking each letter as early as possible misses nothing.
FindsAllThere ==
  \A i \in DOMAIN terms : fuzzyMatch(terms[i], label).found <=> Spells(terms[i], label)

\* What a match marks spells the term (components/palette/fuzzy.ts:39), in ranges that do not touch.
MarksSpellTheTerm ==
  \A i \in DOMAIN terms :
    LET m == fuzzyMatch(terms[i], label) IN
    m.found => /\ Spelled(label, SetToSortSeq(Covered(m.ranges), <)) = terms[i]
               /\ \A k \in DOMAIN m.ranges : k > 1 => m.ranges[k][1] > m.ranges[k - 1][2]

\* A term that stands in the label as it was typed is marked there (components/palette/fuzzy.ts:91),
\* whatever the keywords hold.
LabelWins ==
  LET m == matchItem(terms, label, keywords) IN
  m.found => \A i \in DOMAIN terms :
               findSubstring(label, terms[i]) # 0
                 => LET at == findSubstring(label, terms[i])
                    IN at .. (at + Len(terms[i]) - 1) \subseteq Covered(m.ranges)

\* Drawing the highlight loses and repeats no letter (components/palette/fuzzy.ts:137), and a run
\* is marked exactly where some term matched, however the ranges of the terms overlap.
HighlightIsFaithful ==
  LET each == FlattenSeq([i \in DOMAIN terms |-> fuzzyMatch(terms[i], label).ranges])
      segments == highlightSegments(label, each)
      marked == FlattenSeq([i \in DOMAIN segments |-> [k \in DOMAIN segments[i].text |-> segments[i].match]])
  IN /\ FlattenSeq([i \in DOMAIN segments |-> segments[i].text]) = label
     /\ \A p \in DOMAIN label : marked[p] <=> p \in Covered(each)
=============================================================================
