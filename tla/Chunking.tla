------------------------------ MODULE Chunking ------------------------------
(***************************************************************************)
(* How a document becomes pieces: RecursiveSplitter and the parent and     *)
(* child splitters of trade_rag/chunking.py, with the page analysis of     *)
(* trade_rag/parsers/pdf.py in front of them.  A text is a sequence of     *)
(* characters; "/" is a line break, "~" the mark of a fence, "9" a digit.  *)
(* The punctuation marks among the separators are left out, and the floors *)
(* of the size parameters, so that small texts reach every branch.         *)
(***************************************************************************)
EXTENDS Integers, Sequences, SequencesExt

CONSTANTS Characters,
          Texts,        \* plain texts
          Documents,    \* PDFs: sequences of pages, a page one of fragments, a fragment one of lines
          ChunkSize, ChunkOverlap, ParentSize, HeadingMax

ASSUME SizesAssumption ==
  /\ ChunkSize \in Nat \ {0} /\ ChunkOverlap \in 0..ChunkSize-1
  /\ ParentSize \in Nat /\ ParentSize >= ChunkSize /\ HeadingMax \in Nat

ASSUME SourcesAssumption ==
  /\ {"/", " ", "~", "#", "|", "-", "9"} \subseteq Characters /\ Texts \subseteq Seq(Characters)
  /\ \A d \in Documents : d \in Seq(Seq(Seq(Seq(Characters)) \ {<<>>}))

VARIABLES source,       \* what is to be split
          pieces        \* what it was split into

chunkingVars == <<source, pieces>>

Space == {" ", "/"}
Blank(t) == \A i \in DOMAIN t : t[i] \in Space
Strip(t) == LET ink == {i \in DOMAIN t : t[i] \notin Space}
            IN IF ink = {} THEN <<>> ELSE SubSeq(t, Min(ink), Max(ink))
\* A fold from the left that TLC evaluates in as many steps as s has elements.
Along(op(_, _), base, s) ==
  LET upTo[k \in 0..Len(s)] == IF k = 0 THEN base ELSE op(upTo[k - 1], s[k])
  IN upTo[Len(s)]
Outside(s, V) == LET add(kept, e) == IF e \in V THEN kept ELSE Append(kept, e)
                 IN Along(add, <<>>, s)
Ink(t) == Outside(t, Space)
Join(parts, sep) == FlattenSeq([k \in DOMAIN parts |-> IF k = 1 THEN parts[1] ELSE sep \o parts[k]])
TextsOf(s) == [k \in DOMAIN s |-> s[k].text]
Positions(t) == [i \in DOMAIN t |-> i]

\* t cut before every position of S
CutBefore(t, S) ==
  LET add(parts, i) == IF parts = <<>> \/ i \in S THEN Append(parts, <<t[i]>>)
                       ELSE Front(parts) \o <<Append(Last(parts), t[i])>>
  IN Along(add, <<>>, Positions(t))

\* mutant: the windows overlap by the character they end with
WindowsOffByOne(t, size) == CutBefore(SubSeq(t, 1, Len(t) - (Len(t) % size)), {i \in DOMAIN t : i % size = 1})

FixedSlices(t, size) == CutBefore(t, {i \in DOMAIN t : i % size = 1 \/ size = 1})

\* where str.split(sep) finds sep: from the left, without overlaps
Finds(t, sep) ==
  LET hit[i \in DOMAIN t] ==
        /\ i + Len(sep) - 1 <= Len(t) /\ SubSeq(t, i, i + Len(sep) - 1) = sep
        /\ \A j \in 1..i-1 : j > i - Len(sep) => ~hit[j]
  IN {i \in DOMAIN t : hit[i]}
Stripped(parts) == [k \in DOMAIN parts |-> Strip(parts[k])]
Lines(t) == Outside(Stripped(CutBefore(t, {i \in DOMAIN t : t[i] = "/"})), {<<>>})

-----------------------------------------------------------------------------
(* Plain text: RecursiveSplitter.                                           *)

Separators == <<<<"/", "/">>, <<"/">>, <<" ">>, <<>>>>

LineStart(t, i) == i = 1 \/ t[i - 1] = "/"
\* where a fence opened at i ends: at its closing mark and the blanks the pattern takes with it
FenceEnds(t, i) ==
  LET closes == {c \in i+1..Len(t) : /\ t[c] = "~" /\ t[c - 1] = "/"
                                     /\ \E j \in c..Len(t) : /\ Blank(SubSeq(t, c + 1, j))
                                                             /\ j = Len(t) \/ t[j + 1] = "/"}
  IN IF closes = {} THEN {}
     ELSE {Max({j \in Min(closes)..Len(t) : /\ Blank(SubSeq(t, Min(closes) + 1, j))
                                            /\ j = Len(t) \/ t[j + 1] = "/"})}

\* the text as pieces with a mark on the fences
ProtectedPieces(t) ==
  LET plain(from, to) == IF from > to THEN <<>> ELSE <<[text |-> SubSeq(t, from, to), atomic |-> FALSE]>>
      fence(i) == [text |-> SubSeq(t, i, Max(FenceEnds(t, i))), atomic |-> TRUE]
      add(made, i) ==
        IF i >= made.cursor /\ t[i] = "~" /\ LineStart(t, i) /\ FenceEnds(t, i) # {}
        THEN [done |-> made.done \o plain(made.cursor, i - 1) \o <<fence(i)>>,
              cursor |-> Max(FenceEnds(t, i)) + 1]
        ELSE made
      made == Along(add, [done |-> <<>>, cursor |-> 1], Positions(t))
  IN made.done \o plain(made.cursor, Len(t))

\* what is still too long at a separator is cut there; the last one is no character
CutAt(t, sep, size) ==
  IF Len(t) <= size THEN IF Blank(t) THEN <<>> ELSE <<t>>
  ELSE IF sep = <<>> THEN FixedSlices(t, size)
  ELSE CutBefore(t, Finds(t, sep))
Recursive(t, size) ==
  LET further(parts, sep) == FlattenSeq([k \in DOMAIN parts |-> CutAt(parts[k], sep, size)])
  IN Along(further, <<t>>, Separators)

MergeSmall(parts, size) ==
  LET add(merged, part) ==
        IF Blank(part) THEN merged
        ELSE IF merged # <<>> /\ Len(Last(merged)) + Len(part) <= size
        THEN Front(merged) \o <<Last(merged) \o part>>
        ELSE Append(merged, part)
  IN Along(add, <<>>, parts)

\* a markdown heading and nothing else
IsHeading(part) ==
  LET t == Strip(part) IN
  /\ \A i \in DOMAIN t : t[i] # "/"
  /\ \E n \in 1..6 : /\ Len(t) >= n + 2 /\ t[n + 1] = " "
                     /\ \A i \in 1..n : t[i] = "#"

\* a heading is joined to what follows it; open: the last part is one that waits
JoinHeadings(parts) ==
  LET add(made, part) ==
        IF made.open
        THEN [done |-> Front(made.done) \o <<Last(made.done) \o part>>, open |-> FALSE]
        ELSE [done |-> Append(made.done, part), open |-> IsHeading(part)]
  IN Along(add, [done |-> <<>>, open |-> FALSE], parts).done

Raw(t, size) ==
  LET protected == ProtectedPieces(t)
      cut(p) == IF p.atomic THEN <<p.text>> ELSE Recursive(p.text, size)
  IN IF Blank(t) THEN <<>>
     ELSE JoinHeadings(MergeSmall(FlattenSeq([k \in DOMAIN protected |-> cut(protected[k])]), size))

Tail_(t, n) == SubSeq(t, IF Len(t) > n THEN Len(t) - n + 1 ELSE 1, Len(t))
Overlapped(raw, n) ==
  [k \in DOMAIN raw |-> IF k = 1 THEN raw[1] ELSE Tail_(raw[k - 1], n) \o raw[k]]
Split(t, size, overlap) == Overlapped(Raw(t, size), overlap)

\* ParentChildSplitter: parents of the text, and the children of each
SplitText(t) ==
  LET parents == Split(t, ParentSize, 2 * ChunkOverlap)
  IN [parents |-> parents,
      children |-> [k \in DOMAIN parents |-> Split(parents[k], ChunkSize, ChunkOverlap)]]

-----------------------------------------------------------------------------
(* A PDF: its pages, the blocks found on them, units, parents, children.    *)

\* the line most pages begin (or end) with, if enough of them do
RepeatedBoundary(pages, At(_)) ==
  LET full == {k \in DOMAIN pages : pages[k] # <<>>}
      count(line) == Cardinality({k \in full : At(pages[k]) = line})
  IN IF Len(pages) < 3 THEN {}
     ELSE {line \in {At(pages[k]) : k \in full} :
             count(line) >= 3 /\ 5 * count(line) >= 3 * Len(pages)}

FirstLine(page) == Head(Head(page))
LastLine(page) == Last(Last(page))
NoEmpty(page) == Outside(page, {<<>>})
WithoutFirst(page) == NoEmpty(<<Tail(Head(page))>> \o Tail(page))
WithoutLast(page) == NoEmpty(Front(page) \o <<Front(Last(page))>>)

\* _strip_repeated_boundaries: a footer that is also the header stays
StripBoundaries(pages) ==
  LET header == RepeatedBoundary(pages, FirstLine)
      footer == RepeatedBoundary(pages, LastLine) \ header
      headless(page) == IF page # <<>> /\ FirstLine(page) \in header THEN WithoutFirst(page) ELSE page
      footless(page) == IF page # <<>> /\ LastLine(page) \in footer THEN WithoutLast(page) ELSE page
  IN [k \in DOMAIN pages |-> footless(headless(pages[k]))]

BlockType(lines) ==
  IF \E k \in DOMAIN lines : \E i \in DOMAIN lines[k] : lines[k][i] = "|" THEN "table"
  ELSE IF \A k \in DOMAIN lines : IsPrefix(<<"-", " ">>, lines[k]) THEN "list"
  ELSE IF Len(lines) = 1 /\ Len(lines[1]) <= HeadingMax /\ Last(lines[1]) # "." THEN "heading"
  ELSE "paragraph"

\* _blocks_from_pages: a heading opens a section that lasts until the next one
Blocks(pages) ==
  LET all == FlattenSeq([p \in DOMAIN pages |->
               [k \in DOMAIN pages[p] |-> [page |-> p, lines |-> pages[p][k]]]])
      section[k \in 0..Len(all)] ==
        IF k = 0 THEN <<>>
        ELSE IF BlockType(all[k].lines) = "heading" THEN all[k].lines[1] ELSE section[k - 1]
  IN [k \in DOMAIN all |-> [text |-> Join(all[k].lines, <<"/">>), page |-> all[k].page,
                            section |-> section[k], type |-> BlockType(all[k].lines)]]

IsArtifact(t) == t # <<>> /\ \A i \in DOMAIN t : t[i] = "9"   \* a page number and nothing else

HeaderRows(lines) ==
  LET column == {k \in DOMAIN lines : \E i \in DOMAIN lines[k] : lines[k][i] = "|"}
      n == IF column = {} THEN 1 ELSE Min(column)
  IN IF Len(lines) > n /\ \A i \in DOMAIN lines[n + 1] : lines[n + 1][i] \in {"|", "-", " "}
     THEN n + 1 ELSE n
TableHeader(lines) == Join(SubSeq(lines, 1, HeaderRows(lines)), <<"/">>)

\* a row that does not fit below the header, in slices below a header each
RowUnderHeader(header, row, limit) ==
  LET room == IF limit - Len(header) - 1 > 1 THEN limit - Len(header) - 1 ELSE 1
      slices == FixedSlices(row, room)
  IN [k \in DOMAIN slices |-> header \o <<"/">> \o slices[k]]

\* a row goes on the piece that grows, or below a header of its own
TableRow(header, row, limit, made) ==
  LET candidate == made.current \o <<"/">> \o row IN
  IF Len(candidate) <= limit THEN [made EXCEPT !.current = candidate]
  ELSE IF made.current = header
  THEN [made EXCEPT !.done = @ \o RowUnderHeader(header, row, limit)]
  ELSE [done |-> Append(made.done, made.current), current |-> header \o <<"/">> \o row]
TableOut(header, made) ==
  IF made.current # header THEN Append(made.done, made.current)
  ELSE IF made.done = <<>> THEN <<header>> ELSE made.done

SplitTable(t, limit) ==
  LET lines == Lines(t)
      header == TableHeader(lines)
      add(made, row) == TableRow(header, row, limit, made)
  IN IF lines = <<>> THEN <<>>
     ELSE IF Len(lines) = 1 THEN FixedSlices(lines[1], limit)
     ELSE TableOut(header, Along(add, [done |-> <<>>, current |-> header],
                                 SubSeq(lines, HeaderRows(lines) + 1, Len(lines))))

\* units for the texts of one block, and for the tables that wait
UnitsOf(b, texts) == [k \in DOMAIN texts |-> [b EXCEPT !.text = texts[k]]]
Flushed(made) ==
  IF made.tables = <<>> THEN made.done
  ELSE made.done \o UnitsOf(Head(made.tables), SplitTable(Join(TextsOf(made.tables), <<"/">>), ParentSize))

\* _units: noise dropped, the tables of one page that follow each other taken as one
UnitAdd(made, b) ==
  IF b.type = "table" /\ made.tables # <<>> /\ b.page = Head(made.tables).page
  THEN [made EXCEPT !.tables = Append(@, b)]
  ELSE IF IsArtifact(b.text) THEN [done |-> Flushed(made), tables |-> <<>>]
  ELSE IF b.type = "table" THEN [done |-> Flushed(made), tables |-> <<b>>]
  ELSE [done |-> Flushed(made) \o UnitsOf(b, Stripped(Split(b.text, ParentSize, 0))), tables |-> <<>>]
Units(blocks) == Flushed(Along(UnitAdd, [done |-> <<>>, tables |-> <<>>], blocks))

Size(group) == Len(Join(TextsOf(group), <<"/", "/">>))

\* whether a unit goes on the parent that was begun
Fits(group, unit) ==
  /\ unit.type # "table" /\ Last(group).type # "table"
  /\ unit.section = <<>> \/ unit.section = Last(group).section
  /\ unit.page <= Last(group).page + 1
  /\ Size(group) + 2 + Len(unit.text) <= ParentSize

ParentGroups(units) ==
  LET add(groups, unit) ==
        IF groups # <<>> /\ Fits(Last(groups), unit)
        THEN Front(groups) \o <<Append(Last(groups), unit)>>
        ELSE Append(groups, <<unit>>)
  IN Along(add, <<>>, units)

WithHeading(heading, t) ==
  LET prefix == SubSeq(heading, 1, IF Len(heading) > HeadingMax THEN HeadingMax ELSE Len(heading)) \o <<"/">>
      room == IF ChunkSize - Len(prefix) > 1 THEN ChunkSize - Len(prefix) ELSE 1
  IN IF heading = <<>> \/ IsPrefix(heading, t) THEN t
     ELSE prefix \o SubSeq(t, 1, IF Len(t) > room THEN room ELSE Len(t))

\* _children: a heading goes in front of what follows it in its parent
PdfChildren(group) ==
  LET heading[k \in 0..Len(group)] ==
        IF k = 0 THEN <<>> ELSE IF group[k].type = "heading" THEN group[k].text ELSE heading[k - 1]
      parts(u) == IF u.type = "heading" THEN <<>>
                  ELSE IF u.type = "table" THEN SplitTable(u.text, ChunkSize)
                  ELSE Stripped(Split(u.text, ChunkSize, ChunkOverlap))
      child(k, part) == [text |-> WithHeading(heading[k], part), page |-> group[k].page]
      made == FlattenSeq([k \in DOMAIN group |->
                [j \in DOMAIN parts(group[k]) |-> child(k, parts(group[k])[j])]])
  IN IF made # <<>> THEN made
     ELSE <<[text |-> Strip(Join(TextsOf(group), <<"/", "/">>)), page |-> Head(group).page]>>

PdfUnits(pages) == Units(Blocks(StripBoundaries(pages)))

SplitPdf(pages) ==
  LET groups == ParentGroups(PdfUnits(pages))
  IN [parents |-> [k \in DOMAIN groups |->
                     [text |-> Strip(Join(TextsOf(groups[k]), <<"/", "/">>)),
                      pages |-> {groups[k][j].page : j \in DOMAIN groups[k]},
                      type |-> IF \E u \in ToSet(groups[k]) : u.type # Head(groups[k]).type
                               THEN "paragraph" ELSE Head(groups[k]).type]],
      children |-> [k \in DOMAIN groups |-> PdfChildren(groups[k])]]

-----------------------------------------------------------------------------
NotSplit == [parents |-> <<>>, children |-> <<>>]

ChunkingInit ==
  /\ source \in {[kind |-> "text", body |-> t] : t \in Texts}
                  \cup {[kind |-> "pdf", body |-> d] : d \in Documents}
  /\ pieces = NotSplit

SplitSource ==
  /\ pieces = NotSplit
  /\ pieces' = IF source.kind = "text" THEN SplitText(source.body) ELSE SplitPdf(source.body)
  /\ UNCHANGED source

ChunkingSpec == ChunkingInit /\ [][SplitSource]_chunkingVars

-----------------------------------------------------------------------------
\* Taking its overlap off every piece gives the text back, blanks aside.
ReadsBack(parts, overlap, t) ==
  LET lap(k, own) == IF Len(own) < overlap THEN Len(own) ELSE overlap
      own[k \in DOMAIN parts] ==
        IF k = 1 THEN parts[1] ELSE SubSeq(parts[k], lap(k, own[k - 1]) + 1, Len(parts[k]))
  IN /\ Ink(FlattenSeq([k \in DOMAIN parts |-> own[k]])) = Ink(t)
     /\ \A k \in DOMAIN parts \ {1} : Len(own[k]) + lap(k, own[k - 1]) = Len(parts[k])

IsWithin(t, whole) ==
  LET found(i, c) == IF i <= Len(t) /\ t[i] = c THEN i + 1 ELSE i
  IN Along(found, 1, whole) = Len(t) + 1

\* Splitting loses nothing: the pieces of a plain text read back as the text, on
\* both levels, and what a PDF says beside page numbers and repeated page
\* headers and footers is in its parents, in the order of the pages.
NothingIsLost ==
  pieces # NotSplit =>
    IF source.kind = "text"
    THEN /\ ReadsBack(pieces.parents, 2 * ChunkOverlap, source.body)
         /\ \A k \in DOMAIN pieces.parents :
              ReadsBack(pieces.children[k], ChunkOverlap, pieces.parents[k])
    ELSE LET blocks == Blocks(StripBoundaries(source.body))
             said == Outside(blocks, {b \in ToSet(blocks) : IsArtifact(b.text)})
         IN IsWithin(Ink(FlattenSeq(TextsOf(said))), Ink(FlattenSeq(TextsOf(pieces.parents))))

=============================================================================
