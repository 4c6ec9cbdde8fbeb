---------------------------- MODULE SourceWindow ----------------------------
(***************************************************************************)
(* Source files as dlvpp shows and searches them: the window of source     *)
(* around the stopped line (internal/sourceview/render.go, cmd/dlvpp/      *)
(* view.go) and the lines that marker comments such as //breakpoint stand  *)
(* for (cmd/dlvpp/comment_breakpoints.go, source_index.go).                *)
(*                                                                         *)
(* A file is a sequence of tokens, each of a few cells: c is code, / opens *)
(* a comment, * is a star, m comment text, n a newline, r a carriage       *)
(* return.  A text made of the file is a sequence of positions in it, so   *)
(* that what is shown twice, or under another line's number, can be told   *)
(* from what is not.  Every file of at most MaxTokens tokens is a state,   *)
(* with what the loop of highlightGoSource has written once it has read    *)
(* the file's tokens: a token is one step of the file and of that loop.    *)
(***************************************************************************)
EXTENDS Naturals, FiniteSets, Sequences, Functions

CONSTANTS Kinds,       \* the kinds of token that files are made of
          MaxTokens,   \* bound on the tokens of a file
          Heights      \* the heights of the terminal

Cells ==
  [ word      |-> <<"c">>,                 \* an identifier, a literal, a }
    op        |-> <<"c">>,                 \* an operator, a {
    deref     |-> <<"*">>,                 \* the * of *p
    nl        |-> <<"n">>,
    crnl      |-> <<"r", "n">>,
    line      |-> <<"/">>,                 \* a // comment
    mark      |-> <<"/">>,                 \* //breakpoint
    block     |-> <<"/">>,                 \* /* ... */ on one line
    blockStar |-> <<"/", "n", "*">>,       \* its second line begins with *
    blockText |-> <<"/", "n", "m">>,       \* its second line is plain text
    blockCR   |-> <<"/", "r", "n", "r", "n", "r", "n", "*", "/">>,
    raw       |-> <<"c", "n", "c">>,       \* `...`
    rawCR     |-> <<"c", "r", "n", "r", "n", "c">> ]

ASSUME KindsAssumption == Kinds \subseteq DOMAIN Cells
ASSUME HeightsAssumption == Heights \subseteq Nat \ {0}

Newlines == {"nl", "crnl"}
Blocks == {"block", "blockStar", "blockText", "blockCR"}
Comments == Blocks \cup {"line", "mark"}
Operands == {"word", "raw", "rawCR"}       \* a newline after one ends the statement

VARIABLES file,      \* its tokens: their kinds, and the offsets they begin and end at
          data,      \* its cells
          written,   \* what is written of it: the text, and the offset it goes up to
          semi       \* whether a newline would end a statement (the scanner's insertSemi)
vars == <<file, data, written, semi>>

-----------------------------------------------------------------------------
(* Texts: sequences of positions of the file's cells.                      *)

\* The k-th element of a set of numbers.
Nth(S, k) == CHOOSE s \in S : Cardinality({t \in S : t <= s}) = k

\* The elements of a sequence that stand at the indices I.
Pick(seq, I) == [k \in 1..Cardinality(I) |-> seq[Nth(I, k)]]

\* src[from:to], or nothing.
Span(from, to) == IF from < to THEN [i \in 1..(to - from) |-> from + i] ELSE <<>>

\* The newline the scanner reports at the end of a file without one.
NoPosition == 0

CellAt(cells, p) == IF p = NoPosition THEN "n" ELSE cells[p]

Indices(cells, text, cell) == {i \in DOMAIN text : CellAt(cells, text[i]) = cell}

WithoutCR(cells, text) == Pick(text, DOMAIN text \ Indices(cells, text, "r"))

\* strings.Split(text, "\n")
SplitLines(cells, text) ==
  LET breaks == Indices(cells, text, "n")
      Start(k) == IF k = 1 THEN 1 ELSE Nth(breaks, k - 1) + 1
      End(k) == IF k > Cardinality(breaks) THEN Len(text) ELSE Nth(breaks, k) - 1
  IN [k \in 1..(Cardinality(breaks) + 1) |-> SubSeq(text, Start(k), End(k))]

SourceLines == SplitLines(data, Span(0, Len(data)))

\* The line of an offset in the file.
LineAt(offset) == 1 + Cardinality({p \in 1..offset : data[p] = "n"})

-----------------------------------------------------------------------------
(* Highlighting: the scanner's tokens, each written over what lies between *)
(* it and the token before.                                                *)

Init ==
  /\ file = <<>> /\ data = <<>>
  /\ written = [out |-> <<>>, prev |-> 0]
  /\ semi = FALSE

\* Mutant: the text between tokens is taken from the start of the last one.
PutFromStart(w, offset, lit) == [out |-> w.out \o Span(w.prev, offset) \o lit, prev |-> offset]

\* One token is written: its text is lit, and it starts at offset.
Put(w, offset, lit) ==
  [out |-> w.out \o Span(w.prev, offset) \o lit, prev |-> offset + Len(lit)]

\* What Scan returns for the next token of the file, and what is written.
\* The scanner reports a semicolon, whose text is a newline, at a newline that
\* ends a statement; carriage returns are not part of a token's text; a comment
\* of several lines that ends a statement is followed by the semicolon, at its
\* first newline.
Scan(kind) ==
  LET at == Len(data)
      end == Len(data')
      lit == WithoutCR(data', Span(at, end))
      broken == {p \in at + 1 .. end : data'[p] = "n"}
      ends == semi /\ broken /= {}
  IN \/ /\ kind \in Newlines /\ semi
        /\ written' = Put(written, end - 1, <<end>>)
        /\ semi' = FALSE
     \/ /\ kind \in Newlines /\ ~semi
        /\ UNCHANGED <<written, semi>>
     \/ /\ kind \in Comments /\ ends
        /\ written' = Put(Put(written, at, lit), Nth(broken, 1) - 1, <<Nth(broken, 1)>>)
        /\ semi' = FALSE
     \/ /\ kind \in Comments /\ ~ends
        /\ written' = Put(written, at, lit)
        /\ UNCHANGED semi
     \/ /\ kind \notin Newlines \cup Comments
        /\ written' = Put(written, at, lit)
        /\ semi' = (kind \in Operands)

\* Two words in a row would be one, and a line comment ends at a newline.
Follows(last, kind) ==
  /\ last = "word" => kind /= "word"
  /\ last \in {"line", "mark"} => kind \in Newlines

Write(kind) ==
  /\ Len(file) < MaxTokens
  /\ file /= <<>> => Follows(file[Len(file)].kind, kind)
  /\ data' = data \o Cells[kind]
  /\ file' = Append(file, [kind |-> kind, from |-> Len(data), to |-> Len(data')])
  /\ Scan(kind)

Next == \E kind \in Kinds : Write(kind)

Spec == Init /\ [][Next]_vars

\* At the end of the file the statement ends; what lies behind the last token
\* is written when the end is scanned, and again after the loop.
HighlightGoSource ==
  LET end == IF semi THEN Put(written, Len(data), <<NoPosition>>) ELSE written
      rest == Span(end.prev, Len(data))
  IN end.out \o rest \o rest

RenderedLines == SplitLines(data, HighlightGoSource)

-----------------------------------------------------------------------------
(* Windows: the lines that are shown, by number, or an error.              *)

Failure == [first |-> 1, rows |-> <<>>]

FormatRange(lines, current, start, end) ==
  IF \/ current \notin DOMAIN lines
     \/ start \notin DOMAIN lines
     \/ end \notin DOMAIN lines
     \/ start > end
    THEN Failure
    ELSE [first |-> start, rows |-> SubSeq(lines, start, end)]

AtLeastOne(n) == IF n < 1 THEN 1 ELSE n
AtMost(n, bound) == IF n > bound THEN bound ELSE n

RenderWindow(lines, current, context) ==
  FormatRange(lines, current, AtLeastOne(current - context),
              AtMost(current + context, Len(lines)))

RenderRange(lines, current, start, end) ==
  IF start = 0 \/ end = 0 \/ start > end
    THEN Failure
    ELSE FormatRange(lines, current, start, AtMost(end, Len(lines)))

StickyReservedRows == 5
SourceContextLines == 5

\* The lines shown above and below the current one on a terminal.
Visible(height) == AtLeastOne(height - StickyReservedRows)
Above(height) == (Visible(height) - 1) \div 2

\* Mutant: the current line is not counted.
BelowAndCurrent(height) == Visible(height) - Above(height)

Below(height) == Visible(height) - Above(height) - 1

RenderStickySource(lines, current, height) ==
  IF height > StickyReservedRows
    THEN RenderRange(lines, current, AtLeastOne(current - Above(height)),
                     current + Below(height))
    ELSE RenderWindow(lines, current, SourceContextLines)

-----------------------------------------------------------------------------
(* Marker comments.                                                        *)

\* What a line looks like once it is trimmed.
LooksLikeCode(text) ==
  \E i \in DOMAIN text : /\ data[text[i]] \notin {"r", "/", "*"}
                         /\ \A j \in 1..(i - 1) : data[text[j]] = "r"

NoTarget == 0

FirstCodeBehind(line) ==
  LET lines == SourceLines
      later == {l \in DOMAIN lines : l > line /\ LooksLikeCode(lines[l])}
  IN IF later = {} THEN NoTarget ELSE Nth(later, 1)

\* Mutant: the comment's own line is looked at too.
ResolveFromCommentLine(commentEnd) == FirstCodeBehind(commentEnd - 1)
ResolveBreakpointTargetLine(commentEnd) == FirstCodeBehind(commentEnd)

IsBreakpointComment(token) == token.kind = "mark"

ScanCommentBreakpoints ==
  LET marks == {i \in DOMAIN file : IsBreakpointComment(file[i])}
      targets == [m \in 1..Cardinality(marks) |->
                    ResolveBreakpointTargetLine(LineAt(file[Nth(marks, m)].to))]
  IN Pick(targets, {m \in DOMAIN targets : targets[m] /= NoTarget})

DedupeBreakpointSpecs(specs) ==
  Pick(specs, {k \in DOMAIN specs : \A j \in 1..(k - 1) : specs[j] /= specs[k]})

DiscoverCommentBreakpoints == DedupeBreakpointSpecs(ScanCommentBreakpoints)
-----------------------------------------------------------------------------
(* Properties.                                                             *)

\* A statement ends at the i-th token if that is a newline.
EndsStatement(i) ==
  \E j \in 1..(i - 1) : /\ file[j].kind \in Operands
                        /\ \A k \in (j + 1)..(i - 1) : file[k].kind \in Comments

\* No token of several lines has a carriage return, and no comment of several
\* lines stands behind the code of a line.
Tidy ==
  \A i \in DOMAIN file :
    /\ file[i].kind \notin {"rawCR", "blockCR"}
    /\ file[i].kind \in {"blockStar", "blockText"} => ~EndsStatement(i)

\* The window shows line l.
Shows(window, l) == l \in window.first..(window.first + Len(window.rows) - 1)

\* What is shown under the number of line l is that line, but for its CR.
ShowsText(window, l, line) ==
  LET row == window.rows[l - window.first + 1]
  IN row = line \/ WithoutCR(data, row) = WithoutCR(data, line)

\* Whatever line of a tidy file the debuggee stops on, and however high the
\* terminal is, the window has that line, and each line of the file that it
\* has stands beside its own number, though colouring takes the file apart and
\* writes it anew (render.go highlightGoSource, view.go renderStickySource).
WindowShowsLine ==
  Tidy =>
    LET source == SourceLines
        lines == RenderedLines
    IN \A l \in DOMAIN source, height \in Heights :
         LET window == RenderStickySource(lines, l, height)
         IN /\ Shows(window, l)
            /\ \A k \in DOMAIN source :
                 Shows(window, k) => ShowsText(window, k, source[k])

\* What is printed besides the rows of source: the line that says where the
\* debuggee stopped, a blank line on each side of the rows, and the prompt.
RowsAround == 4

\* On a terminal with room for it the window never pushes its own heading off
\* the screen, the current line is in the middle of it, and it is as high as
\* the terminal allows, except where the file begins or ends (view.go
\* renderStickySource, render.go RenderRangeWithBreakpoints). Heights are counted
\* in rows, as the code counts them: a row longer than the terminal is wide takes
\* more than one line of the screen, which is not modelled.
WindowFitsScreen ==
  LET lines == RenderedLines
      count == Len(SourceLines)
  IN \A l \in 1..count, height \in Heights :
       height > StickyReservedRows =>
         LET window == RenderStickySource(lines, l, height)
             last == window.first + Len(window.rows) - 1
         IN /\ Len(window.rows) + RowsAround < height
            /\ (window.first > 1 /\ last < count) =>
                 /\ Len(window.rows) + StickyReservedRows = height
                 /\ (last - l) - (l - window.first) \in {0, 1}
            /\ window.first = 1 => (last - l >= l - 1 \/ last >= count)

\* The lines that begin with code: not with a comment or the rest of one, and
\* they are not blank.
CodeLines ==
  LET lines == SourceLines
      code == UNION {file[i].from + 1 .. file[i].to :
                       i \in {k \in DOMAIN file : file[k].kind \notin Comments \cup Newlines}}
      BeginsWithCode(text) ==
        \E i \in DOMAIN text : /\ text[i] \in code /\ data[text[i]] /= "r"
                               /\ \A j \in 1..(i - 1) : data[text[j]] = "r"
  IN {l \in DOMAIN lines : BeginsWithCode(lines[l])}

\* The rows of comments begin with a comment's signs, and those of code do not.
StarStyle == \A i \in DOMAIN file : file[i].kind \notin {"deref", "blockText"}

\* Each marker comment of a file asks for one breakpoint, on the first line
\* behind the comment's own that begins with code, and markers of the same line
\* ask for it once (comment_breakpoints.go scanCommentBreakpointsInFile,
\* source_index.go resolveBreakpointTargetLine, which looks at the lines' text
\* alone; dedupeBreakpointSpecs).
MarksMeanNextCode ==
  StarStyle =>
    LET code == CodeLines
        marks == {LineAt(file[i].from) : i \in {k \in DOMAIN file : file[k].kind = "mark"}}
        wanted == {l \in code : \E c \in marks : c < l /\ \A k \in code : k > c => k >= l}
        specs == DiscoverCommentBreakpoints
    IN Range(specs) = wanted /\ Len(specs) = Cardinality(wanted)

\* The README's promise of a source window centered on the current line, for
\* every file: the current line's text is what its row shows.
CurrentLineIsShown ==
  LET source == SourceLines
      lines == RenderedLines
  IN \A l \in DOMAIN source, height \in Heights :
       LET window == RenderStickySource(lines, l, height)
       IN Shows(window, l) /\ ShowsText(window, l, source[l])
=============================================================================
