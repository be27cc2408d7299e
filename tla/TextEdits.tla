------------------------------ MODULE TextEdits ------------------------------
(***************************************************************************)
(* The pure half of the write funnel: what the editing tools make of a     *)
(* text (runtime/tools/edits.py, from format_unified_diff to _lsp_offset). *)
(*                                                                         *)
(* A text is its lines and whether the last one ends in a newline.  A      *)
(* refusal (EditError) is the negation of the tool's Can operator; the     *)
(* hints a refusal carries are left out.  Positions count from 0, as the   *)
(* code's do; line numbers and sequences count from 1.                     *)
(***************************************************************************)
EXTENDS Integers, Sequences, SequencesExt

Blank == ""     \* a line without characters

\* What splitlines and the newline at the end can say of a text.
IsText(t) ==
  IF t.ended THEN t.lines # <<>> ELSE t.lines = <<>> \/ Last(t.lines) # Blank

\* s[:at] + new + s[at + n:]
Splice(s, at, n, new) == SubSeq(s, 1, at) \o new \o SubSeq(s, at + n + 1, Len(s))

-----------------------------------------------------------------------------
(* Tools that name lines.                                                  *)

CanReplaceLines(t, start, end) ==
  /\ 1 <= start /\ start <= end
  /\ end <= IF t.lines = <<>> THEN 1 ELSE Len(t.lines)

\* replace_lines: the new text gets a newline only where something follows it,
\* or where the file was empty.
ReplaceLines(t, start, end, new) ==
  [lines |-> Splice(t.lines, start - 1, end - start + 1, new.lines),
   ended |-> IF end < Len(t.lines) THEN t.ended
             ELSE IF t.lines = <<>> THEN new.lines # <<>>
             ELSE IF new.lines = <<>> THEN start > 1
             ELSE new.ended]

CanInsertAtLine(t, line) == line \in 1 .. Len(t.lines) + 1

\* insert_at_line: after the last line, that line is ended first.
InsertAtLine(t, line, new) ==
  LET lines == Splice(t.lines, line - 1, 0, new.lines)
  IN  [lines |-> lines,
       ended |-> IF line <= Len(t.lines) THEN t.ended ELSE lines # <<>>]

-----------------------------------------------------------------------------
(* str_replace, on the characters of a text.                               *)

Occurs(text, old, i) == i + Len(old) - 1 <= Len(text) /\ SubSeq(text, i, i + Len(old) - 1) = old

\* str.count is 1: nothing is found after the end of the first occurrence,
\* whatever overlaps it.
FoundOnce(text, old) ==
  /\ old # <<>>
  /\ \E i \in 1 .. Len(text) :
       /\ Occurs(text, old, i)
       /\ \A j \in 1 .. Len(text) : Occurs(text, old, j) => i <= j /\ j < i + Len(old)

StrReplace(text, old, new) ==
  LET first == CHOOSE i \in 1 .. Len(text) :
                 Occurs(text, old, i) /\ \A j \in 1 .. i - 1 : ~Occurs(text, old, j)
  IN  Splice(text, first - 1, Len(old), new)

-----------------------------------------------------------------------------
(* Patches: lines with a tag.  "@@" opens a hunk at a line; "head" is what *)
(* begins with "--- " or "+++ ", also a removed line that begins with two  *)
(* dashes and a blank; "\\" is the remark on a missing newline; any other  *)
(* line without a prefix counts as context.                                *)

InOld == {" ", "-", "other"}
InNew == {" ", "+", "other"}

\* Where the hunk opened at i ends: at the next one or at a file's header.
HunkEnd(patch, i) ==
  CHOOSE j \in i + 1 .. Len(patch) + 1 :
    /\ j <= Len(patch) => patch[j].tag \in {"@@", "head"}
    /\ \A k \in i + 1 .. j - 1 : patch[k].tag \notin {"@@", "head"}

Tagged(body, tags) ==
  LET kept == SelectSeq(body, LAMBDA l : l.tag \in tags)
  IN  [k \in DOMAIN kept |-> kept[k].line]

\* parse_unified_diff: the counts of the header are read and never compared.
ParseUnifiedDiff(patch) ==
  LET opens == SetToSortSeq({i \in DOMAIN patch : patch[i].tag = "@@"}, <)
      Body(k) == SubSeq(patch, opens[k] + 1, HunkEnd(patch, opens[k]) - 1)
  IN  [k \in DOMAIN opens |-> [start |-> patch[opens[k]].line,
                               old |-> Tagged(Body(k), InOld),
                               new |-> Tagged(Body(k), InNew)]]

Matches(lines, target, at) ==
  /\ 0 <= at /\ at + Len(target) <= Len(lines)
  /\ SubSeq(lines, at + 1, at + Len(target)) = target

\* The place a hunk names; one without old lines goes after the line it names.
Expected(lines, hunk) ==
  IF hunk.old # <<>> THEN IF hunk.start > 0 THEN hunk.start - 1 ELSE 0
  ELSE IF hunk.start > Len(lines) THEN Len(lines)
  ELSE IF hunk.start > 0 THEN hunk.start ELSE 0

Around(lines, hunk, fuzz) ==
  {at \in Expected(lines, hunk) - fuzz .. Expected(lines, hunk) + fuzz :
     Matches(lines, hunk.old, at)}

Distance(a, b) == IF a < b THEN b - a ELSE a - b

CanLocate(lines, hunk, fuzz) == hunk.old = <<>> \/ Around(lines, hunk, fuzz) # {}

\* _locate_hunk: the nearest match, of two the earlier.
LocateHunk(lines, hunk, fuzz) ==
  LET expected == Expected(lines, hunk)
  IN  IF hunk.old = <<>> THEN expected
      ELSE CHOOSE at \in Around(lines, hunk, fuzz) :
             \A other \in Around(lines, hunk, fuzz) :
               \/ Distance(at, expected) < Distance(other, expected)
               \/ Distance(at, expected) = Distance(other, expected) /\ at <= other

\* Every hunk is located on the original, then they are applied from the
\* bottom up; nothing compares their ranges.
PatchedLines(lines, hunks, fuzz) ==
  LET at    == [i \in DOMAIN hunks |-> LocateHunk(lines, hunks[i], fuzz)]
      order == SetToSortSeq(DOMAIN hunks,
                 LAMBDA i, j : at[i] > at[j] \/ (at[i] = at[j] /\ i < j))
  IN  FoldLeft(LAMBDA ls, i : Splice(ls, at[i], Len(hunks[i].old), hunks[i].new),
               lines, order)

\* "\n".join
Joined(lines) ==
  IF lines # <<>> /\ Last(lines) = Blank
    THEN [lines |-> Front(lines), ended |-> Len(lines) > 1]
    ELSE [lines |-> lines, ended |-> FALSE]

CanPatch(t, hunks, fuzz) ==
  hunks # <<>> /\ \A i \in DOMAIN hunks : CanLocate(t.lines, hunks[i], fuzz)

\* hunks_to_text: the newline at the end is that of the text before; what is
\* joined to nothing gets none, except that a text of one newline stays it.
HunksToText(t, hunks, fuzz) ==
  LET lines  == PatchedLines(t.lines, hunks, fuzz)
      joined == Joined(lines)
  IN  IF ~t.ended THEN joined
      ELSE IF joined.lines # <<>> THEN [lines |-> lines, ended |-> TRUE]
      ELSE IF t.lines = <<Blank>> THEN t
      ELSE joined

-----------------------------------------------------------------------------
(* format_unified_diff, of a script: the lines of both texts in order, each *)
(* kept (" "), removed ("-") or added ("+").                                *)

OldOf(script) == Tagged(script, {" ", "-"})
NewOf(script) == Tagged(script, {" ", "+"})

\* get_grouped_opcodes: what lies within context lines of a change.
Shown(script, context) ==
  {k \in DOMAIN script :
     \E c \in DOMAIN script : script[c].tag # " " /\ Distance(c, k) <= context}

FormatUnifiedDiff(script, context, raw) ==
  LET shown == Shown(script, context)
      Line(k) == <<raw[script[k]]>>
      Header(k) == IF k - 1 \in shown THEN <<>>
                   ELSE <<[tag |-> "@@", line |-> Len(OldOf(SubSeq(script, 1, k - 1))) + 1]>>
      \* the two lines that name the file
      names == IF shown = {} THEN <<>> ELSE <<[tag |-> "head", line |-> Blank],
                                              [tag |-> "head", line |-> Blank]>>
  IN  FoldLeft(LAMBDA out, k : out \o Header(k) \o Line(k), names, SetToSortSeq(shown, <))

-----------------------------------------------------------------------------
(* Edits of the language server.                                           *)

Total(lines) == FoldLeft(LAMBDA sum, line : sum + Len(line), 0, lines)

\* _lsp_offset: a position in UTF-16 units; lines are their characters with
\* the newline, and units[c] is 1 or 2.
LspOffset(lines, line, character, units) ==
  IF line < 0 THEN 0
  ELSE IF line >= Len(lines) THEN Total(lines)
  ELSE LET chars == lines[line + 1]
           Upto(n) == FoldLeft(LAMBDA sum, c : sum + units[c], 0, SubSeq(chars, 1, n))
       IN  Total(SubSeq(lines, 1, line))
             + (CHOOSE n \in 0 .. Len(chars) :
                  /\ n = 0 \/ Upto(n) <= character
                  /\ n < Len(chars) => Upto(n + 1) > character)

\* apply_text_edits: from the bottom up, edits of one place in their order, so
\* that the later of two insertions comes first.
ApplyTextEdits(text, edits) ==
  LET order == SetToSortSeq(DOMAIN edits,
                 LAMBDA i, j : edits[i].start > edits[j].start
                                 \/ (edits[i].start = edits[j].start /\ i < j))
  IN  FoldLeft(LAMBDA s, i : Splice(s, edits[i].start, edits[i].end - edits[i].start, edits[i].new),
               text, order)
=============================================================================
