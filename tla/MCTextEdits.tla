----------------------------- MODULE MCTextEdits -----------------------------
(* What the pure half of the write funnel promises, for every input of a    *)
(* few lines.  TLC evaluates the assumptions before it runs WriteFunnel.    *)
EXTENDS TextEdits

Dashes == "-- "      \* a line that, removed, looks like the header of a file
SomeLines == {"a", Blank, Dashes}

Scripts == BoundedSeq([tag : {" ", "-", "+"}, line : SomeLines], 4)
RawLines ==
  [l \in [tag : {" ", "-", "+"}, line : SomeLines] |->
     IF l.tag = "-" /\ l.line = Dashes THEN [tag |-> "head", line |-> Blank] ELSE l]

\* The texts a script may lead from: what it removes or keeps, ended or not.
Before(script) == {t \in [lines : {OldOf(script)}, ended : BOOLEAN] : IsText(t)}

\* A patch that the tools show of a change brings that change about: the lines
\* of the result are the new ones (format_unified_diff, then apply_patch).  Not
\* when it removes a line that begins with "-- ", and not when one of the texts
\* is a lone newline or the old one ends without.
OwnPatchesApply ==
  \A script \in Scripts : \A context \in 1 .. 2 :
    LET patch == FormatUnifiedDiff(script, context, RawLines)
        hunks == ParseUnifiedDiff(patch)
    IN  /\ \E k \in DOMAIN script : script[k].tag # " "
        /\ \A k \in DOMAIN script : script[k] # [tag |-> "-", line |-> Dashes]
        => \A t \in Before(script) :
             /\ CanPatch(t, hunks, 2)
             /\ t.ended /\ <<Blank>> \notin {t.lines, NewOf(script)} =>
                  HunksToText(t, hunks, 2).lines = NewOf(script)

Texts1(n) == {t \in [lines : BoundedSeq({"a", "b", Blank}, n), ended : BOOLEAN] : IsText(t)}

\* The drift a patch survives (HUNK_FUZZ): above the place a hunk names, up to
\* fuzz lines may have come since, when what it removes is found nowhere else.
DriftIsFollowed ==
  \A t \in Texts1(3) : \A at \in 0 .. Len(t.lines) - 1 : \A n \in 1 .. Len(t.lines) - at :
    LET hunk == [start |-> at + 1, old |-> SubSeq(t.lines, at + 1, at + n), new |-> <<"n">>]
    IN  \A above \in BoundedSeq({"a", "c"}, 2) :
          LET moved == above \o t.lines
          IN  (\A i \in 0 .. Len(moved) : Matches(moved, hunk.old, i) => i = at + Len(above))
                => PatchedLines(moved, <<hunk>>, 2)
                     = above \o PatchedLines(t.lines, <<hunk>>, 0)

\* Whatever a tool puts in place of lines first to last, the lines before and
\* after it stay whole: no line is joined to its neighbour, and the result is a
\* text (replace_lines, insert_at_line).
NeighboursStay ==
  \A t \in Texts1(3) : \A new \in Texts1(1) :
    /\ \A first, last \in 1 .. 3 : CanReplaceLines(t, first, last) =>
         LET after == ReplaceLines(t, first, last, new)
         IN  /\ IsText(after) \/ t.lines = <<>>
             /\ IsPrefix(SubSeq(t.lines, 1, first - 1), after.lines)
             /\ IsSuffix(SubSeq(t.lines, last + 1, Len(t.lines)), after.lines)
             /\ t.lines # <<>> =>
                  Len(after.lines) = Len(t.lines) - (last - first + 1) + Len(new.lines)
    /\ \A line \in 1 .. 4 : CanInsertAtLine(t, line) =>
         LET after == InsertAtLine(t, line, new)
         IN  /\ IsText(after)
             /\ ReplaceLines(after, line, line, [lines |-> <<>>, ended |-> FALSE]).lines = t.lines
                  \/ new.lines = <<>>

\* One occurrence after the end of the first makes str_replace refuse; two that
\* overlap do not, and then the first is replaced.
OnlyOverlapsSlip ==
  \A text \in BoundedSeq({"x", "y"}, 5) : \A old \in BoundedSeq({"x", "y"}, 3) :
    FoundOnce(text, old) =>
      \A i, j \in 1 .. Len(text) :
        Occurs(text, old, i) /\ Occurs(text, old, j) => Distance(i, j) < Len(old)

\* Edits of the language server that do not overlap are applied as if at once:
\* each replaces the characters it names of the text it was made for.
Positions == [start : 0 .. 3, end : 0 .. 3, new : {<<>>, <<"n">>, <<"m", "m">>}]
ApartEdits(text) ==
  {e \in BoundedSeq(Positions, 2) :
     /\ \A i \in DOMAIN e : e[i].start <= e[i].end /\ e[i].end <= Len(text)
     /\ \A i, j \in DOMAIN e : i # j => e[i].end < e[j].start \/ e[j].end < e[i].start}

Substituted(text, edits) ==
  LET At(p) == {i \in DOMAIN edits : edits[i].start = p}
      Kept(p) == ~ \E i \in DOMAIN edits : edits[i].start <= p /\ p < edits[i].end
      Piece(p) == (IF At(p) = {} THEN <<>> ELSE edits[CHOOSE i \in At(p) : TRUE].new)
                    \o (IF p < Len(text) /\ Kept(p) THEN <<text[p + 1]>> ELSE <<>>)
  IN  FlattenSeq([p \in 1 .. Len(text) + 1 |-> Piece(p - 1)])

EditsActAtOnce ==
  LET text == <<"x", "y", "z">>
  IN  \A edits \in ApartEdits(text) : ApplyTextEdits(text, edits) = Substituted(text, edits)

\* An offset lies in the line it names, and grows with the position.
OffsetsGrow ==
  LET units == [c \in {"x", "wide", "nl"} |-> IF c = "wide" THEN 2 ELSE 1]
      lines == <<<<"x", "nl">>, <<"wide", "x", "nl">>, <<"x">>>>
      Offset(l, c) == LspOffset(lines, l, c, units)
  IN  \A l \in -1 .. 4 : \A c \in -1 .. 5 :
        /\ Offset(l, c) <= Offset(l, c + 1)
        /\ Offset(l, c) <= Offset(l + 1, 0)

ASSUME TextEditsChecked ==
  /\ OwnPatchesApply
  /\ DriftIsFollowed
  /\ NeighboursStay
  /\ OnlyOverlapsSlip
  /\ EditsActAtOnce
  /\ OffsetsGrow
=============================================================================
