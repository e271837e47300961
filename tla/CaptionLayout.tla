--------------------------- MODULE CaptionLayout ---------------------------
(***************************************************************************)
(* How a caption becomes pixels: its text is normalised, broken into       *)
(* lines, measured and drawn (subtitle_text_sanitize.c,                    *)
(* subtitle_text_renderer.c) into a bitmap for the mask of CaptionHal.     *)
(*                                                                         *)
(* A glyph stands for the rectangle of its ink.  A slot's 127 bytes lie    *)
(* below the renderer's limits of 512 codepoints and 32 lines.             *)
(***************************************************************************)
EXTENDS CaptionHal, SequencesExt

LineHeight == 41
PadX == 18
PadY == 10
ContentWidth == MaskWidth - 2 * PadX

(***************************************************************************)
(* Glyphs of the font (subtitle_font.c): the widest and the narrowest, the *)
(* ones that start left of the pen or end right of their advance, the      *)
(* tallest and the deepest.                                                *)
(***************************************************************************)
G(width, height, x, y, advance) ==
  [width |-> width, height |-> height, x |-> x, y |-> y, advance |-> advance]

Glyph == [sp     |-> G(0, 0, 0, 0, 8),      hyphen |-> G(9, 3, 2, -12, 13),
          dot    |-> G(4, 5, 2, -5, 8),     quote  |-> G(3, 10, 2, -25, 7),
          i      |-> G(5, 25, 2, -25, 8),   j      |-> G(8, 31, -1, -25, 8),
          m      |-> G(24, 18, 2, -18, 28), T      |-> G(20, 25, 0, -25, 20),
          W      |-> G(34, 25, 1, -25, 35), bar    |-> G(3, 32, 3, -26, 9),
          Aacute |-> G(23, 32, 0, -32, 23), iacute |-> G(7, 25, 2, -25, 8)]

Char == DOMAIN Glyph \cup {"curly", "dash", "ellipsis", "foreign"}

Line == Seq(DOMAIN Glyph)

Advance[line \in Line] ==
  IF line = <<>> THEN 0 ELSE Glyph[Head(line)].advance + Advance[Tail(line)]

-----------------------------------------------------------------------------
(***************************************************************************)
(* subtitle_text_sanitize: characters the font has are kept, curly quotes, *)
(* dashes and ellipses become ASCII, anything else a space.                *)
(***************************************************************************)
Sanitize(char) ==
  CASE char \in DOMAIN Glyph -> <<char>>
    [] char = "curly"        -> <<"quote">>
    [] char = "dash"         -> <<"hyphen">>
    [] char = "ellipsis"     -> <<"dot", "dot", "dot">>
    [] OTHER                 -> <<"sp">>

(***************************************************************************)
(* decode_text: the words, however many spaces are around them.            *)
(***************************************************************************)
Ended(line) == IF line = <<>> THEN <<>> ELSE <<line>>

Split[at \in Seq(Char) \X Line] ==
  LET text == at[1]
      word == at[2]
  IN  IF text = <<>> THEN Ended(word)
      ELSE IF Sanitize(Head(text)) = <<"sp">> THEN Ended(word) \o Split[<<Tail(text), <<>>>>]
      ELSE Split[<<Tail(text), word \o Sanitize(Head(text))>>]

Words(text) == Split[<<text, <<>>>>]

(***************************************************************************)
(* split_word: a word wider than a line is cut, with a hyphen.             *)
(***************************************************************************)
MutCut(word) == Max({n \in 1..Len(word) : n = 1 \/ Advance[SubSeq(word, 1, n)] <= ContentWidth})

Cut(word) ==
  Max({n \in 1..Len(word) :
         n = 1 \/ Advance[SubSeq(word, 1, n)] + Glyph["hyphen"].advance <= ContentWidth})

SplitWord[word \in Line] ==
  IF Advance[word] <= ContentWidth THEN <<word>>
  ELSE LET n == Cut(word)
       IN  <<SubSeq(word, 1, n) \o <<"hyphen">> >> \o SplitWord[SubSeq(word, n + 1, Len(word))]

Joins(line, word) ==
  line # <<>> /\ Advance[line] + Glyph["sp"].advance + Advance[word] <= ContentWidth

(***************************************************************************)
(* wrap_codepoints: a word goes on the current line if it fits there, else *)
(* on a new one; a split word's pieces are lines of their own.             *)
(***************************************************************************)
Place[at \in Seq(Line) \X Line] ==
  LET words == at[1]
      line == at[2]
  IN  IF words = <<>> THEN Ended(line)
      ELSE IF Joins(line, Head(words))
      THEN Place[<<Tail(words), line \o <<"sp">> \o Head(words)>>]
      ELSE IF Advance[Head(words)] > ContentWidth
      THEN Ended(line) \o SplitWord[Head(words)] \o Place[<<Tail(words), <<>>>>]
      ELSE Ended(line) \o Place[<<Tail(words), Head(words)>>]

Wrap(words) == Place[<<words, <<>>>>]

AppendTail(lines, n) == SubSeq(lines, Max({1, Len(lines) - n + 1}), Len(lines))

(***************************************************************************)
(* build_visible_lines: the last line of the previous text and the last    *)
(* two of the current one, or three of a text alone (earlier: <<>>).       *)
(***************************************************************************)
Visible(earlier, text) ==
  IF earlier = <<>> THEN AppendTail(Wrap(Words(text)), 3)
  ELSE AppendTail(Wrap(Words(earlier)), 1) \o AppendTail(Wrap(Words(text)), 2)

(***************************************************************************)
(* measure_line: the rectangle that the ink of a line fills, the pen       *)
(* starting at 0, 0.  A space has none; no line is all spaces.             *)
(***************************************************************************)
NoInk == [left |-> 9999, right |-> -9999, top |-> 9999, bottom |-> -9999]

Hull(r, s) == [left |-> Min({r.left, s.left}), right |-> Max({r.right, s.right}),
               top |-> Min({r.top, s.top}), bottom |-> Max({r.bottom, s.bottom})]

GlyphInk(g) ==
  IF g.width = 0 THEN NoInk
  ELSE [left |-> g.x, right |-> g.x + g.width - 1, top |-> g.y, bottom |-> g.y + g.height - 1]

Moved(r, dx, dy) == [left |-> r.left + dx, right |-> r.right + dx,
                     top |-> r.top + dy, bottom |-> r.bottom + dy]

InkOf[line \in Line] ==
  IF line = <<>> THEN NoInk
  ELSE LET g == Glyph[Head(line)]
       IN  Hull(GlyphInk(g), Moved(InkOf[Tail(line)], g.advance, 0))

InkWidth(r) == r.right - r.left + 1

(***************************************************************************)
(* measure_visible and the sizes of subtitle_text_renderer_render_caption: *)
(* the ink of the lines, the widest, and the box in words of 32 pixels.    *)
(***************************************************************************)
Ink(lines) == [n \in DOMAIN lines |-> Moved(InkOf[lines[n]], 0, (n - 1) * LineHeight)]

Metrics(ink) ==
  LET widest == Max({InkWidth(ink[n]) : n \in DOMAIN ink})
      minY == Min({ink[n].top : n \in DOMAIN ink})
  IN  [widest |-> widest, minY |-> minY,
       width |-> 32 * ((widest + 2 * PadX + 31) \div 32),
       height |-> Max({ink[n].bottom : n \in DOMAIN ink}) - minY + 1 + 2 * PadY]

(***************************************************************************)
(* draw_visible: where a line's ink goes in the box, centred.              *)
(***************************************************************************)
Drawn(r, m) == Moved(r, PadX + (m.widest - InkWidth(r)) \div 2 - r.left, PadY - m.minY)

Rendered(m) == m.width <= MaskWidth /\ m.height <= MaskHeight

-----------------------------------------------------------------------------
(***************************************************************************)
(* The texts looked at: words of every kind, some exactly as wide as a     *)
(* line, one that needs cutting twice, between characters the font has not *)
(* and spaces that come in pairs.                                          *)
(***************************************************************************)
Rep(g, n) == [k \in 1..n |-> g]

SampleWords ==
  { <<"i">>, <<"bar", "Aacute">>, <<"j">> \o Rep("m", 34) \o <<"dash">>,
    Rep("m", 35) \o <<"i">>, <<"T">> \o Rep("m", 34) \o <<"i", "iacute">>,
    <<"curly">> \o Rep("W", 14), <<"j">> \o Rep("W", 28), Rep("W", 60) \o <<"ellipsis">> }

SampleTexts ==
  {w \o s \o v : w \in SampleWords, v \in SampleWords,
                 s \in {<<"sp">>, <<"sp", "foreign">>, <<"i", "foreign", "W">>}} \cup
  {w \o <<"sp">> \o v \o <<"sp">> \o u : w, v, u \in {x \in SampleWords : Len(x) < 40}} \cup
  SampleWords

FitsSlot(text) == Len(text) <= 120

Singles == {t \in SampleTexts : FitsSlot(t)}

(***************************************************************************)
(* The caption whose lines these are is drawn inside its padding, no line  *)
(* over another; and it is refused only when a line fills its width and    *)
(* the ink of its first letter starts before the pen, or that of its last  *)
(* one ends beyond its advance.                                            *)
(***************************************************************************)
Overhang(line) ==
  LET last == Glyph[Last(line)]
  IN  Max({0, -Glyph[Head(line)].x}) + Max({0, last.x + last.width - last.advance})

Overhangs(line) == Advance[line] + Overhang(line) > ContentWidth

DrawnWhole(lines) ==
  LET ink == Ink(lines)
      m == Metrics(ink)
  IN  /\ \A n \in DOMAIN lines :
           LET r == Drawn(ink[n], m)
           IN  /\ PadX <= r.left /\ r.right < PadX + m.widest
               /\ PadY <= r.top /\ r.bottom < m.height - PadY
               /\ n > 1 => Drawn(ink[n - 1], m).bottom < r.top
      /\ Rendered(m) \/ \E n \in DOMAIN lines : Overhangs(lines[n])

(***************************************************************************)
(* The letters of a text: what is shown of it but for spaces and hyphens.  *)
(***************************************************************************)
LettersOf(char) == IF Sanitize(char) \in {<<"sp">>, <<"hyphen">>} THEN <<>> ELSE Sanitize(char)

Letters[text \in Seq(Char)] ==
  IF text = <<>> THEN <<>> ELSE LettersOf(Head(text)) \o Letters[Tail(text)]

(***************************************************************************)
(* Wrapping loses no letter, puts hyphens only where it cuts, and keeps    *)
(* every line to its width.                                                *)
(***************************************************************************)
WrapsWhole(text) ==
  LET lines == Wrap(Words(text))
  IN  /\ Letters[FlattenSeq(lines)] = Letters[text]
      /\ \A n \in DOMAIN lines : Advance[lines[n]] <= ContentWidth

SinglesDrawn == \A t \in Singles : WrapsWhole(t) /\ DrawnWhole(Visible(<<>>, t))

PairsDrawn ==
  \A p \in SampleWords : \A c \in Singles \cap {w \o <<"sp">> \o v : w, v \in SampleWords} :
    DrawnWhole(Visible(p, c))
=============================================================================
