--------------------------- MODULE CaptionsProofs ---------------------------
(***************************************************************************)
(* Captions for every set of texts, every pair of timeouts and every queue *)
(* bound. From the text to the screen: what becomes of its words, where    *)
(* their ink goes, what the registers and the mask show; then the slots,   *)
(* the timers and the refinement of CaptionScreen.                         *)
(***************************************************************************)
EXTENDS MCCaptions, RecursionFacts, TLAPS

-----------------------------------------------------------------------------
(***************************************************************************)
(* Words and lines: nothing is lost, no line is too wide.  All that is     *)
(* used of a size is this: it holds of every glyph of subtitle_font.c.     *)
(***************************************************************************)
LEMMA GlyphIs ==
  ASSUME NEW c \in DOMAIN Glyph
  PROVE  LET g == Glyph[c]
         IN  /\ g \in [width : Nat, height : Nat, x : Int, y : Int, advance : Nat]
             /\ 7 <= g.advance /\ g.advance <= 35
             /\ (c = "sp") <=> (g.width = 0)
             /\ -1 <= g.x /\ g.x <= 4
             /\ g.x + g.width <= g.advance + 1
             /\ -32 <= g.y /\ g.y + g.height - 1 <= 5 /\ g.y <= 2
             /\ c # "sp" => g.width >= 3 /\ g.height >= 3
<1>1. c \in {"sp", "hyphen", "dot", "quote", "i", "j", "m", "T", "W", "bar", "Aacute", "iacute"}
  BY DEF Glyph
<1>2. /\ Glyph["sp"] = G(0, 0, 0, 0, 8)
      /\ Glyph["hyphen"] = G(9, 3, 2, -12, 13) /\ Glyph["dot"] = G(4, 5, 2, -5, 8)
      /\ Glyph["quote"] = G(3, 10, 2, -25, 7) /\ Glyph["i"] = G(5, 25, 2, -25, 8)
      /\ Glyph["j"] = G(8, 31, -1, -25, 8) /\ Glyph["m"] = G(24, 18, 2, -18, 28)
      /\ Glyph["T"] = G(20, 25, 0, -25, 20) /\ Glyph["W"] = G(34, 25, 1, -25, 35)
      /\ Glyph["bar"] = G(3, 32, 3, -26, 9) /\ Glyph["Aacute"] = G(23, 32, 0, -32, 23)
      /\ Glyph["iacute"] = G(7, 25, 2, -25, 8)
  BY DEF Glyph
<1> QED BY <1>1, <1>2 DEF G

(***************************************************************************)
(* The width of a line.                                                    *)
(***************************************************************************)
LEMMA AdvanceUnfolds ==
  /\ Advance \in [Line -> Nat]
  /\ \A line \in Line :
       Advance[line] = IF line = <<>> THEN 0 ELSE Glyph[Head(line)].advance + Advance[Tail(line)]
<1> DEFINE S == Line
           stop == {<<>>}
           rank == [line \in S |-> Len(line)]
           next == [line \in S |-> IF line = <<>> THEN line ELSE Tail(line)]
           base == [line \in S |-> 0]
           step == [line \in S |-> [a \in Nat |-> [b \in Nat |-> Glyph[Head(line)].advance + a]]]
           body(f) == [line \in S |->
                         IF line = <<>> THEN 0 ELSE Glyph[Head(line)].advance + f[Tail(line)]]
<1>1. rank \in [S -> Nat] BY DEF Line
<1>2. \A line \in S : line # <<>> =>
         /\ Head(line) \in DOMAIN Glyph /\ Tail(line) \in S /\ Len(Tail(line)) < Len(line)
  BY DEF Line
<1>3. next \in [S -> S] BY <1>2
<1>4. \A line \in S : line \notin stop => rank[next[line]] < rank[line] BY <1>2
<1>5. \A line \in S : line # <<>> => Glyph[Head(line)].advance \in Nat BY <1>2, GlyphIs
<1>6. \A line \in S : line \notin stop => \A a, b \in Nat :
         /\ step[line][a][b] = Glyph[Head(line)].advance + a
         /\ step[line][a][b] \in Nat
  BY <1>5
<1>7. \E f : Unfolds(f, S, Nat, stop, base, step, next, next)
  <2>1. \A line \in S : line \in stop => base[line] \in Nat OBVIOUS
  <2>2. \A line \in S : line \notin stop => \A a, b \in Nat : step[line][a][b] \in Nat BY <1>6
  <2> HIDE DEF S, stop, rank, next, base, step
  <2> QED BY <1>1, <1>3, <1>4, <2>1, <2>2, Recursion
<1>8. PICK f : Unfolds(f, S, Nat, stop, base, step, next, next) BY <1>7
<1>9. f \in [S -> Nat] BY <1>8 DEF Unfolds
<1>10. \A line \in S : f[line] = IF line = <<>> THEN 0 ELSE Glyph[Head(line)].advance + f[Tail(line)]
  <2> TAKE line \in S
  <2>1. CASE line = <<>> BY <1>8, <2>1 DEF Unfolds
  <2>2. CASE line # <<>>
    <3>1. f[line] = step[line][f[next[line]]][f[next[line]]] BY <1>8, <2>2 DEF Unfolds
    <3>2. next[line] = Tail(line) /\ Tail(line) \in S BY <1>2, <2>2
    <3>3. f[Tail(line)] \in Nat BY <1>9, <3>2
    <3> HIDE DEF step, next, S
    <3> QED BY <1>6, <2>2, <3>1, <3>2, <3>3
  <2> QED BY <2>1, <2>2
<1>11. f = body(f) BY <1>9, <1>10
<1>12. Advance = CHOOSE h : h = body(h) BY DEF Advance
<1>13. Advance = body(Advance) BY <1>11, <1>12
<1>14. \A line \in S :
         Advance[line] = IF line = <<>> THEN 0 ELSE Glyph[Head(line)].advance + Advance[Tail(line)]
  BY <1>13
<1>15. S \subseteq {line \in S : Advance[line] \in Nat}
  <2> DEFINE Good == {line \in S : Advance[line] \in Nat}
  <2>0. S = Seq(DOMAIN Glyph) BY DEF Line
  <2>1. <<>> \in Good
    <3>1. <<>> \in S BY <2>0
    <3> QED BY <1>14, <3>1
  <2>2. \A line \in S : (line # <<>> /\ Tail(line) \in Good) => line \in Good
    <3> SUFFICES ASSUME NEW line \in S, line # <<>>, Tail(line) \in Good PROVE Advance[line] \in Nat
      OBVIOUS
    <3>1. Advance[Tail(line)] \in Nat OBVIOUS
    <3>2. Glyph[Head(line)].advance \in Nat BY <1>5
    <3>3. Advance[line] = Glyph[Head(line)].advance + Advance[Tail(line)] BY <1>14
    <3> QED BY <3>1, <3>2, <3>3
  <2> HIDE DEF S, Good
  <2>3. S \subseteq Good BY <2>0, <2>1, <2>2, SeqDescent
  <2> QED BY <2>3 DEF Good
<1>16. Advance \in [S -> Nat] BY <1>13, <1>15
<1> QED BY <1>14, <1>16

(***************************************************************************)
(* Two stretches of a line are as wide as both.                            *)
(***************************************************************************)
LEMMA AdvanceConcat ==
  ASSUME NEW a \in Line, NEW b \in Line
  PROVE  Advance[a \o b] = Advance[a] + Advance[b] /\ a \o b \in Line
<1> DEFINE Good == {s \in Line : Advance[s \o b] = Advance[s] + Advance[b]}
<1>1. Line = Seq(DOMAIN Glyph) BY DEF Line
<1>2. <<>> \in Good
  <2>0. <<>> \in Line BY <1>1
  <2>1. Advance[<<>>] = 0 BY <2>0, AdvanceUnfolds
  <2>3. <<>> \o b = b BY <1>1, ConcatEmptySeq
  <2>2. Advance[b] \in Nat BY AdvanceUnfolds
  <2> QED BY <2>0, <2>1, <2>2, <2>3
<1>3. \A s \in Line : (s # <<>> /\ Tail(s) \in Good) => s \in Good
  <2> SUFFICES ASSUME NEW s \in Line, s # <<>>, Tail(s) \in Good PROVE Advance[s \o b] = Advance[s] + Advance[b]
    OBVIOUS
  <2>1. /\ s \o b # <<>> /\ s \o b \in Line /\ Head(s \o b) = Head(s) /\ Tail(s \o b) = Tail(s) \o b
        /\ Tail(s) \in Line
    BY <1>1, HeadTailConcat
  <2>2. Advance[Tail(s) \o b] = Advance[Tail(s)] + Advance[b] OBVIOUS
  <2>3. Advance[s \o b] = Glyph[Head(s)].advance + Advance[Tail(s) \o b] BY <2>1, AdvanceUnfolds
  <2>4. Advance[s] = Glyph[Head(s)].advance + Advance[Tail(s)] BY AdvanceUnfolds
  <2>5. Glyph[Head(s)].advance \in Nat
    <3>1. Head(s) \in DOMAIN Glyph BY <1>1
    <3> QED BY <3>1, GlyphIs
  <2>6. Advance[Tail(s)] \in Nat /\ Advance[b] \in Nat BY <2>1, AdvanceUnfolds
  <2> HIDE DEF Good
  <2> QED BY <2>2, <2>3, <2>4, <2>5, <2>6
<1>4. Line \subseteq Good
  <2> HIDE DEF Good
  <2> QED BY <1>1, <1>2, <1>3, SeqDescent
<1>5. a \o b \in Line BY <1>1
<1> QED BY <1>4, <1>5

LEMMA AdvanceOne == ASSUME NEW c \in DOMAIN Glyph PROVE Advance[<<c>>] = Glyph[c].advance /\ <<c>> \in Line
<1>1. <<c>> \in Line /\ <<c>> # <<>> /\ Head(<<c>>) = c /\ Tail(<<c>>) = <<>> /\ <<>> \in Line BY DEF Line
<1>2. Advance[<<>>] = 0 BY <1>1, AdvanceUnfolds
<1>3. Advance[<<c>>] = Glyph[Head(<<c>>)].advance + Advance[Tail(<<c>>)] BY <1>1, AdvanceUnfolds
<1>4. Glyph[c].advance \in Nat BY GlyphIs
<1> QED BY <1>1, <1>2, <1>3, <1>4

(***************************************************************************)
(* The glyphs that have ink, and the words made of them.                   *)
(***************************************************************************)
InkGlyph == DOMAIN Glyph \ {"sp"}

InkWord == Seq(InkGlyph) \ {<<>>}

LEMMA Glyphs ==
  /\ DOMAIN Glyph = {"sp", "hyphen", "dot", "quote", "i", "j", "m", "T", "W", "bar", "Aacute", "iacute"}
  /\ DOMAIN Glyph \subseteq Char /\ Seq(InkGlyph) \subseteq Line /\ Line \subseteq Seq(Char)
<1>1. DOMAIN Glyph = {"sp", "hyphen", "dot", "quote", "i", "j", "m", "T", "W", "bar", "Aacute", "iacute"}
  BY DEF Glyph
<1>2. DOMAIN Glyph \subseteq Char BY DEF Char
<1>3. InkGlyph \subseteq DOMAIN Glyph BY DEF InkGlyph
<1>4. Seq(InkGlyph) \subseteq Line
  <2> DEFINE D == DOMAIN Glyph
  <2>1. InkGlyph \subseteq D BY <1>3
  <2> HIDE DEF D
  <2>2. Seq(InkGlyph) \subseteq Seq(D) BY <2>1, SeqMonotonic
  <2> QED BY <2>2 DEF D, Line
<1>5. Line \subseteq Seq(Char)
  <2> DEFINE D == DOMAIN Glyph
  <2>1. D \subseteq Char BY <1>2
  <2> HIDE DEF D
  <2>2. Seq(D) \subseteq Seq(Char) BY <2>1, SeqMonotonic
  <2> QED BY <2>2 DEF D, Line
<1> QED BY <1>1, <1>2, <1>4, <1>5

(***************************************************************************)
(* What a character is replaced by.                                        *)
(***************************************************************************)
LEMMA SanitizeIs ==
  ASSUME NEW c \in Char
  PROVE  /\ Sanitize(c) \in Line /\ LettersOf(c) \in Line
         /\ Sanitize(c) = <<"sp">> => LettersOf(c) = <<>>
         /\ Sanitize(c) # <<"sp">> => Sanitize(c) \in Seq(InkGlyph) /\ Sanitize(c) # <<>>
<1>1. c \in DOMAIN Glyph \/ c \in {"curly", "dash", "ellipsis", "foreign"} BY DEF Char
<1>2. \A x \in DOMAIN Glyph : Sanitize(x) = <<x>> BY Glyphs DEF Sanitize
<1>3. /\ Sanitize("curly") = <<"quote">> /\ Sanitize("dash") = <<"hyphen">>
      /\ Sanitize("ellipsis") = <<"dot", "dot", "dot">> /\ Sanitize("foreign") = <<"sp">>
  BY Glyphs DEF Sanitize
<1>4. "quote" \in InkGlyph /\ "hyphen" \in InkGlyph /\ "dot" \in InkGlyph /\ "sp" \in DOMAIN Glyph
  BY Glyphs DEF InkGlyph
<1>9. /\ <<"quote">> \in Seq(InkGlyph) /\ <<"hyphen">> \in Seq(InkGlyph)
      /\ <<"dot", "dot", "dot">> \in Seq(InkGlyph)
  BY <1>4
<1>10. <<"quote">> # <<>> /\ <<"hyphen">> # <<>> /\ <<"dot", "dot", "dot">> # <<>> OBVIOUS
<1>5. Sanitize(c) = <<"sp">> \/ (Sanitize(c) \in Seq(InkGlyph) /\ Sanitize(c) # <<>>)
  <2>1. CASE c \in DOMAIN Glyph
    <3>1. Sanitize(c) = <<c>> /\ (c = "sp" \/ c \in InkGlyph) BY <1>2, <2>1 DEF InkGlyph
    <3> QED BY <3>1
  <2>2. CASE c = "curly" BY <1>3, <1>9, <1>10, <2>2, Zenon
  <2>3. CASE c = "dash" BY <1>3, <1>9, <1>10, <2>3, Zenon
  <2>4. CASE c = "ellipsis" BY <1>3, <1>9, <1>10, <2>4, Zenon
  <2>5. CASE c = "foreign" BY <1>3, <2>5
  <2> QED BY <1>1, <2>1, <2>2, <2>3, <2>4, <2>5
<1>6. <<"sp">> \in Line BY <1>4 DEF Line
<1>7. Sanitize(c) \in Line BY <1>5, <1>6, Glyphs
<1>8. <<>> \in Line BY DEF Line
<1> QED BY <1>5, <1>7, <1>8 DEF LettersOf

(***************************************************************************)
(* The letters of a text.                                                  *)
(***************************************************************************)
LEMMA LettersUnfolds ==
  /\ Letters \in [Seq(Char) -> Line]
  /\ \A text \in Seq(Char) :
       Letters[text] = IF text = <<>> THEN <<>> ELSE LettersOf(Head(text)) \o Letters[Tail(text)]
<1> DEFINE S == Seq(Char)
           stop == {<<>>}
           rank == [text \in S |-> Len(text)]
           next == [text \in S |-> IF text = <<>> THEN text ELSE Tail(text)]
           base == [text \in S |-> <<>>]
           first == [text \in S |-> LettersOf(Head(text))]
           body(f) == [text \in S |->
                         IF text = <<>> THEN <<>> ELSE LettersOf(Head(text)) \o f[Tail(text)]]
           E == DOMAIN Glyph
<1>0. Line = Seq(E) BY DEF Line
<1>1. \A text \in S : Len(text) \in Nat /\ (text # <<>> =>
         Head(text) \in Char /\ Tail(text) \in S /\ Len(Tail(text)) < Len(text))
  OBVIOUS
<1>2. rank \in [S -> Nat] /\ next \in [S -> S] BY <1>1
<1>3. \A text \in S : text \in stop => base[text] \in Seq(E) OBVIOUS
<1>4. \A text \in S : text \notin stop => first[text] \in Seq(E) /\ rank[next[text]] < rank[text]
  BY <1>0, <1>1, SanitizeIs
<1>5. \E f : Unrolls(f, S, E, stop, base, first, next)
  <2> HIDE DEF S, stop, rank, next, base, first, E
  <2> QED BY <1>2, <1>3, <1>4, Unrolling
<1>6. PICK f : Unrolls(f, S, E, stop, base, first, next) BY <1>5
<1>7. f \in [S -> Seq(E)] BY <1>6 DEF Unrolls
<1>8. \A text \in S : f[text] = IF text = <<>> THEN <<>> ELSE LettersOf(Head(text)) \o f[Tail(text)]
  <2> TAKE text \in S
  <2>1. CASE text = <<>> BY <1>6, <2>1 DEF Unrolls
  <2>2. CASE text # <<>>
    <3>1. f[text] = first[text] \o f[next[text]] BY <1>6, <2>2 DEF Unrolls
    <3> QED BY <2>2, <3>1
  <2> QED BY <2>1, <2>2
<1>9. f = body(f) BY <1>7, <1>8
<1>10. Letters = CHOOSE h : h = body(h) BY DEF Letters
<1>11. Letters = body(Letters) BY <1>9, <1>10
<1>12. \A text \in S :
         Letters[text] = IF text = <<>> THEN <<>> ELSE LettersOf(Head(text)) \o Letters[Tail(text)]
  BY <1>11
<1>13. S \subseteq {text \in S : Letters[text] \in Line}
  <2> DEFINE Good == {text \in S : Letters[text] \in Line}
  <2>1. <<>> \in Good
    <3>1. <<>> \in S /\ <<>> \in Line BY <1>0
    <3> QED BY <1>12, <3>1
  <2>2. \A text \in S : (text # <<>> /\ Tail(text) \in Good) => text \in Good
    <3> SUFFICES ASSUME NEW text \in S, text # <<>>, Tail(text) \in Good PROVE Letters[text] \in Line
      OBVIOUS
    <3>1. Letters[Tail(text)] \in Seq(E) BY <1>0
    <3>2. LettersOf(Head(text)) \in Seq(E) BY <1>0, <1>1, SanitizeIs
    <3>3. Letters[text] = LettersOf(Head(text)) \o Letters[Tail(text)] BY <1>12
    <3> HIDE DEF E
    <3> QED BY <1>0, <3>1, <3>2, <3>3, ConcatProperties
  <2> HIDE DEF Good
  <2>3. S \subseteq Good BY <2>1, <2>2, SeqDescent
  <2> QED BY <2>3 DEF Good
<1>14. Letters \in [S -> Line] BY <1>11, <1>13
<1> QED BY <1>12, <1>14

(***************************************************************************)
(* The letters of two texts are those of the one and then of the other.    *)
(***************************************************************************)
LEMMA LettersConcat ==
  ASSUME NEW a \in Seq(Char), NEW b \in Seq(Char)
  PROVE  Letters[a \o b] = Letters[a] \o Letters[b] /\ a \o b \in Seq(Char)
<1> DEFINE Good == {s \in Seq(Char) : Letters[s \o b] = Letters[s] \o Letters[b]}
           E == DOMAIN Glyph
<1>0. Line = Seq(E) BY DEF Line
<1>1. <<>> \in Good
  <2>1. <<>> \in Seq(Char) OBVIOUS
  <2>2. Letters[<<>>] = <<>> BY <2>1, LettersUnfolds
  <2>3. <<>> \o b = b BY ConcatEmptySeq
  <2>4. Letters[b] \in Seq(E) BY <1>0, LettersUnfolds
  <2>5. <<>> \o Letters[b] = Letters[b] BY <2>4, ConcatEmptySeq
  <2> QED BY <2>1, <2>2, <2>3, <2>5
<1>2. \A s \in Seq(Char) : (s # <<>> /\ Tail(s) \in Good) => s \in Good
  <2> SUFFICES ASSUME NEW s \in Seq(Char), s # <<>>, Tail(s) \in Good
               PROVE Letters[s \o b] = Letters[s] \o Letters[b]
    OBVIOUS
  <2>1. /\ s \o b # <<>> /\ s \o b \in Seq(Char) /\ Head(s \o b) = Head(s) /\ Tail(s \o b) = Tail(s) \o b
        /\ Tail(s) \in Seq(Char)
    BY HeadTailConcat
  <2>2. Letters[Tail(s) \o b] = Letters[Tail(s)] \o Letters[b] OBVIOUS
  <2>3. Letters[s \o b] = LettersOf(Head(s)) \o Letters[Tail(s) \o b] BY <2>1, LettersUnfolds
  <2>4. Letters[s] = LettersOf(Head(s)) \o Letters[Tail(s)] BY LettersUnfolds
  <2> DEFINE x == LettersOf(Head(s))
             y == Letters[Tail(s)]
             z == Letters[b]
  <2>5. x \in Seq(E) BY <1>0, SanitizeIs
  <2>6. y \in Seq(E) /\ z \in Seq(E) BY <1>0, <2>1, LettersUnfolds
  <2> HIDE DEF x, y, z, E
  <2>7. x \o (y \o z) = (x \o y) \o z BY <2>5, <2>6, Associative
  <2> QED BY <2>2, <2>3, <2>4, <2>7 DEF x, y, z
<1>3. Seq(Char) \subseteq Good
  <2> HIDE DEF Good
  <2> QED BY <1>1, <1>2, SeqDescent
<1>4. a \in Good BY <1>3
<1>5. a \o b \in Seq(Char) OBVIOUS
<1> QED BY <1>4, <1>5

LEMMA LettersOne ==
  ASSUME NEW c \in Char PROVE Letters[<<c>>] = LettersOf(c) /\ <<c>> \in Seq(Char)
<1> DEFINE E == DOMAIN Glyph
<1>1. <<c>> \in Seq(Char) /\ <<c>> # <<>> /\ Head(<<c>>) = c /\ Tail(<<c>>) = <<>> /\ <<>> \in Seq(Char)
  OBVIOUS
<1>2. Letters[<<>>] = <<>> BY <1>1, LettersUnfolds
<1>3. Letters[<<c>>] = LettersOf(c) \o <<>> BY <1>1, <1>2, LettersUnfolds
<1>4. LettersOf(c) \in Seq(E) BY SanitizeIs DEF Line
<1>5. LettersOf(c) \o <<>> = LettersOf(c) BY <1>4, ConcatEmptySeq
<1> QED BY <1>1, <1>3, <1>5

(***************************************************************************)
(* Replacing a character changes no letter.                                *)
(***************************************************************************)
LEMMA SanitizeKeeps == ASSUME NEW c \in Char PROVE Letters[Sanitize(c)] = LettersOf(c)
<1>1. c \in DOMAIN Glyph \/ c \in {"curly", "dash", "ellipsis", "foreign"} BY DEF Char
<1>2. \A x \in DOMAIN Glyph : Sanitize(x) = <<x>> BY Glyphs DEF Sanitize
<1>3. /\ Sanitize("curly") = <<"quote">> /\ Sanitize("dash") = <<"hyphen">>
      /\ Sanitize("ellipsis") = <<"dot", "dot", "dot">> /\ Sanitize("foreign") = <<"sp">>
  BY Glyphs DEF Sanitize
<1>4. {"quote", "hyphen", "dot", "sp"} \subseteq DOMAIN Glyph /\ DOMAIN Glyph \subseteq Char BY Glyphs
<1>5. \A x \in DOMAIN Glyph : Letters[<<x>>] = LettersOf(x) BY <1>4, LettersOne
<1>6. /\ LettersOf("quote") = <<"quote">> /\ LettersOf("hyphen") = <<>> /\ LettersOf("sp") = <<>>
      /\ LettersOf("dot") = <<"dot">>
  BY <1>2, <1>4 DEF LettersOf
<1>7. CASE c \in DOMAIN Glyph BY <1>2, <1>5, <1>7
<1>8. CASE c = "curly" BY <1>3, <1>4, <1>5, <1>6, <1>8 DEF LettersOf
<1>9. CASE c = "dash" BY <1>3, <1>4, <1>5, <1>6, <1>9 DEF LettersOf
<1>10. CASE c = "foreign" BY <1>3, <1>4, <1>5, <1>6, <1>10 DEF LettersOf
<1>11. CASE c = "ellipsis"
  <2> DEFINE d == <<"dot">>
  <2>1. d \in Seq(Char) /\ Letters[d] = d BY <1>4, <1>5, <1>6
  <2>2. <<"dot", "dot", "dot">> = d \o (d \o d) OBVIOUS
  <2>3. LettersOf(c) = <<"dot", "dot", "dot">> BY <1>3, <1>11 DEF LettersOf
  <2>4. Sanitize(c) = d \o (d \o d) BY <1>3, <1>11, <2>2
  <2> HIDE DEF d
  <2>5. Letters[d \o d] = d \o d /\ d \o d \in Seq(Char) BY <2>1, LettersConcat
  <2>6. Letters[d \o (d \o d)] = d \o (d \o d) BY <2>1, <2>5, LettersConcat
  <2> QED BY <2>2, <2>3, <2>4, <2>6
<1> QED BY <1>1, <1>7, <1>8, <1>9, <1>10, <1>11

LEMMA InkWords ==
  /\ InkWord \subseteq Seq(InkGlyph) /\ InkWord \subseteq Line
  /\ Seq(InkWord) \subseteq Seq(Line)
<1>1. InkWord \subseteq Seq(InkGlyph) BY DEF InkWord
<1>2. InkWord \subseteq Line BY <1>1, Glyphs
<1>3. Seq(InkWord) \subseteq Seq(Line) BY <1>2, SeqMonotonic
<1> QED BY <1>1, <1>2, <1>3

(***************************************************************************)
(* A line or word that is finished if it has begun.                        *)
(***************************************************************************)
LEMMA EndedIs ==
  ASSUME NEW word \in Line
  PROVE  /\ Ended(word) \in Seq(Line) /\ FlattenSeq(Ended(word)) = word
         /\ word \in Seq(InkGlyph) => Ended(word) \in Seq(InkWord)
         /\ word # <<>> => Ended(word) # <<>>
<1> DEFINE D == DOMAIN Glyph
<1>1. Line = Seq(D) BY DEF Line
<1>2. CASE word = <<>>
  <2>1. Ended(word) = <<>> BY <1>2 DEF Ended
  <2>2. <<>> \in Seq(Line) /\ <<>> \in Seq(InkWord) /\ <<>> \in Seq(Seq(D)) OBVIOUS
  <2>3. FlattenSeq(<<>>) = <<>>
    <3> HIDE DEF D
    <3> QED BY <2>2, FlattenType
  <2> QED BY <1>2, <2>1, <2>2, <2>3, Zenon
<1>3. CASE word # <<>>
  <2>1. Ended(word) = <<word>> /\ <<word>> # <<>> BY <1>3 DEF Ended
  <2>2. <<word>> \in Seq(Line) OBVIOUS
  <2>3. FlattenSeq(<<word>>) = word
    <3> HIDE DEF D
    <3> QED BY <1>1, FlattenOne
  <2>4. word \in Seq(InkGlyph) => <<word>> \in Seq(InkWord) BY <1>3 DEF InkWord
  <2> QED BY <2>1, <2>2, <2>3, <2>4
<1> QED BY <1>2, <1>3

(***************************************************************************)
(* The characters of some lines.                                           *)
(***************************************************************************)
LEMMA FlattenLines ==
  ASSUME NEW L \in Seq(Line), NEW M \in Seq(Line)
  PROVE  /\ FlattenSeq(L) \in Line /\ FlattenSeq(L) \in Seq(Char)
         /\ L \o M \in Seq(Line) /\ FlattenSeq(L \o M) = FlattenSeq(L) \o FlattenSeq(M)
         /\ Letters[FlattenSeq(L \o M)] = Letters[FlattenSeq(L)] \o Letters[FlattenSeq(M)]
<1> DEFINE D == DOMAIN Glyph
<1>1. Line = Seq(D) BY DEF Line
<1> HIDE DEF D
<1>2. FlattenSeq(L) \in Line /\ FlattenSeq(M) \in Line BY <1>1, FlattenType
<1>3. FlattenSeq(L) \in Seq(Char) /\ FlattenSeq(M) \in Seq(Char) BY <1>2, Glyphs
<1>4. FlattenSeq(L \o M) = FlattenSeq(L) \o FlattenSeq(M) BY <1>1, FlattenConcat
<1>5. Letters[FlattenSeq(L) \o FlattenSeq(M)] = Letters[FlattenSeq(L)] \o Letters[FlattenSeq(M)]
  BY <1>3, LettersConcat
<1> QED BY <1>2, <1>3, <1>4, <1>5

(***************************************************************************)
(* decode_text, one character at a time.                                   *)
(***************************************************************************)
LEMMA SplitUnfolds ==
  ASSUME NEW text \in Seq(Char), NEW word \in Line
  PROVE  Split[<<text, word>>] =
           IF text = <<>> THEN Ended(word)
           ELSE IF Sanitize(Head(text)) = <<"sp">> THEN Ended(word) \o Split[<<Tail(text), <<>>>>]
           ELSE Split[<<Tail(text), word \o Sanitize(Head(text))>>]
<1> DEFINE S == Seq(Char) \X Line
           spaced(at) == Sanitize(Head(at[1])) = <<"sp">>
           stop == {at \in S : at[1] = <<>>}
           rank == [at \in S |-> Len(at[1])]
           next == [at \in S |-> IF at[1] = <<>> THEN at
                                 ELSE IF spaced(at) THEN <<Tail(at[1]), <<>>>>
                                 ELSE <<Tail(at[1]), at[2] \o Sanitize(Head(at[1]))>>]
           base == [at \in S |-> Ended(at[2])]
           first == [at \in S |-> IF spaced(at) THEN Ended(at[2]) ELSE <<>>]
           body(f) == [at \in S |->
                         IF at[1] = <<>> THEN Ended(at[2])
                         ELSE IF spaced(at) THEN Ended(at[2]) \o f[<<Tail(at[1]), <<>>>>]
                         ELSE f[<<Tail(at[1]), at[2] \o Sanitize(Head(at[1]))>>]]
<1>1. \A at \in S : at[1] \in Seq(Char) /\ at[2] \in Line /\ Len(at[1]) \in Nat OBVIOUS
<1>2. \A at \in S : at[1] # <<>> =>
         /\ Head(at[1]) \in Char /\ Tail(at[1]) \in Seq(Char) /\ Len(Tail(at[1])) < Len(at[1])
  BY <1>1
<1>3. \A at \in S : at[1] # <<>> => at[2] \o Sanitize(Head(at[1])) \in Line
  <2> SUFFICES ASSUME NEW at \in S, at[1] # <<>> PROVE at[2] \o Sanitize(Head(at[1])) \in Line
    OBVIOUS
  <2>1. Sanitize(Head(at[1])) \in Line BY <1>2, SanitizeIs
  <2> QED BY <1>1, <2>1, AdvanceConcat
<1>4. <<>> \in Line BY DEF Line
<1>5. rank \in [S -> Nat] BY <1>1
<1>6. next \in [S -> S] BY <1>2, <1>3, <1>4
<1>7. \A at \in S : at \in stop => base[at] \in Seq(Line) BY <1>1, EndedIs
<1>8. \A at \in S : at \notin stop => first[at] \in Seq(Line) /\ rank[next[at]] < rank[at]
  <2> SUFFICES ASSUME NEW at \in S, at[1] # <<>> PROVE first[at] \in Seq(Line) /\ rank[next[at]] < rank[at]
    OBVIOUS
  <2>1. first[at] \in Seq(Line) BY <1>1, EndedIs
  <2>2. next[at] \in S /\ next[at][1] = Tail(at[1]) BY <1>6
  <2>3. rank[at] = Len(at[1]) /\ rank[next[at]] = Len(Tail(at[1])) BY <2>2
  <2> QED BY <1>2, <2>1, <2>3
<1>9. \E f : Unrolls(f, S, Line, stop, base, first, next)
  <2> HIDE DEF S, stop, rank, next, base, first
  <2> QED BY <1>5, <1>6, <1>7, <1>8, Unrolling
<1>10. PICK f : Unrolls(f, S, Line, stop, base, first, next) BY <1>9
<1>11. f \in [S -> Seq(Line)] BY <1>10 DEF Unrolls
<1>12. \A at \in S : f[at] = body(f)[at]
  <2> TAKE at \in S
  <2>1. CASE at[1] = <<>>
    <3>1. at \in stop /\ base[at] = Ended(at[2]) BY <2>1
    <3>2. f[at] = base[at] BY <1>10, <3>1 DEF Unrolls
    <3> QED BY <2>1, <3>1, <3>2
  <2>2. CASE at[1] # <<>>
    <3>1. f[at] = first[at] \o f[next[at]] BY <1>10, <2>2 DEF Unrolls
    <3>2. CASE spaced(at)
      <4>1. first[at] = Ended(at[2]) /\ next[at] = <<Tail(at[1]), <<>>>> BY <2>2, <3>2
      <4> QED BY <2>2, <3>1, <3>2, <4>1
    <3>3. CASE ~spaced(at)
      <4>1. first[at] = <<>> /\ next[at] = <<Tail(at[1]), at[2] \o Sanitize(Head(at[1]))>> BY <2>2, <3>3
      <4>2. f[next[at]] \in Seq(Line) BY <1>6, <1>11
      <4>3. <<>> \o f[next[at]] = f[next[at]] BY <4>2, ConcatEmptySeq
      <4> QED BY <2>2, <3>1, <3>3, <4>1, <4>3
    <3> QED BY <3>2, <3>3
  <2> QED BY <2>1, <2>2
<1>13. f = body(f) BY <1>11, <1>12
<1>14. Split = CHOOSE h : h = body(h) BY DEF Split
<1>15. Split = body(Split) BY <1>13, <1>14
<1>16. <<text, word>> \in S /\ <<text, word>>[1] = text /\ <<text, word>>[2] = word OBVIOUS
<1> QED BY <1>15, <1>16

(***************************************************************************)
(* What the text has said: words of ink, with its letters, at least one if *)
(* a word has begun.                                                       *)
(***************************************************************************)
SplitsWhole(text, word) ==
  LET words == Split[<<text, word>>]
  IN  /\ words \in Seq(InkWord) /\ (word # <<>> => words # <<>>)
      /\ Letters[FlattenSeq(words)] = Letters[word] \o Letters[text]

LEMMA SplitEnds == ASSUME NEW word \in Seq(InkGlyph) PROVE SplitsWhole(<<>>, word)
<1> DEFINE D == DOMAIN Glyph
<1>1. word \in Line /\ word \in Seq(Char) /\ <<>> \in Seq(Char) BY Glyphs
<1>2. Split[<<<<>>, word>>] = Ended(word) BY <1>1, SplitUnfolds
<1>3. Letters[<<>>] = <<>> BY <1>1, LettersUnfolds
<1>4. Letters[word] \in Seq(D) BY <1>1, LettersUnfolds DEF Line
<1>5. Letters[word] \o <<>> = Letters[word] BY <1>4, ConcatEmptySeq
<1>6. /\ Ended(word) \in Seq(InkWord) /\ FlattenSeq(Ended(word)) = word
      /\ word # <<>> => Ended(word) # <<>>
  BY <1>1, EndedIs
<1> QED BY <1>2, <1>3, <1>5, <1>6, Zenon DEF SplitsWhole

LEMMA SplitGoesOn ==
  ASSUME NEW text \in Seq(Char), text # <<>>, NEW word \in Seq(InkGlyph),
         \A w \in Seq(InkGlyph) : SplitsWhole(Tail(text), w)
  PROVE  SplitsWhole(text, word)
<1> DEFINE D == DOMAIN Glyph
           c == Head(text)
           rest == Tail(text)
<1>0. <<>> \in Line /\ <<>> \in Seq(Char) /\ <<>> \in Seq(InkGlyph) BY EmptySeq DEF Line
<1>1. /\ word \in Line /\ word \in Seq(Char) /\ <<>> \in Line /\ <<>> \in Seq(Char)
      /\ <<>> \in Seq(InkGlyph)
  BY <1>0, Glyphs
<1>2. c \in Char /\ rest \in Seq(Char) OBVIOUS
<1>3. Letters[text] = LettersOf(c) \o Letters[rest] BY LettersUnfolds
<1>4. Letters[word] \in Seq(D) /\ Letters[rest] \in Seq(D) /\ LettersOf(c) \in Seq(D)
  BY <1>1, <1>2, LettersUnfolds, SanitizeIs DEF Line
<1>5. CASE Sanitize(c) = <<"sp">>
  <2> DEFINE more == Split[<<rest, <<>>>>]
  <2>1. Split[<<text, word>>] = Ended(word) \o more BY <1>1, <1>5, SplitUnfolds
  <2>2. SplitsWhole(rest, <<>>) BY <1>1
  <2>3. more \in Seq(InkWord) /\ Letters[FlattenSeq(more)] = Letters[<<>>] \o Letters[rest]
    BY <2>2 DEF SplitsWhole
  <2>4. Letters[<<>>] = <<>> BY <1>1, LettersUnfolds
  <2>5. <<>> \o Letters[rest] = Letters[rest] BY <1>4, ConcatEmptySeq
  <2>6. LettersOf(c) = <<>> BY <1>2, <1>5, SanitizeIs
  <2>7. /\ Ended(word) \in Seq(InkWord) /\ FlattenSeq(Ended(word)) = word
        /\ word # <<>> => Ended(word) # <<>>
    BY <1>1, EndedIs
  <2>8. Letters[FlattenSeq(more)] = Letters[rest] /\ Letters[text] = Letters[rest]
    BY <1>3, <2>3, <2>4, <2>5, <2>6, Zenon
  <2> HIDE DEF more
  <2>9. Ended(word) \o more \in Seq(InkWord) BY <2>3, <2>7, ConcatProperties
  <2>10. word # <<>> => Ended(word) \o more # <<>> BY <2>3, <2>7, ConcatEqualIffEmpty
  <2>11. Letters[FlattenSeq(Ended(word) \o more)] = Letters[word] \o Letters[rest]
    <3>1. Ended(word) \in Seq(Line) /\ more \in Seq(Line) BY <2>3, <2>7, InkWords
    <3> QED BY <2>7, <2>8, <3>1, FlattenLines
  <2> QED BY <2>1, <2>8, <2>9, <2>10, <2>11, Zenon DEF SplitsWhole
<1>6. CASE Sanitize(c) # <<"sp">>
  <2> DEFINE longer == word \o Sanitize(c)
  <2>1. Split[<<text, word>>] = Split[<<rest, longer>>] BY <1>1, <1>6, SplitUnfolds
  <2>2. Sanitize(c) \in Seq(InkGlyph) /\ Sanitize(c) # <<>> BY <1>2, <1>6, SanitizeIs
  <2>3. longer \in Seq(InkGlyph) /\ longer # <<>> BY <2>2, ConcatProperties, ConcatEqualIffEmpty
  <2>4. Letters[longer] = Letters[word] \o LettersOf(c)
    <3>1. Sanitize(c) \in Seq(Char) BY <2>2, Glyphs
    <3>2. Letters[longer] = Letters[word] \o Letters[Sanitize(c)] BY <1>1, <3>1, LettersConcat
    <3> QED BY <1>2, <3>2, SanitizeKeeps
  <2> HIDE DEF longer
  <2>5. SplitsWhole(rest, longer) BY <2>3
  <2>6. (Letters[word] \o LettersOf(c)) \o Letters[rest] = Letters[word] \o Letters[text]
    <3> DEFINE x == Letters[word]
               y == LettersOf(c)
               z == Letters[rest]
    <3>1. x \in Seq(D) /\ y \in Seq(D) /\ z \in Seq(D) BY <1>4
    <3> HIDE DEF x, y, z, D
    <3>2. x \o (y \o z) = (x \o y) \o z BY <3>1, Associative
    <3> QED BY <1>3, <3>2 DEF x, y, z
  <2> QED BY <2>1, <2>3, <2>4, <2>5, <2>6, Zenon DEF SplitsWhole
<1> QED BY <1>5, <1>6

LEMMA WordsAre ==
  ASSUME NEW text \in Seq(Char)
  PROVE  /\ Words(text) \in Seq(InkWord) /\ Words(text) \in Seq(Line)
         /\ Letters[FlattenSeq(Words(text))] = Letters[text]
         /\ (text # <<>> /\ Sanitize(Head(text)) # <<"sp">>) => Words(text) # <<>>
<1> DEFINE Good == {t \in Seq(Char) : \A w \in Seq(InkGlyph) : SplitsWhole(t, w)}
           D == DOMAIN Glyph
<1>1. <<>> \in Good
  <2>1. <<>> \in Seq(Char) OBVIOUS
  <2> QED BY <2>1, SplitEnds
<1>2. \A t \in Seq(Char) : (t # <<>> /\ Tail(t) \in Good) => t \in Good
  <2> SUFFICES ASSUME NEW t \in Seq(Char), t # <<>>, Tail(t) \in Good, NEW w \in Seq(InkGlyph)
               PROVE SplitsWhole(t, w)
    OBVIOUS
  <2> QED BY SplitGoesOn
<1>3. Seq(Char) \subseteq Good
  <2> HIDE DEF Good
  <2> QED BY <1>1, <1>2, SeqDescent
<1>4. \A t \in Seq(Char) : \A w \in Seq(InkGlyph) : SplitsWhole(t, w) BY <1>3
<1> HIDE DEF Good
<1>5. <<>> \in Seq(InkGlyph) /\ <<>> \in Seq(Char) /\ <<>> \in Line BY EmptySeq DEF Line
<1>6. SplitsWhole(text, <<>>) BY <1>4, <1>5
<1>7. Letters[<<>>] = <<>> BY <1>5, LettersUnfolds
<1>8. Letters[text] \in Seq(D) BY LettersUnfolds DEF Line
<1>9. <<>> \o Letters[text] = Letters[text] BY <1>8, ConcatEmptySeq
<1>10. Words(text) \in Seq(InkWord) BY <1>6 DEF SplitsWhole, Words
<1>11. Letters[FlattenSeq(Words(text))] = Letters[text]
  BY <1>6, <1>7, <1>9, Zenon DEF SplitsWhole, Words
<1>12. ASSUME text # <<>>, Sanitize(Head(text)) # <<"sp">> PROVE Words(text) # <<>>
  <2> DEFINE s == Sanitize(Head(text))
             w == <<>> \o s
  <2>1. Head(text) \in Char /\ Tail(text) \in Seq(Char) BY <1>12
  <2>2. s \in Seq(InkGlyph) /\ s # <<>> BY <1>12, <2>1, SanitizeIs
  <2>3. w = s BY <2>2, ConcatEmptySeq
  <2>4. Split[<<text, <<>>>>] = Split[<<Tail(text), w>>] BY <1>5, <1>12, SplitUnfolds
  <2>5. SplitsWhole(Tail(text), s) BY <1>4, <2>1, <2>2
  <2> HIDE DEF s
  <2> QED BY <2>2, <2>3, <2>4, <2>5, Zenon DEF SplitsWhole, Words
<1> QED BY <1>10, <1>11, <1>12, InkWords

LEMMA WidthIs == ContentWidth = 988
BY DEF ContentWidth, MaskWidth, PadX

(***************************************************************************)
(* The lines of a caption: they begin with ink and are not too wide.       *)
(***************************************************************************)
CaptionLine == {line \in Line : line # <<>> /\ Head(line) \in InkGlyph /\ Advance[line] <= ContentWidth}

(***************************************************************************)
(* A sequence is what it begins with and the rest.                         *)
(***************************************************************************)
LEMMA TwoHalves ==
  ASSUME NEW S, NEW s \in Seq(S), NEW n \in 1..(Len(s) - 1)
  PROVE  /\ SubSeq(s, 1, n) \in Seq(S) /\ SubSeq(s, n + 1, Len(s)) \in Seq(S)
         /\ SubSeq(s, 1, n) # <<>> /\ SubSeq(s, n + 1, Len(s)) # <<>>
         /\ Head(SubSeq(s, 1, n)) = Head(s) /\ Len(SubSeq(s, n + 1, Len(s))) < Len(s)
         /\ SubSeq(s, 1, n) \o SubSeq(s, n + 1, Len(s)) = s
<1> DEFINE a == SubSeq(s, 1, n)
           b == SubSeq(s, n + 1, Len(s))
<1>1. Len(s) \in Nat /\ n \in Nat /\ 1 <= n /\ n < Len(s) OBVIOUS
<1>2. a \in Seq(S) /\ Len(a) = n /\ \A i \in 1..n : a[i] = s[i] BY <1>1
<1>3. b \in Seq(S) /\ Len(b) = Len(s) - n /\ \A i \in 1..(Len(s) - n) : b[i] = s[n + i] BY <1>1
<1> HIDE DEF a, b
<1>4. a # <<>> /\ b # <<>> /\ Head(a) = Head(s) /\ Len(b) < Len(s) BY <1>1, <1>2, <1>3
<1> DEFINE c == a \o b
<1>5. c \in Seq(S) /\ Len(c) = Len(s)
  <2>1. c \in Seq(S) /\ Len(c) = Len(a) + Len(b) BY <1>2, <1>3, ConcatProperties
  <2> HIDE DEF c
  <2> QED BY <1>1, <1>2, <1>3, <2>1
<1>6. \A i \in 1..Len(c) : c[i] = s[i]
  <2> TAKE i \in 1..Len(c)
  <2>1. i \in Nat /\ 1 <= i /\ i <= Len(s) BY <1>1, <1>5
  <2>2. CASE i <= n BY <1>1, <1>2, <1>3, <2>1, <2>2
  <2>3. CASE i > n
    <3>1. c[i] = b[i - n] BY <1>1, <1>2, <1>3, <2>1, <2>3
    <3>2. i - n \in 1..(Len(s) - n) /\ n + (i - n) = i BY <1>1, <2>1, <2>3
    <3> QED BY <1>3, <3>1, <3>2
  <2> QED BY <1>1, <2>1, <2>2, <2>3
<1> HIDE DEF c
<1>7. c = s BY <1>5, <1>6, SeqEqual
<1> QED BY <1>2, <1>3, <1>4, <1>7 DEF a, b, c

(***************************************************************************)
(* Where a word is cut that is too wide: something is cut off, a line with *)
(* its hyphen, and something is left.                                      *)
(***************************************************************************)
LEMMA CutIs ==
  ASSUME NEW word \in Line, Advance[word] > ContentWidth
  PROVE  /\ word # <<>> /\ Cut(word) \in 1..(Len(word) - 1)
         /\ Advance[SubSeq(word, 1, Cut(word)) \o <<"hyphen">>] <= ContentWidth
<1> DEFINE D == DOMAIN Glyph
           fits(n) == Advance[SubSeq(word, 1, n)] + Glyph["hyphen"].advance <= ContentWidth
           T == {n \in 1..Len(word) : n = 1 \/ fits(n)}
           b == Len(word)
<1>1. Len(word) \in Nat /\ word \in Seq(D) /\ ContentWidth = 988 BY WidthIs DEF Line
<1>2. Advance[word] \in Nat BY AdvanceUnfolds
<1>3. word # <<>>
  <2> SUFFICES ASSUME word = <<>> PROVE FALSE
    OBVIOUS
  <2>1. Advance[word] = 0 BY AdvanceUnfolds
  <2> QED BY <1>1, <2>1
<1>4. Len(word) >= 1 /\ Head(word) \in D /\ Head(word) = word[1] BY <1>1, <1>3
<1>5. T \subseteq Int /\ T # {} /\ b \in Int /\ \A x \in T : x <= b BY <1>1, <1>4
<1>6. Max(T) \in T
  <2> HIDE DEF T, b
  <2> QED BY <1>5, LargestIs
<1>7. Cut(word) = Max(T) BY DEF Cut
<1> DEFINE n == Cut(word)
<1>8. n \in 1..Len(word) /\ (n = 1 \/ fits(n)) BY <1>6, <1>7
<1> HIDE DEF T, n
<1>9. "hyphen" \in D /\ Glyph["hyphen"].advance = 13 BY Glyphs DEF Glyph, G
<1>10. SubSeq(word, 1, 1) = <<word[1]>>
  <2> DEFINE u == SubSeq(word, 1, 1)
             v == <<word[1]>>
  <2>1. u \in Seq(D) /\ Len(u) = 1 /\ u[1] = word[1] BY <1>1, <1>4
  <2>2. v \in Seq(D) /\ Len(v) = 1 /\ v[1] = word[1] BY <1>1, <1>4
  <2> HIDE DEF u, v
  <2>3. \A i \in 1..Len(u) : u[i] = v[i] BY <2>1, <2>2
  <2>4. u = v BY <2>1, <2>2, <2>3, SeqEqual
  <2> QED BY <2>4 DEF u, v
<1>11. Advance[SubSeq(word, 1, 1)] <= 35 /\ Advance[SubSeq(word, 1, 1)] \in Nat
  <2>1. Advance[<<word[1]>>] = Glyph[word[1]].advance BY <1>4, AdvanceOne
  <2>2. Glyph[word[1]].advance \in Nat /\ Glyph[word[1]].advance <= 35 BY <1>4, GlyphIs
  <2> QED BY <1>10, <2>1, <2>2
<1>12. fits(n) BY <1>1, <1>8, <1>9, <1>11
<1>13. n # Len(word)
  <2> SUFFICES ASSUME n = Len(word) PROVE FALSE
    OBVIOUS
  <2>1. SubSeq(word, 1, n) = word BY <1>1, SubSeqFull
  <2>2. Advance[word] + Glyph["hyphen"].advance <= ContentWidth BY <1>12, <2>1, Zenon
  <2> QED BY <1>1, <1>2, <1>9, <2>2
<1>14. n \in 1..(Len(word) - 1) BY <1>1, <1>8, <1>13
<1>15. SubSeq(word, 1, n) \in Line BY <1>1, <1>14, TwoHalves DEF Line
<1>16. Advance[SubSeq(word, 1, n) \o <<"hyphen">>] = Advance[SubSeq(word, 1, n)] + Advance[<<"hyphen">>]
  BY <1>9, <1>15, AdvanceConcat, AdvanceOne
<1>17. Advance[<<"hyphen">>] = Glyph["hyphen"].advance BY <1>9, AdvanceOne
<1> QED BY <1>3, <1>12, <1>14, <1>16, <1>17 DEF n

(***************************************************************************)
(* split_word, one line at a time.                                         *)
(***************************************************************************)
LEMMA SplitWordUnfolds ==
  ASSUME NEW word \in Line
  PROVE  SplitWord[word] =
           IF Advance[word] <= ContentWidth THEN <<word>>
           ELSE <<SubSeq(word, 1, Cut(word)) \o <<"hyphen">> >>
                  \o SplitWord[SubSeq(word, Cut(word) + 1, Len(word))]
<1> DEFINE S == Line
           D == DOMAIN Glyph
           piece(w) == SubSeq(w, 1, Cut(w)) \o <<"hyphen">>
           left(w) == SubSeq(w, Cut(w) + 1, Len(w))
           stop == {w \in S : Advance[w] <= ContentWidth}
           rank == [w \in S |-> Len(w)]
           next == [w \in S |-> IF w \in stop THEN w ELSE left(w)]
           base == [w \in S |-> <<w>>]
           first == [w \in S |-> <<piece(w)>>]
           body(f) == [w \in S |-> IF Advance[w] <= ContentWidth THEN <<w>> ELSE <<piece(w)>> \o f[left(w)]]
<1>1. \A w \in S : Len(w) \in Nat BY DEF Line
<1>2. \A w \in S : w \notin stop => piece(w) \in Line /\ left(w) \in S /\ Len(left(w)) < Len(w)
  <2> SUFFICES ASSUME NEW w \in S, w \notin stop
               PROVE piece(w) \in Line /\ left(w) \in S /\ Len(left(w)) < Len(w)
    OBVIOUS
  <2>1. Advance[w] \in Nat /\ ContentWidth = 988 BY AdvanceUnfolds, WidthIs
  <2>2. Advance[w] > ContentWidth BY <2>1
  <2>3. Cut(w) \in 1..(Len(w) - 1) /\ w \in Seq(D) BY <2>2, CutIs DEF Line
  <2>4. SubSeq(w, 1, Cut(w)) \in Line /\ left(w) \in Line /\ Len(left(w)) < Len(w)
    BY <2>3, TwoHalves DEF Line
  <2>5. <<"hyphen">> \in Line BY Glyphs, AdvanceOne
  <2> QED BY <2>4, <2>5, AdvanceConcat
<1>3. rank \in [S -> Nat] /\ next \in [S -> S] BY <1>1, <1>2
<1>4. \A w \in S : w \in stop => base[w] \in Seq(Line) OBVIOUS
<1>5. \A w \in S : w \notin stop => first[w] \in Seq(Line) /\ rank[next[w]] < rank[w]
  <2> SUFFICES ASSUME NEW w \in S, w \notin stop PROVE first[w] \in Seq(Line) /\ rank[next[w]] < rank[w]
    OBVIOUS
  <2>1. piece(w) \in Line /\ left(w) \in S /\ Len(left(w)) < Len(w) BY <1>2
  <2>2. first[w] = <<piece(w)>> /\ next[w] = left(w) OBVIOUS
  <2> HIDE DEF piece, left, first, next
  <2> QED BY <2>1, <2>2
<1>6. \E f : Unrolls(f, S, Line, stop, base, first, next)
  <2> HIDE DEF S, stop, rank, next, base, first
  <2> QED BY <1>3, <1>4, <1>5, Unrolling
<1>7. PICK f : Unrolls(f, S, Line, stop, base, first, next) BY <1>6
<1>8. f \in [S -> Seq(Line)] BY <1>7 DEF Unrolls
<1>9. \A w \in S : f[w] = body(f)[w]
  <2> TAKE w \in S
  <2>1. CASE w \in stop BY <1>7, <2>1 DEF Unrolls
  <2>2. CASE w \notin stop
    <3>1. f[w] = first[w] \o f[next[w]] BY <1>7, <2>2 DEF Unrolls
    <3>2. first[w] = <<piece(w)>> /\ next[w] = left(w) BY <2>2
    <3>3. body(f)[w] = <<piece(w)>> \o f[left(w)] BY <2>2
    <3> QED BY <3>1, <3>2, <3>3, Zenon
  <2> QED BY <2>1, <2>2
<1>10. f = body(f) BY <1>8, <1>9
<1>11. SplitWord = CHOOSE h : h = body(h) BY DEF SplitWord
<1>12. SplitWord = body(SplitWord) BY <1>10, <1>11
<1> QED BY <1>12

(***************************************************************************)
(* The lines of a word that is too wide: its letters, each line to its     *)
(* width.                                                                  *)
(***************************************************************************)
CutsWhole(word) ==
  /\ SplitWord[word] \in Seq(CaptionLine) /\ SplitWord[word] # <<>>
  /\ Letters[FlattenSeq(SplitWord[word])] = Letters[word]

LEMMA CaptionLines ==
  /\ CaptionLine \subseteq Line /\ Seq(CaptionLine) \subseteq Seq(Line)
  /\ \A line \in CaptionLine : line # <<>> /\ Head(line) \in InkGlyph
<1>1. CaptionLine \subseteq Line BY DEF CaptionLine
<1>2. Seq(CaptionLine) \subseteq Seq(Line) BY <1>1, SeqMonotonic
<1> QED BY <1>1, <1>2 DEF CaptionLine

LEMMA WordOnLine ==
  ASSUME NEW word \in InkWord, Advance[word] <= ContentWidth PROVE word \in CaptionLine
<1>1. word \in Line /\ word \in Seq(InkGlyph) /\ word # <<>> BY InkWords DEF InkWord
<1>2. Head(word) \in InkGlyph BY <1>1
<1> QED BY <1>1, <1>2 DEF CaptionLine

LEMMA WordIsCut == ASSUME NEW word \in InkWord PROVE CutsWhole(word)
<1> DEFINE D == DOMAIN Glyph
           T == {k \in Nat : \E w \in InkWord : Len(w) = k /\ ~CutsWhole(w)}
<1> SUFFICES ASSUME ~CutsWhole(word) PROVE FALSE
  OBVIOUS
<1>1. \A w \in InkWord : w \in Line /\ w \in Seq(InkGlyph) /\ w \in Seq(Char) /\ w # <<>> /\ Len(w) \in Nat
  <2>1. \A w \in InkWord : w \in Line /\ w \in Seq(InkGlyph) /\ w # <<>> BY InkWords DEF InkWord
  <2> QED BY <2>1, Glyphs
<1>2. Len(word) \in T /\ T \subseteq Nat BY <1>1
<1>3. PICK m \in T : \A k \in T : m <= k BY <1>2, LeastNumber
<1>4. PICK w \in InkWord : Len(w) = m /\ ~CutsWhole(w) OBVIOUS
<1>5. \A v \in InkWord : Len(v) < Len(w) => CutsWhole(v)
  <2> SUFFICES ASSUME NEW v \in InkWord, Len(v) < Len(w), ~CutsWhole(v) PROVE FALSE
    OBVIOUS
  <2>1. Len(v) \in T BY <1>1
  <2>2. m <= Len(v) BY <1>3, <2>1
  <2> HIDE DEF T
  <2> QED BY <1>1, <1>4, <2>2
<1> HIDE DEF T
<1>6. Advance[w] \in Nat /\ ContentWidth = 988 BY <1>1, AdvanceUnfolds, WidthIs
<1>7. ~(Advance[w] <= ContentWidth)
  <2> SUFFICES ASSUME Advance[w] <= ContentWidth PROVE FALSE
    OBVIOUS
  <2>1. SplitWord[w] = <<w>> BY <1>1, SplitWordUnfolds
  <2>2. w \in CaptionLine BY WordOnLine
  <2>3. <<w>> \in Seq(CaptionLine) /\ <<w>> # <<>> BY <2>2
  <2>4. FlattenSeq(<<w>>) = w BY <1>1, FlattenOne
  <2> QED BY <1>4, <2>1, <2>3, <2>4 DEF CutsWhole
<1> DEFINE n == Cut(w)
           a == SubSeq(w, 1, n)
           b == SubSeq(w, n + 1, Len(w))
           h == <<"hyphen">>
           piece == a \o h
<1>8. n \in 1..(Len(w) - 1) /\ Advance[piece] <= ContentWidth BY <1>1, <1>6, <1>7, CutIs
<1>9. SplitWord[w] = <<piece>> \o SplitWord[b] BY <1>1, <1>7, SplitWordUnfolds
<1> HIDE DEF n
<1>10. /\ a \in Seq(InkGlyph) /\ b \in Seq(InkGlyph) /\ a # <<>> /\ b # <<>>
       /\ Len(b) < Len(w) /\ a \o b = w
  BY <1>1, <1>8, TwoHalves
<1>11. b \in InkWord BY <1>10 DEF InkWord
<1>12. CutsWhole(b) BY <1>5, <1>10, <1>11
<1>13. h \in Seq(InkGlyph) /\ h \in Seq(Char) /\ Letters[h] = <<>>
  <2>1. "hyphen" \in InkGlyph /\ "hyphen" \in Char /\ "hyphen" \in DOMAIN Glyph BY Glyphs DEF InkGlyph
  <2>2. LettersOf("hyphen") = <<>> BY <2>1, Glyphs DEF LettersOf, Sanitize
  <2> QED BY <2>1, <2>2, LettersOne
<1> HIDE DEF a, b, h
<1>14. a \in Line /\ b \in Line /\ h \in Line /\ a \in Seq(Char) /\ b \in Seq(Char) BY <1>10, <1>13, Glyphs
<1>15. piece \in Line /\ piece # <<>> /\ Head(piece) \in InkGlyph
  <2>1. piece \in Seq(InkGlyph) /\ piece # <<>> BY <1>10, <1>13, HeadTailConcat
  <2>2. Head(piece) \in InkGlyph
    <3> HIDE DEF piece
    <3> QED BY <2>1
  <2> QED BY <2>1, <2>2, Glyphs
<1>16. piece \in CaptionLine BY <1>8, <1>15 DEF CaptionLine
<1>17. Letters[piece] = Letters[a]
  <2>1. Letters[piece] = Letters[a] \o Letters[h] BY <1>13, <1>14, LettersConcat
  <2>2. Letters[a] \in Seq(D) BY <1>14, LettersUnfolds DEF Line
  <2>3. Letters[a] \o <<>> = Letters[a] BY <2>2, ConcatEmptySeq
  <2> QED BY <1>13, <2>1, <2>3
<1> HIDE DEF piece
<1>18. SplitWord[b] \in Seq(CaptionLine) /\ Letters[FlattenSeq(SplitWord[b])] = Letters[b]
  BY <1>12 DEF CutsWhole
<1> DEFINE more == SplitWord[b]
<1> HIDE DEF more
<1>19. <<piece>> \in Seq(CaptionLine) /\ <<piece>> # <<>> BY <1>16
<1>20. <<piece>> \o more \in Seq(CaptionLine) /\ <<piece>> \o more # <<>>
  BY <1>18, <1>19, HeadTailConcat DEF more
<1>21. Letters[FlattenSeq(<<piece>> \o more)] = Letters[a] \o Letters[b]
  <2>1. <<piece>> \in Seq(Line) /\ more \in Seq(Line) BY <1>18, <1>19, CaptionLines DEF more
  <2>2. FlattenSeq(<<piece>>) = piece BY <1>15, FlattenOne DEF Line
  <2>3. Letters[FlattenSeq(<<piece>> \o more)] = Letters[FlattenSeq(<<piece>>)] \o Letters[FlattenSeq(more)]
    BY <2>1, FlattenLines
  <2> QED BY <1>17, <1>18, <2>2, <2>3 DEF more
<1>22. Letters[w] = Letters[a] \o Letters[b] BY <1>10, <1>14, LettersConcat
<1> QED BY <1>4, <1>9, <1>20, <1>21, <1>22 DEF CutsWhole, more

LEMMA SplitWordType == ASSUME NEW word \in Line PROVE SplitWord[word] \in Seq(Line)
<1> DEFINE D == DOMAIN Glyph
           T == {k \in Nat : \E w \in Line : Len(w) = k /\ SplitWord[w] \notin Seq(Line)}
<1> SUFFICES ASSUME SplitWord[word] \notin Seq(Line) PROVE FALSE
  OBVIOUS
<1>1. \A w \in Line : w \in Seq(D) /\ Len(w) \in Nat BY DEF Line
<1>2. Len(word) \in T /\ T \subseteq Nat BY <1>1
<1>3. PICK m \in T : \A k \in T : m <= k BY <1>2, LeastNumber
<1>4. PICK w \in Line : Len(w) = m /\ SplitWord[w] \notin Seq(Line) OBVIOUS
<1>5. \A v \in Line : Len(v) < Len(w) => SplitWord[v] \in Seq(Line)
  <2> SUFFICES ASSUME NEW v \in Line, Len(v) < Len(w), SplitWord[v] \notin Seq(Line) PROVE FALSE
    OBVIOUS
  <2>1. Len(v) \in T BY <1>1
  <2>2. m <= Len(v) BY <1>3, <2>1
  <2> HIDE DEF T
  <2> QED BY <1>1, <1>4, <2>2
<1> HIDE DEF T
<1>6. Advance[w] \in Nat /\ ContentWidth = 988 BY AdvanceUnfolds, WidthIs
<1>7. CASE Advance[w] <= ContentWidth
  <2>1. SplitWord[w] = <<w>> BY <1>7, SplitWordUnfolds
  <2>2. <<w>> \in Seq(Line) OBVIOUS
  <2> QED BY <1>4, <2>1, <2>2
<1>8. CASE ~(Advance[w] <= ContentWidth)
  <2> DEFINE n == Cut(w)
             piece == SubSeq(w, 1, n) \o <<"hyphen">>
             b == SubSeq(w, n + 1, Len(w))
  <2>1. n \in 1..(Len(w) - 1) BY <1>6, <1>8, CutIs
  <2>2. SplitWord[w] = <<piece>> \o SplitWord[b] BY <1>8, SplitWordUnfolds
  <2> HIDE DEF n
  <2>3. SubSeq(w, 1, n) \in Line /\ b \in Line /\ Len(b) < Len(w) BY <1>1, <2>1, TwoHalves DEF Line
  <2>4. <<"hyphen">> \in Line BY Glyphs, AdvanceOne
  <2>5. piece \in Line BY <2>3, <2>4, AdvanceConcat
  <2>6. SplitWord[b] \in Seq(Line) BY <1>5, <2>3
  <2> DEFINE more == SplitWord[b]
  <2> HIDE DEF piece, more
  <2>7. <<piece>> \in Seq(Line) BY <2>5
  <2>8. <<piece>> \o more \in Seq(Line) BY <2>6, <2>7, ConcatProperties DEF more
  <2> QED BY <1>4, <2>2, <2>8 DEF more
<1> QED BY <1>7, <1>8

(***************************************************************************)
(* wrap_codepoints, one word at a time.                                    *)
(***************************************************************************)
LEMMA PlaceUnfolds ==
  ASSUME NEW words \in Seq(Line), NEW line \in Line
  PROVE  Place[<<words, line>>] =
           IF words = <<>> THEN Ended(line)
           ELSE IF Joins(line, Head(words))
           THEN Place[<<Tail(words), line \o <<"sp">> \o Head(words)>>]
           ELSE IF Advance[Head(words)] > ContentWidth
           THEN Ended(line) \o SplitWord[Head(words)] \o Place[<<Tail(words), <<>>>>]
           ELSE Ended(line) \o Place[<<Tail(words), Head(words)>>]
<1> DEFINE S == Seq(Line) \X Line
           D == DOMAIN Glyph
           joined(at) == Joins(at[2], Head(at[1]))
           longer(at) == at[2] \o <<"sp">> \o Head(at[1])
           wide(at) == Advance[Head(at[1])] > ContentWidth
           stop == {at \in S : at[1] = <<>>}
           rank == [at \in S |-> Len(at[1])]
           next == [at \in S |-> IF at[1] = <<>> THEN at
                                 ELSE IF joined(at) THEN <<Tail(at[1]), longer(at)>>
                                 ELSE IF wide(at) THEN <<Tail(at[1]), <<>>>>
                                 ELSE <<Tail(at[1]), Head(at[1])>>]
           base == [at \in S |-> Ended(at[2])]
           first == [at \in S |-> IF joined(at) THEN <<>>
                                  ELSE IF wide(at) THEN Ended(at[2]) \o SplitWord[Head(at[1])]
                                  ELSE Ended(at[2])]
           body(f) == [at \in S |->
                         IF at[1] = <<>> THEN Ended(at[2])
                         ELSE IF joined(at) THEN f[<<Tail(at[1]), longer(at)>>]
                         ELSE IF wide(at)
                         THEN Ended(at[2]) \o SplitWord[Head(at[1])] \o f[<<Tail(at[1]), <<>>>>]
                         ELSE Ended(at[2]) \o f[<<Tail(at[1]), Head(at[1])>>]]
<1>1. \A at \in S : at[1] \in Seq(Line) /\ at[2] \in Line /\ Len(at[1]) \in Nat OBVIOUS
<1>2. \A at \in S : at[1] # <<>> =>
         /\ Head(at[1]) \in Line /\ Tail(at[1]) \in Seq(Line) /\ Len(Tail(at[1])) < Len(at[1])
  BY <1>1
<1>3. \A at \in S : at[1] # <<>> => longer(at) \in Line
  <2> SUFFICES ASSUME NEW at \in S, at[1] # <<>> PROVE longer(at) \in Line
    OBVIOUS
  <2>1. <<"sp">> \in Line BY Glyphs, AdvanceOne
  <2>2. at[2] \o <<"sp">> \in Line BY <1>1, <2>1, AdvanceConcat
  <2> QED BY <1>2, <2>2, AdvanceConcat
<1>4. <<>> \in Line BY DEF Line
<1>5. rank \in [S -> Nat] BY <1>1
<1>6. next \in [S -> S] BY <1>2, <1>3, <1>4
<1>7. \A at \in S : at \in stop => base[at] \in Seq(Line) BY <1>1, EndedIs
<1>8. \A at \in S : at \notin stop => first[at] \in Seq(Line) /\ rank[next[at]] < rank[at]
  <2> SUFFICES ASSUME NEW at \in S, at[1] # <<>> PROVE first[at] \in Seq(Line) /\ rank[next[at]] < rank[at]
    OBVIOUS
  <2>1. Ended(at[2]) \in Seq(Line) BY <1>1, EndedIs
  <2>2. SplitWord[Head(at[1])] \in Seq(Line) BY <1>2, SplitWordType
  <2>3. Ended(at[2]) \o SplitWord[Head(at[1])] \in Seq(Line) BY <2>1, <2>2, ConcatProperties
  <2>4. <<>> \in Seq(Line) OBVIOUS
  <2>5. first[at] \in Seq(Line) BY <2>1, <2>3, <2>4
  <2>6. next[at] \in S /\ next[at][1] = Tail(at[1]) BY <1>6
  <2>7. rank[at] = Len(at[1]) /\ rank[next[at]] = Len(Tail(at[1])) BY <2>6
  <2> QED BY <1>2, <2>5, <2>7
<1>9. \E f : Unrolls(f, S, Line, stop, base, first, next)
  <2> HIDE DEF S, stop, rank, next, base, first
  <2> QED BY <1>5, <1>6, <1>7, <1>8, Unrolling
<1>10. PICK f : Unrolls(f, S, Line, stop, base, first, next) BY <1>9
<1>11. f \in [S -> Seq(Line)] BY <1>10 DEF Unrolls
<1>12. \A at \in S : f[at] = body(f)[at]
  <2> TAKE at \in S
  <2>1. CASE at[1] = <<>>
    <3>1. at \in stop /\ base[at] = Ended(at[2]) BY <2>1
    <3>2. f[at] = base[at] BY <1>10, <3>1 DEF Unrolls
    <3> QED BY <2>1, <3>1, <3>2
  <2>2. CASE at[1] # <<>>
    <3>1. f[at] = first[at] \o f[next[at]] BY <1>10, <2>2 DEF Unrolls
    <3>2. CASE joined(at)
      <4>1. first[at] = <<>> /\ next[at] = <<Tail(at[1]), longer(at)>> BY <2>2, <3>2
      <4>2. f[next[at]] \in Seq(Line) BY <1>6, <1>11
      <4>3. <<>> \o f[next[at]] = f[next[at]] BY <4>2, ConcatEmptySeq
      <4>4. body(f)[at] = f[<<Tail(at[1]), longer(at)>>] BY <2>2, <3>2
      <4> QED BY <3>1, <4>1, <4>3, <4>4, Zenon
    <3>3. CASE ~joined(at) /\ wide(at)
      <4>1. /\ first[at] = Ended(at[2]) \o SplitWord[Head(at[1])]
            /\ next[at] = <<Tail(at[1]), <<>>>>
        BY <2>2, <3>3
      <4>2. body(f)[at] = Ended(at[2]) \o SplitWord[Head(at[1])] \o f[<<Tail(at[1]), <<>>>>] BY <2>2, <3>3
      <4> QED BY <3>1, <4>1, <4>2, Zenon
    <3>4. CASE ~joined(at) /\ ~wide(at)
      <4>1. first[at] = Ended(at[2]) /\ next[at] = <<Tail(at[1]), Head(at[1])>> BY <2>2, <3>4
      <4>2. body(f)[at] = Ended(at[2]) \o f[<<Tail(at[1]), Head(at[1])>>] BY <2>2, <3>4
      <4> QED BY <3>1, <4>1, <4>2, Zenon
    <3> QED BY <3>2, <3>3, <3>4
  <2> QED BY <2>1, <2>2
<1>13. f = body(f) BY <1>11, <1>12
<1>14. Place = CHOOSE h : h = body(h) BY DEF Place
<1>15. Place = body(Place) BY <1>13, <1>14
<1>16. <<words, line>> \in S /\ <<words, line>>[1] = words /\ <<words, line>>[2] = line OBVIOUS
<1> QED BY <1>15, <1>16

(***************************************************************************)
(* The lines of the words that are left: nothing is lost, no line is too   *)
(* wide.                                                                   *)
(***************************************************************************)
PlacesWhole(words, line) ==
  LET lines == Place[<<words, line>>]
  IN  /\ lines \in Seq(CaptionLine) /\ ((line # <<>> \/ words # <<>>) => lines # <<>>)
      /\ Letters[FlattenSeq(lines)] = Letters[line] \o Letters[FlattenSeq(words)]

Begun == CaptionLine \cup {<<>>}

LEMMA BegunIs ==
  ASSUME NEW line \in Begun
  PROVE  /\ line \in Line /\ line \in Seq(Char) /\ Ended(line) \in Seq(CaptionLine)
         /\ FlattenSeq(Ended(line)) = line /\ (line # <<>> => Ended(line) # <<>>)
<1>1. <<>> \in Line BY DEF Line
<1>2. line \in Line /\ (line = <<>> \/ line \in CaptionLine) BY <1>1, CaptionLines DEF Begun
<1>3. line \in Seq(Char) BY <1>2, Glyphs
<1>4. Ended(line) \in Seq(CaptionLine)
  <2>1. CASE line = <<>>
    <3>1. Ended(line) = <<>> BY <2>1 DEF Ended
    <3>2. <<>> \in Seq(CaptionLine) OBVIOUS
    <3> QED BY <3>1, <3>2
  <2>2. CASE line # <<>>
    <3>1. Ended(line) = <<line>> /\ line \in CaptionLine BY <1>2, <2>2 DEF Ended
    <3>2. <<line>> \in Seq(CaptionLine) BY <3>1
    <3> QED BY <3>1, <3>2
  <2> QED BY <2>1, <2>2
<1> QED BY <1>2, <1>3, <1>4, EndedIs

LEMMA PlaceEnds == ASSUME NEW line \in Begun PROVE PlacesWhole(<<>>, line)
<1> DEFINE D == DOMAIN Glyph
<1>1. <<>> \in Seq(Line) /\ <<>> \in Seq(Seq(D)) /\ <<>> \in Seq(Char) OBVIOUS
<1>2. /\ line \in Line /\ line \in Seq(Char) /\ Ended(line) \in Seq(CaptionLine)
      /\ FlattenSeq(Ended(line)) = line /\ (line # <<>> => Ended(line) # <<>>)
  BY BegunIs
<1>3. Place[<<<<>>, line>>] = Ended(line) BY <1>1, <1>2, PlaceUnfolds
<1>4. FlattenSeq(<<>>) = <<>>
  <2> HIDE DEF D
  <2> QED BY <1>1, FlattenType
<1>5. Letters[<<>>] = <<>> BY <1>1, LettersUnfolds
<1>6. Letters[line] \in Seq(D) BY <1>2, LettersUnfolds DEF Line
<1>7. Letters[line] \o <<>> = Letters[line] BY <1>6, ConcatEmptySeq
<1> QED BY <1>2, <1>3, <1>4, <1>5, <1>7, Zenon DEF PlacesWhole

(***************************************************************************)
(* The letters of a word and of those after it.                            *)
(***************************************************************************)
LEMMA WordFirst ==
  ASSUME NEW words \in Seq(InkWord), words # <<>>
  PROVE  /\ Head(words) \in InkWord /\ Tail(words) \in Seq(InkWord)
         /\ Letters[FlattenSeq(words)] = Letters[Head(words)] \o Letters[FlattenSeq(Tail(words))]
<1> DEFINE word == Head(words)
           rest == Tail(words)
           D == DOMAIN Glyph
<1>1. word \in InkWord /\ rest \in Seq(InkWord) /\ words = <<word>> \o rest
  <2>1. word \in InkWord /\ rest \in Seq(InkWord) OBVIOUS
  <2> DEFINE all == <<word>> \o rest
  <2>2. Len(words) \in Nat /\ Len(words) >= 1 /\ Len(rest) = Len(words) - 1 /\ word = words[1] OBVIOUS
  <2>3. \A i \in 1..Len(rest) : rest[i] = words[i + 1] OBVIOUS
  <2>4. <<word>> \in Seq(InkWord) /\ Len(<<word>>) = 1 /\ <<word>>[1] = word BY <2>1
  <2> HIDE DEF word, rest
  <2>5. all \in Seq(InkWord) /\ Len(all) = Len(<<word>>) + Len(rest) BY <2>1, <2>4, ConcatProperties
  <2>6. Len(all) = Len(words) BY <2>2, <2>4, <2>5
  <2>7. \A i \in 1..Len(all) : all[i] = words[i]
    <3> TAKE i \in 1..Len(all)
    <3>1. i \in Nat /\ 1 <= i /\ i <= Len(words) BY <2>2, <2>6
    <3>2. CASE i = 1 BY <2>1, <2>2, <2>4, <3>2
    <3>3. CASE i > 1
      <4>1. i - 1 \in 1..Len(rest) BY <2>2, <3>1, <3>3
      <4>2. all[i] = rest[i - 1] BY <2>1, <2>4, <3>1, <3>3, <4>1
      <4>3. rest[i - 1] = words[i - 1 + 1] BY <2>3, <4>1
      <4>4. i - 1 + 1 = i BY <3>1
      <4> QED BY <4>2, <4>3, <4>4
    <3> QED BY <3>1, <3>2, <3>3
  <2> HIDE DEF all
  <2>8. all = words BY <2>5, <2>6, <2>7, SeqEqual
  <2> QED BY <2>1, <2>8 DEF all
<1> HIDE DEF word, rest
<1>2. <<word>> \in Seq(InkWord) BY <1>1
<1>3. <<word>> \in Seq(Line) /\ rest \in Seq(Line) BY <1>1, <1>2, InkWords
<1>4. FlattenSeq(<<word>>) = word
  <2>1. word \in Seq(D) BY <1>1, InkWords DEF Line
  <2> HIDE DEF D
  <2> QED BY <2>1, FlattenOne
<1>5. Letters[FlattenSeq(<<word>> \o rest)] = Letters[FlattenSeq(<<word>>)] \o Letters[FlattenSeq(rest)]
  BY <1>3, FlattenLines
<1>6. Letters[FlattenSeq(words)] = Letters[word] \o Letters[FlattenSeq(rest)] BY <1>1, <1>4, <1>5, Zenon
<1> QED BY <1>1, <1>6 DEF word, rest

(***************************************************************************)
(* A word that joins a line.                                               *)
(***************************************************************************)
LEMMA JoinedIs ==
  ASSUME NEW line \in Begun, NEW word \in InkWord, Joins(line, word)
  PROVE  LET longer == line \o <<"sp">> \o word
         IN  longer \in CaptionLine /\ Letters[longer] = Letters[line] \o Letters[word]
<1> DEFINE D == DOMAIN Glyph
           s == <<"sp">>
           ls == line \o s
           longer == ls \o word
<1>1. line # <<>> /\ Advance[line] + Glyph["sp"].advance + Advance[word] <= ContentWidth BY DEF Joins
<1>2. line \in CaptionLine BY <1>1 DEF Begun
<1>3. line \in Line /\ word \in Line /\ Head(line) \in InkGlyph BY <1>2, CaptionLines, InkWords
<1>4. "sp" \in D /\ "sp" \in Char BY Glyphs
<1>5. s \in Line /\ s \in Seq(Char) /\ Advance[s] = Glyph["sp"].advance BY <1>4, AdvanceOne, LettersOne
<1>6. Letters[s] = <<>>
  <2>1. Sanitize("sp") = <<"sp">> BY <1>4, Glyphs DEF Sanitize
  <2>2. LettersOf("sp") = <<>> BY <2>1 DEF LettersOf
  <2> QED BY <1>4, <2>2, LettersOne
<1> HIDE DEF s
<1>7. ls \in Line /\ Advance[ls] = Advance[line] + Advance[s] BY <1>3, <1>5, AdvanceConcat
<1>8. ls # <<>> /\ Head(ls) = Head(line) BY <1>1, <1>3, <1>5, HeadTailConcat DEF Line
<1>9. Letters[ls] = Letters[line]
  <2>1. line \in Seq(Char) BY <1>3, Glyphs
  <2>2. Letters[ls] = Letters[line] \o <<>> BY <1>5, <1>6, <2>1, LettersConcat
  <2>3. Letters[line] \in Seq(D) BY <2>1, LettersUnfolds DEF Line
  <2> QED BY <2>2, <2>3, ConcatEmptySeq
<1> HIDE DEF ls
<1>10. longer \in Line /\ Advance[longer] = Advance[ls] + Advance[word] BY <1>3, <1>7, AdvanceConcat
<1>11. longer # <<>> /\ Head(longer) = Head(ls) BY <1>3, <1>7, <1>8, HeadTailConcat DEF Line
<1>12. Letters[longer] = Letters[line] \o Letters[word]
  <2>1. ls \in Seq(Char) /\ word \in Seq(Char) BY <1>3, <1>7, Glyphs
  <2>2. Letters[longer] = Letters[ls] \o Letters[word] BY <2>1, LettersConcat
  <2> QED BY <1>9, <2>2
<1>13. Advance[longer] <= ContentWidth
  <2> HIDE DEF longer
  <2> QED BY <1>1, <1>5, <1>7, <1>10
<1>14. longer \in CaptionLine BY <1>3, <1>8, <1>10, <1>11, <1>13 DEF CaptionLine
<1> QED BY <1>12, <1>14 DEF longer, ls, s

(***************************************************************************)
(* Lines that end before a place's.                                        *)
(***************************************************************************)
LEMMA LinesBefore ==
  ASSUME NEW L \in Seq(CaptionLine), NEW M \in Seq(CaptionLine)
  PROVE  /\ L \o M \in Seq(CaptionLine) /\ (L # <<>> \/ M # <<>> => L \o M # <<>>)
         /\ Letters[FlattenSeq(L \o M)] = Letters[FlattenSeq(L)] \o Letters[FlattenSeq(M)]
<1>1. L \o M \in Seq(CaptionLine) BY ConcatProperties
<1>2. L # <<>> \/ M # <<>> => L \o M # <<>> BY ConcatEqualIffEmpty
<1>3. L \in Seq(Line) /\ M \in Seq(Line) BY CaptionLines
<1> QED BY <1>1, <1>2, <1>3, FlattenLines

LEMMA PlaceGoesOn ==
  ASSUME NEW words \in Seq(InkWord), words # <<>>, NEW line \in Begun,
         \A l \in Begun : PlacesWhole(Tail(words), l)
  PROVE  PlacesWhole(words, line)
<1> DEFINE D == DOMAIN Glyph
           word == Head(words)
           rest == Tail(words)
           x == Letters[line]
           y == Letters[word]
           z == Letters[FlattenSeq(rest)]
<1>1. /\ word \in InkWord /\ rest \in Seq(InkWord)
      /\ Letters[FlattenSeq(words)] = y \o z
  BY WordFirst
<1>2. /\ line \in Line /\ line \in Seq(Char) /\ Ended(line) \in Seq(CaptionLine)
      /\ FlattenSeq(Ended(line)) = line /\ (line # <<>> => Ended(line) # <<>>)
  BY BegunIs
<1>3. word \in Line /\ word \in Seq(Char) /\ words \in Seq(Line) /\ rest \in Seq(Line)
  BY <1>1, InkWords, Glyphs
<1>4. FlattenSeq(rest) \in Seq(Char) BY <1>3, FlattenLines
<1>5. x \in Seq(D) /\ y \in Seq(D) /\ z \in Seq(D)
  BY <1>2, <1>3, <1>4, LettersUnfolds DEF Line
<1>6. x \o (y \o z) = (x \o y) \o z
  <2> HIDE DEF x, y, z, D
  <2> QED BY <1>5, Associative
<1>7. CASE Joins(line, word)
  <2> DEFINE longer == line \o <<"sp">> \o word
  <2>1. longer \in CaptionLine /\ Letters[longer] = x \o y BY <1>1, <1>7, JoinedIs
  <2>2. Place[<<words, line>>] = Place[<<rest, longer>>] BY <1>2, <1>3, <1>7, PlaceUnfolds
  <2> HIDE DEF longer
  <2>3. longer \in Begun /\ longer # <<>> BY <2>1, CaptionLines DEF Begun
  <2>4. PlacesWhole(rest, longer) BY <2>3
  <2> QED BY <1>1, <1>6, <2>1, <2>2, <2>3, <2>4, Zenon DEF PlacesWhole
<1>8. CASE ~Joins(line, word) /\ Advance[word] > ContentWidth
  <2> DEFINE cut == SplitWord[word]
             more == Place[<<rest, <<>>>>]
             done == Ended(line)
  <2>1. Place[<<words, line>>] = done \o cut \o more BY <1>2, <1>3, <1>8, PlaceUnfolds
  <2>2. cut \in Seq(CaptionLine) /\ cut # <<>> /\ Letters[FlattenSeq(cut)] = y
    BY <1>1, WordIsCut DEF CutsWhole
  <2>3. PlacesWhole(rest, <<>>) BY DEF Begun
  <2>4. Letters[<<>>] = <<>>
    <3>1. <<>> \in Seq(Char) OBVIOUS
    <3> QED BY <3>1, LettersUnfolds
  <2>5. <<>> \o z = z BY <1>5, ConcatEmptySeq
  <2>6. more \in Seq(CaptionLine) /\ Letters[FlattenSeq(more)] = <<>> \o z
    BY <2>3, <2>4, Zenon DEF PlacesWhole
  <2>7. done \in Seq(CaptionLine) /\ Letters[FlattenSeq(done)] = x BY <1>2
  <2>10. Letters[FlattenSeq(more)] = z BY <2>5, <2>6
  <2> HIDE DEF cut, more, done, x, y, z
  <2>8. done \o cut \in Seq(CaptionLine) /\ done \o cut # <<>> /\ Letters[FlattenSeq(done \o cut)] = x \o y
    BY <2>2, <2>7, LinesBefore
  <2> DEFINE both == done \o cut
  <2>11. both \in Seq(CaptionLine) /\ both # <<>> /\ Letters[FlattenSeq(both)] = x \o y BY <2>8
  <2> HIDE DEF both
  <2>12. /\ both \o more \in Seq(CaptionLine) /\ both \o more # <<>>
         /\ Letters[FlattenSeq(both \o more)] = Letters[FlattenSeq(both)] \o Letters[FlattenSeq(more)]
    BY <2>6, <2>11, LinesBefore
  <2>9. /\ (done \o cut) \o more \in Seq(CaptionLine) /\ (done \o cut) \o more # <<>>
        /\ Letters[FlattenSeq((done \o cut) \o more)] = (x \o y) \o z
    BY <2>10, <2>11, <2>12, Zenon DEF both
  <2> QED BY <1>1, <1>6, <2>1, <2>9, Zenon DEF PlacesWhole, x
<1>9. CASE ~Joins(line, word) /\ ~(Advance[word] > ContentWidth)
  <2> DEFINE more == Place[<<rest, word>>]
             done == Ended(line)
  <2>1. Place[<<words, line>>] = done \o more BY <1>2, <1>3, <1>9, PlaceUnfolds
  <2>2. Advance[word] <= ContentWidth
    <3>1. Advance[word] \in Nat /\ ContentWidth = 988 BY <1>3, AdvanceUnfolds, WidthIs
    <3> QED BY <1>9, <3>1
  <2>3. word \in Begun /\ word # <<>> BY <1>1, <2>2, WordOnLine DEF Begun, InkWord
  <2>4. PlacesWhole(rest, word) BY <2>3
  <2>5. more \in Seq(CaptionLine) /\ more # <<>> /\ Letters[FlattenSeq(more)] = y \o z
    BY <2>3, <2>4, Zenon DEF PlacesWhole
  <2>6. done \in Seq(CaptionLine) /\ Letters[FlattenSeq(done)] = x BY <1>2
  <2> HIDE DEF more, done, x, y, z
  <2>7. /\ done \o more \in Seq(CaptionLine) /\ done \o more # <<>>
        /\ Letters[FlattenSeq(done \o more)] = x \o (y \o z)
    <3>1. more \in Seq(CaptionLine) /\ more # <<>> /\ done \in Seq(CaptionLine) BY <2>5, <2>6
    <3>2. /\ done \o more \in Seq(CaptionLine) /\ done \o more # <<>>
          /\ Letters[FlattenSeq(done \o more)] = Letters[FlattenSeq(done)] \o Letters[FlattenSeq(more)]
      BY <3>1, LinesBefore
    <3> QED BY <2>5, <2>6, <3>2, Zenon
  <2> QED BY <1>1, <2>1, <2>7, Zenon DEF PlacesWhole, x
<1> QED BY <1>7, <1>8, <1>9

(***************************************************************************)
(* Any words, wrapped.                                                     *)
(***************************************************************************)
LEMMA WrapIs ==
  ASSUME NEW words \in Seq(InkWord)
  PROVE  /\ Wrap(words) \in Seq(CaptionLine) /\ (words # <<>> => Wrap(words) # <<>>)
         /\ Letters[FlattenSeq(Wrap(words))] = Letters[FlattenSeq(words)]
<1> DEFINE Good == {w \in Seq(InkWord) : \A line \in Begun : PlacesWhole(w, line)}
           D == DOMAIN Glyph
<1>1. <<>> \in Good BY PlaceEnds
<1>2. \A w \in Seq(InkWord) : (w # <<>> /\ Tail(w) \in Good) => w \in Good
  <2> SUFFICES ASSUME NEW w \in Seq(InkWord), w # <<>>, Tail(w) \in Good, NEW line \in Begun
               PROVE PlacesWhole(w, line)
    OBVIOUS
  <2> QED BY PlaceGoesOn
<1>3. Seq(InkWord) \subseteq Good
  <2> HIDE DEF Good
  <2> QED BY <1>1, <1>2, SeqDescent
<1>4. PlacesWhole(words, <<>>) BY <1>3 DEF Begun
<1> HIDE DEF Good
<1>5. Letters[<<>>] = <<>>
  <2>1. <<>> \in Seq(Char) OBVIOUS
  <2> QED BY <2>1, LettersUnfolds
<1>6. FlattenSeq(words) \in Seq(Char) BY InkWords, FlattenLines
<1>7. Letters[FlattenSeq(words)] \in Seq(D) BY <1>6, LettersUnfolds DEF Line
<1>8. <<>> \o Letters[FlattenSeq(words)] = Letters[FlattenSeq(words)] BY <1>7, ConcatEmptySeq
<1> QED BY <1>4, <1>5, <1>8, Zenon DEF PlacesWhole, Wrap

(***************************************************************************)
(* Whatever a text holds, wrapping it loses none of its letters, puts      *)
(* hyphens only where it cuts a word, and keeps every line to its width    *)
(* (decode_text, split_word, wrap_codepoints).                             *)
(***************************************************************************)
THEOREM EveryTextIsWrapped ==
  ASSUME NEW text \in Seq(Char)
  PROVE  WrapsWhole(text)
<1>1. Words(text) \in Seq(InkWord) /\ Letters[FlattenSeq(Words(text))] = Letters[text] BY WordsAre
<1>2. /\ Wrap(Words(text)) \in Seq(CaptionLine)
      /\ Letters[FlattenSeq(Wrap(Words(text)))] = Letters[FlattenSeq(Words(text))]
  BY <1>1, WrapIs
<1> DEFINE lines == Wrap(Words(text))
<1>3. \A n \in DOMAIN lines : Advance[lines[n]] <= ContentWidth
  <2>1. lines \in Seq(CaptionLine) BY <1>2
  <2> HIDE DEF lines
  <2>2. \A n \in DOMAIN lines : lines[n] \in CaptionLine BY <2>1
  <2> QED BY <2>2 DEF CaptionLine
<1> QED BY <1>1, <1>2, <1>3 DEF WrapsWhole

-----------------------------------------------------------------------------
(***************************************************************************)
(* Ink: every line is drawn inside the box.                                *)
(***************************************************************************)

Rect == [left : Int, right : Int, top : Int, bottom : Int]

LEMMA OfTwo ==
  ASSUME NEW a \in Int, NEW b \in Int
  PROVE  /\ Max({a, b}) \in {a, b} /\ Max({a, b}) \in Int /\ a <= Max({a, b}) /\ b <= Max({a, b})
         /\ Min({a, b}) \in {a, b} /\ Min({a, b}) \in Int /\ Min({a, b}) <= a /\ Min({a, b}) <= b
<1>1. \E x \in {a, b} : \A y \in {a, b} : x >= y OBVIOUS
<1>2. \E x \in {a, b} : \A y \in {a, b} : x <= y OBVIOUS
<1>3. Max({a, b}) \in {a, b} /\ \A y \in {a, b} : Max({a, b}) >= y BY <1>1 DEF Max
<1>4. Min({a, b}) \in {a, b} /\ \A y \in {a, b} : Min({a, b}) <= y BY <1>2 DEF Min
<1> QED BY <1>3, <1>4

LEMMA HullIs ==
  ASSUME NEW r \in Rect, NEW s \in Rect
  PROVE  LET h == Hull(r, s)
         IN  /\ h \in Rect
             /\ h.left <= r.left /\ h.left <= s.left /\ h.left \in {r.left, s.left}
             /\ h.right >= r.right /\ h.right >= s.right /\ h.right \in {r.right, s.right}
             /\ h.top <= r.top /\ h.top <= s.top /\ h.top \in {r.top, s.top}
             /\ h.bottom >= r.bottom /\ h.bottom >= s.bottom /\ h.bottom \in {r.bottom, s.bottom}
<1>1. /\ r.left \in Int /\ r.right \in Int /\ r.top \in Int /\ r.bottom \in Int
      /\ s.left \in Int /\ s.right \in Int /\ s.top \in Int /\ s.bottom \in Int
  BY DEF Rect
<1> DEFINE a == Min({r.left, s.left})
           b == Max({r.right, s.right})
           c == Min({r.top, s.top})
           d == Max({r.bottom, s.bottom})
<1>2. a \in Int /\ a <= r.left /\ a <= s.left /\ a \in {r.left, s.left} BY <1>1, OfTwo
<1>3. b \in Int /\ b >= r.right /\ b >= s.right /\ b \in {r.right, s.right} BY <1>1, OfTwo
<1>4. c \in Int /\ c <= r.top /\ c <= s.top /\ c \in {r.top, s.top} BY <1>1, OfTwo
<1>5. d \in Int /\ d >= r.bottom /\ d >= s.bottom /\ d \in {r.bottom, s.bottom} BY <1>1, OfTwo
<1>6. Hull(r, s) = [left |-> a, right |-> b, top |-> c, bottom |-> d] BY DEF Hull
<1> HIDE DEF a, b, c, d
<1> QED BY <1>2, <1>3, <1>4, <1>5, <1>6 DEF Rect

LEMMA MovedIs ==
  ASSUME NEW r \in Rect, NEW dx \in Int, NEW dy \in Int
  PROVE  /\ Moved(r, dx, dy) \in Rect
         /\ Moved(r, dx, dy).left = r.left + dx /\ Moved(r, dx, dy).right = r.right + dx
         /\ Moved(r, dx, dy).top = r.top + dy /\ Moved(r, dx, dy).bottom = r.bottom + dy
BY DEF Moved, Rect

LEMMA NoInkIs ==
  /\ NoInk \in Rect /\ NoInk.left = 9999 /\ NoInk.right = -9999 /\ NoInk.top = 9999 /\ NoInk.bottom = -9999
BY DEF NoInk, Rect

(***************************************************************************)
(* The ink of one glyph.                                                   *)
(***************************************************************************)
LEMMA GlyphInkIs ==
  ASSUME NEW c \in DOMAIN Glyph
  PROVE  LET g == Glyph[c]
             r == GlyphInk(g)
         IN  /\ r \in Rect /\ r.left >= g.x /\ r.right <= g.x + g.width - 1
             /\ r.top >= -32 /\ r.bottom <= 5
             /\ c # "sp" => r.left <= 4 /\ r.right >= 1
<1> DEFINE g == Glyph[c]
           x == g.x
           y == g.y
           w == g.width
           h == g.height
<1>1. /\ w \in Nat /\ h \in Nat /\ x \in Int /\ y \in Int /\ ((c = "sp") <=> (w = 0))
      /\ -1 <= x /\ x <= 4 /\ -32 <= y /\ y + h - 1 <= 5
      /\ (c # "sp" => w >= 3 /\ h >= 3)
  BY GlyphIs
<1>2. CASE w = 0
  <2>1. GlyphInk(g) = NoInk BY <1>2 DEF GlyphInk
  <2> HIDE DEF g, x, y, w, h
  <2>2. NoInk.left >= x /\ NoInk.right <= x + w - 1 /\ NoInk.top >= -32 /\ NoInk.bottom <= 5
    BY <1>1, <1>2, NoInkIs
  <2> QED BY <1>1, <1>2, <2>1, <2>2, NoInkIs DEF g, x, w
<1>3. CASE w # 0
  <2>1. GlyphInk(g) = [left |-> x, right |-> x + w - 1, top |-> y, bottom |-> y + h - 1] BY <1>3 DEF GlyphInk
  <2> DEFINE r == [left |-> x, right |-> x + w - 1, top |-> y, bottom |-> y + h - 1]
  <2> HIDE DEF g, x, y, w, h
  <2>2. r \in Rect /\ r.left = x /\ r.right = x + w - 1 /\ r.top = y /\ r.bottom = y + h - 1
    BY <1>1 DEF Rect
  <2> HIDE DEF r
  <2>3. /\ r.left >= x /\ r.right <= x + w - 1 /\ r.top >= -32 /\ r.bottom <= 5
        /\ (c # "sp" => r.left <= 4 /\ r.right >= 1)
    BY <1>1, <2>2
  <2> QED BY <2>1, <2>2, <2>3 DEF g, x, w, r
<1> QED BY <1>2, <1>3

LEMMA InkUnfolds ==
  /\ InkOf \in [Line -> Rect]
  /\ \A line \in Line :
       InkOf[line] = IF line = <<>> THEN NoInk
                     ELSE Hull(GlyphInk(Glyph[Head(line)]), Moved(InkOf[Tail(line)], Glyph[Head(line)].advance, 0))
<1> DEFINE S == Line
           stop == {<<>>}
           rank == [line \in S |-> Len(line)]
           next == [line \in S |-> IF line = <<>> THEN line ELSE Tail(line)]
           base == [line \in S |-> NoInk]
           more(line, a) == Hull(GlyphInk(Glyph[Head(line)]), Moved(a, Glyph[Head(line)].advance, 0))
           step == [line \in S |-> [a \in Rect |-> [b \in Rect |-> more(line, a)]]]
           body(f) == [line \in S |-> IF line = <<>> THEN NoInk ELSE more(line, f[Tail(line)])]
<1>1. rank \in [S -> Nat] BY DEF Line
<1>2. \A line \in S : line # <<>> =>
         /\ Head(line) \in DOMAIN Glyph /\ Tail(line) \in S /\ Len(Tail(line)) < Len(line)
  BY DEF Line
<1>3. next \in [S -> S] BY <1>2
<1>4. \A line \in S : line \notin stop => rank[next[line]] < rank[line] BY <1>2
<1>5. \A line \in S : line # <<>> => \A a \in Rect : more(line, a) \in Rect
  <2> SUFFICES ASSUME NEW line \in S, line # <<>>, NEW a \in Rect PROVE more(line, a) \in Rect
    OBVIOUS
  <2>1. GlyphInk(Glyph[Head(line)]) \in Rect BY <1>2, GlyphInkIs
  <2>2. Glyph[Head(line)].advance \in Nat BY <1>2, GlyphIs
  <2>3. Moved(a, Glyph[Head(line)].advance, 0) \in Rect
    <3>1. Glyph[Head(line)].advance \in Int /\ 0 \in Int BY <2>2
    <3> QED BY <3>1, MovedIs
  <2> QED BY <2>1, <2>3, HullIs
<1>6. \A line \in S : line \notin stop => \A a, b \in Rect :
         step[line][a][b] = more(line, a) /\ step[line][a][b] \in Rect
  <2> SUFFICES ASSUME NEW line \in S, line # <<>>, NEW a \in Rect, NEW b \in Rect
               PROVE step[line][a][b] = more(line, a) /\ step[line][a][b] \in Rect
    OBVIOUS
  <2>1. more(line, a) \in Rect BY <1>5
  <2> HIDE DEF more
  <2> QED BY <2>1
<1> HIDE DEF more
<1>7. \E f : Unfolds(f, S, Rect, stop, base, step, next, next)
  <2>1. \A line \in S : line \in stop => base[line] \in Rect BY NoInkIs
  <2>2. \A line \in S : line \notin stop => \A a, b \in Rect : step[line][a][b] \in Rect BY <1>6
  <2> HIDE DEF S, stop, rank, next, base, step
  <2> QED BY <1>1, <1>3, <1>4, <2>1, <2>2, Recursion
<1>8. PICK f : Unfolds(f, S, Rect, stop, base, step, next, next) BY <1>7
<1>9. f \in [S -> Rect] BY <1>8 DEF Unfolds
<1>10. \A line \in S : f[line] = IF line = <<>> THEN NoInk ELSE more(line, f[Tail(line)])
  <2> TAKE line \in S
  <2>1. CASE line = <<>> BY <1>8, <2>1 DEF Unfolds
  <2>2. CASE line # <<>>
    <3>1. f[line] = step[line][f[next[line]]][f[next[line]]] BY <1>8, <2>2 DEF Unfolds
    <3>2. next[line] = Tail(line) /\ Tail(line) \in S BY <1>2, <2>2
    <3>3. f[Tail(line)] \in Rect BY <1>9, <3>2
    <3>4. line \notin stop BY <2>2
    <3> HIDE DEF step, next, S, stop
    <3> QED BY <1>6, <2>2, <3>1, <3>2, <3>3, <3>4
  <2> QED BY <2>1, <2>2
<1>11. f = body(f) BY <1>9, <1>10
<1>12. InkOf = CHOOSE h : h = body(h) BY DEF InkOf, more
<1>13. InkOf = body(InkOf) BY <1>11, <1>12
<1>14. \A line \in S : InkOf[line] = IF line = <<>> THEN NoInk ELSE more(line, InkOf[Tail(line)])
  BY <1>13
<1>15. S \subseteq {line \in S : InkOf[line] \in Rect}
  <2> DEFINE Good == {line \in S : InkOf[line] \in Rect}
  <2>0. S = Seq(DOMAIN Glyph) BY DEF Line
  <2>1. <<>> \in Good
    <3>1. <<>> \in S BY <2>0
    <3> QED BY <1>14, <3>1, NoInkIs
  <2>2. \A line \in S : (line # <<>> /\ Tail(line) \in Good) => line \in Good
    <3> SUFFICES ASSUME NEW line \in S, line # <<>>, Tail(line) \in Good PROVE InkOf[line] \in Rect
      OBVIOUS
    <3>1. InkOf[Tail(line)] \in Rect OBVIOUS
    <3>2. InkOf[line] = more(line, InkOf[Tail(line)]) BY <1>14
    <3> QED BY <1>5, <3>1, <3>2 DEF more
  <2> HIDE DEF S, Good
  <2>3. S \subseteq Good BY <2>0, <2>1, <2>2, SeqDescent
  <2> QED BY <2>3 DEF Good
<1>16. InkOf \in [S -> Rect] BY <1>13, <1>15
<1> QED BY <1>14, <1>16 DEF more

(***************************************************************************)
(* How far the ink of a glyph goes beyond its advance.                     *)
(***************************************************************************)
Beyond(c) == Max({0, Glyph[c].x + Glyph[c].width - Glyph[c].advance})

Before(c) == Max({0, -Glyph[c].x})

LEMMA BeyondIs ==
  ASSUME NEW c \in DOMAIN Glyph
  PROVE  /\ Beyond(c) \in Int /\ Before(c) \in Int
         /\ Glyph[c].x + Glyph[c].width <= Glyph[c].advance + Beyond(c) /\ 0 <= Beyond(c)
         /\ -Before(c) <= Glyph[c].x
<1> DEFINE g == Glyph[c]
           x == g.x
           w == g.width
           a == g.advance
           p == Max({0, x + w - a})
           q == Max({0, -x})
<1>1. x \in Int /\ w \in Int /\ a \in Int BY GlyphIs
<1> HIDE DEF x, w, a
<1>2. p \in Int /\ 0 <= p /\ x + w - a <= p
  <2> DEFINE k == x + w - a
  <2>1. k \in Int /\ 0 \in Int BY <1>1
  <2> HIDE DEF k
  <2>2. Max({0, k}) \in Int /\ 0 <= Max({0, k}) /\ k <= Max({0, k}) BY <2>1, OfTwo
  <2> QED BY <2>2 DEF k
<1>3. q \in Int /\ -x <= q
  <2> DEFINE k == -x
  <2>1. k \in Int /\ 0 \in Int BY <1>1
  <2> HIDE DEF k
  <2>2. Max({0, k}) \in Int /\ k <= Max({0, k}) BY <2>1, OfTwo
  <2> QED BY <2>2 DEF k
<1>4. Beyond(c) = p /\ Before(c) = q BY DEF Beyond, Before, x, w, a
<1> HIDE DEF p, q
<1>5. x + w <= a + p /\ -q <= x BY <1>1, <1>2, <1>3
<1> QED BY <1>2, <1>3, <1>4, <1>5 DEF x, w, a

LEMMA OverhangIs ==
  ASSUME NEW line \in Line, line # <<>>
  PROVE  /\ Overhang(line) = Before(Head(line)) + Beyond(Last(line))
         /\ Head(line) \in DOMAIN Glyph /\ Last(line) \in DOMAIN Glyph
<1>1. Overhang(line) = Before(Head(line)) + Beyond(Last(line)) BY DEF Overhang, Before, Beyond
<1>2. Head(line) \in DOMAIN Glyph /\ Last(line) \in DOMAIN Glyph BY DEF Line, Last
<1> QED BY <1>1, <1>2

(***************************************************************************)
(* Where the ink of a line may be.                                         *)
(***************************************************************************)
InkIn(line) ==
  LET r == InkOf[line]
  IN  /\ r.top >= -32 /\ r.bottom <= 5
      /\ line = <<>> => r.left >= -1 /\ r.right <= -1
      /\ line # <<>> => r.left >= Glyph[Head(line)].x /\ r.right <= Advance[line] - 1 + Beyond(Last(line))

LEMMA InkStays == ASSUME NEW line \in Line PROVE InkIn(line)
<1> DEFINE Good == {s \in Line : InkIn(s)}
<1>1. Line = Seq(DOMAIN Glyph) BY DEF Line
<1>2. <<>> \in Good
  <2>1. <<>> \in Line BY <1>1
  <2>2. InkOf[<<>>] = NoInk BY <2>1, InkUnfolds
  <2> QED BY <2>1, <2>2, NoInkIs DEF InkIn
<1>3. \A s \in Line : (s # <<>> /\ Tail(s) \in Good) => s \in Good
  <2> SUFFICES ASSUME NEW s \in Line, s # <<>>, InkIn(Tail(s)) PROVE InkIn(s)
    OBVIOUS
  <2>1. Head(s) \in DOMAIN Glyph /\ Tail(s) \in Line BY <1>1
  <2> DEFINE c == Head(s)
             t == Tail(s)
             g == Glyph[c]
             a == g.advance
             x == g.x
             e == x + g.width - 1
             i == GlyphInk(g)
             j == InkOf[t]
             m == Moved(j, a, 0)
             r == InkOf[s]
             w == Advance[t]
  <2>2. a \in Nat /\ a >= 7 /\ x \in Int /\ x <= 4 /\ x >= -1 /\ e \in Int /\ e <= a
    <3>1. g.width \in Nat /\ g.x + g.width <= g.advance + 1 /\ a \in Nat /\ a >= 7 /\ x \in Int /\ x <= 4 /\ x >= -1
      BY <2>1, GlyphIs
    <3> HIDE DEF g
    <3> QED BY <3>1
  <2>3. i \in Rect /\ i.left >= x /\ i.right <= e /\ i.top >= -32 /\ i.bottom <= 5 BY <2>1, GlyphInkIs
  <2>4. j \in Rect BY <2>1, InkUnfolds
  <2>5. m \in Rect /\ m.left = j.left + a /\ m.right = j.right + a /\ m.top = j.top + 0 /\ m.bottom = j.bottom + 0
    <3> HIDE DEF j, a
    <3>1. a \in Int /\ 0 \in Int BY <2>2
    <3> QED BY <2>4, <3>1, MovedIs
  <2>6. r = Hull(i, m) BY InkUnfolds
  <2>7. /\ r.left \in {i.left, m.left} /\ r.right \in {i.right, m.right}
        /\ r.top \in {i.top, m.top} /\ r.bottom \in {i.bottom, m.bottom}
    <3> HIDE DEF i, m, r
    <3> QED BY <2>3, <2>5, <2>6, HullIs
  <2>8. Advance[s] = a + w /\ w \in Nat BY <2>1, AdvanceUnfolds
  <2>9. j.top >= -32 /\ j.bottom <= 5 BY DEF InkIn
  <2>10. /\ j.left \in Int /\ j.right \in Int /\ j.top \in Int /\ j.bottom \in Int
         /\ i.left \in Int /\ i.right \in Int /\ i.top \in Int /\ i.bottom \in Int
    BY <2>3, <2>4 DEF Rect
  <2>11. r.top >= -32 /\ r.bottom <= 5
    <3> HIDE DEF i, j, m, r
    <3> QED BY <2>3, <2>5, <2>7, <2>9, <2>10
  <2>12. j.left >= -1
    <3>1. CASE t = <<>> BY <3>1 DEF InkIn
    <3>2. CASE t # <<>>
      <4>1. j.left >= Glyph[Head(t)].x BY <3>2 DEF InkIn
      <4>2. Head(t) \in DOMAIN Glyph BY <1>1, <2>1, <3>2
      <4>3. Glyph[Head(t)].x \in Int /\ Glyph[Head(t)].x >= -1 BY <4>2, GlyphIs
      <4> DEFINE k == Glyph[Head(t)].x
      <4> HIDE DEF j, k
      <4>4. k \in Int /\ k >= -1 /\ j.left >= k BY <4>1, <4>3 DEF k
      <4> QED BY <2>10, <4>4
    <3> QED BY <3>1, <3>2
  <2>13. r.left >= x
    <3> HIDE DEF i, j, m, r, x, a
    <3> QED BY <2>2, <2>3, <2>5, <2>7, <2>10, <2>12
  <2> DEFINE b == Beyond(Last(s))
  <2>15. a \in Nat /\ e \in Int /\ e <= a /\ w \in Nat /\ i.right \in Int /\ j.right \in Int BY <2>2, <2>8, <2>10
  <2>16. i.right <= e /\ (r.right = i.right \/ r.right = j.right + a)
    <3> HIDE DEF i, j, m, r, x, a, w, b, e
    <3> QED BY <2>3, <2>5, <2>7
  <2>14. r.right <= a + w - 1 + b
    <3>1. CASE t = <<>>
      <4>1. Last(s) = c
        <5> DEFINE D == DOMAIN Glyph
        <5>1. s \in Seq(D) BY <1>1
        <5> HIDE DEF D
        <5>2. s # <<>> /\ Tail(s) = <<>> BY <3>1
        <5>3. Len(Tail(s)) = Len(s) - 1 /\ Len(s) \in Nat BY <5>1, <5>2
        <5>4. Len(s) = 1 BY <5>2, <5>3
        <5> QED BY <5>1, <5>2, <5>4 DEF Last
      <4>2. x + g.width <= a + b /\ b \in Int /\ 0 <= b BY <2>1, <4>1, BeyondIs
      <4>3. j.right <= -1 BY <3>1 DEF InkIn
      <4>4. g.width \in Nat BY <2>1, GlyphIs
      <4>5. e <= a - 1 + b
        <5> DEFINE k == g.width
        <5>1. k \in Int BY <4>4
        <5> HIDE DEF x, a, b, g, k
        <5>2. x + k <= a + b BY <4>2 DEF k
        <5> QED BY <2>2, <4>2, <5>1, <5>2 DEF k
      <4>6. b \in Int /\ 0 <= b BY <4>2
      <4>7. j.right <= -1 BY <4>3
      <4> HIDE DEF i, j, m, r, x, a, w, b, e
      <4> QED BY <2>15, <2>16, <4>5, <4>6, <4>7
    <3>2. CASE t # <<>>
      <4>1. Last(s) = Last(t) BY <1>1, <3>2 DEF Last
      <4>2. Last(t) \in DOMAIN Glyph /\ Head(t) \in DOMAIN Glyph /\ Tail(t) \in Line
        BY <1>1, <2>1, <3>2 DEF Last
      <4>3. b \in Int /\ 0 <= b BY <4>1, <4>2, BeyondIs
      <4>4. j.right <= w - 1 + b BY <3>2, <4>1 DEF InkIn
      <4>5. w >= 7
        <5>1. w = Glyph[Head(t)].advance + Advance[Tail(t)] BY <2>1, <3>2, AdvanceUnfolds
        <5>2. Glyph[Head(t)].advance \in Nat /\ Glyph[Head(t)].advance >= 7 BY <4>2, GlyphIs
        <5>3. Advance[Tail(t)] \in Nat BY <4>2, AdvanceUnfolds
        <5> DEFINE k == Glyph[Head(t)].advance
                   l == Advance[Tail(t)]
        <5>4. w = k + l /\ k \in Nat /\ k >= 7 /\ l \in Nat BY <5>1, <5>2, <5>3
        <5> HIDE DEF w, k, l
        <5> QED BY <5>4
      <4> HIDE DEF i, j, m, r, x, a, w, b, e
      <4> QED BY <2>15, <2>16, <4>3, <4>4, <4>5
    <3> QED BY <3>1, <3>2
  <2>17. r.right <= Advance[s] - 1 + b
    <3>1. b \in Int
      <4>1. Last(s) \in DOMAIN Glyph BY OverhangIs
      <4> QED BY <4>1, BeyondIs
    <3>2. r.right \in Int BY <2>2, <2>15, <2>16
    <3> HIDE DEF r, a, w, b
    <3> QED BY <2>8, <2>14, <2>15, <3>1, <3>2
  <2> QED BY <2>11, <2>13, <2>17 DEF InkIn
<1>4. Line \subseteq Good
  <2> HIDE DEF Good
  <2> QED BY <1>1, <1>2, <1>3, SeqDescent
<1> QED BY <1>4

(***************************************************************************)
(* The ink of a line is no wider than the line and its overhang.           *)
(***************************************************************************)
LEMMA InkFits ==
  ASSUME NEW line \in Line, line # <<>>
  PROVE  /\ InkOf[line] \in Rect /\ InkWidth(InkOf[line]) \in Int
         /\ InkOf[line].top >= -32 /\ InkOf[line].bottom <= 5
         /\ InkWidth(InkOf[line]) <= Advance[line] + Overhang(line)
<1> DEFINE r == InkOf[line]
           p == Before(Head(line))
           q == Beyond(Last(line))
           x == Glyph[Head(line)].x
           w == Advance[line]
<1>1. r \in Rect BY InkUnfolds
<1>2. r.left \in Int /\ r.right \in Int BY <1>1 DEF Rect
<1>3. r.top >= -32 /\ r.bottom <= 5 /\ r.left >= x /\ r.right <= w - 1 + q BY InkStays DEF InkIn
<1>4. Overhang(line) = p + q /\ Head(line) \in DOMAIN Glyph /\ Last(line) \in DOMAIN Glyph BY OverhangIs
<1>5. p \in Int /\ q \in Int /\ -p <= x BY <1>4, BeyondIs
<1>6. x \in Int BY <1>4, GlyphIs
<1>7. w \in Nat BY AdvanceUnfolds
<1> HIDE DEF r, p, q, x, w
<1>8. r.right - r.left + 1 \in Int /\ r.right - r.left + 1 <= w + (p + q) BY <1>2, <1>3, <1>5, <1>6, <1>7
<1> QED BY <1>1, <1>3, <1>4, <1>8 DEF r, w, InkWidth

(***************************************************************************)
(* A line's ink, at its place in the caption.                              *)
(***************************************************************************)
LEMMA InkOfLines ==
  ASSUME NEW lines \in Seq(CaptionLine), Len(lines) \in 1..3
  PROVE  /\ DOMAIN Ink(lines) = DOMAIN lines
         /\ \A n \in DOMAIN lines :
              LET r == Ink(lines)[n]
              IN  /\ r \in Rect /\ InkWidth(r) \in Int
                  /\ r.top >= 41 * (n - 1) - 32 /\ r.bottom <= 41 * (n - 1) + 5
                  /\ InkWidth(r) <= Advance[lines[n]] + Overhang(lines[n])
                  /\ InkWidth(r) <= 990 /\ r.top >= -32 /\ r.bottom <= 87
<1>1. DOMAIN Ink(lines) = DOMAIN lines BY DEF Ink
<1>2. SUFFICES ASSUME NEW n \in DOMAIN lines
               PROVE  LET r == Ink(lines)[n]
                      IN  /\ r \in Rect /\ InkWidth(r) \in Int
                          /\ r.top >= 41 * (n - 1) - 32 /\ r.bottom <= 41 * (n - 1) + 5
                          /\ InkWidth(r) <= Advance[lines[n]] + Overhang(lines[n])
                          /\ InkWidth(r) <= 990 /\ r.top >= -32 /\ r.bottom <= 87
  BY <1>1
<1> DEFINE line == lines[n]
           i == InkOf[line]
           d == (n - 1) * LineHeight
           r == Moved(i, 0, d)
<1>3. n \in Nat /\ 1 <= n /\ n <= 3 OBVIOUS
<1>4. line \in CaptionLine OBVIOUS
<1>5. line \in Line /\ line # <<>> /\ Advance[line] <= 988 BY <1>4, WidthIs DEF CaptionLine
<1>6. /\ i \in Rect /\ InkWidth(i) \in Int /\ i.top >= -32 /\ i.bottom <= 5
      /\ InkWidth(i) <= Advance[line] + Overhang(line)
  BY <1>5, InkFits
<1>7. d = 41 * (n - 1) /\ d \in Int /\ 0 <= d /\ d <= 82 BY <1>3 DEF LineHeight
<1>8. Ink(lines)[n] = r BY DEF Ink
<1>9. Overhang(line) \in Int /\ Overhang(line) <= 2 /\ Advance[line] \in Nat
  <2>1. /\ Overhang(line) = Before(Head(line)) + Beyond(Last(line))
        /\ Head(line) \in DOMAIN Glyph /\ Last(line) \in DOMAIN Glyph
    BY <1>5, OverhangIs
  <2> DEFINE c == Head(line)
             e == Last(line)
  <2> HIDE DEF c, e, line
  <2>2. Before(c) \in Int /\ Before(c) <= 1
    <3> DEFINE x == Glyph[c].x
               k == -x
    <3>1. c \in DOMAIN Glyph BY <2>1 DEF c
    <3>2. x \in Int /\ -1 <= x BY <3>1, GlyphIs
    <3> HIDE DEF x
    <3>3. k \in Int /\ k <= 1 /\ 0 \in Int BY <3>2
    <3> HIDE DEF k
    <3>4. Max({0, k}) \in Int /\ Max({0, k}) \in {0, k} BY <3>3, OfTwo
    <3>5. Max({0, k}) <= 1 BY <3>3, <3>4
    <3> QED BY <3>4, <3>5 DEF Before, k, x
  <2>3. Beyond(e) \in Int /\ Beyond(e) <= 1
    <3> DEFINE x == Glyph[e].x
               w == Glyph[e].width
               a == Glyph[e].advance
               k == x + w - a
    <3>1. e \in DOMAIN Glyph BY <2>1 DEF e
    <3>2. x \in Int /\ w \in Int /\ a \in Int /\ x + w <= a + 1 BY <3>1, GlyphIs
    <3> HIDE DEF x, w, a
    <3>3. k \in Int /\ k <= 1 /\ 0 \in Int BY <3>2
    <3> HIDE DEF k
    <3>4. Max({0, k}) \in Int /\ Max({0, k}) \in {0, k} BY <3>3, OfTwo
    <3>5. Max({0, k}) <= 1 BY <3>3, <3>4
    <3> QED BY <3>4, <3>5 DEF Beyond, k, x, w, a
  <2>4. Advance[line] \in Nat BY <1>5, AdvanceUnfolds
  <2>5. Overhang(line) = Before(c) + Beyond(e) BY <2>1 DEF c, e
  <2> QED BY <2>2, <2>3, <2>4, <2>5
<1>10. /\ r \in Rect /\ r.left = i.left + 0 /\ r.right = i.right + 0
       /\ r.top = i.top + d /\ r.bottom = i.bottom + d
  <2> HIDE DEF i, d
  <2>1. 0 \in Int OBVIOUS
  <2> QED BY <1>6, <1>7, <2>1, MovedIs
<1>11. i.left \in Int /\ i.right \in Int /\ i.top \in Int /\ i.bottom \in Int BY <1>6 DEF Rect
<1>12. InkWidth(r) = InkWidth(i)
  <2>1. r.left = i.left /\ r.right = i.right
    <3> HIDE DEF r, i, d
    <3> QED BY <1>10, <1>11
  <2> QED BY <2>1 DEF InkWidth
<1> HIDE DEF r, i, d, line
<1>13. r.top >= 41 * (n - 1) - 32 /\ r.bottom <= 41 * (n - 1) + 5 /\ r.top >= -32 /\ r.bottom <= 87
  <2> DEFINE z == 41 * (n - 1)
  <2>1. z \in Int /\ d = z /\ 0 <= d /\ d <= 82 BY <1>3, <1>7
  <2>2. i.top \in Int /\ i.bottom \in Int /\ i.top >= -32 /\ i.bottom <= 5 BY <1>6, <1>11
  <2>3. r.top = i.top + d /\ r.bottom = i.bottom + d BY <1>10
  <2> HIDE DEF z
  <2>4. r.top >= z - 32 /\ r.bottom <= z + 5 /\ r.top >= -32 /\ r.bottom <= 87 BY <2>1, <2>2, <2>3
  <2> QED BY <2>4 DEF z
<1>14. InkWidth(i) <= 990 BY <1>5, <1>6, <1>9
<1> QED BY <1>6, <1>8, <1>10, <1>12, <1>13, <1>14 DEF line

(***************************************************************************)
(* The measures of a caption.                                              *)
(***************************************************************************)
LEMMA MetricsAre ==
  ASSUME NEW lines \in Seq(CaptionLine), Len(lines) \in 1..3
  PROVE  LET ink == Ink(lines)
             m == Metrics(ink)
         IN  /\ m.widest \in Int /\ m.minY \in Int /\ m.height \in Int
             /\ m.width = 32 * ((m.widest + 67) \div 32)
             /\ \E n \in DOMAIN lines : m.widest = InkWidth(ink[n])
             /\ \A n \in DOMAIN lines : InkWidth(ink[n]) <= m.widest
             /\ \A n \in DOMAIN lines : m.minY <= ink[n].top /\ ink[n].bottom <= m.height + m.minY - 21
             /\ m.height <= 140
<1> DEFINE ink == Ink(lines)
           D == DOMAIN lines
           W == {InkWidth(ink[n]) : n \in D}
           T == {ink[n].top : n \in D}
           B == {ink[n].bottom : n \in D}
           widest == Max(W)
           minY == Min(T)
           maxY == Max(B)
<1>1. /\ DOMAIN ink = D
      /\ \A n \in D : /\ ink[n] \in Rect /\ InkWidth(ink[n]) \in Int
                      /\ InkWidth(ink[n]) <= 990 /\ ink[n].top >= -32 /\ ink[n].bottom <= 87
  BY InkOfLines
<1>2. 1 \in D OBVIOUS
<1>3. \A n \in D : ink[n].top \in Int /\ ink[n].bottom \in Int BY <1>1 DEF Rect
<1>4. /\ Metrics(ink).widest = widest /\ Metrics(ink).minY = minY
      /\ Metrics(ink).width = 32 * ((widest + 2 * 18 + 31) \div 32)
      /\ Metrics(ink).height = maxY - minY + 1 + 2 * 10
  <2> HIDE DEF ink
  <2> QED BY <1>1 DEF Metrics, PadX, PadY
<1> HIDE DEF ink, D
<1>5. widest \in W /\ \A x \in W : x <= widest
  <2> DEFINE b == 990
  <2>1. W \subseteq Int /\ W # {} /\ b \in Int /\ \A x \in W : x <= b BY <1>1, <1>2
  <2> HIDE DEF W, b
  <2>2. Max(W) \in W /\ \A x \in W : x <= Max(W) BY <2>1, LargestIs
  <2> QED BY <2>2
<1>6. minY \in T /\ \A x \in T : minY <= x
  <2>1. T \subseteq Int /\ T # {} /\ -32 \in Int /\ \A x \in T : -32 <= x BY <1>1, <1>2, <1>3
  <2> HIDE DEF T
  <2> QED BY <2>1, SmallestIs
<1>7. maxY \in B /\ \A x \in B : x <= maxY
  <2>1. B \subseteq Int /\ B # {} /\ 87 \in Int /\ \A x \in B : x <= 87 BY <1>1, <1>2, <1>3
  <2> HIDE DEF B
  <2> QED BY <2>1, LargestIs
<1>8. /\ widest \in Int /\ minY \in Int /\ maxY \in Int /\ maxY <= 87 /\ minY >= -32
      /\ \E n \in D : widest = InkWidth(ink[n])
  <2> HIDE DEF widest, minY, maxY
  <2> QED BY <1>1, <1>3, <1>5, <1>6, <1>7
<1>9. \A n \in D : InkWidth(ink[n]) <= widest /\ minY <= ink[n].top /\ ink[n].bottom <= maxY
  <2> HIDE DEF widest, minY, maxY
  <2> QED BY <1>5, <1>6, <1>7
<1> DEFINE h == Metrics(ink).height
<1> HIDE DEF W, T, B, widest, minY, maxY
<1>10. widest + 2 * 18 + 31 = widest + 67 BY <1>8
<1>11. h = maxY - minY + 21 BY <1>4, <1>8
<1>12. h \in Int /\ h <= 140 /\ h + minY - 21 = maxY
  <2> HIDE DEF h
  <2> QED BY <1>8, <1>11
<1> QED BY <1>4, <1>8, <1>9, <1>10, <1>12 DEF D, ink

(***************************************************************************)
(* Where a line goes: between the paddings.                                *)
(***************************************************************************)
LEMMA HalfTheRest ==
  ASSUME NEW a \in Int, NEW b \in Int, b <= a
  PROVE  (a - b) \div 2 \in Int /\ 0 <= (a - b) \div 2 /\ (a - b) \div 2 <= a - b
OBVIOUS

LEMMA DrawnIs ==
  ASSUME NEW r \in Rect, NEW m, m.widest \in Int, m.minY \in Int, InkWidth(r) \in Int, InkWidth(r) <= m.widest
  PROVE  LET s == Drawn(r, m)
         IN  /\ s \in Rect /\ 18 <= s.left /\ s.right < 18 + m.widest
             /\ s.top = r.top + (10 - m.minY) /\ s.bottom = r.bottom + (10 - m.minY)
<1> DEFINE w == InkWidth(r)
           k == m.widest
           y == m.minY
           half == (k - w) \div 2
           dx == 18 + half - r.left
           dy == 10 - y
<1>1. r.left \in Int /\ r.right \in Int BY DEF Rect
<1>2. w = r.right - r.left + 1 BY DEF InkWidth
<1>3. w \in Int /\ k \in Int /\ y \in Int /\ w <= k OBVIOUS
<1> HIDE DEF w, k, y
<1>4. half \in Int /\ 0 <= half /\ half <= k - w BY <1>3, HalfTheRest
<1> HIDE DEF half
<1>5. dx \in Int /\ dy \in Int BY <1>1, <1>3, <1>4
<1>6. Drawn(r, m) = Moved(r, dx, dy) BY DEF Drawn, PadX, PadY, w, k, y, half
<1> DEFINE s == Moved(r, dx, dy)
<1>7. s \in Rect /\ s.left = r.left + dx /\ s.right = r.right + dx /\ s.top = r.top + dy /\ s.bottom = r.bottom + dy
  <2> HIDE DEF dx, dy
  <2> QED BY <1>5, MovedIs
<1>8. 18 <= s.left /\ s.right < 18 + k
  <2> HIDE DEF s
  <2> QED BY <1>1, <1>2, <1>3, <1>4, <1>7
<1> QED BY <1>6, <1>7, <1>8 DEF k, y

LEMMA Wide == ASSUME NEW w \in Int, w <= 988 PROVE 32 * ((w + 67) \div 32) <= 1024
OBVIOUS

(***************************************************************************)
(* A caption of one, two or three lines is drawn whole: inside its         *)
(* padding, no line over another, and refused only for a full line whose   *)
(* ink overhangs.                                                          *)
(***************************************************************************)
THEOREM LinesAreDrawn ==
  ASSUME NEW lines \in Seq(CaptionLine), Len(lines) \in 1..3
  PROVE  DrawnWhole(lines)
<1> DEFINE ink == Ink(lines)
           m == Metrics(ink)
           D == DOMAIN lines
<1>1. \A n \in D : /\ ink[n] \in Rect /\ InkWidth(ink[n]) \in Int
                   /\ ink[n].top >= 41 * (n - 1) - 32 /\ ink[n].bottom <= 41 * (n - 1) + 5
                   /\ InkWidth(ink[n]) <= Advance[lines[n]] + Overhang(lines[n])
  BY InkOfLines
<1>2. /\ m.widest \in Int /\ m.minY \in Int /\ m.height \in Int
      /\ m.width = 32 * ((m.widest + 67) \div 32)
      /\ \E n \in D : m.widest = InkWidth(ink[n])
      /\ \A n \in D : InkWidth(ink[n]) <= m.widest
      /\ \A n \in D : m.minY <= ink[n].top /\ ink[n].bottom <= m.height + m.minY - 21
      /\ m.height <= 140
  BY MetricsAre
<1>3. \A n \in D : n \in Int /\ 1 <= n /\ (n > 1 => n - 1 \in D) OBVIOUS
<1>4. DOMAIN ink = D BY InkOfLines
<1> HIDE DEF ink, m, D
<1>5. \A n \in D : ink[n].top \in Int /\ ink[n].bottom \in Int BY <1>1 DEF Rect
<1>6. \A n \in D : LET s == Drawn(ink[n], m)
                   IN  /\ s \in Rect /\ 18 <= s.left /\ s.right < 18 + m.widest
                       /\ s.top = ink[n].top + (10 - m.minY) /\ s.bottom = ink[n].bottom + (10 - m.minY)
  BY <1>1, <1>2, DrawnIs
<1>7. ASSUME NEW n \in D
      PROVE  LET r == Drawn(ink[n], m)
             IN  /\ PadX <= r.left /\ r.right < PadX + m.widest
                 /\ PadY <= r.top /\ r.bottom < m.height - PadY
                 /\ n > 1 => Drawn(ink[n - 1], m).bottom < r.top
  <2> DEFINE s == Drawn(ink[n], m)
             t == ink[n].top
             b == ink[n].bottom
             y == m.minY
             h == m.height
  <2>1. 18 <= s.left /\ s.right < 18 + m.widest /\ s.top = t + (10 - y) /\ s.bottom = b + (10 - y) BY <1>6
  <2>2. t \in Int /\ b \in Int /\ y \in Int /\ h \in Int /\ y <= t /\ b <= h + y - 21 BY <1>2, <1>5
  <2>3. 10 <= s.top /\ s.bottom < h - 10
    <3> HIDE DEF s, t, b, y, h
    <3> QED BY <2>1, <2>2
  <2>4. ASSUME n > 1 PROVE Drawn(ink[n - 1], m).bottom < s.top
    <3> DEFINE k == n - 1
               c == ink[k].bottom
               u == Drawn(ink[k], m).bottom
    <3>1. k \in D /\ k \in Int BY <1>3, <2>4
    <3>2. c \in Int /\ c <= 41 * (k - 1) + 5 /\ u = c + (10 - y)
      <4> HIDE DEF k
      <4> QED BY <1>1, <1>5, <1>6, <3>1
    <3>3. t >= 41 * (n - 1) - 32 BY <1>1
    <3>4. n \in Int BY <1>3
    <3>5. u < s.top
      <4> HIDE DEF s, t, y, c, u
      <4> QED BY <2>1, <2>2, <3>2, <3>3, <3>4
    <3> QED BY <3>5
  <2> QED BY <2>1, <2>3, <2>4 DEF PadX, PadY
<1>8. Rendered(m) \/ \E n \in D : Overhangs(lines[n])
  <2>1. m.height <= 256 BY <1>2
  <2>2. CASE m.widest <= 988
    <3>1. m.width <= 1024 BY <1>2, <2>2, Wide
    <3> QED BY <2>1, <3>1 DEF Rendered, MaskWidth, MaskHeight
  <2>3. CASE m.widest > 988
    <3>1. PICK n \in D : m.widest = InkWidth(ink[n]) BY <1>2
    <3> DEFINE w == InkWidth(ink[n])
               a == Advance[lines[n]] + Overhang(lines[n])
    <3>2. w \in Int /\ w > 988 /\ w <= a BY <1>1, <2>3, <3>1
    <3>3. a \in Int
      <4>1. lines[n] \in CaptionLine BY DEF D
      <4>2. lines[n] \in Line /\ lines[n] # <<>> BY <4>1 DEF CaptionLine
      <4>3. Advance[lines[n]] \in Int BY <4>2, AdvanceUnfolds
      <4>4. Overhang(lines[n]) \in Int
        <5>1. /\ Overhang(lines[n]) = Before(Head(lines[n])) + Beyond(Last(lines[n]))
              /\ Before(Head(lines[n])) \in Int /\ Beyond(Last(lines[n])) \in Int
          BY <4>2, OverhangIs, BeyondIs
        <5> QED BY <5>1
      <4> QED BY <4>3, <4>4
    <3> HIDE DEF w, a
    <3>4. a > 988 BY <3>2, <3>3
    <3>5. Overhangs(lines[n]) BY <3>4, WidthIs DEF Overhangs, a
    <3> QED BY <3>5
  <2> QED BY <1>2, <2>2, <2>3
<1> QED BY <1>7, <1>8 DEF DrawnWhole, ink, m, D

(***************************************************************************)
(* The last lines of a text.                                               *)
(***************************************************************************)
LEMMA TailIs ==
  ASSUME NEW lines \in Seq(CaptionLine), NEW n \in 1..3
  PROVE  /\ AppendTail(lines, n) \in Seq(CaptionLine) /\ Len(AppendTail(lines, n)) <= n
         /\ lines # <<>> => Len(AppendTail(lines, n)) >= 1
<1> DEFINE l == Len(lines)
           k == (l - n) + 1
           f == Max({1, k})
<1>1. l \in Nat /\ n \in Nat /\ 1 <= n /\ (lines # <<>> => l >= 1) OBVIOUS
<1> HIDE DEF l
<1>2. k \in Int /\ 1 \in Int BY <1>1
<1>3. f \in Int /\ 1 <= f /\ k <= f /\ f \in {1, k}
  <2> DEFINE b == 1
  <2> HIDE DEF k, b
  <2>1. b \in Int /\ k \in Int BY <1>2 DEF b
  <2>2. Max({b, k}) \in Int /\ b <= Max({b, k}) /\ k <= Max({b, k}) /\ Max({b, k}) \in {b, k} BY <2>1, OfTwo
  <2> QED BY <2>2 DEF b
<1>4. AppendTail(lines, n) = SubSeq(lines, f, l) BY DEF AppendTail, l
<1> HIDE DEF f
<1>5. f <= l + 1 BY <1>1, <1>2, <1>3
<1>6. /\ SubSeq(lines, f, l) \in Seq(CaptionLine)
      /\ Len(SubSeq(lines, f, l)) = IF f <= l THEN (l - f) + 1 ELSE 0
  <2>1. \A i \in f..l : lines[i] \in CaptionLine BY <1>1, <1>3 DEF l
  <2> QED BY <1>1, <1>3, <2>1, SubSeqProperties DEF l
<1>7. ((l - f) + 1 <= n) /\ (lines # <<>> => f <= l)
  <2>1. (l - f) + 1 <= n BY <1>1, <1>2, <1>3
  <2>2. ASSUME lines # <<>> PROVE f <= l BY <1>1, <1>3, <2>2
  <2> QED BY <2>1, <2>2
<1> QED BY <1>1, <1>3, <1>4, <1>6, <1>7

LEMMA TailLen ==
  \A lines \in Seq(CaptionLine) : \A n \in 1..3 :
    /\ AppendTail(lines, n) \in Seq(CaptionLine) /\ Len(AppendTail(lines, n)) \in 0..n
    /\ lines # <<>> => Len(AppendTail(lines, n)) \in 1..n
<1> SUFFICES ASSUME NEW lines \in Seq(CaptionLine), NEW n \in 1..3
             PROVE  /\ AppendTail(lines, n) \in Seq(CaptionLine) /\ Len(AppendTail(lines, n)) \in 0..n
                    /\ lines # <<>> => Len(AppendTail(lines, n)) \in 1..n
  OBVIOUS
<1> DEFINE t == AppendTail(lines, n)
<1>1. t \in Seq(CaptionLine) /\ Len(t) <= n /\ (lines # <<>> => Len(t) >= 1) BY TailIs
<1> HIDE DEF t
<1> QED BY <1>1 DEF t

(***************************************************************************)
(* Whatever two texts the slots hold, if there is a word in the current    *)
(* one, their caption is drawn whole.                                      *)
(***************************************************************************)
THEOREM CaptionsAreDrawn ==
  ASSUME NEW earlier \in Seq(Char), NEW text \in Seq(Char), Words(text) # <<>>
  PROVE  DrawnWhole(Visible(earlier, text))
<1> DEFINE now == Wrap(Words(text))
           was == Wrap(Words(earlier))
<1>1. now \in Seq(CaptionLine) /\ now # <<>> BY WordsAre, WrapIs
<1>2. was \in Seq(CaptionLine) BY WordsAre, WrapIs
<1> HIDE DEF now, was
<1>5. 1 \in 1..3 /\ 2 \in 1..3 /\ 3 \in 1..3 OBVIOUS
<1>3. CASE earlier = <<>>
  <2> DEFINE lines == AppendTail(now, 3)
  <2>1. lines \in Seq(CaptionLine) /\ Len(lines) \in 1..3 BY <1>1, <1>5, TailLen
  <2>2. Visible(earlier, text) = lines BY <1>3 DEF Visible, now
  <2> HIDE DEF lines
  <2> QED BY <2>1, <2>2, LinesAreDrawn
<1>4. CASE earlier # <<>>
  <2> DEFINE a == AppendTail(was, 1)
             b == AppendTail(now, 2)
             lines == a \o b
  <2>1. a \in Seq(CaptionLine) /\ Len(a) \in 0..1 BY <1>2, <1>5, TailLen
  <2>2. b \in Seq(CaptionLine) /\ Len(b) \in 1..2 BY <1>1, <1>5, TailLen
  <2>3. Visible(earlier, text) = lines BY <1>4 DEF Visible, was, now
  <2> HIDE DEF a, b
  <2>4. lines \in Seq(CaptionLine) /\ Len(lines) = Len(a) + Len(b) BY <2>1, <2>2, ConcatProperties
  <2>5. Len(lines) \in 1..3
    <3> DEFINE k == Len(a)
               l == Len(b)
    <3>1. k \in 0..1 /\ l \in 1..2 /\ Len(lines) = k + l BY <2>1, <2>2, <2>4
    <3> HIDE DEF lines, k, l
    <3>2. k + l \in 1..3 BY <3>1
    <3> QED BY <3>1, <3>2, Zenon
  <2> HIDE DEF lines
  <2> QED BY <2>3, <2>4, <2>5, LinesAreDrawn
<1> QED BY <1>3, <1>4

-----------------------------------------------------------------------------
(***************************************************************************)
(* The texts the run looks at are such texts.                              *)
(***************************************************************************)
Begins(t) == t \in Seq(Char) /\ t # <<>> /\ Sanitize(Head(t)) # <<"sp">>

LEMMA BeginsOn ==
  ASSUME NEW w, Begins(w), NEW s \in Seq(Char)
  PROVE  Begins(w \o s)
<1>1. w \o s \in Seq(Char) /\ w \o s # <<>> /\ Head(w \o s) = Head(w) BY DEF Begins
<1> QED BY <1>1 DEF Begins

LEMMA BeginsOne ==
  ASSUME NEW c \in InkGlyph \cup {"curly"}
  PROVE  Begins(<<c>>)
<1>1. c \in Char BY Glyphs DEF InkGlyph, Char
<1>2. Sanitize(c) # <<"sp">> BY Glyphs DEF Sanitize, InkGlyph
<1> QED BY <1>1, <1>2 DEF Begins

LEMMA Repeated ==
  ASSUME NEW c \in InkGlyph, NEW n \in Nat \ {0}
  PROVE  Rep(c, n) \in Seq(Char) /\ Begins(Rep(c, n))
<1>1. c \in Char BY Glyphs DEF InkGlyph, Char
<1>2. Rep(c, n) \in Seq(Char) /\ Rep(c, n) # <<>> /\ Head(Rep(c, n)) = c BY <1>1 DEF Rep
<1>3. Sanitize(c) # <<"sp">> BY BeginsOne DEF Begins
<1> QED BY <1>2, <1>3 DEF Begins

LEMMA SampleWordsBegin == \A w \in SampleWords : Begins(w)
<1>1. /\ "i" \in InkGlyph /\ "bar" \in InkGlyph /\ "Aacute" \in InkGlyph /\ "j" \in InkGlyph
      /\ "m" \in InkGlyph /\ "T" \in InkGlyph /\ "W" \in InkGlyph /\ "iacute" \in InkGlyph
  BY Glyphs DEF InkGlyph
<1>2. /\ "i" \in Char /\ "Aacute" \in Char /\ "iacute" \in Char /\ "dash" \in Char /\ "ellipsis" \in Char
  BY <1>1, Glyphs DEF InkGlyph, Char
<1>3. Begins(<<"i">>) BY <1>1, BeginsOne
<1>4. Begins(<<"bar", "Aacute">>)
  <2>1. Begins(<<"bar">>) BY <1>1, BeginsOne
  <2>2. Sanitize("bar") # <<"sp">> /\ "bar" \in Char
    <3> DEFINE b == "bar"
    <3> HIDE DEF b
    <3>1. Begins(<<b>>) BY <2>1 DEF b
    <3>2. Sanitize(b) # <<"sp">> /\ b \in Char BY <3>1 DEF Begins
    <3> QED BY <3>2 DEF b
  <2> QED BY <1>2, <2>2 DEF Begins
<1>5. Begins(<<"j">> \o Rep("m", 34) \o <<"dash">>)
  <2>1. Begins(<<"j">>) /\ Rep("m", 34) \in Seq(Char) /\ <<"dash">> \in Seq(Char) BY <1>1, <1>2, BeginsOne, Repeated
  <2>2. Begins(<<"j">> \o Rep("m", 34)) BY <2>1, BeginsOn
  <2> QED BY <2>1, <2>2, BeginsOn
<1>6. Begins(Rep("m", 35) \o <<"i">>)
  <2>1. Begins(Rep("m", 35)) /\ <<"i">> \in Seq(Char) BY <1>1, <1>2, Repeated
  <2> QED BY <2>1, BeginsOn
<1>7. Begins(<<"T">> \o Rep("m", 34) \o <<"i", "iacute">>)
  <2>1. Begins(<<"T">>) /\ Rep("m", 34) \in Seq(Char) /\ <<"i", "iacute">> \in Seq(Char)
    BY <1>1, <1>2, BeginsOne, Repeated
  <2>2. Begins(<<"T">> \o Rep("m", 34)) BY <2>1, BeginsOn
  <2> QED BY <2>1, <2>2, BeginsOn
<1>8. Begins(<<"curly">> \o Rep("W", 14))
  <2>1. Begins(<<"curly">>) /\ Rep("W", 14) \in Seq(Char) BY <1>1, BeginsOne, Repeated
  <2> QED BY <2>1, BeginsOn
<1>9. Begins(<<"j">> \o Rep("W", 28))
  <2>1. Begins(<<"j">>) /\ Rep("W", 28) \in Seq(Char) BY <1>1, BeginsOne, Repeated
  <2> QED BY <2>1, BeginsOn
<1>10. Begins(Rep("W", 60) \o <<"ellipsis">>)
  <2>1. Begins(Rep("W", 60)) /\ <<"ellipsis">> \in Seq(Char) BY <1>1, <1>2, Repeated
  <2> QED BY <2>1, BeginsOn
<1> QED BY <1>3, <1>4, <1>5, <1>6, <1>7, <1>8, <1>9, <1>10, Zenon DEF SampleWords

Spaced(w, s, v) == w \o s \o v
Thrice(w, v, u) == w \o <<"sp">> \o v \o <<"sp">> \o u

Spacing == {<<"sp">>, <<"sp", "foreign">>, <<"i", "foreign", "W">>}
Short == {w \in SampleWords : Len(w) < 40}

LEMMA SampleTextsAre ==
  SampleTexts = {Spaced(w, s, v) : w \in SampleWords, v \in SampleWords, s \in Spacing} \cup
                {Thrice(w, v, u) : w, v, u \in Short} \cup SampleWords
BY DEF SampleTexts, Spaced, Thrice, Spacing, Short

LEMMA SamplesBegin == \A t \in SampleTexts : Begins(t)
<1>1. <<"sp">> \in Seq(Char) /\ <<"sp", "foreign">> \in Seq(Char) /\ <<"i", "foreign", "W">> \in Seq(Char)
  <2>1. "sp" \in Char /\ "i" \in Char /\ "W" \in Char /\ "foreign" \in Char BY Glyphs DEF Char
  <2> QED BY <2>1
<1>2. \A w, v \in SampleWords : \A s \in Spacing : Begins(Spaced(w, s, v))
  <2> SUFFICES ASSUME NEW w \in SampleWords, NEW v \in SampleWords,
                      NEW s \in Spacing
               PROVE Begins(w \o s \o v)
    BY DEF Spaced
  <2>1. s \in Seq(Char) BY <1>1 DEF Spacing
  <2>2. Begins(w) /\ v \in Seq(Char) BY SampleWordsBegin DEF Begins
  <2>3. Begins(w \o s) BY <2>1, <2>2, BeginsOn
  <2> QED BY <2>2, <2>3, BeginsOn
<1>3. \A w, v, u \in Short : Begins(Thrice(w, v, u))
  <2> SUFFICES ASSUME NEW w \in Short, NEW v \in Short, NEW u \in Short
               PROVE Begins(w \o <<"sp">> \o v \o <<"sp">> \o u)
    BY DEF Thrice
  <2>1. Begins(w) /\ v \in Seq(Char) /\ u \in Seq(Char) BY SampleWordsBegin DEF Begins, Short
  <2>2. Begins(w \o <<"sp">>) BY <1>1, <2>1, BeginsOn
  <2>3. Begins(w \o <<"sp">> \o v) BY <2>1, <2>2, BeginsOn
  <2>4. Begins(w \o <<"sp">> \o v \o <<"sp">>) BY <1>1, <2>3, BeginsOn
  <2> QED BY <2>1, <2>4, BeginsOn
<1> QED BY <1>2, <1>3, SampleWordsBegin, SampleTextsAre

LEMMA SamplesDrawn == SinglesDrawn /\ PairsDrawn
<1>1. ASSUME NEW t, Begins(t), NEW p \in Seq(Char) PROVE DrawnWhole(Visible(p, t))
  <2>1. t \in Seq(Char) /\ Words(t) # <<>> BY <1>1, WordsAre DEF Begins
  <2> QED BY <2>1, CaptionsAreDrawn
<1>2. \A t \in Singles : t \in Seq(Char) /\ Begins(t) BY SamplesBegin DEF Singles, Begins
<1>3. \A w \in SampleWords : w \in Seq(Char) BY SampleWordsBegin DEF Begins
<1>4. <<>> \in Seq(Char) OBVIOUS
<1>5. SinglesDrawn BY <1>1, <1>2, <1>4, EveryTextIsWrapped, Zenon DEF SinglesDrawn
<1>6. PairsDrawn
  <2> SUFFICES ASSUME NEW p \in SampleWords, NEW c \in Singles PROVE DrawnWhole(Visible(p, c))
    BY DEF PairsDrawn
  <2> QED BY <1>1, <1>2, <1>3
<1> QED BY <1>5, <1>6

-----------------------------------------------------------------------------
(***************************************************************************)
(* The records that stand for a pipeline, and the captions it may be given.*)
(***************************************************************************)
Size == [width : Field, height : Field]

Box == [width : Field, height : Field, x : Field, y : Field]

Pipeline(Cells, Word) ==
  [initialized : BOOLEAN, platformReady : BOOLEAN, ok : BOOLEAN, display : Size, box : Box,
   pos : Nat, size : Nat, control : SUBSET {"ENABLE", "SOF"},
   mask : [Cells -> Word], shadow : [Cells -> Word]]

CaptionOn(Cells, Word) ==
  [kind : {"none", "refused", "drawn"}, width : Nat, height : Nat,
   bitmap : UNION {[D -> Word] : D \in SUBSET Cells}]

LEMMA Digits ==
  ASSUME NEW high \in Nat, NEW low \in Nat, low < 65536
  PROVE  /\ low % 65536 = low
         /\ (65536 * high + low) \div 65536 = high /\ (65536 * high + low) % 65536 = low
OBVIOUS

LEMMA Halves ==
  ASSUME NEW w \in Nat, NEW b \in Nat, b <= w
  PROVE  (w - b) \div 2 \in Nat /\ (w - b) \div 2 + b <= w
OBVIOUS

LEMMA Twentieth == ASSUME NEW h \in Nat PROVE h \div 20 \in Nat
OBVIOUS

LEMMA MaxIsNat == FieldMax \in Nat
BY DEF FieldMax

LEMMA InField == /\ \A n \in Field : n \in Nat /\ n <= FieldMax
                 /\ \A n \in Nat : n <= FieldMax => n \in Field
BY MaxIsNat DEF Field

(***************************************************************************)
(* Two fields packed into a register come back as they were.               *)
(***************************************************************************)
LEMMA Unpacked ==
  ASSUME NEW high \in Field, NEW low \in Field
  PROVE  /\ Pack(high, low) \in Nat
         /\ High(Pack(high, low)) = high /\ Low(Pack(high, low)) = low
<1>1. high \in Nat /\ low \in Nat /\ low < 65536
  BY InField DEF FieldMax
<1>2. Pack(high, low) = 65536 * high + low
  BY <1>1, Digits DEF Pack
<1>3. 65536 * high + low \in Nat
  BY <1>1
<1>4. QED
  BY <1>1, <1>2, <1>3, Digits DEF High, Low

(***************************************************************************)
(* The bytes of a row are packed so that pixel i, which is bit             *)
(* 7 - i % 8 of its byte, becomes bit i of the word                        *)
(* (subtitle_bram_pack_word).                                              *)
(***************************************************************************)
THEOREM PixelOrder ==
  ASSUME NEW bytes, NEW i \in 0..31
  PROVE  PackWord(bytes)[i] = bytes[i \div 8][7 - (i % 8)]
<1>1. \A byte : \A k \in 0..7 : ReverseBits(byte)[k] = byte[7 - k]
  <2>1. ASSUME NEW byte, NEW k \in 0..7
        PROVE  ReverseBits(byte)[k] = byte[7 - k]
    <3> DEFINE byFour == SwapFields(byte, 4)
               byTwo == SwapFields(byFour, 2)
    <3>1. /\ byFour[0] = byte[4] /\ byFour[1] = byte[5] /\ byFour[2] = byte[6] /\ byFour[3] = byte[7]
          /\ byFour[4] = byte[0] /\ byFour[5] = byte[1] /\ byFour[6] = byte[2] /\ byFour[7] = byte[3]
      BY DEF SwapFields
    <3>2. /\ byTwo[0] = byFour[2] /\ byTwo[1] = byFour[3] /\ byTwo[2] = byFour[0] /\ byTwo[3] = byFour[1]
          /\ byTwo[4] = byFour[6] /\ byTwo[5] = byFour[7] /\ byTwo[6] = byFour[4] /\ byTwo[7] = byFour[5]
      <4> HIDE DEF byFour
      <4>1. QED  BY DEF SwapFields
    <3>3. LET r == ReverseBits(byte)
          IN  /\ r[0] = byTwo[1] /\ r[1] = byTwo[0] /\ r[2] = byTwo[3] /\ r[3] = byTwo[2]
              /\ r[4] = byTwo[5] /\ r[5] = byTwo[4] /\ r[6] = byTwo[7] /\ r[7] = byTwo[6]
      <4>1. ReverseBits(byte) = SwapFields(byTwo, 1)
        BY DEF ReverseBits
      <4> HIDE DEF byTwo
      <4>2. QED  BY <4>1 DEF SwapFields
    <3> HIDE DEF byFour, byTwo
    <3>4. QED
      BY <3>1, <3>2, <3>3
  <2>2. QED  BY <2>1
<1>2. i % 8 \in 0..7
  OBVIOUS
<1>3. PackWord(bytes)[i] = ReverseBits(bytes[i \div 8])[i % 8]
  BY DEF PackWord
<1>4. QED
  BY <1>1, <1>2, <1>3

-----------------------------------------------------------------------------
(***************************************************************************)
(* A box the display and the mask have room for is accepted by the         *)
(* registers, and lies on the display.                                     *)
(***************************************************************************)
LEMMA PlacedOnDisplay ==
  ASSUME NEW display \in Size, NEW box, box.width \in Nat, box.height \in Nat, BoxFits(display, box)
  PROVE  LET at == PlaceBox(display, box)
         IN  /\ at \in Box /\ at.width # 0 /\ at.height # 0
             /\ at.width = box.width /\ at.height = box.height
             /\ at.x + at.width <= display.width /\ at.y + at.height <= display.height
<1>1. /\ display.width \in Nat /\ display.width <= FieldMax
      /\ display.height \in Nat /\ display.height <= FieldMax
      /\ box.width >= 1 /\ box.width <= display.width
      /\ box.height >= 1 /\ box.height <= display.height
  BY InField DEF Size, BoxFits
<1>2. /\ (display.width - box.width) \div 2 \in Nat
      /\ (display.width - box.width) \div 2 + box.width <= display.width
  BY <1>1, Halves
<1>3. FromTop(display, box.height) \in Nat /\ FromTop(display, box.height) + box.height <= display.height
  <2>1. ASSUME NEW h \in Nat, NEW b \in Nat, NEW m \in Nat, b <= h
        PROVE  LET y == IF h > b + m THEN h - b - m ELSE 0 IN y \in Nat /\ y + b <= h
    BY <2>1
  <2>2. Margin(display) \in Nat
    BY <1>1, Twentieth DEF Margin
  <2>3. QED
    BY <1>1, <2>1, <2>2 DEF FromTop
<1>4. /\ box.width \in Field /\ box.height \in Field
      /\ (display.width - box.width) \div 2 \in Field /\ FromTop(display, box.height) \in Field
  <2>1. ASSUME NEW n \in Nat, NEW b \in Nat, NEW w \in Nat, n + b <= w, w <= FieldMax
        PROVE  n <= FieldMax /\ b <= FieldMax
    BY <2>1, MaxIsNat
  <2>2. QED
    BY <1>1, <1>2, <1>3, <2>1, InField, MaxIsNat
<1>5. QED
  BY <1>1, <1>2, <1>3, <1>4 DEF PlaceBox, Box

(***************************************************************************)
(* Wiping and filling: the mask holds the bitmap and nothing else, and the *)
(* shadow follows it.                                                      *)
(***************************************************************************)
LEMMA MaskFilled ==
  ASSUME NEW Cells, NEW Word, 0 \in Word, NEW p \in Pipeline(Cells, Word),
         NEW D \in SUBSET Cells, NEW bitmap \in [D -> Word]
  PROVE  LET q == WriteBitmap(ClearMask(p), bitmap)
         IN  /\ q \in Pipeline(Cells, Word) /\ q.ok /\ q.shadow = q.mask
             /\ \A k \in Cells : q.mask[k] = IF k \in D THEN bitmap[k] ELSE 0
             /\ q.pos = p.pos /\ q.size = p.size /\ q.display = p.display /\ q.box = p.box
             /\ (q.initialized <=> p.initialized) /\ (q.platformReady <=> p.platformReady)
             /\ q.control = p.control
<1> DEFINE c == ClearMask(p)
           words == [k \in Cells |-> IF k \in Changed(c, bitmap) THEN bitmap[k] ELSE 0]
<1>1. DOMAIN p.mask = Cells
  BY DEF Pipeline
<1>2. /\ c \in Pipeline(Cells, Word) /\ c.mask = [k \in Cells |-> 0] /\ c.shadow = [k \in Cells |-> 0]
      /\ c.pos = p.pos /\ c.size = p.size /\ c.display = p.display /\ c.box = p.box
      /\ (c.initialized <=> p.initialized) /\ (c.platformReady <=> p.platformReady)
      /\ c.control = p.control
  BY <1>1 DEF ClearMask, Pipeline
<1>3. Overlaid(c.mask, bitmap, Changed(c, bitmap)) = words
      /\ Overlaid(c.shadow, bitmap, Changed(c, bitmap)) = words
  <2> HIDE DEF c
  <2>1. QED  BY <1>2 DEF Overlaid
<1>4. \A k \in Cells : words[k] = IF k \in D THEN bitmap[k] ELSE 0
  <2> HIDE DEF c
  <2>1. DOMAIN bitmap = D  OBVIOUS
  <2>2. QED  BY <1>2, <2>1 DEF Changed
<1>5. words \in [Cells -> Word]
  <2>1. \A k \in Cells : words[k] \in Word  BY <1>4
  <2> HIDE DEF c
  <2>2. QED  BY <2>1
<1> HIDE DEF words
<1>6. c \in Pipeline(Cells, Word) /\ WriteBitmap(ClearMask(p), bitmap) = WriteBitmap(c, bitmap)
  BY <1>2
<1> HIDE DEF c
<1>7. WriteBitmap(c, bitmap) = [c EXCEPT !.mask = words, !.shadow = words, !.ok = TRUE]
  BY <1>3 DEF WriteBitmap
<1> DEFINE q == WriteBitmap(c, bitmap)
<1>8. /\ q \in Pipeline(Cells, Word) /\ q.ok /\ q.mask = words /\ q.shadow = words
      /\ q.pos = c.pos /\ q.size = c.size /\ q.display = c.display /\ q.box = c.box
      /\ (q.initialized <=> c.initialized) /\ (q.platformReady <=> c.platformReady)
      /\ q.control = c.control
  BY <1>5, <1>6, <1>7 DEF Pipeline
<1> HIDE DEF q
<1>9. WriteBitmap(ClearMask(p), bitmap) = q
  BY <1>6 DEF q
<1>10. QED
  BY <1>2, <1>4, <1>8, <1>9

-----------------------------------------------------------------------------
(***************************************************************************)
(* The default bar fits the registers, whatever the display.               *)
(***************************************************************************)
LEMMA DefaultBoxFits ==
  ASSUME NEW display \in Size
  PROVE  LET box == DefaultBox(display) IN box \in Box /\ box.width # 0 /\ box.height # 0
<1>1. /\ display.width \in Nat /\ display.width <= FieldMax
      /\ display.height \in Nat /\ display.height <= FieldMax
  BY InField DEF Size
<1>2. \A n \in Nat : n <= FieldMax => (n * 4) \div 5 \in Nat /\ (n * 4) \div 5 <= FieldMax
                                      /\ n \div 6 \in Nat /\ n \div 6 <= FieldMax
  BY DEF FieldMax
<1> DEFINE width == AtLeast((display.width * 4) \div 5, MaskWidth)
           height == AtLeast(display.height \div 6, MaskHeight)
           x == IF display.width > width THEN (display.width - width) \div 2 ELSE 0
<1>3. /\ width \in Nat /\ 0 < width /\ width <= FieldMax
      /\ height \in Nat /\ 0 < height /\ height <= FieldMax
  <2>1. \A a, b \in Nat : a <= FieldMax /\ 0 < b /\ b <= 1024 =>
          AtLeast(a, b) \in Nat /\ 0 < AtLeast(a, b) /\ AtLeast(a, b) <= FieldMax
    BY DEF AtLeast, FieldMax
  <2>2. /\ MaskWidth \in Nat /\ 0 < MaskWidth /\ MaskWidth <= 1024
        /\ MaskHeight \in Nat /\ 0 < MaskHeight /\ MaskHeight <= 1024
    BY DEF MaskWidth, MaskHeight
  <2>3. QED
    BY <1>1, <1>2, <2>1, <2>2
<1>4. x \in Nat /\ x <= FieldMax
  <2> HIDE DEF width
  <2>1. \A w, b \in Nat : w <= FieldMax /\ w > b => (w - b) \div 2 \in Nat /\ (w - b) \div 2 <= FieldMax
    <3>1. ASSUME NEW w \in Nat, NEW b \in Nat, w <= FieldMax, w > b
          PROVE  (w - b) \div 2 \in Nat /\ (w - b) \div 2 <= FieldMax
      BY <3>1, Halves, MaxIsNat
    <3>2. QED  BY <3>1
  <2>2. QED
    BY <1>1, <1>3, <2>1, MaxIsNat
<1>5. FromTop(display, height) \in Nat /\ FromTop(display, height) <= FieldMax
  <2>1. ASSUME NEW h \in Nat, NEW b \in Nat, NEW m \in Nat, h <= FieldMax
        PROVE  LET y == IF h > b + m THEN h - b - m ELSE 0 IN y \in Nat /\ y <= FieldMax
    BY <2>1, MaxIsNat
  <2>2. Margin(display) \in Nat
    BY <1>1, Twentieth DEF Margin
  <2> HIDE DEF height
  <2>3. QED
    BY <1>1, <1>3, <2>1, <2>2 DEF FromTop
<1>6. DefaultBox(display) = [width |-> width, height |-> height, x |-> x, y |-> FromTop(display, height)]
  BY DEF DefaultBox
<1> HIDE DEF width, height, x
<1>7. QED
  BY <1>3, <1>4, <1>5, <1>6, InField DEF Box

(***************************************************************************)
(* The registers take every box of fields that is not empty.               *)
(***************************************************************************)
LEMMA Configured ==
  ASSUME NEW Cells, NEW Word, NEW p \in Pipeline(Cells, Word),
         NEW box \in Box, box.width # 0, box.height # 0
  PROVE  LET q == Configure(p, box)
         IN  /\ q = [p EXCEPT !.pos = Pack(box.y, box.x), !.size = Pack(box.height, box.width), !.ok = TRUE]
             /\ q \in Pipeline(Cells, Word) /\ q.ok
<1>1. Pack(box.y, box.x) \in Nat /\ Pack(box.height, box.width) \in Nat
  BY Unpacked DEF Box
<1>2. Configure(p, box) = [p EXCEPT !.pos = Pack(box.y, box.x), !.size = Pack(box.height, box.width), !.ok = TRUE]
  BY DEF Configure, Box
<1>3. QED
  BY <1>1, <1>2 DEF Pipeline

(***************************************************************************)
(* Blanking writes every word of the mask and disables the overlay.        *)
(***************************************************************************)
LEMMA Blanked ==
  ASSUME NEW Cells, NEW Word, 0 \in Word, NEW p \in Pipeline(Cells, Word)
  PROVE  LET q == Disable(ClearMask(p))
         IN  /\ q \in Pipeline(Cells, Word) /\ q.ok /\ BlankAndOff(q) /\ q.shadow = q.mask
             /\ q.pos = p.pos /\ q.size = p.size /\ q.box = p.box /\ q.display = p.display
             /\ (q.initialized <=> p.initialized) /\ (q.platformReady <=> p.platformReady)
<1> DEFINE blank == [k \in Cells |-> 0]
           c == ClearMask(p)
           q == Disable(c)
<1>1. blank \in [Cells -> Word] /\ [k \in DOMAIN p.mask |-> 0] = blank /\ \A k \in Cells : blank[k] = 0
  BY DEF Pipeline
<1> HIDE DEF blank
<1>2. c = [p EXCEPT !.mask = blank, !.shadow = blank, !.ok = TRUE]
  BY <1>1 DEF ClearMask
<1>3. /\ c \in Pipeline(Cells, Word) /\ c.mask = blank /\ c.shadow = blank
      /\ c.pos = p.pos /\ c.size = p.size /\ c.box = p.box /\ c.display = p.display
      /\ (c.initialized <=> p.initialized) /\ (c.platformReady <=> p.platformReady)
  BY <1>1, <1>2 DEF Pipeline
<1> HIDE DEF c
<1>4. q = [c EXCEPT !.control = c.control \ {"ENABLE"}, !.ok = TRUE]
  BY DEF Disable
<1>5. /\ q \in Pipeline(Cells, Word) /\ q.ok /\ "ENABLE" \notin q.control
      /\ q.mask = c.mask /\ q.shadow = c.shadow
      /\ q.pos = c.pos /\ q.size = c.size /\ q.box = c.box /\ q.display = c.display
      /\ (q.initialized <=> c.initialized) /\ (q.platformReady <=> c.platformReady)
  BY <1>3, <1>4 DEF Pipeline
<1> HIDE DEF q
<1>6. DOMAIN q.mask = Cells
  BY <1>5 DEF Pipeline
<1>7. BlankAndOff(q)
  BY <1>1, <1>3, <1>5, <1>6 DEF BlankAndOff
<1>8. QED
  BY <1>3, <1>5, <1>7 DEF q, c

(***************************************************************************)
(* A stage that succeeds leaves registers and shadow in step.              *)
(***************************************************************************)
LEMMA HardwareReady ==
  ASSUME NEW Cells, NEW Word, 0 \in Word, NEW p \in Pipeline(Cells, Word),
         p.box.width # 0, p.box.height # 0
  PROVE  LET q == ConfigureHardware(p)
         IN  /\ q \in Pipeline(Cells, Word) /\ q.ok /\ BlankAndOff(q) /\ q.shadow = q.mask
             /\ q.pos = Pack(q.box.y, q.box.x) /\ q.size = Pack(q.box.height, q.box.width)
<1> DEFINE p1 == [p EXCEPT !.shadow = [k \in DOMAIN p.mask |-> 0]]
           p2 == Configure(p1, p.box)
<1>1. p1 \in Pipeline(Cells, Word) /\ p1.box = p.box
  <2>1. [k \in DOMAIN p.mask |-> 0] \in [Cells -> Word]  BY DEF Pipeline
  <2>2. QED  BY <2>1 DEF Pipeline
<1>2. p.box \in Box
  BY DEF Pipeline
<1> HIDE DEF p1
<1>3. /\ p2 = [p1 EXCEPT !.pos = Pack(p.box.y, p.box.x), !.size = Pack(p.box.height, p.box.width), !.ok = TRUE]
      /\ p2 \in Pipeline(Cells, Word) /\ p2.ok
  BY <1>1, <1>2, Configured
<1>4. p2.box = p.box /\ p2.pos = Pack(p.box.y, p.box.x) /\ p2.size = Pack(p.box.height, p.box.width)
  BY <1>1, <1>3 DEF Pipeline
<1>5. ConfigureHardware(p) = Disable(ClearMask(p2))
  BY <1>3 DEF ConfigureHardware, p1
<1> HIDE DEF p2
<1> DEFINE q == Disable(ClearMask(p2))
<1>6. /\ q \in Pipeline(Cells, Word) /\ q.ok /\ BlankAndOff(q) /\ q.shadow = q.mask
      /\ q.pos = p2.pos /\ q.size = p2.size /\ q.box = p2.box
  <2> HIDE DEF p1
  <2>0. p2 \in Pipeline(Cells, Word)  BY <1>3
  <2>1. q \in Pipeline(Cells, Word) /\ q.ok  BY <2>0, Blanked
  <2>2. BlankAndOff(q) /\ q.shadow = q.mask  BY <2>0, Blanked
  <2>3. q.pos = p2.pos /\ q.size = p2.size /\ q.box = p2.box  BY <2>0, Blanked
  <2> HIDE DEF q
  <2>4. QED  BY <2>1, <2>2, <2>3
<1> HIDE DEF q
<1>7. QED
  BY <1>4, <1>5, <1>6 DEF q

(***************************************************************************)
(* Whatever an earlier run left in the hardware, the pipeline starts with  *)
(* a blank mask and a disabled overlay, its registers and its shadow in    *)
(* step with it (configure_hardware).                                      *)
(***************************************************************************)
THEOREM ComesUpBlank ==
  ASSUME NEW Cells, NEW Word, 0 \in Word, NEW p \in Pipeline(Cells, Word), NEW display \in Size
  PROVE  LET up == PipelineInit(p, display)
         IN  up \in Pipeline(Cells, Word) /\ up.initialized /\ InStep(up) /\ BlankAndOff(up)
<1> DEFINE p1 == [p EXCEPT !.display = display, !.box = DefaultBox(display)]
           q == ConfigureHardware(p1)
           up == [q EXCEPT !.initialized = TRUE, !.platformReady = TRUE]
<1>1. p1 \in Pipeline(Cells, Word) /\ p1.box.width # 0 /\ p1.box.height # 0
  BY DefaultBoxFits DEF Pipeline
<1> HIDE DEF p1
<1>2. /\ q \in Pipeline(Cells, Word) /\ q.ok /\ BlankAndOff(q) /\ q.shadow = q.mask
      /\ q.pos = Pack(q.box.y, q.box.x) /\ q.size = Pack(q.box.height, q.box.width)
  BY <1>1, HardwareReady
<1> HIDE DEF q
<1>3. PipelineInit(p, display) = up
  <2>1. PipelineInit(p, display) = [q EXCEPT !.initialized = q.ok, !.platformReady = q.ok]
    BY DEF PipelineInit, q, p1
  <2>2. q.ok = TRUE
    BY <1>2 DEF Pipeline
  <2>3. QED  BY <2>1, <2>2
<1>4. /\ up \in Pipeline(Cells, Word) /\ up.initialized /\ up.platformReady
      /\ up.mask = q.mask /\ up.shadow = q.shadow /\ up.box = q.box
      /\ up.pos = q.pos /\ up.size = q.size /\ up.control = q.control
  BY <1>2 DEF Pipeline
<1> HIDE DEF up
<1>5. QED
  BY <1>2, <1>3, <1>4 DEF InStep, BlankAndOff

(***************************************************************************)
(* The cleanup takes the pipeline down and the overlay off.                *)
(***************************************************************************)
LEMMA DownAndOff ==
  ASSUME NEW Cells, NEW Word, 0 \in Word, NEW p \in Pipeline(Cells, Word), p.initialized
  PROVE  LET q == PipelineCleanup(p)
         IN  q \in Pipeline(Cells, Word) /\ ~q.initialized /\ InStep(q)
<1> DEFINE blank == [k \in Cells |-> 0]
<1>1. blank \in [Cells -> Word] /\ [k \in DOMAIN p.mask |-> 0] = blank
  BY DEF Pipeline
<1>2. Off \in Box /\ NoDisplay \in Size
  BY InField, MaxIsNat DEF Off, NoDisplay, Box, Size
<1> HIDE DEF blank
<1> DEFINE d == Disable(p)
<1>3. d \in Pipeline(Cells, Word) /\ "ENABLE" \notin d.control
  BY DEF Disable, Pipeline
<1>4. PipelineCleanup(p)
        = [d EXCEPT !.initialized = FALSE, !.platformReady = FALSE, !.display = NoDisplay,
                    !.box = Off, !.shadow = blank]
  BY <1>1 DEF PipelineCleanup
<1> HIDE DEF d
<1> DEFINE q == [d EXCEPT !.initialized = FALSE, !.platformReady = FALSE, !.display = NoDisplay,
                    !.box = Off, !.shadow = blank]
<1>5. /\ q \in Pipeline(Cells, Word) /\ ~q.initialized /\ ~q.platformReady
      /\ q.control = d.control
  BY <1>1, <1>2, <1>3 DEF Pipeline
<1> HIDE DEF q
<1>6. QED
  BY <1>3, <1>4, <1>5 DEF InStep, q

LEMMA CaptionPlaced ==
  ASSUME NEW Cells, NEW Word, NEW p \in Pipeline(Cells, Word), p.initialized,
         NEW caption \in CaptionOn(Cells, Word), BoxFits(p.display, caption)
  PROVE  LET q == SetBox(p, caption)
         IN  /\ q \in Pipeline(Cells, Word) /\ q.ok /\ q.initialized /\ (q.platformReady <=> p.platformReady)
             /\ q.pos = Pack(q.box.y, q.box.x) /\ q.size = Pack(q.box.height, q.box.width)
             /\ q.display = p.display
             /\ q.box.width = caption.width /\ q.box.height = caption.height
             /\ q.box.x + q.box.width <= q.display.width /\ q.box.y + q.box.height <= q.display.height
<1> DEFINE at == PlaceBox(p.display, caption)
           c == Configure(p, at)
<1>1. p.display \in Size /\ caption.width \in Nat /\ caption.height \in Nat
  BY DEF Pipeline, CaptionOn
<1>2. /\ at \in Box /\ at.width # 0 /\ at.height # 0
      /\ at.width = caption.width /\ at.height = caption.height
      /\ at.x + at.width <= p.display.width /\ at.y + at.height <= p.display.height
  BY <1>1, PlacedOnDisplay
<1> HIDE DEF at
<1>3. /\ c = [p EXCEPT !.pos = Pack(at.y, at.x), !.size = Pack(at.height, at.width), !.ok = TRUE]
      /\ c \in Pipeline(Cells, Word) /\ c.ok
  BY <1>2, Configured
<1>4. /\ c.pos = Pack(at.y, at.x) /\ c.size = Pack(at.height, at.width) /\ c.display = p.display
      /\ c.initialized /\ (c.platformReady <=> p.platformReady)
  BY <1>3 DEF Pipeline
<1> HIDE DEF c
<1>5. SetBox(p, caption) = [c EXCEPT !.box = at]
  BY <1>3 DEF SetBox, at, c
<1>6. QED
  BY <1>2, <1>3, <1>4, <1>5 DEF Pipeline

(***************************************************************************)
(* From then on every caption is shown alone, or nothing is, or, when it   *)
(* is refused or has no room on the display, the captions are taken down   *)
(* (render_current_state, quiesce).                                        *)
(***************************************************************************)
THEOREM CaptionShownAlone ==
  ASSUME NEW Cells, NEW Word, 0 \in Word, NEW p \in Pipeline(Cells, Word), p.initialized, InStep(p),
         NEW caption \in CaptionOn(Cells, Word)
  PROVE  LET q == RenderOrQuit(p, caption)
         IN  q \in Pipeline(Cells, Word) /\ ShownOrOff(q, caption)
<1>1. CASE caption.kind = "none"
  <2> DEFINE q == Disable(ClearMask(p))
  <2>1. /\ q \in Pipeline(Cells, Word) /\ q.ok /\ BlankAndOff(q) /\ q.shadow = q.mask
        /\ q.pos = p.pos /\ q.size = p.size /\ q.box = p.box
        /\ (q.initialized <=> p.initialized) /\ (q.platformReady <=> p.platformReady)
    <3>1. q \in Pipeline(Cells, Word) /\ q.ok  BY Blanked
    <3>2. BlankAndOff(q) /\ q.shadow = q.mask  BY Blanked
    <3>3. q.pos = p.pos /\ q.size = p.size /\ q.box = p.box  BY Blanked
    <3>4. (q.initialized <=> p.initialized) /\ (q.platformReady <=> p.platformReady)  BY Blanked
    <3> HIDE DEF q
    <3>5. QED  BY <3>1, <3>2, <3>3, <3>4
  <2>2. RenderOrQuit(p, caption) = q
    BY <1>1, <2>1 DEF RenderOrQuit, RenderCaption
  <2> HIDE DEF q
  <2>3. QED
    BY <1>1, <2>1, <2>2 DEF ShownOrOff, InStep
<1>2. CASE caption.kind = "refused" \/ (caption.kind = "drawn" /\ ~BoxFits(p.display, caption))
  <2>1. WriteCaption(p, caption) = Failed(p)
    BY <1>2 DEF WriteCaption, SetBox, Failed
  <2>2. Failed(p) \in Pipeline(Cells, Word) /\ Failed(p).initialized /\ ~Failed(p).ok
    BY DEF Failed, Pipeline
  <2>3. RenderOrQuit(p, caption) = PipelineCleanup(Failed(p))
    BY <1>2, <2>1, <2>2 DEF RenderOrQuit, RenderCaption
  <2> DEFINE q == PipelineCleanup(Failed(p))
  <2>4. q \in Pipeline(Cells, Word) /\ ~q.initialized /\ InStep(q)
    BY <2>2, DownAndOff
  <2> HIDE DEF q
  <2>5. QED
    BY <1>2, <2>3, <2>4 DEF ShownOrOff, q
<1>3. CASE caption.kind = "drawn" /\ BoxFits(p.display, caption)
  <2> DEFINE s == SetBox(p, caption)
             w == WriteBitmap(ClearMask(s), caption.bitmap)
  <2>1. /\ s \in Pipeline(Cells, Word) /\ s.ok /\ s.initialized /\ (s.platformReady <=> p.platformReady)
        /\ s.pos = Pack(s.box.y, s.box.x) /\ s.size = Pack(s.box.height, s.box.width)
        /\ s.box.width = caption.width /\ s.box.height = caption.height
        /\ s.box.x + s.box.width <= s.display.width /\ s.box.y + s.box.height <= s.display.height
    BY <1>3, CaptionPlaced
  <2> HIDE DEF s
  <2>2. PICK D \in SUBSET Cells : caption.bitmap \in [D -> Word]
    BY DEF CaptionOn
  <2>3. /\ w \in Pipeline(Cells, Word) /\ w.ok /\ w.shadow = w.mask
        /\ \A k \in Cells : w.mask[k] = IF k \in D THEN caption.bitmap[k] ELSE 0
        /\ w.pos = s.pos /\ w.size = s.size /\ w.display = s.display /\ w.box = s.box
        /\ (w.initialized <=> s.initialized) /\ (w.platformReady <=> s.platformReady)
    <3>1. w \in Pipeline(Cells, Word) /\ w.ok /\ w.shadow = w.mask  BY <2>1, <2>2, MaskFilled
    <3>2. \A k \in Cells : w.mask[k] = IF k \in D THEN caption.bitmap[k] ELSE 0
      BY <2>1, <2>2, MaskFilled
    <3>3. w.pos = s.pos /\ w.size = s.size /\ w.display = s.display /\ w.box = s.box
      BY <2>1, <2>2, MaskFilled
    <3>4. (w.initialized <=> s.initialized) /\ (w.platformReady <=> s.platformReady)
      BY <2>1, <2>2, MaskFilled
    <3> HIDE DEF w
    <3>5. QED  BY <3>1, <3>2, <3>3, <3>4
  <2>4. RenderCaption(p, caption) = Enable(w)
    BY <1>3, <2>1, <2>3 DEF RenderCaption, WriteCaption, s
  <2> HIDE DEF w
  <2>5. /\ Enable(w) \in Pipeline(Cells, Word) /\ Enable(w).ok /\ "ENABLE" \in Enable(w).control
        /\ Enable(w).mask = w.mask /\ Enable(w).shadow = w.shadow /\ Enable(w).pos = w.pos
        /\ Enable(w).size = w.size /\ Enable(w).box = w.box /\ Enable(w).display = w.display
        /\ Enable(w).initialized = w.initialized /\ Enable(w).platformReady = w.platformReady
    BY <2>3 DEF Enable, Pipeline
  <2>6. RenderOrQuit(p, caption) = Enable(w)
    BY <2>4, <2>5 DEF RenderOrQuit
  <2> DEFINE e == Enable(w)
  <2> HIDE DEF e
  <2>7. /\ e \in Pipeline(Cells, Word) /\ "ENABLE" \in e.control /\ e.shadow = e.mask
        /\ \A k \in Cells : e.mask[k] = IF k \in D THEN caption.bitmap[k] ELSE 0
        /\ e.pos = Pack(s.box.y, s.box.x) /\ e.size = Pack(s.box.height, s.box.width)
        /\ e.box = s.box /\ e.display = s.display /\ e.initialized /\ e.platformReady
    BY <2>1, <2>3, <2>5 DEF InStep, e
  <2>8. /\ High(e.pos) = s.box.y /\ Low(e.pos) = s.box.x
        /\ High(e.size) = s.box.height /\ Low(e.size) = s.box.width
    <3>1. s.box \in Box  BY <2>1 DEF Pipeline
    <3>2. QED  BY <2>7, <3>1, Unpacked DEF Box
  <2>9. DOMAIN e.mask = Cells /\ DOMAIN caption.bitmap = D
    BY <2>2, <2>7 DEF Pipeline
  <2>10. Showing(e, caption)
    BY <2>1, <2>7, <2>8, <2>9 DEF Showing, OnDisplay
  <2>11. QED
    BY <1>3, <2>6, <2>7, <2>10 DEF ShownOrOff, InStep, e
<1>4. QED
  BY <1>1, <1>2, <1>3 DEF CaptionOn

(***************************************************************************)
(* A stop leaves nothing enabled, whether the pipeline was up or not.      *)
(***************************************************************************)
LEMMA StopsOff ==
  ASSUME NEW Cells, NEW Word, 0 \in Word, NEW p \in Pipeline(Cells, Word), InStep(p)
  PROVE  InStep(PipelineCleanup(p))
<1>1. CASE p.initialized BY <1>1, DownAndOff
<1>2. CASE ~p.initialized
  <2> DEFINE q == PipelineCleanup(p)
             shadow == [k \in DOMAIN p.mask |-> 0]
  <2>1. q = [p EXCEPT !.initialized = FALSE, !.platformReady = FALSE, !.display = NoDisplay,
                      !.box = Off, !.shadow = shadow]
    BY <1>2 DEF PipelineCleanup
  <2> HIDE DEF shadow
  <2>2. ~q.initialized /\ ~q.platformReady /\ q.control = p.control BY <2>1 DEF Pipeline
  <2>3. "ENABLE" \notin p.control BY <1>2 DEF InStep
  <2> HIDE DEF q
  <2> QED BY <2>2, <2>3 DEF InStep, q
<1> QED BY <1>1, <1>2

-----------------------------------------------------------------------------
(***************************************************************************)
(* The hardware and the captions the run looks at are among these.         *)
(***************************************************************************)
LEMMA SamplesAre ==
  /\ \A p \in LeftBehind : p \in Pipeline(1..3, Nat)
  /\ \A d \in SampleDisplays : d \in Size
  /\ \A c \in SampleCaptions : c \in CaptionOn(1..3, Nat)
<1>1. \A control \in SUBSET {"ENABLE", "SOF"} : \A mask \in [1..3 -> {0, 2}] :
         PoweredUp(control, mask) \in Pipeline(1..3, Nat)
  <2> SUFFICES ASSUME NEW control \in SUBSET {"ENABLE", "SOF"}, NEW mask \in [1..3 -> {0, 2}]
               PROVE PoweredUp(control, mask) \in Pipeline(1..3, Nat)
    OBVIOUS
  <2>1. Off \in Box /\ NoDisplay \in Size BY InField, MaxIsNat DEF Off, NoDisplay, Box, Size
  <2> DEFINE shadow == [k \in DOMAIN mask |-> 0]
  <2>2. mask \in [1..3 -> Nat] /\ shadow \in [1..3 -> Nat] OBVIOUS
  <2>3. PoweredUp(control, mask) =
          [initialized |-> FALSE, platformReady |-> FALSE, ok |-> TRUE,
           display |-> NoDisplay, box |-> Off, pos |-> 0, size |-> 0, control |-> control,
           mask |-> mask, shadow |-> shadow]
    BY DEF PoweredUp
  <2> HIDE DEF shadow
  <2> QED BY <2>1, <2>2, <2>3 DEF Pipeline
<1>2. \A p \in LeftBehind : p \in Pipeline(1..3, Nat) BY <1>1 DEF LeftBehind
<1>3. \A d \in SampleDisplays : d \in Size BY InField DEF SampleDisplays, Size, FieldMax
<1>4. \A kind \in {"none", "refused", "drawn"} : \A width, height \in Nat :
        \A bitmap \in {<<>>, <<1>>, <<2, 0>>, <<0, 2, 1>>} :
          Caption(kind, width, height, bitmap) \in CaptionOn(1..3, Nat)
  <2> SUFFICES ASSUME NEW kind \in {"none", "refused", "drawn"}, NEW width \in Nat, NEW height \in Nat,
                      NEW bitmap \in {<<>>, << 1 >>, <<2, 0>>, <<0, 2, 1>>}
               PROVE Caption(kind, width, height, bitmap) \in CaptionOn(1..3, Nat)
    OBVIOUS
  <2>1. <<>> \in Seq(Nat) /\ <<1>> \in Seq(Nat) /\ <<2, 0>> \in Seq(Nat) /\ <<0, 2, 1>> \in Seq(Nat) OBVIOUS
  <2>2. Len(<<>>) = 0 /\ Len(<<1>>) = 1 /\ Len(<<2, 0>>) = 2 /\ Len(<<0, 2, 1>>) = 3 OBVIOUS
  <2>4. bitmap \in Seq(Nat) /\ Len(bitmap) \in 0..3
    <3>1. CASE bitmap = <<>> BY <2>1, <2>2, <3>1
    <3>2. CASE bitmap = <<1>> BY <2>1, <2>2, <3>2
    <3>3. CASE bitmap = <<2, 0>> BY <2>1, <2>2, <3>3
    <3>4. CASE bitmap = <<0, 2, 1>> BY <2>1, <2>2, <3>4
    <3> QED BY <3>1, <3>2, <3>3, <3>4
  <2>5. DOMAIN bitmap = 1..Len(bitmap) /\ \A k \in DOMAIN bitmap : bitmap[k] \in Nat BY <2>4
  <2>6. DOMAIN bitmap \in SUBSET (1..3) BY <2>4, <2>5
  <2>3. bitmap \in UNION {[D -> Nat] : D \in SUBSET (1..3)} BY <2>4, <2>5, <2>6
  <2> QED BY <2>3 DEF Caption, CaptionOn
<1>5. \A c \in SampleCaptions : c \in CaptionOn(1..3, Nat)
  <2> TAKE c \in SampleCaptions
  <2> DEFINE drawn == {Caption("drawn", width, height, bitmap) :
                         width \in {32, 1024}, height \in {45, 256}, bitmap \in {<<1>>, <<2, 0>>, <<0, 2, 1>>}}
  <2>1. c \in {Caption("none", 0, 0, <<>>), Caption("refused", 0, 0, <<>>)} \cup drawn BY DEF SampleCaptions
  <2>2. CASE c \in drawn
    <3>1. PICK width \in {32, 1024}, height \in {45, 256}, bitmap \in {<<1>>, <<2, 0>>, <<0, 2, 1>>} :
            c = Caption("drawn", width, height, bitmap)
      BY <2>2
    <3>2. width \in Nat /\ height \in Nat OBVIOUS
    <3> QED BY <1>4, <3>1, <3>2
  <2> HIDE DEF drawn
  <2> QED BY <1>4, <2>1, <2>2
<1> QED BY <1>2, <1>3, <1>5

LEMMA SamplesShown == CaptionsShown
<1> SUFFICES ASSUME NEW p \in LeftBehind, NEW display \in SampleDisplays
             PROVE LET up == PipelineInit(p, display)
                   IN  /\ up.initialized /\ InStep(up) /\ BlankAndOff(up)
                       /\ \A first \in SampleCaptions :
                            LET once == RenderOrQuit(up, first)
                            IN  /\ ShownOrOff(once, first)
                                /\ once.initialized =>
                                     \A second \in SampleCaptions : ShownOrOff(RenderOrQuit(once, second), second)
                                /\ InStep(PipelineCleanup(once))
  BY Zenon DEF CaptionsShown
<1> DEFINE C == 1..3
           up == PipelineInit(p, display)
<1> HIDE DEF C
<1>1. p \in Pipeline(C, Nat) /\ display \in Size BY SamplesAre DEF C
<1>2. \A c \in SampleCaptions : c \in CaptionOn(C, Nat) BY SamplesAre DEF C
<1>3. up \in Pipeline(C, Nat) /\ up.initialized /\ InStep(up) /\ BlankAndOff(up) BY <1>1, ComesUpBlank
<1> HIDE DEF up
<1>4. ASSUME NEW first \in SampleCaptions
      PROVE  LET once == RenderOrQuit(up, first)
             IN  /\ ShownOrOff(once, first)
                 /\ once.initialized =>
                      \A second \in SampleCaptions : ShownOrOff(RenderOrQuit(once, second), second)
                 /\ InStep(PipelineCleanup(once))
  <2> DEFINE once == RenderOrQuit(up, first)
  <2>1. once \in Pipeline(C, Nat) /\ ShownOrOff(once, first) BY <1>2, <1>3, CaptionShownAlone
  <2>2. InStep(once) BY <2>1 DEF ShownOrOff
  <2> HIDE DEF once
  <2>3. InStep(PipelineCleanup(once)) BY <2>1, <2>2, StopsOff
  <2>4. ASSUME once.initialized, NEW second \in SampleCaptions
        PROVE ShownOrOff(RenderOrQuit(once, second), second)
    BY <1>2, <2>1, <2>2, <2>4, CaptionShownAlone
  <2> QED BY <2>1, <2>3, <2>4 DEF once
<1> QED BY <1>3, <1>4 DEF up

LEMMA SamplesInOrder == PixelsInOrder
<1> SUFFICES ASSUME NEW byte \in [0..7 -> {0, 1}], NEW j \in 0..3, NEW i \in 0..31
             PROVE PackWord([b \in 0..3 |-> IF b = j THEN byte ELSE [k \in 0..7 |-> 0]])[i]
                     = IF i \div 8 = j THEN byte[7 - (i % 8)] ELSE 0
  BY DEF PixelsInOrder
<1> DEFINE bytes == [b \in 0..3 |-> IF b = j THEN byte ELSE [k \in 0..7 |-> 0]]
<1>1. PackWord(bytes)[i] = bytes[i \div 8][7 - (i % 8)]
  <2> HIDE DEF bytes
  <2> QED BY PixelOrder
<1>2. i \div 8 \in 0..3 /\ 7 - (i % 8) \in 0..7 OBVIOUS
<1> QED BY <1>1, <1>2

(***************************************************************************)
(* So what CaptionsSafety evaluates on its texts, displays and masks holds *)
(* in every state: each is one of those above.                             *)
(***************************************************************************)
THEOREM EveryCaptionIsDrawn == Spec => []CaptionDrawn
<1>1. CaptionDrawn BY SamplesDrawn, SamplesShown, SamplesInOrder DEF CaptionDrawn
<1> QED BY <1>1, PTL

-----------------------------------------------------------------------------
(***************************************************************************)
(* The slots are empty until the overlay has come up.                      *)
(***************************************************************************)
Fresh == ao = "idle" => previous = None /\ current = None

CapInv == TypeOK /\ OverlayMatches /\ LinesAge /\ Fresh

-----------------------------------------------------------------------------
(***************************************************************************)
(* Whatever the configuration, the timeouts are numbers of ticks.          *)
(***************************************************************************)
LEMMA TicksType == ASSUME NEW ms \in Nat PROVE MsToTicks(ms) \in Nat
<1>1. ms \div 1000 \in Nat /\ ms % 1000 \in Nat
  OBVIOUS
<1>2. ((ms % 1000) * 100) \div 1000 \in Nat
  BY <1>1
<1> QED BY <1>1, <1>2 DEF MsToTicks

(***************************************************************************)
(* Events stay pending while others are added behind them ...              *)
(***************************************************************************)
LEMMA PendingAppended ==
  ASSUME NEW q \in Seq(Signal \cup Text), NEW t \in Seq(Signal \cup Text), NEW s,
         \E i \in DOMAIN q : q[i] = s
  PROVE  \E i \in DOMAIN (q \o t) : (q \o t)[i] = s
<1>1. PICK i \in DOMAIN q : q[i] = s
  OBVIOUS
<1>2. i \in DOMAIN (q \o t) /\ (q \o t)[i] = s
  BY <1>1
<1> QED BY <1>2

(***************************************************************************)
(* ... and while another one is taken from the front.                      *)
(***************************************************************************)
LEMMA PendingBehind ==
  ASSUME NEW q \in Seq(Signal \cup Text), q # <<>>, NEW s, Head(q) # s,
         \E i \in DOMAIN q : q[i] = s
  PROVE  \E i \in DOMAIN Tail(q) : Tail(q)[i] = s
<1>1. PICK i \in DOMAIN q : q[i] = s
  OBVIOUS
<1>2. i # 1
  BY <1>1
<1>3. i - 1 \in DOMAIN Tail(q) /\ Tail(q)[i - 1] = s
  BY <1>1, <1>2
<1> QED BY <1>3
(***************************************************************************)
(* Texts are not signals.                                                  *)
(***************************************************************************)
LEMMA EventsDiffer ==
  ASSUME NEW c \in Text
  PROVE  c \notin Signal /\ c # None
  BY TextAssumption

(***************************************************************************)
(* Posting keeps the queue's type and what is pending.                     *)
(***************************************************************************)
LEMMA PostKeeps ==
  ASSUME TypeOK, NEW t \in Seq(Signal \cup Text), queue' = queue \o t
  PROVE  queue' \in Seq(Signal \cup Text) /\ \A s : Pending(s) => Pending(s)'
<1>1. queue \in Seq(Signal \cup Text)
  BY DEF TypeOK
<1>2. ASSUME NEW s, Pending(s) PROVE Pending(s)'
  <2>1. \E i \in DOMAIN queue : queue[i] = s
    BY <1>2 DEF Pending
  <2>2. \E i \in DOMAIN (queue \o t) : (queue \o t)[i] = s
    BY <1>1, <2>1, PendingAppended
  <2> QED BY <2>2 DEF Pending
<1> QED BY <1>1, <1>2

(***************************************************************************)
(* Appending is posting a sequence of one.                                 *)
(***************************************************************************)
LEMMA AppendKeeps ==
  ASSUME TypeOK, NEW e \in Signal \cup Text, queue' = Append(queue, e)
  PROVE  queue' \in Seq(Signal \cup Text) /\ \A s : Pending(s) => Pending(s)'
<1>1. queue' = queue \o <<e>> /\ <<e>> \in Seq(Signal \cup Text)
  BY DEF TypeOK
<1> QED BY <1>1, PostKeeps

(***************************************************************************)
(* Dispatching keeps the queue's type and all other pending events.        *)
(***************************************************************************)
LEMMA DispatchKeeps ==
  ASSUME TypeOK, NEW s, Take(s)
  PROVE  /\ queue' \in Seq(Signal \cup Text)
         /\ \A e : e # s /\ Pending(e) => Pending(e)'
<1>1. queue \in Seq(Signal \cup Text) /\ queue # <<>> /\ Head(queue) = s /\ queue' = Tail(queue)
  BY DEF TypeOK, Take
<1>2. ASSUME NEW e, e # s, Pending(e) PROVE Pending(e)'
  <2>1. \E i \in DOMAIN queue : queue[i] = e
    BY <1>2 DEF Pending
  <2>2. \E i \in DOMAIN Tail(queue) : Tail(queue)[i] = e
    BY <1>1, <1>2, <2>1, PendingBehind
  <2> QED BY <1>1, <2>2 DEF Pending
<1>3. queue' \in Seq(Signal \cup Text)
  BY <1>1
<1> QED BY <1>2, <1>3

(***************************************************************************)
(* A tick posts at most the two timers' events, and theirs it posts.       *)
(***************************************************************************)
LEMMA TickPosts ==
  ASSUME TypeOK, NEW s \in Posts, queue' = queue \o s
  PROVE  /\ queue' \in Seq(Signal \cup Text)
         /\ \A e : Pending(e) => Pending(e)'
         /\ clearTimer = 1 => Pending("CLEAR")'
         /\ expireTimer = 1 => Pending("EXPIRE")'
<1>1. s \in Seq(Signal \cup Text) /\ queue \in Seq(Signal \cup Text)
  <2>1. /\ <<"CLEAR">> \in Seq(Signal \cup Text) /\ <<"EXPIRE">> \in Seq(Signal \cup Text)
        /\ <<"CLEAR", "EXPIRE">> \in Seq(Signal \cup Text)
        /\ <<"EXPIRE", "CLEAR">> \in Seq(Signal \cup Text)
    BY DEF Signal
  <2>2. s \in {<<>>, <<"CLEAR">>, <<"EXPIRE">>, <<"CLEAR", "EXPIRE">>, <<"EXPIRE", "CLEAR">>}
    BY DEF Posts
  <2>3. <<>> \in Seq(Signal \cup Text)
    OBVIOUS
  <2>4. s \in Seq(Signal \cup Text)
    BY ONLY <2>1, <2>2, <2>3
  <2>5. queue \in Seq(Signal \cup Text)
    BY DEF TypeOK
  <2> QED BY <2>4, <2>5
<1>2. ASSUME NEW i \in DOMAIN s PROVE Len(queue) + i \in DOMAIN queue' /\ queue'[Len(queue) + i] = s[i]
  BY <1>1
<1>3. ASSUME NEW e \in Fired PROVE Pending(e)'
  <2>1. PICK i \in DOMAIN s : s[i] = e
    BY DEF Posts
  <2> QED BY <1>2, <2>1 DEF Pending
<1> QED BY <1>1, <1>3, PostKeeps DEF Fired

-----------------------------------------------------------------------------
(***************************************************************************)
(* Initially the screen is blank and no timer runs.                        *)
(***************************************************************************)
LEMMA CaptionsInitially == Init => CapInv
<1> SUFFICES ASSUME Init PROVE CapInv
  OBVIOUS
<1>1. clearTicks \in Nat
  BY ConfigAssumption, TicksType DEF Init
<1>2. holdTicks \in Nat
  BY ConfigAssumption, TicksType DEF Init
<1>3. TypeOK
  <2>1. clearTimer \in 0..clearTicks /\ silence \in 0..clearTicks /\ expireTimer \in 0..holdTicks
    BY <1>1, <1>2 DEF Init
  <2>2. queue \in Seq(Signal \cup Text)
    BY DEF Init
  <2> QED BY <1>1, <1>2, <2>1, <2>2 DEF Init, TypeOK
<1>4. OverlayMatches /\ LinesAge /\ Fresh
  BY DEF Init, OverlayMatches, LinesAge, Fresh
<1> QED BY <1>3, <1>4 DEF CapInv

(***************************************************************************)
(* Every step of the environment and the ticker keeps the invariant.       *)
(***************************************************************************)
LEMMA EnvironmentSteps ==
  ASSUME CapInv,
         \/ \E c \in Text : PostText(c)
         \/ \E s \in {"INIT", "STOP"} : SystemPosts(s)
         \/ Silence \/ Tick
  PROVE  CapInv'
<1> USE DEF CapInv
<1>1. CASE \E c \in Text : PostText(c)
  <2>1. PICK c \in Text : PostText(c)
    BY <1>1
  <2>2. queue' \in Seq(Signal \cup Text) /\ \A s : Pending(s) => Pending(s)'
    BY <2>1, AppendKeeps DEF PostText
  <2>3. UNCHANGED <<ao, slots, overlay, timers, config, sent, speaking, silence>>
    BY <2>1 DEF PostText
  <2>4. TypeOK'
    BY <2>2, <2>3 DEF TypeOK, slots, overlay, timers, config
  <2>5. OverlayMatches' /\ LinesAge' /\ Fresh'
    BY <2>2, <2>3 DEF OverlayMatches, LinesAge, Fresh, slots, overlay, timers, config
  <2> QED BY <2>4, <2>5
<1>2. CASE \E s \in {"INIT", "STOP"} : SystemPosts(s)
  <2>1. PICK s \in {"INIT", "STOP"} : SystemPosts(s)
    BY <1>2
  <2>2. queue' \in Seq(Signal \cup Text) /\ \A e : Pending(e) => Pending(e)'
    BY <2>1, AppendKeeps DEF SystemPosts, Signal
  <2>3. UNCHANGED <<ao, slots, overlay, timers, config, speaking, silence>> /\ sent' \subseteq {"INIT", "STOP"}
    BY <2>1 DEF SystemPosts, TypeOK
  <2>4. TypeOK'
    BY <2>2, <2>3 DEF TypeOK, slots, overlay, timers, config
  <2>5. OverlayMatches' /\ LinesAge' /\ Fresh'
    BY <2>2, <2>3 DEF OverlayMatches, LinesAge, Fresh, slots, overlay, timers, config
  <2> QED BY <2>4, <2>5
<1>3. CASE Silence
  <2>1. UNCHANGED <<ao, slots, overlay, timers, config, queue, sent, silence>> /\ speaking' = FALSE
    BY <1>3 DEF Silence
  <2>2. TypeOK'
    BY <2>1 DEF TypeOK, slots, overlay, timers, config
  <2>3. OverlayMatches' /\ LinesAge' /\ Fresh'
    BY <2>1 DEF OverlayMatches, LinesAge, Fresh, Pending, slots, overlay, timers, config
  <2> QED BY <2>2, <2>3
<1>4. CASE Tick
  <2>1. PICK s \in Posts : queue' = queue \o s
    BY <1>4 DEF Tick
  <2>2. /\ queue' \in Seq(Signal \cup Text)
        /\ \A e : Pending(e) => Pending(e)'
        /\ clearTimer = 1 => Pending("CLEAR")'
        /\ expireTimer = 1 => Pending("EXPIRE")'
    BY <2>1, TickPosts
  <2>3. /\ clearTimer' = CountDown(clearTimer) /\ expireTimer' = CountDown(expireTimer)
        /\ silence' = IF silence < clearTicks THEN silence + 1 ELSE silence
        /\ UNCHANGED <<ao, slots, overlay, config, sent, speaking>>
    BY <1>4 DEF Tick
  <2>4. /\ clearTimer' \in 0..clearTicks /\ expireTimer' \in 0..holdTicks
        /\ silence' \in 0..clearTicks
    BY <2>3 DEF TypeOK, CountDown
  <2>5. TypeOK'
    BY <2>2, <2>3, <2>4 DEF TypeOK, slots, overlay, config
  <2>6. OverlayMatches' /\ Fresh'
    BY <2>3 DEF OverlayMatches, Fresh, slots, overlay
  <2>7. LinesAge'
    BY <2>2, <2>3 DEF LinesAge, TypeOK, CountDown, slots
  <2> QED BY <2>5, <2>6, <2>7
<1> QED BY <1>1, <1>2, <1>3, <1>4

(***************************************************************************)
(* Every dispatch keeps the invariant.                                     *)
(***************************************************************************)
LEMMA DispatchSteps == ASSUME CapInv, QvLoop PROVE CapInv'
<1> USE DEF CapInv
<1>1. CASE ComponentInit
  <2>1. Dispatch("INIT")
    BY <1>1 DEF ComponentInit
  <2>2. queue' \in Seq(Signal \cup Text) /\ UNCHANGED <<config, env>>
    BY <2>1, DispatchKeeps DEF Dispatch, Take, env
  <2>3. TypeOK'
    BY <1>1, <2>1, <2>2 DEF ComponentInit, TypeOK, Text, Quiesce, Fail, Disarm, Show, Promoted, Rearmed, slots, overlay, timers, config, env
  <2>4. OverlayMatches' /\ Fresh'
    BY <1>1, <2>1, <2>2 DEF ComponentInit, OverlayMatches, Fresh, Quiesce, Fail, Disarm, Show, Promoted, Rearmed, slots, overlay, timers, config, env
  <2>5. previous = None /\ current = None
    BY <1>1 DEF ComponentInit, Fresh
  <2>6. LinesAge'
    BY <1>1, <2>2, <2>5 DEF ComponentInit, LinesAge, Quiesce, Fail, Disarm, Show, Promoted, Rearmed, slots, overlay, timers, config, env
  <2> QED BY <2>3, <2>4, <2>6
<1>2. CASE TextRendered
  <2>1. PICK c \in Text : Take(c) /\ current' = c /\ Show(Promoted, c) /\ clearTimer' = clearTicks
    BY <1>2 DEF TextRendered, Restarted
  <2>2. queue' \in Seq(Signal \cup Text) /\ UNCHANGED <<config, sent, speaking>> /\ silence' = 0
    BY <1>2, <2>1, DispatchKeeps DEF Take, TextRendered
  <2>3. TypeOK'
    BY <1>2, <2>1, <2>2 DEF TextRendered, TypeOK, Text, Quiesce, Fail, Disarm, Show, Promoted, Rearmed, slots, overlay, timers, config, env
  <2>4. OverlayMatches' /\ Fresh'
    BY <1>2, <2>1, <2>2 DEF TextRendered, OverlayMatches, Fresh, Quiesce, Fail, Disarm, Show, Promoted, Rearmed, slots, overlay, timers, config, env
  <2>5. LinesAge'
    <3>1. c \notin Signal
      BY EventsDiffer
    <3>2. \A e : e # c /\ Pending(e) => Pending(e)'
      BY <2>1, DispatchKeeps
    <3>3. Pending("EXPIRE") => Pending("EXPIRE")'
      BY <3>1, <3>2 DEF Signal
    <3>4. clearTimer' > 0
      BY <1>2, <2>1 DEF TextRendered, TypeOK
    <3>5. previous' # None => expireTimer' > 0 \/ Pending("EXPIRE")'
      BY <1>2, <3>3 DEF TextRendered, LinesAge, Promoted, Rearmed, TypeOK
    <3> QED BY <1>2, <3>4, <3>5 DEF TextRendered, LinesAge
  <2> QED BY <2>3, <2>4, <2>5
<1>3. CASE TextFails
  <2>1. PICK c \in Text : Dispatch(c) /\ current' = c
    BY <1>3 DEF TextFails
  <2>2. queue' \in Seq(Signal \cup Text) /\ UNCHANGED <<config, env>>
    BY <2>1, DispatchKeeps DEF Dispatch, Take, env
  <2>3. TypeOK'
    BY <1>3, <2>1, <2>2 DEF TextFails, TypeOK, Text, Quiesce, Fail, Disarm, Show, Promoted, Rearmed, slots, overlay, timers, config, env
  <2>4. OverlayMatches' /\ Fresh'
    BY <1>3, <2>1, <2>2 DEF TextFails, OverlayMatches, Fresh, Quiesce, Fail, Disarm, Show, Promoted, Rearmed, slots, overlay, timers, config, env
  <2>5. LinesAge'
    BY <1>3, <2>2 DEF TextFails, LinesAge, Quiesce, Fail, Disarm, Show, Promoted, Rearmed, slots, overlay, timers, config, env
  <2> QED BY <2>3, <2>4, <2>5
<1>4. CASE HoldAsserts
  <2>1. PICK c \in Text : Dispatch(c)
    BY <1>4 DEF HoldAsserts
  <2>2. queue' \in Seq(Signal \cup Text) /\ UNCHANGED <<config, env>>
    BY <2>1, DispatchKeeps DEF Dispatch, Take, env
  <2>3. TypeOK'
    BY <1>4, <2>1, <2>2 DEF HoldAsserts, TypeOK, Text, Quiesce, Fail, Disarm, Show, Promoted, Rearmed, slots, overlay, timers, config, env
  <2>4. OverlayMatches' /\ Fresh'
    BY <1>4, <2>1, <2>2 DEF HoldAsserts, OverlayMatches, Fresh, Quiesce, Fail, Disarm, Show, Promoted, Rearmed, slots, overlay, timers, config, env
  <2>5. LinesAge'
    BY <1>4, <2>2 DEF HoldAsserts, LinesAge, Quiesce, Fail, Disarm, Show, Promoted, Rearmed, slots, overlay, timers, config, env
  <2> QED BY <2>3, <2>4, <2>5
<1>5. CASE ClearAsserts
  <2>1. PICK c \in Text : Dispatch(c) /\ current' = c /\ Show(Promoted, c)
    BY <1>5 DEF ClearAsserts
  <2>2. queue' \in Seq(Signal \cup Text) /\ UNCHANGED <<config, env>>
    BY <2>1, DispatchKeeps DEF Dispatch, Take, env
  <2>3. TypeOK'
    BY <1>5, <2>1, <2>2 DEF ClearAsserts, TypeOK, Text, Quiesce, Fail, Disarm, Show, Promoted, Rearmed, slots, overlay, timers, config, env
  <2>4. OverlayMatches' /\ Fresh'
    BY <1>5, <2>1, <2>2 DEF ClearAsserts, OverlayMatches, Fresh, Quiesce, Fail, Disarm, Show, Promoted, Rearmed, slots, overlay, timers, config, env
  <2>5. LinesAge'
    BY <1>5, <2>2 DEF ClearAsserts, LinesAge, Quiesce, Fail, Disarm, Show, Promoted, Rearmed, slots, overlay, timers, config, env
  <2> QED BY <2>3, <2>4, <2>5
<1>6. CASE Clear
  <2>1. Dispatch("CLEAR")
    BY <1>6 DEF Clear
  <2>2. queue' \in Seq(Signal \cup Text) /\ UNCHANGED <<config, env>>
    BY <2>1, DispatchKeeps DEF Dispatch, Take, env
  <2>3. TypeOK'
    BY <1>6, <2>1, <2>2 DEF Clear, TypeOK, Text, Quiesce, Fail, Disarm, Show, Promoted, Rearmed, slots, overlay, timers, config, env
  <2>4. OverlayMatches' /\ Fresh'
    BY <1>6, <2>1, <2>2 DEF Clear, OverlayMatches, Fresh, Quiesce, Fail, Disarm, Show, Promoted, Rearmed, slots, overlay, timers, config, env
  <2>5. LinesAge'
    BY <1>6, <2>2 DEF Clear, LinesAge, Quiesce, Fail, Disarm, Show, Promoted, Rearmed, slots, overlay, timers, config, env
  <2> QED BY <2>3, <2>4, <2>5
<1>7. CASE Expire
  <2>1. Dispatch("EXPIRE")
    BY <1>7 DEF Expire
  <2>2. queue' \in Seq(Signal \cup Text) /\ UNCHANGED <<config, env>>
    BY <2>1, DispatchKeeps DEF Dispatch, Take, env
  <2>3. TypeOK'
    BY <1>7, <2>1, <2>2 DEF Expire, TypeOK, Text, Quiesce, Fail, Disarm, Show, Promoted, Rearmed, slots, overlay, timers, config, env
  <2>4. OverlayMatches' /\ Fresh'
    BY <1>7, <2>1, <2>2 DEF Expire, OverlayMatches, Fresh, Quiesce, Fail, Disarm, Show, Promoted, Rearmed, slots, overlay, timers, config, env
  <2>5. LinesAge'
    <3>1. \A e : e # "EXPIRE" /\ Pending(e) => Pending(e)'
      BY <2>1, DispatchKeeps DEF Dispatch
    <3>2. Pending("CLEAR") => Pending("CLEAR")'
      BY <3>1
    <3> QED BY <1>7, <2>2, <3>2 DEF Expire, LinesAge, Quiesce, Fail, Disarm, Show, Promoted, Rearmed, slots, overlay, timers, config, env
  <2> QED BY <2>3, <2>4, <2>5
<1>8. CASE Stop
  <2>1. Dispatch("STOP")
    BY <1>8 DEF Stop
  <2>2. queue' \in Seq(Signal \cup Text) /\ UNCHANGED <<config, env>>
    BY <2>1, DispatchKeeps DEF Dispatch, Take, env
  <2>3. TypeOK'
    BY <1>8, <2>1, <2>2 DEF Stop, TypeOK, Text, Quiesce, Fail, Disarm, Show, Promoted, Rearmed, slots, overlay, timers, config, env
  <2>4. OverlayMatches' /\ Fresh'
    BY <1>8, <2>1, <2>2 DEF Stop, OverlayMatches, Fresh, Quiesce, Fail, Disarm, Show, Promoted, Rearmed, slots, overlay, timers, config, env
  <2>5. LinesAge'
    BY <1>8, <2>2 DEF Stop, LinesAge, Quiesce, Fail, Disarm, Show, Promoted, Rearmed, slots, overlay, timers, config, env
  <2> QED BY <2>3, <2>4, <2>5
<1>9. CASE Ignore
  <2>1. PICK s \in Signal \cup Text : ~Handled(s) /\ Dispatch(s)
    BY <1>9 DEF Ignore
  <2>2. queue' \in Seq(Signal \cup Text) /\ UNCHANGED <<config, env>>
    BY <2>1, DispatchKeeps DEF Dispatch, Take, env
  <2>3. TypeOK'
    BY <1>9, <2>1, <2>2 DEF Ignore, TypeOK, Text, Quiesce, Fail, Disarm, Show, Promoted, Rearmed, slots, overlay, timers, config, env
  <2>4. OverlayMatches' /\ Fresh'
    BY <1>9, <2>1, <2>2 DEF Ignore, OverlayMatches, Fresh, Quiesce, Fail, Disarm, Show, Promoted, Rearmed, slots, overlay, timers, config, env
  <2>5. LinesAge'
    <3>1. CASE ao = "ready"
      <4>1. s = "INIT"
        BY <2>1, <3>1 DEF Handled, Signal
      <4>2. \A e : e # "INIT" /\ Pending(e) => Pending(e)'
        BY <2>1, <4>1, DispatchKeeps DEF Dispatch
      <4>3. Pending("CLEAR") => Pending("CLEAR")'
        BY <4>2
      <4>4. Pending("EXPIRE") => Pending("EXPIRE")'
        BY <4>2
      <4> QED BY <1>9, <2>2, <4>3, <4>4 DEF Ignore, LinesAge, Quiesce, Fail, Disarm, Show, Promoted, Rearmed, slots, overlay, timers, config, env
    <3>2. CASE ao # "ready"
      BY <1>9, <2>2, <3>2 DEF Ignore, LinesAge, Quiesce, Fail, Disarm, Show, Promoted, Rearmed, slots, overlay, timers, config, env
    <3> QED BY <3>1, <3>2
  <2> QED BY <2>3, <2>4, <2>5
<1> QED BY <1>1, <1>2, <1>3, <1>4, <1>5, <1>6, <1>7, <1>8, <1>9 DEF QvLoop

(***************************************************************************)
(* Every step keeps the invariant.                                         *)
(***************************************************************************)
LEMMA CaptionsStep == CapInv /\ [Next]_vars => CapInv'
<1> SUFFICES ASSUME CapInv, [Next]_vars PROVE CapInv'
  OBVIOUS
<1>1. CASE QvLoop
  BY <1>1, DispatchSteps
<1>2. CASE \/ \E c \in Text : PostText(c)
           \/ \E s \in {"INIT", "STOP"} : SystemPosts(s)
           \/ Silence \/ Tick
  BY <1>2, EnvironmentSteps
<1>3. CASE UNCHANGED vars
  BY <1>3 DEF CapInv, TypeOK, OverlayMatches, LinesAge, Fresh, Pending,
              vars, slots, overlay, timers, config, env
<1> QED BY <1>1, <1>2, <1>3 DEF Next

(***************************************************************************)
(* The invariant holds whatever the texts, timeouts and queue bound.       *)
(***************************************************************************)
THEOREM CaptionsInvariant == Spec => []CapInv
BY CaptionsInitially, CaptionsStep, PTL DEF Spec

(***************************************************************************)
(* The variables keep their types.                                         *)
(***************************************************************************)
THEOREM CaptionsTypes == Spec => []TypeOK
<1>1. CapInv => TypeOK
  BY DEF CapInv
<1> QED BY <1>1, CaptionsInvariant, PTL

(***************************************************************************)
(* While captions are served the overlay shows what the slots hold, and    *)
(* nothing before and after (render_current_state, quiesce).               *)
(***************************************************************************)
THEOREM OverlayShowsSlots == Spec => []OverlayMatches
<1>1. CapInv => OverlayMatches
  BY DEF CapInv
<1> QED BY <1>1, CaptionsInvariant, PTL

(***************************************************************************)
(* A line on the screen always has its timer running or its event posted   *)
(* (promote_current_to_previous, on_subtitle_text, clear_subtitle).        *)
(***************************************************************************)
THEOREM NoLineIsForgotten == Spec => []LinesAge
<1>1. CapInv => LinesAge
  BY DEF CapInv
<1> QED BY <1>1, CaptionsInvariant, PTL

-----------------------------------------------------------------------------
(***************************************************************************)
(* A blank screen, first.                                                  *)
(***************************************************************************)
LEMMA ScreenInit == Init => Screen!CInit
BY DEF Init, Screen!CInit

(***************************************************************************)
(* Every step is one the viewer may see, or none.                          *)
(***************************************************************************)
LEMMA ScreenStep == CapInv /\ [Next]_vars => [Screen!CNext]_(Screen!cvars)
<1> SUFFICES ASSUME CapInv, [Next]_vars, overlay' # overlay PROVE Screen!CNext
  BY DEF overlay, Screen!cvars
<1>0. /\ TypeOK
      /\ ao = "ready" => top = previous /\ bottom = current
  BY DEF CapInv, OverlayMatches
<1>1. ASSUME Show(None, None) PROVE Screen!CNext
  BY <1>1 DEF Show, Screen!Blank, Screen!CNext
<1>2. ASSUME NEW c \in Text, ao = "ready", Show(Promoted, c) PROVE Screen!CNext
  <2>1. top = previous /\ bottom = current
    BY <1>0, <1>2
  <2>2. Screen!NewText(c)
    BY <1>2, <2>1 DEF Show, Promoted, Screen!NewText
  <2> QED BY <2>2 DEF Text, Screen!CNext
<1>3. CASE QvLoop
  <2>1. CASE ComponentInit
    BY <1>1, <2>1 DEF ComponentInit, Fail, Quiesce
  <2>2. CASE TextRendered
    BY <1>2, <2>2 DEF TextRendered
  <2>3. CASE ClearAsserts
    BY <1>2, <2>3 DEF ClearAsserts
  <2>4. CASE TextFails
    BY <1>1, <2>4 DEF TextFails
  <2>5. CASE Clear
    BY <1>1, <2>5 DEF Clear
  <2>6. CASE Expire
    <3>1. CASE Show(None, None)
      BY <1>1, <3>1
    <3>2. CASE Show(None, current)
      <4>1. top' = None /\ bottom' = bottom
        BY <1>0, <2>6, <3>2 DEF Expire, Show
      <4>2. CASE bottom = None
        BY <1>1, <4>1, <4>2 DEF Show
      <4>3. CASE bottom # None
        BY <4>1, <4>3 DEF Screen!DropTop, Screen!CNext
      <4> QED BY <4>2, <4>3
    <3> QED BY <2>6, <3>1, <3>2 DEF Expire
  <2>7. CASE Stop
    BY <1>1, <2>7 DEF Stop, Quiesce
  <2>8. CASE HoldAsserts \/ Ignore
    BY <2>8 DEF HoldAsserts, Ignore
  <2> QED BY <1>3, <2>1, <2>2, <2>3, <2>4, <2>5, <2>6, <2>7, <2>8 DEF QvLoop
<1>4. CASE \/ \E c \in Text : PostText(c)
           \/ \E s \in {"INIT", "STOP"} : SystemPosts(s)
           \/ Silence \/ Tick
  BY <1>4 DEF PostText, SystemPosts, Silence, Tick
<1>5. CASE UNCHANGED vars
  BY <1>5 DEF vars
<1> QED BY <1>3, <1>4, <1>5 DEF Next

(***************************************************************************)
(* Whatever the order of texts, timeouts and stops, the viewer sees the    *)
(* newest text with at most the finished one it followed above it.         *)
(***************************************************************************)
THEOREM ScreenRefinement == Spec => ImplementsScreen
<1>1. Init => Screen!CInit
  BY ScreenInit
<1>2. CapInv /\ [Next]_vars => [Screen!CNext]_(Screen!cvars)
  BY ScreenStep
<1> QED BY <1>1, <1>2, CaptionsInvariant, PTL DEF Spec, ImplementsScreen, Screen!CSpec
=============================================================================
