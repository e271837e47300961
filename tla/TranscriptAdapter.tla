------------------------- MODULE TranscriptAdapter -------------------------
(***************************************************************************)
(* How the server turns the recogniser's hypotheses into caption lines     *)
(* (TranscriptAdapter of nemotron.py).  The recogniser repeats the whole   *)
(* utterance at every step; the adapter remembers how many of its words    *)
(* are already in finished lines and sends only the rest.                  *)
(*                                                                         *)
(* An adapter has the words of the utterance, the number of them promoted, *)
(* the start of its next line, in samples (NoTime before its first), the   *)
(* last partial line shown (<<>> for none) and whether it is flushed.      *)
(***************************************************************************)
EXTENDS Integers, Sequences, FiniteSets, SequencesExt

CONSTANTS Word, Width, SentenceEnd

ASSUME WordAssumption ==
  /\ Width \in [Word -> Nat \ {0}]
  /\ SentenceEnd \subseteq Word

LINE_MAX == 55        \* DISPLAY_LINE_MAX_CHARS

NoTime == -1

NewAdapter == [utt |-> <<>>, promoted |-> 0, start |-> NoTime, shown |-> <<>>, flushed |-> FALSE]

(***************************************************************************)
(* The words that are not in a finished line yet.                          *)
(***************************************************************************)
Pending(a) == SubSeq(a.utt, a.promoted + 1, Len(a.utt))

(***************************************************************************)
(* The characters of some words and the spaces between them, and how many  *)
(* leading words make a line: at least one (take_line_words).              *)
(***************************************************************************)
Chars(words) == FoldSeq(LAMBDA w, n : n + Width[w] + 1, -1, words)

TakeLineWords(words) ==
  Max({1} \cup {n \in 1..Len(words) : Chars(SubSeq(words, 1, n)) <= LINE_MAX})

(***************************************************************************)
(* difflib.SequenceMatcher: the words of two hypotheses that correspond.   *)
(* The longest common run, the first such in p and then in q, and so on to *)
(* both sides of it.                                                       *)
(***************************************************************************)
Blocks(p, q) ==
  [i0 : 1..(Len(p) + 1), i1 : 0..Len(p), j0 : 1..(Len(q) + 1), j1 : 0..Len(q)]

Runs(p, q, b) ==
  {r \in (b.i0..b.i1) \X (b.j0..b.j1) \X (1..Len(p)) :
     /\ r[1] + r[3] <= b.i1 + 1 /\ r[2] + r[3] <= b.j1 + 1
     /\ \A k \in 0..(r[3] - 1) : p[r[1] + k] = q[r[2] + k]}

Before(r, s) ==
  \/ r[3] > s[3]
  \/ r[3] = s[3] /\ (r[1] < s[1] \/ (r[1] = s[1] /\ r[2] <= s[2]))

First(runs) == {r \in runs : \A s \in runs : Before(r, s)}

Aligned(r) == {<<r[1] + k, r[2] + k>> : k \in 0..(r[3] - 1)}

Left(b, r) == [b EXCEPT !.i1 = r[1] - 1, !.j1 = r[2] - 1]
Right(b, r) == [b EXCEPT !.i0 = r[1] + r[3], !.j0 = r[2] + r[3]]

Matches(p, q) ==
  LET match[b \in Blocks(p, q)] ==
        UNION {Aligned(r) \cup match[Left(b, r)] \cup match[Right(b, r)] : r \in First(Runs(p, q, b))}
  IN  match[[i0 |-> 1, i1 |-> Len(p), j0 |-> 1, j1 |-> Len(q)]]

MutMapBoundary(previous, revised, committed) ==
  LET same == {n \in 0..Min({committed, Len(revised)}) :
                 SubSeq(previous, 1, n) = SubSeq(revised, 1, n)}
  IN  Max(same)

(***************************************************************************)
(* map_committed_word_boundary: the last promoted word keeps its place     *)
(* when it is matched; else it lies in a stretch that was replaced or      *)
(* deleted, and the boundary moves a like share of the way through what    *)
(* stands there now, rounded up.                                           *)
(***************************************************************************)
MapBoundary(previous, revised, committed) ==
  LET pairs == Matches(previous, revised)
      before == {m \in pairs : m[1] < committed}
      after == {m \in pairs : m[1] > committed}
      s0 == Max({0} \cup {m[1] : m \in before})
      t0 == Max({0} \cup {m[2] : m \in before})
      s1 == Min({Len(previous)} \cup {m[1] - 1 : m \in after})
      t1 == Min({Len(revised)} \cup {m[2] - 1 : m \in after})
  IN  IF committed = 0 THEN 0
      ELSE IF \E m \in pairs : m[1] = committed
           THEN (CHOOSE m \in pairs : m[1] = committed)[2]
      ELSE IF committed = s1 THEN t1
      ELSE t0 + ((committed - s0) * (t1 - t0) + (s1 - s0) - 1) \div (s1 - s0)

Revise(a, words, from) ==
  [a EXCEPT !.utt = words, !.promoted = MapBoundary(a.utt, words, a.promoted),
            !.start = IF @ = NoTime THEN from ELSE @]

(***************************************************************************)
(* The loop of _rollup: lines that are full, and, while the utterance is   *)
(* open, a line that ends a sentence, are finished.                        *)
(***************************************************************************)
Sentence(words) == words # <<>> /\ words[Len(words)] \in SentenceEnd

Lines(pending, close) ==
  LET lines[words \in Seq(Word)] ==
        LET wide == Chars(words) > LINE_MAX
            n == IF wide THEN TakeLineWords(words) ELSE Len(words)
        IN  IF wide \/ (Sentence(words) /\ ~close)
            THEN <<SubSeq(words, 1, n)>> \o lines[SubSeq(words, n + 1, Len(words))]
            ELSE <<>>
  IN  lines[pending]

(***************************************************************************)
(* _rollup: the finished lines, then the remainder, as a line too when the *)
(* utterance is over, else as a partial unless it shows already.  The      *)
(* lines after the first start at the time all of them end.                *)
(***************************************************************************)
Rolled(a, lines, rest, close, end) ==
  LET shown == IF lines = <<>> THEN a.shown ELSE <<>>
      start == IF lines = <<>> THEN a.start ELSE end
  IN  IF rest # <<>> /\ close
      THEN [adapter |-> [a EXCEPT !.promoted = Len(a.utt), !.start = start, !.shown = <<>>],
            finals |-> Append(lines, rest), partial |-> <<>>]
      ELSE [adapter |-> [a EXCEPT !.promoted = Len(a.utt) - Len(rest), !.start = start,
                                  !.shown = IF rest = <<>> THEN shown ELSE rest],
            finals |-> lines, partial |-> IF rest = shown THEN <<>> ELSE rest]

Split(a, lines, close, end) ==
  LET promoted == a.promoted + Len(FlattenSeq(lines))
  IN  Rolled(a, lines, SubSeq(a.utt, promoted + 1, Len(a.utt)), close, end)

Rollup(a, close, end) == Split(a, Lines(Pending(a), close), close, end)

ResetUtterance(a) == [NewAdapter EXCEPT !.flushed = a.flushed]

(***************************************************************************)
(* ingest: first the final text of an utterance that ended (Closed), then  *)
(* the text of the one in progress (Opened), either of which may be empty. *)
(* The step heard the samples between from and to; the recogniser's own    *)
(* times of a final are forgotten with its utterance.                      *)
(***************************************************************************)
Closed(a, final, from, to) ==
  IF final = <<>> THEN [adapter |-> a, finals |-> <<>>]
  ELSE [adapter |-> ResetUtterance(a), finals |-> Rollup(Revise(a, final, from), TRUE, to).finals]

Opened(r, partial, from, to) ==
  LET open == Rollup(Revise(r.adapter, partial, from), FALSE, to)
  IN  IF partial = <<>> THEN r ELSE [adapter |-> open.adapter, finals |-> r.finals \o open.finals]

Ingest(a, final, partial, from, to) ==
  Opened(Closed(a, final, from, to), partial, from, to)

(***************************************************************************)
(* force_final, after the output r of the last frame.                      *)
(***************************************************************************)
ForceFinal(r, end) ==
  LET flushed == [r.adapter EXCEPT !.flushed = TRUE]
  IN  IF r.adapter.flushed \/ Pending(flushed) = <<>>
      THEN [r EXCEPT !.adapter = flushed]
      ELSE [adapter |-> ResetUtterance(flushed),
            finals |-> r.finals \o Rollup(flushed, TRUE, end).finals]

-----------------------------------------------------------------------------
(***************************************************************************)
(* The hypotheses looked at.                                               *)
(***************************************************************************)
Hypotheses(n) == UNION {[1..k -> Word] : k \in 0..n}

(***************************************************************************)
(* A revision moves no word that its alignment keeps across the boundary:  *)
(* kept and promoted, it is not sent again; kept and not promoted, it is   *)
(* not lost.  The alignment may keep other words than the eye would (a b a *)
(* b c revised to a b c), and nothing is said of a word it does not keep.  *)
(***************************************************************************)
BoundaryPreserved ==
  \A p, q \in Hypotheses(3) : \A committed \in 1..Len(p) :
    LET boundary == MapBoundary(p, q, committed)
    IN  /\ boundary \in 0..Len(q)
        /\ \A m \in Matches(p, q) : m[1] <= committed <=> m[2] <= boundary

(***************************************************************************)
(* What is sent of a hypothesis is its unsent words in order, in lines     *)
(* that fit the display unless they are one word.                          *)
(***************************************************************************)
LinesWhole ==
  \A utt \in Hypotheses(4) : \A promoted \in 0..Len(utt), close \in BOOLEAN :
    LET a == [NewAdapter EXCEPT !.utt = utt, !.promoted = promoted]
        r == Rollup(a, close, 0)
    IN  /\ FlattenSeq(r.finals) \o r.partial = Pending(a)
        /\ Pending(r.adapter) = r.partial
        /\ \A l \in ToSet(r.finals) \cup {r.partial} : Chars(l) <= LINE_MAX \/ Len(l) = 1
=============================================================================
