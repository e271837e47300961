--------------------------- MODULE CaptionScreen ---------------------------
(***************************************************************************)
(* What a viewer sees of the captions: the newest text at the bottom and,  *)
(* above it, at most the finished sentence it follows.  A new text pushes  *)
(* a finished one up and overwrites an unfinished one.                     *)
(***************************************************************************)
CONSTANTS Finals, Partials, None

VARIABLES top, bottom

cvars == <<top, bottom>>

CInit == top = None /\ bottom = None

NewText(c) == bottom' = c /\ top' = IF bottom \in Finals THEN bottom ELSE top

DropTop == bottom # None /\ top' = None /\ UNCHANGED bottom

Blank == top' = None /\ bottom' = None

CNext == (\E c \in Finals \cup Partials : NewText(c)) \/ DropTop \/ Blank

CSpec == CInit /\ [][CNext]_cvars
=============================================================================
