----------------------------- MODULE VideoClock -----------------------------
(***************************************************************************)
(* What the display is programmed with for a mode: the mode table          *)
(* (video_modes.c), the raster of the timing generator (video_vtc.c) and   *)
(* the dividers of the pixel clock (video_dynclk.c).                       *)
(*                                                                         *)
(* Frequencies are counted in quarters of a MHz: every mode's clock and    *)
(* the 100 MHz reference are whole, so fractions are compared exactly.     *)
(***************************************************************************)
EXTENDS VtcRegisters

Axis(active, start, end, max, pol) ==
  [active |-> active, start |-> start, end |-> end, max |-> max, pol |-> pol]
Timing(clock, h, v) == [clock |-> clock, h |-> h, v |-> v]

ModeTable ==
  [m \in {"640x480", "800x600", "1280x720", "1280x1024", "1920x1080"} |->
    CASE m = "640x480" -> Timing(100, Axis(640, 656, 752, 799, 0), Axis(480, 490, 492, 524, 0))
      [] m = "800x600" -> Timing(160, Axis(800, 840, 968, 1055, 1), Axis(600, 601, 605, 627, 1))
      [] m = "1280x720" -> Timing(297, Axis(1280, 1390, 1430, 1649, 1), Axis(720, 725, 730, 749, 1))
      [] m = "1280x1024" -> Timing(432, Axis(1280, 1328, 1440, 1687, 1), Axis(1024, 1025, 1028, 1065, 1))
      [] m = "1920x1080" -> Timing(594, Axis(1920, 2008, 2052, 2199, 1), Axis(1080, 1084, 1089, 1124, 1))]

(***************************************************************************)
(* video_modes_find.                                                       *)
(***************************************************************************)
Find(width, height) ==
  {m \in DOMAIN ModeTable : ModeTable[m].h.active = width /\ ModeTable[m].v.active = height}

-----------------------------------------------------------------------------
(***************************************************************************)
(* video_vtc_configure_generator: the raster of a mode.                    *)
(***************************************************************************)
Generator(a) == [active |-> a.active, front |-> a.start - a.active, sync |-> a.end - a.start,
                 back |-> a.max - a.end + 1, pol |-> a.pol]
Raster(t) == [h |-> Generator(t.h), v |-> Generator(t.v)]

(***************************************************************************)
(* video_vtc_read_detector_timing and video_modes_find on a raster that    *)
(* the detector has measured.                                              *)
(***************************************************************************)
Detected(r) ==
  LET t == GetDetectorTiming(r)
  IN  IF t.h.active = 0 \/ t.v.active = 0 THEN {} ELSE Find(t.h.active, t.v.active)

-----------------------------------------------------------------------------
REFERENCE == 400     \* 100 MHz
MAX_ERROR == 40      \* DYNCLK_MAX_FREQ_ERR_MHZ

Abs(n) == IF n < 0 THEN -n ELSE n

(***************************************************************************)
(* clk_find_params: the fabric clock is five times the pixel clock f.  For *)
(* every reference divider and feedback multiplier, the nearest output     *)
(* divider; of those, one of the nearest.  Which of several equally near   *)
(* ones the rounding of the doubles leaves first is not decided here.      *)
(***************************************************************************)
Candidates(f) ==
  UNION {{[div |-> d, fb |-> b, out |-> (2 * REFERENCE * b + 5 * f * d) \div (10 * f * d)] :
            b \in (6 * d)..(IF 12 * d > 64 THEN 64 ELSE 12 * d)} : d \in 1..10}

Nearer(p, q, f) ==
  Abs(REFERENCE * p.fb - 5 * f * p.div * p.out) * (q.div * q.out)
    < Abs(REFERENCE * q.fb - 5 * f * q.div * q.out) * (p.div * p.out)

BestPicks(f) ==
  LET real == {p \in Candidates(f) : p.out > 0}
  IN  {p \in real : \A q \in real : ~Nearer(q, p, f)}

(***************************************************************************)
(* video_dynclk_configure accepts a pick close enough to what was asked.   *)
(***************************************************************************)
Accepts(p, f) ==
  Abs(REFERENCE * p.fb - 5 * f * p.div * p.out) <= 5 * MAX_ERROR * (p.div * p.out)

MutClkDivider(n) ==
  IF n = 1 THEN [high |-> 1, low |-> 1, wedge |-> FALSE, nocount |-> TRUE]
  ELSE [high |-> (n \div 2) % 64, low |-> (n \div 2) % 64,
        wedge |-> n % 2 = 1, nocount |-> FALSE]

(***************************************************************************)
(* clk_divider: the fields of a counter register that divides by n.        *)
(***************************************************************************)
ClkDivider(n) ==
  IF n = 1 THEN [high |-> 1, low |-> 1, wedge |-> FALSE, nocount |-> TRUE]
  ELSE [high |-> (n \div 2) % 64, low |-> (n - n \div 2) % 64,
        wedge |-> n % 2 = 1, nocount |-> FALSE]

(***************************************************************************)
(* clk_find_reg.                                                           *)
(***************************************************************************)
Encodable(p) == p.fb \in 2..64 /\ p.out \in 1..128 /\ p.div \in 1..128

(***************************************************************************)
(* What the clock manager does with a counter register: high and low       *)
(* phases, 0 standing for 64, or none at all.                              *)
(***************************************************************************)
Counter(r) ==
  LET phase(n) == IF n = 0 THEN 64 ELSE n
  IN  IF r.nocount THEN 1 ELSE phase(r.high) + phase(r.low)

-----------------------------------------------------------------------------
(***************************************************************************)
(* The clock that comes out of the registers for pick p, in kHz, and the   *)
(* frames a second, in tenths, of a raster with that clock.                *)
(***************************************************************************)
PixelClock(p) ==
  (100000 * Counter(ClkDivider(p.fb)))
    \div (5 * Counter(ClkDivider(p.div)) * Counter(ClkDivider(p.out)))

Refresh(t, p) ==
  (PixelClock(p) * 10000) \div (RasterLength(Generator(t.h)) * RasterLength(Generator(t.v)))

(***************************************************************************)
(* Whatever pick the search leaves, the clock manager can run it (its      *)
(* oscillator between 600 and 1200 MHz), the clock is within half a        *)
(* percent of the mode's, the raster is 60 Hz within one percent and is    *)
(* what the generator's registers say; and a source that sends this raster *)
(* is recognised as this mode.                                             *)
(***************************************************************************)
Displayable(m) ==
  LET t == ModeTable[m]
  IN  /\ \A p \in BestPicks(t.clock) :
           /\ Accepts(p, t.clock) /\ Encodable(p)
           /\ REFERENCE * p.fb >= 2400 * p.div /\ REFERENCE * p.fb <= 4800 * p.div
           /\ Abs(PixelClock(p) - 250 * t.clock) * 200 <= 250 * t.clock
           /\ Refresh(t, p) \in 594..606
      /\ Generates(Raster(t))
      /\ Detected(SetGenerator(ConvTiming2Signal(Raster(t)))) = {m}
=============================================================================
