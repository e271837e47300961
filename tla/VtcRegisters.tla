---------------------------- MODULE VtcRegisters ----------------------------
(***************************************************************************)
(* The video timing controller as video_vtc.c uses its driver (xvtc.c):    *)
(* a progressive raster becomes signal positions, the positions become     *)
(* generator registers, and the registers of the detector, which are laid  *)
(* out alike, become a raster again.                                       *)
(*                                                                         *)
(* A raster has an axis [active, front, sync, back, pol] in each           *)
(* direction.  A register holds one number of 13 bits, or two.             *)
(***************************************************************************)
EXTENDS Integers

Field(n) == n % 8192
Pair(low, high) == [low |-> Field(low), high |-> Field(high)]

(***************************************************************************)
(* XVtc_ConvTiming2Signal: where each part of a line and of a frame starts *)
(* when the picture starts at 0; lines of the sync are counted one early.  *)
(***************************************************************************)
ConvTiming2Signal(t) ==
  LET hSync == t.h.active + t.h.front
      vSync == t.v.active + t.v.front - 1
  IN  [hFront |-> t.h.active, hSync |-> hSync, hBack |-> hSync + t.h.sync,
       hTotal |-> hSync + t.h.sync + t.h.back,
       vFront |-> t.v.active, vSync |-> vSync, vBack |-> vSync + t.v.sync,
       vTotal |-> vSync + t.v.sync + t.v.back + 1]

(***************************************************************************)
(* The polarities that are set: blanking follows sync.                     *)
(***************************************************************************)
SetPolarity(t) ==
  {"chroma", "active", "field"} \cup (IF t.v.pol = 1 THEN {"vblank", "vsync"} ELSE {})
                                \cup (IF t.h.pol = 1 THEN {"hblank", "hsync"} ELSE {})

(***************************************************************************)
(* XVtc_SetGenerator and XVtc_SetGeneratorHoriOffset; the second field is  *)
(* programmed like the first.                                              *)
(***************************************************************************)
SetGenerator(s) ==
  [hsize |-> Field(s.hTotal), vsize |-> Pair(s.vTotal, s.vTotal), asize |-> Pair(s.hFront, s.vFront),
   hsync |-> Pair(s.hSync, s.hBack), vsync |-> Pair(s.vSync, s.vBack)]

SetHoriOffset(s) == [blank |-> Pair(s.hFront, s.hFront), sync |-> Pair(s.hSync, s.hSync)]

SetGeneratorTiming(t) ==
  [size |-> SetGenerator(ConvTiming2Signal(t)), offset |-> SetHoriOffset(ConvTiming2Signal(t)),
   polarity |-> SetPolarity(t)]

(***************************************************************************)
(* XVtc_GetDetector and XVtc_ConvSignal2Timing.  Read back, the vertical   *)
(* sync and back porch are each one line longer than they were programmed; *)
(* only the active size is used.                                           *)
(***************************************************************************)
GetDetector(r) ==
  [hFront |-> r.asize.low, hSync |-> r.hsync.low, hBack |-> r.hsync.high, hTotal |-> r.hsize,
   vFront |-> r.asize.high, vSync |-> r.vsync.low, vBack |-> r.vsync.high, vTotal |-> r.vsize.low]

ConvSignal2Timing(s) ==
  [h |-> [active |-> s.hFront, front |-> s.hSync - s.hFront, sync |-> s.hBack - s.hSync,
          back |-> s.hTotal - s.hBack],
   v |-> [active |-> s.vFront, front |-> s.vSync - s.vFront + 1, sync |-> s.vBack - s.vSync + 1,
          back |-> s.vTotal - s.vBack]]

GetDetectorTiming(r) == ConvSignal2Timing(GetDetector(r))

(***************************************************************************)
(* The bits of the control register: the core, its generator and detector, *)
(* the register update, and the seventeen sources, which stand as one.     *)
(***************************************************************************)
Configured(ctl) == ctl \cup {"RU", "SOURCES"}
GeneratorStarted(ctl) == ctl \cup {"GE", "SW"}
GeneratorStopped(ctl) == ctl \ {"GE"}

(***************************************************************************)
(* The generator's lines and frames are as long as the raster's, the sync  *)
(* lies between picture and end, nothing is cut to its field, and whatever *)
(* the core did before, it now generates from its own registers.           *)
(***************************************************************************)
RasterLength(a) == a.active + a.front + a.sync + a.back

Generates(t) ==
  LET g == SetGeneratorTiming(t)
      r == g.size
  IN  /\ r.hsize = RasterLength(t.h) /\ r.vsize.low = RasterLength(t.v)
      /\ t.h.active = r.asize.low /\ r.asize.low < r.hsync.low
      /\ r.hsync.low < r.hsync.high /\ r.hsync.high < r.hsize
      /\ t.v.active = r.asize.high /\ r.asize.high <= r.vsync.low
      /\ r.vsync.low < r.vsync.high /\ r.vsync.high < r.vsize.low
      /\ g.offset.sync.low = r.hsync.low
      /\ ("vsync" \in g.polarity) <=> (t.v.pol = 1)
      /\ \A before \in SUBSET {"RU", "SOURCES", "GE", "SW", "DE"} :
           GeneratorStarted(Configured(GeneratorStopped(before))) \ {"DE"}
             = {"RU", "SOURCES", "GE", "SW"}
=============================================================================
