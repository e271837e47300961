----------------------------- MODULE CaptionHal -----------------------------
(***************************************************************************)
(* The hardware of the captions: the overlay's registers                   *)
(* (subtitle_overlay.c), the mask the box is filled from (subtitle_bram.c) *)
(* and the pipeline that keeps both in step (subtitle_pipeline.c,          *)
(* render_current_state of SubtitleAO.c).                                  *)
(*                                                                         *)
(* A record p holds the pipeline and its registers; every operation yields *)
(* the record it leaves behind, p.ok telling whether it returned 0.  The   *)
(* mask is a function on its words, the bitmap of a caption one on the     *)
(* words it covers; a colour is never changed after the start.             *)
(***************************************************************************)
EXTENDS Integers, Sequences

MaskWidth == 1024
MaskHeight == 256

Off == [width |-> 0, height |-> 0, x |-> 0, y |-> 0]

NoDisplay == [width |-> 0, height |-> 0]

(***************************************************************************)
(* What the firmware finds when it starts: no pipeline, and in the         *)
(* hardware whatever an earlier run has left.                              *)
(***************************************************************************)
PoweredUp(control, mask) ==
  [initialized |-> FALSE, platformReady |-> FALSE, ok |-> TRUE,
   display |-> NoDisplay, box |-> Off, pos |-> 0, size |-> 0, control |-> control,
   mask |-> mask, shadow |-> [k \in DOMAIN mask |-> 0]]

Failed(p) == [p EXCEPT !.ok = FALSE]

-----------------------------------------------------------------------------
(***************************************************************************)
(* subtitle_overlay_configure: four 16-bit fields in two registers, each   *)
(* checked before it is packed.                                            *)
(***************************************************************************)
FieldMax == 65535

Field == 0..FieldMax

Pack(high, low) == 65536 * high + (low % 65536)

High(register) == register \div 65536
Low(register)  == register % 65536

Configure(p, box) ==
  IF /\ box.width \in Field \ {0} /\ box.height \in Field \ {0}
     /\ box.x \in Field /\ box.y \in Field
  THEN [p EXCEPT !.pos = Pack(box.y, box.x), !.size = Pack(box.height, box.width), !.ok = TRUE]
  ELSE Failed(p)

(***************************************************************************)
(* subtitle_overlay_enable keeps the other bits of the register.           *)
(***************************************************************************)
Enable(p)  == [p EXCEPT !.control = p.control \cup {"ENABLE"}, !.ok = TRUE]
Disable(p) == [p EXCEPT !.control = p.control \ {"ENABLE"}, !.ok = TRUE]

(***************************************************************************)
(* reverse_bits_u8 swaps fields of 4, 2 and 1 bits; subtitle_bram_pack_word *)
(* puts four bytes of pixels, the leftmost in bit 7 of the first, into one *)
(* word.                                                                   *)
(***************************************************************************)
SwapFields(byte, n) == [i \in 0..7 |-> byte[IF (i \div n) % 2 = 0 THEN i + n ELSE i - n]]

ReverseBits(byte) == SwapFields(SwapFields(SwapFields(byte, 4), 2), 1)

PackWord(bytes) == [i \in 0..31 |-> ReverseBits(bytes[i \div 8])[i % 8]]

(***************************************************************************)
(* subtitle_bram_clear writes every word; subtitle_bram_write_full_bitmap  *)
(* only those that differ from the shadow.                                 *)
(***************************************************************************)
ClearMask(p) ==
  [p EXCEPT !.mask = [k \in DOMAIN p.mask |-> 0], !.shadow = [k \in DOMAIN p.mask |-> 0], !.ok = TRUE]

Changed(p, bitmap) == {k \in DOMAIN bitmap : bitmap[k] # p.shadow[k]}

Overlaid(words, bitmap, changed) ==
  [k \in DOMAIN words |-> IF k \in changed THEN bitmap[k] ELSE words[k]]

WriteBitmap(p, bitmap) ==
  [p EXCEPT !.mask = Overlaid(p.mask, bitmap, Changed(p, bitmap)),
            !.shadow = Overlaid(p.shadow, bitmap, Changed(p, bitmap)), !.ok = TRUE]

-----------------------------------------------------------------------------
(***************************************************************************)
(* default_config: a bar of four fifths of the display, but never smaller  *)
(* than the mask, near its bottom.                                         *)
(***************************************************************************)
AtLeast(a, b) == IF a < b THEN b ELSE a

Margin(display) == display.height \div 20

FromTop(display, height) ==
  IF display.height > height + Margin(display) THEN display.height - height - Margin(display) ELSE 0

DefaultBox(display) ==
  LET width == AtLeast((display.width * 4) \div 5, MaskWidth)
      height == AtLeast(display.height \div 6, MaskHeight)
  IN  [width |-> width, height |-> height,
       x |-> IF display.width > width THEN (display.width - width) \div 2 ELSE 0,
       y |-> FromTop(display, height)]

(***************************************************************************)
(* configure_hardware: a blank, disabled overlay; disabled also when a     *)
(* stage fails.  (subtitle_bram_init only zeroes the shadow.)              *)
(***************************************************************************)
ConfigureHardware(p) ==
  LET configured == Configure([p EXCEPT !.shadow = [k \in DOMAIN p.mask |-> 0]], p.box)
  IN  IF configured.ok THEN Disable(ClearMask(configured)) ELSE Failed(Disable(configured))

(***************************************************************************)
(* subtitle_pipeline_init, once the registers are mapped: a failure gives  *)
(* the platform back.                                                      *)
(***************************************************************************)
PipelineInit(p, display) ==
  LET started == ConfigureHardware([p EXCEPT !.display = display, !.box = DefaultBox(display)])
  IN  [started EXCEPT !.initialized = started.ok, !.platformReady = started.ok]

(***************************************************************************)
(* subtitle_pipeline_cleanup.                                              *)
(***************************************************************************)
PipelineCleanup(p) ==
  [(IF p.initialized THEN Disable(p) ELSE p) EXCEPT
     !.initialized = FALSE, !.platformReady = FALSE, !.display = NoDisplay, !.box = Off,
     !.shadow = [k \in DOMAIN p.mask |-> 0]]

(***************************************************************************)
(* subtitle_pipeline_set_box: a box that fits mask and display, centred    *)
(* near the bottom.                                                        *)
(***************************************************************************)
BoxFits(display, box) ==
  /\ box.width \in 1..MaskWidth /\ box.width <= display.width
  /\ box.height \in 1..MaskHeight /\ box.height <= display.height

PlaceBox(display, box) ==
  [width |-> box.width, height |-> box.height,
   x |-> (display.width - box.width) \div 2, y |-> FromTop(display, box.height)]

SetBox(p, box) ==
  LET at == PlaceBox(p.display, box)
      configured == Configure(p, at)
  IN  IF ~p.initialized \/ ~BoxFits(p.display, box) THEN Failed(p)
      ELSE IF configured.ok THEN [configured EXCEPT !.box = at] ELSE configured

(***************************************************************************)
(* subtitle_pipeline_write_caption: draw, which may be refused, place the  *)
(* box, wipe the mask and fill it.                                         *)
(***************************************************************************)
WriteCaption(p, caption) ==
  LET placed == SetBox(p, caption)
  IN  IF ~p.initialized \/ caption.kind = "refused" THEN Failed(p)
      ELSE IF placed.ok THEN WriteBitmap(ClearMask(placed), caption.bitmap) ELSE placed

(***************************************************************************)
(* render_current_state: blank and disable when nothing is to be shown,    *)
(* else draw and enable.  A failure ends in quiesce, the pipeline's        *)
(* cleanup.                                                                *)
(***************************************************************************)
RenderCaption(p, caption) ==
  LET written == WriteCaption(p, caption)
  IN  IF caption.kind = "none" THEN Disable(ClearMask(p))
      ELSE IF written.ok THEN Enable(written) ELSE written

RenderOrQuit(p, caption) ==
  LET rendered == RenderCaption(p, caption)
  IN  IF rendered.ok THEN rendered ELSE PipelineCleanup(rendered)

-----------------------------------------------------------------------------
(***************************************************************************)
(* A started pipeline: its shadow is a copy of the mask, the registers     *)
(* hold its box.  A pipeline that is down has its overlay disabled.        *)
(***************************************************************************)
InStep(p) ==
  IF p.initialized
  THEN /\ p.platformReady /\ p.shadow = p.mask
       /\ p.pos = Pack(p.box.y, p.box.x) /\ p.size = Pack(p.box.height, p.box.width)
  ELSE ~p.platformReady /\ "ENABLE" \notin p.control

(***************************************************************************)
(* The viewer sees this caption: its box lies on the display, the mask     *)
(* holds its bitmap and nothing of an earlier one.                         *)
(***************************************************************************)
OnDisplay(p) ==
  /\ Low(p.pos) + Low(p.size) <= p.display.width
  /\ High(p.pos) + High(p.size) <= p.display.height

Showing(p, caption) ==
  /\ "ENABLE" \in p.control /\ OnDisplay(p)
  /\ Low(p.size) = caption.width /\ High(p.size) = caption.height
  /\ \A k \in DOMAIN p.mask :
       p.mask[k] = IF k \in DOMAIN caption.bitmap THEN caption.bitmap[k] ELSE 0

BlankAndOff(p) == "ENABLE" \notin p.control /\ \A k \in DOMAIN p.mask : p.mask[k] = 0

(***************************************************************************)
(* After a caption: shown, or nothing to show, or the pipeline is down.    *)
(***************************************************************************)
ShownOrOff(p, caption) ==
  /\ InStep(p)
  /\ p.initialized => IF caption.kind = "none" THEN BlankAndOff(p) ELSE Showing(p, caption)
  /\ ~p.initialized => caption.kind # "none"

-----------------------------------------------------------------------------
Caption(kind, width, height, bitmap) ==
  [kind |-> kind, width |-> width, height |-> height, bitmap |-> bitmap]

SampleCaptions ==
  {Caption("none", 0, 0, <<>>), Caption("refused", 0, 0, <<>>)} \cup
  {Caption("drawn", width, height, bitmap) :
     width \in {32, 1024}, height \in {45, 256}, bitmap \in {<<1>>, <<2, 0>>, <<0, 2, 1>>}}

SampleDisplays == [width : {640, 1920}, height : {200, 480, 1080}]

LeftBehind == {PoweredUp(control, mask) : control \in SUBSET {"ENABLE", "SOF"}, mask \in [1..3 -> {0, 2}]}

(***************************************************************************)
(* Whatever was left in the hardware, the pipeline comes up blank, and     *)
(* from then on each of two captions in a row is shown alone or takes the  *)
(* captions down; a stop leaves nothing enabled.                           *)
(***************************************************************************)
CaptionsShown ==
  \A p \in LeftBehind, display \in SampleDisplays :
    LET up == PipelineInit(p, display)
    IN  /\ up.initialized /\ InStep(up) /\ BlankAndOff(up)
        /\ \A first \in SampleCaptions :
             LET once == RenderOrQuit(up, first)
             IN  /\ ShownOrOff(once, first)
                 /\ once.initialized =>
                      \A second \in SampleCaptions : ShownOrOff(RenderOrQuit(once, second), second)
                 /\ InStep(PipelineCleanup(once))

(***************************************************************************)
(* Pixel i of a row is bit i of its word.                                  *)
(***************************************************************************)
PixelsInOrder ==
  \A byte \in [0..7 -> {0, 1}] : \A j \in 0..3 :
    LET word == PackWord([b \in 0..3 |-> IF b = j THEN byte ELSE [i \in 0..7 |-> 0]])
    IN  \A i \in 0..31 : word[i] = IF i \div 8 = j THEN byte[7 - (i % 8)] ELSE 0
=============================================================================
