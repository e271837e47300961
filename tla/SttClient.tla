----------------------------- MODULE SttClient -----------------------------
(***************************************************************************)
(* The STT WebSocket client (stt_ws_client.c): one worker thread connects, *)
(* upgrades, starts a session, reads the server's frames and sends the     *)
(* audio the capture thread queues (AudioTxq), over one connection         *)
(* (NetTls); SttAO starts it, asks it to stop and joins it.  Every failure *)
(* drops the session and backs off.                                        *)
(* An action is a step of one thread, up to its next call that waits.      *)
(***************************************************************************)
EXTENDS AudioTxq, NetTls

CONSTANTS BackoffMin, BackoffMax,  \* config.backoff_min_ms, backoff_max_ms
          MaxChunks                \* bound: chunks captured

ASSUME BackoffAssumption ==
  /\ BackoffMin \in Nat \ {0} /\ BackoffMax \in Nat /\ BackoffMin <= BackoffMax

VARIABLES
  w,                  \* where the worker is
  state,              \* stt_ws_state_e
  conn,               \* conn # NULL
  stop,               \* stop_requested
  due, backoff,       \* next_attempt_ms has passed; backoff_ms
  msg,                \* msg_active and msg_overflow
  ring,               \* a transcript waits in the event ring
  hand,               \* the chunk worker_main has popped
  audioSeq,           \* audio_seq
  sent, lost,         \* chunks_sent, chunks_dropped_tx
  captured, refused,  \* capture thread: next_sequence, total_dropped
  base, last          \* history: first chunk of the session, last one sent

link == <<state, conn, due, backoff, msg, ring, tls>>
audio == <<hand, audioSeq, sent, lost, base, last>>
cap == <<captured, refused>>
vars == <<w, stop, link, audio, cap, txq>>

NoChunk == [id |-> -1, rep |-> 0, seq |-> -1]

WPoints == {"none", "born", "service", "open", "context", "handshake", "upgrade", "start", "starting",
            "pump", "upkeep", "pop", "wait", "send", "close", "done", "joined"}
States == {"idle", "wait_clock", "connecting", "handshaking", "starting", "ready", "backoff"}

Init ==
  /\ TxInit /\ TlsInit
  /\ w = "none" /\ stop = FALSE
  /\ state = "idle" /\ conn = FALSE /\ due = TRUE /\ backoff = 0
  /\ msg = "none" /\ ring = FALSE
  /\ hand = NoChunk /\ audioSeq = 0 /\ sent = 0 /\ lost = 0
  /\ captured = 0 /\ refused = 0
  /\ base = 0 /\ last = NoChunk

-----------------------------------------------------------------------------
(***************************************************************************)
(* The capture thread: stt_ws_client_submit_audio, refused until the       *)
(* worker runs.                                                            *)
(***************************************************************************)
Capture ==
  /\ captured < MaxChunks
  /\ captured' = captured + 1
  /\ \/ ~qopen /\ refused' = refused + 1 /\ UNCHANGED txq
     \/ TxPush([id |-> captured, rep |-> refused]) /\ UNCHANGED refused
  /\ UNCHANGED <<w, stop, link, audio>>

(***************************************************************************)
(* SttAO: stt_ws_client_start, _request_stop, and _finish_stop once        *)
(* _stop_complete holds.                                                   *)
(***************************************************************************)
StartWorker ==
  /\ w = "none" /\ w' = "born" /\ stop' = FALSE
  /\ UNCHANGED <<link, audio, cap, txq>>

RequestStop ==
  /\ w # "none" /\ ~stop /\ stop' = TRUE
  /\ UNCHANGED <<w, link, audio, cap, txq>>

FinishStop ==
  /\ w = "done" /\ stop /\ w' = "joined"
  /\ UNCHANGED <<stop, link, audio, cap, txq>>

-----------------------------------------------------------------------------
MutRound == IF stop /\ qcount = 0 THEN "close" ELSE "service"

(***************************************************************************)
(* The loop of worker_main looks at the stop request once a round.         *)
(***************************************************************************)
Round == IF stop THEN "close" ELSE "service"

Begin ==
  /\ w = "born" /\ w' = Round /\ TxOpen
  /\ UNCHANGED <<stop, link, audio, cap>>

(***************************************************************************)
(* service() failed: worker_main waits, send_audio_chunk drops its chunk.  *)
(***************************************************************************)
ServiceFailed ==
  \/ hand = NoChunk /\ w' = "wait" /\ UNCHANGED <<hand, lost>>
  \/ hand # NoChunk /\ hand' = NoChunk /\ lost' = lost + 1 /\ w' = Round

MutEnterBackoff ==
  /\ state' = "backoff" /\ due' = FALSE
  /\ backoff' = IF backoff = 0 THEN BackoffMin ELSE 2 * backoff

(***************************************************************************)
(* enter_backoff: doubled up to the maximum.                               *)
(***************************************************************************)
EnterBackoff ==
  /\ state' = "backoff" /\ due' = FALSE
  /\ backoff' = IF backoff = 0 THEN BackoffMin
                ELSE IF backoff > BackoffMax \div 2 THEN BackoffMax ELSE 2 * backoff

(***************************************************************************)
(* drop_session.                                                           *)
(***************************************************************************)
DropSession ==
  /\ conn' = FALSE /\ TlsClose /\ msg' = "none" /\ ring' = FALSE
  /\ TxDiscard /\ last' = NoChunk
  /\ EnterBackoff

-----------------------------------------------------------------------------
(***************************************************************************)
(* ensure_connected, by steps: nothing to do, not yet due, no plausible    *)
(* clock yet, or the next attempt ...                                      *)
(***************************************************************************)
AlreadyReady ==
  /\ w = "service" /\ state = "ready" /\ w' = "pump"
  /\ UNCHANGED <<stop, link, audio, cap, txq>>

NotDue ==
  /\ w = "service" /\ state # "ready" /\ ~due
  /\ ServiceFailed
  /\ UNCHANGED <<stop, link, audioSeq, sent, base, last, cap, txq>>

WaitClock ==
  /\ w = "service" /\ state # "ready" /\ due /\ UseTls
  /\ state' = "wait_clock" /\ due' = FALSE
  /\ ServiceFailed
  /\ UNCHANGED <<stop, conn, tls, backoff, msg, ring, audioSeq, sent, base, last, cap, txq>>

Attempt ==
  /\ w = "service" /\ state # "ready" /\ due
  /\ state' = "connecting" /\ w' = "open"
  /\ UNCHANGED <<stop, conn, tls, due, backoff, msg, ring, audio, cap, txq>>

MutGiveUp ==
  /\ EnterBackoff /\ w' = "close" /\ UNCHANGED <<hand, lost>>
  /\ UNCHANGED <<stop, conn, msg, ring, audioSeq, sent, base, last, cap, txq>>

(***************************************************************************)
(* ... open_connection, the stages of net_tls_open, ...                    *)
(***************************************************************************)
GiveUp ==
  /\ EnterBackoff /\ ServiceFailed
  /\ UNCHANGED <<stop, conn, msg, ring, audioSeq, sent, base, last, cap, txq>>

Connected ==
  /\ w = "open" /\ UseTls /\ TlsConnect /\ w' = "context"
  /\ UNCHANGED <<stop, state, conn, due, backoff, msg, ring, audio, cap, txq>>

ConnectFails == w = "open" /\ TlsConnectFails /\ GiveUp

ContextBuilt ==
  /\ w = "context" /\ TlsContext /\ w' = "handshake"
  /\ UNCHANGED <<stop, state, conn, due, backoff, msg, ring, audio, cap, txq>>

ContextFails == w = "context" /\ TlsContextFails /\ GiveUp

HandshakeFails == w = "handshake" /\ TlsHandshakeFails /\ GiveUp

(***************************************************************************)
(* The step to the next stage, unless a stop was requested meanwhile.      *)
(***************************************************************************)
Proceed(stage, next) ==
  /\ ~stop /\ state' = stage /\ w' = next /\ conn' = TRUE
  /\ UNCHANGED <<hand, lost>>

Open ==
  /\ w = (IF UseTls THEN "handshake" ELSE "open") /\ TlsOpened
  /\ Proceed("handshaking", "upgrade")
  /\ UNCHANGED <<stop, due, backoff, msg, ring, audioSeq, sent, base, last, cap, txq>>

(***************************************************************************)
(* ... run_upgrade, ...                                                    *)
(***************************************************************************)
Upgrade ==
  /\ w = "upgrade" /\ Proceed("starting", "start")
  /\ UNCHANGED <<stop, tls, due, backoff, msg, ring, audioSeq, sent, base, last, cap, txq>>

(***************************************************************************)
(* A stop seen after either of them: the connection just made is closed.   *)
(***************************************************************************)
Cancel ==
  /\ stop /\ w \in {IF UseTls THEN "handshake" ELSE "open", "upgrade"} /\ TlsClose
  /\ state' = "idle" /\ conn' = FALSE /\ ServiceFailed
  /\ UNCHANGED <<stop, due, backoff, msg, ring, audioSeq, sent, base, last, cap, txq>>

(***************************************************************************)
(* ... and start_session: session_start is sent, then frames are read      *)
(* until the server is ready, the time is up, or a stop was requested.     *)
(***************************************************************************)
StartSent ==
  /\ w = "start" /\ w' = "starting"
  /\ UNCHANGED <<stop, link, audio, cap, txq>>

SessionReady ==
  /\ w = "starting" /\ state = "ready" /\ w' = "pump"
  /\ UNCHANGED <<stop, link, audio, cap, txq>>

Abandon(points) ==
  /\ w \in points /\ DropSession /\ ServiceFailed
  /\ UNCHANGED <<stop, audioSeq, sent, base, cap>>

UpgradeFails == Abandon({"upgrade"})
StartFails == Abandon({"start"})
StartTimesOut == state # "ready" /\ Abandon({"starting"})

-----------------------------------------------------------------------------
(***************************************************************************)
(* pump_rx, in start_session and in service: one frame each.  The receive  *)
(* fails, the server closes, a frame is malformed, a pong cannot be sent,  *)
(* the server reports an error (busy or not), session_ready is unusable:   *)
(***************************************************************************)
PumpFails == Abandon({"starting", "pump"})

(***************************************************************************)
(* A text or continuation frame, of which the message buffer still takes   *)
(* the payload or not (handle_frame).  Other frames, and a continuation of *)
(* nothing, change nothing here.                                           *)
(***************************************************************************)
Fragment(first, fits) ==
  /\ w \in {"starting", "pump"}
  /\ first \/ msg # "none"

Overflows(first, fits) == ~fits \/ (~first /\ msg = "overflow")

MessagePart ==
  /\ \E first \in BOOLEAN, fits \in BOOLEAN :
       /\ Fragment(first, fits)
       /\ msg' = IF Overflows(first, fits) THEN "overflow" ELSE "partial"
  /\ UNCHANGED <<w, stop, state, conn, tls, due, backoff, ring, audio, cap, txq>>

MessageTooLong ==
  /\ \E first \in BOOLEAN, fits \in BOOLEAN : Fragment(first, fits) /\ Overflows(first, fits)
  /\ msg' = "none"
  /\ UNCHANGED <<w, stop, state, conn, tls, due, backoff, ring, audio, cap, txq>>

Complete == \E first \in BOOLEAN : Fragment(first, TRUE) /\ ~Overflows(first, TRUE)

(***************************************************************************)
(* handle_text_message: a transcript, ...                                  *)
(***************************************************************************)
Transcript ==
  /\ Complete
  /\ msg' = "none" /\ ring' = TRUE
  /\ UNCHANGED <<w, stop, state, conn, tls, due, backoff, audio, cap, txq>>

MutReady ==
  /\ Complete /\ state = "starting"
  /\ msg' = "none" /\ state' = "ready" /\ backoff' = 0
  /\ audioSeq' = 0 /\ base' = captured
  /\ UNCHANGED <<w, stop, conn, tls, due, ring, hand, sent, lost, last, cap, txq>>

(***************************************************************************)
(* ... session_ready, which the server sends once a session, or a message  *)
(* that changes nothing here.                                              *)
(***************************************************************************)
Ready ==
  /\ Complete /\ state = "starting"
  /\ msg' = "none" /\ state' = "ready" /\ backoff' = 0
  /\ audioSeq' = 0 /\ TxDiscard /\ base' = captured
  /\ UNCHANGED <<w, stop, conn, tls, due, ring, hand, sent, lost, last, cap>>

OtherMessage ==
  /\ Complete /\ msg # "none" /\ msg' = "none"
  /\ UNCHANGED <<w, stop, state, conn, tls, due, backoff, ring, audio, cap, txq>>

(***************************************************************************)
(* Nothing more to read.                                                   *)
(***************************************************************************)
PumpIdle ==
  /\ w = "pump" /\ w' = "upkeep"
  /\ UNCHANGED <<stop, link, audio, cap, txq>>

(***************************************************************************)
(* The rest of service: the idle timeout; else the ping, whose failure is  *)
(* ignored.                                                                *)
(***************************************************************************)
IdleTimeout == Abandon({"upkeep"})

Upkeep ==
  /\ w = "upkeep"
  /\ w' = IF hand = NoChunk THEN "pop" ELSE "send"
  /\ backoff' \in {backoff, 0}
  /\ UNCHANGED <<stop, state, conn, tls, due, msg, ring, audio, cap, txq>>

-----------------------------------------------------------------------------
(***************************************************************************)
(* worker_main: a chunk is popped and goes through service again before    *)
(* it is sent (send_audio_chunk).                                          *)
(***************************************************************************)
Pop ==
  /\ w = "pop" /\ TxPop
  /\ hand' = [id |-> TxHead.id, rep |-> TxHead.rep, seq |-> -1]
  /\ w' = "service"
  /\ UNCHANGED <<stop, link, audioSeq, sent, lost, base, last, cap>>

PopNothing ==
  /\ w = "pop" /\ qcount = 0 /\ w' = "wait"
  /\ UNCHANGED <<stop, link, audio, cap, txq>>

Wait ==
  /\ w = "wait" /\ w' = Round
  /\ UNCHANGED <<stop, link, audio, cap, txq>>

Send ==
  /\ w = "send" /\ w' = Round
  /\ last' = [hand EXCEPT !.seq = audioSeq] /\ hand' = NoChunk
  /\ audioSeq' = audioSeq + 1 /\ sent' = sent + 1
  /\ UNCHANGED <<stop, link, lost, base, cap, txq>>

SendFails ==
  /\ w = "send" /\ w' = Round
  /\ lost' = lost + 1 /\ hand' = NoChunk
  /\ DropSession
  /\ UNCHANGED <<stop, audioSeq, sent, base, cap>>

(***************************************************************************)
(* The worker takes leave, if there is somebody to take leave of, and      *)
(* publishes worker_done.                                                  *)
(***************************************************************************)
Close ==
  /\ w = "close" /\ w' = "done"
  /\ conn' = FALSE /\ TlsClose /\ state' = "idle" /\ last' = NoChunk
  /\ UNCHANGED <<stop, due, backoff, msg, ring, hand, audioSeq, sent, lost, base, cap, txq>>

-----------------------------------------------------------------------------
(***************************************************************************)
(* Time passes, and SttAO polls the transcripts.                           *)
(***************************************************************************)
Due ==
  /\ ~due /\ due' = TRUE
  /\ UNCHANGED <<w, stop, state, conn, tls, backoff, msg, ring, audio, cap, txq>>

PollEvents ==
  /\ ring /\ ring' = FALSE
  /\ UNCHANGED <<w, stop, state, conn, tls, due, backoff, msg, audio, cap, txq>>

Connect == AlreadyReady \/ NotDue \/ WaitClock \/ Attempt \/ Connected \/ ConnectFails
           \/ ContextBuilt \/ ContextFails \/ HandshakeFails \/ Open \/ Cancel
           \/ Upgrade \/ UpgradeFails \/ StartSent \/ StartFails \/ SessionReady \/ StartTimesOut
Receive == MessagePart \/ MessageTooLong \/ Transcript \/ Ready \/ OtherMessage \/ PumpFails
Serve == PumpIdle \/ IdleTimeout \/ Upkeep \/ Pop \/ PopNothing \/ Wait \/ Send \/ SendFails

(***************************************************************************)
(* The worker's own progress: its calls return, its waits time out.        *)
(***************************************************************************)
Progress == Begin \/ Connect \/ Serve \/ Close

Next == Progress \/ Receive \/ Capture \/ StartWorker \/ RequestStop \/ FinishStop
        \/ Due \/ PollEvents

(***************************************************************************)
(* Time passes, and a call that reads frames ends: the server does not     *)
(* send without end.                                                       *)
(***************************************************************************)
Spec == Init /\ [][Next]_vars /\ WF_vars(Progress) /\ WF_vars(Due)

-----------------------------------------------------------------------------
TypeOK ==
  /\ TxTypeOK /\ TlsTypeOK
  /\ w \in WPoints /\ state \in States /\ conn \in BOOLEAN /\ stop \in BOOLEAN
  /\ due \in BOOLEAN /\ backoff \in 0..BackoffMax
  /\ msg \in {"none", "partial", "overflow"} /\ ring \in BOOLEAN
  /\ hand \in [id : Nat, rep : Nat, seq : {-1}] \cup {NoChunk}
  /\ last \in [id : Nat, rep : Nat, seq : Nat] \cup {NoChunk}
  /\ audioSeq \in Nat /\ sent \in Nat /\ lost \in Nat
  /\ captured \in Nat /\ refused \in Nat /\ base \in Nat

InHand == IF hand = NoChunk THEN 0 ELSE 1

(***************************************************************************)
(* Every chunk captured is queued, in the worker's hand, sent, or in       *)
(* exactly one counter of losses (the capture's total_dropped, the         *)
(* queue's and the client's chunks_dropped_tx).                            *)
(***************************************************************************)
AudioAccounted == captured = refused + qcount + InHand + sent + lost + qlost

(***************************************************************************)
(* There is one connection at most, whole, and the state says so; an       *)
(* attempt that failed at any stage, and a worker that ended, left nothing *)
(* open; a session that is gone leaves no transcript and no half message   *)
(* behind for the next (drop_session).                                     *)
(***************************************************************************)
ConnectionOwned ==
  /\ conn <=> state \in {"handshaking", "starting", "ready"}
  /\ conn => held = TlsWhole
  /\ inUse <=> conn \/ w \in {"context", "handshake"}
  /\ ~inUse => held = {}
  /\ ~conn /\ ~stop => msg = "none" /\ ~ring

(***************************************************************************)
(* A stop request ends the worker, whatever the network does.              *)
(***************************************************************************)
StopEnds == stop ~> w \in {"done", "joined"}

(***************************************************************************)
(* A failed connection is tried again, as long as nobody asks to stop: no  *)
(* failure ends the worker ("drop to BACKOFF and the next call retries").  *)
(***************************************************************************)
Retries == state = "backoff" ~> state \in {"connecting", "wait_clock"} \/ stop

(***************************************************************************)
(* The queue, the sheds, the discards and the reconnects give each session *)
(* the feed the server relies on.                                          *)
(***************************************************************************)
Feed == INSTANCE AudioFeed
ImplementsFeed == Feed!FSpec
=============================================================================
