---------------------------- MODULE MediaBuffer ----------------------------
(***************************************************************************)
(* MediaBuffer (src/src/miairx/media/buffer.py) and the responses that are *)
(* fed from it while it still downloads (_handle_buffered_stream_request   *)
(* of src/src/miairx/protocols/dlna/server.py).                            *)
(*                                                                         *)
(* The lock of a buffer is never contended: no section awaits anything, so *)
(* looking at the data and what follows, up to the next await, is one      *)
(* step.  Data is counted in the chunks that the download adds and the     *)
(* responses copy (64 KiB each).                                           *)
(***************************************************************************)
EXTENDS Naturals

CONSTANTS
  Buffers,     \* MediaBuffer objects, never reused
  NoBuffer,    \* None
  Requests,    \* HTTP requests under way at once
  Announced,   \* Content-Length of a media small enough to be buffered
  MaxMemory,   \* max_memory
  Lying        \* may the source send more than it announced?

ASSUME BufferAssumption == NoBuffer \notin Buffers
ASSUME SizeAssumption ==
  /\ Announced \in Nat \ {0} /\ MaxMemory \in Nat /\ Announced <= MaxMemory
  /\ Lying \in BOOLEAN

VARIABLES
  buf,   \* the fields of each buffer and where its _download() is
  req    \* where each request is, and its local variables

BufferType ==
  [dl : {"unused", "connect", "body", "cancelled", "done"},
   len : 0 .. MaxMemory,      \* len(data)
   known : BOOLEAN,           \* content_length > 0
   headers : BOOLEAN,         \* _headers_event is set
   passthrough : BOOLEAN, error : BOOLEAN, complete : BOOLEAN,
   fresh : BOOLEAN,           \* not is_expired()
   bytes : BOOLEAN]           \* data is bytes, and not a bytearray

\* Where a request has ended: the response was completed or closed by force,
\* an error status was sent, the client has gone.
Over == {"ended", "cut", "refused", "gone"}

RequestType ==
  [pc : Over \cup {"headers", "send", "wait", "relay"},
   buf : Buffers \cup {NoBuffer}, pos : Nat, end : Nat,
   woken : BOOLEAN]           \* its wait for _data_event is over

Unused  == [dl |-> "unused", len |-> 0, known |-> FALSE, headers |-> FALSE,
            passthrough |-> FALSE, error |-> FALSE, complete |-> FALSE,
            fresh |-> TRUE, bytes |-> FALSE]
Started == [Unused EXCEPT !.dl = "connect"]
NoRequest == [pc |-> "gone", buf |-> NoBuffer, pos |-> 0, end |-> 0,
              woken |-> FALSE]

BufferTypeOK == buf \in [Buffers -> BufferType] /\ req \in [Requests -> RequestType]

BufferInit == buf = [b \in Buffers |-> Unused] /\ req = [q \in Requests |-> NoRequest]

-----------------------------------------------------------------------------
(* The download.                                                           *)

\* _data_event is set: whoever waits for it goes on.
Woken(b) == [q \in Requests |->
               IF req[q].pc = "wait" /\ req[q].buf = b
               THEN [req[q] EXCEPT !.woken = TRUE] ELSE req[q]]

\* _download() ends; its "finally" sets all three events.
DownloadEnds(b, final) ==
  /\ buf' = [buf EXCEPT ![b] = [final EXCEPT !.dl = "done", !.headers = TRUE]]
  /\ req' = Woken(b)

\* A status that is not 200, or an exception before the headers.
DownloadRefused(b) ==
  /\ buf[b].dl = "connect"
  /\ DownloadEnds(b, [buf[b] EXCEPT !.error = TRUE])

\* No length, or one above the threshold: not buffered at all.
TooLarge(b) ==
  /\ buf[b].dl = "connect"
  /\ \E known \in BOOLEAN :
       DownloadEnds(b, [buf[b] EXCEPT !.known = known, !.passthrough = TRUE])

HeadersArrive(b) ==
  /\ buf[b].dl = "connect"
  /\ buf' = [buf EXCEPT ![b].dl = "body", ![b].known = TRUE, ![b].headers = TRUE]
  /\ UNCHANGED req

ChunkArrives(b) ==
  /\ buf[b].dl = "body"
  /\ buf[b].len < (IF Lying THEN MaxMemory ELSE Announced)
  /\ buf' = [buf EXCEPT ![b].len = @ + 1, ![b].fresh = TRUE]
  /\ req' = Woken(b)

\* Mutant of Overflows: the download that is given up counts as complete.
OverflowsComplete(b) ==
  /\ Lying
  /\ buf[b].dl = "body"
  /\ buf[b].len = MaxMemory
  /\ DownloadEnds(b, [buf[b] EXCEPT !.len = 0, !.passthrough = TRUE,
                                    !.complete = TRUE])

\* One chunk more than fits: the data is dropped for the streaming proxy.
Overflows(b) ==
  /\ Lying
  /\ buf[b].dl = "body"
  /\ buf[b].len = MaxMemory
  /\ DownloadEnds(b, [buf[b] EXCEPT !.len = 0, !.passthrough = TRUE])

\* Where the connection ends short of Content-Length aiohttp raises, which
\* is BreaksOff.
Completes(b) ==
  /\ buf[b].dl = "body"
  /\ buf[b].len >= Announced
  /\ DownloadEnds(b, [buf[b] EXCEPT !.complete = TRUE])

\* Mutant of BreaksOff: the error is noted and nobody is told.
BreaksOffSilently(b) ==
  /\ buf[b].dl = "body"
  /\ buf' = [buf EXCEPT ![b].dl = "done", ![b].error = TRUE]
  /\ UNCHANGED req

BreaksOff(b) ==
  /\ buf[b].dl = "body"
  /\ DownloadEnds(b, [buf[b] EXCEPT !.error = TRUE])

\* cancel() was called: neither complete nor an error.
CancelArrives(b) ==
  /\ buf[b].dl = "cancelled"
  /\ DownloadEnds(b, buf[b])

Download(b) ==
  \/ DownloadRefused(b) \/ TooLarge(b) \/ HeadersArrive(b) \/ ChunkArrives(b)
  \/ Overflows(b) \/ Completes(b) \/ BreaksOff(b) \/ CancelArrives(b)

-----------------------------------------------------------------------------
(* A response that relays what is buffered.                                *)

BufferOf(q) == buf[req[q].buf]
Goes(q, pc) == req' = [req EXCEPT ![q].pc = pc]

\* Mutant of SendChunk: reading is no access.
SendChunkUnnoticed(q) ==
  /\ req[q].pc = "send"
  /\ req[q].pos <= req[q].end /\ req[q].pos < BufferOf(q).len
  /\ req' = [req EXCEPT ![q].pos = @ + 1]
  /\ UNCHANGED buf

\* read_available() has data: it is copied and written to the client.
SendChunk(q) ==
  /\ req[q].pc = "send"
  /\ req[q].pos <= req[q].end /\ req[q].pos < BufferOf(q).len
  /\ req' = [req EXCEPT ![q].pos = @ + 1]
  /\ buf' = [buf EXCEPT ![req[q].buf].fresh = TRUE]

\* Everything that was announced, or that there is, has been written.
SendEnds(q) ==
  /\ req[q].pc = "send"
  /\ \/ req[q].pos > req[q].end
     \/ BufferOf(q).len <= req[q].pos /\ BufferOf(q).complete /\ ~BufferOf(q).error
  /\ Goes(q, "ended")
  /\ UNCHANGED buf

\* The download has failed, or has gone over to streaming meanwhile.
SendCut(q) ==
  /\ req[q].pc = "send"
  /\ req[q].pos <= req[q].end /\ BufferOf(q).len <= req[q].pos
  /\ \/ BufferOf(q).error
     \/ ~BufferOf(q).complete /\ BufferOf(q).passthrough
  /\ Goes(q, "cut")
  /\ UNCHANGED buf

\* wait_for_data(): the event is cleared, the state checked once more, and
\* the task waits.
SendWaits(q) ==
  /\ req[q].pc = "send"
  /\ req[q].pos <= req[q].end /\ BufferOf(q).len <= req[q].pos
  /\ ~BufferOf(q).error /\ ~BufferOf(q).complete /\ ~BufferOf(q).passthrough
  /\ req' = [req EXCEPT ![q].pc = "wait", ![q].woken = FALSE]
  /\ UNCHANGED buf

\* The event was set: there is data, or the download has ended without (the
\* response is then closed by force), or it was set for something else.
Wakes(q) ==
  /\ req[q].pc = "wait" /\ req[q].woken
  /\ LET b == BufferOf(q)
     IN  \/ req[q].pos < b.len /\ Goes(q, "send")
         \/ /\ b.len <= req[q].pos
            /\ b.complete \/ b.passthrough \/ b.error
            /\ Goes(q, "cut")
         \/ /\ b.len <= req[q].pos
            /\ ~b.complete /\ ~b.passthrough /\ ~b.error
            /\ req' = [req EXCEPT ![q].woken = FALSE]
  /\ UNCHANGED buf

\* 120 seconds without a signal.
Stalls(q) ==
  /\ req[q].pc = "wait"
  /\ Goes(q, "cut")
  /\ UNCHANGED buf

Stream(q) ==
  \/ SendChunk(q) \/ SendEnds(q) \/ SendCut(q) \/ SendWaits(q) \/ Wakes(q)

=============================================================================
