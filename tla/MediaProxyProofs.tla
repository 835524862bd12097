-------------------------- MODULE MediaProxyProofs --------------------------
(* MediaProxy: no signal is missed, the maps agree, and a URL has one      *)
(* download at a time, for any number of buffers, URLs, tokens, requests.  *)
EXTENDS MediaProxy, TLAPS

\* A request under way has a buffer that was used, and so does a seek.
HasBuffer ==
  /\ \A q \in Requests : req[q].pc \notin Over =>
       req[q].buf \in Buffers /\ buf[req[q].buf].dl # "unused"
  /\ \A x \in Seekers : seek[x].pc # "idle" => seek[x].buf \in Buffers

\* A buffer that was never used is in no map.
UnusedNotMapped ==
  \A b \in Buffers : buf[b].dl = "unused" =>
    /\ b \notin live
    /\ \A u \in Urls : urlBuf[u] # b
    /\ \A t \in Tokens : tokenBuf[t] # b
    /\ bufToken[b] = NoToken

\* A token in a map was handed out.
TokensAreIssued ==
  /\ \A t \in Tokens : tokenBuf[t] # NoBuffer => t \in issued
  /\ \A b \in Buffers : bufToken[b] # NoToken => bufToken[b] \in issued

\* Bytes come from ffmpeg, whose buffers are complete at once.
BytesAreDone == \A b \in Buffers : buf[b].bytes => buf[b].dl = "done"

\* A download under way is the one its URL leads to.
DownloadIsKnown ==
  \A b \in Buffers : buf[b].dl \in {"connect", "body"} => urlBuf[source[b]] = b

MapsInv ==
  MapsAgree /\ UnusedNotMapped /\ TokensAreIssued /\ BytesAreDone /\ DownloadIsKnown
IInv == TypeOK /\ HasBuffer /\ NoMissedSignal /\ MapsInv

-----------------------------------------------------------------------------
(* What the actions have in common.                                        *)

\* The constant records have their types.
LEMMA RecordTypes ==
  /\ Unused \in BufferType /\ Started \in BufferType
  /\ NoRequest \in RequestType
  <1>1. 0 \in 0 .. MaxMemory
    BY SizeAssumption
  <1>2. Unused \in BufferType
    BY <1>1 DEF Unused, BufferType
  <1>3. Started \in BufferType
    BY <1>1 DEF Unused, Started, BufferType
  <1>4. NoRequest \in RequestType
    BY DEF NoRequest, RequestType, Over
  <1>. QED BY <1>2, <1>3, <1>4

\* Setting the event moves nobody and wakes whoever waits for it.
LEMMA WokenMeans ==
  ASSUME TypeOK, NEW b \in Buffers
  PROVE  /\ Woken(b) \in [Requests -> RequestType]
         /\ \A q \in Requests :
              /\ Woken(b)[q].pc = req[q].pc
              /\ Woken(b)[q].buf = req[q].buf
              /\ Woken(b)[q].pos = req[q].pos
              /\ ~Woken(b)[q].woken =>
                   /\ ~req[q].woken
                   /\ ~(req[q].pc = "wait" /\ req[q].buf = b)
  <1>1. ASSUME NEW q \in Requests
        PROVE  [req[q] EXCEPT !.woken = TRUE] \in RequestType
    <2>1. req[q] \in RequestType
      BY DEF TypeOK, BufferTypeOK
    <2>. QED BY <2>1 DEF RequestType
  <1>2. ASSUME NEW q \in Requests
        PROVE  /\ Woken(b)[q] \in RequestType
               /\ Woken(b)[q].pc = req[q].pc
               /\ Woken(b)[q].buf = req[q].buf
               /\ Woken(b)[q].pos = req[q].pos
               /\ ~Woken(b)[q].woken =>
                    /\ ~req[q].woken
                    /\ ~(req[q].pc = "wait" /\ req[q].buf = b)
    <2>1. req[q] \in RequestType
      BY DEF TypeOK, BufferTypeOK
    <2>2. CASE req[q].pc = "wait" /\ req[q].buf = b
      <3>1. Woken(b)[q] = [req[q] EXCEPT !.woken = TRUE]
        BY <2>2 DEF Woken
      <3>. QED BY <3>1, <2>1, <1>1 DEF RequestType
    <2>3. CASE ~(req[q].pc = "wait" /\ req[q].buf = b)
      <3>1. Woken(b)[q] = req[q]
        BY <2>3 DEF Woken
      <3>. QED BY <3>1, <2>1, <2>3
    <2>. QED BY <2>2, <2>3
  <1>. QED BY <1>2 DEF Woken

\* Nothing happens to the maps, and no download starts.
LEMMA MapsStay ==
  ASSUME TypeOK, MapsInv, UNCHANGED maps,
         \A b \in Buffers :
           /\ buf'[b].dl = "unused" => buf[b].dl = "unused"
           /\ buf'[b].dl \in {"connect", "body"} => buf[b].dl \in {"connect", "body"}
           /\ buf'[b].bytes => buf'[b].dl = "done"
  PROVE  MapsInv'
  <1>1. MapsAgree' /\ UnusedNotMapped' /\ TokensAreIssued'
    BY DEF MapsInv, MapsAgree, UnusedNotMapped, TokensAreIssued, maps
  <1>2. BytesAreDone' /\ DownloadIsKnown'
    BY DEF MapsInv, BytesAreDone, DownloadIsKnown, maps, TypeOK
  <1>. QED BY <1>1, <1>2 DEF MapsInv

\* The download of b moves, and whoever waits for it is woken.
LEMMA DownloadMoves ==
  ASSUME IInv, NEW b \in Buffers, NEW f \in BufferType,
         buf[b].dl \in {"connect", "body", "cancelled"},
         f.dl # "unused",
         f.dl \in {"connect", "body"} => buf[b].dl \in {"connect", "body"},
         f.bytes = buf[b].bytes,
         buf' = [buf EXCEPT ![b] = f], req' = Woken(b),
         UNCHANGED <<maps, seek, served>>
  PROVE  IInv'
  <1>. USE DEF IInv
  <1>1. TypeOK'
    BY WokenMeans DEF TypeOK, BufferTypeOK, maps
  <1>2. HasBuffer'
    BY WokenMeans DEF HasBuffer
  <1>3. NoMissedSignal'
    <2>1. \A c \in Buffers : c # b => buf'[c] = buf[c]
      BY DEF TypeOK, BufferTypeOK
    <2>2. ASSUME NEW q \in Requests, req'[q].pc = "wait", ~req'[q].woken
          PROVE  /\ req[q].pc = "wait" /\ ~req[q].woken /\ req'[q].pos = req[q].pos
                 /\ BufferOf(q)' = BufferOf(q)
      <3>1. /\ req[q].pc = "wait" /\ ~req[q].woken /\ req'[q].pos = req[q].pos
            /\ req'[q].buf = req[q].buf /\ req[q].buf # b
        BY <2>2, WokenMeans
      <3>2. req[q].buf \in Buffers
        BY <3>1 DEF HasBuffer, Over
      <3>. QED BY <2>1, <3>1, <3>2 DEF BufferOf
    <2>. QED BY <2>2 DEF NoMissedSignal
  <1>4. MapsInv'
    BY MapsStay DEF TypeOK, BufferTypeOK, MapsInv, BytesAreDone
  <1>. QED BY <1>1, <1>2, <1>3, <1>4

\* A request moves to a place that is not an unwoken wait.
LEMMA RequestMoves ==
  ASSUME IInv, NEW q \in Requests, NEW l \in RequestType,
         l.pc \notin Over => l.buf \in Buffers /\ buf[l.buf].dl # "unused",
         l.pc # "wait",
         req' = [req EXCEPT ![q] = l], UNCHANGED <<buf, maps, seek>>,
         served' \subseteq Buffers
  PROVE  IInv'
  <1>. USE DEF IInv
  <1>1. TypeOK'
    BY DEF TypeOK, BufferTypeOK, maps
  <1>2. HasBuffer'
    BY DEF HasBuffer, TypeOK, BufferTypeOK
  <1>3. NoMissedSignal'
    BY DEF NoMissedSignal, BufferOf, TypeOK, BufferTypeOK
  <1>4. MapsInv'
    BY MapsStay DEF MapsInv, BytesAreDone
  <1>. QED BY <1>1, <1>2, <1>3, <1>4

\* A request that only changes its place.
LEMMA GoesMoves ==
  ASSUME IInv, NEW q \in Requests, NEW pc \in Over \cup {"send", "relay"},
         pc \notin Over => req[q].pc \notin Over,
         Goes(q, pc), UNCHANGED <<buf, maps, seek>>, served' = served
  PROVE  IInv'
  <1>. DEFINE l == [req[q] EXCEPT !.pc = pc]
  <1>1. l \in RequestType /\ l.pc = pc /\ l.buf = req[q].buf
    BY DEF IInv, TypeOK, BufferTypeOK, RequestType
  <1>2. req' = [req EXCEPT ![q] = l]
    BY DEF Goes
  <1>3. l.pc \notin Over => l.buf \in Buffers /\ buf[l.buf].dl # "unused"
    BY <1>1 DEF IInv, HasBuffer
  <1>. HIDE DEF l
  <1>. QED BY <1>1, <1>2, <1>3, RequestMoves DEF IInv, TypeOK, Over

-----------------------------------------------------------------------------
(* The actions.                                                            *)

\* A step of a download.
LEMMA DownloadKeeps ==
  ASSUME IInv, NEW b \in Buffers, Downloading(b)
  PROVE  IInv'
  <1>. USE DEF Downloading
  <1>a. buf[b] \in BufferType /\ UNCHANGED <<maps, seek, served>>
    BY DEF IInv, TypeOK, BufferTypeOK
  <1>1. ASSUME NEW f \in BufferType, DownloadEnds(b, f),
               buf[b].dl \in {"connect", "body", "cancelled"},
               f.bytes = buf[b].bytes
        PROVE  IInv'
    <2>. DEFINE g == [f EXCEPT !.dl = "done", !.headers = TRUE]
    <2>1. g \in BufferType /\ g.dl = "done" /\ g.bytes = buf[b].bytes
      BY <1>1 DEF BufferType
    <2>2. buf' = [buf EXCEPT ![b] = g] /\ req' = Woken(b)
      BY <1>1 DEF DownloadEnds
    <2>. HIDE DEF g
    <2>. QED BY <1>1, <2>1, <2>2, <1>a, DownloadMoves
  <1>2. CASE DownloadRefused(b)
    <2>1. /\ [buf[b] EXCEPT !.error = TRUE] \in BufferType
          /\ [buf[b] EXCEPT !.error = TRUE].bytes = buf[b].bytes
      BY <1>a DEF BufferType
    <2>. QED BY <1>1, <1>2, <2>1 DEF DownloadRefused
  <1>3. CASE TooLarge(b)
    <2>1. \A k \in BOOLEAN :
            /\ [buf[b] EXCEPT !.known = k, !.passthrough = TRUE] \in BufferType
            /\ [buf[b] EXCEPT !.known = k, !.passthrough = TRUE].bytes = buf[b].bytes
      BY <1>a DEF BufferType
    <2>. QED BY <1>1, <1>3, <2>1 DEF TooLarge
  <1>4. CASE HeadersArrive(b)
    <2>. DEFINE g == [buf[b] EXCEPT !.dl = "body", !.known = TRUE, !.headers = TRUE]
    <2>1. /\ buf' = [buf EXCEPT ![b] = g] /\ req' = req
          /\ buf[b].dl = "connect" /\ g \in BufferType
          /\ g.dl = "body" /\ g.len = buf[b].len /\ g.complete = buf[b].complete
          /\ g.error = buf[b].error /\ g.passthrough = buf[b].passthrough
          /\ g.bytes = buf[b].bytes
      BY <1>4, <1>a DEF HeadersArrive, BufferType, IInv, TypeOK, BufferTypeOK
    <2>. HIDE DEF g
    <2>2. TypeOK'
      BY <2>1, <1>a DEF IInv, TypeOK, BufferTypeOK, maps
    <2>3. HasBuffer'
      BY <2>1, <1>a DEF IInv, HasBuffer
    <2>4. NoMissedSignal'
      BY <2>1 DEF IInv, NoMissedSignal, BufferOf, TypeOK, BufferTypeOK
    <2>5. MapsInv'
      BY <2>1, <1>a, MapsStay DEF IInv, TypeOK, BufferTypeOK, MapsInv, BytesAreDone
    <2>. QED BY <2>2, <2>3, <2>4, <2>5 DEF IInv
  <1>5. CASE ChunkArrives(b)
    <2>. DEFINE g == [buf[b] EXCEPT !.len = @ + 1, !.fresh = TRUE]
    <2>3. buf[b].len + 1 \in 0 .. MaxMemory
      BY <1>5, <1>a, SizeAssumption DEF ChunkArrives, BufferType
    <2>1. g \in BufferType /\ g.dl = "body" /\ buf[b].dl = "body"
          /\ g.bytes = buf[b].bytes
      BY <1>5, <1>a, <2>3 DEF ChunkArrives, BufferType
    <2>2. buf' = [buf EXCEPT ![b] = g] /\ req' = Woken(b)
      BY <1>5 DEF ChunkArrives
    <2>. HIDE DEF g
    <2>. QED BY <2>1, <2>2, <1>a, DownloadMoves
  <1>6. CASE Overflows(b)
    <2>2. 0 \in 0 .. MaxMemory
      BY SizeAssumption
    <2>1. /\ [buf[b] EXCEPT !.len = 0, !.passthrough = TRUE] \in BufferType
          /\ [buf[b] EXCEPT !.len = 0, !.passthrough = TRUE].bytes = buf[b].bytes
      BY <1>a, <2>2 DEF BufferType
    <2>. QED BY <1>1, <1>6, <2>1 DEF Overflows
  <1>7. CASE Completes(b)
    <2>1. /\ [buf[b] EXCEPT !.complete = TRUE] \in BufferType
          /\ [buf[b] EXCEPT !.complete = TRUE].bytes = buf[b].bytes
      BY <1>a DEF BufferType
    <2>. QED BY <1>1, <1>7, <2>1 DEF Completes
  <1>8. CASE BreaksOff(b)
    <2>1. /\ [buf[b] EXCEPT !.error = TRUE] \in BufferType
          /\ [buf[b] EXCEPT !.error = TRUE].bytes = buf[b].bytes
      BY <1>a DEF BufferType
    <2>. QED BY <1>1, <1>8, <2>1 DEF BreaksOff
  <1>9. CASE CancelArrives(b)
    BY <1>1, <1>9, <1>a DEF CancelArrives
  <1>. QED BY <1>2, <1>3, <1>4, <1>5, <1>6, <1>7, <1>8, <1>9 DEF Download

\* The condition under which an unwoken wait is harmless.
Quiet(b, pos) ==
  buf[b].len <= pos /\ ~buf[b].complete /\ ~buf[b].error /\ ~buf[b].passthrough

\* A request waits, with nothing left to send or to conclude.
LEMMA RequestWaits ==
  ASSUME IInv, NEW q \in Requests, NEW l \in RequestType,
         l.buf = req[q].buf, req[q].pc \notin Over,
         Quiet(l.buf, l.pos),
         req' = [req EXCEPT ![q] = l], UNCHANGED <<buf, maps, seek, served>>
  PROVE  IInv'
  <1>. USE DEF IInv
  <1>1. TypeOK'
    BY DEF TypeOK, BufferTypeOK, maps
  <1>2. HasBuffer'
    BY DEF HasBuffer, TypeOK, BufferTypeOK
  <1>3. NoMissedSignal'
    BY DEF NoMissedSignal, BufferOf, Quiet, TypeOK, BufferTypeOK
  <1>4. MapsInv'
    BY MapsStay DEF MapsInv, BytesAreDone
  <1>. QED BY <1>1, <1>2, <1>3, <1>4

\* Buffers change, though not in a way a waiting request should hear of.
LEMMA BuffersChange ==
  ASSUME IInv, buf' \in [Buffers -> BufferType], UNCHANGED <<req, seek>>,
         \A b \in Buffers :
           /\ buf[b].dl # "unused" => /\ buf'[b].dl # "unused"
                                     /\ buf'[b].len <= buf[b].len
                                     /\ buf'[b].complete = buf[b].complete
                                     /\ buf'[b].error = buf[b].error
                                     /\ buf'[b].passthrough = buf[b].passthrough
  PROVE  HasBuffer' /\ NoMissedSignal'
  <1>1. HasBuffer'
    BY DEF IInv, HasBuffer
  <1>2. ASSUME NEW q \in Requests, req[q].pc = "wait", ~req[q].woken
        PROVE  LET b == BufferOf(q)'
               IN  b.len <= req[q].pos /\ ~b.complete /\ ~b.error /\ ~b.passthrough
    <2>. DEFINE c == req[q].buf
    <2>1. c \in Buffers /\ buf[c].dl # "unused"
      BY <1>2 DEF IInv, HasBuffer, Over
    <2>2. buf[c].len <= req[q].pos /\ ~buf[c].complete /\ ~buf[c].error
          /\ ~buf[c].passthrough
      BY <1>2 DEF IInv, NoMissedSignal, BufferOf
    <2>3. buf[c].len \in Nat /\ buf'[c].len \in Nat /\ req[q].pos \in Nat
      BY <2>1, SizeAssumption DEF IInv, TypeOK, BufferTypeOK, BufferType, RequestType
    <2>4. BufferOf(q)' = buf'[c]
      BY DEF BufferOf
    <2>. QED BY <2>1, <2>2, <2>3, <2>4
  <1>3. NoMissedSignal'
    BY <1>2 DEF NoMissedSignal
  <1>. QED BY <1>1, <1>3

\* A response that is fed from a buffer.
LEMMA StreamKeeps ==
  ASSUME IInv, NEW q \in Requests, BufferedStream(q)
  PROVE  IInv'
  <1>a. UNCHANGED <<maps, seek>> /\ req[q] \in RequestType
    BY DEF BufferedStream, IInv, TypeOK, BufferTypeOK
  <1>b. req[q].pc \in {"send", "wait"} =>
          req[q].buf \in Buffers /\ buf[req[q].buf].dl # "unused"
    BY DEF IInv, HasBuffer, Over
  <1>1. CASE SendChunk(q)
    <2>. DEFINE c == req[q].buf
                g == [buf[c] EXCEPT !.fresh = TRUE]
                l == [req[q] EXCEPT !.pos = @ + 1]
    <2>1. /\ req[q].pc = "send" /\ c \in Buffers /\ buf[c] \in BufferType
          /\ buf' = [buf EXCEPT ![c] = g] /\ req' = [req EXCEPT ![q] = l]
      BY <1>1, <1>b DEF SendChunk, IInv, TypeOK, BufferTypeOK
    <2>2. /\ g \in BufferType /\ g.dl = buf[c].dl /\ g.len = buf[c].len
          /\ g.complete = buf[c].complete /\ g.error = buf[c].error
          /\ g.passthrough = buf[c].passthrough /\ g.bytes = buf[c].bytes
      BY <2>1 DEF BufferType
    <2>3. l \in RequestType /\ l.pc = "send" /\ l.buf = c
      BY <2>1, <1>a DEF RequestType
    <2>4. served' \subseteq Buffers
      BY <2>1 DEF BufferedStream, IInv, TypeOK
    <2>. HIDE DEF g, l, c
    <2>5. TypeOK'
      BY <2>1, <2>2, <2>3, <2>4, <1>a DEF IInv, TypeOK, BufferTypeOK, maps
    <2>6. HasBuffer'
      BY <2>1, <2>2, <2>3, <1>a, <1>b DEF IInv, HasBuffer, TypeOK, BufferTypeOK, Over, c
    <2>7. NoMissedSignal'
      BY SMTT(30), <2>1, <2>2, <2>3 DEF IInv, NoMissedSignal, BufferOf, TypeOK, BufferTypeOK
    <2>8. MapsInv'
      BY <2>1, <2>2, <1>a, MapsStay DEF IInv, TypeOK, BufferTypeOK, MapsInv, BytesAreDone
    <2>. QED BY <2>5, <2>6, <2>7, <2>8 DEF IInv
  <1>2. ASSUME NEW pc \in {"ended", "cut", "send"}, Goes(q, pc), buf' = buf,
               req[q].pc \in {"send", "wait"}
        PROVE  IInv'
    <2>1. req'[q].pos = req[q].pos
      BY <1>2 DEF Goes, IInv, TypeOK, BufferTypeOK, RequestType
    <2>2. served' = served
      BY <2>1 DEF BufferedStream
    <2>. QED BY <1>2, <1>a, <2>2, GoesMoves DEF Over
  <1>3. ASSUME NEW pc \in {"wait"}, req[q].pc \in {"send", "wait"}, buf' = buf,
               req' = [req EXCEPT ![q] = [req[q] EXCEPT !.pc = pc, !.woken = FALSE]],
               Quiet(req[q].buf, req[q].pos)
        PROVE  IInv'
    <2>. DEFINE l == [req[q] EXCEPT !.pc = pc, !.woken = FALSE]
    <2>1. l \in RequestType /\ l.buf = req[q].buf /\ l.pos = req[q].pos
      BY <1>a, <1>3 DEF RequestType
    <2>2. req'[q] = l
      BY <1>3 DEF IInv, TypeOK, BufferTypeOK
    <2>3. served' = served
      BY <2>1, <2>2 DEF BufferedStream
    <2>4. req' = [req EXCEPT ![q] = l]
      BY <1>3
    <2>. HIDE DEF l
    <2>. QED BY <1>3, <1>a, <2>1, <2>3, <2>4, RequestWaits DEF Over
  <1>4. CASE SendEnds(q)
    BY <1>2, <1>4 DEF SendEnds
  <1>5. CASE SendCut(q)
    BY <1>2, <1>5 DEF SendCut
  <1>6. CASE SendWaits(q)
    <2>1. req' = [req EXCEPT ![q] = [req[q] EXCEPT !.pc = "wait", !.woken = FALSE]]
      BY <1>6 DEF SendWaits
    <2>2. req[q].pc = "send" /\ buf' = buf /\ Quiet(req[q].buf, req[q].pos)
      BY <1>6 DEF SendWaits, Quiet, BufferOf
    <2>. QED BY <2>1, <2>2, <1>3
  <1>7. CASE Wakes(q)
    <2>1. CASE Goes(q, "send") \/ Goes(q, "cut")
      BY <1>2, <1>7, <2>1 DEF Wakes
    <2>2. CASE ~(Goes(q, "send") \/ Goes(q, "cut"))
      <3>1. /\ req[q].pc = "wait" /\ buf' = buf /\ Quiet(req[q].buf, req[q].pos)
            /\ req' = [req EXCEPT ![q].woken = FALSE]
        BY <1>7, <2>2 DEF Wakes, Quiet, BufferOf
      <3>2. [req[q] EXCEPT !.woken = FALSE] = [req[q] EXCEPT !.pc = "wait", !.woken = FALSE]
        BY <3>1, <1>a DEF RequestType
      <3>3. req' = [req EXCEPT ![q] = [req[q] EXCEPT !.pc = "wait", !.woken = FALSE]]
        BY <3>1, <3>2
      <3>. QED BY <3>1, <3>3, <1>3
    <2>. QED BY <2>1, <2>2
  <1>. QED BY <1>1, <1>4, <1>5, <1>6, <1>7 DEF BufferedStream, Stream

\* A request is answered with a status, the relay or the buffered response.
LEMMA AnswersKeeps ==
  ASSUME IInv, NEW q \in Requests, NEW b \in Buffers, buf[b].dl # "unused",
         Answers(q, b), UNCHANGED <<buf, maps, seek, served>>
  PROVE  IInv'
  <1>a. served' \subseteq Buffers
    BY DEF IInv, TypeOK
  <1>1. ASSUME NEW pc \in {"relay", "refused", "ended"}, Enters(q, pc, b)
        PROVE  IInv'
    <2>. DEFINE l == [NoRequest EXCEPT !.pc = pc, !.buf = b]
    <2>1. l \in RequestType /\ l.buf = b /\ l.pc = pc
      BY DEF NoRequest, RequestType, Over
    <2>2. req' = [req EXCEPT ![q] = l]
      BY <1>1 DEF Enters
    <2>. HIDE DEF l
    <2>. QED BY <1>a, <2>1, <2>2, RequestMoves
  <1>2. ASSUME NEW s \in Nat, NEW e \in Nat,
               req' = [req EXCEPT ![q] = [pc |-> "send", buf |-> b, pos |-> s,
                                          end |-> e, woken |-> FALSE]]
        PROVE  IInv'
    <2>. DEFINE l == [pc |-> "send", buf |-> b, pos |-> s, end |-> e, woken |-> FALSE]
    <2>1. l \in RequestType /\ l.buf = b /\ l.pc = "send"
      BY DEF RequestType
    <2>2. req' = [req EXCEPT ![q] = l]
      BY <1>2
    <2>. HIDE DEF l
    <2>. QED BY <1>a, <2>1, <2>2, RequestMoves
  <1>3. CASE Prepares(q, b)
    <2>. DEFINE total == IF buf[b].known THEN Announced ELSE buf[b].len
    <2>1. total \in Nat
      BY SizeAssumption DEF IInv, TypeOK, BufferTypeOK, BufferType
    <2>2. CASE Enters(q, "refused", b) \/ Enters(q, "ended", b)
      BY <2>2, <1>1
    <2>3. CASE \E s \in 0 .. total - 1 : \E e \in s .. total - 1 :
                 req' = [req EXCEPT ![q] = [pc |-> "send", buf |-> b, pos |-> s,
                                            end |-> e, woken |-> FALSE]]
      <3>. HIDE DEF total
      <3>1. PICK s \in 0 .. total - 1 : \E e \in s .. total - 1 :
              req' = [req EXCEPT ![q] = [pc |-> "send", buf |-> b, pos |-> s,
                                         end |-> e, woken |-> FALSE]]
        BY <2>3
      <3>2. PICK e \in s .. total - 1 :
              req' = [req EXCEPT ![q] = [pc |-> "send", buf |-> b, pos |-> s,
                                         end |-> e, woken |-> FALSE]]
        BY <3>1
      <3>3. s \in Nat /\ e \in Nat
        BY <2>1
      <3>. QED BY <3>2, <3>3, <1>2
    <2>. QED BY <1>3, <2>2, <2>3 DEF Prepares
  <1>. QED BY <1>1, <1>3 DEF Answers

\* A request starts, waits for the headers, is relayed, or ends.
LEMMA RequestKeeps ==
  ASSUME IInv, NEW q \in Requests,
         \/ \E t \in Tokens : Ask(q, t)
         \/ Serving(q) \/ HeadersLate(q) \/ RelayChunk(q)
         \/ ClientLeaves(q) \/ StallsOut(q)
  PROVE  IInv'
  <1>1. CASE \E t \in Tokens : Ask(q, t)
    <2>1. PICK t \in Tokens : Ask(q, t)
      BY <1>1
    <2>. DEFINE b == tokenBuf[t]
    <2>2. b \in Buffers /\ buf[b].dl # "unused" /\ served' \subseteq Buffers
          /\ UNCHANGED <<buf, maps, seek, served>>
      BY <2>1 DEF Ask, IInv, TypeOK, MapsInv, UnusedNotMapped
    <2>3. CASE Answers(q, b)
      BY <2>2, <2>3, AnswersKeeps
    <2>4. CASE Enters(q, "headers", b)
      <3>. DEFINE l == [NoRequest EXCEPT !.pc = "headers", !.buf = b]
      <3>1. l \in RequestType /\ l.buf = b /\ l.pc = "headers"
        BY <2>2 DEF NoRequest, RequestType, Over
      <3>2. req' = [req EXCEPT ![q] = l]
        BY <2>4 DEF Enters
      <3>. HIDE DEF l, b
      <3>. QED BY <2>2, <3>1, <3>2, RequestMoves
    <2>. QED BY <2>1, <2>3, <2>4 DEF Ask
  <1>2. CASE HeadersSeen(q)
    <2>1. req[q].buf \in Buffers /\ buf[req[q].buf].dl # "unused"
      BY <1>2 DEF HeadersSeen, IInv, HasBuffer, Over
    <2>. QED BY <1>2, <2>1, AnswersKeeps DEF HeadersSeen
  <1>3. CASE BufferedStream(q)
    BY <1>3, StreamKeeps
  <1>4. CASE RelayEnds(q)
    BY <1>4, GoesMoves DEF RelayEnds, Over
  <1>5. CASE HeadersLate(q)
    BY <1>5, GoesMoves DEF HeadersLate, Over
  <1>6. CASE RelayChunk(q)
    <2>1. req[q].buf \in Buffers
      BY <1>6 DEF RelayChunk, IInv, HasBuffer, Over
    <2>2. TypeOK'
      BY <1>6, <2>1 DEF RelayChunk, IInv, TypeOK, BufferTypeOK, maps
    <2>3. HasBuffer' /\ NoMissedSignal'
      BY <1>6 DEF RelayChunk, IInv, HasBuffer, NoMissedSignal, BufferOf
    <2>4. MapsInv'
      BY <1>6, MapsStay DEF RelayChunk, IInv, MapsInv, BytesAreDone
    <2>. QED BY <2>2, <2>3, <2>4 DEF IInv
  <1>7. CASE ClientLeaves(q)
    BY <1>7, GoesMoves DEF ClientLeaves, Over
  <1>8. CASE StallsOut(q)
    BY <1>8, GoesMoves DEF StallsOut, Stalls, Over
  <1>. QED BY <1>1, <1>2, <1>3, <1>4, <1>5, <1>6, <1>7, <1>8 DEF Serving

\* What being handed out says of a token.
LEMMA FreshToken ==
  ASSUME IInv, NEW t \in Tokens, t \notin issued
  PROVE  tokenBuf[t] = NoBuffer /\ \A b \in Buffers : bufToken[b] # t
  BY TokenAssumption DEF IInv, MapsInv, TokensAreIssued

\* A fresh token for a live buffer without one.
LEMMA TokenForBuffer ==
  ASSUME IInv, NEW t \in Tokens, NEW b \in Buffers, b \in live,
         bufToken[b] = NoToken, NewToken(t, b), UNCHANGED <<buf, live, source, urlBuf>>
  PROVE  MapsInv'
  <1>. USE DEF IInv, MapsInv, TypeOK, NewToken
  <1>a. buf[b].dl # "unused"
    BY DEF UnusedNotMapped
  <1>1. \A x \in Tokens : tokenBuf'[x] \in live' =>
          bufToken'[tokenBuf'[x]] = x /\ x \in issued'
    BY FreshToken, TokenAssumption, BufferAssumption DEF MapsAgree
  <1>2. \A c \in live' : bufToken'[c] # NoToken => tokenBuf'[bufToken'[c]] = c
    BY FreshToken DEF MapsAgree
  <1>3. MapsAgree'
    BY <1>1, <1>2 DEF MapsAgree
  <1>4. UnusedNotMapped' /\ TokensAreIssued'
    BY <1>a DEF UnusedNotMapped, TokensAreIssued
  <1>. QED BY <1>3, <1>4 DEF BytesAreDone, DownloadIsKnown

\* A URL that leads to no live buffer has no download.
LEMMA NoneDownloads ==
  ASSUME IInv, NEW u \in Urls, urlBuf[u] \notin live
  PROVE  \A b \in Buffers : source[b] = u => buf[b].dl \notin {"connect", "body"}
  BY DEF IInv, MapsInv, MapsAgree, DownloadIsKnown

\* A buffer starts to be used: NewBuffer(), whatever becomes of its token.
LEMMA BufferForUrl ==
  ASSUME IInv, NEW b \in Buffers, NEW u \in Urls, NewBuffer(b, u),
         urlBuf[u] \notin live, UNCHANGED source
  PROVE  /\ \A v \in Urls : urlBuf'[v] # NoBuffer => source'[urlBuf'[v]] = v
         /\ \A c \in Buffers \ live' : buf'[c].dl \notin {"connect", "body"}
         /\ \A c \in Buffers : buf'[c].dl = "unused" =>
              buf[c].dl = "unused" /\ c \notin live' /\ \A v \in Urls : urlBuf'[v] # c
         /\ BytesAreDone' /\ DownloadIsKnown'
  <1>. USE DEF IInv, MapsInv, TypeOK, BufferTypeOK, NewBuffer
  <1>1. Started.dl = "connect" /\ ~Started.bytes
    BY DEF Started, Unused
  <1>2. \A c \in Buffers : buf'[c] = IF c = b THEN Started ELSE buf[c]
    OBVIOUS
  <1>3. \A v \in Urls : urlBuf'[v] # NoBuffer => source'[urlBuf'[v]] = v
    BY DEF MapsAgree
  <1>4. \A c \in Buffers \ live' : buf'[c].dl \notin {"connect", "body"}
    BY <1>2 DEF MapsAgree
  <1>5. \A c \in Buffers : buf'[c].dl = "unused" =>
          buf[c].dl = "unused" /\ c \notin live' /\ \A v \in Urls : urlBuf'[v] # c
    BY <1>1, <1>2 DEF UnusedNotMapped
  <1>6. BytesAreDone'
    BY <1>1, <1>2 DEF BytesAreDone
  <1>7. DownloadIsKnown'
    BY <1>2, NoneDownloads DEF DownloadIsKnown
  <1>. QED BY <1>3, <1>4, <1>5, <1>6, <1>7

\* A new buffer without a token, for a URL that leads to none.
LEMMA BufferAlone ==
  ASSUME IInv, NEW b \in Buffers, NEW u \in Urls, NewBuffer(b, u),
         urlBuf[u] \notin live, UNCHANGED <<source, bufToken, tokenBuf, issued>>
  PROVE  MapsInv'
  <1>. USE DEF IInv, MapsInv
  <1>a. /\ buf[b].dl = "unused" /\ live' = live \cup {b}
        /\ bufToken[b] = NoToken /\ \A t \in Tokens : tokenBuf[t] # b
    BY DEF NewBuffer, UnusedNotMapped
  <1>1. MapsAgree'
    BY <1>a, BufferForUrl DEF MapsAgree
  <1>2. UnusedNotMapped'
    BY BufferForUrl DEF UnusedNotMapped
  <1>3. TokensAreIssued'
    BY DEF TokensAreIssued
  <1>. QED BY <1>1, <1>2, <1>3, BufferForUrl

\* A token for a buffer that has just come to be used.
LEMMA TokenForNew ==
  ASSUME IInv, NEW b \in Buffers, NEW t \in Tokens, buf[b].dl = "unused",
         live' = live \cup {b}, NewToken(t, b)
  PROVE  /\ \A x \in Tokens : tokenBuf'[x] \in live' =>
              bufToken'[tokenBuf'[x]] = x /\ x \in issued'
         /\ \A c \in live' : bufToken'[c] # NoToken => tokenBuf'[bufToken'[c]] = c
         /\ \A c \in Buffers \ {b} : buf[c].dl = "unused" =>
              bufToken'[c] = NoToken /\ \A x \in Tokens : tokenBuf'[x] # c
         /\ TokensAreIssued'
  <1>. USE DEF IInv, MapsInv, TypeOK, NewToken
  <1>1. \A x \in Tokens : tokenBuf'[x] \in live' =>
          bufToken'[tokenBuf'[x]] = x /\ x \in issued'
    BY DEF MapsAgree, UnusedNotMapped
  <1>2. \A c \in live' : bufToken'[c] # NoToken => tokenBuf'[bufToken'[c]] = c
    BY FreshToken DEF MapsAgree
  <1>3. \A c \in Buffers \ {b} : buf[c].dl = "unused" =>
          bufToken'[c] = NoToken /\ \A x \in Tokens : tokenBuf'[x] # c
    BY DEF UnusedNotMapped
  <1>4. TokensAreIssued'
    BY DEF TokensAreIssued
  <1>. QED BY <1>1, <1>2, <1>3, <1>4

\* A new buffer and its token, for a URL that leads to none.
LEMMA BufferAndToken ==
  ASSUME IInv, NEW b \in Buffers, NEW u \in Urls, NEW t \in Tokens,
         NewBuffer(b, u), NewToken(t, b), urlBuf[u] \notin live, source' = source
  PROVE  MapsInv'
  <1>a. buf[b].dl = "unused" /\ live' = live \cup {b} /\ b \in live'
    BY DEF NewBuffer
  <1>1. MapsAgree'
    BY <1>a, BufferForUrl, TokenForNew DEF MapsAgree
  <1>2. UnusedNotMapped'
    BY <1>a, BufferForUrl, TokenForNew DEF UnusedNotMapped
  <1>. QED BY <1>a, <1>1, <1>2, BufferForUrl, TokenForNew DEF MapsInv

\* NewBuffer and NewToken as the types and the responses see them.
LEMMA NewBufferTypes ==
  ASSUME IInv, NEW b \in Buffers, NEW u \in Urls, NewBuffer(b, u)
  PROVE  /\ buf' \in [Buffers -> BufferType]
         /\ live' \subseteq Buffers
         /\ urlBuf' \in [Urls -> Buffers \cup {NoBuffer}]
         /\ UNCHANGED <<req, seek>> => HasBuffer' /\ NoMissedSignal'
         /\ UNCHANGED req => NoMissedSignal' /\
              \A q \in Requests : req[q].pc \notin Over =>
                 req[q].buf \in Buffers /\ buf'[req[q].buf].dl # "unused"
  <1>1. buf' \in [Buffers -> BufferType] /\ buf[b].dl = "unused"
    BY RecordTypes DEF NewBuffer, IInv, TypeOK, BufferTypeOK
  <1>2. \A c \in Buffers : buf[c].dl # "unused" => buf'[c] = buf[c]
    BY <1>1 DEF NewBuffer, IInv, TypeOK, BufferTypeOK
  <1>3. live' \subseteq Buffers /\ urlBuf' \in [Urls -> Buffers \cup {NoBuffer}]
    BY DEF NewBuffer, IInv, TypeOK
  <1>4. ASSUME UNCHANGED req
        PROVE  /\ NoMissedSignal'
               /\ \A q \in Requests : req[q].pc \notin Over =>
                    req[q].buf \in Buffers /\ buf'[req[q].buf].dl # "unused"
    BY <1>2, <1>4 DEF IInv, HasBuffer, NoMissedSignal, BufferOf, Over
  <1>5. UNCHANGED <<req, seek>> => HasBuffer'
    BY <1>4 DEF HasBuffer, IInv
  <1>. QED BY <1>1, <1>3, <1>4, <1>5

\* NewToken as the types see it.
LEMMA NewTokenTypes ==
  ASSUME IInv, NEW t \in Tokens, NEW b \in Buffers, NewToken(t, b)
  PROVE  /\ issued' \subseteq Tokens
         /\ bufToken' \in [Buffers -> Tokens \cup {NoToken}]
         /\ tokenBuf' \in [Tokens -> Buffers \cup {NoBuffer}]
  BY DEF NewToken, IInv, TypeOK

\* The callbacks of the renderers.
LEMMA CallbackKeeps ==
  ASSUME IInv, NEW u \in Urls, CreateProxyUrl(u) \/ StartBuffering(u)
  PROVE  IInv'
  <1>1. CASE CreateProxyUrl(u)
    <2>1. PICK t \in Tokens :
            /\ \/ /\ urlBuf[u] \in live /\ bufToken[urlBuf[u]] = NoToken
                  /\ NewToken(t, urlBuf[u])
                  /\ UNCHANGED <<buf, live, urlBuf>>
               \/ /\ urlBuf[u] \notin live
                  /\ \E b \in Buffers : NewBuffer(b, u) /\ NewToken(t, b)
            /\ UNCHANGED <<req, source, seek, served>>
      BY <1>1 DEF CreateProxyUrl
    <2>2. CASE urlBuf[u] \in live
      <3>1. urlBuf[u] \in Buffers
        BY <2>2 DEF IInv, TypeOK
      <3>2. TypeOK'
        BY <2>1, <2>2, <3>1, NewTokenTypes DEF IInv, TypeOK, BufferTypeOK
      <3>3. HasBuffer' /\ NoMissedSignal'
        BY <2>1, <2>2 DEF IInv, HasBuffer, NoMissedSignal, BufferOf
      <3>4. MapsInv'
        BY <2>1, <2>2, <3>1, TokenForBuffer
      <3>. QED BY <3>2, <3>3, <3>4 DEF IInv
    <2>3. CASE urlBuf[u] \notin live
      <3>1. PICK b \in Buffers : NewBuffer(b, u) /\ NewToken(t, b)
        BY <2>1, <2>3
      <3>2. TypeOK'
        BY <2>1, <3>1, NewTokenTypes, NewBufferTypes DEF IInv, TypeOK, BufferTypeOK
      <3>3. HasBuffer' /\ NoMissedSignal'
        BY <2>1, <3>1, NewBufferTypes
      <3>4. MapsInv'
        BY <2>1, <2>3, <3>1, BufferAndToken
      <3>. QED BY <3>2, <3>3, <3>4 DEF IInv
    <2>. QED BY <2>2, <2>3
  <1>2. CASE StartBuffering(u)
    <2>1. PICK b \in Buffers : NewBuffer(b, u)
      BY <1>2 DEF StartBuffering
    <2>2. UNCHANGED <<req, source, bufToken, tokenBuf, issued, seek, served>>
          /\ urlBuf[u] = NoBuffer
      BY <1>2 DEF StartBuffering
    <2>3. urlBuf[u] \notin live
      BY <2>2, BufferAssumption DEF IInv, TypeOK
    <2>4. TypeOK'
      BY <2>1, <2>2, NewBufferTypes DEF IInv, TypeOK, BufferTypeOK
    <2>5. HasBuffer' /\ NoMissedSignal'
      BY <2>1, <2>2, NewBufferTypes
    <2>6. MapsInv'
      BY <2>1, <2>2, <2>3, BufferAlone
    <2>. QED BY <2>4, <2>5, <2>6 DEF IInv
  <1>. QED BY <1>1, <1>2

\* create_seek_url().
LEMMA SeekKeeps ==
  ASSUME IInv, NEW x \in Seekers,
         \/ \E u \in Urls : SeekStarts(x, u)
         \/ SeekReady(x) \/ SeekFails(x) \/ SeekCreatesUrl(x)
  PROVE  IInv'
  <1>. USE DEF NotSeeking
  <1>1. ASSUME NEW u \in Urls, SeekStarts(x, u)
        PROVE  IInv'
    <2>1. UNCHANGED <<req, source, bufToken, tokenBuf, issued, served>>
      BY <1>1 DEF SeekStarts
    <2>2. CASE urlBuf[u] = NoBuffer
              /\ \E b \in Buffers : NewBuffer(b, u)
                   /\ seek' = [seek EXCEPT ![x] = [pc |-> "wait", buf |-> b]]
      <3>1. PICK b \in Buffers :
              NewBuffer(b, u) /\ seek' = [seek EXCEPT ![x] = [pc |-> "wait", buf |-> b]]
        BY <2>2
      <3>2. TypeOK'
        BY <2>1, <3>1, NewBufferTypes DEF IInv, TypeOK, BufferTypeOK
      <3>3. HasBuffer'
        BY <2>1, <3>1, NewBufferTypes DEF IInv, HasBuffer, TypeOK
      <3>4. NoMissedSignal'
        BY <2>1, <3>1, NewBufferTypes
      <3>5. urlBuf[u] \notin live
        BY <2>2, BufferAssumption DEF IInv, TypeOK
      <3>6. MapsInv'
        BY <2>1, <3>1, <3>5, BufferAlone
      <3>. QED BY <3>2, <3>3, <3>4, <3>6 DEF IInv
    <2>3. CASE /\ urlBuf[u] \in live /\ ~buf[urlBuf[u]].error
               /\ seek' = [seek EXCEPT ![x] =
                      [pc |-> IF buf[urlBuf[u]].complete THEN "cut" ELSE "wait",
                       buf |-> urlBuf[u]]]
               /\ UNCHANGED <<buf, live, urlBuf>>
      <3>1. urlBuf[u] \in Buffers
        BY <2>3 DEF IInv, TypeOK
      <3>2. TypeOK'
        BY <2>1, <2>3, <3>1 DEF IInv, TypeOK, BufferTypeOK
      <3>3. HasBuffer' /\ NoMissedSignal'
        BY <2>1, <2>3, <3>1 DEF IInv, HasBuffer, NoMissedSignal, BufferOf, TypeOK
      <3>4. MapsInv'
        BY <2>1, <2>3, MapsStay DEF IInv, maps, MapsInv, BytesAreDone
      <3>. QED BY <3>2, <3>3, <3>4 DEF IInv
    <2>. QED BY <1>1, <2>2, <2>3 DEF SeekStarts
  <1>2. CASE SeekReady(x) \/ SeekFails(x)
    <2>1. /\ UNCHANGED <<buf, req, maps, served>>
          /\ \/ seek' = [seek EXCEPT ![x].pc = "cut"] /\ seek[x].pc = "wait"
             \/ seek' = [seek EXCEPT ![x] = NotSeeking]
      BY <1>2 DEF SeekReady, SeekFails
    <2>2. TypeOK'
      BY <2>1 DEF IInv, TypeOK, BufferTypeOK, maps
    <2>3. HasBuffer' /\ NoMissedSignal'
      BY SMTT(30), <2>1 DEF IInv, HasBuffer, NoMissedSignal, BufferOf, TypeOK
    <2>4. MapsInv'
      BY <2>1, MapsStay DEF IInv, MapsInv, BytesAreDone
    <2>. QED BY <2>2, <2>3, <2>4 DEF IInv
  <1>3. CASE SeekCreatesUrl(x)
    <2>. DEFINE g(h) == [Unused EXCEPT !.dl = "done", !.len = 1,
                                       !.complete = TRUE, !.bytes = h]
    <2>1. PICK b \in Buffers, t \in Tokens, h \in BOOLEAN :
            /\ buf[b].dl = "unused" /\ buf' = [buf EXCEPT ![b] = g(h)]
            /\ live' = live \cup {b} /\ NewToken(t, b)
      BY <1>3 DEF SeekCreatesUrl
    <2>2. seek' = [seek EXCEPT ![x] = NotSeeking]
          /\ UNCHANGED <<req, source, urlBuf, served>>
      BY <1>3 DEF SeekCreatesUrl
    <2>3. 1 \in 0 .. MaxMemory
      BY SizeAssumption
    <2>4. g(h) \in BufferType /\ g(h).dl = "done"
      BY <2>3 DEF Unused, BufferType
    <2>. HIDE DEF g
    <2>5. TypeOK'
      BY <2>1, <2>2, <2>4, NewTokenTypes DEF IInv, TypeOK, BufferTypeOK
    <2>6. \A c \in Buffers : buf[c].dl # "unused" => buf'[c] = buf[c]
      BY <2>1 DEF IInv, TypeOK, BufferTypeOK
    <2>7. HasBuffer'
      BY <2>2, <2>6 DEF IInv, HasBuffer, TypeOK
    <2>8. NoMissedSignal'
      BY <2>2, <2>6 DEF IInv, HasBuffer, NoMissedSignal, BufferOf, Over
    <2>9. \A c \in Buffers : buf'[c] = IF c = b THEN g(h) ELSE buf[c]
      BY <2>1 DEF IInv, TypeOK, BufferTypeOK
    <2>10. MapsAgree'
      BY <2>1, <2>2, <2>4, <2>9, TokenForNew DEF IInv, MapsInv, MapsAgree
    <2>11. UnusedNotMapped'
      BY <2>1, <2>2, <2>4, <2>9, TokenForNew DEF IInv, MapsInv, UnusedNotMapped
    <2>12. TokensAreIssued'
      BY <2>1, TokenForNew
    <2>13. BytesAreDone' /\ DownloadIsKnown'
      BY <2>2, <2>4, <2>9 DEF IInv, MapsInv, BytesAreDone, DownloadIsKnown
    <2>. QED BY <2>5, <2>7, <2>8, <2>10, <2>11, <2>12, <2>13 DEF IInv, MapsInv
  <1>. QED BY <1>1, <1>2, <1>3

\* A buffer that nobody has used for a while.
LEMMA AgesKeeps ==
  ASSUME IInv, NEW b \in Buffers, Ages(b)
  PROVE  IInv'
  <1>. DEFINE g == [buf[b] EXCEPT !.fresh = FALSE]
  <1>1. buf' = [buf EXCEPT ![b] = g] /\ served' = served \ {b}
        /\ UNCHANGED <<req, maps, seek>> /\ buf[b] \in BufferType
    BY DEF Ages, IInv, TypeOK, BufferTypeOK
  <1>2. g \in BufferType /\ g.dl = buf[b].dl /\ g.len = buf[b].len /\ g.len \in Nat
        /\ g.complete = buf[b].complete /\ g.error = buf[b].error
        /\ g.passthrough = buf[b].passthrough /\ g.bytes = buf[b].bytes
    <2>1. buf[b].len \in Nat
      BY <1>1, SizeAssumption DEF BufferType
    <2>. QED BY <1>1, <2>1 DEF BufferType
  <1>. HIDE DEF g
  <1>3. buf' \in [Buffers -> BufferType] /\ \A c \in Buffers : c # b => buf'[c] = buf[c]
    BY <1>1, <1>2 DEF IInv, TypeOK, BufferTypeOK
  <1>4. \A c \in Buffers : buf[c].len \in Nat
    BY SizeAssumption DEF IInv, TypeOK, BufferTypeOK, BufferType
  <1>5. buf'[b] = g
    BY <1>1 DEF IInv, TypeOK, BufferTypeOK
  <1>6. TypeOK'
    BY <1>1, <1>3 DEF IInv, TypeOK, BufferTypeOK, maps
  <1>7. HasBuffer' /\ NoMissedSignal'
    BY <1>1, <1>2, <1>3, <1>4, <1>5, BuffersChange
  <1>8. MapsInv'
    BY <1>1, <1>2, <1>3, <1>5, MapsStay DEF IInv, MapsInv, BytesAreDone
  <1>. QED BY <1>6, <1>7, <1>8 DEF IInv

\* The same entry, or none where it leads to a buffer that is gone.
Pruned(old, new) == new = old \/ (new = NoBuffer /\ old \notin live')

\* A pass releases the buffers of gone, and drops those of out besides.
LEMMA PassKeeps ==
  ASSUME IInv, NEW gone \in SUBSET live, NEW out \in SUBSET live,
         \A b \in out \ gone : buf[b].bytes, gone \subseteq out,
         live' = live \ out, Release(gone),
         tokenBuf' \in [Tokens -> Buffers \cup {NoBuffer}],
         urlBuf' \in [Urls -> Buffers \cup {NoBuffer}],
         \A t \in Tokens : Pruned(tokenBuf[t], tokenBuf'[t]),
         \A u \in Urls : Pruned(urlBuf[u], urlBuf'[u]),
         UNCHANGED <<req, source, issued, seek, served>>
  PROVE  IInv'
  <1>1. ASSUME NEW b \in Buffers
        PROVE  /\ Collected(buf[b]) \in BufferType
               /\ Collected(buf[b]).len = 0 /\ buf[b].len \in Nat
               /\ Collected(buf[b]).dl = IF buf[b].dl \in {"connect", "body"}
                                         THEN "cancelled" ELSE buf[b].dl
               /\ Collected(buf[b]).complete = buf[b].complete
               /\ Collected(buf[b]).error = buf[b].error
               /\ Collected(buf[b]).passthrough = buf[b].passthrough
               /\ Collected(buf[b]).bytes = buf[b].bytes
    <2>1. buf[b] \in BufferType /\ 0 \in 0 .. MaxMemory /\ buf[b].len \in Nat
      BY SizeAssumption DEF IInv, TypeOK, BufferTypeOK, BufferType
    <2>. QED BY <2>1 DEF Collected, BufferType
  <1>2. \A b \in Buffers :
          /\ buf'[b] = IF b \in gone THEN Collected(buf[b]) ELSE buf[b]
          /\ bufToken'[b] = IF b \in gone THEN NoToken ELSE bufToken[b]
    BY DEF Release
  <1>3. buf' \in [Buffers -> BufferType]
    BY <1>1 DEF Release, IInv, TypeOK, BufferTypeOK
  <1>4. bufToken' \in [Buffers -> Tokens \cup {NoToken}]
    BY DEF Release, IInv, TypeOK
  <1>5. TypeOK'
    BY <1>3, <1>4 DEF IInv, TypeOK, BufferTypeOK
  <1>6. ASSUME NEW b \in Buffers, buf[b].dl # "unused"
        PROVE  /\ buf'[b].dl # "unused"
               /\ buf'[b].len <= buf[b].len
               /\ buf'[b].complete = buf[b].complete
               /\ buf'[b].error = buf[b].error
               /\ buf'[b].passthrough = buf[b].passthrough
    BY <1>1, <1>2, <1>6
  <1>7. HasBuffer' /\ NoMissedSignal'
    BY <1>3, <1>6, BuffersChange
  <1>. USE DEF IInv, MapsInv, Pruned
  <1>8. \A u \in Urls : urlBuf'[u] # NoBuffer => source'[urlBuf'[u]] = u
    BY DEF MapsAgree
  <1>9. \A t \in Tokens : tokenBuf'[t] \in live' =>
          bufToken'[tokenBuf'[t]] = t /\ t \in issued'
    BY <1>2, BufferAssumption DEF MapsAgree, TypeOK
  <1>10. \A c \in live' : bufToken'[c] # NoToken => tokenBuf'[bufToken'[c]] = c
    BY <1>2, BufferAssumption DEF MapsAgree, TypeOK
  <1>11. \A b \in Buffers \ live' : buf'[b].dl \notin {"connect", "body"}
    BY <1>1, <1>2 DEF MapsAgree, BytesAreDone
  <1>12. UnusedNotMapped'
    BY <1>1, <1>2, BufferAssumption DEF UnusedNotMapped
  <1>13. TokensAreIssued'
    BY <1>2 DEF TokensAreIssued
  <1>14. BytesAreDone'
    BY <1>1, <1>2 DEF BytesAreDone
  <1>15. ASSUME NEW b \in Buffers, buf'[b].dl \in {"connect", "body"}
         PROVE  urlBuf'[source'[b]] = b
    <2>1. b \in live' /\ buf[b].dl \in {"connect", "body"}
      BY <1>1, <1>2, <1>11, <1>15
    <2>2. source[b] \in Urls /\ urlBuf[source[b]] = b
      BY <2>1 DEF TypeOK, DownloadIsKnown
    <2>. QED BY <2>1, <2>2
  <1>16. MapsAgree'
    BY <1>8, <1>9, <1>10, <1>11 DEF MapsAgree
  <1>. QED BY <1>5, <1>7, <1>12, <1>13, <1>14, <1>15, <1>16 DEF DownloadIsKnown

\* The collector.
LEMMA CollectKeeps ==
  ASSUME IInv, Collect
  PROVE  IInv'
  <1>1. CASE CollectAll
    <2>1. /\ live' = live \ Expired /\ Expired \in SUBSET live /\ Release(Expired)
          /\ UNCHANGED <<req, source, issued, seek, served>>
      BY <1>1 DEF CollectAll, Expired
    <2>2. tokenBuf' = [t \in Tokens |-> Kept(tokenBuf[t])]
          /\ urlBuf' = [u \in Urls |-> Kept(urlBuf[u])]
      BY <1>1 DEF CollectAll
    <2>3. \A b \in Buffers \cup {NoBuffer} :
            Kept(b) \in Buffers \cup {NoBuffer} /\ Pruned(b, Kept(b))
      BY <2>1 DEF Kept, Pruned
    <2>4. /\ tokenBuf' \in [Tokens -> Buffers \cup {NoBuffer}]
          /\ urlBuf' \in [Urls -> Buffers \cup {NoBuffer}]
          /\ \A t \in Tokens : Pruned(tokenBuf[t], tokenBuf'[t])
          /\ \A u \in Urls : Pruned(urlBuf[u], urlBuf'[u])
      BY <2>2, <2>3 DEF IInv, TypeOK
    <2>. QED BY <2>1, <2>4, PassKeeps
  <1>2. CASE CollectBreaksOff
    <2>1. PICK b \in Expired, before \in SUBSET Expired :
            /\ buf[b].bytes /\ live' = live \ (before \cup {b})
            /\ Release(before)
            /\ UNCHANGED <<req, source, urlBuf, tokenBuf, issued, seek, served>>
      BY <1>2 DEF CollectBreaksOff
    <2>2. before \in SUBSET live /\ before \cup {b} \in SUBSET live
      BY <2>1 DEF Expired
    <2>3. /\ \A t \in Tokens : Pruned(tokenBuf[t], tokenBuf'[t])
          /\ \A u \in Urls : Pruned(urlBuf[u], urlBuf'[u])
          /\ tokenBuf' \in [Tokens -> Buffers \cup {NoBuffer}]
          /\ urlBuf' \in [Urls -> Buffers \cup {NoBuffer}]
      BY <2>1 DEF Pruned, IInv, TypeOK
    <2>4. \A c \in (before \cup {b}) \ before : buf[c].bytes
      BY <2>1
    <2>. QED BY <2>1, <2>2, <2>3, <2>4, PassKeeps
  <1>. QED BY <1>1, <1>2 DEF Collect

-----------------------------------------------------------------------------
(* The invariant.                                                          *)

\* At the start nothing is in the maps and nobody waits.
LEMMA InitIInv == Init => IInv
  <1>. SUFFICES ASSUME Init PROVE IInv
    OBVIOUS
  <1>1. TypeOK
    BY RecordTypes DEF Init, BufferInit, TypeOK, BufferTypeOK, NotSeeking
  <1>2. HasBuffer /\ NoMissedSignal
    BY DEF Init, BufferInit, HasBuffer, NoMissedSignal, NoRequest, NotSeeking, Over
  <1>3. MapsInv
    BY BufferAssumption DEF Init, BufferInit, MapsInv, MapsAgree, UnusedNotMapped,
       TokensAreIssued, BytesAreDone, DownloadIsKnown, Unused
  <1>. QED BY <1>1, <1>2, <1>3 DEF IInv

\* Every step keeps the invariant.
LEMMA NextIInv == IInv /\ [Next]_vars => IInv'
  <1>. SUFFICES ASSUME IInv, [Next]_vars PROVE IInv'
    OBVIOUS
  <1>1. ASSUME NEW u \in Urls, CreateProxyUrl(u) \/ StartBuffering(u)
        PROVE  IInv'
    BY <1>1, CallbackKeeps
  <1>2. ASSUME NEW x \in Seekers,
               \/ \E u \in Urls : SeekStarts(x, u)
               \/ SeekReady(x) \/ SeekFails(x) \/ SeekCreatesUrl(x)
        PROVE  IInv'
    BY <1>2, SeekKeeps
  <1>3. ASSUME NEW b \in Buffers, Downloading(b) \/ Ages(b)
        PROVE  IInv'
    BY <1>3, DownloadKeeps, AgesKeeps
  <1>4. ASSUME NEW q \in Requests,
               \/ \E t \in Tokens : Ask(q, t)
               \/ Serving(q) \/ HeadersLate(q) \/ RelayChunk(q)
               \/ ClientLeaves(q) \/ StallsOut(q)
        PROVE  IInv'
    BY <1>4, RequestKeeps
  <1>5. CASE Collect
    BY <1>5, CollectKeeps
  <1>6. CASE UNCHANGED vars
    <2>1. TypeOK'
      BY <1>6 DEF vars, maps, IInv, TypeOK, BufferTypeOK
    <2>2. HasBuffer' /\ NoMissedSignal'
      BY <1>6 DEF vars, maps, IInv, HasBuffer, NoMissedSignal, BufferOf
    <2>3. MapsInv'
      BY <1>6, MapsStay DEF vars, IInv, MapsInv, BytesAreDone
    <2>. QED BY <2>1, <2>2, <2>3 DEF IInv
  <1>. QED BY <1>1, <1>2, <1>3, <1>4, <1>5, <1>6 DEF Next

\* The inductive invariant holds in every reachable state.
THEOREM Invariance == Spec => []IInv
  BY InitIInv, NextIInv, PTL DEF Spec

\* Every field of the buffers and requests and every entry of the maps stays
\* in its type: no buffer outgrows max_memory (buffer.py:97-107).
THEOREM TypeCorrect == Spec => []TypeOK
  BY Invariance, PTL DEF IInv

\* No response sleeps through the end of its download (buffer.py:121-155).
THEOREM SignalsAreSeen == Spec => []NoMissedSignal
  BY Invariance, PTL DEF IInv

\* The maps of the proxy agree after any callbacks, requests and collections
\* (server.py:85-134, 281-329).
THEOREM MapsConsistent == Spec => []MapsAgree
  BY Invariance, PTL DEF IInv, MapsInv

\* A URL has one download under way at most (server.py:88-98, 123): each is
\* the one that _url_to_buffer names.
THEOREM SingleDownload == Spec => []OneDownload
  <1>1. IInv => OneDownload
    BY DEF IInv, MapsInv, DownloadIsKnown, OneDownload
  <1>. QED BY <1>1, Invariance, PTL

-----------------------------------------------------------------------------
(* What the steps do: AnswerIsWhole and CollectsUnread.                    *)

\* A buffer that feeds a response was touched, or is relayed; and a relay has
\* a buffer that is not kept in memory.
ServedInv ==
  /\ \A b \in served : buf[b].dl # "unused" /\ (buf[b].fresh \/ buf[b].passthrough)
  /\ \A q \in Requests : req[q].pc = "relay" => BufferOf(q).passthrough

\* A buffer that was used stays so, and so does one that is not kept in memory.
Lasts ==
  \A b \in Buffers : buf[b].dl # "unused" =>
    /\ buf'[b].dl # "unused"
    /\ buf[b].passthrough => buf'[b].passthrough

\* A buffer only ages by Ages.
StaysFresh == \A b \in Buffers : buf[b].fresh => buf'[b].fresh

\* A relay goes on with its buffer or starts with one that is not kept.
RelaysPass ==
  \A q \in Requests : req'[q].pc = "relay" =>
    \/ req[q].pc = "relay" /\ req'[q].buf = req[q].buf
    \/ buf'[req'[q].buf].passthrough

\* A response is completed where its range is sent, or where a complete
\* buffer has no more.
EndsWhole(q) ==
  req[q].pc \in {"send", "wait"} /\ req'[q].pc = "ended"
    => \/ req[q].pos > req[q].end
       \/ BufferOf(q).len <= req[q].pos /\ BufferOf(q).complete

\* Whoever is served after a step was served before, and is as fresh as it
\* was, or has just been touched.
ServedOnly ==
  \A b \in served' :
    \/ b \in served /\ (buf[b].fresh => buf'[b].fresh)
    \/ buf'[b].dl # "unused" /\ (buf'[b].fresh \/ buf'[b].passthrough)

\* A step with these effects keeps ServedInv.
LEMMA ServedKept ==
  ASSUME IInv, ServedInv, Lasts, RelaysPass, ServedOnly
  PROVE  ServedInv'
  <1>1. ASSUME NEW b \in served'
        PROVE  buf'[b].dl # "unused" /\ (buf'[b].fresh \/ buf'[b].passthrough)
    <2>1. CASE b \in served /\ (buf[b].fresh => buf'[b].fresh)
      <3>1. b \in Buffers
        BY <2>1 DEF IInv, TypeOK
      <3>. QED BY <2>1, <3>1 DEF ServedInv, Lasts
    <2>. QED BY <1>1, <2>1 DEF ServedOnly
  <1>2. ASSUME NEW q \in Requests, req'[q].pc = "relay"
        PROVE  BufferOf(q)'.passthrough
    <2>1. BufferOf(q)' = buf'[req'[q].buf]
      BY DEF BufferOf
    <2>2. CASE req[q].pc = "relay" /\ req'[q].buf = req[q].buf
      <3>1. req[q].buf \in Buffers /\ buf[req[q].buf].dl # "unused"
        BY <2>2 DEF IInv, HasBuffer, Over
      <3>. QED BY <2>1, <2>2, <3>1 DEF ServedInv, BufferOf, Lasts
    <2>. QED BY <1>2, <2>1, <2>2 DEF RelaysPass
  <1>. QED BY <1>1, <1>2 DEF ServedInv

\* What a step of the proxy owes the two properties.
StepIsGood ==
  /\ ServedInv'
  /\ \A q \in Requests : EndsWhole(q)
  /\ \A b \in live \ live' : ~buf[b].passthrough => b \notin served

\* A step that leaves requests and served alone and ages and collects nothing.
LEMMA QuietStep ==
  ASSUME IInv, ServedInv, UNCHANGED <<req, served>>, Lasts, StaysFresh,
         live \subseteq live'
  PROVE  StepIsGood
  <1>1. RelaysPass
    BY DEF RelaysPass
  <1>2. ServedOnly
    BY DEF ServedOnly, StaysFresh, IInv, TypeOK
  <1>3. \A q \in Requests : EndsWhole(q)
    BY DEF EndsWhole
  <1>. QED BY <1>1, <1>2, <1>3, ServedKept DEF StepIsGood

\* A new buffer takes the place of none that was used.
LEMMA NewBufferLasts ==
  ASSUME IInv, NEW b \in Buffers, NEW f, f.fresh, buf[b].dl = "unused",
         buf' = [buf EXCEPT ![b] = f]
  PROVE  Lasts /\ StaysFresh
  BY DEF Lasts, StaysFresh, IInv, TypeOK, BufferTypeOK

\* The callbacks of the renderers and create_seek_url().
LEMMA CallbackIsGood ==
  ASSUME IInv, ServedInv,
         \/ \E u \in Urls : CreateProxyUrl(u) \/ StartBuffering(u)
         \/ \E x \in Seekers, u \in Urls : SeekStarts(x, u)
         \/ \E x \in Seekers : SeekReady(x) \/ SeekFails(x) \/ SeekCreatesUrl(x)
  PROVE  StepIsGood
  <1>1. buf' = buf => Lasts /\ StaysFresh
    BY DEF Lasts, StaysFresh
  <1>2. ASSUME NEW b \in Buffers, NEW u \in Urls, NewBuffer(b, u)
        PROVE  Lasts /\ StaysFresh /\ live \subseteq live'
    <2>1. Started.fresh
      BY DEF Started, Unused
    <2>. QED BY <1>2, <2>1, NewBufferLasts DEF NewBuffer
  <1>3. CASE \E u \in Urls : CreateProxyUrl(u)
    BY <1>1, <1>2, <1>3, QuietStep DEF CreateProxyUrl
  <1>4. CASE \E u \in Urls : StartBuffering(u)
    BY <1>1, <1>2, <1>4, QuietStep DEF StartBuffering
  <1>5. CASE \E x \in Seekers, u \in Urls : SeekStarts(x, u)
    BY <1>1, <1>2, <1>5, QuietStep DEF SeekStarts
  <1>6. CASE \E x \in Seekers : SeekReady(x) \/ SeekFails(x)
    BY <1>1, <1>6, QuietStep DEF SeekReady, SeekFails, maps
  <1>7. CASE \E x \in Seekers : SeekCreatesUrl(x)
    <2>. DEFINE g(h) == [Unused EXCEPT !.dl = "done", !.len = 1,
                                       !.complete = TRUE, !.bytes = h]
    <2>1. PICK b \in Buffers, h \in BOOLEAN :
            /\ buf[b].dl = "unused" /\ buf' = [buf EXCEPT ![b] = g(h)]
            /\ live' = live \cup {b}
      BY <1>7 DEF SeekCreatesUrl
    <2>2. g(h).fresh
      BY DEF Unused
    <2>3. UNCHANGED <<req, served>>
      BY <1>7 DEF SeekCreatesUrl
    <2>. HIDE DEF g
    <2>. QED BY <2>1, <2>2, <2>3, NewBufferLasts, QuietStep
  <1>. QED BY <1>3, <1>4, <1>5, <1>6, <1>7

\* What a step of the download of b does to buffers and requests.
Flows(b) == Lasts /\ StaysFresh /\ (req' = req \/ req' = Woken(b))

\* A step of a download.
LEMMA DownloadFlows ==
  ASSUME IInv, NEW b \in Buffers, Downloading(b)
  PROVE  Flows(b)
  <1>a. buf[b] \in BufferType /\ UNCHANGED <<maps, seek, served>>
    BY DEF Downloading, IInv, TypeOK, BufferTypeOK
  <1>b. ASSUME NEW f, f.dl # "unused", buf[b].fresh => f.fresh,
               buf[b].passthrough => f.passthrough, buf' = [buf EXCEPT ![b] = f]
        PROVE  Lasts /\ StaysFresh
    BY <1>b DEF Lasts, StaysFresh, IInv, TypeOK, BufferTypeOK
  <1>c. ASSUME NEW f, f \in BufferType, DownloadEnds(b, f), buf[b].fresh => f.fresh,
               buf[b].passthrough => f.passthrough
        PROVE  Flows(b)
    <2>. DEFINE g == [f EXCEPT !.dl = "done", !.headers = TRUE]
    <2>1. g.dl # "unused" /\ g.fresh = f.fresh /\ g.passthrough = f.passthrough
      BY <1>c DEF BufferType
    <2>2. buf' = [buf EXCEPT ![b] = g] /\ req' = Woken(b)
      BY <1>c DEF DownloadEnds
    <2>. HIDE DEF g
    <2>. QED BY <1>b, <1>c, <2>1, <2>2 DEF Flows
  <1>1. CASE DownloadRefused(b)
    <2>1. /\ [buf[b] EXCEPT !.error = TRUE] \in BufferType
          /\ [buf[b] EXCEPT !.error = TRUE].fresh = buf[b].fresh
          /\ [buf[b] EXCEPT !.error = TRUE].passthrough = buf[b].passthrough
      BY <1>a DEF BufferType
    <2>. QED BY <1>1, <1>c, <2>1 DEF DownloadRefused
  <1>2. CASE TooLarge(b)
    <2>1. PICK k \in BOOLEAN :
            DownloadEnds(b, [buf[b] EXCEPT !.known = k, !.passthrough = TRUE])
      BY <1>2 DEF TooLarge
    <2>2. /\ [buf[b] EXCEPT !.known = k, !.passthrough = TRUE] \in BufferType
          /\ [buf[b] EXCEPT !.known = k, !.passthrough = TRUE].fresh = buf[b].fresh
          /\ [buf[b] EXCEPT !.known = k, !.passthrough = TRUE].passthrough
      BY <1>a DEF BufferType
    <2>. QED BY <1>c, <2>1, <2>2
  <1>3. CASE HeadersArrive(b)
    <2>. DEFINE g == [buf[b] EXCEPT !.dl = "body", !.known = TRUE, !.headers = TRUE]
    <2>1. g.dl # "unused" /\ g.fresh = buf[b].fresh /\ g.passthrough = buf[b].passthrough
      BY <1>a DEF BufferType
    <2>2. buf' = [buf EXCEPT ![b] = g] /\ req' = req
      BY <1>3 DEF HeadersArrive
    <2>. HIDE DEF g
    <2>. QED BY <1>b, <2>1, <2>2 DEF Flows
  <1>4. CASE ChunkArrives(b)
    <2>. DEFINE g == [buf[b] EXCEPT !.len = @ + 1, !.fresh = TRUE]
    <2>1. g.dl = buf[b].dl /\ g.fresh /\ g.passthrough = buf[b].passthrough
      BY <1>a DEF BufferType
    <2>2. buf' = [buf EXCEPT ![b] = g] /\ req' = Woken(b) /\ buf[b].dl = "body"
      BY <1>4 DEF ChunkArrives
    <2>. HIDE DEF g
    <2>. QED BY <1>b, <2>1, <2>2 DEF Flows
  <1>5. CASE Overflows(b)
    <2>0. 0 \in 0 .. MaxMemory
      BY SizeAssumption
    <2>1. /\ [buf[b] EXCEPT !.len = 0, !.passthrough = TRUE] \in BufferType
          /\ [buf[b] EXCEPT !.len = 0, !.passthrough = TRUE].fresh = buf[b].fresh
          /\ [buf[b] EXCEPT !.len = 0, !.passthrough = TRUE].passthrough
      BY <1>a, <2>0 DEF BufferType
    <2>. QED BY <1>5, <1>c, <2>1 DEF Overflows
  <1>6. CASE Completes(b)
    <2>1. /\ [buf[b] EXCEPT !.complete = TRUE] \in BufferType
          /\ [buf[b] EXCEPT !.complete = TRUE].fresh = buf[b].fresh
          /\ [buf[b] EXCEPT !.complete = TRUE].passthrough = buf[b].passthrough
      BY <1>a DEF BufferType
    <2>. QED BY <1>6, <1>c, <2>1 DEF Completes
  <1>7. CASE BreaksOff(b)
    <2>1. /\ [buf[b] EXCEPT !.error = TRUE] \in BufferType
          /\ [buf[b] EXCEPT !.error = TRUE].fresh = buf[b].fresh
          /\ [buf[b] EXCEPT !.error = TRUE].passthrough = buf[b].passthrough
      BY <1>a DEF BufferType
    <2>. QED BY <1>7, <1>c, <2>1 DEF BreaksOff
  <1>8. CASE CancelArrives(b)
    BY <1>8, <1>a, <1>c DEF CancelArrives
  <1>. QED BY <1>1, <1>2, <1>3, <1>4, <1>5, <1>6, <1>7, <1>8 DEF Downloading, Download

\* The download.
LEMMA DownloadIsGood ==
  ASSUME IInv, ServedInv, NEW b \in Buffers, Downloading(b)
  PROVE  StepIsGood
  <1>1. Flows(b)
    BY DownloadFlows
  <1>2. served' = served /\ live' = live
    BY DEF Downloading, maps
  <1>3. \A q \in Requests : req'[q].pc = req[q].pc /\ req'[q].buf = req[q].buf
    BY <1>1, WokenMeans DEF IInv, Flows
  <1>4. RelaysPass /\ \A q \in Requests : EndsWhole(q)
    BY <1>3 DEF RelaysPass, EndsWhole
  <1>5. ServedOnly
    BY <1>1, <1>2 DEF ServedOnly, Flows, StaysFresh, IInv, TypeOK
  <1>. QED BY <1>1, <1>2, <1>4, <1>5, ServedKept DEF StepIsGood, Flows

\* A request that moves without touching its buffer, other than to an end
\* that its bytes do not justify.
LEMMA MovesIsGood ==
  ASSUME IInv, ServedInv, NEW q \in Requests, NEW l,
         req' = [req EXCEPT ![q] = l], UNCHANGED <<buf, maps, served>>,
         l.pc = "relay" => (req[q].pc = "relay" /\ l.buf = req[q].buf)
                           \/ buf[l.buf].passthrough,
         req[q].pc \in {"send", "wait"} /\ l.pc = "ended"
           => \/ req[q].pos > req[q].end
              \/ BufferOf(q).len <= req[q].pos /\ BufferOf(q).complete
  PROVE  StepIsGood
  <1>1. \A p \in Requests : req'[p] = IF p = q THEN l ELSE req[p]
    BY DEF IInv, TypeOK, BufferTypeOK
  <1>2. Lasts /\ ServedOnly /\ live' = live
    BY DEF Lasts, ServedOnly, maps
  <1>3. RelaysPass
    BY <1>1 DEF RelaysPass
  <1>4. \A p \in Requests : EndsWhole(p)
    BY <1>1 DEF EndsWhole
  <1>. QED BY <1>2, <1>3, <1>4, ServedKept DEF StepIsGood

\* A request that only changes its place.
LEMMA GoesIsGood ==
  ASSUME IInv, ServedInv, NEW q \in Requests, NEW pc, Goes(q, pc),
         UNCHANGED <<buf, maps, served>>, pc # "relay",
         req[q].pc \in {"send", "wait"} /\ pc = "ended"
           => \/ req[q].pos > req[q].end
              \/ BufferOf(q).len <= req[q].pos /\ BufferOf(q).complete
  PROVE  StepIsGood
  <1>. DEFINE l == [req[q] EXCEPT !.pc = pc]
  <1>1. l.pc = pc
    BY DEF IInv, TypeOK, BufferTypeOK, RequestType
  <1>2. req' = [req EXCEPT ![q] = l]
    BY DEF Goes
  <1>. HIDE DEF l
  <1>. QED BY <1>1, <1>2, MovesIsGood

\* A request is answered.
LEMMA AnswerIsGood ==
  ASSUME IInv, ServedInv, NEW q \in Requests, NEW b \in Buffers, Answers(q, b),
         req[q].pc \notin {"send", "wait"}, UNCHANGED <<buf, maps, seek, served>>
  PROVE  StepIsGood
  <1>1. ASSUME NEW pc, Enters(q, pc, b), pc = "relay" => buf[b].passthrough
        PROVE  StepIsGood
    <2>. DEFINE l == [NoRequest EXCEPT !.pc = pc, !.buf = b]
    <2>1. l.pc = pc /\ l.buf = b
      BY DEF NoRequest
    <2>2. req' = [req EXCEPT ![q] = l]
      BY <1>1 DEF Enters
    <2>. HIDE DEF l
    <2>. QED BY <1>1, <2>1, <2>2, MovesIsGood
  <1>2. ASSUME NEW s, NEW e,
               req' = [req EXCEPT ![q] = [pc |-> "send", buf |-> b, pos |-> s,
                                          end |-> e, woken |-> FALSE]]
        PROVE  StepIsGood
    <2>. DEFINE l == [pc |-> "send", buf |-> b, pos |-> s, end |-> e, woken |-> FALSE]
    <2>1. l.pc = "send" /\ req' = [req EXCEPT ![q] = l]
      BY <1>2
    <2>. HIDE DEF l
    <2>. QED BY <2>1, MovesIsGood
  <1>. QED BY <1>1, <1>2 DEF Answers, Prepares

\* A response that is fed from a buffer.
LEMMA StreamIsGood ==
  ASSUME IInv, ServedInv, NEW q \in Requests, BufferedStream(q)
  PROVE  StepIsGood
  <1>a. /\ UNCHANGED maps /\ req[q] \in RequestType
        /\ served' = IF req[q].pc = "send" /\ req'[q].pos # req[q].pos
                     THEN served \cup {req[q].buf} ELSE served
    BY DEF BufferedStream, IInv, TypeOK, BufferTypeOK
  <1>1. CASE SendChunk(q)
    <2>. DEFINE c == req[q].buf
                g == [buf[c] EXCEPT !.fresh = TRUE]
                l == [req[q] EXCEPT !.pos = @ + 1]
    <2>1. /\ req[q].pc = "send" /\ buf' = [buf EXCEPT ![c] = g]
          /\ req' = [req EXCEPT ![q] = l]
      BY <1>1 DEF SendChunk
    <2>2. c \in Buffers /\ buf[c].dl # "unused" /\ buf[c] \in BufferType
      BY <2>1 DEF IInv, HasBuffer, Over, TypeOK, BufferTypeOK
    <2>3. g.fresh /\ g.dl = buf[c].dl /\ g.passthrough = buf[c].passthrough
      BY <2>2 DEF BufferType
    <2>4. l.pc = "send" /\ served' \subseteq served \cup {c}
      BY <1>a, <2>1 DEF RequestType
    <2>. HIDE DEF g, l, c
    <2>5. \A p \in Requests : req'[p] = IF p = q THEN l ELSE req[p]
      BY <2>1 DEF IInv, TypeOK, BufferTypeOK
    <2>6. \A b \in Buffers : buf'[b] = IF b = c THEN g ELSE buf[b]
      BY <2>1 DEF IInv, TypeOK, BufferTypeOK
    <2>7. Lasts
      BY <2>2, <2>3, <2>6 DEF Lasts
    <2>8. ServedOnly
      BY <2>2, <2>3, <2>4, <2>6 DEF ServedOnly, IInv, TypeOK
    <2>9. RelaysPass /\ \A p \in Requests : EndsWhole(p)
      BY <2>4, <2>5 DEF RelaysPass, EndsWhole
    <2>10. live' = live
      BY <1>a DEF maps
    <2>. QED BY <2>7, <2>8, <2>9, <2>10, ServedKept DEF StepIsGood
  <1>2. ASSUME NEW pc, Goes(q, pc), buf' = buf, pc # "relay",
               req[q].pc \in {"send", "wait"} /\ pc = "ended"
                 => \/ req[q].pos > req[q].end
                    \/ BufferOf(q).len <= req[q].pos /\ BufferOf(q).complete
        PROVE  StepIsGood
    <2>1. req'[q].pos = req[q].pos
      BY <1>2, <1>a DEF Goes, IInv, TypeOK, BufferTypeOK, RequestType
    <2>. QED BY <1>2, <1>a, <2>1, GoesIsGood
  <1>3. CASE SendEnds(q)
    BY <1>2, <1>3 DEF SendEnds
  <1>4. CASE SendCut(q)
    BY <1>2, <1>4 DEF SendCut
  <1>5. ASSUME NEW l, l.pc = "wait", l.pos = req[q].pos, buf' = buf,
               req' = [req EXCEPT ![q] = l]
        PROVE  StepIsGood
    <2>1. served' = served
      BY <1>5, <1>a DEF IInv, TypeOK, BufferTypeOK
    <2>. QED BY <1>5, <1>a, <2>1, MovesIsGood
  <1>6. CASE SendWaits(q)
    <2>. DEFINE l == [req[q] EXCEPT !.pc = "wait", !.woken = FALSE]
    <2>1. l.pc = "wait" /\ l.pos = req[q].pos
      BY <1>a DEF RequestType
    <2>2. req' = [req EXCEPT ![q] = l] /\ buf' = buf
      BY <1>6 DEF SendWaits
    <2>. HIDE DEF l
    <2>. QED BY <1>5, <2>1, <2>2
  <1>7. CASE Wakes(q)
    <2>. DEFINE l == [req[q] EXCEPT !.woken = FALSE]
    <2>1. l.pc = req[q].pc /\ l.pos = req[q].pos
      BY <1>a DEF RequestType
    <2>2. /\ req[q].pc = "wait" /\ buf' = buf
          /\ Goes(q, "send") \/ Goes(q, "cut") \/ req' = [req EXCEPT ![q] = l]
      BY <1>7 DEF Wakes
    <2>. HIDE DEF l
    <2>. QED BY <1>2, <1>5, <2>1, <2>2
  <1>. QED BY <1>1, <1>3, <1>4, <1>6, <1>7 DEF BufferedStream, Stream

\* The requests.
LEMMA RequestIsGood ==
  ASSUME IInv, ServedInv, NEW q \in Requests,
         \/ \E t \in Tokens : Ask(q, t)
         \/ Serving(q) \/ HeadersLate(q) \/ RelayChunk(q)
         \/ ClientLeaves(q) \/ StallsOut(q)
  PROVE  StepIsGood
  <1>1. CASE \E t \in Tokens : Ask(q, t)
    <2>1. PICK t \in Tokens : Ask(q, t)
      BY <1>1
    <2>. DEFINE b == tokenBuf[t]
    <2>2. b \in Buffers /\ UNCHANGED <<buf, maps, seek, served>> /\ req[q].pc \in Over
      BY <2>1 DEF Ask, IInv, TypeOK
    <2>3. CASE Answers(q, b)
      BY <2>2, <2>3, AnswerIsGood DEF Over
    <2>4. CASE Enters(q, "headers", b)
      <3>. DEFINE l == [NoRequest EXCEPT !.pc = "headers", !.buf = b]
      <3>1. l.pc = "headers"
        BY DEF NoRequest
      <3>2. req' = [req EXCEPT ![q] = l]
        BY <2>4 DEF Enters
      <3>. HIDE DEF l, b
      <3>. QED BY <2>2, <3>1, <3>2, MovesIsGood
    <2>. QED BY <2>1, <2>3, <2>4 DEF Ask
  <1>2. CASE HeadersSeen(q)
    <2>1. req[q].buf \in Buffers /\ req[q].pc = "headers"
      BY <1>2 DEF HeadersSeen, IInv, HasBuffer, Over
    <2>. QED BY <1>2, <2>1, AnswerIsGood DEF HeadersSeen
  <1>3. CASE BufferedStream(q)
    BY <1>3, StreamIsGood
  <1>4. CASE RelayEnds(q)
    BY <1>4, GoesIsGood DEF RelayEnds
  <1>5. CASE HeadersLate(q)
    BY <1>5, GoesIsGood DEF HeadersLate
  <1>6. CASE RelayChunk(q)
    <2>1. /\ req[q].pc = "relay" /\ served' = served \cup {req[q].buf}
          /\ UNCHANGED <<buf, req, maps>>
      BY <1>6 DEF RelayChunk
    <2>2. BufferOf(q).passthrough /\ BufferOf(q).dl # "unused"
      BY <2>1 DEF ServedInv, IInv, HasBuffer, BufferOf, Over
    <2>3. Lasts /\ RelaysPass /\ live' = live
      BY <2>1 DEF Lasts, RelaysPass, maps
    <2>4. ServedOnly
      BY <2>1, <2>2 DEF ServedOnly, BufferOf
    <2>5. \A p \in Requests : EndsWhole(p)
      BY <2>1 DEF EndsWhole
    <2>. QED BY <2>3, <2>4, <2>5, ServedKept DEF StepIsGood
  <1>7. CASE ClientLeaves(q)
    BY <1>7, GoesIsGood DEF ClientLeaves
  <1>8. CASE StallsOut(q)
    BY <1>8, GoesIsGood DEF StallsOut, Stalls
  <1>. QED BY <1>1, <1>2, <1>3, <1>4, <1>5, <1>6, <1>7, <1>8 DEF Serving

\* Time, and the collector.
LEMMA TimeIsGood ==
  ASSUME IInv, ServedInv, Collect \/ \E b \in Buffers : Ages(b)
  PROVE  StepIsGood
  <1>1. ASSUME NEW b \in Buffers, Ages(b)
        PROVE  StepIsGood
    <2>. DEFINE g == [buf[b] EXCEPT !.fresh = FALSE]
    <2>1. /\ buf' = [buf EXCEPT ![b] = g] /\ served' = served \ {b}
          /\ UNCHANGED <<req, maps>> /\ buf[b] \in BufferType
      BY <1>1 DEF Ages, IInv, TypeOK, BufferTypeOK
    <2>2. g.dl = buf[b].dl /\ g.passthrough = buf[b].passthrough
      BY <2>1 DEF BufferType
    <2>. HIDE DEF g
    <2>3. \A c \in Buffers : buf'[c] = IF c = b THEN g ELSE buf[c]
      BY <2>1 DEF IInv, TypeOK, BufferTypeOK
    <2>4. Lasts
      BY <2>2, <2>3 DEF Lasts
    <2>5. ServedOnly
      BY <2>1, <2>3 DEF ServedOnly, IInv, TypeOK
    <2>6. RelaysPass /\ live' = live /\ \A q \in Requests : EndsWhole(q)
      BY <2>1 DEF RelaysPass, maps, EndsWhole
    <2>. QED BY <2>4, <2>5, <2>6, ServedKept DEF StepIsGood
  <1>2. CASE Collect
    <2>1. /\ UNCHANGED <<req, served>>
          /\ \E gone \in SUBSET Expired : Release(gone)
          /\ live \ live' \subseteq Expired
      BY <1>2 DEF Collect, CollectAll, CollectBreaksOff
    <2>2. ASSUME NEW b \in Buffers
          PROVE  /\ buf'[b].fresh = buf[b].fresh
                 /\ buf'[b].passthrough = buf[b].passthrough
                 /\ buf[b].dl # "unused" => buf'[b].dl # "unused"
      <3>1. buf'[b] \in {Collected(buf[b]), buf[b]}
        BY <2>1 DEF Release
      <3>2. buf[b] \in BufferType
        BY DEF IInv, TypeOK, BufferTypeOK
      <3>. QED BY <3>1, <3>2 DEF Collected, BufferType
    <2>3. Lasts
      BY <2>2 DEF Lasts
    <2>4. ServedOnly
      BY <2>1, <2>2 DEF ServedOnly, IInv, TypeOK
    <2>5. RelaysPass /\ \A q \in Requests : EndsWhole(q)
      BY <2>1 DEF RelaysPass, EndsWhole
    <2>6. \A b \in live \ live' : ~buf[b].passthrough => b \notin served
      BY <2>1 DEF Expired, ServedInv
    <2>. QED BY <2>3, <2>4, <2>5, <2>6, ServedKept DEF StepIsGood
  <1>. QED BY <1>1, <1>2

\* Every step is good.
LEMMA StepsAreGood == IInv /\ ServedInv /\ [Next]_vars => StepIsGood
  <1>. SUFFICES ASSUME IInv, ServedInv, [Next]_vars PROVE StepIsGood
    OBVIOUS
  <1>1. CASE UNCHANGED vars
    <2>1. UNCHANGED <<buf, req, served, live>>
      BY <1>1 DEF vars, maps
    <2>. QED BY <2>1, QuietStep DEF Lasts, StaysFresh
  <1>. QED BY <1>1, CallbackIsGood, DownloadIsGood, RequestIsGood, TimeIsGood DEF Next

\* Nothing is served at the start.
LEMMA InitServed == Init => ServedInv
  BY DEF Init, BufferInit, ServedInv, NoRequest

-----------------------------------------------------------------------------
(* What a response may send of a buffer.                                   *)

\* The range of a buffer that responses may ask for.
Total(b) == IF buf[b].known THEN Announced ELSE buf[b].len

\* A buffer says nothing before its headers, and is complete only with all
\* that was announced, as long as it is not collected.
Sound(b) ==
  /\ buf[b].dl = "connect" =>
       ~buf[b].headers /\ ~buf[b].complete /\ ~buf[b].error /\ ~buf[b].passthrough
  /\ buf[b].dl = "body" => buf[b].known /\ ~buf[b].complete
  /\ b \in live /\ buf[b].complete /\ buf[b].known => buf[b].len >= Announced

\* A response is fed from a buffer whose length is settled, and within it.
Fed(q) ==
  req[q].pc \in {"send", "wait"} =>
    /\ BufferOf(q).dl # "connect"
    /\ req[q].buf \in live => req[q].end < Total(req[q].buf)

FedInv == (\A b \in Buffers : Sound(b)) /\ (\A q \in Requests : Fed(q))

\* A buffer whose length is settled keeps it while it is live.
Settled(b) ==
  buf[b].dl \notin {"unused", "connect"} =>
    /\ buf'[b].dl # "connect"
    /\ b \in live' => /\ b \in live /\ buf'[b].known = buf[b].known
                      /\ buf[b].known \/ buf'[b].len = buf[b].len

\* A response goes on as it was, or starts within its buffer.
Feeds(q) ==
  req'[q].pc \in {"send", "wait"} =>
    \/ /\ req[q].pc \in {"send", "wait"}
       /\ req'[q].buf = req[q].buf /\ req'[q].end = req[q].end
    \/ /\ UNCHANGED <<buf, live>> /\ buf[req'[q].buf].dl # "connect"
       /\ req'[q].end < Total(req'[q].buf)

\* A step that settles and feeds keeps the invariant.
LEMMA FedKept ==
  ASSUME IInv, FedInv, \A b \in Buffers : Sound(b)' /\ Settled(b),
         \A q \in Requests : Feeds(q)
  PROVE  FedInv'
  <1>1. ASSUME NEW q \in Requests, req'[q].pc \in {"send", "wait"}
        PROVE  Fed(q)'
    <2>1. CASE /\ req[q].pc \in {"send", "wait"}
               /\ req'[q].buf = req[q].buf /\ req'[q].end = req[q].end
      <3>1. PICK b \in Buffers :
              b = req[q].buf /\ buf[b].dl \notin {"unused", "connect"}
        BY <2>1 DEF IInv, HasBuffer, FedInv, Fed, BufferOf, Over
      <3>2. buf'[b].dl # "connect" /\ BufferOf(q)' = buf'[b]
        BY <2>1, <3>1 DEF Settled, BufferOf
      <3>3. ASSUME b \in live'
            PROVE  req'[q].end < Total(b)'
        <4>1. b \in live /\ Total(b)' = Total(b)
          BY <3>1, <3>3 DEF Settled, Total
        <4>. QED BY <2>1, <3>1, <4>1 DEF FedInv, Fed
      <3>. QED BY <2>1, <3>1, <3>2, <3>3 DEF Fed, Total
    <2>2. CASE /\ UNCHANGED <<buf, live>> /\ buf[req'[q].buf].dl # "connect"
               /\ req'[q].end < Total(req'[q].buf)
      BY <2>2 DEF Fed, BufferOf, Total
    <2>. QED BY <1>1, <2>1, <2>2 DEF Feeds
  <1>. QED BY <1>1 DEF FedInv, Fed

\* Buffers that keep what a response looks at stay sound and settled.
LEMMA SoundStays ==
  ASSUME FedInv, NEW b \in Buffers, b \in live' => b \in live,
         buf'[b].dl = buf[b].dl, buf'[b].known = buf[b].known,
         buf'[b].headers = buf[b].headers, buf'[b].complete = buf[b].complete,
         buf'[b].error = buf[b].error, buf'[b].passthrough = buf[b].passthrough,
         buf'[b].len = buf[b].len
  PROVE  Sound(b)' /\ Settled(b)
  BY DEF FedInv, Sound, Settled

\* A step that leaves the requests alone and makes one new buffer.
LEMMA NewIsFed ==
  ASSUME IInv, FedInv, UNCHANGED req, NEW b \in Buffers, buf[b].dl = "unused",
         NEW f, buf' = [buf EXCEPT ![b] = f], live' = live \cup {b},
         f.dl = "connect" => ~f.headers /\ ~f.complete /\ ~f.error /\ ~f.passthrough,
         f.dl # "body", ~f.known
  PROVE  FedInv'
  <1>1. \A c \in Buffers : buf'[c] = IF c = b THEN f ELSE buf[c]
    BY DEF IInv, TypeOK, BufferTypeOK
  <1>2. \A c \in Buffers : Sound(c)' /\ Settled(c)
    BY <1>1 DEF FedInv, Sound, Settled
  <1>3. \A q \in Requests : Feeds(q)
    BY DEF Feeds
  <1>. QED BY <1>2, <1>3, FedKept

\* A step that leaves buffers and requests alone.
LEMMA QuietIsFed ==
  ASSUME FedInv, UNCHANGED <<buf, req, live>>
  PROVE  FedInv'
  BY DEF FedInv, Sound, Fed, BufferOf, Total

\* The callbacks of the renderers and create_seek_url().
LEMMA CallbackIsFed ==
  ASSUME IInv, FedInv,
         \/ \E u \in Urls : CreateProxyUrl(u) \/ StartBuffering(u)
         \/ \E x \in Seekers, u \in Urls : SeekStarts(x, u)
         \/ \E x \in Seekers : SeekReady(x) \/ SeekFails(x) \/ SeekCreatesUrl(x)
  PROVE  FedInv'
  <1>1. ASSUME NEW b \in Buffers, NEW u \in Urls, NewBuffer(b, u), UNCHANGED req
        PROVE  FedInv'
    <2>1. /\ Started.dl = "connect" /\ ~Started.headers /\ ~Started.complete
          /\ ~Started.error /\ ~Started.passthrough /\ ~Started.known
      BY DEF Started, Unused
    <2>. QED BY <1>1, <2>1, NewIsFed DEF NewBuffer
  <1>2. CASE \E u \in Urls : CreateProxyUrl(u)
    BY <1>1, <1>2, QuietIsFed DEF CreateProxyUrl
  <1>3. CASE \E u \in Urls : StartBuffering(u)
    BY <1>1, <1>3 DEF StartBuffering
  <1>4. CASE \E x \in Seekers, u \in Urls : SeekStarts(x, u)
    BY <1>1, <1>4, QuietIsFed DEF SeekStarts
  <1>5. CASE \E x \in Seekers : SeekReady(x) \/ SeekFails(x)
    BY <1>5, QuietIsFed DEF SeekReady, SeekFails, maps
  <1>6. CASE \E x \in Seekers : SeekCreatesUrl(x)
    <2>. DEFINE g(h) == [Unused EXCEPT !.dl = "done", !.len = 1,
                                       !.complete = TRUE, !.bytes = h]
    <2>1. PICK b \in Buffers, h \in BOOLEAN :
            /\ buf[b].dl = "unused" /\ buf' = [buf EXCEPT ![b] = g(h)]
            /\ live' = live \cup {b} /\ UNCHANGED req
      BY <1>6 DEF SeekCreatesUrl
    <2>2. g(h).dl = "done" /\ ~g(h).known
      BY DEF Unused
    <2>. HIDE DEF g
    <2>. QED BY <2>1, <2>2, NewIsFed
  <1>. QED BY <1>2, <1>3, <1>4, <1>5, <1>6

\* The download.
LEMMA DownloadIsFed ==
  ASSUME IInv, FedInv, NEW b \in Buffers, Downloading(b)
  PROVE  FedInv'
  <1>a. buf[b] \in BufferType /\ live' = live /\ Sound(b)
    BY DEF Downloading, maps, IInv, TypeOK, BufferTypeOK, FedInv
  <1>b. \A q \in Requests : req'[q].pc = req[q].pc /\ req'[q].buf = req[q].buf
          /\ req'[q].end = req[q].end
    <2>1. ASSUME NEW q \in Requests
          PROVE  /\ Woken(b)[q].pc = req[q].pc /\ Woken(b)[q].buf = req[q].buf
                 /\ Woken(b)[q].end = req[q].end
      <3>1. req[q] \in RequestType
        BY DEF IInv, TypeOK, BufferTypeOK
      <3>2. /\ [req[q] EXCEPT !.woken = TRUE].pc = req[q].pc
            /\ [req[q] EXCEPT !.woken = TRUE].buf = req[q].buf
            /\ [req[q] EXCEPT !.woken = TRUE].end = req[q].end
        BY <3>1 DEF RequestType
      <3>. QED BY <3>2 DEF Woken
    <2>2. req' = req \/ req' = Woken(b)
      BY DEF Downloading, Download, DownloadRefused, TooLarge, HeadersArrive,
             ChunkArrives, Overflows, Completes, BreaksOff, CancelArrives, DownloadEnds
    <2>. QED BY <2>1, <2>2
  <1>c. \A q \in Requests : Feeds(q)
    BY <1>b DEF Feeds
  <1>d. ASSUME NEW f, buf' = [buf EXCEPT ![b] = f], f.dl # "connect",
               f.dl = "body" => f.known /\ ~f.complete,
               b \in live /\ f.complete /\ f.known => f.len >= Announced,
               buf[b].dl # "connect" => /\ f.known = buf[b].known
                                        /\ f.known \/ f.len = buf[b].len
        PROVE  FedInv'
    <2>1. \A c \in Buffers : buf'[c] = IF c = b THEN f ELSE buf[c]
      BY <1>d DEF IInv, TypeOK, BufferTypeOK
    <2>2. Sound(b)' /\ Settled(b)
      BY <1>a, <1>d, <2>1 DEF Sound, Settled
    <2>3. ASSUME NEW c \in Buffers, c # b
          PROVE  Sound(c)' /\ Settled(c)
      BY <1>a, <2>1, <2>3 DEF FedInv, Sound, Settled
    <2>. QED BY <2>2, <2>3, <1>c, FedKept
  <1>e. ASSUME NEW f \in BufferType, DownloadEnds(b, f),
               b \in live /\ f.complete /\ f.known => f.len >= Announced,
               buf[b].dl # "connect" => /\ f.known = buf[b].known
                                        /\ f.known \/ f.len = buf[b].len
        PROVE  FedInv'
    <2>. DEFINE g == [f EXCEPT !.dl = "done", !.headers = TRUE]
    <2>1. g.dl = "done" /\ g.complete = f.complete /\ g.known = f.known /\ g.len = f.len
      BY DEF BufferType
    <2>2. buf' = [buf EXCEPT ![b] = g]
      BY <1>e DEF DownloadEnds
    <2>. HIDE DEF g
    <2>. QED BY <1>d, <1>e, <2>1, <2>2
  <1>f. buf[b].dl = "connect" => ~buf[b].complete
    BY <1>a DEF Sound
  <1>g. buf[b].dl = "body" => buf[b].known /\ ~buf[b].complete
    BY <1>a DEF Sound
  <1>1. CASE DownloadRefused(b)
    <2>. DEFINE f == [buf[b] EXCEPT !.error = TRUE]
    <2>1. f \in BufferType /\ f.complete = buf[b].complete
      BY <1>a DEF BufferType
    <2>2. DownloadEnds(b, f) /\ buf[b].dl = "connect"
      BY <1>1 DEF DownloadRefused
    <2>. HIDE DEF f
    <2>. QED BY <2>1, <2>2, <1>e, <1>f
  <1>2. CASE TooLarge(b)
    <2>. DEFINE f(k) == [buf[b] EXCEPT !.known = k, !.passthrough = TRUE]
    <2>1. PICK k \in BOOLEAN : DownloadEnds(b, f(k))
      BY <1>2 DEF TooLarge
    <2>2. f(k) \in BufferType /\ f(k).complete = buf[b].complete
      BY <1>a DEF BufferType
    <2>3. buf[b].dl = "connect"
      BY <1>2 DEF TooLarge
    <2>. HIDE DEF f
    <2>. QED BY <2>1, <2>2, <2>3, <1>e, <1>f
  <1>3. CASE HeadersArrive(b)
    <2>. DEFINE g == [buf[b] EXCEPT !.dl = "body", !.known = TRUE, !.headers = TRUE]
    <2>1. g.dl = "body" /\ g.known /\ g.complete = buf[b].complete
      BY <1>a DEF BufferType
    <2>2. buf' = [buf EXCEPT ![b] = g] /\ buf[b].dl = "connect"
      BY <1>3 DEF HeadersArrive
    <2>. HIDE DEF g
    <2>. QED BY <2>1, <2>2, <1>d, <1>f
  <1>4. CASE ChunkArrives(b)
    <2>. DEFINE g == [buf[b] EXCEPT !.len = @ + 1, !.fresh = TRUE]
    <2>1. /\ g.dl = buf[b].dl /\ g.known = buf[b].known
          /\ g.complete = buf[b].complete
      BY <1>a DEF BufferType
    <2>2. buf' = [buf EXCEPT ![b] = g] /\ buf[b].dl = "body"
      BY <1>4 DEF ChunkArrives
    <2>. HIDE DEF g
    <2>. QED BY <2>1, <2>2, <1>d, <1>g
  <1>5. CASE Overflows(b)
    <2>. DEFINE f == [buf[b] EXCEPT !.len = 0, !.passthrough = TRUE]
    <2>0. 0 \in 0 .. MaxMemory
      BY SizeAssumption
    <2>1. f \in BufferType /\ f.complete = buf[b].complete /\ f.known = buf[b].known
      BY <1>a, <2>0 DEF BufferType
    <2>2. DownloadEnds(b, f) /\ buf[b].dl = "body"
      BY <1>5 DEF Overflows
    <2>. HIDE DEF f
    <2>. QED BY <2>1, <2>2, <1>e, <1>g
  <1>6. CASE Completes(b)
    <2>. DEFINE f == [buf[b] EXCEPT !.complete = TRUE]
    <2>1. f \in BufferType /\ f.len = buf[b].len /\ f.known = buf[b].known
      BY <1>a DEF BufferType
    <2>2. DownloadEnds(b, f) /\ buf[b].dl = "body" /\ buf[b].len >= Announced
      BY <1>6 DEF Completes
    <2>. HIDE DEF f
    <2>. QED BY <2>1, <2>2, <1>e, <1>g
  <1>7. CASE BreaksOff(b)
    <2>. DEFINE f == [buf[b] EXCEPT !.error = TRUE]
    <2>1. f \in BufferType /\ f.complete = buf[b].complete /\ f.known = buf[b].known
      BY <1>a DEF BufferType
    <2>2. DownloadEnds(b, f) /\ buf[b].dl = "body"
      BY <1>7 DEF BreaksOff
    <2>. HIDE DEF f
    <2>. QED BY <2>1, <2>2, <1>e, <1>g
  <1>8. CASE CancelArrives(b)
    BY <1>8, <1>a, <1>e DEF CancelArrives, Sound
  <1>. QED BY <1>1, <1>2, <1>3, <1>4, <1>5, <1>6, <1>7, <1>8 DEF Downloading, Download

\* A request that moves, where the buffers keep what it looks at.
LEMMA MovesIsFed ==
  ASSUME IInv, FedInv, NEW q \in Requests, NEW l, req' = [req EXCEPT ![q] = l],
         live' = live, buf' = buf,
         l.pc \in {"send", "wait"} =>
           \/ req[q].pc \in {"send", "wait"} /\ l.buf = req[q].buf /\ l.end = req[q].end
           \/ buf[l.buf].dl # "connect" /\ l.end < Total(l.buf)
  PROVE  FedInv'
  <1>1. \A p \in Requests : req'[p] = IF p = q THEN l ELSE req[p]
    BY DEF IInv, TypeOK, BufferTypeOK
  <1>2. \A b \in Buffers : Sound(b)' /\ Settled(b)
    BY SoundStays
  <1>3. \A p \in Requests : Feeds(p)
    BY <1>1 DEF Feeds
  <1>. QED BY <1>2, <1>3, FedKept

\* A request that only changes its place.
LEMMA GoesIsFed ==
  ASSUME IInv, FedInv, NEW q \in Requests, NEW pc, Goes(q, pc),
         UNCHANGED <<buf, live>>,
         pc \in {"send", "wait"} => req[q].pc \in {"send", "wait"}
  PROVE  FedInv'
  <1>. DEFINE l == [req[q] EXCEPT !.pc = pc]
  <1>1. l.pc = pc /\ l.buf = req[q].buf /\ l.end = req[q].end
    BY DEF IInv, TypeOK, BufferTypeOK, RequestType
  <1>2. req' = [req EXCEPT ![q] = l]
    BY DEF Goes
  <1>. HIDE DEF l
  <1>. QED BY <1>1, <1>2, MovesIsFed

\* A request is answered, by a buffer whose headers are there.
LEMMA AnswerIsFed ==
  ASSUME IInv, FedInv, NEW q \in Requests, NEW b \in Buffers, Answers(q, b),
         buf[b].dl # "connect", UNCHANGED <<buf, live>>
  PROVE  FedInv'
  <1>1. ASSUME NEW pc, Enters(q, pc, b), pc \notin {"send", "wait"}
        PROVE  FedInv'
    <2>. DEFINE l == [NoRequest EXCEPT !.pc = pc, !.buf = b]
    <2>1. l.pc = pc
      BY DEF NoRequest
    <2>2. req' = [req EXCEPT ![q] = l]
      BY <1>1 DEF Enters
    <2>. HIDE DEF l
    <2>. QED BY <1>1, <2>1, <2>2, MovesIsFed
  <1>2. CASE Prepares(q, b)
    <2>1. Total(b) \in Nat
      BY SizeAssumption DEF Total, IInv, TypeOK, BufferTypeOK, BufferType
    <2>2. CASE Enters(q, "refused", b) \/ Enters(q, "ended", b)
      BY <1>1, <2>2
    <2>3. ASSUME NEW s \in 0 .. Total(b) - 1, NEW e \in s .. Total(b) - 1,
                 req' = [req EXCEPT ![q] = [pc |-> "send", buf |-> b, pos |-> s,
                                            end |-> e, woken |-> FALSE]]
          PROVE  FedInv'
      <3>. DEFINE l == [pc |-> "send", buf |-> b, pos |-> s, end |-> e, woken |-> FALSE]
      <3>1. l.buf = b /\ l.end < Total(b) /\ req' = [req EXCEPT ![q] = l]
        BY <2>1, <2>3
      <3>. HIDE DEF l
      <3>. QED BY <3>1, MovesIsFed
    <2>. QED BY <1>2, <2>2, <2>3 DEF Prepares, Total
  <1>. QED BY <1>1, <1>2 DEF Answers

\* A response that is fed from a buffer.
LEMMA StreamIsFed ==
  ASSUME IInv, FedInv, NEW q \in Requests, BufferedStream(q)
  PROVE  FedInv'
  <1>a. UNCHANGED live /\ req[q] \in RequestType
    BY DEF BufferedStream, maps, IInv, TypeOK, BufferTypeOK
  <1>1. CASE SendChunk(q)
    <2>. DEFINE c == req[q].buf
                g == [buf[c] EXCEPT !.fresh = TRUE]
                l == [req[q] EXCEPT !.pos = @ + 1]
    <2>1. /\ req[q].pc = "send" /\ buf' = [buf EXCEPT ![c] = g]
          /\ req' = [req EXCEPT ![q] = l]
      BY <1>1 DEF SendChunk
    <2>2. c \in Buffers /\ buf[c] \in BufferType
      BY <2>1 DEF IInv, HasBuffer, Over, TypeOK, BufferTypeOK
    <2>3. /\ g.dl = buf[c].dl /\ g.known = buf[c].known /\ g.headers = buf[c].headers
          /\ g.complete = buf[c].complete /\ g.error = buf[c].error
          /\ g.passthrough = buf[c].passthrough /\ g.len = buf[c].len
      BY <2>2 DEF BufferType
    <2>4. l.buf = req[q].buf /\ l.end = req[q].end
      BY <1>a DEF RequestType
    <2>. HIDE DEF g, l, c
    <2>5. \A p \in Requests : req'[p] = IF p = q THEN l ELSE req[p]
      BY <2>1 DEF IInv, TypeOK, BufferTypeOK
    <2>6. \A b \in Buffers : buf'[b] = IF b = c THEN g ELSE buf[b]
      BY <2>1 DEF IInv, TypeOK, BufferTypeOK
    <2>7. \A b \in Buffers : Sound(b)' /\ Settled(b)
      BY <1>a, <2>3, <2>6, SoundStays
    <2>8. \A p \in Requests : Feeds(p)
      BY <2>1, <2>4, <2>5 DEF Feeds
    <2>. QED BY <2>7, <2>8, FedKept
  <1>2. CASE SendEnds(q) \/ SendCut(q)
    BY <1>2, <1>a, GoesIsFed DEF SendEnds, SendCut
  <1>3. ASSUME NEW l, l.buf = req[q].buf, l.end = req[q].end, buf' = buf,
               req[q].pc \in {"send", "wait"}, req' = [req EXCEPT ![q] = l]
        PROVE  FedInv'
    BY <1>3, <1>a, MovesIsFed
  <1>4. CASE SendWaits(q)
    <2>. DEFINE l == [req[q] EXCEPT !.pc = "wait", !.woken = FALSE]
    <2>1. l.buf = req[q].buf /\ l.end = req[q].end
      BY <1>a DEF RequestType
    <2>2. req' = [req EXCEPT ![q] = l] /\ buf' = buf /\ req[q].pc = "send"
      BY <1>4 DEF SendWaits
    <2>. HIDE DEF l
    <2>. QED BY <1>3, <2>1, <2>2
  <1>5. CASE Wakes(q)
    <2>. DEFINE l == [req[q] EXCEPT !.woken = FALSE]
    <2>1. l.buf = req[q].buf /\ l.end = req[q].end
      BY <1>a DEF RequestType
    <2>2. /\ req[q].pc = "wait" /\ buf' = buf
          /\ Goes(q, "send") \/ Goes(q, "cut") \/ req' = [req EXCEPT ![q] = l]
      BY <1>5 DEF Wakes
    <2>. HIDE DEF l
    <2>. QED BY <1>a, <1>3, <2>1, <2>2, GoesIsFed
  <1>. QED BY <1>1, <1>2, <1>4, <1>5 DEF BufferedStream, Stream

\* The requests.
LEMMA RequestIsFed ==
  ASSUME IInv, FedInv, NEW q \in Requests,
         \/ \E t \in Tokens : Ask(q, t)
         \/ Serving(q) \/ HeadersLate(q) \/ RelayChunk(q)
         \/ ClientLeaves(q) \/ StallsOut(q)
  PROVE  FedInv'
  <1>1. CASE \E t \in Tokens : Ask(q, t)
    <2>1. PICK t \in Tokens : Ask(q, t)
      BY <1>1
    <2>. DEFINE b == tokenBuf[t]
    <2>2. b \in Buffers /\ UNCHANGED <<buf, live>>
      BY <2>1 DEF Ask, IInv, TypeOK, maps
    <2>3. CASE (buf[b].passthrough \/ buf[b].complete \/ buf[b].error) /\ Answers(q, b)
      <3>1. buf[b].dl # "connect"
        BY <2>2, <2>3 DEF FedInv, Sound
      <3>. HIDE DEF b
      <3>. QED BY <2>2, <2>3, <3>1, AnswerIsFed
    <2>4. CASE Enters(q, "headers", b)
      <3>. DEFINE l == [NoRequest EXCEPT !.pc = "headers", !.buf = b]
      <3>1. l.pc = "headers"
        BY DEF NoRequest
      <3>2. req' = [req EXCEPT ![q] = l]
        BY <2>4 DEF Enters
      <3>. HIDE DEF l, b
      <3>. QED BY <2>2, <3>1, <3>2, MovesIsFed
    <2>. QED BY <2>1, <2>3, <2>4 DEF Ask
  <1>2. CASE HeadersSeen(q)
    <2>1. /\ req[q].buf \in Buffers /\ buf[req[q].buf].headers
          /\ Answers(q, req[q].buf) /\ UNCHANGED <<buf, live>>
      BY <1>2 DEF HeadersSeen, IInv, HasBuffer, Over, maps, BufferOf
    <2>2. buf[req[q].buf].dl # "connect"
      BY <2>1 DEF FedInv, Sound
    <2>. QED BY <2>1, <2>2, AnswerIsFed
  <1>3. CASE BufferedStream(q)
    BY <1>3, StreamIsFed
  <1>4. CASE RelayEnds(q)
    BY <1>4, GoesIsFed DEF RelayEnds, maps
  <1>5. CASE HeadersLate(q)
    BY <1>5, GoesIsFed DEF HeadersLate, maps
  <1>6. CASE RelayChunk(q)
    BY <1>6, QuietIsFed DEF RelayChunk, maps
  <1>7. CASE ClientLeaves(q)
    BY <1>7, GoesIsFed DEF ClientLeaves, maps
  <1>8. CASE StallsOut(q)
    BY <1>8, GoesIsFed DEF StallsOut, Stalls, maps
  <1>. QED BY <1>1, <1>2, <1>3, <1>4, <1>5, <1>6, <1>7, <1>8 DEF Serving

\* Time, and the collector: what it releases is no longer live.
LEMMA TimeIsFed ==
  ASSUME IInv, FedInv, Collect \/ \E b \in Buffers : Ages(b)
  PROVE  FedInv'
  <1>1. ASSUME NEW b \in Buffers, Ages(b)
        PROVE  FedInv'
    <2>. DEFINE g == [buf[b] EXCEPT !.fresh = FALSE]
    <2>1. /\ buf' = [buf EXCEPT ![b] = g] /\ UNCHANGED <<req, live>>
          /\ buf[b] \in BufferType
      BY <1>1 DEF Ages, maps, IInv, TypeOK, BufferTypeOK
    <2>2. /\ g.dl = buf[b].dl /\ g.known = buf[b].known /\ g.headers = buf[b].headers
          /\ g.complete = buf[b].complete /\ g.error = buf[b].error
          /\ g.passthrough = buf[b].passthrough /\ g.len = buf[b].len
      BY <2>1 DEF BufferType
    <2>. HIDE DEF g
    <2>3. \A c \in Buffers : buf'[c] = IF c = b THEN g ELSE buf[c]
      BY <2>1 DEF IInv, TypeOK, BufferTypeOK
    <2>4. \A c \in Buffers : Sound(c)' /\ Settled(c)
      BY <2>1, <2>2, <2>3, SoundStays
    <2>5. \A q \in Requests : Feeds(q)
      BY <2>1 DEF Feeds
    <2>. QED BY <2>4, <2>5, FedKept
  <1>2. CASE Collect
    <2>1. PICK gone \in SUBSET Expired :
            /\ Release(gone) /\ live' \subseteq live \ gone /\ UNCHANGED req
      BY <1>2 DEF Collect, CollectAll, CollectBreaksOff
    <2>2. ASSUME NEW b \in Buffers
          PROVE  Sound(b)' /\ Settled(b)
      <3>1. CASE b \in gone
        <4>1. buf[b] \in BufferType /\ b \notin live' /\ buf'[b] = Collected(buf[b])
          BY <2>1, <3>1 DEF Release, IInv, TypeOK, BufferTypeOK
        <4>2. buf'[b].dl \notin {"connect", "body"}
          BY <4>1 DEF Collected, BufferType
        <4>. QED BY <4>1, <4>2 DEF Sound, Settled
      <3>2. CASE b \notin gone
        <4>1. buf'[b] = buf[b]
          BY <2>1, <3>2 DEF Release
        <4>. QED BY <2>1, <4>1, SoundStays
      <3>. QED BY <3>1, <3>2
    <2>3. \A q \in Requests : Feeds(q)
      BY <2>1 DEF Feeds
    <2>. QED BY <2>2, <2>3, FedKept
  <1>. QED BY <1>1, <1>2

\* Every step keeps the responses within their buffers.
LEMMA NextFed == IInv /\ FedInv /\ [Next]_vars => FedInv'
  <1>. SUFFICES ASSUME IInv, FedInv, [Next]_vars PROVE FedInv'
    OBVIOUS
  <1>1. CASE UNCHANGED vars
    BY <1>1, QuietIsFed DEF vars, maps
  <1>. QED BY <1>1, CallbackIsFed, DownloadIsFed, RequestIsFed, TimeIsFed DEF Next

\* Nothing is fed at the start.
LEMMA InitFed == Init => FedInv
  BY DEF Init, BufferInit, FedInv, Sound, Fed, Unused, NoRequest

\* A response that is completed, rather than closed by force, has sent all of
\* its range (server.py:588-656, buffer.py:93-124), unless the collector has
\* emptied its buffer, for any number of buffers and requests and sources that
\* send more than they announced: a complete buffer holds what was announced,
\* and a download that breaks off, is cancelled or outgrows the memory never
\* lets a response end as if it were whole.
THEOREM AnswersAreWhole == Spec => AnswerIsWhole
  <1>1. ASSUME IInv, FedInv, StepIsGood, NEW q \in Requests,
               req[q].pc \in {"send", "wait"}, req'[q].pc = "ended",
               req[q].buf \in live
        PROVE  req[q].pos > req[q].end
    <2>. DEFINE b == req[q].buf
    <2>1. /\ b \in Buffers /\ buf[b].len \in Nat /\ Announced \in Nat
          /\ req[q].pos \in Nat /\ req[q].end \in Nat
      BY <1>1, SizeAssumption
         DEF IInv, HasBuffer, Over, TypeOK, BufferTypeOK, BufferType, RequestType
    <2>2. req[q].end < Total(b) /\ Sound(b)
      BY <1>1, <2>1 DEF FedInv, Fed
    <2>3. CASE buf[b].len <= req[q].pos /\ buf[b].complete
      <3>1. Total(b) <= buf[b].len
        BY <1>1, <2>1, <2>2, <2>3 DEF Total, Sound
      <3>2. Total(b) \in Nat
        BY <2>1 DEF Total
      <3>. HIDE DEF b
      <3>. QED BY <2>1, <2>2, <2>3, <3>1, <3>2
    <2>. QED BY <1>1, <2>3 DEF StepIsGood, EndsWhole, BufferOf
  <1>2. IInv /\ FedInv /\ StepIsGood =>
          \A q \in Requests :
            /\ req[q].pc \in {"send", "wait"} /\ req'[q].pc = "ended"
            /\ req[q].buf \in live
            => req[q].pos > req[q].end
    BY <1>1
  <1>3. StepIsGood => ServedInv'
    BY DEF StepIsGood
  <1>. QED BY <1>2, <1>3, InitServed, StepsAreGood, InitFed, NextFed, Invariance, PTL
           DEF Spec, AnswerIsWhole

\* The collector leaves alone what is being read from memory
\* (server.py:294-302, buffer.py:163): what has fed a response was touched.
THEOREM CollectsOnlyUnread == Spec => CollectsUnread
  <1>1. StepIsGood => \A b \in live \ live' : ~buf[b].passthrough => b \notin served
    BY DEF StepIsGood
  <1>2. StepIsGood => ServedInv'
    BY DEF StepIsGood
  <1>. QED BY <1>1, <1>2, InitServed, StepsAreGood, Invariance, PTL
           DEF Spec, CollectsUnread

=============================================================================
