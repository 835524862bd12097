----------------------------- MODULE MediaProxy -----------------------------
(***************************************************************************)
(* The media proxy of DlnaHttpServer                                       *)
(* (src/src/miairx/protocols/dlna/server.py): the maps from remote URLs to *)
(* buffers and from tokens to buffers, the callbacks of the renderers that *)
(* fill them, the requests of the speakers that use them, and the garbage  *)
(* collector of old buffers.                                               *)
(***************************************************************************)
EXTENDS MediaBuffer, FiniteSets

CONSTANTS
  Urls,       \* remote URLs
  Tokens,     \* random tokens, never drawn twice
  NoToken,
  Seekers     \* create_seek_url calls under way at once

ASSUME TokenAssumption == NoToken \notin Tokens

VARIABLES
  live,       \* keys of _media_buffers
  source,     \* the URL of each buffer
  urlBuf,     \* _url_to_buffer
  bufToken,   \* _buffer_to_token
  tokenBuf,   \* _proxy_tokens (the renderer's UDN in it is never read)
  issued,     \* tokens that have been handed out
  seek,       \* where each create_seek_url is, and its buffer
  served      \* buffers that fed a response in the last 300 seconds

maps == <<live, source, urlBuf, bufToken, tokenBuf, issued>>
vars == <<buf, req, maps, seek, served>>

TypeOK ==
  /\ BufferTypeOK
  /\ live \subseteq Buffers /\ served \subseteq Buffers /\ issued \subseteq Tokens
  /\ source \in [Buffers -> Urls]
  /\ urlBuf \in [Urls -> Buffers \cup {NoBuffer}]
  /\ bufToken \in [Buffers -> Tokens \cup {NoToken}]
  /\ tokenBuf \in [Tokens -> Buffers \cup {NoBuffer}]
  /\ seek \in [Seekers -> [pc : {"idle", "wait", "cut"},
                           buf : Buffers \cup {NoBuffer}]]

NotSeeking == [pc |-> "idle", buf |-> NoBuffer]

Init ==
  /\ BufferInit
  /\ live = {} /\ served = {} /\ issued = {}
  /\ source \in [Buffers -> Urls]     \* fixed by the first user of a buffer
  /\ urlBuf = [u \in Urls |-> NoBuffer]
  /\ bufToken = [b \in Buffers |-> NoToken]
  /\ tokenBuf = [t \in Tokens |-> NoBuffer]
  /\ seek = [x \in Seekers |-> NotSeeking]

-----------------------------------------------------------------------------
(* The callbacks of the renderers.                                         *)

\* A new buffer for u, whose download starts.
NewBuffer(b, u) ==
  /\ buf[b].dl = "unused" /\ source[b] = u
  /\ buf' = [buf EXCEPT ![b] = Started]
  /\ live' = live \cup {b}
  /\ urlBuf' = [urlBuf EXCEPT ![u] = b]

NewToken(t, b) ==
  /\ t \notin issued
  /\ issued' = issued \cup {t}
  /\ bufToken' = [bufToken EXCEPT ![b] = t]
  /\ tokenBuf' = [tokenBuf EXCEPT ![t] = b]

\* Mutant of CreateProxyUrl: only a buffer that has a token is reused.
CreateProxyUrlAnew(u) ==
  \E t \in Tokens :
    /\ \E b \in Buffers : NewBuffer(b, u) /\ NewToken(t, b)
    /\ UNCHANGED <<req, source, seek, served>>

\* Mutant of CreateProxyUrl: every call draws a token.
CreateProxyUrlTwice(u) ==
  \E t \in Tokens :
    /\ \/ /\ urlBuf[u] \in live
          /\ NewToken(t, urlBuf[u])
          /\ UNCHANGED <<buf, live, urlBuf>>
       \/ /\ urlBuf[u] \notin live
          /\ \E b \in Buffers : NewBuffer(b, u) /\ NewToken(t, b)
    /\ UNCHANGED <<req, source, seek, served>>

\* A token for the buffer that was pre-loaded, or for a new one.  (A buffer
\* that has a token already changes nothing.)
CreateProxyUrl(u) ==
  \E t \in Tokens :
    /\ \/ /\ urlBuf[u] \in live /\ bufToken[urlBuf[u]] = NoToken
          /\ NewToken(t, urlBuf[u])
          /\ UNCHANGED <<buf, live, urlBuf>>
       \/ /\ urlBuf[u] \notin live
          /\ \E b \in Buffers : NewBuffer(b, u) /\ NewToken(t, b)
    /\ UNCHANGED <<req, source, seek, served>>

\* Pre-loading on SetAVTransportURI.
StartBuffering(u) ==
  /\ urlBuf[u] = NoBuffer
  /\ \E b \in Buffers : NewBuffer(b, u)
  /\ UNCHANGED <<req, source, bufToken, tokenBuf, issued, seek, served>>

\* create_seek_url() of a URL without a buffer, of one that is still
\* downloading, and of one that is complete.  (One in error, or complete and
\* empty, changes nothing.)
SeekStarts(x, u) ==
  /\ seek[x].pc = "idle"
  /\ \/ /\ urlBuf[u] = NoBuffer
        /\ \E b \in Buffers :
             NewBuffer(b, u) /\ seek' = [seek EXCEPT ![x] = [pc |-> "wait", buf |-> b]]
     \/ /\ urlBuf[u] \in live /\ ~buf[urlBuf[u]].error
        /\ buf[urlBuf[u]].complete => buf[urlBuf[u]].len > 0
        /\ seek' = [seek EXCEPT ![x] =
                      [pc |-> IF buf[urlBuf[u]].complete THEN "cut" ELSE "wait",
                       buf |-> urlBuf[u]]]
        /\ UNCHANGED <<buf, live, urlBuf>>
  /\ UNCHANGED <<req, source, bufToken, tokenBuf, issued, served>>

\* _complete_event is set, whatever the download has come to: what there is
\* of the data is cut.
SeekReady(x) ==
  /\ seek[x].pc = "wait"
  /\ buf[seek[x].buf].dl = "done"
  /\ buf[seek[x].buf].len > 0
  /\ seek' = [seek EXCEPT ![x].pc = "cut"]
  /\ UNCHANGED <<buf, req, maps, served>>

\* The wait of 15 seconds is over, there is no data, the time is out of
\* range or ffmpeg fails: no URL.
SeekFails(x) ==
  /\ seek[x].pc # "idle"
  /\ seek' = [seek EXCEPT ![x] = NotSeeking]
  /\ UNCHANGED <<buf, req, maps, served>>

\* A buffer of its own for the rest of the media, complete at once: bytes
\* from ffmpeg, or a slice of the bytearray.
SeekCreatesUrl(x) ==
  /\ seek[x].pc = "cut"
  /\ \E b \in Buffers, t \in Tokens, ffmpeg \in BOOLEAN :
       /\ buf[b].dl = "unused" /\ source[b] = source[seek[x].buf]
       /\ buf' = [buf EXCEPT ![b] = [Unused EXCEPT !.dl = "done", !.len = 1,
                                                   !.complete = TRUE,
                                                   !.bytes = ffmpeg]]
       /\ live' = live \cup {b}
       /\ NewToken(t, b)
  /\ seek' = [seek EXCEPT ![x] = NotSeeking]
  /\ UNCHANGED <<req, source, urlBuf, served>>

-----------------------------------------------------------------------------
(* The requests of the speakers.                                           *)

Enters(q, pc, b) == req' = [req EXCEPT ![q] = [NoRequest EXCEPT !.pc = pc, !.buf = b]]

\* No length or a range outside it, a HEAD, or the response is prepared for a
\* range of the total size: content_length, or what there is.
Prepares(q, b) ==
  LET total == IF buf[b].known THEN Announced ELSE buf[b].len
  IN  \/ Enters(q, "refused", b)
      \/ total > 0 /\ Enters(q, "ended", b)
      \/ \E s \in 0 .. total - 1 : \E e \in s .. total - 1 :
           req' = [req EXCEPT ![q] = [pc |-> "send", buf |-> b, pos |-> s,
                                      end |-> e, woken |-> FALSE]]

\* Past the headers: a status, the relay, or the buffered response.
Answers(q, b) ==
  \/ buf[b].passthrough /\ Enters(q, "relay", b)
  \/ ~buf[b].passthrough /\ buf[b].error /\ Enters(q, "refused", b)
  \/ ~buf[b].passthrough /\ ~buf[b].error /\ Prepares(q, b)

\* GET /media/{token}; an unknown token is refused and changes nothing.
Ask(q, t) ==
  /\ req[q].pc \in Over
  /\ tokenBuf[t] \in live
  /\ LET b == tokenBuf[t]
     IN  IF buf[b].passthrough \/ buf[b].complete \/ buf[b].error
         THEN Answers(q, b)
         ELSE Enters(q, "headers", b)
  /\ UNCHANGED <<buf, maps, seek, served>>

HeadersSeen(q) ==
  /\ req[q].pc = "headers"
  /\ BufferOf(q).headers
  /\ Answers(q, req[q].buf)
  /\ UNCHANGED <<buf, maps, seek, served>>

\* Ten seconds without headers.
HeadersLate(q) ==
  /\ req[q].pc = "headers"
  /\ ~BufferOf(q).headers
  /\ Goes(q, "refused")
  /\ UNCHANGED <<buf, maps, seek, served>>

\* The relay asks the source again, and does not touch the buffer.
RelayChunk(q) ==
  /\ req[q].pc = "relay"
  /\ served' = served \cup {req[q].buf}
  /\ UNCHANGED <<buf, req, maps, seek>>

RelayEnds(q) ==
  /\ req[q].pc = "relay"
  /\ \E pc \in {"ended", "cut", "refused"} : Goes(q, pc)
  /\ UNCHANGED <<buf, maps, seek, served>>

\* Only a write notices it.
ClientLeaves(q) ==
  /\ req[q].pc \in {"send", "relay"}
  /\ Goes(q, "gone")
  /\ UNCHANGED <<buf, maps, seek, served>>

BufferedStream(q) ==
  /\ Stream(q)
  /\ served' = IF req[q].pc = "send" /\ req'[q].pos # req[q].pos
               THEN served \cup {req[q].buf} ELSE served
  /\ UNCHANGED <<maps, seek>>

-----------------------------------------------------------------------------
(* Time, and the collector.                                                *)

\* 300 seconds without an access.  A download whose data arrives keeps its
\* buffer fresh: the session gives up after 120 seconds without any.
Ages(b) ==
  /\ buf[b].dl \in {"connect", "done"} /\ b \in live
  /\ buf' = [buf EXCEPT ![b].fresh = FALSE]
  /\ served' = served \ {b}
  /\ UNCHANGED <<req, maps, seek>>

Expired == {b \in live : ~buf[b].fresh}

\* cancel() and cleanup().
Collected(f) ==
  [f EXCEPT !.len = 0,
            !.dl = IF @ \in {"connect", "body"} THEN "cancelled" ELSE @]

\* These are released, and forget their token.
Release(gone) ==
  /\ buf' = [b \in Buffers |-> IF b \in gone THEN Collected(buf[b]) ELSE buf[b]]
  /\ bufToken' = [b \in Buffers |-> IF b \in gone THEN NoToken ELSE bufToken[b]]

Kept(b) == IF b \in live \ Expired THEN b ELSE NoBuffer

\* A pass: what has expired goes, then the tokens and the URLs that lead
\* nowhere, those that an earlier pass has left included.
CollectAll ==
  /\ \A b \in Expired : ~buf[b].bytes
  /\ live' = live \ Expired
  /\ Release(Expired)
  /\ tokenBuf' = [t \in Tokens |-> Kept(tokenBuf[t])]
  /\ urlBuf' = [u \in Urls |-> Kept(urlBuf[u])]
  /\ UNCHANGED <<req, source, issued, seek, served>>

\* cleanup() raises where the data is bytes, which have no clear().  That
\* buffer is out of _media_buffers by then, and the pass ends: what came
\* before it has been released, the rest stays as it was.  (The order of
\* the buffers is left open.)
CollectBreaksOff ==
  \E b \in Expired, before \in SUBSET Expired :
    /\ buf[b].bytes /\ \A c \in before : ~buf[c].bytes
    /\ live' = live \ (before \cup {b})
    /\ Release(before)
    /\ UNCHANGED <<req, source, urlBuf, tokenBuf, issued, seek, served>>

Collect == CollectAll \/ CollectBreaksOff

-----------------------------------------------------------------------------
Downloading(b) == Download(b) /\ UNCHANGED <<maps, seek, served>>
StallsOut(q)   == Stalls(q) /\ UNCHANGED <<maps, seek, served>>

Serving(q) == HeadersSeen(q) \/ BufferedStream(q) \/ RelayEnds(q)

Next ==
  \/ \E u \in Urls : CreateProxyUrl(u) \/ StartBuffering(u)
  \/ \E x \in Seekers, u \in Urls : SeekStarts(x, u)
  \/ \E x \in Seekers : SeekReady(x) \/ SeekFails(x) \/ SeekCreatesUrl(x)
  \/ \E b \in Buffers : Downloading(b) \/ Ages(b)
  \/ \E q \in Requests, t \in Tokens : Ask(q, t)
  \/ \E q \in Requests : Serving(q) \/ HeadersLate(q) \/ RelayChunk(q)
                         \/ ClientLeaves(q) \/ StallsOut(q)
  \/ Collect

Spec == Init /\ [][Next]_vars

\* The source answers, sends or is given up (connect 10 s, sock_read 120 s),
\* and a response goes on as fast as its client reads.  Nothing is assumed
\* of the waits with a timeout.
Fairness ==
  /\ \A b \in Buffers : WF_vars(Downloading(b))
  /\ \A q \in Requests : WF_vars(Serving(q))

FairSpec == Spec /\ Fairness

-----------------------------------------------------------------------------
(* Properties.                                                             *)

\* Nobody sleeps through a signal: a response that waits unwoken has nothing
\* to send and nothing to conclude (buffer.py:140-150, 121-127).
NoMissedSignal ==
  \A q \in Requests :
    req[q].pc = "wait" /\ ~req[q].woken =>
      LET b == BufferOf(q)
      IN  b.len <= req[q].pos /\ ~b.complete /\ ~b.error /\ ~b.passthrough

\* The maps agree, though a pass of the collector that breaks off leaves
\* entries that lead nowhere: a URL leads to a buffer of its own, a live
\* buffer and its token know each other, and no download goes on in a buffer
\* that is not live (server.py:85-134, 204-209, 298-319).
MapsAgree ==
  /\ \A u \in Urls : urlBuf[u] # NoBuffer => source[urlBuf[u]] = u
  /\ \A t \in Tokens : tokenBuf[t] \in live =>
       bufToken[tokenBuf[t]] = t /\ t \in issued
  /\ \A b \in live : bufToken[b] # NoToken => tokenBuf[bufToken[b]] = b
  /\ \A b \in Buffers \ live : buf[b].dl \notin {"connect", "body"}

\* A URL is not downloaded twice at the same time (server.py:88-98, 123).
OneDownload ==
  \A b, c \in Buffers :
    /\ buf[b].dl \in {"connect", "body"} /\ buf[c].dl \in {"connect", "body"}
    /\ source[b] = source[c]
    => b = c

\* A response that is completed, rather than closed by force, has sent all of
\* its range, whatever has become of the download meanwhile, unless the
\* collector has emptied its buffer (server.py:588-656, buffer.py:93-124).
AnswerIsWhole ==
  [][\A q \in Requests :
       /\ req[q].pc \in {"send", "wait"} /\ req'[q].pc = "ended"
       /\ req[q].buf \in live
       => req[q].pos > req[q].end]_vars

\* The collector leaves alone what is being read from memory
\* (server.py:294-302, buffer.py:163).
CollectsUnread ==
  [][\A b \in live \ live' : ~buf[b].passthrough => b \notin served]_vars

\* A waiting response goes on without the help of its timeout, unless the
\* collector cancels the download it waits for, which is then neither
\* complete nor an error (buffer.py:121-127, 137-155).
WaitsEnd ==
  \A q \in Requests :
    req[q].pc = "wait" ~> req[q].pc # "wait" \/ req[q].buf \notin live

=============================================================================
