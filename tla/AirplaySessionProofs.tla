------------------------ MODULE AirplaySessionProofs ------------------------
(***************************************************************************)
(* What AirplaySession keeps for any number of connections, of readers and *)
(* of sessions.                                                            *)
(***************************************************************************)
EXTENDS AirplaySession, TLAPS

\* What the local variables of a connection have to do with one another.
ConnInv(c) ==
  /\ conn[c].owns => conn[c].at # "free"
  /\ conn[c].recv # "none" => conn[c].owns
  /\ conn[c].playing => conn[c].owns
  /\ conn[c].notified => conn[c].playing
  /\ conn[c].at \in Recording => conn[c].owns /\ ~conn[c].playing
  /\ conn[c].at \in {"closed", "ended", "told"} => conn[c].owns
  /\ conn[c].recv = "ap2" => conn[c].channel
  /\ conn[c].channel => conn[c].hap = "shared"

\* What they have to do with the lock, the receiver and the stream.
SharedInv(c) ==
  /\ conn[c].owns <=> session = c
  /\ c \in sockets \/ receiver = c =>
       conn[c].recv # "none" /\ conn[c].at \in {"open", "close"} \cup Recording
  /\ conn[c].at = "sid" => sid < MaxSid
  /\ conn[c].at \in {"queue", "lock"} \/ conn[c].playing => sid > 0
  /\ conn[c].at = "lock" \/ conn[c].playing => queue = sid
  /\ conn[c].at \in {"queue", "lock"} => sid = lock + 1
  /\ conn[c].owns /\ conn[c].at \notin {"queue", "lock"} => lock = sid
  /\ server # "stopped" /\ conn[c].at \in Recording => active
  /\ server # "stopped" /\ conn[c].at = "open" /\ conn[c].playing => active /\ playFlag
  /\ conn[c].at \in {"ended", "told"} => ~active /\ ~playFlag

\* Nothing is on without an owner; the lock of a session is the last thing it
\* gets, and its URL is handed out after that.
StreamInv ==
  /\ session = NoConn => ~active /\ ~playFlag /\ lock = sid
  /\ lock <= queue /\ queue <= sid
  /\ \A u \in public : u <= lock

\* What a request has taken is no older than its URL, and its queue no older
\* than its lock; who serves holds the lock that it took.
ReaderInv(r) ==
  /\ reader[r].at # "idle" => reader[r].url <= lock
  /\ reader[r].at \in {"lock", "queue", "serving"} => reader[r].url <= reader[r].lock
  /\ reader[r].at = "lock" => reader[r].lock <= queue
  /\ reader[r].at \in {"queue", "serving"} => reader[r].lock <= reader[r].queue
  /\ reader[r].at = "serving" => reader[r].lock \in held

ReadersInv ==
  /\ \A r \in Readers : ReaderInv(r)
  /\ \A r, s \in Readers :
       /\ r # s /\ reader[r].at = "serving" /\ reader[s].at = "serving"
       => reader[r].lock # reader[s].lock

SessionInv ==
  /\ TypeOK
  /\ \A c \in Conns : ConnInv(c) /\ SharedInv(c)
  /\ StreamInv /\ ReadersInv

LEMMA InitOK == Init => SessionInv
  <1>. SUFFICES ASSUME Init PROVE SessionInv
    OBVIOUS
  <1>. USE SessionAssumption, MaxSidAssumption
  <1>1. StreamTypeOK
    <2>1. 0 \in Sids
      BY DEF Sids
    <2>2. NotReading \in ReaderType
      BY <2>1 DEF NotReading, ReaderType
    <2>. QED BY <2>1, <2>2 DEF Init, StreamInit, StreamTypeOK
  <1>4. StreamInv
    BY DEF Init, StreamInit, SessionInit, StreamInv
  <1>2. SessionTypeOK
    <2>1. NoClient \in ConnType
      BY DEF NoClient, ConnType
    <2>. QED BY <2>1 DEF Init, SessionInit, SessionTypeOK
  <1>3. ASSUME NEW c \in Conns PROVE ConnInv(c) /\ SharedInv(c)
    <2>1. conn[c] = NoClient
      BY DEF Init, SessionInit
    <2>. QED BY <2>1 DEF Init, StreamInit, SessionInit, ConnInv, SharedInv, NoClient, Recording
  <1>5. ReadersInv
    BY DEF Init, StreamInit, NotReading, ReadersInv, ReaderInv
  <1>. QED BY <1>1, <1>2, <1>3, <1>4, <1>5 DEF SessionInv, TypeOK

----------------------------------------------------------------------------
(* Steps of one connection that leave the stream as it is. *)

LEMMA StreamStays ==
  ASSUME SessionInv, UNCHANGED stream
  PROVE  /\ StreamTypeOK' /\ ReadersInv'
         /\ session' # NoConn \/ UNCHANGED <<session, playFlag>> => StreamInv'
  BY DEF SessionInv, TypeOK, StreamTypeOK, StreamInv, ReadersInv, ReaderInv, stream

LEMMA AcceptKeeps ==
  ASSUME SessionInv, NEW c \in Conns, Accept(c)
  PROVE  SessionInv'
  <1>1. /\ conn[c].at = "free" /\ conn' = [conn EXCEPT ![c].at = "open"]
        /\ UNCHANGED <<stream, session, receiver, sockets, playFlag, server, gone>>
    BY DEF Accept
  <1>2. SessionTypeOK'
    <2>1. [conn[c] EXCEPT !.at = "open"] \in ConnType
      BY DEF SessionInv, TypeOK, SessionTypeOK, ConnType
    <2>. QED BY <1>1, <2>1 DEF SessionInv, TypeOK, SessionTypeOK
  <1>3. ASSUME NEW d \in Conns PROVE ConnInv(d)' /\ SharedInv(d)'
    BY <1>1
    DEF SessionInv, TypeOK, SessionTypeOK, ConnInv, SharedInv, stream, ConnType, Recording
  <1>. QED BY <1>1, <1>2, <1>3, StreamStays DEF SessionInv, TypeOK

LEMMA HandshakeKeeps ==
  ASSUME SessionInv, NEW c \in Conns, Handshake(c)
  PROVE  SessionInv'
  <1>. conn[c] \in ConnType /\ ConnInv(c)
    BY DEF SessionInv, TypeOK, SessionTypeOK
  <1>1. PICK h \in {"none", "pending", "shared"}, b \in BOOLEAN :
          /\ b => h = "shared"
          /\ Local(c, [conn[c] EXCEPT !.hap = h, !.channel = b])
    <2>1. CASE PairStart(c)
      <3>1. PICK good \in BOOLEAN :
              Local(c, [conn[c] EXCEPT !.hap = IF good THEN "pending" ELSE "none"])
        BY <2>1 DEF PairStart
      <3>2. ~conn[c].channel
        BY <2>1 DEF PairStart, MayPair
      <3>3. \A h : [conn[c] EXCEPT !.hap = h] = [conn[c] EXCEPT !.hap = h, !.channel = FALSE]
        BY <3>2 DEF ConnType
      <3>. QED BY <3>1, <3>3
    <2>2. CASE PairProof(c)
      <3>1. PICK good \in BOOLEAN :
              LET proved == good /\ conn[c].hap = "pending" IN
              Local(c, [conn[c] EXCEPT !.channel = proved,
                                       !.hap = IF proved THEN "shared" ELSE "none"])
        BY <2>2 DEF PairProof
      <3>. DEFINE proved == good /\ conn[c].hap = "pending"
                  h == IF proved THEN "shared" ELSE "none"
      <3>2. [conn[c] EXCEPT !.channel = proved, !.hap = h]
              = [conn[c] EXCEPT !.hap = h, !.channel = proved]
        BY DEF ConnType
      <3>. QED BY <3>1, <3>2, Zenon
    <2>. QED BY <2>1, <2>2 DEF Handshake
  <1>2. conn[c].recv # "ap2"
    BY DEF Handshake, PairStart, PairProof, MayPair, ConnInv
  <1>. DEFINE new == [conn[c] EXCEPT !.hap = h, !.channel = b]
  <1>3. /\ new \in ConnType /\ new.hap = h /\ new.channel = b
        /\ new.owns = conn[c].owns /\ new.recv = conn[c].recv /\ new.at = conn[c].at
        /\ new.playing = conn[c].playing /\ new.notified = conn[c].notified
    BY DEF ConnType
  <1>4. /\ conn' = [conn EXCEPT ![c] = new]
        /\ UNCHANGED <<stream, session, receiver, sockets, playFlag, server, gone>>
    BY <1>1 DEF Local
  <1>. HIDE DEF new
  <1>5. SessionTypeOK'
    BY <1>3, <1>4 DEF SessionInv, TypeOK, SessionTypeOK
  <1>6. ASSUME NEW d \in Conns PROVE ConnInv(d)' /\ SharedInv(d)'
    BY SMTT(30), <1>1, <1>2, <1>3, <1>4 DEF SessionInv, TypeOK, SessionTypeOK, ConnInv, SharedInv, stream
  <1>. QED BY <1>4, <1>5, <1>6, StreamStays DEF SessionInv, TypeOK

LEMMA AnnounceKeeps ==
  ASSUME SessionInv, NEW c \in Conns, Announce(c)
  PROVE  SessionInv'
  <1>1. PICK good \in BOOLEAN :
          conn' = [conn EXCEPT ![c].owns = TRUE, ![c].decoder = good]
    BY DEF Announce
  <1>2. /\ session' = c /\ (conn[c].owns \/ session = NoConn) /\ conn[c].at = "open"
        /\ UNCHANGED <<stream, receiver, sockets, playFlag, server, gone>>
    BY DEF Announce, MayOwn, Asked
  <1>3. SessionTypeOK'
    <2>1. [conn[c] EXCEPT !.owns = TRUE, !.decoder = good] \in ConnType
      BY ZenonT(60) DEF SessionInv, TypeOK, SessionTypeOK, ConnType
    <2>2. conn' = [conn EXCEPT ![c] = [conn[c] EXCEPT !.owns = TRUE, !.decoder = good]]
      BY <1>1
    <2>. QED BY <1>2, <2>1, <2>2 DEF SessionInv, TypeOK, SessionTypeOK
  <1>4. ASSUME NEW d \in Conns PROVE ConnInv(d)' /\ SharedInv(d)'
    <2>1. conn[d] \in ConnType /\ conn' \in [Conns -> ConnType] /\ ConnInv(d) /\ SharedInv(d)
      BY <1>3 DEF SessionInv, TypeOK, SessionTypeOK
    <2>2. CASE d = c
      <3>1. conn'[c] = [conn[c] EXCEPT !.owns = TRUE, !.decoder = good]
        BY <1>1, <1>2, <2>1 DEF SessionInv, TypeOK, SessionTypeOK
      <3>2. ConnInv(c)'
        BY <1>2, <2>1, <2>2, <3>1 DEF ConnInv, ConnType, Recording
      <3>3. SharedInv(c)'
        BY <1>2, <2>1, <2>2, <3>1, SessionAssumption
        DEF SessionInv, SharedInv, ConnInv, StreamInv, ConnType, Recording, stream
      <3>. QED BY <2>2, <3>2, <3>3
    <2>3. CASE d # c
      <3>1. conn'[d] = conn[d] /\ ~conn[d].owns
        BY <1>1, <1>2, <2>1, <2>3, SessionAssumption DEF SessionInv, SharedInv, TypeOK, SessionTypeOK
      <3>. QED BY <1>2, <2>1, <2>3, <3>1 DEF ConnInv, SharedInv, stream, Recording
    <2>. QED BY <2>2, <2>3
  <1>. QED BY <1>2, <1>3, <1>4, StreamStays, SessionAssumption DEF SessionInv, TypeOK

LEMMA VanishKeeps ==
  ASSUME SessionInv, NEW c \in Conns, Vanish(c)
  PROVE  SessionInv'
  <1>1. /\ conn[c].at = "open" /\ gone' = gone \cup {c}
        /\ UNCHANGED <<stream, conn, session, receiver, sockets, playFlag, server>>
    BY DEF Vanish
  <1>2. SessionTypeOK'
    BY <1>1 DEF SessionInv, TypeOK, SessionTypeOK
  <1>3. ASSUME NEW d \in Conns PROVE ConnInv(d)' /\ SharedInv(d)'
    BY <1>1
    DEF SessionInv, TypeOK, SessionTypeOK, ConnInv, SharedInv, stream, ConnType, Recording
  <1>. QED BY <1>1, <1>2, <1>3, StreamStays DEF SessionInv, TypeOK

LEMMA ClosesKeeps ==
  ASSUME SessionInv, NEW c \in Conns, Closes(c)
  PROVE  SessionInv'
  <1>1. /\ conn[c].at = "open" /\ conn' = [conn EXCEPT ![c].at = "close"]
        /\ UNCHANGED <<stream, session, receiver, sockets, playFlag, server, gone>>
    BY DEF Closes
  <1>2. SessionTypeOK'
    <2>1. [conn[c] EXCEPT !.at = "close"] \in ConnType
      BY DEF SessionInv, TypeOK, SessionTypeOK, ConnType, Ending
    <2>. QED BY <1>1, <2>1 DEF SessionInv, TypeOK, SessionTypeOK
  <1>3. ASSUME NEW d \in Conns PROVE ConnInv(d)' /\ SharedInv(d)'
    BY <1>1
    DEF SessionInv, TypeOK, SessionTypeOK, ConnInv, SharedInv, stream, ConnType, Recording
  <1>. QED BY <1>1, <1>2, <1>3, StreamStays DEF SessionInv, TypeOK

LEMMA SetupKeeps ==
  ASSUME SessionInv, NEW c \in Conns, Setup(c)
  PROVE  SessionInv'
  <1>1. /\ conn[c].owns /\ conn[c].at = "open" /\ conn[c].recv = "none"
        /\ UNCHANGED <<stream, session, playFlag, server, gone>>
    BY DEF Setup, Asked
  <1>2. CASE SetupEnds(c)
    <2>1. conn' = [conn EXCEPT ![c].at = "close"] /\ UNCHANGED <<sockets, receiver>>
      BY <1>2 DEF SetupEnds
    <2>2. SessionTypeOK'
      <3>1. [conn[c] EXCEPT !.at = "close"] \in ConnType
        BY DEF SessionInv, TypeOK, SessionTypeOK, ConnType, Ending
      <3>. QED BY <1>1, <2>1, <3>1 DEF SessionInv, TypeOK, SessionTypeOK
    <2>3. ASSUME NEW d \in Conns PROVE ConnInv(d)' /\ SharedInv(d)'
      BY <1>1, <2>1
      DEF SessionInv, TypeOK, SessionTypeOK, ConnInv, SharedInv, stream, ConnType, Recording
    <2>. QED BY <1>1, <2>2, <2>3, StreamStays DEF SessionInv, TypeOK
  <1>3. CASE Binds(c, [conn[c] EXCEPT !.recv = "raop"])
    <2>1. /\ conn' = [conn EXCEPT ![c] = [conn[c] EXCEPT !.recv = "raop"]]
          /\ sockets' = {c} /\ receiver' = c
      BY <1>3 DEF Binds
    <2>2. SessionTypeOK'
      <3>1. [conn[c] EXCEPT !.recv = "raop"] \in ConnType
        BY DEF SessionInv, TypeOK, SessionTypeOK, ConnType
      <3>. QED BY <1>1, <2>1, <3>1 DEF SessionInv, TypeOK, SessionTypeOK
    <2>3. ASSUME NEW d \in Conns PROVE ConnInv(d)' /\ SharedInv(d)'
      BY <1>1, <2>1
      DEF SessionInv, TypeOK, SessionTypeOK, ConnInv, SharedInv, stream, ConnType, Recording
    <2>. QED BY <1>1, <2>2, <2>3, StreamStays DEF SessionInv, TypeOK
  <1>. QED BY <1>2, <1>3 DEF Setup

LEMMA SetupRealtimeKeeps ==
  ASSUME SessionInv, NEW c \in Conns, SetupRealtime(c)
  PROVE  SessionInv'
  <1>1. /\ conn[c].channel /\ conn[c].at = "open" /\ conn[c].recv # "raop"
        /\ session' = c /\ (conn[c].owns \/ session = NoConn)
        /\ UNCHANGED <<stream, playFlag, server, gone>>
    BY DEF SetupRealtime, MayStream, MayOwn, Asked
  <1>2. conn[c] \in ConnType
    BY DEF SessionInv, TypeOK, SessionTypeOK
  <1>3. PICK new \in ConnType :
          /\ new.owns /\ new.at = "open" /\ new.channel /\ new.hap = conn[c].hap
          /\ new.playing = conn[c].playing /\ new.notified = conn[c].notified
          /\ conn' = [conn EXCEPT ![c] = new]
          /\ \/ sockets = {} /\ sockets' = {c} /\ receiver' = c /\ new.recv = "ap2"
             \/ UNCHANGED <<sockets, receiver>> /\ new.recv = conn[c].recv
    <2>1. PICK good \in BOOLEAN, stream96 \in BOOLEAN :
            LET mine == [conn[c] EXCEPT !.owns = TRUE]
                set  == [mine EXCEPT !.recv = "ap2", !.decoder = @ \/ good,
                           !.configured = @ \/ (good /\ stream96)] IN
            \/ mine.recv = "none" /\ Binds(c, set)
            \/ /\ conn' = [conn EXCEPT ![c] = IF mine.recv = "none" THEN mine ELSE set]
               /\ UNCHANGED <<sockets, receiver>>
      BY DEF SetupRealtime
    <2>. DEFINE mine == [conn[c] EXCEPT !.owns = TRUE]
                set  == [mine EXCEPT !.recv = "ap2", !.decoder = @ \/ good,
                           !.configured = @ \/ (good /\ stream96)]
    <2>2. /\ mine \in ConnType /\ mine.owns /\ mine.at = "open" /\ mine.channel
          /\ mine.hap = conn[c].hap /\ mine.recv = conn[c].recv
          /\ mine.playing = conn[c].playing /\ mine.notified = conn[c].notified
      BY <1>1, <1>2 DEF ConnType
    <2>. HIDE DEF mine
    <2>3. /\ set \in ConnType /\ set.owns /\ set.at = "open" /\ set.channel
          /\ set.hap = conn[c].hap /\ set.recv = "ap2"
          /\ set.playing = conn[c].playing /\ set.notified = conn[c].notified
      BY ZenonT(60), <2>2 DEF ConnType
    <2>. HIDE DEF set
    <2>4. \/ mine.recv = "none" /\ Binds(c, set)
          \/ /\ conn' = [conn EXCEPT ![c] = IF mine.recv = "none" THEN mine ELSE set]
             /\ UNCHANGED <<sockets, receiver>>
      BY <2>1 DEF mine, set
    <2>5. CASE Binds(c, set)
      BY <2>3, <2>5 DEF Binds
    <2>6. CASE conn' = [conn EXCEPT ![c] = mine] /\ UNCHANGED <<sockets, receiver>>
      BY <2>2, <2>6
    <2>7. CASE /\ conn' = [conn EXCEPT ![c] = set] /\ UNCHANGED <<sockets, receiver>>
               /\ mine.recv # "none"
      BY ZenonT(60), <1>1, <1>2, <2>2, <2>3, <2>7 DEF ConnType
    <2>. QED BY <2>4, <2>5, <2>6, <2>7
  <1>4. SessionTypeOK'
    BY <1>1, <1>3 DEF SessionInv, TypeOK, SessionTypeOK
  <1>5. ASSUME NEW d \in Conns PROVE ConnInv(d)' /\ SharedInv(d)'
    BY <1>1, <1>2, <1>3, SessionAssumption
    DEF SessionInv, TypeOK, SessionTypeOK, ConnInv, SharedInv, StreamInv, stream, Recording
  <1>. QED BY <1>1, <1>4, <1>5, StreamStays, SessionAssumption DEF SessionInv, TypeOK

----------------------------------------------------------------------------
(* Steps of a connection that change the stream. *)

LEMMA RecordKeeps ==
  ASSUME SessionInv, NEW c \in Conns, Record(c)
  PROVE  SessionInv'
  <1>1. /\ conn[c].at = "open" /\ conn[c].recv # "none" /\ ~conn[c].playing
        /\ Activate
        /\ conn' = [conn EXCEPT ![c].at = "sid"]
        /\ UNCHANGED <<session, receiver, sockets, playFlag, server, gone>>
    BY DEF Record, Asked
  <1>2. TypeOK' /\ ReadersInv' /\ StreamInv'
    BY <1>1, SessionAssumption
    DEF SessionInv, TypeOK, StreamTypeOK, SessionTypeOK, ConnInv, SharedInv, StreamInv,
        ReadersInv, ReaderInv, Activate, ConnType, Recording, Ending
  <1>3. ASSUME NEW d \in Conns PROVE ConnInv(d)' /\ SharedInv(d)'
    BY <1>1, SessionAssumption
    DEF SessionInv, TypeOK, SessionTypeOK, ConnInv, SharedInv, Activate, ConnType, Recording
  <1>. QED BY <1>2, <1>3 DEF SessionInv

LEMMA RecordSidKeeps ==
  ASSUME SessionInv, NEW c \in Conns, RecordSid(c)
  PROVE  SessionInv'
  <1>1. /\ conn[c].at = "sid" /\ sid < MaxSid /\ sid' = sid + 1
        /\ conn' = [conn EXCEPT ![c].at = "queue"]
        /\ UNCHANGED <<active, queue, lock, held, public, reader>>
        /\ UNCHANGED <<session, receiver, sockets, playFlag, server, gone>>
    BY DEF RecordSid, Then, NewSid, SessionInv, SharedInv
  <1>. session # NoConn
    BY <1>1, SessionAssumption DEF SessionInv, ConnInv, SharedInv, Recording
  <1>2. TypeOK' /\ ReadersInv' /\ StreamInv'
    BY SMTT(30), <1>1, MaxSidAssumption
    DEF SessionInv, TypeOK, StreamTypeOK, SessionTypeOK, StreamInv, Sids,
        ReadersInv, ReaderInv, ConnType, Recording, Ending
  <1>3. ASSUME NEW d \in Conns PROVE ConnInv(d)' /\ SharedInv(d)'
    BY <1>1, MaxSidAssumption
    DEF SessionInv, TypeOK, StreamTypeOK, SessionTypeOK, Sids, ConnInv, SharedInv, ConnType, Recording
  <1>. QED BY <1>2, <1>3 DEF SessionInv

LEMMA RecordQueueKeeps ==
  ASSUME SessionInv, NEW c \in Conns, RecordQueue(c)
  PROVE  SessionInv'
  <1>1. /\ conn[c].at = "queue" /\ queue' = sid
        /\ conn' = [conn EXCEPT ![c].at = "lock"]
        /\ UNCHANGED <<active, sid, lock, held, public, reader>>
        /\ UNCHANGED <<session, receiver, sockets, playFlag, server, gone>>
    BY DEF RecordQueue, Then, NewQueue
  <1>2. TypeOK' /\ ReadersInv' /\ StreamInv'
    BY <1>1, MaxSidAssumption
    DEF SessionInv, TypeOK, StreamTypeOK, SessionTypeOK, StreamInv, Sids, ReaderType,
        ReadersInv, ReaderInv, ConnType, Recording, Ending
  <1>3. ASSUME NEW d \in Conns PROVE ConnInv(d)' /\ SharedInv(d)'
    BY <1>1
    DEF SessionInv, TypeOK, StreamTypeOK, SessionTypeOK, ConnInv, SharedInv, ConnType, Recording
  <1>. QED BY <1>2, <1>3 DEF SessionInv

LEMMA RecordStartsKeeps ==
  ASSUME SessionInv, NEW c \in Conns, RecordStarts(c)
  PROVE  SessionInv'
  <1>1. /\ conn[c].at = "lock" /\ lock' = sid /\ playFlag' = TRUE
        /\ conn' = [conn EXCEPT ![c].at = "open", ![c].playing = TRUE]
        /\ UNCHANGED <<active, sid, queue, held, public, reader>>
        /\ UNCHANGED <<session, receiver, sockets, server, gone>>
    BY DEF RecordStarts, NewLock
  <1>2. TypeOK' /\ ReadersInv' /\ StreamInv'
    BY <1>1, SessionAssumption, MaxSidAssumption
    DEF SessionInv, TypeOK, StreamTypeOK, SessionTypeOK, StreamInv, Sids, ReaderType,
        ReadersInv, ReaderInv, ConnInv, SharedInv, ConnType, Recording, Ending
  <1>3. ASSUME NEW d \in Conns PROVE ConnInv(d)' /\ SharedInv(d)'
    BY SMTT(30), <1>1
    DEF SessionInv, TypeOK, StreamTypeOK, SessionTypeOK, ConnInv, SharedInv, ConnType, Recording
  <1>. QED BY <1>2, <1>3 DEF SessionInv

LEMMA AudioReadyKeeps ==
  ASSUME SessionInv, NEW c \in Conns, AudioReady(c)
  PROVE  SessionInv'
  <1>1. /\ conn[c].playing /\ public' = public \cup {sid}
        /\ conn' = [conn EXCEPT ![c].notified = TRUE]
        /\ UNCHANGED <<active, sid, queue, lock, held, reader>>
        /\ UNCHANGED <<session, receiver, sockets, playFlag, server, gone>>
    BY DEF AudioReady, Publish
  <1>2. TypeOK' /\ ReadersInv' /\ StreamInv'
    <2>1. SessionTypeOK'
      BY ZenonT(60), <1>1 DEF SessionInv, TypeOK, SessionTypeOK, ConnType
    <2>2. StreamTypeOK' /\ ReadersInv'
      BY <1>1 DEF SessionInv, TypeOK, StreamTypeOK, ReadersInv, ReaderInv
    <2>3. sid = lock /\ sid \in Nat
      BY <1>1 DEF SessionInv, ConnInv, SharedInv, Recording, TypeOK, StreamTypeOK, Sids
    <2>4. StreamInv'
      BY <1>1, <2>3 DEF SessionInv, StreamInv
    <2>. QED BY <2>1, <2>2, <2>4 DEF TypeOK
  <1>3. ASSUME NEW d \in Conns PROVE ConnInv(d)' /\ SharedInv(d)'
    BY <1>1
    DEF SessionInv, TypeOK, SessionTypeOK, ConnInv, SharedInv, ConnType, Recording
  <1>. QED BY <1>2, <1>3 DEF SessionInv

----------------------------------------------------------------------------
(* The end of a connection and of the server, and the requests. *)

LEMMA CloseReceiverKeeps ==
  ASSUME SessionInv, NEW c \in Conns, CloseReceiver(c)
  PROVE  SessionInv'
  <1>1. /\ conn[c].at = "close" /\ sockets' = sockets \ {c}
        /\ receiver' = IF receiver = c THEN NoConn ELSE receiver
        /\ UNCHANGED <<stream, session, playFlag, server>>
    BY DEF CloseReceiver
  <1>2. NoClient \in ConnType
    BY DEF NoClient, ConnType
  <1>3. PICK new \in ConnType :
          /\ conn' = [conn EXCEPT ![c] = new]
          /\ new.owns = conn[c].owns /\ new.playing = conn[c].playing
          /\ new.at = (IF conn[c].owns THEN "closed" ELSE "free")
          /\ \/ /\ new.recv = conn[c].recv /\ new.notified = conn[c].notified
                /\ new.channel = conn[c].channel /\ new.hap = conn[c].hap
             \/ new = NoClient
          /\ gone' \subseteq gone
    <2>1. CASE conn[c].owns
      <3>1. [conn[c] EXCEPT !.at = "closed"] \in ConnType
        BY DEF SessionInv, TypeOK, SessionTypeOK, ConnType, Ending
      <3>. QED BY <2>1, <3>1 DEF CloseReceiver, SessionInv, TypeOK, SessionTypeOK, ConnType
    <2>2. CASE ~conn[c].owns
      BY <1>2, <2>2 DEF CloseReceiver, NoClient, SessionInv, ConnInv, TypeOK, SessionTypeOK, ConnType
    <2>. QED BY <2>1, <2>2
  <1>4. SessionTypeOK'
    BY <1>1, <1>3 DEF SessionInv, TypeOK, SessionTypeOK
  <1>5. ASSUME NEW d \in Conns PROVE ConnInv(d)' /\ SharedInv(d)'
    BY <1>1, <1>3, SessionAssumption
    DEF SessionInv, TypeOK, SessionTypeOK, ConnInv, SharedInv, stream, Recording, NoClient
  <1>. QED BY <1>1, <1>4, <1>5, StreamStays DEF SessionInv, TypeOK

LEMMA EndStreamKeeps ==
  ASSUME SessionInv, NEW c \in Conns, EndStream(c)
  PROVE  SessionInv'
  <1>1. /\ conn[c].at = "closed" /\ active' = FALSE /\ playFlag' = FALSE
        /\ conn' = [conn EXCEPT ![c].at = "ended"]
        /\ UNCHANGED <<sid, queue, lock, held, public, reader>>
        /\ UNCHANGED <<session, receiver, sockets, server, gone>>
    BY DEF EndStream, Then, StopStreaming
  <1>2. TypeOK' /\ ReadersInv' /\ StreamInv'
    <2>1. SessionTypeOK'
      <3>1. [conn[c] EXCEPT !.at = "ended"] \in ConnType
        BY DEF SessionInv, TypeOK, SessionTypeOK, ConnType, Ending
      <3>. QED BY <1>1, <3>1 DEF SessionInv, TypeOK, SessionTypeOK
    <2>2. StreamTypeOK' /\ ReadersInv'
      BY <1>1 DEF SessionInv, TypeOK, StreamTypeOK, ReadersInv, ReaderInv
    <2>3. StreamInv'
      BY <1>1 DEF SessionInv, StreamInv
    <2>. QED BY <2>1, <2>2, <2>3 DEF TypeOK
  <1>3. ASSUME NEW d \in Conns PROVE ConnInv(d)' /\ SharedInv(d)'
    BY <1>1
    DEF SessionInv, TypeOK, SessionTypeOK, ConnInv, SharedInv, ConnType, Recording
  <1>. QED BY <1>2, <1>3 DEF SessionInv

LEMMA StopCallbackKeeps ==
  ASSUME SessionInv, NEW c \in Conns, StopCallback(c)
  PROVE  SessionInv'
  BY StreamStays, SessionAssumption
  DEF SessionInv, TypeOK, SessionTypeOK, ConnInv, SharedInv, stream, ConnType, Recording,
      Ending, StopCallback, Then

LEMMA ReleaseSessionKeeps ==
  ASSUME SessionInv, NEW c \in Conns, ReleaseSession(c)
  PROVE  SessionInv'
  <1>1. /\ conn[c].at = "told" /\ session' = NoConn
        /\ conn' = [conn EXCEPT ![c] = NoClient] /\ gone' = gone \ {c}
        /\ UNCHANGED <<stream, receiver, sockets, playFlag, server>>
    BY DEF ReleaseSession
  <1>2. conn[c].owns /\ session = c /\ ~active /\ ~playFlag /\ lock = sid
    BY <1>1 DEF SessionInv, ConnInv, SharedInv
  <1>3. TypeOK' /\ ReadersInv' /\ StreamInv'
    <2>1. NoClient \in ConnType
      BY DEF NoClient, ConnType
    <2>2. SessionTypeOK'
      BY <1>1, <2>1 DEF SessionInv, TypeOK, SessionTypeOK
    <2>3. StreamInv'
      BY <1>1, <1>2 DEF SessionInv, StreamInv, stream
    <2>. QED BY <1>1, <2>2, <2>3, StreamStays DEF TypeOK
  <1>4. ASSUME NEW d \in Conns PROVE ConnInv(d)' /\ SharedInv(d)'
    BY <1>1, <1>2, SessionAssumption
    DEF SessionInv, TypeOK, SessionTypeOK, ConnInv, SharedInv, stream, Recording, NoClient
  <1>. QED BY <1>3, <1>4 DEF SessionInv

LEMMA StopKeeps ==
  ASSUME SessionInv, StopServer \/ StopRest
  PROVE  SessionInv'
  <1>1. CASE StopServer
    BY <1>1, StreamStays
    DEF StopServer, SessionInv, TypeOK, SessionTypeOK, ConnInv, SharedInv, stream
  <1>2. CASE StopRest
    <2>1. /\ active' = FALSE /\ server' = "stopped" /\ sockets' = sockets \ {receiver}
          /\ UNCHANGED <<sid, queue, lock, held, public, reader>>
          /\ UNCHANGED <<conn, session, receiver, playFlag, gone>>
      BY <1>2 DEF StopRest, StopStreaming
    <2>2. TypeOK' /\ ReadersInv' /\ StreamInv'
      BY <2>1
      DEF SessionInv, TypeOK, StreamTypeOK, SessionTypeOK, StreamInv, ReadersInv, ReaderInv
    <2>3. ASSUME NEW d \in Conns PROVE ConnInv(d)' /\ SharedInv(d)'
      BY <2>1 DEF SessionInv, ConnInv, SharedInv
    <2>. QED BY <2>2, <2>3 DEF SessionInv
  <1>. QED BY <1>1, <1>2

LEMMA HandleStreamKeeps ==
  ASSUME SessionInv, NEW r \in Readers, HandleStream(r), UNCHANGED rtsp
  PROVE  SessionInv'
  <1>. StreamTypeOK /\ ReadersInv /\ StreamInv
    BY DEF SessionInv, TypeOK
  <1>. UNCHANGED <<active, sid, queue, lock, public>>
    BY DEF HandleStream, Request, TakeLock, TakeQueue, Acquire, Leave, Reads
  <1>1. PICK new \in ReaderType : reader' = [reader EXCEPT ![r] = new]
    <2>1. NotReading \in ReaderType
      BY MaxSidAssumption DEF NotReading, ReaderType, Sids
    <2>2. \A u \in Sids : [NotReading EXCEPT !.at = "checked", !.url = u] \in ReaderType
      BY <2>1 DEF ReaderType
    <2>3. /\ [reader[r] EXCEPT !.at = "lock", !.lock = lock] \in ReaderType
          /\ [reader[r] EXCEPT !.at = "queue", !.queue = queue] \in ReaderType
          /\ [reader[r] EXCEPT !.at = "serving"] \in ReaderType
      BY DEF StreamTypeOK, ReaderType
    <2>. QED
      BY <2>1, <2>2, <2>3
      DEF HandleStream, Request, TakeLock, TakeQueue, Acquire, Leave, Reads, StreamTypeOK
  <1>2. /\ held' \subseteq Sids
        /\ \A s \in Readers \ {r} : reader'[s] = reader[s]
    <2>1. reader[r].lock \in Sids
      BY DEF StreamTypeOK, ReaderType
    <2>. QED
      BY <2>1
      DEF HandleStream, Request, TakeLock, TakeQueue, Acquire, Leave, Reads, StreamTypeOK
  <1>3. TypeOK' /\ StreamInv' /\ \A c \in Conns : ConnInv(c)' /\ SharedInv(c)'
    BY <1>1, <1>2
    DEF SessionInv, TypeOK, StreamTypeOK, SessionTypeOK, StreamInv, ConnInv, SharedInv, rtsp
  <1>4. ASSUME NEW s \in Readers, reader'[s].at = "serving"
        PROVE  reader'[s].lock \in held'
    <2>1. CASE Request(r) \/ TakeLock(r) \/ TakeQueue(r)
      BY ZenonT(60), <1>1, <1>4, <2>1
      DEF Request, TakeLock, TakeQueue, Reads, NotReading, StreamTypeOK, ReaderType, ReadersInv, ReaderInv
    <2>2. CASE Acquire(r)
      BY <1>1, <1>4, <2>2
      DEF Acquire, Reads, NotReading, StreamTypeOK, ReaderType, ReadersInv, ReaderInv
    <2>3. CASE Leave(r)
      BY <1>1, <1>4, <2>3
      DEF Leave, Reads, NotReading, StreamTypeOK, ReaderType, ReadersInv, ReaderInv
    <2>. QED BY <2>1, <2>2, <2>3 DEF HandleStream
  <1>5. ReadersInv'
    <2>. StreamTypeOK'
      BY <1>3 DEF TypeOK
    <2>1. CASE Request(r)
      BY <2>1, <1>4
      DEF Request, Reads, NotReading, StreamTypeOK, ReaderType, Sids, StreamInv, ReadersInv, ReaderInv
    <2>2. CASE TakeLock(r)
      BY <2>2, <1>4
      DEF TakeLock, Reads, StreamTypeOK, ReaderType, Sids, StreamInv, ReadersInv, ReaderInv
    <2>3. CASE TakeQueue(r)
      BY <2>3, <1>4
      DEF TakeQueue, Reads, StreamTypeOK, ReaderType, Sids, StreamInv, ReadersInv, ReaderInv
    <2>4. CASE Acquire(r)
      BY SMTT(30), <2>4, <1>4
      DEF Acquire, Reads, NotReading, StreamTypeOK, ReaderType, ReadersInv, ReaderInv
    <2>5. CASE Leave(r)
      BY <2>5, <1>4
      DEF Leave, Reads, NotReading, StreamTypeOK, ReaderType, ReadersInv, ReaderInv
    <2>. QED BY <2>1, <2>2, <2>3, <2>4, <2>5 DEF HandleStream
  <1>. QED BY <1>3, <1>5 DEF SessionInv

LEMMA NextKeeps == SessionInv /\ [Next]_vars => SessionInv'
  <1>. SUFFICES ASSUME SessionInv, [Next]_vars PROVE SessionInv'
    OBVIOUS
  <1>1. ASSUME NEW c \in Conns, Accept(c) \/ Handshake(c) \/ Vanish(c)
        PROVE  SessionInv'
    BY <1>1, AcceptKeeps, HandshakeKeeps, VanishKeeps
  <1>2. ASSUME NEW c \in Conns, Play(c)
        PROVE  SessionInv'
    BY <1>2, AnnounceKeeps, SetupKeeps, SetupRealtimeKeeps, RecordKeeps, RecordSidKeeps,
       RecordQueueKeeps, RecordStartsKeeps DEF Play
  <1>3. ASSUME NEW c \in Conns, End(c) \/ AudioReady(c) \/ StopCallback(c)
        PROVE  SessionInv'
    BY <1>3, ClosesKeeps, CloseReceiverKeeps, EndStreamKeeps, ReleaseSessionKeeps,
       AudioReadyKeeps, StopCallbackKeeps DEF End, Hangup, Timeout, EndsWithServer
  <1>4. CASE StopServer \/ StopRest
    BY <1>4, StopKeeps
  <1>5. ASSUME NEW r \in Readers, HandleStream(r), UNCHANGED rtsp
        PROVE  SessionInv'
    BY <1>5, HandleStreamKeeps
  <1>6. CASE UNCHANGED vars
    BY <1>6
    DEF vars, rtsp, stream, SessionInv, TypeOK, StreamTypeOK, SessionTypeOK, ConnInv, SharedInv,
        StreamInv, ReadersInv, ReaderInv
  <1>. QED BY <1>1, <1>2, <1>3, <1>4, <1>5, <1>6 DEF Next

\* The inductive invariant.
LEMMA Invariance == Spec => []SessionInv
  BY InitOK, NextKeeps, PTL DEF Spec

----------------------------------------------------------------------------
(* The theorems. *)

\* Every variable keeps its type.
THEOREM TypeCorrect == Spec => []TypeOK
  BY Invariance, PTL DEF SessionInv

\* One connection at most owns the playback lock, and it finds the ports free.
THEOREM OneOwnerAlways == Spec => []OneOwner
  <1>1. SessionInv => OneOwner
    <2>. SUFFICES ASSUME SessionInv, NEW c \in Conns, conn[c].owns
                  PROVE  /\ session = c
                         /\ conn[c].at = "open" /\ conn[c].recv = "none" => sockets = {}
      BY DEF OneOwner
    <2>1. session = c
      BY DEF SessionInv, SharedInv
    <2>2. ASSUME conn[c].recv = "none", NEW d \in sockets
          PROVE  FALSE
      <3>1. d \in Conns
        BY DEF SessionInv, TypeOK, SessionTypeOK
      <3>2. conn[d].recv # "none" /\ conn[d].owns
        BY <3>1 DEF SessionInv, ConnInv, SharedInv
      <3>. QED BY <2>1, <2>2, <3>1, <3>2 DEF SessionInv, SharedInv
    <2>. QED BY <2>1, <2>2
  <1>. QED BY <1>1, Invariance, PTL

\* The stream of the connection that plays is on, with its own queue and lock.
THEOREM PlayingAlwaysStreams == Spec => []PlayingStreams
  <1>1. SessionInv => PlayingStreams
    BY DEF SessionInv, TypeOK, StreamTypeOK, ConnInv, SharedInv, PlayingStreams
  <1>. QED BY <1>1, Invariance, PTL

\* AP2 audio is only ever set up on a connection that is encrypted.
THEOREM RealtimeAlwaysEncrypted == Spec => []RealtimeIsEncrypted
  <1>1. SessionInv => RealtimeIsEncrypted
    BY DEF SessionInv, ConnInv, RealtimeIsEncrypted
  <1>. QED BY <1>1, Invariance, PTL

\* A stopped server without connections has nothing on.
THEOREM StoppedAlwaysSilent == Spec => []StoppedIsSilent
  <1>1. SessionInv => StoppedIsSilent
    <2>. SUFFICES ASSUME SessionInv, \A c \in Conns : conn[c].at = "free"
                  PROVE  sockets = {} /\ receiver = NoConn /\ session = NoConn /\ ~active /\ ~playFlag
      BY DEF StoppedIsSilent
    <2>1. session = NoConn
      BY DEF SessionInv, TypeOK, SessionTypeOK, ConnInv, SharedInv
    <2>2. sockets = {} /\ receiver = NoConn
      BY DEF SessionInv, TypeOK, SessionTypeOK, SharedInv, Recording
    <2>. QED BY <2>1, <2>2 DEF SessionInv, StreamInv
  <1>. QED BY <1>1, Invariance, PTL

\* No request gets the PCM of an earlier session than its own.
THEOREM NeverEarlierPcm == Spec => []NoEarlierPcm
  <1>1. SessionInv => NoEarlierPcm
    BY DEF SessionInv, TypeOK, StreamTypeOK, ReaderType, Sids, ReadersInv, ReaderInv, NoEarlierPcm
  <1>. QED BY <1>1, Invariance, PTL

\* Two requests for one session never share its PCM, however they and the
\* steps of start_streaming interleave.
THEOREM AlwaysOneConsumer == Spec => []OneConsumer
  <1>1. SessionInv => OneConsumer
    <2>. SUFFICES ASSUME SessionInv, NEW r \in Readers, NEW s \in Readers, r # s,
                         reader[r].at = "serving", reader[s].at = "serving",
                         reader[r].queue = reader[r].url, reader[s].queue = reader[s].url,
                         reader[r].url = reader[s].url
                  PROVE  FALSE
      BY DEF OneConsumer
    <2>1. ASSUME NEW x \in {r, s}
          PROVE  reader[x].lock = reader[x].url
      BY DEF SessionInv, TypeOK, StreamTypeOK, ReaderType, Sids, ReadersInv, ReaderInv
    <2>. QED BY <2>1 DEF SessionInv, ReadersInv
  <1>. QED BY <1>1, Invariance, PTL

----------------------------------------------------------------------------
(* AirplaySession implements PlaySessions. *)

\* What a step leaves alone when the bridge does not see it.
Unseen(c) == (OnAir(c)' <=> OnAir(c)) /\ (OnAir(c) => UNCHANGED conn[c].notified)

LEMMA UnseenSteps ==
  ASSUME UNCHANGED lock, \A c \in Conns : Unseen(c)
  PROVE  UNCHANGED <<lock, Phase>>
  BY DEF Unseen, Phase

\* A step of one connection that is not seen of it is not seen at all.
LEMMA UnseenOfOne ==
  ASSUME SessionInv, NEW c \in Conns, NEW new, conn' = [conn EXCEPT ![c] = new],
         UNCHANGED lock, Unseen(c)
  PROVE  UNCHANGED <<lock, Phase>>
  <1>1. \A d \in Conns : Unseen(d)
    BY DEF SessionInv, TypeOK, SessionTypeOK, Unseen, OnAir
  <1>. QED BY <1>1, UnseenSteps

\* Where a connection has the session, no other is on air.
LEMMA PhaseOfOwner ==
  ASSUME SessionInv, NEW c \in Conns, conn[c].owns
  PROVE  Phase = IF ~OnAir(c) THEN "none" ELSE IF conn[c].notified THEN "heard" ELSE "begun"
  <1>1. \A d \in Conns : OnAir(d) => d = c
    BY DEF SessionInv, ConnInv, SharedInv, OnAir
  <1>. QED BY <1>1 DEF Phase

LEMMA PhaseOfOwnerNext ==
  ASSUME SessionInv', NEW c \in Conns, conn'[c].owns
  PROVE  Phase' = IF ~OnAir(c)' THEN "none"
                  ELSE IF conn'[c].notified THEN "heard" ELSE "begun"
  <1>1. \A d \in Conns : OnAir(d)' => d = c
    BY DEF SessionInv, ConnInv, SharedInv, OnAir
  <1>. QED BY <1>1 DEF Phase

LEMMA BeginsWithStart ==
  ASSUME SessionInv, SessionInv', NEW c \in Conns, RecordStarts(c)
  PROVE  Sessions!Begin
  <1>1. /\ conn[c].at = "lock" /\ lock' = sid
        /\ conn' = [conn EXCEPT ![c].at = "open", ![c].playing = TRUE]
    BY DEF RecordStarts, NewLock
  <1>2. conn[c].owns /\ ~conn[c].playing /\ ~conn[c].notified
    BY <1>1 DEF SessionInv, ConnInv, Recording
  <1>3. lock < MaxSid /\ lock' = lock + 1
    BY <1>1, MaxSidAssumption DEF SessionInv, SharedInv, TypeOK, StreamTypeOK, Sids
  <1>4. /\ conn'[c].owns /\ conn'[c].playing /\ ~conn'[c].notified /\ conn'[c].at = "open"
    BY <1>1, <1>2 DEF SessionInv, TypeOK, SessionTypeOK, ConnType
  <1>5. Phase = "none"
    BY <1>2, PhaseOfOwner DEF OnAir
  <1>6. Phase' = "begun"
    BY <1>4, PhaseOfOwnerNext DEF OnAir
  <1>. QED BY <1>3, <1>5, <1>6 DEF Sessions!Begin

LEMMA HeardWithAudio ==
  ASSUME SessionInv, SessionInv', NEW c \in Conns, AudioReady(c)
  PROVE  Sessions!Hear
  <1>1. /\ conn[c].playing /\ ~conn[c].notified /\ c \in sockets /\ lock' = lock
        /\ conn' = [conn EXCEPT ![c].notified = TRUE]
    BY DEF AudioReady, Publish
  <1>2. conn[c].owns /\ conn[c].at # "told"
    BY <1>1 DEF SessionInv, ConnInv, SharedInv, Recording
  <1>3. /\ conn'[c].owns /\ conn'[c].playing /\ conn'[c].notified /\ conn'[c].at # "told"
    BY <1>1, <1>2 DEF SessionInv, TypeOK, SessionTypeOK, ConnType
  <1>4. Phase = "begun"
    BY <1>1, <1>2, PhaseOfOwner DEF OnAir
  <1>5. Phase' = "heard"
    BY <1>3, PhaseOfOwnerNext DEF OnAir
  <1>. QED BY <1>1, <1>4, <1>5 DEF Sessions!Hear

\* The stop callback of a connection that never played is of no session.
LEMMA FinishesWithCallback ==
  ASSUME SessionInv, SessionInv', NEW c \in Conns, StopCallback(c)
  PROVE  Sessions!Finish \/ UNCHANGED <<lock, Phase>>
  <1>1. /\ conn[c].at = "ended" /\ lock' = lock
        /\ conn' = [conn EXCEPT ![c].at = "told"]
    BY DEF StopCallback, Then, stream
  <1>2. conn[c].owns
    BY <1>1 DEF SessionInv, ConnInv
  <1>3. /\ conn'[c].owns /\ conn'[c].at = "told"
        /\ conn'[c].playing = conn[c].playing
    BY <1>1, <1>2 DEF SessionInv, TypeOK, SessionTypeOK, ConnType
  <1>4. Phase' = "none"
    BY <1>3, PhaseOfOwnerNext DEF OnAir
  <1>5. CASE conn[c].playing
    <2>1. Phase # "none"
      BY <1>1, <1>2, <1>5, PhaseOfOwner DEF OnAir
    <2>. QED BY <1>1, <1>4, <2>1 DEF Sessions!Finish
  <1>6. CASE ~conn[c].playing
    <2>1. Phase = "none"
      BY <1>2, <1>6, PhaseOfOwner DEF OnAir
    <2>. QED BY <1>1, <1>4, <2>1
  <1>. QED BY <1>5, <1>6

LEMMA OtherStepsUnseen ==
  ASSUME SessionInv, NEW c \in Conns,
         \/ Accept(c) \/ Handshake(c) \/ Announce(c) \/ Setup(c) \/ SetupRealtime(c)
         \/ Record(c) \/ RecordSid(c) \/ RecordQueue(c) \/ Vanish(c) \/ End(c)
  PROVE  UNCHANGED <<lock, Phase>>
  <1>. conn[c] \in ConnType /\ ConnInv(c)
    BY DEF SessionInv, TypeOK, SessionTypeOK
  <1>. SUFFICES /\ UNCHANGED lock
                /\ \E new : conn' = [conn EXCEPT ![c] = new]
                /\ Unseen(c)
    BY UnseenOfOne
  <1>. conn \in [Conns -> ConnType]
    BY DEF SessionInv, TypeOK, SessionTypeOK
  <1>1. CASE Accept(c) \/ Vanish(c)
    BY <1>1 DEF Accept, Vanish, stream, Unseen, OnAir, ConnInv, ConnType
  <1>. DEFINE Same(new) == /\ conn' = [conn EXCEPT ![c] = new]
                           /\ new.playing = conn[c].playing
                           /\ new.notified = conn[c].notified /\ new.at = conn[c].at
  <1>11. ASSUME NEW new, Same(new), UNCHANGED lock
         PROVE  UNCHANGED lock /\ (\E n : conn' = [conn EXCEPT ![c] = n]) /\ Unseen(c)
    BY <1>11 DEF Unseen, OnAir
  <1>2. CASE Handshake(c)
    <2>1. CASE PairStart(c)
      <3>1. PICK good \in BOOLEAN :
              Local(c, [conn[c] EXCEPT !.hap = IF good THEN "pending" ELSE "none"])
        BY <2>1 DEF PairStart
      <3>2. Same([conn[c] EXCEPT !.hap = IF good THEN "pending" ELSE "none"]) /\ UNCHANGED lock
        BY <3>1 DEF Local, stream, ConnType
      <3>. QED BY <3>2, <1>11
    <2>2. CASE PairProof(c)
      <3>1. PICK good \in BOOLEAN :
              LET proved == good /\ conn[c].hap = "pending" IN
              Local(c, [conn[c] EXCEPT !.channel = proved,
                                       !.hap = IF proved THEN "shared" ELSE "none"])
        BY <2>2 DEF PairProof
      <3>. DEFINE proved == good /\ conn[c].hap = "pending"
                  new == [conn[c] EXCEPT !.channel = proved,
                                         !.hap = IF proved THEN "shared" ELSE "none"]
      <3>2. Same(new) /\ UNCHANGED lock
        BY <3>1 DEF Local, stream, ConnType
      <3>. QED BY <3>2, <1>11
    <2>. QED BY <1>2, <2>1, <2>2 DEF Handshake
  <1>3. CASE Announce(c)
    <2>1. PICK good \in BOOLEAN :
            conn' = [conn EXCEPT ![c].owns = TRUE, ![c].decoder = good]
      BY <1>3 DEF Announce
    <2>2. Same([conn[c] EXCEPT !.owns = TRUE, !.decoder = good]) /\ UNCHANGED lock
      BY <1>3, <2>1 DEF Announce, stream, ConnType
    <2>. QED BY <2>2, <1>11
  <1>4. CASE Setup(c)
    BY <1>4 DEF Setup, Asked, Binds, SetupEnds, stream, Unseen, OnAir, ConnType
  <1>5. CASE SetupRealtime(c)
    <2>1. PICK good \in BOOLEAN, stream96 \in BOOLEAN :
            LET mine == [conn[c] EXCEPT !.owns = TRUE]
                set  == [mine EXCEPT !.recv = "ap2", !.decoder = @ \/ good,
                           !.configured = @ \/ (good /\ stream96)] IN
            \/ mine.recv = "none" /\ Binds(c, set)
            \/ /\ conn' = [conn EXCEPT ![c] = IF mine.recv = "none" THEN mine ELSE set]
               /\ UNCHANGED <<sockets, receiver>>
      BY <1>5 DEF SetupRealtime
    <2>. DEFINE mine == [conn[c] EXCEPT !.owns = TRUE]
                set  == [mine EXCEPT !.recv = "ap2", !.decoder = @ \/ good,
                           !.configured = @ \/ (good /\ stream96)]
    <2>2. Same(mine) \/ Same(set)
      BY <2>1 DEF Binds, ConnType
    <2>3. UNCHANGED lock
      BY <1>5 DEF SetupRealtime, stream
    <2>. QED BY <2>2, <2>3, <1>11
  <1>6. CASE Record(c) \/ RecordSid(c) \/ RecordQueue(c)
    BY <1>6
    DEF Record, Asked, Activate, RecordSid, NewSid, RecordQueue, NewQueue, Then, Unseen, OnAir, ConnType
  <1>7. CASE Closes(c)
    BY <1>7 DEF Closes, stream, Unseen, OnAir, ConnType
  <1>8. CASE CloseReceiver(c)
    BY <1>8 DEF CloseReceiver, NoClient, stream, Unseen, OnAir, ConnInv, ConnType
  <1>9. CASE EndStream(c)
    BY <1>9 DEF EndStream, Then, StopStreaming, Unseen, OnAir, ConnType
  <1>10. CASE ReleaseSession(c)
    BY <1>10 DEF ReleaseSession, NoClient, stream, Unseen, OnAir, ConnType
  <1>. QED
    BY <1>1, <1>2, <1>3, <1>4, <1>5, <1>6, <1>7, <1>8, <1>9, <1>10
    DEF End, Hangup, Timeout, EndsWithServer

LEMMA StepsRefine ==
  SessionInv /\ SessionInv' /\ [Next]_vars =>
    [Sessions!SessionsNext]_<<lock, Phase>>
  <1>. SUFFICES ASSUME SessionInv, SessionInv', [Next]_vars
                PROVE  Sessions!SessionsNext \/ UNCHANGED <<lock, Phase>>
    OBVIOUS
  <1>1. ASSUME NEW c \in Conns, RecordStarts(c)
        PROVE  Sessions!SessionsNext
    BY <1>1, BeginsWithStart DEF Sessions!SessionsNext
  <1>2. ASSUME NEW c \in Conns, AudioReady(c)
        PROVE  Sessions!SessionsNext
    BY <1>2, HeardWithAudio DEF Sessions!SessionsNext
  <1>3. ASSUME NEW c \in Conns, StopCallback(c)
        PROVE  Sessions!SessionsNext \/ UNCHANGED <<lock, Phase>>
    BY <1>3, FinishesWithCallback DEF Sessions!SessionsNext
  <1>4. ASSUME NEW c \in Conns,
               \/ Accept(c) \/ Handshake(c) \/ Vanish(c) \/ End(c)
               \/ Play(c) /\ ~RecordStarts(c)
        PROVE  UNCHANGED <<lock, Phase>>
    BY <1>4, OtherStepsUnseen DEF Play
  <1>5. CASE StopServer \/ StopRest
    <2>1. UNCHANGED <<lock, conn>>
      BY <1>5 DEF StopServer, StopRest, StopStreaming, stream
    <2>. QED BY <2>1 DEF Phase, OnAir
  <1>6. ASSUME NEW r \in Readers, HandleStream(r), UNCHANGED rtsp
        PROVE  UNCHANGED <<lock, Phase>>
    <2>1. UNCHANGED <<lock, conn>>
      BY <1>6 DEF HandleStream, Request, TakeLock, TakeQueue, Acquire, Leave, Reads, rtsp
    <2>. QED BY <2>1 DEF Phase, OnAir
  <1>7. CASE UNCHANGED vars
    BY <1>7 DEF vars, rtsp, stream, Phase, OnAir
  <1>. QED BY <1>1, <1>2, <1>3, <1>4, <1>5, <1>6, <1>7 DEF Next, Play

\* The sessions of the server are those that PlaySessions promises.
THEOREM ServerKeepsSessions == Spec => SessionsKept
  <1>1. Init => Sessions!SessionsInit
    BY DEF Init, StreamInit, SessionInit, NoClient, Sessions!SessionsInit, Phase, OnAir
  <1>. QED
    BY <1>1, StepsRefine, Invariance, PTL
    DEF Spec, SessionsKept, Sessions!SessionsSpec, Sessions!sessions

=============================================================================
