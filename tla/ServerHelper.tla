---------------------------- MODULE ServerHelper ----------------------------
(***************************************************************************)
(* The select server of ServerCore/ServerHelper.cpp: the thread that runs  *)
(* selectUpdate, the user's thread, which adds sockets and calls Update,   *)
(* Read and Write, and the network.  What runs under mlock is one step;    *)
(* select itself runs without it.  Sockets do not block, but for connect.  *)
(***************************************************************************)
EXTENDS Integers, Sequences, FiniteSets, SequencesExt

CONSTANTS
  Listeners,     (* sockets the user listens with                          *)
  Clients,       (* sockets the user connects with                         *)
  Guests,        (* connections other programs make to a listener          *)
  Host,          (* guest -> the listener it connects to                   *)
  Namings,       (* the ways the user gives Symbols to its sockets         *)
  IOType,        (* listener or client -> its IOType                       *)
  MaxBytes       (* bound: bytes that all others send, and the user writes *)

RECV == "recv"
SEND == "send"

Sockets  == Clients \cup Guests
Symbols  == UNION {Range(name) : name \in Namings}

ASSUME ServerHelperAssumption ==
  /\ IsFiniteSet(Clients) /\ IsFiniteSet(Guests) /\ Clients \cap Guests = {}
  /\ IsFiniteSet(Symbols)
  /\ Host \in [Guests -> Listeners]
  /\ IOType \in [Listeners \cup Clients -> SUBSET {RECV, SEND}]
  /\ \A name \in Namings : DOMAIN name = Listeners \cup Clients
  /\ MaxBytes \in Nat

VARIABLES
  symbol,      (* listener or client -> its Symbol                         *)
  listening,   (* the listeners in mLisetnSockets                          *)
  accepted,    (* those of them whose bConnect is set                      *)
  sessions,    (* the sockets in mVecOri                                   *)
  connected,   (* those of them whose bConnect is set                      *)
  recvBuff,    (* socket -> RecvBuff                                       *)
  sendBuff,    (* socket -> SendBuff                                       *)
  mapRecv,     (* mMapRecvBuffer                                           *)
  mapSend,     (* mMapSendBuffer                                           *)
  selector,    (* where selectUpdate is, and its fd_sets                   *)
  link,        (* socket -> the state of its connection                    *)
  wire,        (* socket -> the bytes on their way to it                   *)
  sent,        (* socket -> how many bytes the other side has sent         *)
  got,         (* socket -> what the other side has received               *)
  readBy,      (* symbol -> what the user has read                         *)
  written      (* symbol -> how many bytes the user has written            *)

helper  == <<symbol, listening, accepted, sessions, connected, recvBuff, sendBuff,
             mapRecv, mapSend>>
network == <<link, wire, sent, got>>
user    == <<readBy, written>>
vars    == <<helper, selector, network, user>>

(* An accepted session has the Symbol and the IOType of its listener.      *)
Origin(s)   == IF s \in Guests THEN Host[s] ELSE s
SymbolOf(s) == symbol[Origin(s)]
IOTypeOf(s) == IOType[Origin(s)]

(* All the bytes of the streams counted in f.                              *)
Total(f) == FoldFunction(+, 0, f)

InVector == Range(sessions)

Init ==
  /\ symbol \in Namings
  /\ listening = {} /\ accepted = {} /\ sessions = <<>> /\ connected = {}
  /\ recvBuff = [s \in Sockets |-> <<>>]
  /\ sendBuff = [s \in Sockets |-> <<>>]
  /\ mapRecv = [y \in Symbols |-> <<>>]
  /\ mapSend = [y \in Symbols |-> <<>>]
  /\ selector = [at |-> "off", reads |-> {}, writes |-> {}]
  /\ link = [s \in Sockets |-> "down"]
  /\ wire = [s \in Sockets |-> <<>>]
  /\ sent = [s \in Sockets |-> 0]
  /\ got = [s \in Sockets |-> <<>>]
  /\ readBy = [y \in Symbols |-> <<>>]
  /\ written = [y \in Symbols |-> 0]

-----------------------------------------------------------------------------
(* selectUpdate                                                            *)

StartThread ==
  /\ selector.at = "off"
  /\ selector' = [selector EXCEPT !.at = "top"]
  /\ UNCHANGED <<helper, network, user>>

(* The first part under mlock: the fd_sets are filled.                     *)
Snapshot ==
  /\ selector.at = "top"
  /\ selector' =
       [at     |-> "select",
        reads  |-> listening \cup {s \in connected : RECV \in IOTypeOf(s)},
        writes |-> {s \in connected : SEND \in IOTypeOf(s)}]
  /\ UNCHANGED <<helper, network, user>>

Readable(x) ==
  IF x \in Listeners THEN \E g \in Guests : Host[g] = x /\ link[g] = "waiting"
  ELSE link[x] = "closed" \/ (link[x] = "up" /\ wire[x] # <<>>)
Writable(s) == link[s] \in {"up", "closed"}

(* select returns when a socket is ready, and at once when it has none.    *)
Select ==
  /\ selector.at = "select"
  /\ LET reads  == {x \in selector.reads : Readable(x)}
         writes == {s \in selector.writes : Writable(s)}
     IN  /\ reads \cup writes = {} => selector.reads \cup selector.writes = {}
         /\ selector' = [at |-> "serve", reads |-> reads, writes |-> writes]
  /\ UNCHANGED <<helper, network, user>>

(* Guests that accept may return; one that has gone leaves none.           *)
Accepts(l) == {{g} : g \in {h \in Guests : Host[h] = l /\ link[h] = "waiting"}}
Accepted(l) == IF Accepts(l) = {} THEN {{}} ELSE Accepts(l)

(* Every session but one that is also writable is received from.           *)
MutToReceive == (selector.reads \cap connected) \ selector.writes

(* The sessions FD_ISSET finds in reads.                                   *)
ToReceive == selector.reads \cap connected

(* How much recv may return: nothing only at the end of the stream.        *)
Receivable(s) ==
  IF s \notin ToReceive \/ wire[s] = <<>> THEN {0} ELSE 1 .. Len(wire[s])

(* How much send may take.  A recv that returned nothing skips the send.   *)
Sendable(s, n) ==
  IF \/ s \notin selector.writes \cap connected
     \/ s \in selector.reads /\ n = 0
  THEN {0} ELSE 0 .. Len(sendBuff[s])

(* A recv whose bytes go before those that came earlier.                   *)
MutInsert(buff, bytes) == bytes \o buff

Insert(buff, bytes) == buff \o bytes

(* A send whose bytes stay in SendBuff.                                    *)
MutErase(buff, n) == buff

Erase(buff, n) == SubSeq(buff, n + 1, Len(buff))

(* The second part under mlock: a listener accepts once, whether accept    *)
(* gives a socket or not; then every session is received from and sent to. *)
Serve ==
  /\ selector.at = "serve"
  /\ LET ready == (selector.reads \cap listening) \ accepted
     IN  /\ accepted' = accepted \cup ready
         /\ \E pick \in [ready -> SUBSET Guests] :
              /\ \A l \in ready : pick[l] \in Accepted(l)
              /\ LET new == UNION {pick[l] : l \in ready}
                 IN  /\ \E order \in SetToSeqs(new) : sessions' = sessions \o order
                     /\ connected' = connected \cup new
                     /\ link' = [s \in Sockets |->
                                   IF s \in new THEN "up" ELSE link[s]]
  /\ \E n, m \in [Sockets -> 0 .. MaxBytes] :
       /\ \A s \in Sockets : n[s] \in Receivable(s) /\ m[s] \in Sendable(s, n[s])
       /\ recvBuff' = [s \in Sockets |->
                         Insert(recvBuff[s], SubSeq(wire[s], 1, n[s]))]
       /\ wire' = [s \in Sockets |-> SubSeq(wire[s], n[s] + 1, Len(wire[s]))]
       /\ got' = [s \in Sockets |-> got[s] \o SubSeq(sendBuff[s], 1, m[s])]
       /\ sendBuff' = [s \in Sockets |-> Erase(sendBuff[s], m[s])]
  /\ selector' = [at |-> "top", reads |-> {}, writes |-> {}]
  /\ UNCHANGED <<symbol, listening, mapRecv, mapSend, sent, user>>

-----------------------------------------------------------------------------
(* The user's thread                                                       *)

(* AddLitener and AddClient take no lock: the user adds its sockets before *)
(* the select thread runs.                                                 *)
AddLitener(l) ==
  /\ selector.at = "off"
  /\ listening' = listening \cup {l}
  /\ UNCHANGED <<symbol, accepted, sessions, connected, recvBuff, sendBuff,
                 mapRecv, mapSend, selector, network, user>>

AddClient(c) ==
  /\ selector.at = "off"
  /\ c \notin InVector
  /\ sessions' = Append(sessions, c)
  /\ UNCHANGED <<symbol, listening, accepted, connected, recvBuff, sendBuff,
                 mapRecv, mapSend, selector, network, user>>

(* mMapRecvBuffer[y] after the loop over mVecOri.                          *)
Collected(y) ==
  LET Upto[i \in 0 .. Len(sessions)] ==
        IF i = 0 THEN mapRecv[y]
        ELSE IF SymbolOf(sessions[i]) = y THEN Upto[i - 1] \o recvBuff[sessions[i]]
        ELSE Upto[i - 1]
  IN  Upto[Len(sessions)]

IsFirst(s) ==
  \E i \in 1 .. Len(sessions) :
    /\ sessions[i] = s
    /\ \A j \in 1 .. i - 1 : SymbolOf(sessions[j]) # SymbolOf(s)

HasSession(y) == \E s \in InVector : SymbolOf(s) = y

(* An Update that gives what was written to every session of the symbol.   *)
MutTakesWritten(s) == s \in connected

(* The first session of a symbol empties its mMapSendBuffer, which is lost *)
(* when that session is not connected.                                     *)
TakesWritten(s) == s \in connected /\ IsFirst(s)

(* Update: bytes change hands, then connect is called for every session    *)
(* whose bConnect is not set.  It is set when connect fails: the socket is *)
(* already connected, the connection is on its way or it is refused.       *)
Update ==
  /\ mapRecv' = [y \in Symbols |-> Collected(y)]
  /\ recvBuff' = [s \in Sockets |-> IF s \in InVector THEN <<>> ELSE recvBuff[s]]
  /\ sendBuff' = [s \in Sockets |->
                    IF s \in InVector /\ TakesWritten(s)
                    THEN sendBuff[s] \o mapSend[SymbolOf(s)] ELSE sendBuff[s]]
  /\ mapSend' = [y \in Symbols |-> IF HasSession(y) THEN <<>> ELSE mapSend[y]]
  /\ \E up \in SUBSET {s \in InVector \ connected : link[s] = "down"} :
       /\ link' = [s \in Sockets |-> IF s \in up THEN "up" ELSE link[s]]
       /\ connected' = InVector \ up
  /\ UNCHANGED <<symbol, listening, accepted, sessions, selector, wire, sent,
                 got, user>>

(* Read returns up to as many bytes as are asked for.                      *)
Read(y) ==
  /\ \E n \in 1 .. Len(mapRecv[y]) :
       /\ readBy' = [readBy EXCEPT ![y] = @ \o SubSeq(mapRecv[y], 1, n)]
       /\ mapRecv' = [mapRecv EXCEPT ![y] = Erase(@, n)]
  /\ UNCHANGED <<symbol, listening, accepted, sessions, connected, recvBuff, sendBuff,
                 mapSend, selector, network, written>>

Write(y) ==
  /\ Total(written) < MaxBytes
  /\ written' = [written EXCEPT ![y] = @ + 1]
  /\ mapSend' = [mapSend EXCEPT ![y] = Append(@, written'[y])]
  /\ UNCHANGED <<symbol, listening, accepted, sessions, connected, recvBuff, sendBuff,
                 mapRecv, selector, network, readBy>>

-----------------------------------------------------------------------------
(* The network                                                             *)

Arrive(g) ==
  /\ link[g] = "down"
  /\ Host[g] \in listening
  /\ link' = [link EXCEPT ![g] = "waiting"]
  /\ UNCHANGED wire

(* A guest gives up before it is accepted.                                 *)
Leave(g) ==
  /\ link[g] = "waiting"
  /\ link' = [link EXCEPT ![g] = "gone"]
  /\ wire' = [wire EXCEPT ![g] = <<>>]

(* A connection that was on its way is made.                               *)
LinkUp(c) ==
  /\ c \in connected
  /\ link[c] = "down"
  /\ link' = [link EXCEPT ![c] = "up"]
  /\ UNCHANGED wire

(* The other side sends no more; what it sent has arrived.                 *)
PeerCloses(s) ==
  /\ link[s] = "up"
  /\ link' = [link EXCEPT ![s] = "closed"]
  /\ UNCHANGED wire

PeerSends(s) ==
  /\ link[s] \in {"waiting", "up"}
  /\ Total(sent) < MaxBytes
  /\ sent' = [sent EXCEPT ![s] = @ + 1]
  /\ wire' = [wire EXCEPT ![s] = Append(@, sent'[s])]
  /\ UNCHANGED <<helper, selector, link, got, user>>

Connections ==
  /\ \/ \E g \in Guests : Arrive(g) \/ Leave(g)
     \/ \E c \in Clients : LinkUp(c)
     \/ \E s \in Sockets : PeerCloses(s)
  /\ UNCHANGED <<helper, selector, sent, got, user>>

Next ==
  \/ StartThread \/ Snapshot \/ Select \/ Serve
  \/ \E l \in Listeners : AddLitener(l)
  \/ \E c \in Clients : AddClient(c)
  \/ Update
  \/ \E y \in Symbols : Read(y) \/ Write(y)
  \/ \E s \in Sockets : PeerSends(s)
  \/ Connections

Spec == Init /\ [][Next]_vars

(* The operating system runs the select thread, and mlock is free again    *)
(* after every call of Update.                                             *)
FairSpec == Spec /\ WF_vars(Snapshot) /\ WF_vars(Select) /\ WF_vars(Serve)

-----------------------------------------------------------------------------
(* Properties                                                              *)

Stream == UNION {[1 .. n -> 1 .. MaxBytes] : n \in 0 .. MaxBytes}

TypeOK ==
  /\ symbol \in Namings
  /\ listening \subseteq Listeners /\ accepted \subseteq listening
  /\ connected \subseteq InVector /\ IsInjective(sessions)
  /\ InVector \subseteq Sockets
  /\ recvBuff \in [Sockets -> Stream] /\ sendBuff \in [Sockets -> Stream]
  /\ mapSend \in [Symbols -> Stream]
  /\ \A y \in Symbols : mapRecv[y] \in Seq(1 .. MaxBytes)
  /\ selector.at \in {"off", "top", "select", "serve"}
  /\ selector.reads \subseteq Listeners \cup Sockets
  /\ selector.writes \subseteq Sockets
  /\ link \in [Sockets -> {"down", "waiting", "up", "closed", "gone"}]
  /\ wire \in [Sockets -> Stream] /\ got \in [Sockets -> Stream]

IsOnly(s) == \A u \in InVector : SymbolOf(u) = SymbolOf(s) => u = s

(* Bytes that came over a connection reach Read in the order they were     *)
(* sent, none lost and none twice, over both buffers and both threads      *)
(* (selectUpdate, Update, Read), for a symbol of one session.              *)
ReceivedInOrder ==
  \A s \in InVector :
    LET y == SymbolOf(s)
    IN  IsOnly(s) =>
          readBy[y] \o mapRecv[y] \o recvBuff[s] \o wire[s]
            = [i \in 1 .. sent[s] |-> i]

(* Bytes given to Write are sent in that order and none twice; the only    *)
(* ones lost are those an Update dropped before the session was connected. *)
SentInOrder ==
  \A s \in InVector :
    LET y      == SymbolOf(s)
        stream == got[s] \o sendBuff[s] \o mapSend[y]
    IN  IsOnly(s) =>
          stream = [i \in 1 .. Len(stream) |-> written[y] - Len(stream) + i]

(* What the user writes for a symbol goes to one session only, also when   *)
(* several have the symbol.                                                *)
WrittenToOne ==
  \A s, u \in InVector :
    (s # u /\ SymbolOf(s) = SymbolOf(u)) =>
      Range(got[s] \o sendBuff[s]) \cap Range(got[u] \o sendBuff[u]) = {}

(* A connected session is received from in the end, unless the select in   *)
(* progress was begun before it was connected and has nothing else to      *)
(* return for.                                                             *)
UnservedOnlyByOldSelect ==
  \A s \in Sockets :
    (selector.at # "off" /\ s \in connected /\ link[s] = "up" /\ wire[s] # <<>>)
      ~> \/ wire[s] = <<>>
         \/ selector.at = "select" /\ s \notin selector.reads

=============================================================================
