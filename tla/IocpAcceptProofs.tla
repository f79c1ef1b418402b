-------------------------- MODULE IocpAcceptProofs --------------------------
(***************************************************************************)
(* The safety of IocpAccept for any number of workers, events, sessions    *)
(* and clients, and any number of ThreadManagers from two on.              *)
(***************************************************************************)
EXTENDS IocpAccept, SequenceTheorems, TLAPS

(* The ids: the counter is past those it gave out, they differ, and the    *)
(* second manager that was constructed has given the main thread a new one.*)
IsRunning(t) == worker[t] = "running"
ManagerInv ==
  /\ ManagerTypeOK
  /\ made # {} => LThreadId[Main] < SThreadID
  /\ \A m, n \in made : m # n => LThreadId[Main] # 0
  /\ \A t \in Workers :
       /\ worker[t] # "none" => MainRuns
       /\ IsRunning(t) => /\ LThreadId[t] < SThreadID
                          /\ LThreadId[t] # 0
                          /\ LThreadId[t] # LThreadId[Main]
  /\ \A t, u \in Workers :
       IsRunning(t) /\ IsRunning(u) /\ t # u => LThreadId[t] # LThreadId[u]

(* A thread inside RegisterAccept or ProcessAccept has an event nobody     *)
(* else has.                                                               *)
Busy(t) == pc[t] \in {"register", "acceptEx", "process"}
HandInv ==
  \A t \in Threads :
    /\ pc[t] # "idle" => hand[t] \in Events
    /\ Busy(t) => event[hand[t]] = "held"
    /\ \A u \in Threads \ {t} : Busy(t) /\ Busy(u) => hand[t] # hand[u]

(* The SessionRefs on its stack leave room for one more, and between       *)
(* lines 84 and 87 of Listener.cpp the last one is the event's session.    *)
FrameInv ==
  \A t \in Threads :
    /\ pc[t] = "process" => Len(frames[t]) = 1
    /\ pc[t] = "register" => Len(frames[t]) < MaxFrames
    /\ pc[t] = "acceptEx" => frames[t] # <<>> /\ Top(t) = session[hand[t]]

(* No two events have the same session.                                    *)
SessionInv ==
  \A e \in Events :
    /\ InSystem(e) => session[e] \in Sessions /\ session[e] = accepting[e]
    /\ \A f \in Events \ {e} : session[e] # None => session[e] # session[f]

ListenerInv == ListenerTypeOK /\ HandInv /\ FrameInv /\ SessionInv

IInv == ManagerInv /\ ListenerInv

-----------------------------------------------------------------------------
(* The ids                                                                 *)

LEMMA InitManager == ManagerInit => ManagerInv
  BY DEF ManagerInit, ManagerInv, ManagerTypeOK, Threads, IsRunning, MainRuns

(* No worker is there yet, and the counter is past the id Main had.        *)
LEMMA ConstructManager ==
  ASSUME ManagerInv, NEW m \in Managers, Construct(m)
  PROVE  ManagerInv'
<1>1. /\ m \notin made /\ made' = made \cup {m} /\ made \subseteq Managers
      /\ SThreadID' = SThreadID + 1 /\ SThreadID \in Nat
      /\ LThreadId' = [LThreadId EXCEPT ![Main] = SThreadID]
      /\ LThreadId \in [Threads -> Nat]
      /\ worker' = worker
  BY DEF Construct, InitTLS, ManagerInv, ManagerTypeOK
<1>2. Main \in Threads
  BY DEF Threads
<1>3. \A t \in Workers : worker[t] = "none"
  BY <1>1 DEF ManagerInv, MainRuns
<1>4. LThreadId'[Main] = SThreadID /\ LThreadId' \in [Threads -> Nat]
  BY <1>1, <1>2
<1>5. ManagerTypeOK'
  BY <1>1, <1>4 DEF ManagerInv, ManagerTypeOK
<1>6. LThreadId'[Main] < SThreadID'
  BY <1>1, <1>4
<1>7. ASSUME NEW a \in made', NEW b \in made', a # b PROVE LThreadId'[Main] # 0
  <2>1. made # {}
    BY <1>1, <1>7
  <2>2. LThreadId[Main] < SThreadID /\ LThreadId[Main] \in Nat
    BY <1>1, <1>2, <2>1 DEF ManagerInv
  <2> QED
    BY <1>1, <1>4, <2>2
<1>8. \A t \in Workers : worker'[t] = "none"
  BY <1>1, <1>3
<1> QED
  BY <1>5, <1>6, <1>7, <1>8 DEF ManagerInv, IsRunning

LEMMA LaunchManager ==
  ASSUME ManagerInv, NEW t \in Workers, Launch(t)
  PROVE  ManagerInv'
<1>1. /\ MainRuns
      /\ worker' = [worker EXCEPT ![t] = "launched"]
      /\ SThreadID' = SThreadID /\ LThreadId' = LThreadId /\ made' = made
      /\ worker \in [Workers -> {"none", "launched", "running"}]
  BY DEF Launch, ManagerInv, ManagerTypeOK
<1>2. \A u \in Workers : IsRunning(u)' => IsRunning(u)
  BY <1>1 DEF IsRunning
<1>3. MainRuns'
  BY <1>1 DEF MainRuns
<1>4. ManagerTypeOK'
  BY <1>1 DEF ManagerInv, ManagerTypeOK
<1> QED
  BY <1>1, <1>2, <1>3, <1>4 DEF ManagerInv

(* With two managers made, Main has another id than 0, and what the        *)
(* counter gives now is larger than every id so far.                       *)
LEMMA StartManager ==
  ASSUME ManagerInv, NEW t \in Workers, Start(t)
  PROVE  ManagerInv'
<1>1. /\ worker[t] = "launched"
      /\ worker' = [worker EXCEPT ![t] = "running"]
      /\ LThreadId' = [LThreadId EXCEPT ![t] = SThreadID]
      /\ SThreadID' = SThreadID + 1 /\ SThreadID \in Nat
      /\ made' = made
      /\ worker \in [Workers -> {"none", "launched", "running"}]
      /\ LThreadId \in [Threads -> Nat]
  BY DEF Start, InitTLS, ManagerInv, ManagerTypeOK
<1>2. MainRuns
  BY <1>1 DEF ManagerInv
<1>3. t \in Threads /\ Main \in Threads /\ t # Main
  BY ThreadManagerAssumption DEF Threads
<1>4. /\ LThreadId'[t] = SThreadID
      /\ \A u \in Threads : u # t => LThreadId'[u] = LThreadId[u]
  BY <1>1, <1>3
<1>5. LThreadId[Main] \in Nat /\ LThreadId[Main] < SThreadID /\ SThreadID # 0
  BY <1>1, <1>2, <1>3, ThreadManagerAssumption DEF ManagerInv, MainRuns
<1>6. ManagerTypeOK'
  <2>1. LThreadId' \in [Threads -> Nat]
    BY <1>1
  <2>2. worker' \in [Workers -> {"none", "launched", "running"}]
    BY <1>1
  <2> QED
    BY <1>1, <2>1, <2>2 DEF ManagerInv, ManagerTypeOK
<1>7. ASSUME NEW u \in Workers, IsRunning(u)'
      PROVE  /\ LThreadId'[u] < SThreadID'
             /\ LThreadId'[u] # 0
             /\ LThreadId'[u] # LThreadId'[Main]
  <2>1. CASE u = t
    BY <1>1, <1>3, <1>4, <1>5, <2>1
  <2>2. CASE u # t
    <3>1. u \in Threads /\ IsRunning(u)
      BY <1>1, <1>7, <2>2 DEF Threads, IsRunning
    <3>2. LThreadId[u] \in Nat
      BY <1>1, <3>1
    <3> QED
      BY <1>1, <1>3, <1>4, <2>2, <3>1, <3>2 DEF ManagerInv
  <2> QED
    BY <2>1, <2>2
<1>8. ASSUME NEW u \in Workers, NEW v \in Workers,
             IsRunning(u)', IsRunning(v)', u # v
      PROVE  LThreadId'[u] # LThreadId'[v]
  <2>1. u \in Threads /\ v \in Threads
    BY DEF Threads
  <2>2. LThreadId[u] \in Nat /\ LThreadId[v] \in Nat
    BY <1>1, <2>1
  <2>3. \A w \in Workers : IsRunning(w)' /\ w # t => IsRunning(w)
    BY <1>1 DEF IsRunning
  <2>4. \A w \in Workers : IsRunning(w) => LThreadId[w] < SThreadID
    BY DEF ManagerInv
  <2>5. IsRunning(u) /\ IsRunning(v) => LThreadId[u] # LThreadId[v]
    BY <1>8 DEF ManagerInv
  <2> QED
    BY <1>1, <1>4, <1>8, <2>1, <2>2, <2>3, <2>4, <2>5
<1>9. MainRuns' /\ made = made'
  BY <1>1, <1>2 DEF MainRuns
<1>10. LThreadId'[Main] = LThreadId[Main] /\ LThreadId'[Main] < SThreadID'
  BY <1>1, <1>3, <1>4, <1>5
<1>11. \A m, n \in made' : m # n => LThreadId'[Main] # 0
  BY <1>9, <1>10 DEF ManagerInv
<1> QED
  BY <1>6, <1>7, <1>8, <1>9, <1>10, <1>11 DEF ManagerInv

-----------------------------------------------------------------------------
(* The events and their sessions                                           *)

LEMMA MainIsAThread == Main \in Threads /\ Workers \subseteq Threads
  BY DEF Threads

LEMMA InitListener == Init => ListenerInv
<1> SUFFICES ASSUME Init PROVE ListenerInv
  OBVIOUS
<1>1. <<>> \in Seq(Sessions) /\ Len(<<>>) = 0 /\ 0 <= MaxFrames
  BY IocpAcceptAssumption
<1>2. ListenerTypeOK
  <2>1. frames \in [Threads -> Seq(Sessions)]
    BY <1>1 DEF Init
  <2>2. \A t \in Threads : Len(frames[t]) <= MaxFrames
    BY <1>1 DEF Init
  <2> QED
    BY <2>1, <2>2 DEF Init, ListenerTypeOK
<1>3. HandInv /\ FrameInv /\ SessionInv
  BY DEF Init, HandInv, FrameInv, SessionInv, Busy, InSystem
<1> QED
  BY <1>2, <1>3 DEF ListenerInv

(* ~Session leaves every variable its type.                                *)
LEMMA DestroyTypes ==
  ASSUME ListenerTypeOK, Destroy
  PROVE  /\ address' \in [Sessions -> Clients \cup {None}]
         /\ peer' \in [Sessions -> Clients \cup {None}]
         /\ client' \in [Clients -> {"away", "waiting", "accepted", "closed", "gone"}]
  BY DEF ListenerTypeOK, Destroy

(* When only main and the clients' side change.                            *)
LEMMA SameListener ==
  ASSUME ListenerInv,
         main' \in {"starting", "failed", "launched"},
         UNCHANGED <<owner, session, frames, hand, pc, address, event, accepting,
                     peer, client>>,
         crash' \in {"none", "NO_OWNER"}
  PROVE  ListenerInv'
<1>1. ListenerTypeOK'
  BY DEF ListenerInv, ListenerTypeOK
<1>2. HandInv' /\ FrameInv' /\ SessionInv'
  BY DEF ListenerInv, HandInv, FrameInv, SessionInv, Busy, Top, InSystem
<1> QED
  BY <1>1, <1>2 DEF ListenerInv

LEMMA StartAcceptListener ==
  ASSUME ListenerInv, NEW e \in Events, StartAccept(e)
  PROVE  ListenerInv'
<1>1. /\ pc[Main] = "idle" /\ event[e] = "none"
      /\ event' = [event EXCEPT ![e] = "held"]
      /\ hand' = [hand EXCEPT ![Main] = e]
      /\ pc' = [pc EXCEPT ![Main] = "register"]
      /\ main' = main /\ owner' = owner /\ session' = session /\ frames' = frames
      /\ address' = address /\ accepting' = accepting /\ peer' = peer
      /\ client' = client /\ crash' = crash
  BY DEF StartAccept
<1>2. /\ event \in [Events -> {"none", "held", "posted", "completed", "failed", "dropped"}]
      /\ hand \in [Threads -> Events \cup {None}]
      /\ pc \in [Threads -> {"idle", "register", "acceptEx", "return", "process"}]
      /\ frames[Main] = <<>>
  BY <1>1, MainIsAThread DEF ListenerInv, ListenerTypeOK
<1>3. /\ event'[e] = "held" /\ \A f \in Events : f # e => event'[f] = event[f]
      /\ hand'[Main] = e /\ \A u \in Threads : u # Main => hand'[u] = hand[u]
      /\ pc'[Main] = "register" /\ \A u \in Threads : u # Main => pc'[u] = pc[u]
  BY <1>1, <1>2, MainIsAThread
<1>4. \A u \in Threads : Busy(u) => hand[u] # e
  BY <1>1 DEF ListenerInv, HandInv
<1>5. ListenerTypeOK'
  <2>1. /\ event' \in [Events -> {"none", "held", "posted", "completed", "failed", "dropped"}]
        /\ hand' \in [Threads -> Events \cup {None}]
        /\ pc' \in [Threads -> {"idle", "register", "acceptEx", "return", "process"}]
    BY <1>1, <1>2
  <2>2. \A u \in Threads :
          /\ Len(frames'[u]) <= MaxFrames
          /\ pc'[u] = "idle" => frames'[u] = <<>> /\ hand'[u] = None
    BY <1>1, <1>3 DEF ListenerInv, ListenerTypeOK
  <2> QED
    BY <1>1, <2>1, <2>2 DEF ListenerInv, ListenerTypeOK
<1>6. HandInv'
  BY <1>1, <1>3, <1>4 DEF ListenerInv, HandInv, Busy
<1>7. FrameInv'
  <2>1. Len(frames[Main]) < MaxFrames
    BY <1>2, IocpAcceptAssumption
  <2> QED
    BY <1>1, <1>3, <2>1 DEF ListenerInv, FrameInv, Top
<1>8. SessionInv'
  BY <1>1, <1>3 DEF ListenerInv, SessionInv, InSystem
<1> QED
  BY <1>5, <1>6, <1>7, <1>8 DEF ListenerInv

(* The new session is no event's and on no stack.                          *)
LEMMA RegisterAcceptListener ==
  ASSUME ListenerInv, NEW t \in Threads, RegisterAccept(t)
  PROVE  ListenerInv'
<1> DEFINE new == CHOOSE s \in Sessions : ~Alive(s)
<1>1. /\ pc[t] = "register"
      /\ session' = [session EXCEPT ![hand[t]] = new]
      /\ frames' = [frames EXCEPT ![t] = Append(@, new)]
      /\ pc' = [pc EXCEPT ![t] = "acceptEx"]
      /\ main' = main /\ owner' = owner /\ hand' = hand /\ event' = event
      /\ accepting' = accepting /\ crash' = crash
  BY DEF RegisterAccept, SetSession
<1>2. new \in Sessions /\ ~Alive(new)
  <2>1. \E s \in Sessions : ~Alive(s)
    BY DEF RegisterAccept
  <2> QED
    BY <2>1, Zenon
<1> HIDE DEF new
<1>3. /\ session \in [Events -> Sessions \cup {None}]
      /\ frames \in [Threads -> Seq(Sessions)]
      /\ pc \in [Threads -> {"idle", "register", "acceptEx", "return", "process"}]
      /\ hand[t] \in Events /\ event[hand[t]] = "held"
      /\ Len(frames[t]) < MaxFrames
  BY <1>1 DEF ListenerInv, ListenerTypeOK, HandInv, FrameInv, Busy
<1>4. /\ session'[hand[t]] = new
      /\ \A e \in Events : e # hand[t] => session'[e] = session[e]
      /\ frames'[t] = Append(frames[t], new)
      /\ \A u \in Threads : u # t => frames'[u] = frames[u]
      /\ pc'[t] = "acceptEx" /\ \A u \in Threads : u # t => pc'[u] = pc[u]
  BY <1>1, <1>3
<1>5. /\ frames'[t] \in Seq(Sessions) /\ Len(frames'[t]) = Len(frames[t]) + 1
      /\ Len(frames[t]) \in Nat
      /\ frames'[t][Len(frames'[t])] = new
  BY <1>2, <1>3, <1>4, AppendProperties
<1>6. ListenerTypeOK'
  <2>1. /\ session' \in [Events -> Sessions \cup {None}]
        /\ frames' \in [Threads -> Seq(Sessions)]
        /\ pc' \in [Threads -> {"idle", "register", "acceptEx", "return", "process"}]
    BY <1>1, <1>2, <1>3, <1>5
  <2>2. \A u \in Threads :
          /\ Len(frames'[u]) <= MaxFrames
          /\ pc'[u] = "idle" => frames'[u] = <<>> /\ hand'[u] = None
    BY <1>1, <1>3, <1>4, <1>5, IocpAcceptAssumption DEF ListenerInv, ListenerTypeOK
  <2>3. /\ address' \in [Sessions -> Clients \cup {None}]
        /\ peer' \in [Sessions -> Clients \cup {None}]
        /\ client' \in [Clients -> {"away", "waiting", "accepted", "closed", "gone"}]
    BY DestroyTypes DEF RegisterAccept, ListenerInv
  <2>4. /\ main' \in {"starting", "failed", "launched"} /\ owner' \in {None, "listener"}
        /\ event' \in [Events -> {"none", "held", "posted", "completed", "failed", "dropped"}]
        /\ accepting' \in [Events -> Sessions \cup {None}]
        /\ hand' \in [Threads -> Events \cup {None}] /\ crash' \in {"none", "NO_OWNER"}
    BY <1>1 DEF ListenerInv, ListenerTypeOK
  <2> QED
    BY <2>1, <2>2, <2>3, <2>4 DEF ListenerTypeOK
<1>7. HandInv'
  BY <1>1, <1>3, <1>4 DEF ListenerInv, HandInv, Busy
<1>8. FrameInv'
  <2>1. frames'[t] # <<>> /\ Top(t)' = session'[hand'[t]]
    BY <1>1, <1>4, <1>5 DEF Top
  <2>2. ASSUME NEW u \in Threads, u # t, pc'[u] = "acceptEx"
        PROVE  frames'[u] # <<>> /\ Top(u)' = session'[hand'[u]]
    <3>1. hand[u] # hand[t] /\ hand[u] \in Events
      BY <1>1, <1>4, <2>2 DEF ListenerInv, HandInv, Busy
    <3> QED
      BY <1>1, <1>4, <2>2, <3>1 DEF ListenerInv, FrameInv, Top
  <2> QED
    BY <1>4, <2>1, <2>2 DEF ListenerInv, FrameInv
<1>9. SessionInv'
  <2>1. \A e \in Events : session[e] # new
    BY <1>2 DEF Alive
  <2> QED
    BY <1>1, <1>3, <1>4, <2>1 DEF ListenerInv, SessionInv, InSystem
<1> QED
  BY <1>6, <1>7, <1>8, <1>9 DEF ListenerInv

LEMMA AcceptExListener ==
  ASSUME ListenerInv, NEW t \in Threads, AcceptEx(t)
  PROVE  ListenerInv'
<1>1. /\ pc[t] = "acceptEx"
      /\ event' = [event EXCEPT ![hand[t]] = "posted"]
      /\ accepting' = [accepting EXCEPT ![hand[t]] = Top(t)]
      /\ pc' = [pc EXCEPT ![t] = "return"]
      /\ main' = main /\ owner' = owner /\ hand' = hand /\ session' = session
      /\ frames' = frames /\ address' = address /\ peer' = peer
      /\ client' = client /\ crash' = crash
  BY DEF AcceptEx, AfterPending
<1>2. /\ event \in [Events -> {"none", "held", "posted", "completed", "failed", "dropped"}]
      /\ accepting \in [Events -> Sessions \cup {None}]
      /\ pc \in [Threads -> {"idle", "register", "acceptEx", "return", "process"}]
      /\ frames[t] \in Seq(Sessions)
      /\ hand[t] \in Events
      /\ frames[t] # <<>> /\ Top(t) = session[hand[t]]
  BY <1>1 DEF ListenerInv, ListenerTypeOK, HandInv, FrameInv, Busy
<1>3. Top(t) \in Sessions
  <2>1. Len(frames[t]) \in 1 .. Len(frames[t])
    BY <1>2, EmptySeq
  <2> QED
    BY <1>2, <2>1, ElementOfSeq DEF Top
<1>4. /\ event'[hand[t]] = "posted"
      /\ \A e \in Events : e # hand[t] => event'[e] = event[e]
      /\ accepting'[hand[t]] = session[hand[t]]
      /\ \A e \in Events : e # hand[t] => accepting'[e] = accepting[e]
      /\ pc'[t] = "return" /\ \A u \in Threads : u # t => pc'[u] = pc[u]
  BY <1>1, <1>2
<1>5. ListenerTypeOK'
  <2>1. /\ event' \in [Events -> {"none", "held", "posted", "completed", "failed", "dropped"}]
        /\ accepting' \in [Events -> Sessions \cup {None}]
        /\ pc' \in [Threads -> {"idle", "register", "acceptEx", "return", "process"}]
    BY <1>1, <1>2, <1>3
  <2>2. \A u \in Threads : pc'[u] = "idle" => pc[u] = "idle"
    BY <1>4
  <2> QED
    BY <1>1, <2>1, <2>2 DEF ListenerInv, ListenerTypeOK
<1>6. HandInv'
  <2>1. \A u \in Threads : Busy(u)' => u # t /\ Busy(u)
    BY <1>4 DEF Busy
  <2>2. \A u \in Threads \ {t} : Busy(u) => hand[u] \in Events /\ hand[u] # hand[t]
    BY <1>1 DEF ListenerInv, HandInv, Busy
  <2> QED
    BY <1>1, <1>2, <1>4, <2>1, <2>2 DEF ListenerInv, HandInv
<1>7. FrameInv'
  BY <1>1, <1>4 DEF ListenerInv, FrameInv, Top
<1>8. SessionInv'
  BY <1>1, <1>2, <1>3, <1>4 DEF ListenerInv, SessionInv, InSystem
<1> QED
  BY <1>5, <1>6, <1>7, <1>8 DEF ListenerInv

(* One more SessionRef fits on the stack: the bound of this action.        *)
LEMMA AcceptExFailsListener ==
  ASSUME ListenerInv, NEW t \in Threads, AcceptExFails(t)
  PROVE  ListenerInv'
<1>1. /\ pc[t] = "acceptEx" /\ Len(frames[t]) < MaxFrames
      /\ pc' = [pc EXCEPT ![t] = "register"]
      /\ main' = main /\ owner' = owner /\ session' = session /\ frames' = frames
      /\ hand' = hand /\ address' = address /\ event' = event
      /\ accepting' = accepting /\ peer' = peer /\ client' = client /\ crash' = crash
  BY DEF AcceptExFails, system
<1>2. /\ pc'[t] = "register" /\ \A u \in Threads : u # t => pc'[u] = pc[u]
      /\ pc' \in [Threads -> {"idle", "register", "acceptEx", "return", "process"}]
  BY <1>1 DEF ListenerInv, ListenerTypeOK
<1>3. ListenerTypeOK'
  BY <1>1, <1>2 DEF ListenerInv, ListenerTypeOK
<1>4. HandInv'
  BY <1>1, <1>2 DEF ListenerInv, HandInv, Busy
<1>5. FrameInv'
  BY <1>1, <1>2 DEF ListenerInv, FrameInv, Top
<1>6. SessionInv'
  BY <1>1 DEF ListenerInv, SessionInv, InSystem
<1> QED
  BY <1>3, <1>4, <1>5, <1>6 DEF ListenerInv

LEMMA ReturnListener ==
  ASSUME ListenerInv, NEW t \in Threads, Return(t)
  PROVE  ListenerInv'
<1>1. /\ pc[t] = "return"
      /\ frames' = [frames EXCEPT ![t] = <<>>]
      /\ hand' = [hand EXCEPT ![t] = None]
      /\ pc' = [pc EXCEPT ![t] = "idle"]
      /\ session' = session /\ main' = main /\ owner' = owner /\ event' = event
      /\ accepting' = accepting /\ crash' = crash
  BY DEF Return, Unwound
<1>2. /\ pc'[t] = "idle" /\ \A u \in Threads : u # t => pc'[u] = pc[u]
      /\ hand'[t] = None /\ \A u \in Threads : u # t => hand'[u] = hand[u]
      /\ frames'[t] = <<>> /\ \A u \in Threads : u # t => frames'[u] = frames[u]
      /\ pc' \in [Threads -> {"idle", "register", "acceptEx", "return", "process"}]
      /\ hand' \in [Threads -> Events \cup {None}]
  BY <1>1 DEF ListenerInv, ListenerTypeOK
<1>3. ListenerTypeOK'
  <2>1. frames' \in [Threads -> Seq(Sessions)]
    BY <1>1 DEF ListenerInv, ListenerTypeOK
  <2>2. \A u \in Threads :
          /\ Len(frames'[u]) <= MaxFrames
          /\ pc'[u] = "idle" => frames'[u] = <<>> /\ hand'[u] = None
    <3>1. Len(<<>>) = 0 /\ 0 <= MaxFrames
      BY IocpAcceptAssumption
    <3> QED
      BY <1>2, <3>1 DEF ListenerInv, ListenerTypeOK
  <2>3. /\ address' \in [Sessions -> Clients \cup {None}]
        /\ peer' \in [Sessions -> Clients \cup {None}]
        /\ client' \in [Clients -> {"away", "waiting", "accepted", "closed", "gone"}]
    BY DestroyTypes DEF Return, ListenerInv
  <2>4. /\ main' \in {"starting", "failed", "launched"} /\ owner' \in {None, "listener"}
        /\ event' \in [Events -> {"none", "held", "posted", "completed", "failed", "dropped"}]
        /\ session' \in [Events -> Sessions \cup {None}]
        /\ accepting' \in [Events -> Sessions \cup {None}] /\ crash' \in {"none", "NO_OWNER"}
    BY <1>1 DEF ListenerInv, ListenerTypeOK
  <2> QED
    BY <1>2, <2>1, <2>2, <2>3, <2>4 DEF ListenerTypeOK
<1>4. HandInv'
  BY <1>1, <1>2 DEF ListenerInv, HandInv, Busy
<1>5. FrameInv'
  BY <1>1, <1>2 DEF ListenerInv, FrameInv, Top
<1>6. SessionInv'
  BY <1>1 DEF ListenerInv, SessionInv, InSystem
<1> QED
  BY <1>3, <1>4, <1>5, <1>6 DEF ListenerInv

(* A completed event is in nobody's hand, and it has a session.            *)
LEMMA DispatchListener ==
  ASSUME ListenerInv, NEW t \in Threads, NEW e \in Events, Dispatch(t, e)
  PROVE  ListenerInv'
<1>1. CASE owner = None
  <2>1. UNCHANGED <<listener, system>> /\ crash' = "NO_OWNER"
    BY <1>1 DEF Dispatch
  <2> QED
    BY <2>1, SameListener DEF listener, system, ListenerInv, ListenerTypeOK
<1>2. CASE owner # None
  <2>1. /\ pc[t] = "idle" /\ event[e] = "completed"
        /\ event' = [event EXCEPT ![e] = "held"]
        /\ hand' = [hand EXCEPT ![t] = e]
        /\ frames' = [frames EXCEPT ![t] = <<session[e]>>]
        /\ pc' = [pc EXCEPT ![t] = "process"]
        /\ main' = main /\ owner' = owner /\ session' = session
        /\ address' = address /\ accepting' = accepting /\ peer' = peer
        /\ client' = client /\ crash' = crash
    BY <1>2 DEF Dispatch, IsFree
  <2>2. session[e] \in Sessions
    BY <2>1 DEF ListenerInv, SessionInv, InSystem
  <2>3. /\ event'[e] = "held" /\ \A f \in Events : f # e => event'[f] = event[f]
        /\ hand'[t] = e /\ \A u \in Threads : u # t => hand'[u] = hand[u]
        /\ frames'[t] = <<session[e]>>
        /\ \A u \in Threads : u # t => frames'[u] = frames[u]
        /\ pc'[t] = "process" /\ \A u \in Threads : u # t => pc'[u] = pc[u]
    BY <2>1 DEF ListenerInv, ListenerTypeOK
  <2>4. \A u \in Threads : Busy(u) => hand[u] # e
    BY <2>1 DEF ListenerInv, HandInv
  <2>5. ListenerTypeOK'
    <3>1. /\ event' \in [Events -> {"none", "held", "posted", "completed", "failed", "dropped"}]
          /\ hand' \in [Threads -> Events \cup {None}]
          /\ pc' \in [Threads -> {"idle", "register", "acceptEx", "return", "process"}]
      BY <2>1 DEF ListenerInv, ListenerTypeOK
    <3>2. frames' \in [Threads -> Seq(Sessions)]
      BY <2>1, <2>2 DEF ListenerInv, ListenerTypeOK
    <3>3. \A u \in Threads :
            /\ Len(frames'[u]) <= MaxFrames
            /\ pc'[u] = "idle" => frames'[u] = <<>> /\ hand'[u] = None
      BY <2>1, <2>3, IocpAcceptAssumption DEF ListenerInv, ListenerTypeOK
    <3>4. /\ main' \in {"starting", "failed", "launched"} /\ owner' \in {None, "listener"}
          /\ session' \in [Events -> Sessions \cup {None}]
          /\ accepting' \in [Events -> Sessions \cup {None}]
          /\ address' \in [Sessions -> Clients \cup {None}]
          /\ peer' \in [Sessions -> Clients \cup {None}]
          /\ client' \in [Clients -> {"away", "waiting", "accepted", "closed", "gone"}]
          /\ crash' \in {"none", "NO_OWNER"}
      BY <2>1 DEF ListenerInv, ListenerTypeOK
    <3> QED
      BY <3>1, <3>2, <3>3, <3>4 DEF ListenerTypeOK
  <2>6. HandInv'
    BY <2>1, <2>3, <2>4 DEF ListenerInv, HandInv, Busy
  <2>7. FrameInv'
    BY <2>1, <2>3 DEF ListenerInv, FrameInv, Top
  <2>8. SessionInv'
    BY <2>1, <2>3 DEF ListenerInv, SessionInv, InSystem
  <2> QED
    BY <2>5, <2>6, <2>7, <2>8 DEF ListenerInv
<1> QED
  BY <1>1, <1>2

(* When one event, in nobody's hand, changes its state and becomes neither *)
(* held nor part of the system but by a completion of what was posted.     *)
LEMMA EventListener ==
  ASSUME ListenerInv, NEW e \in Events, NEW now \in {"completed", "failed", "dropped"},
         event[e] # "held", now = "completed" => event[e] = "posted",
         event' = [event EXCEPT ![e] = now],
         UNCHANGED <<main, owner, session, frames, hand, pc, address, accepting, crash>>,
         peer' \in [Sessions -> Clients \cup {None}],
         client' \in [Clients -> {"away", "waiting", "accepted", "closed", "gone"}]
  PROVE  ListenerInv'
<1>1. /\ event'[e] = now /\ \A f \in Events : f # e => event'[f] = event[f]
      /\ event' \in [Events -> {"none", "held", "posted", "completed", "failed", "dropped"}]
  BY DEF ListenerInv, ListenerTypeOK
<1>2. ListenerTypeOK'
  BY <1>1 DEF ListenerInv, ListenerTypeOK
<1>3. HandInv'
  <2>1. \A u \in Threads : Busy(u) => hand[u] \in Events /\ hand[u] # e
    BY DEF ListenerInv, HandInv, Busy
  <2> QED
    BY <1>1, <2>1 DEF ListenerInv, HandInv, Busy
<1>4. FrameInv'
  BY DEF ListenerInv, FrameInv, Top
<1>5. SessionInv'
  BY <1>1 DEF ListenerInv, SessionInv, InSystem
<1> QED
  BY <1>2, <1>3, <1>4, <1>5 DEF ListenerInv

LEMMA DispatchFailedListener ==
  ASSUME ListenerInv, NEW t \in Threads, NEW e \in Events, DispatchFailed(t, e)
  PROVE  ListenerInv'
<1>1. /\ event[e] # "held" /\ event' = [event EXCEPT ![e] = "dropped"]
      /\ UNCHANGED <<main, owner, session, frames, hand, pc, address, accepting, crash>>
      /\ peer' = peer /\ client' = client
  BY DEF DispatchFailed, listener
<1>2. /\ peer' \in [Sessions -> Clients \cup {None}]
      /\ client' \in [Clients -> {"away", "waiting", "accepted", "closed", "gone"}]
  BY <1>1 DEF ListenerInv, ListenerTypeOK
<1> QED
  BY <1>1, <1>2, EventListener

(* Either way RegisterAccept is next, under the one frame of ProcessAccept.*)
LEMMA ProcessListener ==
  ASSUME ListenerInv, NEW t \in Threads, ProcessAccept(t) \/ ProcessAcceptFails(t)
  PROVE  ListenerInv'
<1>1. /\ pc[t] = "process"
      /\ pc' = [pc EXCEPT ![t] = "register"]
      /\ main' = main /\ owner' = owner /\ session' = session /\ frames' = frames
      /\ hand' = hand /\ event' = event /\ accepting' = accepting /\ peer' = peer
      /\ client' = client /\ crash' = crash
  BY DEF ProcessAccept, ProcessAcceptFails, AfterError, system
<1>2. address' \in [Sessions -> Clients \cup {None}]
  <2>1. /\ frames[t] \in Seq(Sessions) /\ Len(frames[t]) = 1
        /\ address \in [Sessions -> Clients \cup {None}]
        /\ peer \in [Sessions -> Clients \cup {None}]
    BY <1>1 DEF ListenerInv, ListenerTypeOK, FrameInv
  <2>2. Top(t) \in Sessions
    BY <2>1, ElementOfSeq DEF Top
  <2>3. CASE ProcessAccept(t)
    BY <2>1, <2>2, <2>3 DEF ProcessAccept
  <2>4. CASE ProcessAcceptFails(t)
    BY <2>1, <2>4 DEF ProcessAcceptFails
  <2> QED
    BY <2>3, <2>4
<1>3. /\ pc'[t] = "register" /\ \A u \in Threads : u # t => pc'[u] = pc[u]
      /\ pc' \in [Threads -> {"idle", "register", "acceptEx", "return", "process"}]
  BY <1>1 DEF ListenerInv, ListenerTypeOK
<1>4. ListenerTypeOK'
  BY <1>1, <1>2, <1>3 DEF ListenerInv, ListenerTypeOK
<1>5. HandInv'
  BY <1>1, <1>3 DEF ListenerInv, HandInv, Busy
<1>6. FrameInv'
  <2>1. Len(frames[t]) < MaxFrames
    <3>1. Len(frames[t]) = 1
      BY <1>1 DEF ListenerInv, FrameInv
    <3> QED
      BY <3>1, IocpAcceptAssumption
  <2> QED
    BY <1>1, <1>3, <2>1 DEF ListenerInv, FrameInv, Top
<1>7. SessionInv'
  BY <1>1 DEF ListenerInv, SessionInv, InSystem
<1> QED
  BY <1>4, <1>5, <1>6, <1>7 DEF ListenerInv

LEMMA SystemListener ==
  ASSUME ListenerInv, System
  PROVE  ListenerInv'
<1>1. /\ UNCHANGED <<main, owner, session, frames, hand, pc, address, accepting, crash>>
      /\ peer \in [Sessions -> Clients \cup {None}]
      /\ client \in [Clients -> {"away", "waiting", "accepted", "closed", "gone"}]
      /\ crash \in {"none", "NO_OWNER"}
  BY DEF System, listener, ListenerInv, ListenerTypeOK
<1>2. ASSUME NEW c \in Clients, Connect(c) PROVE ListenerInv'
  <2>1. client' \in [Clients -> {"away", "waiting", "accepted", "closed", "gone"}]
    BY <1>1, <1>2 DEF Connect
  <2>2. event' = event /\ peer' = peer
    BY <1>2 DEF Connect
  <2>3. ListenerTypeOK'
    BY <1>1, <2>1, <2>2 DEF ListenerInv, ListenerTypeOK
  <2> QED
    BY <1>1, <2>2, <2>3
    DEF ListenerInv, HandInv, FrameInv, SessionInv, Busy, Top, InSystem
<1>3. ASSUME NEW c \in Clients, NEW e \in Events, Complete(e, c) PROVE ListenerInv'
  <2>1. /\ client' \in [Clients -> {"away", "waiting", "accepted", "closed", "gone"}]
        /\ peer' \in [Sessions -> Clients \cup {None}]
    BY <1>1, <1>3 DEF Complete
  <2>2. event[e] = "posted" /\ event' = [event EXCEPT ![e] = "completed"]
    BY <1>3 DEF Complete
  <2> QED
    BY <1>1, <2>1, <2>2, EventListener
<1>4. ASSUME NEW c \in Clients, NEW e \in Events, Fail(e, c) PROVE ListenerInv'
  <2>1. /\ client' \in [Clients -> {"away", "waiting", "accepted", "closed", "gone"}]
        /\ peer' \in [Sessions -> Clients \cup {None}]
    BY <1>1, <1>4 DEF Fail
  <2>2. event[e] = "posted" /\ event' = [event EXCEPT ![e] = "failed"]
    BY <1>4 DEF Fail
  <2> QED
    BY <1>1, <2>1, <2>2, EventListener
<1> QED
  BY <1>2, <1>3, <1>4 DEF System

-----------------------------------------------------------------------------
(* The whole program                                                       *)

LEMMA NextIInv == IInv /\ [Next]_vars => IInv'
<1> SUFFICES ASSUME IInv, [Next]_vars PROVE IInv'
  OBVIOUS
<1>1. UNCHANGED managerVars => ManagerInv'
  BY DEF managerVars, IInv, ManagerInv, ManagerTypeOK, MainRuns, IsRunning
<1>2. UNCHANGED <<listener, system, crash>> => ListenerInv'
  BY SameListener DEF listener, system, IInv, ListenerInv, ListenerTypeOK
<1>3. CASE Manage
  <2>1. ManagerInv'
    BY <1>3, ConstructManager, LaunchManager, StartManager DEF Manage, IInv
  <2>2. UNCHANGED <<listener, system, crash>>
    BY <1>3 DEF Manage
  <2> QED
    BY <1>2, <2>1, <2>2 DEF IInv
<1>4. ASSUME StartAcceptFails \/ StartAcceptReturns PROVE ListenerInv'
  <2>1. /\ main' \in {"starting", "failed", "launched"} /\ crash' \in {"none", "NO_OWNER"}
        /\ UNCHANGED <<owner, session, frames, hand, pc, address, event, accepting,
                       peer, client>>
    BY <1>4 DEF StartAcceptFails, StartAcceptReturns, system, IInv, ListenerInv,
                ListenerTypeOK
  <2> QED
    BY <2>1, SameListener DEF IInv
<1>5. ASSUME NEW e \in Events, StartAccept(e) PROVE ListenerInv'
  BY <1>5, StartAcceptListener DEF IInv
<1>6. ASSUME NEW t \in Threads, Handle(t) PROVE ListenerInv'
  BY <1>6, RegisterAcceptListener, AcceptExListener, AcceptExFailsListener,
     ReturnListener, DispatchListener, DispatchFailedListener, ProcessListener
  DEF Handle, IInv
<1>7. ASSUME System PROVE ListenerInv'
  BY <1>7, SystemListener DEF IInv
<1>8. CASE UNCHANGED vars
  BY <1>1, <1>2, <1>8 DEF vars, IInv
<1> QED
  BY <1>1, <1>3, <1>4, <1>5, <1>6, <1>7, <1>8 DEF Next, IInv

(* The inductive invariant of the program: ids, events and sessions.       *)
THEOREM Invariance == Spec => []IInv
<1>1. Init => IInv
  BY InitManager, InitListener DEF Init, IInv
<1> QED
  BY <1>1, NextIInv, PTL DEF Spec

(* Every variable keeps its type; no stack has more SessionRefs than the   *)
(* bound.                                                                  *)
THEOREM TypeCorrect == Spec => []TypeOK
<1>1. IInv => TypeOK
  BY DEF IInv, ManagerInv, ListenerInv, TypeOK
<1> QED
  BY <1>1, Invariance, PTL

(* From main() on, the threads that may lock have ids that differ from     *)
(* each other and from 0.                                                  *)
THEOREM IdsFitTheLockHolds == Spec => []IdsFitTheLock
<1>1. IInv => IdsFitTheLock
  <2> SUFFICES ASSUME IInv, MainRuns, NEW t \in MayLock
               PROVE  /\ LThreadId[t] # 0
                      /\ \A u \in MayLock \ {t} : LThreadId[u] # LThreadId[t]
    BY DEF IdsFitTheLock
  <2>1. LThreadId[Main] # 0
    BY ThreadManagerAssumption DEF IInv, ManagerInv, MainRuns
  <2>2. \A u \in MayLock : u # Main => u \in Workers /\ IsRunning(u)
    BY DEF MayLock, IsRunning
  <2> QED
    BY <2>1, <2>2 DEF IInv, ManagerInv
<1> QED
  BY <1>1, Invariance, PTL

(* While the system accepts for an event, its session is alive and no      *)
(* other event's.                                                          *)
THEOREM BufferOutlivesAcceptHolds == Spec => []BufferOutlivesAccept
<1>1. IInv => BufferOutlivesAccept
  <2>1. IInv => \A e \in Events : InSystem(e) => session[e] # None
    BY IocpAcceptAssumption DEF IInv, ListenerInv, SessionInv
  <2> QED
    BY <2>1 DEF IInv, ListenerInv, SessionInv, BufferOutlivesAccept
<1> QED
  BY <1>1, Invariance, PTL

(* An event has one user, the system or one thread.                        *)
THEOREM HandledByOneHolds == Spec => []HandledByOne
<1>1. IInv => HandledByOne
  <2> SUFFICES ASSUME IInv, NEW e \in Events, NEW t \in Threads, Uses(t, e)
               PROVE  /\ event[e] = "held"
                      /\ \A u \in Threads : Uses(u, e) => u = t
    BY DEF HandledByOne
  <2>1. \A u \in Threads : Uses(u, e) => hand[u] = e /\ Busy(u)
    BY IocpAcceptAssumption
    DEF IInv, ListenerInv, ListenerTypeOK, Uses, Busy
  <2> QED
    BY <2>1 DEF IInv, ListenerInv, HandInv
<1> QED
  BY <1>1, Invariance, PTL

=============================================================================
