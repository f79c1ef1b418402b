----------------------------- MODULE IocpAccept -----------------------------
(***************************************************************************)
(* GameServer/main.cpp: the threads of ThreadManager and the Listener they *)
(* serve, which posts its events with AcceptEx.  The workers that call     *)
(* IocpCore::Dispatch take the completions, and each event is posted again *)
(* with a new Session.                                                     *)
(* Sessions are counted references: one lives as long as an event or a     *)
(* thread's stack has it, and its destructor closes the socket.            *)
(***************************************************************************)
EXTENDS ThreadManager, Sequences

CONSTANTS
  Events,      (* the AcceptEvents: acceptCount of them                    *)
  Sessions,    (* the places a Session can be in                           *)
  Clients,     (* the programs that connect                                *)
  None,        (* nullptr, or nobody                                       *)
  MaxFrames    (* bound: SessionRefs on one stack, one per failed AcceptEx *)

ASSUME IocpAcceptAssumption ==
  /\ None \notin Events \cup Sessions \cup Clients
  /\ MaxFrames \in Nat \ {0, 1}   (* ProcessAccept's and RegisterAccept's *)

VARIABLES
  main,        (* "starting" in StartAccept, then "failed" or "launched"   *)
  owner,       (* IocpEvent::owner: None or "listener"                     *)
  event,       (* event -> who has it                                      *)
  session,     (* event -> its _session                                    *)
  accepting,   (* event -> the Session whose socket and _recvBuffer the    *)
               (* system uses for it                                       *)
  pc,          (* where each thread is                                     *)
  hand,        (* thread -> the event it handles                           *)
  frames,      (* thread -> the SessionRefs on its stack, the last on top  *)
  address,     (* session -> the client in its _netAddress                 *)
  peer,        (* session -> the client its socket is connected to         *)
  client,      (* client -> the state of its connection                    *)
  crash        (* the process ended with the call through a null owner     *)

listener == <<main, owner, session, frames, hand, pc, address>>
system   == <<event, accepting, peer, client>>
vars     == <<listener, system, crash, managerVars>>

Init ==
  /\ ManagerInit
  /\ main = "starting"
  /\ owner \in {None, "listener"}
  /\ event = [e \in Events |-> "none"]
  /\ session = [e \in Events |-> None]
  /\ accepting = [e \in Events |-> None]
  /\ pc = [t \in Threads |-> "idle"]
  /\ hand = [t \in Threads |-> None]
  /\ frames = [t \in Threads |-> <<>>]
  /\ address = [s \in Sessions |-> None]
  /\ peer = [s \in Sessions |-> None]
  /\ client = [c \in Clients |-> "away"]
  /\ crash = "none"

OnStack(t)  == {frames[t][i] : i \in DOMAIN frames[t]}
Alive(s)    == \/ \E e \in Events : session[e] = s
               \/ \E t \in Threads : s \in OnStack(t)
Top(t)      == frames[t][Len(frames[t])]

(* ~Session of those that nobody refers to after the step.                 *)
Destroy ==
  /\ peer' = [s \in Sessions |-> IF Alive(s)' THEN peer[s] ELSE None]
  /\ address' = [s \in Sessions |-> IF Alive(s)' THEN address[s] ELSE None]
  /\ client' = [c \in Clients |->
                  IF \E s \in Sessions : peer[s] = c /\ ~Alive(s)'
                  THEN "closed" ELSE client[c]]

-----------------------------------------------------------------------------
(* StartAccept, in the main thread                                         *)

(* The socket cannot be made, registered, bound or set to listen.  main    *)
(* does not look at the result.                                            *)
StartAcceptFails ==
  /\ MainRuns
  /\ main = "starting"
  /\ \A e \in Events : event[e] = "none"
  /\ main' = "failed"
  /\ UNCHANGED <<owner, session, frames, hand, pc, address, system, crash>>

(* One turn of the loop: a new event is registered.                        *)
StartAccept(e) ==
  /\ MainRuns
  /\ main = "starting"
  /\ pc[Main] = "idle"
  /\ event[e] = "none"
  /\ event' = [event EXCEPT ![e] = "held"]
  /\ hand' = [hand EXCEPT ![Main] = e]
  /\ pc' = [pc EXCEPT ![Main] = "register"]
  /\ UNCHANGED <<main, owner, session, frames, address, accepting, peer, client, crash>>

StartAcceptReturns ==
  /\ MainRuns
  /\ main = "starting"
  /\ pc[Main] = "idle"
  /\ \A e \in Events : event[e] # "none"
  /\ main' = "launched"
  /\ UNCHANGED <<owner, session, frames, hand, pc, address, system, crash>>

-----------------------------------------------------------------------------
(* RegisterAccept                                                          *)

(* The event keeps the session it had.                                     *)
MutSetSession(e, s) == session

SetSession(e, s) == [session EXCEPT ![e] = s]

(* A new Session, for the event and on the stack.                          *)
RegisterAccept(t) ==
  /\ pc[t] = "register"
  /\ \E s \in Sessions : ~Alive(s)
  /\ LET new == CHOOSE s \in Sessions : ~Alive(s)
     IN  /\ session' = SetSession(hand[t], new)
         /\ frames' = [frames EXCEPT ![t] = Append(@, new)]
  /\ pc' = [pc EXCEPT ![t] = "acceptEx"]
  /\ Destroy
  /\ UNCHANGED <<main, owner, hand, event, accepting, crash>>

(* WSA_IO_PENDING taken for a failure: the event is registered again.      *)
MutAfterPending == "register"

(* Nothing is left to do when AcceptEx is pending, or done at once.        *)
AfterPending == "return"

AcceptEx(t) ==
  /\ pc[t] = "acceptEx"
  /\ event' = [event EXCEPT ![hand[t]] = "posted"]
  /\ accepting' = [accepting EXCEPT ![hand[t]] = Top(t)]
  /\ pc' = [pc EXCEPT ![t] = AfterPending]
  /\ UNCHANGED <<main, owner, session, frames, hand, address, peer, client, crash>>

(* It fails: RegisterAccept calls itself, under its own frame.             *)
AcceptExFails(t) ==
  /\ pc[t] = "acceptEx"
  /\ Len(frames[t]) < MaxFrames
  /\ pc' = [pc EXCEPT ![t] = "register"]
  /\ UNCHANGED <<main, owner, session, frames, hand, address, system, crash>>

(* A thread that leaves its references behind.                             *)
MutUnwound(t) == frames

Unwound(t) == [frames EXCEPT ![t] = <<>>]

(* RegisterAccept and its callers return, their SessionRefs go.            *)
Return(t) ==
  /\ pc[t] = "return"
  /\ frames' = Unwound(t)
  /\ hand' = [hand EXCEPT ![t] = None]
  /\ pc' = [pc EXCEPT ![t] = "idle"]
  /\ UNCHANGED session
  /\ Destroy
  /\ UNCHANGED <<main, owner, event, accepting, crash>>

-----------------------------------------------------------------------------
(* IocpCore::Dispatch and Listener::ProcessAccept, in the workers          *)

IsFree(t) == t \in Workers /\ worker[t] = "running" /\ pc[t] = "idle"

(* A completion: its owner dispatches it, if there is one.  ProcessAccept  *)
(* takes a reference to the session.                                       *)
Dispatch(t, e) ==
  /\ IsFree(t)
  /\ event[e] = "completed"
  /\ IF owner = None
     THEN crash' = "NO_OWNER" /\ UNCHANGED <<listener, system>>
     ELSE /\ event' = [event EXCEPT ![e] = "held"]
          /\ hand' = [hand EXCEPT ![t] = e]
          /\ frames' = [frames EXCEPT ![t] = <<session[e]>>]
          /\ pc' = [pc EXCEPT ![t] = "process"]
          /\ UNCHANGED <<main, owner, session, address, accepting, peer, client,
                         crash>>

(* A completion that failed is dropped, and its event with it.             *)
DispatchFailed(t, e) ==
  /\ IsFree(t)
  /\ event[e] = "failed"
  /\ event' = [event EXCEPT ![e] = "dropped"]
  /\ UNCHANGED <<listener, accepting, peer, client, crash>>

(* A ProcessAccept that returns when the socket cannot be updated.         *)
MutAfterError == "return"

(* RegisterAccept in every case: the event is reused for ever.             *)
AfterError == "register"

(* The socket cannot be updated, or has no peer any more.                  *)
ProcessAcceptFails(t) ==
  /\ pc[t] = "process"
  /\ pc' = [pc EXCEPT ![t] = AfterError]
  /\ UNCHANGED <<main, owner, session, frames, hand, address, system, crash>>

ProcessAccept(t) ==
  /\ pc[t] = "process"
  /\ address' = [address EXCEPT ![Top(t)] = peer[Top(t)]]
  /\ pc' = [pc EXCEPT ![t] = "register"]
  /\ UNCHANGED <<main, owner, session, frames, hand, system, crash>>

-----------------------------------------------------------------------------
(* The clients and the system                                              *)

Connect(c) ==
  /\ main # "failed"
  /\ client[c] = "away"
  /\ client' = [client EXCEPT ![c] = "waiting"]
  /\ UNCHANGED <<event, peer>>

(* The system accepts a client on the socket of a pending event.           *)
Complete(e, c) ==
  /\ event[e] = "posted"
  /\ client[c] = "waiting"
  /\ event' = [event EXCEPT ![e] = "completed"]
  /\ peer' = [peer EXCEPT ![accepting[e]] = c]
  /\ client' = [client EXCEPT ![c] = "accepted"]

(* The client resets its connection before it is accepted.                 *)
Fail(e, c) ==
  /\ event[e] = "posted"
  /\ client[c] = "waiting"
  /\ event' = [event EXCEPT ![e] = "failed"]
  /\ client' = [client EXCEPT ![c] = "gone"]
  /\ UNCHANGED peer

System ==
  /\ \E c \in Clients :
       \/ Connect(c)
       \/ \E e \in Events : Complete(e, c) \/ Fail(e, c)
  /\ UNCHANGED <<listener, accepting, crash>>

-----------------------------------------------------------------------------
Handle(t) ==
  \/ RegisterAccept(t) \/ AcceptEx(t) \/ AcceptExFails(t) \/ Return(t)
  \/ \E e \in Events : Dispatch(t, e) \/ DispatchFailed(t, e)
  \/ ProcessAccept(t) \/ ProcessAcceptFails(t)

(* Before main(), and its loop that launches the workers when StartAccept  *)
(* is over.  Its Join then waits for workers that never return.            *)
Manage ==
  /\ \/ \E m \in Managers : Construct(m)
     \/ \E t \in Workers : (main # "starting" /\ Launch(t)) \/ Start(t)
  /\ UNCHANGED <<listener, system, crash>>

Next ==
  /\ crash = "none"
  /\ \/ Manage
     \/ /\ \/ StartAcceptFails \/ StartAcceptReturns
           \/ \E e \in Events : StartAccept(e)
           \/ \E t \in Threads : Handle(t)
           \/ System
        /\ UNCHANGED managerVars

Spec == Init /\ [][Next]_vars

(* Threads run; the system accepts a client that waits when it can.        *)
Accepts(c) == \E e \in Events : Complete(e, c) /\ UNCHANGED <<listener, accepting, crash, managerVars>>

Starts ==
  /\ StartAcceptFails \/ StartAcceptReturns \/ \E e \in Events : StartAccept(e)
  /\ UNCHANGED managerVars

FairSpec ==
  /\ Spec
  /\ WF_vars(crash = "none" /\ Manage)
  /\ WF_vars(crash = "none" /\ Starts)
  /\ \A t \in Threads : WF_vars(crash = "none" /\ Handle(t) /\ UNCHANGED managerVars)
  /\ \A c \in Clients : SF_vars(crash = "none" /\ Accepts(c))

-----------------------------------------------------------------------------
(* Properties                                                              *)

ListenerTypeOK ==
  /\ main \in {"starting", "failed", "launched"}
  /\ owner \in {None, "listener"}
  /\ event \in [Events -> {"none", "held", "posted", "completed", "failed", "dropped"}]
  /\ session \in [Events -> Sessions \cup {None}]
  /\ accepting \in [Events -> Sessions \cup {None}]
  /\ pc \in [Threads -> {"idle", "register", "acceptEx", "return", "process"}]
  /\ hand \in [Threads -> Events \cup {None}]
  /\ frames \in [Threads -> Seq(Sessions)]
  /\ \A t \in Threads :
       /\ Len(frames[t]) <= MaxFrames
       /\ pc[t] = "idle" => frames[t] = <<>> /\ hand[t] = None
  /\ address \in [Sessions -> Clients \cup {None}]
  /\ peer \in [Sessions -> Clients \cup {None}]
  /\ client \in [Clients -> {"away", "waiting", "accepted", "closed", "gone"}]
  /\ crash \in {"none", "NO_OWNER"}

TypeOK == ManagerTypeOK /\ ListenerTypeOK

(* What AcceptEx was given stays: while the system accepts for an event,   *)
(* or its completion is not taken yet, the session whose socket and buffer *)
(* it works on is alive and is that event's alone.                         *)
InSystem(e) == event[e] \in {"posted", "completed"}
BufferOutlivesAccept ==
  \A e \in Events :
    InSystem(e) =>
      /\ session[e] = accepting[e]
      /\ \A f \in Events \ {e} : accepting[e] # session[f]

(* An event has one user: the system, or one thread, though many threads   *)
(* wait for completions and RegisterAccept is still to return in the one   *)
(* that posted it.                                                         *)
Uses(t, e) == hand[t] = e /\ pc[t] # "return"
HandledByOne ==
  \A e \in Events : \A t \in Threads :
    Uses(t, e) => /\ event[e] = "held"
                  /\ \A u \in Threads : Uses(u, e) => u = t

(* Once StartAccept came to its end a client that waits is accepted or     *)
(* resets, although threads are slow, AcceptEx fails and sockets cannot be *)
(* updated (Listener.cpp:109-130): if the events have an owner, which no   *)
(* line of the source gives them (without one IocpCore.cpp:37 ends the     *)
(* process), and as long as not every event was lost with a completion     *)
(* that failed (RegisteredAgain).                                          *)
WaitersAreAccepted ==
  \A c \in Clients :
    owner = "listener" /\ main = "launched" /\ client[c] = "waiting"
      ~> \/ client[c] # "waiting"
         \/ \A e \in Events : event[e] = "dropped"

(* Listener.cpp:111: RegisterAccept is always to be done when the rod was  *)
(* pulled up, so after a completion that failed as well.                   *)
RegisteredAgain ==
  \A e \in Events : event[e] = "failed" ~> event[e] = "posted"

=============================================================================
