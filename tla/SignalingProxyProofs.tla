------------------------ MODULE SignalingProxyProofs ------------------------
(***************************************************************************)
(* Proofs about SignalingProxy, for any number of frames and callbacks and *)
(* any socket capacity.                                                    *)
(***************************************************************************)
EXTENDS SignalingProxy, TLAPS

\* The names a step proof has to see through to compare program counters.
USE DEF Sides, Pumps, Writers, Other

-----------------------------------------------------------------------------
LEMMA InitType == Init => TypeOK
BY ProxyAssumption DEF Init, TypeOK, PumpPcs

LEMMA RemoteType ==
  ASSUME TypeOK, NEW s \in Sides,
         RemoteSend(s) \/ RemoteTake(s) \/ RemoteHangup(s)
  PROVE  TypeOK'
<1>1. CASE RemoteSend(s)
  <2>1. sent' \in [Sides -> Nat]
    BY <1>1 DEF TypeOK, RemoteSend
  <2> QED BY <1>1, <2>1, SMTT(30) DEF TypeOK, RemoteSend
<1>2. CASE RemoteTake(s)
  <2>1. taken' \in [Sides -> Nat]
    BY <1>2 DEF TypeOK, RemoteTake
  <2> QED BY <1>2, <2>1, SMTT(30) DEF TypeOK, RemoteTake
<1>3. CASE RemoteHangup(s) BY <1>3, SMT DEF TypeOK, RemoteHangup, PumpPcs
<1> QED BY <1>1, <1>2, <1>3

LEMMA HandlerType ==
  ASSUME TypeOK, DialKit \/ DialFails \/ StartPumps \/ FactoryFails
  PROVE  TypeOK'
<1>1. CASE DialKit BY <1>1, SMT DEF TypeOK, DialKit, PumpPcs
<1>2. CASE DialFails BY <1>2, SMT DEF TypeOK, DialFails, PumpPcs
<1>3. CASE StartPumps
  BY <1>3, ProxyAssumption, SMT DEF TypeOK, StartPumps, PumpPcs
<1>4. CASE FactoryFails BY <1>4, SMT DEF TypeOK, FactoryFails, PumpPcs
<1> QED BY <1>1, <1>2, <1>3, <1>4

LEMMA UpdateType ==
  ASSUME NEW S, NEW T, NEW f \in [S -> T], NEW x \in S, NEW y \in T
  PROVE  [f EXCEPT ![x] = y] \in [S -> T]
OBVIOUS

LEMMA PumpType ==
  ASSUME TypeOK, NEW p \in Pumps, PumpStep(p)
  PROVE  TypeOK'
<1> USE ProxyAssumption
<1>1. CASE ReadMessage(p) BY <1>1, SMT DEF TypeOK, ReadMessage, PumpPcs
<1>2. CASE ReadFails(p) BY <1>2, SMT DEF TypeOK, ReadFails, PumpPcs
<1>3. CASE HookForwards(p) BY <1>3, SMT DEF TypeOK, HookForwards, PumpPcs
<1>4. CASE HookConsumes(p)
  <2>1. consumed[p] \cup {read[p]} \in SUBSET Nat
    BY DEF TypeOK
  <2>2. consumed' \in [Sides -> SUBSET Nat]
    <3>1. consumed' = [consumed EXCEPT ![p] = consumed[p] \cup {read[p]}]
      BY <1>4 DEF HookConsumes
    <3>2. consumed \in [Sides -> SUBSET Nat] /\ p \in Sides
      BY DEF TypeOK
    <3> QED BY <2>1, <3>1, <3>2, UpdateType, Zenon
  <2>3. UNCHANGED <<handler, conn, sent, read, wire, taken, lock, target,
                    once, closed>>
    BY <1>4 DEF HookConsumes
  <2>4. /\ pc' \in [Writers -> PumpPcs]
        /\ \A i \in Injectors : pc'[i] \in {"off", "lock", "write", "done"}
    <3>1. PICK q \in {"read", "reply"} : pc' = [pc EXCEPT ![p] = q]
      BY <1>4 DEF HookConsumes
    <3> QED BY <3>1, SMT DEF TypeOK, PumpPcs
  <2> QED BY <2>2, <2>3, <2>4 DEF TypeOK
<1>5. CASE HookFails(p) BY <1>5, SMT DEF TypeOK, HookFails, PumpPcs
<1>6. CASE EnterOnce(p) BY <1>6, SMT DEF TypeOK, EnterOnce, PumpPcs
<1>7. CASE SkipOnce(p) BY <1>7, SMT DEF TypeOK, SkipOnce, PumpPcs
<1>8. CASE CloseClient(p)
  BY <1>8, SMT DEF TypeOK, CloseClient, CloseSocket, PumpPcs
<1>9. CASE CloseKit(p) BY <1>9, SMT DEF TypeOK, CloseKit, CloseSocket, PumpPcs
<1>10. CASE OnClose(p) BY <1>10, SMT DEF TypeOK, OnClose, PumpPcs
<1> QED
  BY <1>1, <1>2, <1>3, <1>4, <1>5, <1>6, <1>7, <1>8, <1>9, <1>10 DEF PumpStep

LEMMA InjectorType ==
  ASSUME TypeOK, NEW i \in Injectors, InjectorStarts(i)
  PROVE  TypeOK'
BY SMT DEF TypeOK, InjectorStarts, PumpPcs

LEMMA DestType ==
  ASSUME TypeOK, NEW w \in Writers
  PROVE  Dest(w) \in Sides
BY DEF TypeOK, Dest

LEMMA WriteType ==
  ASSUME TypeOK, NEW w \in Writers, WriteStep(w)
  PROVE  TypeOK'
<1> USE DestType, ProxyAssumption
<1>1. CASE Lock(w) BY <1>1, SMT DEF TypeOK, Lock, Waiting, PumpPcs
<1>2. CASE WriteMessage(w)
  <2>1. Payload(w) \in [src : Sides \cup {"gateway"}, num : Nat]
    BY SMT DEF TypeOK, Payload, Frame, GatewayFrame
  <2>2. wire' \in [Sides -> Seq([src : Sides \cup {"gateway"}, num : Nat])]
    BY <1>2, <2>1, SMT DEF TypeOK, WriteMessage
  <2> QED
    BY <1>2, <2>2, SMTT(30) DEF TypeOK, WriteMessage, AfterWrite, PumpPcs
<1>3. CASE WriteFails(w)
  BY <1>3, SMT DEF TypeOK, WriteFails, Writing, AfterFailedWrite, PumpPcs
<1> QED BY <1>1, <1>2, <1>3 DEF WriteStep

LEMMA StutterType == TypeOK /\ UNCHANGED vars => TypeOK'
BY DEF TypeOK, vars, PumpPcs

LEMMA TypeStep == TypeOK /\ [Next]_vars => TypeOK'
<1> SUFFICES ASSUME TypeOK, [Next]_vars PROVE TypeOK'
  OBVIOUS
<1>1. CASE UNCHANGED vars BY <1>1, StutterType
<1>2. CASE Next
  BY <1>2, RemoteType, HandlerType, PumpType, InjectorType, WriteType,
     StutterType DEF Next, Remote, Handler, Finished
<1> QED BY <1>1, <1>2

\* Type correctness of the proxy: every variable keeps its type for every
\* number of frames, callbacks and buffered frames (proxy.go).
THEOREM TypeCorrect == Spec => []TypeOK
BY InitType, TypeStep, PTL DEF Spec

-----------------------------------------------------------------------------
(* Mutual exclusion on the sockets: whoever is inside WriteMessage holds   *)
(* the mutex of the side it writes to.                                     *)

LockHeld == \A w \in Writers : Writing(w) => lock[Dest(w)] = w

\* Outside WriteStep nobody enters a write, and a goroutine that is inside
\* one stands still.
QuietStep ==
  /\ lock' = lock
  /\ target' = target
  /\ \A w \in Writers : pc'[w] = pc[w] \/ ~Writing(w)'

LEMMA QuietKeepsLocks == TypeOK /\ LockHeld /\ QuietStep => LockHeld'
BY DEF LockHeld, QuietStep, Writing, Dest

LEMMA NonWritersAreQuiet ==
  ASSUME TypeOK,
         \/ \E s \in Sides : RemoteSend(s) \/ RemoteTake(s) \/ RemoteHangup(s)
         \/ Handler
         \/ \E p \in Pumps : PumpStep(p)
         \/ \E i \in Injectors : InjectorStarts(i)
         \/ UNCHANGED vars
  PROVE  QuietStep
<1> USE ProxyAssumption DEF TypeOK, QuietStep, Writing
<1>1. CASE \E s \in Sides : RemoteSend(s) \/ RemoteTake(s) \/ RemoteHangup(s)
  BY <1>1 DEF RemoteSend, RemoteTake, RemoteHangup
<1>2. CASE Handler
  BY <1>2, SMT DEF Handler, DialKit, DialFails, StartPumps, FactoryFails
<1>3. CASE \E p \in Pumps : PumpStep(p)
  <2> PICK p \in Pumps : PumpStep(p)
    BY <1>3
  <2>1. lock' = lock /\ target' = target
    BY SMT DEF PumpStep, ReadMessage, ReadFails, HookForwards, HookConsumes, HookFails,
       EnterOnce, SkipOnce, CloseClient, CloseKit, CloseSocket, OnClose
  <2>2. \E q \in PumpPcs \ {"write", "replying"} : pc' = [pc EXCEPT ![p] = q]
    BY SMT DEF PumpStep, ReadMessage, ReadFails, HookForwards, HookConsumes, HookFails,
       EnterOnce, SkipOnce, CloseClient, CloseKit, CloseSocket, OnClose, PumpPcs
  <2> QED BY <2>1, <2>2, SMT
<1>4. CASE \E i \in Injectors : InjectorStarts(i)
  BY <1>4, SMT DEF InjectorStarts
<1>5. CASE UNCHANGED vars
  BY <1>5 DEF vars
<1> QED BY <1>1, <1>2, <1>3, <1>4, <1>5

LEMMA LockStep ==
  ASSUME TypeOK, LockHeld, [Next]_vars
  PROVE  LockHeld'
<1>1. CASE \E w \in Writers : WriteStep(w)
  <2> PICK w \in Writers : WriteStep(w)
    BY <1>1
  <2>1. Dest(w) \in Sides
    BY DestType
  <2>2. CASE Lock(w)
    BY <2>1, <2>2, ProxyAssumption, SMT
    DEF TypeOK, LockHeld, Lock, Waiting, Writing, Dest
  <2>3. CASE WriteMessage(w)
    BY <2>1, <2>3, ProxyAssumption, SMT
    DEF TypeOK, LockHeld, WriteMessage, AfterWrite, Writing, Dest
  <2>4. CASE WriteFails(w)
    BY <2>1, <2>4, ProxyAssumption, SMT
    DEF TypeOK, LockHeld, WriteFails, AfterFailedWrite, Writing, Dest
  <2> QED BY <2>2, <2>3, <2>4 DEF WriteStep
<1>2. CASE QuietStep
  BY <1>2, QuietKeepsLocks
<1> QED
  BY <1>1, <1>2, NonWritersAreQuiet DEF Next, Remote, Finished

\* proxy.go:18-20, gorilla's one-writer rule: whatever mixture of pumps,
\* hooks and callbacks sends, no two goroutines are inside WriteMessage of
\* the same socket.
THEOREM MutualExclusion == Spec => []OneWriterPerSocket
<1>1. Init => LockHeld
  BY SMT DEF Init, LockHeld, Writing
<1>2. TypeOK /\ LockHeld /\ [Next]_vars => LockHeld'
  BY LockStep
<1>3. LockHeld => OneWriterPerSocket
  BY Zenon DEF LockHeld, OneWriterPerSocket
<1> QED BY <1>1, <1>2, <1>3, TypeCorrect, PTL DEF Spec

-----------------------------------------------------------------------------
(* Tear-down.  The invariant follows closeOnce: before it the session is   *)
(* not closed, while it runs exactly one pump is inside it and has closed  *)
(* the sockets it has passed, after it both sockets are closed.            *)

Closing == {"closeClient", "closeKit", "onClose"}

TearDownInv ==
  /\ handler # "serving" => once = "idle"
  /\ \A p \in Pumps : handler = "serving" <=> pc[p] # "off"
  /\ once = "running" => \E p \in Pumps : pc[p] \in Closing
  /\ once # "done" => closed = 0
  /\ once = "done" => closed = 1 /\ \A s \in Sides : conn[s] = "closed"
  /\ \A p \in Pumps : pc[p] \in Closing => once = "running"
  /\ \A p, q \in Pumps : pc[p] \in Closing /\ pc[q] \in Closing => p = q
  /\ \A p \in Pumps : pc[p] \in {"closeKit", "onClose"} => conn["client"] = "closed"
  /\ \A p \in Pumps : pc[p] = "onClose" => conn["kit"] = "closed"
  /\ \A p \in Pumps : pc[p] = "done" => once = "done"

\* A step that leaves closeOnce alone: no socket is reopened and no pump
\* enters or leaves the states of tearDown.
OutsideOnce ==
  /\ UNCHANGED <<handler, once, closed>>
  /\ \A s \in Sides : conn[s] = "closed" => conn'[s] = "closed"
  /\ \A p \in Pumps :
       \/ pc'[p] = pc[p]
       \/ /\ pc[p] \notin Closing \cup {"off"}
          /\ pc'[p] \notin Closing \cup {"off", "done"}

LEMMA OutsideOnceKeeps == TypeOK /\ TearDownInv /\ OutsideOnce => TearDownInv'
BY SMT DEF TearDownInv, OutsideOnce, Closing, TypeOK

LEMMA TearDownStep ==
  ASSUME TypeOK, TearDownInv, [Next]_vars
  PROVE  TearDownInv'
<1> USE ProxyAssumption DEF TypeOK
<1>1. CASE Remote
  BY <1>1, OutsideOnceKeeps, SMTT(30)
  DEF Remote, RemoteSend, RemoteTake, RemoteHangup, OutsideOnce
<1>2. CASE Handler
  BY <1>2, SMT DEF Handler, DialKit, DialFails, StartPumps, FactoryFails,
                   TearDownInv, Closing
<1>3. ASSUME NEW p \in Pumps, PumpStep(p) PROVE TearDownInv'
  <2>1. CASE ReadMessage(p) \/ ReadFails(p) \/ HookForwards(p) \/ HookFails(p)
    BY <2>1, OutsideOnceKeeps, SMTT(30)
    DEF ReadMessage, ReadFails, HookForwards, HookFails, OutsideOnce, Closing
  <2>2. CASE HookConsumes(p)
    <3>1. \E q \in {"read", "reply"} : pc' = [pc EXCEPT ![p] = q]
      BY <2>2 DEF HookConsumes
    <3> QED
      BY <2>2, <3>1, OutsideOnceKeeps, SMT DEF HookConsumes, OutsideOnce, Closing
  <2>3. CASE EnterOnce(p)
    BY <2>3, SMT DEF EnterOnce, TearDownInv, Closing
  <2>4. CASE SkipOnce(p)
    BY <2>4, SMT DEF SkipOnce, TearDownInv, Closing
  <2>5. CASE CloseClient(p)
    BY <2>5, SMT DEF CloseClient, CloseSocket, TearDownInv, Closing
  <2>6. CASE CloseKit(p)
    BY <2>6, SMT DEF CloseKit, CloseSocket, TearDownInv, Closing
  <2>7. CASE OnClose(p)
    BY <2>7, SMT DEF OnClose, TearDownInv, Closing
  <2> QED
    BY <1>3, <2>1, <2>2, <2>3, <2>4, <2>5, <2>6, <2>7 DEF PumpStep
<1>4. ASSUME NEW i \in Injectors, InjectorStarts(i) PROVE TearDownInv'
  BY <1>4, OutsideOnceKeeps, SMT DEF InjectorStarts, OutsideOnce
<1>5. ASSUME NEW w \in Writers, WriteStep(w) PROVE TearDownInv'
  <2>1. OutsideOnce
    BY <1>5, SMT DEF WriteStep, Lock, WriteMessage, WriteFails, Waiting, Writing,
       AfterWrite, AfterFailedWrite, OutsideOnce, Closing
  <2> QED BY <2>1, OutsideOnceKeeps
<1>6. CASE UNCHANGED vars
  BY <1>6, OutsideOnceKeeps DEF vars, OutsideOnce
<1> QED
  BY <1>1, <1>2, <1>3, <1>4, <1>5, <1>6 DEF Next, Finished

LEMMA TearDownAlways == Spec => [](TypeOK /\ TearDownInv)
<1>1. Init => TearDownInv
  BY ProxyAssumption, SMT DEF Init, TearDownInv, Closing
<1>2. TypeOK /\ TearDownInv /\ [Next]_vars => TearDownInv'
  BY TearDownStep
<1> QED BY <1>1, <1>2, TypeCorrect, PTL DEF Spec

\* proxy.go:37 and 153: OnClose runs at most once and after both sockets are
\* closed, and a pump that has returned has seen the whole of tearDown.
THEOREM TearDownOnce == Spec => []TornDownBeforePumpReturns
<1>1. TypeOK /\ TearDownInv => TornDownBeforePumpReturns
  BY SMT DEF TypeOK, TearDownInv, TornDownBeforePumpReturns
<1> QED BY <1>1, TearDownAlways, PTL

-----------------------------------------------------------------------------
(* Nobody waits for a goroutine that waits in turn: a mutex is held only   *)
(* inside a write, and closeOnce runs only while a pump is inside it.      *)

HolderWrites ==
  \A s \in Sides :
    lock[s] # NoOne => lock[s] \in Writers /\ Writing(lock[s]) /\ Dest(lock[s]) = s

\* A step that leaves those who write, and their mutexes, alone.
SteadyStep ==
  /\ lock' = lock
  /\ target' = target
  /\ \A w \in Writers : Writing(w) => pc'[w] = pc[w]

LEMMA SteadyKeepsHolders == HolderWrites /\ SteadyStep => HolderWrites'
BY DEF HolderWrites, SteadyStep, Writing, Dest

LEMMA NonWritersAreSteady ==
  ASSUME TypeOK, TearDownInv,
         \/ Remote
         \/ Handler
         \/ \E p \in Pumps : PumpStep(p)
         \/ \E i \in Injectors : InjectorStarts(i)
         \/ UNCHANGED vars
  PROVE  SteadyStep
<1> USE ProxyAssumption DEF TypeOK, SteadyStep, Writing
<1>1. CASE Remote
  BY <1>1 DEF Remote, RemoteSend, RemoteTake, RemoteHangup
<1>2. CASE Handler
  BY <1>2, SMT DEF Handler, DialKit, DialFails, StartPumps, FactoryFails, TearDownInv
<1>3. CASE \E p \in Pumps : PumpStep(p)
  <2> PICK p \in Pumps : PumpStep(p)
    BY <1>3
  <2>1. lock' = lock /\ target' = target
    BY SMT DEF PumpStep, ReadMessage, ReadFails, HookForwards, HookConsumes, HookFails,
       EnterOnce, SkipOnce, CloseClient, CloseKit, CloseSocket, OnClose
  <2>2. ~Writing(p)
    BY DEF PumpStep, ReadMessage, ReadFails, HookForwards, HookConsumes, HookFails,
       EnterOnce, SkipOnce, CloseClient, CloseKit, CloseSocket, OnClose
  <2>3. \E q : pc' = [pc EXCEPT ![p] = q]
    BY Zenon DEF PumpStep, ReadMessage, ReadFails, HookForwards, HookConsumes, HookFails,
       EnterOnce, SkipOnce, CloseClient, CloseKit, CloseSocket, OnClose
  <2> QED BY <2>1, <2>2, <2>3, SMT
<1>4. CASE \E i \in Injectors : InjectorStarts(i)
  BY <1>4, SMT DEF InjectorStarts
<1>5. CASE UNCHANGED vars
  BY <1>5 DEF vars
<1> QED BY <1>1, <1>2, <1>3, <1>4, <1>5

LEMMA HolderStep ==
  ASSUME TypeOK, TearDownInv, LockHeld, HolderWrites, [Next]_vars
  PROVE  HolderWrites'
<1>1. CASE \E w \in Writers : WriteStep(w)
  <2> PICK w \in Writers : WriteStep(w)
    BY <1>1
  <2> USE ProxyAssumption DEF TypeOK, HolderWrites
  <2>1. Dest(w) \in Sides
    BY DestType
  <2>2. CASE Lock(w)
    BY <2>1, <2>2, SMT DEF Lock, Waiting, Writing, Dest
  <2>3. CASE WriteMessage(w) \/ WriteFails(w)
    <3>1. Writing(w) /\ lock[Dest(w)] = w
      BY <2>3 DEF WriteMessage, WriteFails, LockHeld
    <3>2. /\ lock' = [lock EXCEPT ![Dest(w)] = NoOne] /\ target' = target
          /\ \A v \in Writers : v # w => pc'[v] = pc[v]
      BY <2>3 DEF WriteMessage, WriteFails
    <3>3. SUFFICES ASSUME NEW s \in Sides, lock'[s] # NoOne
                   PROVE  Writing(lock[s])' /\ Dest(lock[s])' = s /\ lock[s] \in Writers
                          /\ lock'[s] = lock[s]
      BY DEF Writing, Dest
    <3>4. s # Dest(w) /\ lock'[s] = lock[s] /\ lock[s] # w
      BY <2>1, <3>1, <3>2, <3>3
    <3> QED BY <3>2, <3>3, <3>4 DEF Writing, Dest
  <2> QED BY <2>2, <2>3 DEF WriteStep
<1>2. CASE SteadyStep
  BY <1>2, SteadyKeepsHolders
<1> QED
  BY <1>1, <1>2, NonWritersAreSteady DEF Next, Finished

LEMMA HoldersAlways == Spec => [](TypeOK /\ TearDownInv /\ HolderWrites)
<1>1. Init => HolderWrites /\ LockHeld
  BY SMT DEF Init, HolderWrites, LockHeld, Writing
<1>2. TypeOK /\ TearDownInv /\ LockHeld /\ HolderWrites /\ [Next]_vars
        => LockHeld' /\ HolderWrites'
  BY LockStep, HolderStep
<1> QED BY <1>1, <1>2, TearDownAlways, PTL DEF Spec

\* proxy.go:23-42 and 149-160, for any number of callbacks: when all
\* goroutines wait, a live remote does not read, or both pumps wait for a
\* frame, or the session is over.
THEOREM NoDeadlock == Spec => []StuckOnlyOnRemote
<1>1. ASSUME TypeOK, TearDownInv, HolderWrites PROVE StuckOnlyOnRemote
  <2> SUFFICES ASSUME handler = "serving", \A w \in Writers : Blocked(w),
                      \A s \in Sides : ~(conn[s] = "up" /\ ~Room(s))
               PROVE  /\ \A i \in Injectors : pc[i] \in {"off", "done"}
                      /\ \/ \A p \in Pumps : AwaitsFrame(p)
                         \/ closed = 1 /\ \A p \in Pumps : pc[p] = "done"
    BY DEF StuckOnlyOnRemote
  <2>1. \A w \in Writers : ~AwaitsRoom(w)
    BY <1>1, DestType DEF AwaitsRoom
  <2>2. \A s \in Sides : lock[s] = NoOne
    \* A holder is inside a write, where it could only wait for room.
    <3> SUFFICES ASSUME NEW s \in Sides, lock[s] # NoOne PROVE FALSE
      OBVIOUS
    <3>1. lock[s] \in Writers /\ Writing(lock[s])
      BY <1>1 DEF HolderWrites
    <3> QED
      BY <2>1, <3>1 DEF Blocked, Writing, Waiting, AwaitsFrame, AwaitsMutex, AwaitsTearDown
  <2>3. \A w \in Writers : ~AwaitsMutex(w)
    BY <1>1, <2>2, DestType DEF AwaitsMutex
  <2>4. once # "running"
    <3> SUFFICES ASSUME NEW p \in Pumps, pc[p] \in Closing PROVE FALSE
      BY <1>1 DEF TearDownInv
    <3> QED
      BY <2>1, <2>3 DEF Blocked, AwaitsFrame, AwaitsTearDown, Closing
  <2>5. \A w \in Writers : pc[w] \in {"off", "done"} \/ AwaitsFrame(w)
    BY <2>1, <2>3, <2>4 DEF Blocked, AwaitsTearDown
  <2>6. \A p \in Pumps : pc[p] = "done" \/ AwaitsFrame(p)
    BY <1>1, <2>5 DEF TearDownInv
  <2>7. \A i \in Injectors : pc[i] \in {"off", "done"}
    BY <1>1, <2>5 DEF TypeOK, AwaitsFrame
  <2>8. ASSUME NEW p \in Pumps, pc[p] = "done"
        PROVE  closed = 1 /\ \A q \in Pumps : ~AwaitsFrame(q)
    BY <1>1, <2>8 DEF TearDownInv, AwaitsFrame
  <2> QED BY <2>6, <2>7, <2>8
<1> QED BY <1>1, HoldersAlways, PTL

-----------------------------------------------------------------------------
(* The streams.  What a pump has read splits into the frames on the other  *)
(* wire, the frames the hook kept and at most one frame in its hands.      *)

Disposed(s, n) == OnWire(s, n) \/ n \in consumed[s]

StreamOK(s) ==
  /\ InHand(s) => read[s] # 0 /\ read[s] \notin consumed[s]
  /\ \A i \in 1..Len(wire[Other(s)]) :
       wire[Other(s)][i].src = s =>
         /\ wire[Other(s)][i].num <= read[s]
         /\ InHand(s) => wire[Other(s)][i].num < read[s]
  /\ \A n \in consumed[s] : n <= read[s] /\ ~OnWire(s, n)
  /\ \A n \in 1..read[s] :
       n < read[s] \/ pc[s] \in {"off", "read", "reply", "replying"}
         => Disposed(s, n)

StreamInv == \A s \in Sides : StreamOK(s)

\* A step that neither reads, writes nor consumes, and picks nothing up.
StreamQuiet ==
  /\ UNCHANGED <<read, wire, consumed>>
  /\ \A s \in Sides :
       /\ InHand(s)' => InHand(s)
       /\ pc'[s] \in {"off", "read", "reply", "replying"}
            => pc[s] \in {"off", "read", "reply", "replying"}

LEMMA StreamQuietKeeps ==
  StreamInv /\ ForwardedInOrder /\ StreamQuiet
    => StreamInv' /\ ForwardedInOrder'
BY SMT DEF StreamInv, StreamOK, StreamQuiet, ForwardedInOrder, Disposed, OnWire

LEMMA ElementType ==
  ASSUME NEW S, NEW q \in Seq(S), NEW i \in 1..Len(q)
  PROVE  q[i] \in S
OBVIOUS

LEMMA WireNum ==
  ASSUME TypeOK, NEW s \in Sides, NEW i \in 1..Len(wire[s])
  PROVE  wire[s][i].num \in Nat
<1>1. wire[s] \in Seq([src : Sides \cup {"gateway"}, num : Nat])
  BY DEF TypeOK
<1>2. wire[s][i] \in [src : Sides \cup {"gateway"}, num : Nat]
  BY <1>1, ElementType, Zenon
<1> QED BY <1>2

LEMMA StreamRead ==
  ASSUME TypeOK, StreamInv, ForwardedInOrder, NEW p \in Pumps, ReadMessage(p)
  PROVE  StreamInv' /\ ForwardedInOrder'
<1>1. UNCHANGED <<wire, consumed>>
  BY DEF ReadMessage
<1>2. ForwardedInOrder'
  BY <1>1 DEF ForwardedInOrder
<1>3. /\ pc[p] = "read"
      /\ read[p] \in Nat
      /\ read' = [read EXCEPT ![p] = read[p] + 1]
      /\ pc' = [pc EXCEPT ![p] = "hook"]
      /\ read \in [Sides -> Nat]
      /\ \A s \in Sides : pc'[s] = IF s = p THEN "hook" ELSE pc[s]
      /\ \A s \in Sides : read'[s] = IF s = p THEN read[p] + 1 ELSE read[s]
  BY SMT DEF ReadMessage, TypeOK
<1>4. \A s \in Sides : \A i \in 1..Len(wire[Other(s)]) : wire[Other(s)][i].num \in Nat
  BY WireNum
<1>5. \A s \in Sides, n \in Nat : Disposed(s, n)' <=> Disposed(s, n)
  BY <1>1 DEF Disposed, OnWire
<1>6. \A s \in Sides : consumed[s] \subseteq Nat
  BY DEF TypeOK
<1>7. SUFFICES ASSUME NEW s \in Sides PROVE StreamOK(s)'
  BY <1>2 DEF StreamInv
<1>a. StreamOK(s) /\ StreamOK(p)
  BY DEF StreamInv
<1>8. CASE s # p
  BY <1>1, <1>3, <1>8, <1>a DEF StreamOK, InHand, Disposed, OnWire
<1>9. CASE s = p
  <2>1. InHand(s)' /\ ~(pc'[s] \in {"off", "read", "reply", "replying"})
    BY <1>3, <1>9 DEF InHand
  <2>2. read'[s] = read[s] + 1 /\ read[s] \in Nat
    BY <1>3, <1>9
  <2>3. \A n \in 1..read[s] : Disposed(s, n)
    BY <1>3, <1>9, <1>a DEF StreamOK
  <2>4. \A n \in consumed[s] : n <= read[s] /\ ~OnWire(s, n) /\ n \in Nat
    BY <1>6, <1>a DEF StreamOK
  <2>5. \A n \in consumed'[s] : n <= read'[s] /\ ~OnWire(s, n)'
    BY <1>1, <2>2, <2>4 DEF OnWire
  <2>6. read'[s] # 0 /\ read'[s] \notin consumed'[s]
    BY <1>1, <2>2, <2>4
  <2>7. \A n \in 1..read'[s] : n < read'[s] => Disposed(s, n)'
    BY <1>1, <2>2, <2>3 DEF Disposed, OnWire
  <2>8. \A i \in 1..Len(wire'[Other(s)]) :
          wire'[Other(s)][i].src = s => wire'[Other(s)][i].num < read'[s]
    BY <1>1, <1>4, <2>2, <1>a DEF StreamOK
  <2>9. \A i \in 1..Len(wire'[Other(s)]) :
          wire'[Other(s)][i].src = s => wire'[Other(s)][i].num <= read'[s]
    BY <1>1, <1>4, <2>2, <1>a DEF StreamOK
  <2> QED BY <2>1, <2>5, <2>6, <2>7, <2>8, <2>9 DEF StreamOK
<1> QED BY <1>8, <1>9

LEMMA StreamConsume ==
  ASSUME TypeOK, StreamInv, ForwardedInOrder, NEW p \in Pumps, HookConsumes(p)
  PROVE  StreamInv' /\ ForwardedInOrder'
<1>1. UNCHANGED <<wire, read>>
  BY DEF HookConsumes
<1>2. ForwardedInOrder'
  BY <1>1 DEF ForwardedInOrder
<1>3. PICK q \in {"read", "reply"} : pc' = [pc EXCEPT ![p] = q]
  BY DEF HookConsumes
<1>4. /\ pc[p] = "hook"
      /\ \A s \in Sides : pc'[s] = IF s = p THEN q ELSE pc[s]
      /\ \A s \in Sides :
           consumed'[s] = IF s = p THEN consumed[p] \cup {read[p]} ELSE consumed[s]
      /\ read[p] \in Nat
  BY <1>3, SMT DEF HookConsumes, TypeOK
<1>5. SUFFICES ASSUME NEW s \in Sides PROVE StreamOK(s)'
  BY <1>2 DEF StreamInv
<1>6. StreamOK(s)
  BY DEF StreamInv
<1>7. CASE s # p
  BY <1>1, <1>4, <1>6, <1>7 DEF StreamOK, InHand, Disposed, OnWire
<1>8. CASE s = p
  <2>1. ~InHand(s)' /\ InHand(s)
    BY <1>3, <1>4, <1>8 DEF InHand
  <2>2. ~OnWire(s, read[s])
    <3>1. \A i \in 1..Len(wire[Other(s)]) :
            wire[Other(s)][i].src = s => wire[Other(s)][i].num < read[s]
      BY <1>6, <2>1 DEF StreamOK
    <3>2. read[s] \in Nat
      BY <1>4, <1>8
    <3> QED BY <3>1, <3>2 DEF OnWire, Frame
  <2>3. \A n \in consumed'[s] : n <= read'[s] /\ ~OnWire(s, n)'
    BY <1>1, <1>4, <1>6, <1>8, <2>2 DEF StreamOK, OnWire
  <2>4. \A n \in 1..read'[s] : Disposed(s, n)'
    BY <1>1, <1>4, <1>6, <1>8 DEF StreamOK, Disposed, OnWire
  <2>5. \A i \in 1..Len(wire'[Other(s)]) :
          wire'[Other(s)][i].src = s => wire'[Other(s)][i].num <= read'[s]
    BY <1>1, <1>6 DEF StreamOK
  <2> QED BY <2>1, <2>3, <2>4, <2>5 DEF StreamOK
<1> QED BY <1>7, <1>8

\* What appending frame f to side d does to the two wires.
LEMMA AppendFacts ==
  ASSUME NEW S, NEW q \in Seq(S), NEW f \in S
  PROVE  /\ Len(Append(q, f)) = Len(q) + 1
         /\ Len(q) \in Nat
         /\ \A i \in 1..Len(q) : Append(q, f)[i] = q[i]
         /\ Append(q, f)[Len(q) + 1] = f
BY SMT

FrameSet == [src : Sides \cup {"gateway"}, num : Nat]

LEMMA WriteFacts ==
  ASSUME TypeOK, NEW w \in Writers, WriteMessage(w)
  PROVE  /\ Dest(w) \in Sides
         /\ \A s \in Sides : s # Dest(w) => wire'[s] = wire[s]
         /\ Len(wire[Dest(w)]) \in Nat
         /\ Len(wire'[Dest(w)]) = Len(wire[Dest(w)]) + 1
         /\ \A i \in 1..Len(wire[Dest(w)]) : wire'[Dest(w)][i] = wire[Dest(w)][i]
         /\ wire'[Dest(w)][Len(wire[Dest(w)]) + 1] = Payload(w)
<1>1. Dest(w) \in Sides
  BY DestType
<1>2. wire[Dest(w)] \in Seq(FrameSet)
  BY <1>1 DEF TypeOK, FrameSet
<1>3. Payload(w) \in FrameSet
  BY SMT DEF TypeOK, Payload, Frame, GatewayFrame, FrameSet
<1>4. wire'[Dest(w)] = Append(wire[Dest(w)], Payload(w))
  BY <1>1 DEF TypeOK, WriteMessage
<1>5. \A s \in Sides : s # Dest(w) => wire'[s] = wire[s]
  BY DEF TypeOK, WriteMessage
<1> DEFINE q == wire[Dest(w)]
           f == Payload(w)
<1>6. /\ Len(Append(q, f)) = Len(q) + 1
      /\ Len(q) \in Nat
      /\ \A i \in 1..Len(q) : Append(q, f)[i] = q[i]
      /\ Append(q, f)[Len(q) + 1] = f
  <2> HIDE DEF q, f, FrameSet
  <2>1. q \in Seq(FrameSet) /\ f \in FrameSet
    BY <1>2, <1>3 DEF q, f
  <2> QED BY <2>1, AppendFacts, Zenon
<1>7. wire'[Dest(w)] = Append(q, f)
  BY <1>4
<1> HIDE DEF f
<1> QED BY <1>1, <1>5, <1>6, <1>7 DEF f

LEMMA StreamWrite ==
  ASSUME TypeOK, StreamInv, ForwardedInOrder, NEW w \in Writers, WriteMessage(w)
  PROVE  StreamInv' /\ ForwardedInOrder'
<1> DEFINE d == Dest(w)
           forwarding == w \in Pumps /\ pc[w] = "write"
<1>1. /\ d \in Sides
      /\ \A s \in Sides : s # d => wire'[s] = wire[s]
      /\ Len(wire[d]) \in Nat
      /\ Len(wire'[d]) = Len(wire[d]) + 1
      /\ \A i \in 1..Len(wire[d]) : wire'[d][i] = wire[d][i]
      /\ wire'[d][Len(wire[d]) + 1] = Payload(w)
  BY WriteFacts, Zenon
<1>2. /\ forwarding => d = Other(w) /\ Payload(w) = Frame(w, read[w])
      /\ ~forwarding => Payload(w) = Frame("gateway", 0)
      /\ w \in Pumps /\ ~forwarding => pc[w] = "replying"
  BY ProxyAssumption DEF WriteMessage, Writing, Dest, Payload, GatewayFrame
<1>3. /\ UNCHANGED <<read, consumed>>
      /\ \A s \in Sides : pc'[s] = IF s = w THEN "read" ELSE pc[s]
      /\ \A s \in Sides : read[s] \in Nat
      /\ \A s \in Sides : consumed[s] \subseteq Nat
  BY ProxyAssumption, SMT DEF TypeOK, WriteMessage, AfterWrite
<1>4. \A s \in Sides : \A i \in 1..Len(wire[s]) : wire[s][i].num \in Nat
  BY WireNum
<1> HIDE DEF d
<1>5. ForwardedInOrder'
  <2> SUFFICES ASSUME NEW s \in Sides,
                      NEW i \in 1..Len(wire'[s]), NEW j \in 1..Len(wire'[s]), i < j,
                      wire'[s][i].src = Other(s), wire'[s][j].src = Other(s)
               PROVE  wire'[s][i].num < wire'[s][j].num
    BY DEF ForwardedInOrder
  <2>1. CASE s # d \/ j \in 1..Len(wire[s])
    BY <1>1, <2>1, SMTT(30) DEF ForwardedInOrder
  <2>2. CASE s = d /\ j = Len(wire[d]) + 1
    <3>1. i \in 1..Len(wire[d]) /\ wire'[s][i] = wire[d][i]
      BY <1>1, <2>2
    <3>2. forwarding /\ Other(s) = w /\ wire'[s][j].num = read[w]
      BY <1>1, <1>2, <2>2 DEF Frame
    <3>3. InHand(w) /\ StreamOK(w)
      BY <3>2 DEF InHand, StreamInv
    <3>4. wire[d][i].num < read[w]
      BY <2>2, <3>1, <3>2, <3>3 DEF StreamOK
    <3> QED BY <3>1, <3>2, <3>4
  <2> QED BY <1>1, <2>1, <2>2
<1>6. ASSUME NEW s \in Sides
      PROVE  StreamOK(s)'
  <2> USE DEF Frame
  <2>1. StreamOK(s)
    BY DEF StreamInv
  <2>2. CASE forwarding /\ s = w
    <3>1. InHand(s) /\ ~InHand(s)' /\ Other(s) = d
      BY <1>2, <1>3, <2>2 DEF InHand
    <3>a. /\ wire'[d][Len(wire[d]) + 1] = [src |-> s, num |-> read[s]]
          /\ \A i \in 1..Len(wire'[d]) : i \in 1..Len(wire[d]) \/ i = Len(wire[d]) + 1
          /\ 1..Len(wire[d]) \subseteq 1..Len(wire'[d])
          /\ Len(wire[d]) + 1 \in 1..Len(wire'[d])
      BY <1>1, <1>2, <2>2
    <3>2. \A n : OnWire(s, n)' <=> OnWire(s, n) \/ n = read[s]
      BY <1>1, <3>1, <3>a, SMTT(40) DEF OnWire
    <3>3. \A n \in consumed'[s] : n <= read'[s] /\ ~OnWire(s, n)'
      BY <1>3, <2>1, <3>1, <3>2 DEF StreamOK
    <3>4. \A n \in 1..read'[s] : Disposed(s, n)'
      BY <1>3, <2>1, <3>2 DEF StreamOK, Disposed
    <3>5. \A i \in 1..Len(wire'[Other(s)]) :
            wire'[Other(s)][i].src = s => wire'[Other(s)][i].num <= read'[s]
      <4>1. SUFFICES ASSUME NEW i \in 1..Len(wire'[d]), wire'[d][i].src = s
                     PROVE  wire'[d][i].num <= read[s]
        BY <1>3, <3>1
      <4>2. CASE i \in 1..Len(wire[d])
        <5>1. wire'[d][i] = wire[d][i]
          BY <1>1, <4>2
        <5>2. i \in 1..Len(wire[Other(s)]) /\ wire[Other(s)][i].src = s
          BY <3>1, <4>1, <4>2, <5>1
        <5>3. wire[Other(s)][i].num <= read[s]
          BY <2>1, <5>2, SMTT(30) DEF StreamOK
        <5> QED BY <3>1, <5>1, <5>3
      <4>3. CASE i = Len(wire[d]) + 1
        <5>1. wire'[d][i].num = read[s]
          BY <2>2, <3>a, <4>3
        <5> QED BY <1>3, <5>1
      <4> QED BY <3>a, <4>2, <4>3
    <3> QED BY <3>1, <3>3, <3>4, <3>5 DEF StreamOK
  <2>3. CASE ~(forwarding /\ s = w)
    <3>1. /\ InHand(s)' <=> InHand(s)
          /\ pc'[s] \in {"off", "read", "reply", "replying"}
               => pc[s] \in {"off", "read", "reply", "replying"}
      BY <1>2, <1>3, <2>3 DEF InHand
    <3>2. Other(s) = d => Payload(w).src # s
      BY <1>2, <2>3
    <3>3. \A n : OnWire(s, n)' <=> OnWire(s, n)
      <4>1. CASE Other(s) # d
        BY <1>1, <4>1 DEF OnWire
      <4>2. CASE Other(s) = d
        <5>1. /\ \A i \in 1..Len(wire'[d]) : i \in 1..Len(wire[d]) \/ i = Len(wire[d]) + 1
              /\ 1..Len(wire[d]) \subseteq 1..Len(wire'[d])
          BY <1>1
        <5>2. \A n : wire'[d][Len(wire[d]) + 1] # Frame(s, n)
          BY <1>1, <3>2, <4>2 DEF Frame
        <5> QED BY <1>1, <4>2, <5>1, <5>2, SMTT(30) DEF OnWire
      <4> QED BY <4>1, <4>2
    <3>4. \A i \in 1..Len(wire'[Other(s)]) :
            wire'[Other(s)][i].src = s =>
              i \in 1..Len(wire[Other(s)]) /\ wire'[Other(s)][i] = wire[Other(s)][i]
      <4>1. CASE Other(s) # d
        BY <1>1, <4>1
      <4>2. CASE Other(s) = d
        BY <1>1, <3>2, <4>2, SMTT(30)
      <4> QED BY <4>1, <4>2
    <3>5. \A n \in consumed'[s] : n <= read'[s] /\ ~OnWire(s, n)'
      BY <1>3, <2>1, <3>3 DEF StreamOK
    <3>6. \A n \in 1..read'[s] :
            n < read'[s] \/ pc'[s] \in {"off", "read", "reply", "replying"}
              => Disposed(s, n)'
      BY <1>3, <2>1, <3>1, <3>3 DEF StreamOK, Disposed
    <3>7. \A i \in 1..Len(wire'[Other(s)]) :
            wire'[Other(s)][i].src = s =>
              /\ wire'[Other(s)][i].num <= read'[s]
              /\ InHand(s)' => wire'[Other(s)][i].num < read'[s]
      BY <1>3, <2>1, <3>1, <3>4 DEF StreamOK
    <3>8. InHand(s)' => read'[s] # 0 /\ read'[s] \notin consumed'[s]
      BY <1>3, <2>1, <3>1 DEF StreamOK
    <3> QED BY <3>5, <3>6, <3>7, <3>8 DEF StreamOK
  <2> QED BY <2>2, <2>3
<1> QED BY <1>5, <1>6 DEF StreamInv

LEMMA StreamStep ==
  ASSUME TypeOK, TearDownInv, StreamInv, ForwardedInOrder, [Next]_vars
  PROVE  StreamInv' /\ ForwardedInOrder'
<1> USE ProxyAssumption
<1>1. CASE Remote
  BY <1>1, StreamQuietKeeps
  DEF Remote, RemoteSend, RemoteTake, RemoteHangup, StreamQuiet, InHand
<1>2. CASE Handler
  <2>1. StreamQuiet
    BY <1>2, SMT DEF Handler, DialKit, DialFails, StartPumps, FactoryFails,
       StreamQuiet, InHand, TypeOK, TearDownInv
  <2> QED BY <2>1, StreamQuietKeeps
<1>3. ASSUME NEW p \in Pumps, PumpStep(p)
      PROVE  StreamInv' /\ ForwardedInOrder'
  <2>1. CASE ReadMessage(p)
    BY <2>1, StreamRead
  <2>2. CASE HookConsumes(p)
    BY <2>2, StreamConsume
  <2>3. CASE ~ReadMessage(p) /\ ~HookConsumes(p)
    <3>1. StreamQuiet
      BY <1>3, <2>3, SMT
      DEF PumpStep, ReadFails, HookForwards, HookFails, EnterOnce, SkipOnce,
          CloseClient, CloseKit, CloseSocket, OnClose, StreamQuiet, InHand, TypeOK
    <3> QED BY <3>1, StreamQuietKeeps
  <2> QED BY <2>1, <2>2, <2>3
<1>4. ASSUME NEW i \in Injectors, InjectorStarts(i)
      PROVE  StreamInv' /\ ForwardedInOrder'
  <2>1. StreamQuiet
    BY <1>4, SMT DEF InjectorStarts, StreamQuiet, InHand, TypeOK
  <2> QED BY <2>1, StreamQuietKeeps
<1>5. ASSUME NEW w \in Writers, WriteStep(w)
      PROVE  StreamInv' /\ ForwardedInOrder'
  <2>1. CASE WriteMessage(w)
    BY <2>1, StreamWrite
  <2>2. CASE Lock(w) \/ WriteFails(w)
    <3>1. StreamQuiet
      BY <2>2, SMT DEF Lock, WriteFails, Waiting, Writing, AfterFailedWrite,
         StreamQuiet, InHand, TypeOK
    <3> QED BY <3>1, StreamQuietKeeps
  <2> QED BY <1>5, <2>1, <2>2 DEF WriteStep
<1>6. CASE UNCHANGED vars
  BY <1>6, StreamQuietKeeps DEF vars, StreamQuiet, InHand
<1> QED
  BY <1>1, <1>2, <1>3, <1>4, <1>5, <1>6 DEF Next, Finished

LEMMA StreamInit == Init => StreamInv /\ ForwardedInOrder
BY SMT DEF Init, StreamInv, StreamOK, ForwardedInOrder, InHand

LEMMA StreamsAlways == Spec => [](TypeOK /\ StreamInv /\ ForwardedInOrder)
<1>1. TypeOK /\ TearDownInv /\ StreamInv /\ ForwardedInOrder /\ [Next]_vars
        => (StreamInv /\ ForwardedInOrder)'
  BY StreamStep
<1> QED BY <1>1, StreamInit, TearDownAlways, PTL DEF Spec

\* The frames of a direction reach the other socket in the order in which
\* they were read, each at most once, whatever is written between them
\* (proxy.go:102-127).
THEOREM ForwardOrder == Spec => []ForwardedInOrder
BY StreamsAlways, PTL

\* Only the frame in a pump's hands when it fails can be lost; a forwarded
\* frame is not also consumed (proxy.go:109-126).
THEOREM NoLossMidStream == Spec => []NothingLostMidStream
<1>1. TypeOK /\ StreamInv => NothingLostMidStream
  BY DEF StreamInv, StreamOK, NothingLostMidStream, Disposed
<1> QED BY <1>1, StreamsAlways, PTL

-----------------------------------------------------------------------------
(* Refinement of FrameRelay.                                               *)

\* How the two mapped variables move when only the pc and the read count of
\* one pump change.
Unmoved ==
  /\ \A s \in Sides : (InHand(s)' <=> InHand(s)) /\ (s \in Stopped' <=> s \in Stopped)
  /\ UNCHANGED <<read, wire>>

LEMMA UnmovedStutters ==
  TypeOK /\ Unmoved => UNCHANGED <<Accepted, Stopped, wire>>
BY SMT DEF Unmoved, Accepted, Stopped

\* A pump lets go of the frame in its hands: the relay has accepted it.
LEMMA OneAccepted ==
  ASSUME TypeOK, NEW p \in Sides, InHand(p), read[p] # 0, read' = read, ~InHand(p)',
         \A s \in Sides : s # p => (InHand(s)' <=> InHand(s))
  PROVE  Accepted' = [Accepted EXCEPT ![p] = @ + 1] /\ Accepted[p] + 1 = read[p]
<1>1. \A s \in Sides : read[s] \in Nat
  BY DEF TypeOK
<1>2. /\ Accepted = [s \in Sides |-> IF InHand(s) THEN read[s] - 1 ELSE read[s]]
      /\ Accepted' = [s \in Sides |-> IF InHand(s)' THEN read[s] - 1 ELSE read[s]]
  BY DEF Accepted
<1>3. Accepted[p] + 1 = read[p] /\ Accepted'[p] = Accepted[p] + 1
  BY <1>1, <1>2
<1>4. \A s \in Sides : s # p => Accepted'[s] = Accepted[s]
  BY <1>1, <1>2
<1>5. Accepted' = [s \in Sides |-> IF s = p THEN Accepted[p] + 1 ELSE Accepted[s]]
  BY <1>2, <1>3, <1>4
<1> QED BY <1>2, <1>3, <1>5

LEMMA RelayRemote ==
  ASSUME TypeOK, Remote
  PROVE  Unmoved
BY DEF Remote, RemoteSend, RemoteTake, RemoteHangup, Unmoved, InHand, Stopped

LEMMA RelayHandler ==
  ASSUME TypeOK, TearDownInv, Handler
  PROVE  Unmoved
BY ProxyAssumption, SMT
DEF Handler, DialKit, DialFails, StartPumps, FactoryFails, Unmoved, InHand,
    Stopped, TypeOK, TearDownInv

LEMMA RelayPump ==
  ASSUME TypeOK, StreamInv, NEW p \in Pumps, PumpStep(p)
  PROVE  Relay!RelayNext \/ UNCHANGED <<Accepted, Stopped, wire>>
<1> USE DEF TypeOK, Relay!Sides, Relay!Other, Relay!Accept
<1>a. read[p] \in Nat /\ p \in Relay!Sides
  OBVIOUS
<1>b. InHand(p) => read[p] # 0
  BY DEF StreamInv, StreamOK
<1>1. CASE ReadMessage(p)
  <2>1. Accepted' = Accepted /\ Stopped' = Stopped /\ wire' = wire
    BY <1>1, <1>a, SMT DEF ReadMessage, Accepted, Stopped, InHand
  <2> QED BY <2>1
<1>2. CASE ReadFails(p)
  <2>1. Relay!Stop(p)
    BY <1>2, <1>a, SMT DEF ReadFails, Relay!Stop, Accepted, Stopped, InHand
  <2> QED BY <2>1, <1>a DEF Relay!RelayNext
<1>3. CASE HookConsumes(p)
  <2>1. PICK q \in {"read", "reply"} : pc' = [pc EXCEPT ![p] = q]
    BY <1>3 DEF HookConsumes
  <2>2. /\ InHand(p) /\ ~InHand(p)' /\ read' = read /\ wire' = wire
        /\ \A s \in Sides : s # p => (InHand(s)' <=> InHand(s))
    BY <1>3, <2>1, SMT DEF HookConsumes, InHand
  <2>3. p \notin Stopped /\ Stopped' = Stopped
    BY <1>3, <2>1, SMT DEF HookConsumes, Stopped
  <2>4. Accepted' = [Accepted EXCEPT ![p] = @ + 1]
    BY <1>b, <2>2, OneAccepted
  <2>5. Relay!Consume(p)
    BY <2>2, <2>3, <2>4 DEF Relay!Consume
  <2> QED BY <2>5, <1>a DEF Relay!RelayNext
<1>4. CASE HookFails(p)
  <2>1. /\ InHand(p) /\ ~InHand(p)' /\ read' = read /\ wire' = wire
        /\ \A s \in Sides : s # p => (InHand(s)' <=> InHand(s))
    BY <1>4, SMT DEF HookFails, InHand
  <2>2. p \notin Stopped /\ Stopped' = Stopped \cup {p}
    BY <1>4, SMT DEF HookFails, Stopped
  <2>3. Accepted' = [Accepted EXCEPT ![p] = @ + 1]
    BY <1>b, <2>1, OneAccepted
  <2>4. Relay!Drop(p)
    BY <2>1, <2>2, <2>3 DEF Relay!Drop
  <2> QED BY <2>4, <1>a DEF Relay!RelayNext
<1>5. CASE HookForwards(p) \/ EnterOnce(p) \/ SkipOnce(p) \/ CloseClient(p)
           \/ CloseKit(p) \/ OnClose(p)
  <2>1. Unmoved
    BY <1>5, SMT DEF HookForwards, EnterOnce, SkipOnce, CloseClient, CloseKit,
       CloseSocket, OnClose, Unmoved, InHand, Stopped
  <2> QED BY <2>1, UnmovedStutters
<1> QED BY <1>1, <1>2, <1>3, <1>4, <1>5 DEF PumpStep

LEMMA RelayWrite ==
  ASSUME TypeOK, StreamInv, NEW w \in Writers, WriteStep(w)
  PROVE  Relay!RelayNext \/ UNCHANGED <<Accepted, Stopped, wire>>
<1> USE ProxyAssumption DEF TypeOK, Relay!Sides, Relay!Other, Relay!Accept
<1>1. CASE Lock(w)
  <2>1. Unmoved
    BY <1>1, SMT DEF Lock, Waiting, Unmoved, InHand, Stopped
  <2> QED BY <2>1, UnmovedStutters
<1>2. CASE w \in Pumps /\ pc[w] = "write"
  <2>1. read[w] \in Nat /\ read[w] # 0 /\ InHand(w)
    BY <1>2 DEF StreamInv, StreamOK, InHand
  <2>2. CASE WriteMessage(w)
    <3>1. Dest(w) = Other(w) /\ Payload(w) = Frame(w, read[w])
      BY <1>2 DEF Dest, Payload
    <3>2. /\ wire' = [wire EXCEPT ![Other(w)] = Append(@, Frame(w, read[w]))]
          /\ pc' = [pc EXCEPT ![w] = "read"]
          /\ read' = read
      BY <1>2, <2>2, <3>1 DEF WriteMessage, AfterWrite
    <3>3. ~InHand(w)' /\ \A s \in Sides : s # w => (InHand(s)' <=> InHand(s))
      BY <1>2, <3>2, SMT DEF InHand
    <3>4. Accepted' = [Accepted EXCEPT ![w] = @ + 1] /\ Accepted[w] + 1 = read[w]
      BY <1>2, <2>1, <3>2, <3>3, OneAccepted
    <3>5. Stopped' = Stopped /\ w \notin Stopped
      BY <1>2, <3>2, SMT DEF Stopped
    <3>6. Relay!Forward(w)
      BY <1>2, <3>2, <3>4, <3>5 DEF Relay!Forward, Relay!Frame, Frame
    <3> QED BY <1>2, <3>6 DEF Relay!RelayNext
  <2>3. CASE WriteFails(w)
    <3>1. /\ pc' = [pc EXCEPT ![w] = "once"]
          /\ UNCHANGED <<read, wire>>
      BY <1>2, <2>3 DEF WriteFails, AfterFailedWrite
    <3>2. ~InHand(w)' /\ \A s \in Sides : s # w => (InHand(s)' <=> InHand(s))
      BY <1>2, <3>1, SMT DEF InHand
    <3>3. Accepted' = [Accepted EXCEPT ![w] = @ + 1]
      BY <1>2, <2>1, <3>1, <3>2, OneAccepted
    <3>4. w \notin Stopped /\ Stopped' = Stopped \cup {w}
      BY <1>2, <3>1, SMT DEF Stopped
    <3>5. Relay!Drop(w)
      BY <1>2, <3>1, <3>3, <3>4 DEF Relay!Drop
    <3> QED BY <1>2, <3>5 DEF Relay!RelayNext
  <2> QED BY <1>1, <2>2, <2>3 DEF WriteStep
<1>3. CASE ~(w \in Pumps /\ pc[w] = "write") /\ WriteMessage(w)
  <2>1. Dest(w) \in Sides
    BY DestType
  <2>2. wire' = [wire EXCEPT ![Dest(w)] = Append(@, GatewayFrame)]
    BY <1>3 DEF WriteMessage, Payload
  <2>3. Accepted' = Accepted /\ Stopped' = Stopped
    BY <1>3, SMT DEF WriteMessage, Writing, AfterWrite, Accepted, Stopped, InHand
  <2>4. Relay!Originate(Dest(w))
    BY <2>1, <2>2, <2>3 DEF Relay!Originate, Relay!GatewayFrame, Relay!Frame,
       GatewayFrame, Frame
  <2> QED BY <2>1, <2>4 DEF Relay!RelayNext
<1>4. CASE ~(w \in Pumps /\ pc[w] = "write") /\ WriteFails(w)
  <2>1. Unmoved
    BY <1>4, SMT DEF WriteFails, Writing, AfterFailedWrite, Unmoved, InHand, Stopped
  <2> QED BY <2>1, UnmovedStutters
<1> QED BY <1>1, <1>2, <1>3, <1>4 DEF WriteStep

\* The proxy implements the relay: every step of a pump, a callback or a
\* remote is one relay step or invisible to the two ends.
THEOREM ImplementsRelay == Spec => RefinesRelay
<1>1. Init => Relay!RelayInit
  BY SMT DEF Init, Relay!RelayInit, Relay!Sides, Accepted, Stopped, InHand
<1>2. TypeOK /\ TearDownInv /\ StreamInv /\ [Next]_vars
        => [Relay!RelayNext]_(Relay!relayVars)
  <2> SUFFICES ASSUME TypeOK, TearDownInv, StreamInv, [Next]_vars
               PROVE  Relay!RelayNext \/ UNCHANGED <<Accepted, Stopped, wire>>
    BY DEF Relay!relayVars
  <2>1. CASE Remote \/ Handler
    BY <2>1, RelayRemote, RelayHandler, UnmovedStutters
  <2>2. CASE \E i \in Injectors : InjectorStarts(i)
    <3>1. Unmoved
      BY <2>2, ProxyAssumption, SMT
      DEF InjectorStarts, Unmoved, InHand, Stopped, TypeOK
    <3> QED BY <3>1, UnmovedStutters
  <2>3. CASE UNCHANGED vars
    <3>1. Unmoved
      BY <2>3 DEF vars, Unmoved, InHand, Stopped
    <3> QED BY <3>1, UnmovedStutters
  <2> QED
    BY <2>1, <2>2, <2>3, RelayPump, RelayWrite DEF Next, Finished
<1> QED
  BY <1>1, <1>2, TearDownAlways, StreamsAlways, PTL DEF Spec, RefinesRelay, Relay!RelaySpec
=============================================================================
