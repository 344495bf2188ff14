--------------------------- MODULE SignalingProxy ---------------------------
(***************************************************************************)
(* gateway-go/internal/proxy/proxy.go: one browser connection paired with  *)
(* one Kit connection.  Two pump goroutines, one per direction, read a     *)
(* frame, run the hook of that direction and forward the frame; callbacks  *)
(* of the session layer (Injectors) write frames of the gateway's own.     *)
(* Every write takes the mutex of its side.  The first pump that fails     *)
(* tears the session down under closeOnce.                                 *)
(*                                                                         *)
(* A side is named by its socket; a pump by the side it reads from.  The   *)
(* frames of a side are numbered 1, 2, ... in sending order, so sent[s]    *)
(* and read[s] stand for the inbound stream.  wire[s] is everything that   *)
(* was written to side s and taken[s] how much of it the remote has read.  *)
(***************************************************************************)
EXTENDS Naturals, Sequences

CONSTANTS
  MaxFrames,   \* bound: frames a remote sends
  SocketCap,   \* frames a socket holds before a sender blocks
  Injectors,   \* callbacks that call Send or SendToKit, one write each
  Repliers,    \* sides whose hook may answer a frame on the same socket
  NoOne        \* value of a free mutex

Sides == {"client", "kit"}
Pumps == Sides
Writers == Pumps \cup Injectors
Other(s) == IF s = "client" THEN "kit" ELSE "client"
Frame(s, n) == [src |-> s, num |-> n]
GatewayFrame == Frame("gateway", 0)

ASSUME ProxyAssumption ==
  /\ MaxFrames \in Nat
  /\ SocketCap \in Nat \ {0}
  /\ Repliers \subseteq Sides
  /\ Injectors \cap Sides = {}
  /\ NoOne \notin Writers

VARIABLES
  handler,   \* ServeHTTP: "dial", "factory", "serving" or "refused"
  conn,      \* conn[s]: "none", "up", "gone" (remote end lost) or "closed"
  sent,      \* sent[s]: frames the remote of side s has sent
  read,      \* read[s]: frames the pump of side s has read
  consumed,  \* consumed[s]: numbers of the frames the hook kept
  wire,      \* wire[s]: frames written to side s
  taken,     \* taken[s]: frames of wire[s] the remote has read
  lock,      \* lock[s]: holder of clientWrite / kitWrite
  pc,        \* pc[w]: where goroutine w stands
  target,    \* target[i]: the side injector i writes to
  once,      \* closeOnce: "idle", "running" or "done"
  closed     \* number of OnClose invocations

vars == <<handler, conn, sent, read, consumed, wire, taken, lock, pc,
          target, once, closed>>

Init ==
  /\ handler = "dial"
  /\ conn = [s \in Sides |-> IF s = "client" THEN "up" ELSE "none"]
  /\ sent = [s \in Sides |-> 0]
  /\ read = [s \in Sides |-> 0]
  /\ consumed = [s \in Sides |-> {}]
  /\ wire = [s \in Sides |-> << >>]
  /\ taken = [s \in Sides |-> 0]
  /\ lock = [s \in Sides |-> NoOne]
  /\ pc = [w \in Writers |-> "off"]
  /\ target \in [Injectors -> Sides]
  /\ once = "idle"
  /\ closed = 0

-----------------------------------------------------------------------------
(* The remote ends: the browser and Kit.                                   *)

RemoteSend(s) ==
  /\ conn[s] = "up"
  /\ sent[s] < MaxFrames
  /\ sent[s] - read[s] < SocketCap
  /\ sent' = [sent EXCEPT ![s] = @ + 1]
  /\ UNCHANGED <<handler, conn, read, consumed, wire, taken, lock, pc,
                 target, once, closed>>

RemoteTake(s) ==
  /\ conn[s] = "up"
  /\ taken[s] < Len(wire[s])
  /\ taken' = [taken EXCEPT ![s] = @ + 1]
  /\ UNCHANGED <<handler, conn, sent, read, consumed, wire, lock, pc,
                 target, once, closed>>

RemoteHangup(s) ==
  /\ conn[s] = "up"
  /\ conn' = [conn EXCEPT ![s] = "gone"]
  /\ UNCHANGED <<handler, sent, read, consumed, wire, taken, lock, pc,
                 target, once, closed>>

-----------------------------------------------------------------------------
(* The HTTP handler, after the browser's upgrade.                          *)

DialKit ==
  /\ handler = "dial"
  /\ handler' = "factory"
  /\ conn' = [conn EXCEPT !["kit"] = "up"]
  /\ UNCHANGED <<sent, read, consumed, wire, taken, lock, pc, target, once,
                 closed>>

DialFails ==
  /\ handler = "dial"
  /\ handler' = "refused"
  /\ conn' = [conn EXCEPT !["client"] = "closed"]
  /\ UNCHANGED <<sent, read, consumed, wire, taken, lock, pc, target, once,
                 closed>>

\* The factory sets the hooks; only then do the two pumps start.
StartPumps ==
  /\ handler = "factory"
  /\ handler' = "serving"
  /\ pc' = [w \in Writers |-> IF w \in Pumps THEN "read" ELSE pc[w]]
  /\ UNCHANGED <<conn, sent, read, consumed, wire, taken, lock, target, once,
                 closed>>

FactoryFails ==
  /\ handler = "factory"
  /\ handler' = "refused"
  /\ conn' = [s \in Sides |-> "closed"]
  /\ UNCHANGED <<sent, read, consumed, wire, taken, lock, pc, target, once,
                 closed>>

-----------------------------------------------------------------------------
(* pump(): read, hook, forward.                                            *)

\* Frames already buffered can be returned even after the socket is lost.
ReadMessage(p) ==
  /\ pc[p] = "read"
  /\ read[p] < sent[p]
  /\ read' = [read EXCEPT ![p] = @ + 1]
  /\ pc' = [pc EXCEPT ![p] = "hook"]
  /\ UNCHANGED <<handler, conn, sent, consumed, wire, taken, lock, target,
                 once, closed>>

ReadFails(p) ==
  /\ pc[p] = "read"
  /\ conn[p] # "up"
  /\ pc' = [pc EXCEPT ![p] = "once"]
  /\ UNCHANGED <<handler, conn, sent, read, consumed, wire, taken, lock,
                 target, once, closed>>

HookForwards(p) ==
  /\ pc[p] = "hook"
  /\ pc' = [pc EXCEPT ![p] = "lock"]
  /\ UNCHANGED <<handler, conn, sent, read, consumed, wire, taken, lock,
                 target, once, closed>>

HookConsumes(p) ==
  /\ pc[p] = "hook"
  /\ consumed' = [consumed EXCEPT ![p] = @ \cup {read[p]}]
  /\ \/ pc' = [pc EXCEPT ![p] = "read"]
     \/ p \in Repliers /\ pc' = [pc EXCEPT ![p] = "reply"]
  /\ UNCHANGED <<handler, conn, sent, read, wire, taken, lock, target, once,
                 closed>>

HookFails(p) ==
  /\ pc[p] = "hook"
  /\ pc' = [pc EXCEPT ![p] = "once"]
  /\ UNCHANGED <<handler, conn, sent, read, consumed, wire, taken, lock,
                 target, once, closed>>

-----------------------------------------------------------------------------
(* writeToClient / writeToKit, called by a pump to forward ("lock" then    *)
(* "write"), by a hook to reply ("reply" then "replying") and by an        *)
(* injector.                                                               *)

InjectorStarts(i) ==
  /\ handler = "serving"
  /\ pc[i] = "off"
  /\ pc' = [pc EXCEPT ![i] = "lock"]
  /\ UNCHANGED <<handler, conn, sent, read, consumed, wire, taken, lock,
                 target, once, closed>>

Dest(w) ==
  IF w \in Injectors THEN target[w]
  ELSE IF pc[w] \in {"reply", "replying"} THEN w ELSE Other(w)

Waiting(w) == pc[w] \in {"lock", "reply"}
Writing(w) == pc[w] \in {"write", "replying"}

Payload(w) == IF pc[w] = "write" /\ w \in Pumps THEN Frame(w, read[w])
              ELSE GatewayFrame

AfterWrite(w) == IF w \in Pumps THEN "read" ELSE "done"
\* Mutants: a failed Send tears the session down; a failed forward does not.
AfterFailedWriteStop(w) == IF pc[w] = "write" THEN "once" ELSE "read"
AfterFailedWriteGoOn(w) == IF w \in Injectors THEN "done" ELSE "read"

AfterFailedWrite(w) ==
  IF w \in Injectors THEN "done"
  ELSE IF pc[w] = "write" THEN "once" ELSE "read"

\* Mutant: no mutex.
LockFree(w) ==
  /\ Waiting(w)
  /\ lock' = [lock EXCEPT ![Dest(w)] = w]
  /\ pc' = [pc EXCEPT ![w] = IF @ = "lock" THEN "write" ELSE "replying"]
  /\ UNCHANGED <<handler, conn, sent, read, consumed, wire, taken, target,
                 once, closed>>

Lock(w) ==
  /\ Waiting(w)
  /\ lock[Dest(w)] = NoOne
  /\ lock' = [lock EXCEPT ![Dest(w)] = w]
  /\ pc' = [pc EXCEPT ![w] = IF @ = "lock" THEN "write" ELSE "replying"]
  /\ UNCHANGED <<handler, conn, sent, read, consumed, wire, taken, target,
                 once, closed>>

Room(s) == Len(wire[s]) - taken[s] < SocketCap

\* Mutant: the frame may be written again.
WriteMessageAgain(w) ==
  /\ Writing(w)
  /\ conn[Dest(w)] \in {"up", "gone"}
  /\ Room(Dest(w))
  /\ wire' = [wire EXCEPT ![Dest(w)] = Append(@, Payload(w))]
  /\ UNCHANGED <<handler, conn, sent, read, consumed, taken, lock, pc, target,
                 once, closed>>

\* A socket whose remote is gone may still swallow a frame.
WriteMessage(w) ==
  /\ Writing(w)
  /\ conn[Dest(w)] \in {"up", "gone"}
  /\ Room(Dest(w))
  /\ wire' = [wire EXCEPT ![Dest(w)] = Append(@, Payload(w))]
  /\ lock' = [lock EXCEPT ![Dest(w)] = NoOne]
  /\ pc' = [pc EXCEPT ![w] = AfterWrite(w)]
  /\ UNCHANGED <<handler, conn, sent, read, consumed, taken, target, once,
                 closed>>

\* Mutant: the mutex is not released on the error path.
WriteFailsLocked(w) ==
  /\ Writing(w)
  /\ conn[Dest(w)] # "up"
  /\ pc' = [pc EXCEPT ![w] = AfterFailedWrite(w)]
  /\ UNCHANGED <<handler, conn, sent, read, consumed, wire, taken, lock, target,
                 once, closed>>

WriteFails(w) ==
  /\ Writing(w)
  /\ conn[Dest(w)] # "up"
  /\ lock' = [lock EXCEPT ![Dest(w)] = NoOne]
  /\ pc' = [pc EXCEPT ![w] = AfterFailedWrite(w)]
  /\ UNCHANGED <<handler, conn, sent, read, consumed, wire, taken, target,
                 once, closed>>

-----------------------------------------------------------------------------
(* tearDown(): closeOnce lets one pump close both sockets and call         *)
(* OnClose; the other one waits until that is done.                        *)

EnterOnce(p) ==
  /\ pc[p] = "once"
  /\ once = "idle"
  /\ once' = "running"
  /\ pc' = [pc EXCEPT ![p] = "closeClient"]
  /\ UNCHANGED <<handler, conn, sent, read, consumed, wire, taken, lock,
                 target, closed>>

\* Mutant: a flag in place of sync.Once, so the second caller does not wait.
SkipRunning(p) ==
  /\ pc[p] = "once"
  /\ once # "idle"
  /\ pc' = [pc EXCEPT ![p] = "done"]
  /\ UNCHANGED <<handler, conn, sent, read, consumed, wire, taken, lock,
                 target, once, closed>>

SkipOnce(p) ==
  /\ pc[p] = "once"
  /\ once = "done"
  /\ pc' = [pc EXCEPT ![p] = "done"]
  /\ UNCHANGED <<handler, conn, sent, read, consumed, wire, taken, lock,
                 target, once, closed>>

CloseSocket(p, here, s, next) ==
  /\ pc[p] = here
  /\ conn' = [conn EXCEPT ![s] = "closed"]
  /\ pc' = [pc EXCEPT ![p] = next]
  /\ UNCHANGED <<handler, sent, read, consumed, wire, taken, lock, target,
                 once, closed>>

CloseClient(p) == CloseSocket(p, "closeClient", "client", "closeKit")
\* Mutant: only the browser's socket is closed.
KeepKit(p) == CloseSocket(p, "closeKit", "client", "onClose")

CloseKit(p) == CloseSocket(p, "closeKit", "kit", "onClose")

\* Mutant: no return after tearDown.
OnCloseGoOn(p) ==
  /\ pc[p] = "onClose"
  /\ closed' = closed + 1
  /\ once' = "done"
  /\ pc' = [pc EXCEPT ![p] = "read"]
  /\ UNCHANGED <<handler, conn, sent, read, consumed, wire, taken, lock,
                 target>>

OnClose(p) ==
  /\ pc[p] = "onClose"
  /\ closed' = closed + 1
  /\ once' = "done"
  /\ pc' = [pc EXCEPT ![p] = "done"]
  /\ UNCHANGED <<handler, conn, sent, read, consumed, wire, taken, lock,
                 target>>

-----------------------------------------------------------------------------
Remote ==
  \E s \in Sides : RemoteSend(s) \/ RemoteTake(s) \/ RemoteHangup(s)

Handler == DialKit \/ DialFails \/ StartPumps \/ FactoryFails

PumpStep(p) ==
  \/ ReadMessage(p) \/ ReadFails(p)
  \/ HookForwards(p) \/ HookConsumes(p) \/ HookFails(p)
  \/ EnterOnce(p) \/ SkipOnce(p)
  \/ CloseClient(p) \/ CloseKit(p) \/ OnClose(p)

WriteStep(w) == Lock(w) \/ WriteMessage(w) \/ WriteFails(w)

\* The session is over: nothing is left to run.
Finished ==
  /\ handler = "refused" \/ \A w \in Writers : pc[w] = "done"
  /\ \A s \in Sides : conn[s] # "up"
  /\ UNCHANGED vars

Next ==
  \/ Remote
  \/ Handler
  \/ \E p \in Pumps : PumpStep(p)
  \/ \E i \in Injectors : InjectorStarts(i)
  \/ \E w \in Writers : WriteStep(w)
  \/ Finished

Spec == Init /\ [][Next]_vars

\* What the Go scheduler runs when it can.  Frames and callbacks are bounded,
\* so no behaviour takes infinitely many steps: that something runnable is run
\* means that every goroutine runs until it waits.  (sync.Mutex hands the lock
\* to a waiter that was passed over, so no Lock step starves either.)
Scheduled ==
  \/ Handler
  \/ \E p \in Pumps : PumpStep(p)
  \/ \E w \in Writers : WriteStep(w)

GatewayFairness == WF_vars(Scheduled)

\* A live remote keeps emptying its socket.
RemoteFairness == WF_vars(\E s \in Sides : RemoteTake(s))

GatewaySpec == Spec /\ GatewayFairness
FairSpec == GatewaySpec /\ RemoteFairness

-----------------------------------------------------------------------------
PumpPcs == {"off", "read", "hook", "reply", "replying", "lock", "write",
            "once", "closeClient", "closeKit", "onClose", "done"}

TypeOK ==
  /\ handler \in {"dial", "factory", "serving", "refused"}
  /\ conn \in [Sides -> {"none", "up", "gone", "closed"}]
  /\ sent \in [Sides -> Nat]
  /\ read \in [Sides -> Nat]
  /\ consumed \in [Sides -> SUBSET Nat]
  /\ wire \in [Sides -> Seq([src : Sides \cup {"gateway"}, num : Nat])]
  /\ taken \in [Sides -> Nat]
  /\ lock \in [Sides -> Writers \cup {NoOne}]
  /\ pc \in [Writers -> PumpPcs]
  /\ \A i \in Injectors : pc[i] \in {"off", "lock", "write", "done"}
  /\ target \in [Injectors -> Sides]
  /\ once \in {"idle", "running", "done"}
  /\ closed \in Nat

\* proxy.go:18-20.  Whatever mixture of pumps, hooks and ICE callbacks sends,
\* no two goroutines are inside WriteMessage of the same socket.
OneWriterPerSocket ==
  \A v, w \in Writers :
    Writing(v) /\ Writing(w) /\ Dest(v) = Dest(w) => v = w

\* The frames of a direction reach the other socket in the order in which
\* they were read, each at most once, whatever is written between them.
ForwardedInOrder ==
  \A s \in Sides : \A i, j \in 1..Len(wire[s]) :
    /\ i < j
    /\ wire[s][i].src = Other(s)
    /\ wire[s][j].src = Other(s)
    => wire[s][i].num < wire[s][j].num

OnWire(s, n) == \E i \in 1..Len(wire[Other(s)]) : wire[Other(s)][i] = Frame(s, n)

\* A pump that read frame n disposed of every earlier frame: it is on the
\* other wire or the hook kept it, never both and never neither.
NothingLostMidStream ==
  \A s \in Sides : \A n \in 1..read[s] :
    /\ ~(OnWire(s, n) /\ n \in consumed[s])
    /\ n < read[s] => OnWire(s, n) \/ n \in consumed[s]

\* proxy.go:37.  OnClose runs at most once, and only when both sockets are
\* closed; proxy.go:153: a pump that has returned has seen all of tearDown,
\* also when the other pump ran it.
TornDownBeforePumpReturns ==
  /\ closed <= 1
  /\ closed = 1 => \A s \in Sides : conn[s] = "closed"
  /\ \A p \in Pumps : pc[p] = "done" => closed = 1

\* What a goroutine that cannot go on waits for: a frame of a live remote, a
\* mutex, room in the socket of a live remote, or the end of tearDown.
AwaitsFrame(p) == pc[p] = "read" /\ conn[p] = "up" /\ ~(read[p] < sent[p])
AwaitsMutex(w) == Waiting(w) /\ lock[Dest(w)] # NoOne
AwaitsRoom(w) == Writing(w) /\ conn[Dest(w)] = "up" /\ ~Room(Dest(w))
AwaitsTearDown(p) == pc[p] = "once" /\ once = "running"

Blocked(w) ==
  \/ pc[w] \in {"off", "done"}
  \/ AwaitsFrame(w) \/ AwaitsMutex(w) \/ AwaitsRoom(w) \/ AwaitsTearDown(w)

\* proxy.go:23-42, 69-70 and 149-160.  The two mutexes, the two sockets and
\* closeOnce never make the goroutines wait for each other: when all of them
\* wait, a live remote does not read, or both pumps wait for a frame of a
\* live remote, or the session has been torn down and no callback is left
\* inside a write.
StuckOnlyOnRemote ==
  handler = "serving" /\ (\A w \in Writers : Blocked(w)) =>
    \/ \E s \in Sides : conn[s] = "up" /\ ~Room(s)
    \/ /\ \A i \in Injectors : pc[i] \in {"off", "done"}
       /\ \/ \A p \in Pumps : AwaitsFrame(p)
          \/ closed = 1 /\ \A p \in Pumps : pc[p] = "done"

\* proxy_test.go:132.  When an end of a running session is lost, the session
\* is torn down and both pumps return.
HangupEndsSession ==
  (handler = "serving" /\ \E s \in Sides : conn[s] = "gone")
    ~> (closed = 1 /\ \A p \in Pumps : pc[p] = "done")

\* proxy_test.go:132, TestProxy_ClientCloseTearsDownUpstream: the browser's
\* disconnect makes OnClose fire.
ClientCloseTearsDownUpstream ==
  (handler = "serving" /\ conn["client"] = "gone") ~> (closed = 1)

-----------------------------------------------------------------------------
\* Refinement of the relay: the frame in a pump's hands is not yet accepted.
InHand(s) == pc[s] \in {"hook", "lock", "write"}
Accepted == [s \in Sides |-> IF InHand(s) THEN read[s] - 1 ELSE read[s]]
Stopped == {s \in Sides :
              pc[s] \in {"once", "closeClient", "closeKit", "onClose", "done"}}

Relay == INSTANCE FrameRelay WITH
  accepted <- Accepted, stopped <- Stopped, out <- wire

\* Every step of the proxy is a step of the relay or invisible to its ends.
RefinesRelay == Relay!RelaySpec
=============================================================================
