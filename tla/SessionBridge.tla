---------------------------- MODULE SessionBridge ----------------------------
(***************************************************************************)
(* The bridge from the agent's Windows service to the worker in the        *)
(* child's session (internal/sessionbridge), the worker that serves it     *)
(* (internal/sessionworker) and the service's platform on top of it.       *)
(*                                                                         *)
(* Every call has a connection of its own, with a deadline at either end.  *)
(* A pipe takes a connection only while the worker accepts, so a call      *)
(* behind a busy worker waits in dial.  The worker may end, hang in a call *)
(* of the desktop, be of another version, or be another user's.            *)
(***************************************************************************)
EXTENDS Naturals

CONSTANTS Users, Child,        \* accounts; the configured child
          Versions, Current,   \* protocol versions; the service's
          Windows,
          Nothing

ASSUME SessionBridgeAssumption ==
    /\ Child \in Users /\ Current \in Versions
    /\ Nothing \notin Users \cup Windows

VARIABLES front,    \* the window in front, of the child's desktop
          seen,     \* history: the windows in front since the call began
          worker,   \* whose worker holds the pipe, or None
          serving,  \* what the worker does with its connection
          call,     \* the service's call
          result,   \* of its last call
          ended,    \* the service's context has ended
          closings  \* history: how often the call has had its window closed, up to 2

bridgeVars == <<front, seen, worker, serving, call, result, ended, closings>>

WorkerProcesses == [user : Users, version : Versions]
Ops == [op : {"get"}] \cup [op : {"close"}, window : Windows]

Idle == [step |-> "idle"]
Accepting == [step |-> "accept"]

\* request: None until the service has written it.  peer: the service still has
\* its end of the connection open.
Request == Ops \cup {Nothing}
Reply == [version : Versions, window : Windows \cup {Nothing}, error : BOOLEAN]
Serving ==
    {Accepting}
      \cup [step : {"read"}, request : Request, peer : BOOLEAN]
      \cup [step : {"handle"}, request : Ops, peer : BOOLEAN]
      \cup [step : {"answer"}, reply : Reply, peer : BOOLEAN]
Calling == {Idle} \cup [step : {"dial", "verify", "write", "receive"}, op : Ops]
Results == [end : {"none", "unavailable", "failed", "closed"}]
             \cup [end : {"answered"}, window : Windows, from : WorkerProcesses]

BridgeInit ==
    /\ front \in Windows /\ seen = {front}
    /\ worker = Nothing /\ serving = Accepting
    /\ call = Idle /\ result = [end |-> "none"]
    /\ ended = FALSE /\ closings = 0

-----------------------------------------------------------------------------
(* The child's session                                                     *)

ToFront(w) ==
    /\ w # front /\ front' = w
    /\ seen' = IF call = Idle THEN seen ELSE seen \cup {w}
    /\ UNCHANGED <<worker, serving, call, result, ended, closings>>

\* run: a second worker of a session ends at once, and one that finds the pipe
\* held by another user's cannot listen and ends with an error.
StartWorker(u, v) ==
    /\ worker = Nothing
    /\ worker' = [user |-> u, version |-> v]
    /\ serving' = Accepting
    /\ UNCHANGED <<front, seen, call, result, ended, closings>>

Connected == call.step \in {"verify", "write", "receive"} /\ serving # Accepting /\ serving.peer

\* The connection breaks with the process: the service's read or write fails.
EndWorker ==
    /\ worker # Nothing
    /\ worker' = Nothing /\ serving' = Accepting
    /\ IF Connected THEN call' = Idle /\ result' = [end |-> "failed"]
       ELSE UNCHANGED <<call, result>>
    /\ UNCHANGED <<front, seen, ended, closings>>

-----------------------------------------------------------------------------
(* The service's side                                                      *)

Desk == UNCHANGED <<front, worker, ended, closings>>

Begin(op) ==
    /\ call = Idle /\ ~ended
    /\ call' = [step |-> "dial", op |-> op]
    /\ result' = [end |-> "none"] /\ seen' = {front} /\ closings' = 0
    /\ UNCHANGED <<front, worker, serving, ended>>

\* The window monitor's turn, and its closing of the window it was told.
GetActiveWindow == Begin([op |-> "get"])
CloseWindow == result.end = "answered" /\ Begin([op |-> "close", window |-> result.window])

Return(r) == call' = Idle /\ result' = r

\* The end of a call closes its connection.
HangUp == serving' = IF Connected THEN [serving EXCEPT !.peer = FALSE] ELSE serving

DialFails ==
    /\ call.step = "dial" /\ worker = Nothing
    /\ Return([end |-> "unavailable"])
    /\ Desk /\ UNCHANGED <<seen, serving>>

Dial ==
    /\ call.step = "dial" /\ worker # Nothing /\ serving = Accepting
    /\ call' = [call EXCEPT !.step = "verify"]
    /\ serving' = [step |-> "read", request |-> Nothing, peer |-> TRUE]
    /\ Desk /\ UNCHANGED <<seen, result>>

\* Slip: any process that serves the pipe is taken for the worker.
VerifyAny ==
    /\ call.step = "verify"
    /\ call' = [call EXCEPT !.step = "write"] /\ UNCHANGED <<serving, result>>
    /\ Desk /\ UNCHANGED seen

\* verifyPipeServerSID
Verify ==
    /\ call.step = "verify"
    /\ IF worker # Nothing /\ worker.user = Child
       THEN call' = [call EXCEPT !.step = "write"] /\ UNCHANGED <<serving, result>>
       ELSE Return([end |-> "unavailable"]) /\ HangUp
    /\ Desk /\ UNCHANGED seen

Write ==
    /\ call.step = "write" /\ Connected
    /\ call' = [call EXCEPT !.step = "receive"]
    /\ serving' = [serving EXCEPT !.request = call.op]
    /\ Desk /\ UNCHANGED <<seen, result>>

\* The worker's deadline has closed its end.
Lost ==
    /\ call.step \in {"write", "receive"} /\ ~Connected
    /\ Return([end |-> "failed"])
    /\ Desk /\ UNCHANGED <<seen, serving>>

Outcome(reply) ==
    IF reply.version # Current \/ reply.error THEN [end |-> "failed"]
    ELSE IF call.op.op = "close" THEN [end |-> "closed"]
    ELSE [end |-> "answered", window |-> reply.window, from |-> worker]

Receive ==
    /\ call.step = "receive" /\ Connected /\ serving.step = "answer"
    /\ Return(Outcome(serving.reply))
    /\ serving' = Accepting
    /\ Desk /\ UNCHANGED seen

\* Five seconds after the call began, or when the service stops.
TimeOut ==
    /\ call # Idle
    /\ Return([end |-> "failed"]) /\ HangUp
    /\ Desk /\ UNCHANGED seen

\* The agent's service stops; its loops end with the call they are in.
EndService ==
    /\ ~ended /\ ended' = TRUE
    /\ UNCHANGED <<front, seen, worker, serving, call, result, closings>>

-----------------------------------------------------------------------------
(* The worker's side                                                       *)

Served == UNCHANGED <<front, seen, worker, call, result, ended>>

Refusal == [version |-> worker.version, window |-> Nothing, error |-> TRUE]
Answering(reply, peer) == [step |-> "answer", reply |-> reply, peer |-> peer]

\* A request of another version is refused.
ReadRequest ==
    /\ serving.step = "read" /\ serving.request # Nothing
    /\ serving' = IF worker.version = Current
                  THEN [serving EXCEPT !.step = "handle"]
                  ELSE Answering(Refusal, serving.peer)
    /\ Served /\ UNCHANGED closings

\* Slip: the worker waits for the request of a call that was given up.
ReadFailsNever == FALSE /\ UNCHANGED bridgeVars

ReadFails ==
    /\ serving.step = "read" /\ serving.request = Nothing /\ ~serving.peer
    /\ serving' = Accepting
    /\ Served /\ UNCHANGED closings

HandleFails ==
    /\ serving.step = "handle"
    /\ serving' = Answering(Refusal, serving.peer)
    /\ Served /\ UNCHANGED closings

\* Whether the service is still waiting is not known here.
Handle ==
    /\ serving.step = "handle"
    /\ LET get == serving.request.op = "get"
       IN  /\ serving' = Answering([version |-> worker.version, error |-> FALSE,
                                   window |-> IF get THEN front ELSE Nothing], serving.peer)
           /\ closings' = IF get \/ ~serving.peer \/ closings = 2 THEN closings
                          ELSE closings + 1
    /\ Served

\* Writing to a connection that the service has closed fails.
AnswerFails ==
    /\ serving.step = "answer" /\ ~serving.peer
    /\ serving' = Accepting
    /\ Served /\ UNCHANGED closings

\* Five seconds after the worker accepted: the connection is closed.  A call of
\* the desktop is not interrupted.
WorkerTimeOut ==
    /\ serving.step = "read" \/ serving.step = "answer"
    /\ serving' = Accepting
    /\ Served /\ UNCHANGED closings

-----------------------------------------------------------------------------
WorkerStep == ReadRequest \/ ReadFails \/ Handle \/ HandleFails \/ AnswerFails
CallStep == DialFails \/ Dial \/ Verify \/ Write \/ Lost \/ Receive

BridgeNext ==
    \/ \E w \in Windows : ToFront(w)
    \/ \E u \in Users, v \in Versions : StartWorker(u, v)
    \/ EndWorker
    \/ GetActiveWindow \/ CloseWindow
    \/ CallStep \/ TimeOut \/ EndService
    \/ WorkerStep \/ WorkerTimeOut

BridgeSpec == BridgeInit /\ [][BridgeNext]_bridgeVars

\* The service's timers fire, whatever the worker does.
CallFairness == WF_bridgeVars(TimeOut)

\* The window monitor asks again and both sides go on.  The desktop does not
\* refuse for ever, nor does every call run out of time while it dials.
BridgeFairness ==
    /\ WF_bridgeVars(GetActiveWindow) /\ SF_bridgeVars(Dial)
    /\ WF_bridgeVars(DialFails \/ Verify \/ Write \/ Lost \/ Receive)
    /\ WF_bridgeVars(WorkerStep) /\ SF_bridgeVars(Handle)

-----------------------------------------------------------------------------
BridgeTypeOK ==
    /\ front \in Windows /\ seen \subseteq Windows
    /\ worker \in WorkerProcesses \cup {Nothing}
    /\ serving \in Serving /\ call \in Calling /\ result \in Results
    /\ ended \in BOOLEAN /\ closings \in 0 .. 2

Answered == result.end = "answered"

\* What the service gets out of a call is true.  "the service must not use
\* stale foreground-window data as if it were current"
\* (docs/windows-runtime-architecture.md): the window it is told was in front
\* during that call, however long the worker was busy with an earlier one
\* (transport.go:60-98, one connection for each call), and comes from the worker
\* of the configured child and of this protocol version (pipe_windows.go:98-141,
\* protocol.go:93-95).  Closing a window is carried out at most once, and has
\* been when the call says so (transport.go:55-58, :156-160).
ReportsAreTrue ==
    /\ Answered =>
          /\ result.window \in seen
          /\ result.from = [user |-> Child, version |-> Current]
    /\ closings <= 1
    /\ result.end = "closed" => closings = 1

\* "When the worker starts or restarts, the service reconnects automatically":
\* while the child's worker stays up, and no deadline passes in the middle of a
\* call it has taken up, calls are answered again and again, whatever was broken
\* off before (transport.go:118-137).
Reconnects ==
    (/\ BridgeFairness
     /\ <>[](worker = [user |-> Child, version |-> Current] /\ ~ended)
     /\ <>[][~(Connected /\ (TimeOut \/ WorkerTimeOut))]_bridgeVars)
    => []<>Answered
=============================================================================
