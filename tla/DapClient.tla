------------------------------ MODULE DapClient ------------------------------
(***************************************************************************)
(* The DAP client of internal/backend/dap/client.go, and Delve as the      *)
(* client meets it at the other end of one TCP connection.                 *)
(*                                                                         *)
(* The client is synchronous.  A call writes a request and then reads the  *)
(* connection until the response with the request's number arrives,        *)
(* applying every event on the way; calls that resume the target then read *)
(* until an event says that it has stopped or is gone.  One caller uses    *)
(* the client, as in cmd/dlvpp: a call starts when no other is under way.  *)
(*                                                                         *)
(* A message is a header and a payload, which Delve writes separately.  A  *)
(* read deadline that strikes between the two leaves the payload where the *)
(* next header is expected: the stream is torn.                            *)
(***************************************************************************)
EXTENDS Naturals, Sequences

CONSTANTS Actions,     \* the requests that resume the target
          Queries,     \* the requests that only ask
          Threads,     \* thread ids of the target
          MaxSeq,      \* bound: calls start only below this request number
          MaxOpens,    \* bound on sessions
          MaxOutputs,  \* bound on output events of a session
          OutputCap,   \* entries of target output kept (256 in the code)
          Console,     \* output entries that are not the target's, or blank
          Timeouts,    \* whether read deadlines may strike
          Crashes      \* whether Delve may die on its own

ASSUME ActionsAssumption == Actions \subseteq {"continue", "next", "stepIn"}
ASSUME QueriesAssumption ==
  Queries \subseteq {"stackTrace", "scopes", "variables", "evaluate"}
ASSUME ThreadsAssumption == Threads \subseteq Nat \ {0}
ASSUME BoundsAssumption ==
  MaxSeq \in Nat /\ MaxOpens \in Nat /\ MaxOutputs \in Nat /\ OutputCap \in Nat \ {0}
ASSUME SwitchesAssumption == Timeouts \in BOOLEAN /\ Crashes \in BOOLEAN

Modes == {"launch", "attach"}
Commands == Modes \cup Actions \cup Queries
              \cup {"initialize", "configurationDone", "variables", "disconnect"}
Events == {"stopped", "continued", "terminated", "output"}

\* kill: the terminateDebuggee argument of disconnect.
Requests == [num : Nat, cmd : Commands, thread : Nat, kill : BOOLEAN]

\* num: the number of the request answered, the thread of a stop, or the
\* identity of an output entry.
Messages == [kind : {"response"} \cup Events, num : Nat,
             cmd : Commands \cup {"none"}, ok : BOOLEAN]

VARIABLES
  conn,          \* Client.conn (with cmd, cancel and reader) is set
  seq,           \* Client.seq
  stopKind,      \* Client.stopState: nil | stopped | running | exited
  stopThread,    \* Client.stopState.ThreadID
  terminate,     \* Client.terminateDebuggee
  targetOutput,  \* Client.targetOutput
  op,            \* the call under way; "unwind" is the Close of a failed open,
                 \* "wait" the cmd.Wait a Close ends with
  cmd,           \* the last request it wrote
  await,         \* what it reads for: none | response | stop
  ret,           \* how the last call ended: none | ok | error
  answer         \* history: the last response taken, and the request it was for

VARIABLES
  toDelve,       \* requests on the wire
  toClient,      \* responses and events on the wire
  torn,          \* the header of Head(toClient) is gone
  dlv,           \* the Delve process: none | up | dead
  mode,          \* how the session was opened
  target,        \* the debuggee, as Delve sees it
  targetThread,  \* the thread the target stopped on
  printed,       \* history: output entries Delve has sent in this session
  opens          \* sessions opened

stopVars == <<stopKind, stopThread>>
sessionVars == <<conn, terminate, mode, opens>>
callVars == <<op, cmd, await, ret, answer>>
clientVars == <<conn, seq, stopVars, terminate, targetOutput, callVars>>
delveVars == <<dlv, target, targetThread, printed>>
vars == <<clientVars, toDelve, toClient, torn, delveVars, mode, opens>>

TypeOK ==
  /\ conn \in BOOLEAN
  /\ seq \in Nat
  /\ stopKind \in {"nil", "stopped", "running", "exited"}
  /\ stopThread \in Nat
  /\ terminate \in BOOLEAN
  /\ targetOutput \in Seq(Nat)
  /\ op \in {"idle", "open", "action", "query", "close", "unwind", "wait"}
  /\ cmd \in Commands \cup {"none"}
  /\ await \in {"none", "response", "stop"}
  /\ ret \in {"none", "ok", "error"}
  /\ answer \in [want : Commands \cup {"none"}, got : Commands \cup {"none"}]
  /\ toDelve \in Seq(Requests)
  /\ toClient \in Seq(Messages)
  /\ torn \in BOOLEAN
  /\ dlv \in {"none", "up", "dead"}
  /\ mode \in Modes
  /\ target \in {"none", "stopped", "running", "exited", "killed", "detached", "lost"}
  /\ targetThread \in Nat
  /\ printed \in Nat
  /\ opens \in Nat

Init ==
  /\ conn = FALSE /\ seq = 0
  /\ stopKind = "nil" /\ stopThread = 0
  /\ terminate = FALSE /\ targetOutput = <<>>
  /\ op = "idle" /\ cmd = "none" /\ await = "none" /\ ret = "none"
  /\ answer = [want |-> "none", got |-> "none"]
  /\ toDelve = <<>> /\ toClient = <<>> /\ torn = FALSE
  /\ dlv = "none" /\ mode = "launch"
  /\ target = "none" /\ targetThread = 0
  /\ printed = 0 /\ opens = 0

Halted == {"stopped", "exited"}

-----------------------------------------------------------------------------
(* Steps a call is made of.  rest and tornNext are the stream after the    *)
(* read that led to the step.                                              *)

\* writeRequestLocked; a request written to a dead Delve goes nowhere, and the
\* failure shows in the write or in the read that follows.
Send(c, t, rest, tornNext) ==
  /\ seq' = seq + 1
  /\ cmd' = c
  /\ await' = "response"
  /\ toDelve' = IF dlv = "up"
                THEN Append(toDelve, [num |-> seq + 1, cmd |-> c, thread |-> t,
                                      kill |-> terminate])
                ELSE toDelve
  /\ toClient' = rest
  /\ torn' = tornNext

Return(r, rest, tornNext) ==
  /\ op' = "idle" /\ await' = "none" /\ ret' = r
  /\ toClient' = rest
  /\ torn' = tornNext
  /\ UNCHANGED <<seq, cmd, toDelve>>

\* Mutant: a failed opening returns what its Close returned.
CloseResult(r) == r

\* The error of a failed opening is kept, and what its Close returned dropped.
EndResult(r) == IF op = "unwind" THEN "error" ELSE r

\* What was launched and left behind holds the pipes of Delve's output, which
\* cmd.Wait reads to their end.
Orphaned == mode = "launch" /\ target \in {"stopped", "running", "lost"}

\* Mutant: the captured output and the stop state survive the session.
FinishCloseKeeping(r) ==
  /\ conn' = FALSE
  /\ seq' = 0
  /\ op' = IF Orphaned THEN "wait" ELSE "idle"
  /\ await' = "none" /\ cmd' = "none"
  /\ ret' = EndResult(r)
  /\ toDelve' = <<>> /\ toClient' = <<>> /\ torn' = FALSE
  /\ dlv' = "none"
  /\ target' = IF target \in {"stopped", "running"} THEN "lost" ELSE target
  /\ UNCHANGED <<stopVars, targetOutput, terminate, mode, opens, targetThread, printed>>

\* The rest of Close once the disconnect request is over, however it ended: the
\* connection is closed, Delve killed and waited for, the state reset.  What is
\* reset after the wait is reset here, as the lock is held until Close returns.
FinishClose(r) ==
  /\ conn' = FALSE
  /\ seq' = 0
  /\ stopKind' = "nil" /\ stopThread' = 0
  /\ targetOutput' = <<>>
  /\ op' = IF Orphaned THEN "wait" ELSE "idle"
  /\ await' = "none" /\ cmd' = "none"
  /\ ret' = EndResult(r)
  /\ toDelve' = <<>> /\ toClient' = <<>> /\ torn' = FALSE
  /\ dlv' = "none"
  /\ target' = IF target \in {"stopped", "running"} THEN "lost" ELSE target
  /\ UNCHANGED <<terminate, mode, opens, targetThread, printed>>

\* cmd.Wait returns at last: the orphan has ended or closed its output.
WaitEnds ==
  /\ op = "wait"
  /\ op' = "idle"
  /\ UNCHANGED <<conn, seq, stopVars, terminate, targetOutput, cmd, await, ret,
                 answer, toDelve, toClient, torn, delveVars, mode, opens>>

\* Mutant: a stop that came with the response is waited for again.
WaitForNextStop(rest, tornNext) ==
  /\ await' = "stop"
  /\ toClient' = rest
  /\ torn' = tornNext
  /\ UNCHANGED <<op, ret, seq, cmd, toDelve>>

\* waitForStop: nothing is read when the stop is already known.
WaitForStop(rest, tornNext) ==
  IF stopKind \in Halted
  THEN Return("ok", rest, tornNext)
  ELSE /\ await' = "stop"
       /\ toClient' = rest
       /\ torn' = tornNext
       /\ UNCHANGED <<op, ret, seq, cmd, toDelve>>

\* An error of the request or of the wait.  A failed open closes the client.
Fail(rest, tornNext) ==
  \/ /\ op = "open"
     /\ op' = "unwind"
     /\ Send("disconnect", 0, rest, tornNext)
     /\ UNCHANGED <<ret, stopVars, targetOutput, sessionVars, delveVars>>
  \/ /\ op \in {"action", "query"}
     /\ Return("error", rest, tornNext)
     /\ UNCHANGED <<stopVars, targetOutput, sessionVars, delveVars>>
  \/ /\ op \in {"close", "unwind"}
     /\ FinishClose("error")

\* The response asked for arrived and reports success.
Proceed(rest) ==
  \/ /\ op = "open" /\ cmd \in {"initialize"} \cup Modes
     /\ Send(IF cmd = "initialize" THEN mode ELSE "configurationDone", 0, rest, FALSE)
     /\ UNCHANGED <<op, ret, stopVars, targetOutput, sessionVars, delveVars>>
  \/ /\ \/ op = "open" /\ cmd = "configurationDone"
        \/ op = "action"
     /\ WaitForStop(rest, FALSE)
     /\ UNCHANGED <<stopVars, targetOutput, sessionVars, delveVars>>
  \/ /\ op = "query" /\ cmd = "scopes"        \* Locals: the scopes' variables
     /\ Send("variables", 0, rest, FALSE)
     /\ UNCHANGED <<op, ret, stopVars, targetOutput, sessionVars, delveVars>>
  \/ /\ op = "query"                          \* no scope left to ask for
     /\ Return("ok", rest, FALSE)
     /\ UNCHANGED <<stopVars, targetOutput, sessionVars, delveVars>>
  \/ /\ op \in {"close", "unwind"}
     /\ FinishClose("ok")

-----------------------------------------------------------------------------
(* Calls.                                                                  *)

\* Mutant: what was attached to is killed as well.
TerminateAlways(m) == TRUE

\* openSession's terminateDebuggee: only what was launched is killed at the end.
TerminateFor(m) == m = "launch"

\* Launch and Attach: start, and the first request of the handshake.
Open(m) ==
  /\ op = "idle" /\ ~conn
  /\ opens < MaxOpens
  /\ opens' = opens + 1
  /\ conn' = TRUE
  /\ dlv' = "up"
  /\ mode' = m
  /\ terminate' = TerminateFor(m)
  /\ op' = "open"
  /\ seq' = seq + 1
  /\ cmd' = "initialize"
  /\ await' = "response"
  /\ toDelve' = <<[num |-> seq + 1, cmd |-> "initialize", thread |-> 0,
                   kill |-> terminate']>>
  /\ target' = "none" /\ targetThread' = 0 /\ printed' = 0
  /\ UNCHANGED <<stopVars, targetOutput, ret, answer, toClient, torn>>

\* start fails: already started, no dlv, no port, or no connection in time.
OpenFails ==
  /\ op = "idle"
  /\ ret' = "error"
  /\ UNCHANGED <<conn, seq, stopVars, terminate, targetOutput, op, cmd, await,
                 answer, toDelve, toClient, torn, delveVars, mode, opens>>

\* Mutant: resumes always name thread 1.
ResumeThreadOne == 1

ResumeThread == IF stopThread > 0 THEN stopThread ELSE 1

\* Mutant: the state is left for the events to change.
KeepStopState == UNCHANGED stopKind

SetRunning == stopKind' = "running"

\* runThreadAction: the state becomes running before the request is written.
ThreadAction(c) ==
  /\ op = "idle" /\ conn
  /\ seq < MaxSeq
  /\ op' = "action"
  /\ stopThread' = ResumeThread
  /\ SetRunning
  /\ Send(c, stopThread', toClient, torn)
  /\ UNCHANGED <<ret, answer, targetOutput, sessionVars, delveVars>>

\* Stack asks about a thread; Locals, Children and Eval name a frame or value.
Query(q) ==
  /\ op = "idle" /\ conn
  /\ seq < MaxSeq
  /\ q = "stackTrace" => stopThread > 0
  /\ op' = "query"
  /\ Send(q, stopThread, toClient, torn)
  /\ UNCHANGED <<ret, answer, stopVars, targetOutput, sessionVars, delveVars>>

\* Mutant: Delve is killed without being told to disconnect.
CloseAbruptly ==
  /\ op = "idle" /\ conn
  /\ FinishClose("ok")
  /\ UNCHANGED answer

Close ==
  /\ op = "idle" /\ conn
  /\ op' = "close"
  /\ Send("disconnect", 0, toClient, torn)
  /\ UNCHANGED <<ret, answer, stopVars, targetOutput, sessionVars, delveVars>>

-----------------------------------------------------------------------------
(* Reading the stream.                                                     *)

\* Mutant: a full list drops the new entry.
FirstEntries(s) == IF Len(s) > OutputCap THEN SubSeq(s, 1, OutputCap) ELSE s

LastEntries(s) == IF Len(s) > OutputCap
                  THEN SubSeq(s, Len(s) - OutputCap + 1, Len(s))
                  ELSE s

\* handleEventLocked
HandleEvent(m) ==
  \/ /\ m.kind = "stopped"
     /\ stopKind' = "stopped" /\ stopThread' = m.num
     /\ UNCHANGED targetOutput
  \/ /\ m.kind = "continued"
     /\ stopKind' = "running"
     /\ UNCHANGED <<stopThread, targetOutput>>
  \/ /\ m.kind = "terminated"
     /\ stopKind' = "exited" /\ stopThread' = 0
     /\ UNCHANGED targetOutput
  \/ /\ m.kind = "output"
     /\ targetOutput' = IF m.num \in Console THEN targetOutput
                        ELSE LastEntries(Append(targetOutput, m.num))
     /\ UNCHANGED stopVars

Readable == await # "none" /\ ~torn /\ toClient # <<>>

ReadEvent ==
  /\ Readable /\ Head(toClient).kind # "response"
  /\ HandleEvent(Head(toClient))
  /\ IF await = "stop" /\ stopKind' \in Halted
     THEN Return("ok", Tail(toClient), FALSE)
     ELSE /\ toClient' = Tail(toClient)
          /\ UNCHANGED <<op, ret, await, seq, cmd, toDelve, torn>>
  /\ UNCHANGED <<answer, sessionVars, delveVars>>

\* Mutant: any response will do.
AnyAnswer(m) == await = "response"

\* The response is the one asked for.
Answers(m) == await = "response" /\ m.num = seq

SkipResponse ==
  /\ Readable /\ Head(toClient).kind = "response"
  /\ ~Answers(Head(toClient))
  /\ toClient' = Tail(toClient)
  /\ UNCHANGED <<clientVars, toDelve, torn, delveVars, mode, opens>>

TakeResponse ==
  /\ Readable /\ Head(toClient).kind = "response"
  /\ Answers(Head(toClient))
  /\ answer' = [want |-> cmd, got |-> Head(toClient).cmd]
  /\ IF Head(toClient).ok
     THEN Proceed(Tail(toClient))
     ELSE Fail(Tail(toClient), FALSE)

\* A torn stream: a payload and the next header pass for a header without a
\* Content-Length, and the next payload is now out of place.
ReadTorn ==
  /\ await # "none" /\ torn
  /\ Len(toClient) > 1
  /\ Fail(Tail(toClient), TRUE)
  /\ UNCHANGED answer

\* The connection ended; what was still unread may be lost with it.
ReadClosed ==
  /\ await # "none" /\ dlv = "dead"
  /\ Fail(toClient, torn)
  /\ UNCHANGED answer

\* Mutant: the disconnect request of Close has no deadline.
TimeoutButClose ==
  /\ Timeouts
  /\ await # "none" /\ op \notin {"close", "unwind"}
  /\ Fail(toClient, torn)
  /\ UNCHANGED answer

\* The deadline of the call: nothing was read, or a header without its payload,
\* or, in a torn stream, the stray payload.
Timeout ==
  /\ Timeouts
  /\ await # "none"
  /\ \/ Fail(toClient, torn)
     \/ ~torn /\ toClient # <<>> /\ Fail(toClient, TRUE)
     \/ torn /\ toClient # <<>> /\ Fail(Tail(toClient), FALSE)
  /\ UNCHANGED answer

ClientStep == ReadEvent \/ SkipResponse \/ TakeResponse \/ ReadTorn \/ ReadClosed

-----------------------------------------------------------------------------
(* Delve.                                                                  *)

Reply(r, success) == [kind |-> "response", num |-> r.num, cmd |-> r.cmd, ok |-> success]
Event(k, n) == [kind |-> k, num |-> n, cmd |-> "none", ok |-> TRUE]

\* Delve serves the next request; what it sends goes out in one piece.
Serve(r, sent) == /\ dlv = "up" /\ toDelve # <<>>
                  /\ r = Head(toDelve)
                  /\ toDelve' = Tail(toDelve)
                  /\ toClient' = toClient \o sent
                  /\ UNCHANGED <<clientVars, torn, mode, opens, printed>>

DelveInitialize(r) == /\ r.cmd = "initialize"
                      /\ Serve(r, <<Reply(r, TRUE)>>)
                      /\ UNCHANGED <<dlv, target, targetThread>>

\* The target is started or attached to, and held; or that fails.
DelveLoad(r) ==
  /\ r.cmd \in Modes
  /\ \/ /\ Serve(r, <<Reply(r, TRUE)>>)
        /\ target' = "stopped"
        /\ targetThread' \in Threads
     \/ /\ Serve(r, <<Reply(r, FALSE)>>)
        /\ UNCHANGED <<target, targetThread>>
  /\ UNCHANGED dlv

\* The entry stop is reported before the response or after it.
DelveConfigured(r) ==
  /\ r.cmd = "configurationDone"
  /\ \/ Serve(r, <<Event("stopped", targetThread), Reply(r, TRUE)>>)
     \/ Serve(r, <<Reply(r, TRUE), Event("stopped", targetThread)>>)
  /\ UNCHANGED <<dlv, target, targetThread>>

\* A held target resumes, with or without a continued event.  When there is
\* nothing to resume the request is refused, or accepted and the exit reported
\* once more; it may also be refused for reasons of Delve's own.
DelveResume(r) ==
  /\ r.cmd \in Actions
  /\ \/ /\ target = "stopped"
        /\ \/ Serve(r, <<Reply(r, TRUE)>>)
           \/ Serve(r, <<Event("continued", 0), Reply(r, TRUE)>>)
        /\ target' = "running"
     \/ /\ target = "exited"
        /\ Serve(r, <<Reply(r, TRUE), Event("terminated", 0)>>)
        /\ UNCHANGED target
     \/ /\ Serve(r, <<Reply(r, FALSE)>>)
        /\ UNCHANGED target
  /\ UNCHANGED <<dlv, targetThread>>

DelveQuery(r) ==
  /\ r.cmd \in Queries \cup {"variables"}
  /\ \/ target = "stopped" /\ Serve(r, <<Reply(r, TRUE)>>)
     \/ Serve(r, <<Reply(r, FALSE)>>)
  /\ UNCHANGED <<dlv, target, targetThread>>

\* The target is killed or let go, and Delve, serving one client, ends.
DelveDisconnect(r) ==
  /\ r.cmd = "disconnect"
  /\ \/ Serve(r, <<Reply(r, TRUE)>>)
     \/ Serve(r, <<Event("terminated", 0), Reply(r, TRUE)>>)
  /\ target' = IF target \notin {"stopped", "running"} THEN target
               ELSE IF r.kill THEN "killed" ELSE "detached"
  /\ dlv' = "dead"
  /\ UNCHANGED targetThread

DelveServes == /\ toDelve # <<>>
               /\ LET r == Head(toDelve) IN
                  \/ DelveInitialize(r) \/ DelveLoad(r) \/ DelveConfigured(r)
                  \/ DelveResume(r) \/ DelveQuery(r) \/ DelveDisconnect(r)

Emit(k, n) == /\ dlv = "up"
              /\ toClient' = Append(toClient, Event(k, n))
              /\ UNCHANGED <<clientVars, toDelve, torn, mode, opens, dlv>>

DelveStop(t) == /\ target = "running"
                /\ Emit("stopped", t)
                /\ target' = "stopped" /\ targetThread' = t
                /\ UNCHANGED printed

DelveExit == /\ target = "running"
             /\ Emit("terminated", 0)
             /\ target' = "exited"
             /\ UNCHANGED <<targetThread, printed>>

DelvePrint == /\ target = "running"
              /\ printed < MaxOutputs
              /\ Emit("output", printed + 1)
              /\ printed' = printed + 1
              /\ UNCHANGED <<target, targetThread>>

DelveCrash == /\ Crashes
              /\ dlv = "up"
              /\ dlv' = "dead"
              /\ target' = IF target \in {"stopped", "running"} THEN "lost" ELSE target
              /\ UNCHANGED <<clientVars, toDelve, toClient, torn, mode, opens,
                             targetThread, printed>>

-----------------------------------------------------------------------------
TargetHalts == (\E t \in Threads : DelveStop(t)) \/ DelveExit

CallStarts == \/ \E m \in Modes : Open(m)
              \/ OpenFails
              \/ \E c \in Actions : ThreadAction(c)
              \/ \E q \in Queries : Query(q)
              \/ Close

Next == \/ CallStarts
        \/ ClientStep
        \/ Timeout
        \/ WaitEnds
        \/ DelveServes
        \/ TargetHalts
        \/ DelvePrint
        \/ DelveCrash

Spec == Init /\ [][Next]_vars

\* The client reads what it can, and its deadlines strike.
ClientFairness == WF_vars(ClientStep) /\ WF_vars(Timeout)

\* Every call carries a deadline; nothing is assumed of Delve.
TimedSpec == Spec /\ ClientFairness

\* Delve serves its requests and a running target stops or exits.
PromptSpec == /\ Spec /\ ClientFairness
              /\ WF_vars(DelveServes)
              /\ WF_vars(TargetHalts)

-----------------------------------------------------------------------------
(* Properties.                                                             *)

\* The response a call takes is the response to that call's own request, even
\* when responses of calls that timed out are still arriving.
AnswerMatches == answer.got = answer.want

\* A closed client has kept nothing of the session, and no Delve process.
ClosedIsClean ==
  ~conn => /\ seq = 0 /\ stopKind = "nil" /\ targetOutput = <<>>
           /\ toDelve = <<>> /\ toClient = <<>> /\ ~torn
           /\ dlv = "none"
           /\ target \notin {"stopped", "running"}

\* Whatever fails on the way, Delve is never told to kill a process that was
\* attached to, nor to leave one behind that it launched.
EndMatchesMode == /\ target = "killed" => mode = "launch"
                  /\ target = "detached" => mode = "attach"

Settled == op = "idle" /\ conn /\ dlv = "up"

\* Between calls, what the client says of the debuggee is so.
StopIsReal == Settled => /\ stopKind = "stopped" => target = "stopped"
                         /\ stopKind = "exited" => target = "exited"

\* Without deadlines: between calls a stopped debuggee's thread is known, also
\* after a resume was refused, so the next resume names the right thread.
ThreadIsCurrent == Settled /\ target = "stopped" => stopThread = targetThread

\* Without deadlines and crashes: a session ends with its debuggee disposed of.
CloseDisposes == op = "idle" /\ ~conn =>
  target \in {"none", "exited", IF mode = "launch" THEN "killed" ELSE "detached"}

Kept == {i \in 1..printed : i \notin Console}
OnTheWay == {toClient[i].num : i \in {j \in 1..Len(toClient) : toClient[j].kind = "output"}}
Read == Kept \ OnTheWay

\* Without deadlines and crashes: the client's list holds the latest entries of
\* the target's output that reached it, in order, and the rest is on its way.
OutputIsComplete == conn =>
  /\ \A i, j \in DOMAIN targetOutput : i < j => targetOutput[i] < targetOutput[j]
  /\ LET shown == {targetOutput[i] : i \in DOMAIN targetOutput} IN
     /\ shown \subseteq Read
     /\ \A e \in Read \ shown : /\ Len(targetOutput) = OutputCap
                                /\ \A s \in shown : e < s

\* Delve has refused the last request, and the client has not read so yet.
RefusalUnread == /\ toClient # <<>>
                 /\ toClient[1].kind = "response" /\ ~toClient[1].ok

\* What the caller is told of the debuggee: nothing while a call may change it.
SessionSaid == IF op \in {"idle", "query"}
               THEN [kind |-> stopKind,
                     thread |-> IF stopKind = "stopped" THEN stopThread ELSE 0]
               ELSE [kind |-> "nil", thread |-> 0]

SessionCall ==
  IF op = "action" /\ toDelve = <<>> /\ ~RefusalUnread THEN "resumed" ELSE op

Session == INSTANCE Session WITH
  open <- conn, call <- SessionCall, thread <- targetThread, said <- SessionSaid

\* Without deadlines and crashes: to its caller the client is a session, in which a
\* resume is carried out once, a result is a halt that came after it, and the end
\* disposes of the debuggee.
SessionSafety == Session!Spec

\* Every call returns, whatever Delve does, but for the one that Close has no
\* deadline for: a debuggee it launched was left behind and holds Delve's output.
CallsReturn ==
  op # "idle" ~> \/ op = "idle"
                 \/ op = "wait" /\ mode = "launch" /\ target = "lost"

\* Without deadlines: no stop is missed, wherever it arrives among the other
\* messages, so a call that waits for one returns.
NoStopIsMissed == await = "stop" ~> op = "idle"
=============================================================================
