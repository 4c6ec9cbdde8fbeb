-------------------------- MODULE DapClient_proofs --------------------------
(***************************************************************************)
(* Proofs about DapClient for any threads, queries and bounds, with        *)
(* deadlines and crashes: the variables keep their types, a call never     *)
(* takes another call's response for its own, and sessions end cleanly and *)
(* the way they were opened.  Without deadlines and crashes: the client    *)
(* knows what has become of the debuggee, and implements Session.          *)
(***************************************************************************)
EXTENDS DapClient, SequenceTheorems, TLAPS

USE DEF Modes, Commands, Events

LEMMA ConstantTypes ==
  /\ Actions \subseteq Commands /\ Queries \subseteq Commands
  /\ Threads \subseteq Nat
BY ThreadsAssumption

\* What is left of a stream after its head was read is a stream.
LEMMA TailType ==
  ASSUME NEW S, NEW s \in Seq(S), s # <<>>
  PROVE  Tail(s) \in Seq(S) /\ Head(s) \in S
BY HeadTailProperties

LEMMA LongHasHead ==
  ASSUME NEW S, NEW s \in Seq(S), Len(s) > 1
  PROVE  s # <<>>
<1>1. SUFFICES ASSUME s = <<>> PROVE FALSE
  OBVIOUS
<1>2. Len(s) = 0
  BY <1>1, EmptySeq, Zenon
<1> QED
  BY <1>2

-----------------------------------------------------------------------------
(* Types.                                                                  *)

LEMMA SendTypes ==
  ASSUME TypeOK, NEW c \in Commands, NEW t \in Nat,
         NEW rest \in Seq(Messages), NEW tornNext \in BOOLEAN,
         Send(c, t, rest, tornNext)
  PROVE  /\ seq' \in Nat /\ cmd' \in Commands \cup {"none"}
         /\ await' \in {"none", "response", "stop"}
         /\ toDelve' \in Seq(Requests) /\ toClient' \in Seq(Messages)
         /\ torn' \in BOOLEAN
<1> DEFINE r == [num |-> seq + 1, cmd |-> c, thread |-> t, kill |-> terminate]
<1>1. r \in Requests
  BY DEF TypeOK, Requests
<1>2. toDelve' = Append(toDelve, r) \/ toDelve' = toDelve
  BY DEF Send
<1>3. toDelve' \in Seq(Requests)
  <2>1. toDelve \in Seq(Requests)
    BY DEF TypeOK
  <2> HIDE DEF r
  <2> QED
    BY <1>1, <1>2, <2>1
<1> QED
  BY <1>3 DEF Send, TypeOK

LEMMA ReturnTypes ==
  ASSUME TypeOK, NEW r \in {"ok", "error"},
         NEW rest \in Seq(Messages), NEW tornNext \in BOOLEAN,
         Return(r, rest, tornNext),
         UNCHANGED <<stopVars, targetOutput, sessionVars, delveVars>>, answer' \in
           [want : Commands \cup {"none"}, got : Commands \cup {"none"}]
  PROVE  TypeOK'
<1>1. /\ op' = "idle" /\ await' = "none" /\ ret' = r /\ toClient' = rest /\ torn' = tornNext
      /\ UNCHANGED <<seq, cmd, toDelve>>
  BY DEF Return
<1>2. UNCHANGED <<conn, stopKind, stopThread, terminate, targetOutput, dlv, mode,
                  target, targetThread, printed, opens>>
  BY DEF stopVars, sessionVars, delveVars
<1> QED
  BY <1>1, <1>2 DEF TypeOK

LEMMA FinishTypes ==
  ASSUME TypeOK, NEW r \in {"ok", "error"}, FinishClose(r), answer' \in
           [want : Commands \cup {"none"}, got : Commands \cup {"none"}]
  PROVE  TypeOK'
<1>1. /\ targetOutput' \in Seq(Nat) /\ toDelve' \in Seq(Requests)
      /\ toClient' \in Seq(Messages)
  BY EmptySeq, Zenon DEF FinishClose
<1>2. /\ conn' \in BOOLEAN /\ seq' \in Nat /\ stopThread' \in Nat /\ torn' \in BOOLEAN
      /\ stopKind' \in {"nil", "stopped", "running", "exited"}
      /\ op' \in {"idle", "open", "action", "query", "close", "unwind", "wait"}
      /\ cmd' \in Commands \cup {"none"}
      /\ await' \in {"none", "response", "stop"}
      /\ ret' \in {"none", "ok", "error"}
      /\ dlv' \in {"none", "up", "dead"}
      /\ target' \in {"none", "stopped", "running", "exited", "killed", "detached", "lost"}
  BY DEF FinishClose, EndResult, TypeOK
<1>3. UNCHANGED <<terminate, mode, opens, targetThread, printed>>
  BY DEF FinishClose
<1> QED
  BY <1>1, <1>2, <1>3 DEF TypeOK

LEMMA FailTypes ==
  ASSUME TypeOK, NEW rest \in Seq(Messages), NEW tornNext \in BOOLEAN,
         Fail(rest, tornNext), answer' \in
           [want : Commands \cup {"none"}, got : Commands \cup {"none"}]
  PROVE  TypeOK'
<1>1. CASE op = "open"
  <2>1. Send("disconnect", 0, rest, tornNext)
    BY <1>1 DEF Fail
  <2>2. /\ seq' \in Nat /\ cmd' \in Commands \cup {"none"}
        /\ await' \in {"none", "response", "stop"}
        /\ toDelve' \in Seq(Requests) /\ toClient' \in Seq(Messages)
        /\ torn' \in BOOLEAN
    BY <2>1, SendTypes
  <2>3. /\ op' = "unwind"
        /\ UNCHANGED <<ret, stopVars, targetOutput, sessionVars, delveVars>>
    BY <1>1 DEF Fail
  <2> QED
    BY <2>2, <2>3 DEF TypeOK, stopVars, sessionVars, delveVars
<1>2. CASE op \in {"action", "query"}
  BY <1>2, ReturnTypes DEF Fail
<1>3. CASE op \in {"close", "unwind"}
  BY <1>3, FinishTypes DEF Fail
<1> QED
  BY <1>1, <1>2, <1>3 DEF Fail

LEMMA ProceedTypes ==
  ASSUME TypeOK, NEW rest \in Seq(Messages), Proceed(rest), answer' \in
           [want : Commands \cup {"none"}, got : Commands \cup {"none"}]
  PROVE  TypeOK'
<1>1. ASSUME NEW c \in Commands, Send(c, 0, rest, FALSE),
             UNCHANGED <<op, ret, stopVars, targetOutput, sessionVars, delveVars>>
      PROVE  TypeOK'
  <2>1. /\ seq' \in Nat /\ cmd' \in Commands \cup {"none"}
        /\ await' \in {"none", "response", "stop"}
        /\ toDelve' \in Seq(Requests) /\ toClient' \in Seq(Messages)
        /\ torn' \in BOOLEAN
    BY <1>1, SendTypes
  <2> QED
    BY <1>1, <2>1 DEF TypeOK, stopVars, sessionVars, delveVars
<1>2. CASE op = "open" /\ cmd \in {"initialize"} \cup Modes
  <2>1. (IF cmd = "initialize" THEN mode ELSE "configurationDone") \in Commands
    BY DEF TypeOK
  <2> QED
    BY <1>1, <1>2, <2>1 DEF Proceed
<1>3. CASE (op = "open" /\ cmd = "configurationDone") \/ op = "action"
  <2>1. /\ WaitForStop(rest, FALSE)
        /\ UNCHANGED <<stopVars, targetOutput, sessionVars, delveVars>>
    BY <1>3 DEF Proceed
  <2>2. CASE stopKind \in Halted
    BY <2>1, <2>2, ReturnTypes DEF WaitForStop
  <2>3. CASE stopKind \notin Halted
    <3>1. /\ await' = "stop" /\ toClient' = rest /\ torn' = FALSE
          /\ UNCHANGED <<op, ret, seq, cmd, toDelve>>
      BY <2>1, <2>3 DEF WaitForStop
    <3>2. UNCHANGED <<conn, stopKind, stopThread, terminate, targetOutput, dlv,
                      mode, target, targetThread, printed, opens>>
      BY <2>1 DEF stopVars, sessionVars, delveVars
    <3>3. torn' \in BOOLEAN /\ await' \in {"none", "response", "stop"}
      BY <3>1
    <3> QED
      BY <3>1, <3>2, <3>3 DEF TypeOK
  <2> QED
    BY <2>2, <2>3
<1>4. CASE op = "query"
  <2>1. ASSUME Send("variables", 0, rest, FALSE),
               UNCHANGED <<op, ret, stopVars, targetOutput, sessionVars, delveVars>>
        PROVE  TypeOK'
    <3>1. "variables" \in Commands
      OBVIOUS
    <3> QED
      BY <1>1, <2>1, <3>1
  <2>2. ASSUME Return("ok", rest, FALSE),
               UNCHANGED <<stopVars, targetOutput, sessionVars, delveVars>>
        PROVE  TypeOK'
    BY <2>2, ReturnTypes
  <2>3. \/ /\ Send("variables", 0, rest, FALSE)
           /\ UNCHANGED <<op, ret, stopVars, targetOutput, sessionVars, delveVars>>
        \/ /\ Return("ok", rest, FALSE)
           /\ UNCHANGED <<stopVars, targetOutput, sessionVars, delveVars>>
    BY <1>4 DEF Proceed
  <2> QED
    BY <2>1, <2>2, <2>3
<1>5. CASE op \in {"close", "unwind"}
  BY <1>5, FinishTypes DEF Proceed
<1> QED
  BY <1>2, <1>3, <1>4, <1>5 DEF Proceed

LEMMA LastEntriesType ==
  ASSUME NEW s \in Seq(Nat)
  PROVE  LastEntries(s) \in Seq(Nat)
<1>1. CASE Len(s) > OutputCap
  <2>1. /\ Len(s) - OutputCap + 1 \in Int /\ Len(s) \in Int
        /\ \A i \in (Len(s) - OutputCap + 1)..Len(s) : s[i] \in Nat
    BY <1>1, BoundsAssumption
  <2>2. SubSeq(s, Len(s) - OutputCap + 1, Len(s)) \in Seq(Nat)
    BY <2>1, SubSeqProperties
  <2> QED
    BY <1>1, <2>2 DEF LastEntries
<1> QED
  BY <1>1 DEF LastEntries

\* A call starts with a typed client.
LEMMA CallTypes == TypeOK /\ CallStarts => TypeOK'
<1> SUFFICES ASSUME TypeOK, CallStarts PROVE TypeOK'
  OBVIOUS
<1>1. ASSUME NEW m \in Modes, Open(m) PROVE TypeOK'
  <2> DEFINE r == [num |-> seq + 1, cmd |-> "initialize", thread |-> 0, kill |-> (m = "launch")]
  <2>1. r \in Requests
    BY DEF TypeOK, Requests
  <2>2. toDelve' = <<r>>
    BY <1>1 DEF Open, TerminateFor
  <2>3. toDelve' \in Seq(Requests)
    BY <2>1, <2>2
  <2> QED
    BY <1>1, <2>3 DEF Open, TerminateFor, TypeOK, stopVars
<1>2. CASE OpenFails
  BY <1>2 DEF OpenFails, TypeOK, stopVars, delveVars
<1>3. ASSUME NEW c \in Actions, ThreadAction(c) PROVE TypeOK'
  <2>1. stopThread' \in Nat /\ stopKind' = "running" /\ op' = "action"
    BY <1>3 DEF ThreadAction, ResumeThread, SetRunning, TypeOK
  <2>2. c \in Commands /\ toClient \in Seq(Messages) /\ torn \in BOOLEAN
    BY ConstantTypes DEF TypeOK
  <2>3. Send(c, stopThread', toClient, torn)
    BY <1>3 DEF ThreadAction
  <2>4. /\ seq' \in Nat /\ cmd' \in Commands \cup {"none"}
        /\ await' \in {"none", "response", "stop"}
        /\ toDelve' \in Seq(Requests) /\ toClient' \in Seq(Messages)
        /\ torn' \in BOOLEAN
    BY <2>1, <2>2, <2>3, SendTypes
  <2> QED
    BY <1>3, <2>1, <2>4 DEF ThreadAction, TypeOK, sessionVars, delveVars
<1>4. ASSUME NEW q \in Queries, Query(q) PROVE TypeOK'
  <2>1. q \in Commands /\ stopThread \in Nat /\ toClient \in Seq(Messages) /\ torn \in BOOLEAN
    BY ConstantTypes DEF TypeOK
  <2>2. Send(q, stopThread, toClient, torn) /\ op' = "query"
    BY <1>4 DEF Query
  <2>3. /\ seq' \in Nat /\ cmd' \in Commands \cup {"none"}
        /\ await' \in {"none", "response", "stop"}
        /\ toDelve' \in Seq(Requests) /\ toClient' \in Seq(Messages)
        /\ torn' \in BOOLEAN
    BY <2>1, <2>2, SendTypes
  <2> QED
    BY <1>4, <2>2, <2>3 DEF Query, TypeOK, stopVars, sessionVars, delveVars
<1>5. CASE Close
  <2>1. Send("disconnect", 0, toClient, torn) /\ op' = "close"
    BY <1>5 DEF Close
  <2>2. toClient \in Seq(Messages) /\ torn \in BOOLEAN
    BY DEF TypeOK
  <2>3. /\ seq' \in Nat /\ cmd' \in Commands \cup {"none"}
        /\ await' \in {"none", "response", "stop"}
        /\ toDelve' \in Seq(Requests) /\ toClient' \in Seq(Messages)
        /\ torn' \in BOOLEAN
    BY <2>1, <2>2, SendTypes
  <2> QED
    BY <1>5, <2>1, <2>3 DEF Close, TypeOK, stopVars, sessionVars, delveVars
<1> QED
  BY <1>1, <1>2, <1>3, <1>4, <1>5 DEF CallStarts

LEMMA EventTypes == TypeOK /\ ReadEvent => TypeOK'
<1> SUFFICES ASSUME TypeOK, ReadEvent PROVE TypeOK'
  OBVIOUS
<1> DEFINE m == Head(toClient)
<1>1. m \in Messages /\ Tail(toClient) \in Seq(Messages)
  BY TailType DEF ReadEvent, Readable, TypeOK
<1>2. /\ stopKind' \in {"nil", "stopped", "running", "exited"}
      /\ stopThread' \in Nat
  BY <1>1 DEF ReadEvent, HandleEvent, TypeOK, stopVars, Messages
<1>3. targetOutput' \in Seq(Nat)
  <2>1. /\ targetOutput \in Seq(Nat)
        /\ Append(targetOutput, m.num) \in Seq(Nat)
    BY <1>1 DEF TypeOK, Messages
  <2>2. targetOutput' \in {targetOutput, LastEntries(Append(targetOutput, m.num))}
    BY DEF ReadEvent, HandleEvent
  <2> QED
    BY <2>1, <2>2, LastEntriesType
<1>4. /\ op' \in {"idle", op} /\ await' \in {"none", await} /\ ret' \in {"ok", ret}
      /\ toClient' = Tail(toClient) /\ torn' \in {FALSE, torn}
      /\ UNCHANGED <<seq, cmd, toDelve>>
  BY DEF ReadEvent, Return
<1>5. UNCHANGED <<answer, conn, terminate, dlv, mode, target, targetThread, printed, opens>>
  BY DEF ReadEvent, sessionVars, delveVars
<1>6. op' \in {"idle", "open", "action", "query", "close", "unwind", "wait"}
      /\ await' \in {"none", "response", "stop"} /\ ret' \in {"none", "ok", "error"}
      /\ torn' \in BOOLEAN
  BY <1>4 DEF TypeOK
<1> QED
  BY <1>1, <1>2, <1>3, <1>4, <1>5, <1>6 DEF TypeOK

\* Reading keeps the types, whether it ends the call or not.
LEMMA ReadTypes == TypeOK /\ (ClientStep \/ Timeout) => TypeOK'
<1> SUFFICES ASSUME TypeOK, ClientStep \/ Timeout PROVE TypeOK'
  OBVIOUS
<1>1. /\ toClient \in Seq(Messages) /\ torn \in BOOLEAN
      /\ toClient # <<>> => Tail(toClient) \in Seq(Messages)
  BY TailType DEF TypeOK
<1>2. UNCHANGED answer => answer' \in
        [want : Commands \cup {"none"}, got : Commands \cup {"none"}]
  BY DEF TypeOK
<1>3. CASE SkipResponse
  BY <1>1, <1>3 DEF SkipResponse, Readable, TypeOK, clientVars, stopVars, callVars,
                    delveVars
<1>4. CASE TakeResponse
  <2>1. toClient # <<>>
    BY <1>4 DEF TakeResponse, Readable
  <2>2. Head(toClient).cmd \in Commands \cup {"none"}
    <3>1. Head(toClient) \in Messages
      BY <2>1, TailType DEF TypeOK
    <3> QED
      BY <3>1 DEF Messages
  <2>3. answer' \in [want : Commands \cup {"none"}, got : Commands \cup {"none"}]
    BY <1>4, <2>2 DEF TakeResponse, TypeOK
  <2>4. CASE Proceed(Tail(toClient))
    BY <1>1, <2>1, <2>3, <2>4, ProceedTypes
  <2>5. CASE Fail(Tail(toClient), FALSE)
    BY <1>1, <2>1, <2>3, <2>5, FailTypes
  <2> QED
    BY <1>4, <2>4, <2>5 DEF TakeResponse
<1>5. CASE ReadTorn
  <2>1. toClient # <<>>
    BY <1>1, <1>5, LongHasHead DEF ReadTorn
  <2> QED
    BY <1>1, <1>2, <1>5, <2>1, FailTypes DEF ReadTorn
<1>6. CASE ReadClosed
  BY <1>1, <1>2, <1>6, FailTypes DEF ReadClosed
<1>7. CASE Timeout
  BY <1>1, <1>2, <1>7, FailTypes DEF Timeout
<1> QED
  BY <1>3, <1>4, <1>5, <1>6, <1>7, EventTypes DEF ClientStep

LEMMA ReplyType ==
  ASSUME NEW r \in Requests, NEW b \in BOOLEAN
  PROVE  Reply(r, b) \in Messages
BY DEF Reply, Messages, Requests

LEMMA EventType ==
  ASSUME NEW k \in Events, NEW n \in Nat
  PROVE  Event(k, n) \in Messages
BY DEF Event, Messages

\* Serving a request consumes it and sends messages.
LEMMA ServeTypes ==
  ASSUME TypeOK, NEW sent \in Seq(Messages), Serve(Head(toDelve), sent),
         dlv' \in {"none", "up", "dead"}, targetThread' \in Nat,
         target' \in {"none", "stopped", "running", "exited", "killed", "detached", "lost"}
  PROVE  TypeOK'
<1>1. toDelve' \in Seq(Requests)
  BY TailType DEF Serve, TypeOK
<1>2. toClient' \in Seq(Messages)
  <2>1. toClient \in Seq(Messages) /\ toClient' = toClient \o sent
    BY DEF Serve, TypeOK
  <2> QED
    BY <2>1, ConcatProperties
<1> QED
  BY <1>1, <1>2 DEF Serve, TypeOK, clientVars, stopVars, callVars

LEMMA DelveTypes == TypeOK /\ DelveServes => TypeOK'
<1> SUFFICES ASSUME TypeOK, DelveServes PROVE TypeOK'
  OBVIOUS
<1> DEFINE r == Head(toDelve)
<1>1. r \in Requests
  BY TailType DEF DelveServes, TypeOK
<1>2. ASSUME NEW x \in Messages PROVE <<x>> \in Seq(Messages)
  OBVIOUS
<1>3. ASSUME NEW x \in Messages, NEW y \in Messages PROVE <<x, y>> \in Seq(Messages)
  OBVIOUS
<1>4. /\ Reply(r, TRUE) \in Messages /\ Reply(r, FALSE) \in Messages
      /\ Event("stopped", targetThread) \in Messages
      /\ Event("continued", 0) \in Messages /\ Event("terminated", 0) \in Messages
  BY <1>1, ReplyType, EventType DEF TypeOK
<1>5. \E sent \in Seq(Messages) : Serve(r, sent)
  <2> HIDE DEF r
  <2>1. \/ DelveInitialize(r) \/ DelveLoad(r) \/ DelveConfigured(r)
        \/ DelveResume(r) \/ DelveQuery(r) \/ DelveDisconnect(r)
    BY DEF DelveServes, r
  <2> QED
    BY <2>1, <1>2, <1>3, <1>4 DEF DelveInitialize, DelveLoad, DelveConfigured,
       DelveResume, DelveQuery, DelveDisconnect
<1>6. /\ dlv' \in {"none", "up", "dead"} /\ targetThread' \in Nat
      /\ target' \in {"none", "stopped", "running", "exited", "killed", "detached", "lost"}
  BY ConstantTypes DEF TypeOK, DelveServes, DelveInitialize, DelveLoad, DelveConfigured,
     DelveResume, DelveQuery, DelveDisconnect
<1> QED
  BY <1>5, <1>6, ServeTypes

LEMMA EmitTypes ==
  ASSUME TypeOK, NEW k \in Events, NEW n \in Nat, Emit(k, n),
         printed' \in Nat, targetThread' \in Nat,
         target' \in {"none", "stopped", "running", "exited", "killed", "detached", "lost"}
  PROVE  TypeOK'
<1>1. toClient' \in Seq(Messages)
  BY EventType DEF Emit, TypeOK
<1> QED
  BY <1>1 DEF Emit, TypeOK, clientVars, stopVars, callVars

\* The client's variables, the wire and the session keep their types.
THEOREM Typing == Spec => []TypeOK
<1>1. Init => TypeOK
  <2> SUFFICES ASSUME Init PROVE TypeOK
    OBVIOUS
  <2>1. /\ targetOutput \in Seq(Nat) /\ toDelve \in Seq(Requests)
        /\ toClient \in Seq(Messages)
    BY EmptySeq, Zenon DEF Init
  <2>2. answer \in [want : Commands \cup {"none"}, got : Commands \cup {"none"}]
    BY DEF Init
  <2>3. /\ conn \in BOOLEAN /\ seq \in Nat /\ stopThread \in Nat /\ torn \in BOOLEAN
        /\ stopKind = "nil" /\ terminate \in BOOLEAN
        /\ op = "idle" /\ cmd = "none" /\ await = "none" /\ ret = "none"
        /\ dlv = "none" /\ mode = "launch" /\ target = "none"
        /\ targetThread \in Nat /\ printed \in Nat /\ opens \in Nat
    BY DEF Init
  <2> QED
    BY <2>1, <2>2, <2>3 DEF TypeOK
<1>2. TypeOK /\ [Next]_vars => TypeOK'
  <2> SUFFICES ASSUME TypeOK, [Next]_vars PROVE TypeOK'
    OBVIOUS
  <2>1. ASSUME NEW t \in Threads, DelveStop(t) PROVE TypeOK'
    <3>1. t \in Nat /\ Emit("stopped", t) /\ target' = "stopped"
          /\ targetThread' = t /\ printed' = printed
      BY <2>1, ConstantTypes DEF DelveStop
    <3>2. printed \in Nat
      BY DEF TypeOK
    <3> QED
      BY <3>1, <3>2, EmitTypes
  <2>2. CASE DelveExit
    <3>1. Emit("terminated", 0) /\ target' = "exited"
          /\ targetThread' = targetThread /\ printed' = printed
      BY <2>2 DEF DelveExit
    <3>2. printed \in Nat /\ targetThread \in Nat
      BY DEF TypeOK
    <3> QED
      BY <3>1, <3>2, EmitTypes
  <2>3. CASE DelvePrint
    <3>1. Emit("output", printed + 1) /\ target' = target
          /\ targetThread' = targetThread /\ printed' = printed + 1
      BY <2>3 DEF DelvePrint
    <3>2. printed \in Nat /\ printed + 1 \in Nat /\ targetThread \in Nat
          /\ target \in {"none", "stopped", "running", "exited", "killed", "detached", "lost"}
      BY DEF TypeOK
    <3> QED
      BY <3>1, <3>2, EmitTypes
  <2>4. CASE DelveCrash
    BY <2>4 DEF DelveCrash, TypeOK, clientVars, stopVars, callVars
  <2>5. CASE UNCHANGED vars
    BY <2>5 DEF vars, TypeOK, clientVars, stopVars, callVars, delveVars
  <2>6. CASE WaitEnds
    BY <2>6 DEF WaitEnds, TypeOK, stopVars, delveVars
  <2> QED
    BY <2>1, <2>2, <2>3, <2>4, <2>5, <2>6, CallTypes, ReadTypes, DelveTypes
       DEF Next, TargetHalts
<1> QED
  BY <1>1, <1>2, PTL DEF Spec

-----------------------------------------------------------------------------
(* Matching responses to requests.  The numbers on the wire never exceed   *)
(* Client.seq, and whatever carries the number seq belongs to cmd: a late  *)
(* response has a smaller number, so the comparison of numbers finds it.   *)

OwnRequests(n, c) == {r \in Requests : r.num <= n /\ (r.num = n => r.cmd = c)}
OwnMessages(n, c) ==
  {m \in Messages : m.kind = "response" => m.num <= n /\ (m.num = n => m.cmd = c)}

WireInv == /\ toDelve \in Seq(OwnRequests(seq, cmd))
           /\ toClient \in Seq(OwnMessages(seq, cmd))

MatchInv == AnswerMatches /\ WireInv

LEMMA OwnGrows ==
  ASSUME NEW n \in Nat, NEW c, NEW d
  PROVE  /\ OwnRequests(n, c) \subseteq OwnRequests(n + 1, d)
         /\ OwnMessages(n, c) \subseteq OwnMessages(n + 1, d)
BY DEF OwnRequests, OwnMessages, Requests, Messages

\* A new request has a number of its own.
LEMMA SendOwn ==
  ASSUME TypeOK, WireInv, NEW c \in Commands, NEW t \in Nat,
         NEW rest \in Seq(OwnMessages(seq, cmd)), NEW tornNext \in BOOLEAN,
         Send(c, t, rest, tornNext)
  PROVE  WireInv'
<1> DEFINE r == [num |-> seq + 1, cmd |-> c, thread |-> t, kill |-> terminate]
<1>1. seq' = seq + 1 /\ cmd' = c /\ seq \in Nat
  BY DEF Send, TypeOK
<1>2. r \in OwnRequests(seq + 1, c)
  BY DEF TypeOK, Requests, OwnRequests
<1>3. toDelve' = Append(toDelve, r) \/ toDelve' = toDelve
  BY DEF Send
<1>4. toDelve \in Seq(OwnRequests(seq + 1, c))
  BY <1>1, OwnGrows, SeqMonotonic DEF WireInv
<1>5. toDelve' \in Seq(OwnRequests(seq + 1, c))
  <2> HIDE DEF r
  <2> QED
    BY <1>2, <1>3, <1>4
<1>6. rest \in Seq(OwnMessages(seq + 1, c)) /\ toClient' = rest
  BY <1>1, OwnGrows, SeqMonotonic DEF Send
<1> QED
  BY <1>1, <1>5, <1>6 DEF WireInv

LEMMA FinishOwn ==
  ASSUME NEW r, FinishClose(r)
  PROVE  WireInv'
BY EmptySeq, Zenon DEF FinishClose, WireInv

LEMMA ReturnOwn ==
  ASSUME WireInv, NEW r, NEW rest \in Seq(OwnMessages(seq, cmd)), NEW tornNext,
         Return(r, rest, tornNext)
  PROVE  WireInv'
BY DEF Return, WireInv

LEMMA FailOwn ==
  ASSUME TypeOK, WireInv, NEW rest \in Seq(OwnMessages(seq, cmd)),
         NEW tornNext \in BOOLEAN, Fail(rest, tornNext)
  PROVE  WireInv'
<1>1. CASE Send("disconnect", 0, rest, tornNext)
  <2>1. "disconnect" \in Commands
    OBVIOUS
  <2> QED
    BY <1>1, <2>1, SendOwn
<1>2. CASE Return("error", rest, tornNext)
  BY <1>2, ReturnOwn
<1>3. CASE FinishClose("error")
  BY <1>3, FinishOwn
<1> QED
  BY <1>1, <1>2, <1>3 DEF Fail

LEMMA ProceedOwn ==
  ASSUME TypeOK, WireInv, NEW rest \in Seq(OwnMessages(seq, cmd)), Proceed(rest)
  PROVE  WireInv'
<1>1. ASSUME NEW c \in Commands, Send(c, 0, rest, FALSE) PROVE WireInv'
  <2>1. FALSE \in BOOLEAN /\ 0 \in Nat
    OBVIOUS
  <2> QED
    BY <1>1, <2>1, SendOwn
<1>2. /\ "variables" \in Commands
      /\ (IF cmd = "initialize" THEN mode ELSE "configurationDone") \in Commands
  BY DEF TypeOK
<1>3. CASE WaitForStop(rest, FALSE)
  BY <1>3, ReturnOwn DEF WaitForStop, WireInv
<1>4. CASE Return("ok", rest, FALSE)
  BY <1>4, ReturnOwn
<1>5. CASE FinishClose("ok")
  BY <1>5, FinishOwn
<1> QED
  BY <1>1, <1>2, <1>3, <1>4, <1>5 DEF Proceed

LEMMA CallOwn == TypeOK /\ MatchInv /\ CallStarts => MatchInv'
<1> SUFFICES ASSUME TypeOK, MatchInv, CallStarts PROVE MatchInv'
  OBVIOUS
<1>1. answer' = answer
  BY DEF CallStarts, Open, OpenFails, ThreadAction, Query, Close
<1>2. /\ WireInv /\ toClient \in Seq(OwnMessages(seq, cmd)) /\ torn \in BOOLEAN
      /\ stopThread \in Nat /\ "disconnect" \in Commands
  BY DEF MatchInv, WireInv, TypeOK
<1>3. ASSUME NEW c \in Commands, NEW t \in Nat, Send(c, t, toClient, torn)
      PROVE  WireInv'
  BY <1>2, <1>3, SendOwn
<1>4. WireInv'
  <2>1. ASSUME NEW m \in Modes, Open(m) PROVE WireInv'
    <3> DEFINE r == [num |-> seq + 1, cmd |-> "initialize", thread |-> 0, kill |-> (m = "launch")]
    <3>1. r \in OwnRequests(seq + 1, "initialize")
      BY DEF TypeOK, Requests, OwnRequests
    <3>2. /\ toDelve' = <<r>> /\ toClient' = toClient
          /\ seq' = seq + 1 /\ cmd' = "initialize" /\ seq \in Nat
      BY <2>1 DEF Open, TerminateFor, TypeOK
    <3>3. toDelve' \in Seq(OwnRequests(seq + 1, "initialize"))
      BY <3>1, <3>2
    <3>4. toClient \in Seq(OwnMessages(seq + 1, "initialize"))
      BY <1>2, <3>2, OwnGrows, SeqMonotonic
    <3> QED
      BY <3>2, <3>3, <3>4 DEF WireInv
  <2>2. CASE OpenFails
    BY <1>2, <2>2 DEF OpenFails, WireInv
  <2>3. ASSUME NEW c \in Actions, ThreadAction(c) PROVE WireInv'
    <3>1. c \in Commands /\ stopThread' \in Nat
      BY <2>3, ConstantTypes DEF ThreadAction, ResumeThread, SetRunning, TypeOK
    <3> QED
      BY <1>3, <2>3, <3>1 DEF ThreadAction
  <2>4. ASSUME NEW q \in Queries, Query(q) PROVE WireInv'
    BY <1>2, <1>3, <2>4, ConstantTypes DEF Query
  <2>5. CASE Close
    BY <1>2, <1>3, <2>5 DEF Close
  <2> QED
    BY <2>1, <2>2, <2>3, <2>4, <2>5 DEF CallStarts
<1> QED
  BY <1>1, <1>4 DEF MatchInv, AnswerMatches

\* Reading: the response taken carries the number seq, so it answers cmd.
LEMMA ReadOwn == TypeOK /\ MatchInv /\ (ClientStep \/ Timeout) => MatchInv'
<1> SUFFICES ASSUME TypeOK, MatchInv, ClientStep \/ Timeout PROVE MatchInv'
  OBVIOUS
<1>1. /\ WireInv /\ AnswerMatches /\ toClient \in Seq(OwnMessages(seq, cmd))
      /\ torn \in BOOLEAN
      /\ toClient # <<>> => Tail(toClient) \in Seq(OwnMessages(seq, cmd))
  BY TailType DEF MatchInv, WireInv, TypeOK
<1>2. CASE ReadEvent
  <2>1. toClient # <<>> /\ answer' = answer
    BY <1>2 DEF ReadEvent, Readable
  <2>2. /\ toClient' = Tail(toClient) /\ UNCHANGED <<seq, cmd, toDelve>>
    BY <1>2 DEF ReadEvent, Return
  <2> QED
    BY <1>1, <2>1, <2>2 DEF MatchInv, WireInv, AnswerMatches
<1>3. CASE SkipResponse
  <2>1. toClient # <<>> /\ UNCHANGED <<answer, seq, cmd, toDelve>>
        /\ toClient' = Tail(toClient)
    BY <1>3 DEF SkipResponse, Readable, clientVars, callVars
  <2> QED
    BY <1>1, <2>1 DEF MatchInv, WireInv, AnswerMatches
<1>4. CASE TakeResponse
  <2> DEFINE m == Head(toClient)
  <2>1. toClient # <<>> /\ m.kind = "response" /\ m.num = seq
    BY <1>4 DEF TakeResponse, Readable, Answers
  <2>2. m \in OwnMessages(seq, cmd)
    BY <1>1, <2>1, TailType
  <2>3. m.cmd = cmd
    BY <2>1, <2>2 DEF OwnMessages
  <2>4. AnswerMatches'
    BY <1>4, <2>3 DEF TakeResponse, AnswerMatches
  <2>5. WireInv'
    BY <1>1, <1>4, <2>1, ProceedOwn, FailOwn DEF TakeResponse
  <2> QED
    BY <2>4, <2>5 DEF MatchInv
<1>5. CASE ReadTorn
  <2>1. toClient # <<>> /\ Fail(Tail(toClient), TRUE) /\ answer' = answer
    BY <1>1, <1>5, LongHasHead DEF ReadTorn
  <2> QED
    BY <1>1, <2>1, FailOwn DEF MatchInv, AnswerMatches
<1>6. CASE ReadClosed
  BY <1>1, <1>6, FailOwn DEF ReadClosed, MatchInv, AnswerMatches
<1>7. CASE Timeout
  BY <1>1, <1>7, FailOwn DEF Timeout, MatchInv, AnswerMatches
<1> QED
  BY <1>2, <1>3, <1>4, <1>5, <1>6, <1>7 DEF ClientStep

\* Delve answers a request with the request's own number.
LEMMA ServeOwn ==
  ASSUME TypeOK, WireInv, NEW sent \in Seq(OwnMessages(seq, cmd)),
         Serve(Head(toDelve), sent)
  PROVE  WireInv'
<1>1. toDelve' \in Seq(OwnRequests(seq, cmd))
  BY TailType DEF Serve, WireInv
<1>2. toClient' \in Seq(OwnMessages(seq, cmd))
  <2>1. toClient \in Seq(OwnMessages(seq, cmd)) /\ toClient' = toClient \o sent
    BY DEF Serve, WireInv
  <2> QED
    BY <2>1, ConcatProperties
<1>3. UNCHANGED <<seq, cmd>>
  BY DEF Serve, clientVars, callVars
<1> QED
  BY <1>1, <1>2, <1>3 DEF WireInv

LEMMA DelveOwn == TypeOK /\ MatchInv /\ DelveServes => MatchInv'
<1> SUFFICES ASSUME TypeOK, MatchInv, DelveServes PROVE MatchInv'
  OBVIOUS
<1> DEFINE r == Head(toDelve)
           M == OwnMessages(seq, cmd)
<1>1. r \in OwnRequests(seq, cmd)
  BY TailType DEF DelveServes, MatchInv, WireInv
<1>2. r \in Requests /\ r.num <= seq /\ (r.num = seq => r.cmd = cmd)
  BY <1>1 DEF OwnRequests
<1>3. ASSUME NEW b \in BOOLEAN PROVE Reply(r, b) \in M
  <2>1. Reply(r, b) \in Messages
    BY <1>2, ReplyType
  <2>2. Reply(r, b).num = r.num /\ Reply(r, b).cmd = r.cmd
    BY DEF Reply
  <2> QED
    BY <1>2, <2>1, <2>2 DEF OwnMessages
<1>4. ASSUME NEW k \in Events, NEW n \in Nat PROVE Event(k, n) \in M
  <2>1. Event(k, n) \in Messages /\ Event(k, n).kind # "response"
    BY EventType DEF Event
  <2> QED
    BY <2>1 DEF OwnMessages
<1> HIDE DEF r, M
<1>5. ASSUME NEW x \in M PROVE <<x>> \in Seq(M)
  OBVIOUS
<1>6. ASSUME NEW x \in M, NEW y \in M PROVE <<x, y>> \in Seq(M)
  OBVIOUS
<1>7. /\ Reply(r, TRUE) \in M /\ Reply(r, FALSE) \in M
      /\ Event("stopped", targetThread) \in M
      /\ Event("continued", 0) \in M /\ Event("terminated", 0) \in M
  BY <1>3, <1>4 DEF TypeOK
<1>8. \E sent \in Seq(M) : Serve(r, sent)
  <2>1. \/ DelveInitialize(r) \/ DelveLoad(r) \/ DelveConfigured(r)
        \/ DelveResume(r) \/ DelveQuery(r) \/ DelveDisconnect(r)
    BY DEF DelveServes, r
  <2> QED
    BY <2>1, <1>5, <1>6, <1>7 DEF DelveInitialize, DelveLoad, DelveConfigured,
       DelveResume, DelveQuery, DelveDisconnect
<1>9. WireInv'
  BY <1>8, ServeOwn DEF r, M, MatchInv
<1>10. answer' = answer
  BY <1>8 DEF Serve, clientVars, callVars
<1> QED
  BY <1>9, <1>10 DEF MatchInv, AnswerMatches

LEMMA EmitOwn ==
  ASSUME MatchInv, NEW k \in Events, NEW n \in Nat, Emit(k, n)
  PROVE  MatchInv'
<1>1. Event(k, n) \in OwnMessages(seq, cmd)
  <2>1. Event(k, n) \in Messages /\ Event(k, n).kind # "response"
    BY EventType DEF Event
  <2> QED
    BY <2>1 DEF OwnMessages
<1>2. /\ toClient' = Append(toClient, Event(k, n))
      /\ UNCHANGED <<seq, cmd, toDelve, answer>>
  BY DEF Emit, clientVars, callVars
<1>3. toClient' \in Seq(OwnMessages(seq, cmd))
  BY <1>1, <1>2 DEF MatchInv, WireInv
<1> QED
  BY <1>2, <1>3 DEF MatchInv, WireInv, AnswerMatches

LEMMA MatchInvariant == Spec => []MatchInv
<1>1. Init => MatchInv
  <2> SUFFICES ASSUME Init PROVE MatchInv
    OBVIOUS
  <2>1. WireInv
    BY EmptySeq, Zenon DEF Init, WireInv
  <2> QED
    BY <2>1 DEF Init, MatchInv, AnswerMatches
<1>2. TypeOK /\ MatchInv /\ [Next]_vars => MatchInv'
  <2> SUFFICES ASSUME TypeOK, MatchInv, [Next]_vars PROVE MatchInv'
    OBVIOUS
  <2>1. ASSUME NEW t \in Threads, DelveStop(t) PROVE MatchInv'
    BY <2>1, ConstantTypes, EmitOwn DEF DelveStop
  <2>2. CASE DelveExit
    BY <2>2, EmitOwn DEF DelveExit
  <2>3. CASE DelvePrint
    BY <2>3, EmitOwn DEF DelvePrint, TypeOK
  <2>4. CASE DelveCrash
    BY <2>4 DEF DelveCrash, clientVars, callVars, MatchInv, WireInv, AnswerMatches
  <2>5. CASE UNCHANGED vars
    BY <2>5 DEF vars, clientVars, callVars, MatchInv, WireInv, AnswerMatches
  <2>6. CASE WaitEnds
    BY <2>6 DEF WaitEnds, MatchInv, WireInv, AnswerMatches
  <2> QED
    BY <2>1, <2>2, <2>3, <2>4, <2>5, <2>6, CallOwn, ReadOwn, DelveOwn DEF Next, TargetHalts
<1> QED
  BY <1>1, <1>2, Typing, PTL DEF Spec

\* A call never takes the late response of another call for its own, whatever
\* timed out before it.
THEOREM Matching == Spec => []AnswerMatches
<1>1. MatchInv => AnswerMatches
  BY DEF MatchInv
<1> QED
  BY <1>1, MatchInvariant, PTL

-----------------------------------------------------------------------------
(* The session.  A call that reads or writes has a connection, the wait at *)
(* the end of a Close has none, a connection has a Delve process, and      *)
(* every request on the wire carries the choice between killing and        *)
(* detaching that was made when the session was opened.                    *)

KillRequests(b) == {r \in Requests : r.kill = b}

SessionInv == /\ await # "none" => op # "idle"
              /\ op \notin {"idle", "wait"} => conn
              /\ op = "wait" => ~conn /\ await = "none"
              /\ conn <=> dlv # "none"
              /\ conn => (terminate <=> mode = "launch")
              /\ toDelve \in Seq(KillRequests(terminate))
              /\ ClosedIsClean
              /\ EndMatchesMode

\* Steps that leave the session itself alone.
LEMMA SessionKept ==
  ASSUME TypeOK, SessionInv, conn,
         toDelve' \in Seq(KillRequests(terminate)),
         await' # "none" => op' # "idle", op' # "wait",
         UNCHANGED <<conn, terminate, mode>>,
         conn => dlv' # "none",
         target' = "killed" => mode = "launch",
         target' = "detached" => mode = "attach"
  PROVE  SessionInv'
BY DEF SessionInv, ClosedIsClean, EndMatchesMode

LEMMA SendKill ==
  ASSUME TypeOK, SessionInv, NEW c \in Commands, NEW t \in Nat, NEW rest, NEW tornNext,
         Send(c, t, rest, tornNext)
  PROVE  toDelve' \in Seq(KillRequests(terminate))
<1> DEFINE r == [num |-> seq + 1, cmd |-> c, thread |-> t, kill |-> terminate]
<1>1. r \in KillRequests(terminate)
  BY DEF TypeOK, Requests, KillRequests
<1>2. toDelve' = Append(toDelve, r) \/ toDelve' = toDelve
  BY DEF Send
<1>3. toDelve \in Seq(KillRequests(terminate))
  BY DEF SessionInv
<1> HIDE DEF r
<1> QED
  BY <1>1, <1>2, <1>3

LEMMA SendSession ==
  ASSUME TypeOK, SessionInv, conn, NEW c \in Commands, NEW t \in Nat,
         NEW rest, NEW tornNext, Send(c, t, rest, tornNext),
         op' \notin {"idle", "wait"}, UNCHANGED <<sessionVars, delveVars>>
  PROVE  SessionInv'
<1>1. toDelve' \in Seq(KillRequests(terminate))
  BY SendKill
<1>2. UNCHANGED <<conn, terminate, mode, dlv, target>>
  BY DEF sessionVars, delveVars
<1>3. (conn => dlv # "none") /\ EndMatchesMode
  BY DEF SessionInv
<1> QED
  BY <1>1, <1>2, <1>3, SessionKept DEF EndMatchesMode

LEMMA ReturnSession ==
  ASSUME TypeOK, SessionInv, conn, NEW r, NEW rest, NEW tornNext,
         Return(r, rest, tornNext), UNCHANGED <<sessionVars, delveVars>>
  PROVE  SessionInv'
<1>1. toDelve' \in Seq(KillRequests(terminate)) /\ await' = "none" /\ op' = "idle"
  BY DEF Return, SessionInv
<1>2. UNCHANGED <<conn, terminate, mode, dlv, target>>
  BY DEF sessionVars, delveVars
<1>3. (conn => dlv # "none") /\ EndMatchesMode
  BY DEF SessionInv
<1> QED
  BY <1>1, <1>2, <1>3, SessionKept DEF EndMatchesMode

\* Close leaves nothing behind.
LEMMA FinishSession ==
  ASSUME TypeOK, SessionInv, NEW r, FinishClose(r)
  PROVE  SessionInv'
<1>1. toDelve' \in Seq(KillRequests(terminate'))
  BY EmptySeq, Zenon DEF FinishClose
<1>2. ClosedIsClean'
  BY DEF FinishClose, ClosedIsClean
<1>3. EndMatchesMode'
  BY DEF FinishClose, SessionInv, EndMatchesMode
<1>4. ~conn' /\ op' \in {"idle", "wait"} /\ await' = "none" /\ dlv' = "none"
  BY DEF FinishClose
<1> QED
  BY <1>1, <1>2, <1>3, <1>4 DEF SessionInv

LEMMA FailSession ==
  ASSUME TypeOK, SessionInv, conn, NEW rest, NEW tornNext, Fail(rest, tornNext)
  PROVE  SessionInv'
<1>1. CASE op = "open"
  <2>1. /\ Send("disconnect", 0, rest, tornNext) /\ op' = "unwind"
        /\ UNCHANGED <<sessionVars, delveVars>> /\ "disconnect" \in Commands
    BY <1>1 DEF Fail
  <2> QED
    BY <2>1, SendSession
<1>2. CASE op \in {"action", "query"}
  BY <1>2, ReturnSession DEF Fail
<1>3. CASE op \in {"close", "unwind"}
  BY <1>3, FinishSession DEF Fail
<1> QED
  BY <1>1, <1>2, <1>3 DEF Fail

LEMMA ProceedSession ==
  ASSUME TypeOK, SessionInv, conn, op \notin {"idle", "wait"}, NEW rest,
         Proceed(rest)
  PROVE  SessionInv'
<1>1. ASSUME NEW c \in Commands, Send(c, 0, rest, FALSE),
             UNCHANGED <<op, sessionVars, delveVars>>
      PROVE  SessionInv'
  BY <1>1, SendSession
<1>2. CASE op = "open" /\ cmd \in {"initialize"} \cup Modes
  <2>1. (IF cmd = "initialize" THEN mode ELSE "configurationDone") \in Commands
    BY DEF TypeOK
  <2> QED
    BY <1>1, <1>2, <2>1 DEF Proceed
<1>3. CASE (op = "open" /\ cmd = "configurationDone") \/ op = "action"
  <2>1. WaitForStop(rest, FALSE) /\ UNCHANGED <<sessionVars, delveVars>>
    BY <1>3 DEF Proceed
  <2>2. CASE Return("ok", rest, FALSE)
    BY <2>1, <2>2, ReturnSession
  <2>3. CASE UNCHANGED <<op, toDelve>>
    <3>1. UNCHANGED <<conn, terminate, mode, dlv, target>>
      BY <2>1 DEF sessionVars, delveVars
    <3>2. /\ (conn => dlv # "none") /\ op # "wait"
          /\ EndMatchesMode /\ toDelve \in Seq(KillRequests(terminate))
      BY DEF SessionInv
    <3> QED
      BY <2>3, <3>1, <3>2, SessionKept DEF EndMatchesMode
  <2> QED
    BY <2>1, <2>2, <2>3 DEF WaitForStop
<1>4. CASE op = "query"
  <2>1. "variables" \in Commands
    OBVIOUS
  <2>2. \/ /\ Send("variables", 0, rest, FALSE)
           /\ UNCHANGED <<op, sessionVars, delveVars>>
        \/ /\ Return("ok", rest, FALSE)
           /\ UNCHANGED <<sessionVars, delveVars>>
    BY <1>4 DEF Proceed
  <2> QED
    BY <1>1, <2>1, <2>2, ReturnSession
<1>5. CASE op \in {"close", "unwind"}
  BY <1>5, FinishSession DEF Proceed
<1> QED
  BY <1>2, <1>3, <1>4, <1>5 DEF Proceed

LEMMA CallSession == TypeOK /\ SessionInv /\ CallStarts => SessionInv'
<1> SUFFICES ASSUME TypeOK, SessionInv, CallStarts PROVE SessionInv'
  OBVIOUS
<1>1. ASSUME NEW m \in Modes, Open(m) PROVE SessionInv'
  <2> DEFINE r == [num |-> seq + 1, cmd |-> "initialize", thread |-> 0, kill |-> (m = "launch")]
  <2>1. r \in KillRequests(m = "launch")
    BY DEF TypeOK, Requests, KillRequests
  <2>2. toDelve' = <<r>> /\ terminate' = (m = "launch") /\ mode' = m
    BY <1>1 DEF Open, TerminateFor
  <2>3. toDelve' \in Seq(KillRequests(terminate'))
    BY <2>1, <2>2
  <2>4. conn' /\ dlv' = "up" /\ op' = "open" /\ target' = "none"
    BY <1>1 DEF Open
  <2> HIDE DEF r
  <2> QED
    BY <2>2, <2>3, <2>4 DEF SessionInv, ClosedIsClean, EndMatchesMode
<1>2. CASE OpenFails
  BY <1>2 DEF OpenFails, SessionInv, ClosedIsClean, EndMatchesMode, stopVars, delveVars
<1>3. ASSUME NEW c \in Actions, ThreadAction(c) PROVE SessionInv'
  <2>1. c \in Commands /\ stopThread' \in Nat /\ conn /\ op' = "action"
        /\ Send(c, stopThread', toClient, torn) /\ UNCHANGED <<sessionVars, delveVars>>
    BY <1>3, ConstantTypes DEF ThreadAction, ResumeThread, TypeOK
  <2>2. op' \notin {"idle", "wait"}
    BY <2>1
  <2> QED
    BY <2>1, <2>2, SendSession
<1>4. ASSUME NEW q \in Queries, Query(q) PROVE SessionInv'
  <2>1. q \in Commands /\ stopThread \in Nat /\ conn /\ op' \notin {"idle", "wait"}
        /\ Send(q, stopThread, toClient, torn) /\ UNCHANGED <<sessionVars, delveVars>>
    BY <1>4, ConstantTypes DEF Query, TypeOK
  <2> QED
    BY <2>1, SendSession
<1>5. CASE Close
  <2>1. "disconnect" \in Commands /\ conn /\ op' \notin {"idle", "wait"}
        /\ Send("disconnect", 0, toClient, torn) /\ UNCHANGED <<sessionVars, delveVars>>
    BY <1>5 DEF Close
  <2> QED
    BY <2>1, SendSession
<1> QED
  BY <1>1, <1>2, <1>3, <1>4, <1>5 DEF CallStarts

LEMMA ReadSession == TypeOK /\ SessionInv /\ (ClientStep \/ Timeout) => SessionInv'
<1> SUFFICES ASSUME TypeOK, SessionInv, ClientStep \/ Timeout PROVE SessionInv'
  OBVIOUS
<1>1. conn /\ op \notin {"idle", "wait"}
  BY DEF SessionInv, ClientStep, Timeout, ReadEvent, SkipResponse, TakeResponse,
         ReadTorn, ReadClosed, Readable
<1>2. CASE ReadEvent
  <2>1. /\ UNCHANGED <<conn, terminate, mode, dlv, target, toDelve>>
        /\ \/ await' = "none" /\ op' = "idle"
           \/ UNCHANGED <<op, await>>
    BY <1>2 DEF ReadEvent, Return, sessionVars, delveVars
  <2>2. /\ (conn => dlv # "none") /\ op # "wait"
        /\ EndMatchesMode /\ toDelve \in Seq(KillRequests(terminate))
    BY <1>1 DEF SessionInv
  <2> QED
    BY <1>1, <2>1, <2>2, SessionKept DEF EndMatchesMode
<1>3. CASE SkipResponse
  <2>1. UNCHANGED <<conn, terminate, mode, dlv, target, toDelve, op, await>>
    BY <1>3 DEF SkipResponse, clientVars, callVars, delveVars
  <2>2. /\ (conn => dlv # "none") /\ op # "wait"
        /\ EndMatchesMode /\ toDelve \in Seq(KillRequests(terminate))
    BY <1>1 DEF SessionInv
  <2> QED
    BY <1>1, <2>1, <2>2, SessionKept DEF EndMatchesMode
<1>4. CASE TakeResponse
  BY <1>1, <1>4, ProceedSession, FailSession DEF TakeResponse
<1>5. CASE ReadTorn
  BY <1>1, <1>5, FailSession DEF ReadTorn
<1>6. CASE ReadClosed
  BY <1>1, <1>6, FailSession DEF ReadClosed
<1>7. CASE Timeout
  BY <1>1, <1>7, FailSession DEF Timeout
<1> QED
  BY <1>2, <1>3, <1>4, <1>5, <1>6, <1>7 DEF ClientStep

\* Delve changes only the target and itself; a disconnect ends the target the
\* way the request says, which is the way the session was opened.
LEMMA DelveSession == TypeOK /\ SessionInv /\ DelveServes => SessionInv'
<1> SUFFICES ASSUME TypeOK, SessionInv, DelveServes PROVE SessionInv'
  OBVIOUS
<1> DEFINE r == Head(toDelve)
<1>1. r \in KillRequests(terminate) /\ Tail(toDelve) \in Seq(KillRequests(terminate))
  BY TailType DEF DelveServes, SessionInv
<1>2. r.kill = terminate
  BY <1>1 DEF KillRequests
<1> HIDE DEF r
<1>3. \/ DelveInitialize(r) \/ DelveLoad(r) \/ DelveConfigured(r)
      \/ DelveResume(r) \/ DelveQuery(r) \/ DelveDisconnect(r)
  BY DEF DelveServes, r
<1>4. \E sent : Serve(r, sent)
  BY <1>3 DEF DelveInitialize, DelveLoad, DelveConfigured, DelveResume, DelveQuery,
              DelveDisconnect
<1>5. /\ dlv = "up" /\ toDelve' = Tail(toDelve)
      /\ UNCHANGED <<conn, terminate, mode, op, await>>
  BY <1>4 DEF Serve, clientVars, callVars
<1>6. conn /\ op # "wait" /\ EndMatchesMode /\ (terminate <=> mode = "launch")
  BY <1>5 DEF SessionInv
<1>7. dlv' # "none"
  BY <1>3, <1>5 DEF DelveInitialize, DelveLoad, DelveConfigured, DelveResume, DelveQuery,
              DelveDisconnect
<1>8. /\ target' = "killed" => mode = "launch"
      /\ target' = "detached" => mode = "attach"
  <2>1. CASE DelveDisconnect(r)
    BY <1>2, <1>6, <2>1 DEF DelveDisconnect, EndMatchesMode, TypeOK
  <2>2. CASE ~DelveDisconnect(r)
    <3>1. target' \in {target, "stopped", "running"}
      BY <1>3, <2>2 DEF DelveInitialize, DelveLoad, DelveConfigured, DelveResume,
                        DelveQuery
    <3> QED
      BY <1>6, <3>1 DEF EndMatchesMode
  <2> QED
    BY <2>1, <2>2
<1> QED
  BY <1>1, <1>5, <1>6, <1>7, <1>8, SessionKept DEF SessionInv

LEMMA SessionInvariant == Spec => []SessionInv
<1>1. Init => SessionInv
  <2> SUFFICES ASSUME Init PROVE SessionInv
    OBVIOUS
  <2>1. toDelve \in Seq(KillRequests(terminate))
    BY EmptySeq, Zenon DEF Init
  <2> QED
    BY <2>1 DEF Init, SessionInv, ClosedIsClean, EndMatchesMode
<1>2. TypeOK /\ SessionInv /\ [Next]_vars => SessionInv'
  <2> SUFFICES ASSUME TypeOK, SessionInv, [Next]_vars PROVE SessionInv'
    OBVIOUS
  <2>1. CASE TargetHalts \/ DelvePrint \/ DelveCrash
    <3>1. /\ UNCHANGED <<conn, terminate, mode, op, await, toDelve>>
          /\ dlv = "up" /\ dlv' # "none"
          /\ target' \in {target, "stopped", "exited", "lost"}
      BY <2>1 DEF TargetHalts, DelveStop, DelveExit, DelvePrint, DelveCrash, Emit,
                  clientVars, callVars
    <3>2. conn /\ op # "wait" /\ EndMatchesMode
          /\ toDelve \in Seq(KillRequests(terminate))
      BY <3>1 DEF SessionInv
    <3> QED
      BY <3>1, <3>2, SessionKept DEF EndMatchesMode, SessionInv
  <2>2. CASE UNCHANGED vars
    BY <2>2 DEF vars, clientVars, callVars, stopVars, delveVars, SessionInv,
                ClosedIsClean, EndMatchesMode
  <2>3. CASE WaitEnds
    BY <2>3 DEF WaitEnds, stopVars, delveVars, SessionInv, ClosedIsClean, EndMatchesMode
  <2> QED
    BY <2>1, <2>2, <2>3, CallSession, ReadSession, DelveSession DEF Next
<1> QED
  BY <1>1, <1>2, Typing, PTL DEF Spec

\* However a session ends, and whatever failed while it was opened, the closed
\* client keeps no state of it and no Delve process.
THEOREM CleanClose == Spec => []ClosedIsClean
<1>1. SessionInv => ClosedIsClean
  BY DEF SessionInv
<1> QED
  BY <1>1, SessionInvariant, PTL

\* Delve is told to kill what was launched and to let go what was attached to.
THEOREM RightEnd == Spec => []EndMatchesMode
<1>1. SessionInv => EndMatchesMode
  BY DEF SessionInv
<1> QED
  BY <1>1, SessionInvariant, PTL

-----------------------------------------------------------------------------
(* Sessions in which no deadline strikes and Delve does not crash: between *)
(* calls the client knows whether and where the debuggee has stopped, it   *)
(* keeps the latest output, and a closed session has disposed of its       *)
(* debuggee; to its caller the client is the abstract session.             *)
(*                                                                         *)
(* What the client says is right between calls because nothing is left on  *)
(* the connection then.  The invariant follows one exchange: a request is  *)
(* alone on the connection; its response is alone on the way back, but for *)
(* events that belong to it; an event that the debuggee halted is followed *)
(* by nothing but that response; and what the client has read agrees with  *)
(* the debuggee, or a halt is still on the way.                            *)

HIDE DEF Modes, Commands, Events

IsHalt(m) == m.kind \in {"stopped", "terminated"}
IsResponse(m) == m.kind = "response"
Wire == 1..Len(toClient)

\* The call under way and the request it wrote last.
CallMatches ==
  /\ op = "open" => cmd \in Modes \cup {"initialize", "configurationDone"}
  /\ op = "action" => cmd \in Actions
  /\ op = "query" => cmd \in Queries \cup {"variables"}
  /\ op \in {"close", "unwind"} => cmd = "disconnect" /\ await = "response"
  /\ conn /\ cmd = "disconnect" => op \in {"close", "unwind"}
  /\ op # "idle" => await # "none"
  /\ op # "wait"

\* Between calls both directions are empty; a request is alone, its response is one.
OneAtATime ==
  /\ op = "idle" => toClient = <<>> /\ toDelve = <<>>
  /\ toDelve # <<>> => /\ Len(toDelve) = 1
                       /\ toDelve[1].num = seq /\ toDelve[1].cmd = cmd
                       /\ toClient = <<>> /\ await = "response"
  /\ \A i \in Wire : IsResponse(toClient[i]) => toClient[i].num = seq /\ await = "response"
  /\ \A i, j \in Wire : IsResponse(toClient[i]) /\ IsResponse(toClient[j]) => i = j

\* Behind a halt, read or not, only a response can come.
HaltsLast ==
  /\ \A i, j \in Wire : i < j /\ IsHalt(toClient[i]) => IsResponse(toClient[j])
  /\ \A i \in Wire : IsResponse(toClient[i]) /\ ~toClient[i].ok
                       => Len(toClient) = 1 /\ target # "running"
  /\ stopKind \in Halted /\ cmd # "disconnect" => \A i \in Wire : IsResponse(toClient[i])
  /\ op = "query" \/ (op = "open" /\ cmd # "configurationDone")
       => \A i \in Wire : IsResponse(toClient[i])

\* What the client knows and what is on the way agree with the debuggee.
InStep ==
  conn /\ cmd # "disconnect" =>
    /\ dlv = "up"
    /\ target \in {"none", "stopped", "running", "exited"}
    /\ \A i \in Wire : /\ toClient[i].kind = "stopped"
                            => target = "stopped" /\ toClient[i].num = targetThread
                       /\ toClient[i].kind = "terminated" => target = "exited"
    /\ stopKind = "stopped" => target = "stopped" /\ stopThread = targetThread
    /\ stopKind = "exited" => target = "exited"
    /\ target = "running" => op = "action" /\ toDelve = <<>> /\ stopKind = "running"
    /\ op = "action" /\ toDelve # <<>> => stopKind = "running"
    /\ op = "open" /\ (toDelve # <<>> \/ cmd # "configurationDone") => stopKind = "nil"
    /\ op = "open" /\ cmd = "configurationDone" /\ toDelve # <<>> => target = "stopped"
    /\ op = "open" /\ cmd \in Modes
         => \A i \in Wire : IsResponse(toClient[i]) /\ toClient[i].ok => target = "stopped"
    /\ op # "open" /\ target = "stopped" /\ (\A i \in Wire : ~IsHalt(toClient[i]))
         => stopThread = targetThread

ThreadPositive == target = "stopped" => targetThread > 0

Disposed == {"none", "exited", IF mode = "launch" THEN "killed" ELSE "detached"}

\* A debuggee is disposed of before Delve ends, and Delve ends before the session.
Disposal ==
  /\ conn /\ cmd = "disconnect" /\ dlv = "up" =>
       toClient = <<>> /\ target \in {"none", "stopped", "exited"}
  /\ dlv = "dead" => cmd = "disconnect" /\ toDelve = <<>> /\ target \in Disposed
  /\ ~conn => target \in Disposed

PromptInv == /\ ~torn
             /\ CallMatches
             /\ OneAtATime
             /\ HaltsLast
             /\ InStep
             /\ ThreadPositive
             /\ Disposal

\* What is known of every state.
Known == TypeOK /\ SessionInv /\ PromptInv

-----------------------------------------------------------------------------
(* The connection.                                                         *)

LEMMA NothingThere ==
  toClient = <<>> => Len(toClient) = 0 /\ Wire = {}
  BY DEF Wire

\* The requests of one kind of call are not those of another.
LEMMA Kinds ==
  ASSUME NEW c \in Actions \cup Queries \cup {"variables"}
  PROVE  c \notin Modes \cup {"initialize", "configurationDone", "disconnect"}
  BY ActionsAssumption, QueriesAssumption DEF Modes

LEMMA ActionsAreNoQueries == Actions \cap (Queries \cup {"variables"}) = {}
  BY ActionsAssumption, QueriesAssumption

\* What is left when the first message has been read.
LEMMA HeadRead ==
  ASSUME TypeOK, toClient # <<>>
  PROVE  /\ 1 \in Wire /\ Head(toClient) = toClient[1] /\ toClient[1] \in Messages
         /\ Len(Tail(toClient)) \in Nat /\ Len(toClient) = Len(Tail(toClient)) + 1
         /\ \A i \in 1..Len(Tail(toClient)) :
              i + 1 \in Wire /\ Tail(toClient)[i] = toClient[i + 1]
  BY HeadTailProperties DEF TypeOK, Wire

\* A request is written to a Delve that has nothing else to do.
LEMMA Sent ==
  ASSUME TypeOK, NEW c \in Commands, NEW t \in Nat, dlv = "up",
         toDelve = <<>>, Send(c, t, <<>>, FALSE)
  PROVE  /\ Len(toDelve') = 1 /\ toDelve' # <<>>
         /\ toDelve'[1].num = seq' /\ toDelve'[1].cmd = cmd'
         /\ cmd' = c /\ await' = "response" /\ ~torn'
         /\ toClient' = <<>> /\ Len(toClient') = 0 /\ Wire' = {}
<1> DEFINE r == [num |-> seq + 1, cmd |-> c, thread |-> t, kill |-> terminate]
<1>1. /\ seq' = seq + 1 /\ cmd' = c /\ await' = "response" /\ toClient' = <<>> /\ torn' = FALSE
      /\ toDelve' = Append(toDelve, r)
  BY DEF Send
<1>2. r.num = seq' /\ r.cmd = c
  BY <1>1
<1> HIDE DEF r
<1>3. toDelve' = <<r>>
  BY <1>1
<1>4. Len(toDelve') = 1 /\ toDelve' # <<>> /\ toDelve'[1] = r
  BY <1>3
<1> QED
  BY <1>1, <1>2, <1>4 DEF Wire

-----------------------------------------------------------------------------
(* What the client's steps are made of.                                    *)

\* The next request goes out when nothing else is on the connection.
LEMMA RequestKeeps ==
  ASSUME Known, NEW c \in Commands, NEW t \in Nat, dlv = "up", toDelve = <<>>,
         Send(c, t, <<>>, FALSE), op' # "idle", CallMatches',
         conn', dlv' = "up", target' = target, targetThread' = targetThread,
         target \in {"none", "stopped", "exited"},
         c # "disconnect" =>
           /\ stopKind' = "stopped" => target = "stopped" /\ stopThread' = targetThread
           /\ stopKind' = "exited" => target = "exited"
           /\ op' = "action" => stopKind' = "running"
           /\ op' = "open" => stopKind' = "nil"
           /\ op' = "open" /\ c = "configurationDone" => target = "stopped"
           /\ op' # "open" /\ target = "stopped" => stopThread' = targetThread
  PROVE  PromptInv'
<1> USE DEF Known
<1>1. /\ Len(toDelve') = 1 /\ toDelve' # <<>>
      /\ toDelve'[1].num = seq' /\ toDelve'[1].cmd = cmd'
      /\ cmd' = c /\ await' = "response" /\ ~torn'
      /\ toClient' = <<>> /\ Len(toClient') = 0 /\ Wire' = {}
  BY Sent
<1>2. OneAtATime'
  BY <1>1 DEF OneAtATime
<1>3. HaltsLast'
  BY <1>1 DEF HaltsLast
<1>4. InStep'
  BY <1>1 DEF InStep
<1>5. ThreadPositive' /\ Disposal'
  BY <1>1 DEF PromptInv, ThreadPositive, Disposal
<1> QED
  BY <1>1, <1>2, <1>3, <1>4, <1>5 DEF PromptInv

\* A call returns when nothing is left on the connection.
LEMMA ReturnKeeps ==
  ASSUME Known, conn, cmd # "disconnect", NEW r, Return(r, <<>>, FALSE), toDelve = <<>>,
         UNCHANGED <<sessionVars, delveVars>>,
         target # "running",
         stopKind' = "stopped" => target = "stopped" /\ stopThread' = targetThread,
         stopKind' = "exited" => target = "exited",
         target = "stopped" => stopThread' = targetThread
  PROVE  PromptInv'
<1> USE DEF Known
<1>1. /\ op' = "idle" /\ await' = "none" /\ toClient' = <<>> /\ toDelve' = <<>>
      /\ ~torn' /\ cmd' = cmd /\ conn' /\ dlv' = dlv
      /\ target' = target /\ targetThread' = targetThread
  BY DEF Return, sessionVars, delveVars
<1>2. Len(toClient') = 0 /\ Wire' = {}
  BY <1>1 DEF Wire
<1>3. CallMatches' /\ OneAtATime'
  BY <1>1, <1>2 DEF CallMatches, OneAtATime
<1>4. HaltsLast'
  BY <1>1, <1>2 DEF HaltsLast
<1>5. InStep'
  BY <1>1, <1>2 DEF InStep, PromptInv
<1>6. ThreadPositive' /\ Disposal'
  BY <1>1 DEF PromptInv, ThreadPositive, Disposal, InStep
<1> QED
  BY <1>1, <1>3, <1>4, <1>5, <1>6 DEF PromptInv

\* A session ends when its debuggee is disposed of.
LEMMA FinishKeeps ==
  ASSUME target \in Disposed, NEW r, FinishClose(r)
  PROVE  PromptInv'
<1>1. /\ ~conn' /\ op' = "idle" /\ await' = "none" /\ cmd' = "none"
      /\ toDelve' = <<>> /\ toClient' = <<>> /\ ~torn' /\ dlv' = "none"
      /\ stopKind' = "nil" /\ target' = target /\ mode' = mode
  BY DEF FinishClose, Orphaned, Disposed
<1>2. Len(toClient') = 0 /\ Wire' = {}
  BY <1>1 DEF Wire
<1>3. CallMatches' /\ OneAtATime' /\ InStep'
  BY <1>1, <1>2 DEF CallMatches, OneAtATime, InStep
<1>4. HaltsLast'
  BY <1>1, <1>2 DEF HaltsLast, Halted
<1>5. ThreadPositive' /\ Disposal'
  BY <1>1 DEF ThreadPositive, Disposal, Disposed
<1> QED
  BY <1>1, <1>3, <1>4, <1>5 DEF PromptInv

\* Something was answered while the session is being closed: Delve has ended.
LEMMA ClosingIsDisposed ==
  ASSUME Known, conn, cmd = "disconnect", toClient # <<>> \/ dlv = "dead"
  PROVE  target \in Disposed
  BY DEF Known, PromptInv, Disposal, SessionInv, TypeOK

-----------------------------------------------------------------------------
(* Calls.                                                                  *)

\* A caller finds the connection empty and the debuggee held, or over.
LEMMA BetweenCalls ==
  ASSUME Known, op = "idle", conn
  PROVE  /\ toClient = <<>> /\ toDelve = <<>> /\ Wire = {} /\ ~torn
         /\ cmd # "disconnect" /\ dlv = "up"
         /\ target \in {"none", "stopped", "exited"}
         /\ stopKind = "stopped" => target = "stopped" /\ stopThread = targetThread
         /\ stopKind = "exited" => target = "exited"
         /\ target = "stopped" => stopThread = targetThread /\ targetThread > 0
<1>1. toClient = <<>> /\ toDelve = <<>> /\ Wire = {} /\ ~torn /\ cmd # "disconnect"
  BY NothingThere DEF Known, PromptInv, OneAtATime, CallMatches
<1> QED
  BY <1>1 DEF Known, PromptInv, InStep, ThreadPositive

LEMMA CallKeeps == Known /\ CallStarts => PromptInv'
<1> SUFFICES ASSUME Known, CallStarts PROVE PromptInv'
  OBVIOUS
<1>1. ASSUME NEW m \in Modes, Open(m) PROVE PromptInv'
  <2> DEFINE r == [num |-> seq + 1, cmd |-> "initialize", thread |-> 0, kill |-> (m = "launch")]
  <2>1. /\ op' = "open" /\ cmd' = "initialize" /\ await' = "response" /\ conn' /\ dlv' = "up"
        /\ seq' = seq + 1 /\ toDelve' = <<r>> /\ target' = "none"
        /\ UNCHANGED <<stopVars, toClient, torn>>
    BY <1>1 DEF Open, TerminateFor
  <2>2. r.num = seq' /\ r.cmd = cmd'
    BY <2>1
  <2> HIDE DEF r
  <2>3. Len(toDelve') = 1 /\ toDelve' # <<>> /\ toDelve'[1].num = seq' /\ toDelve'[1].cmd = cmd'
    BY <2>1, <2>2
  <2>4. toClient = <<>> /\ ~torn /\ stopKind = "nil"
    BY <1>1 DEF Open, Known, SessionInv, ClosedIsClean
  <2>5. toClient' = <<>> /\ ~torn' /\ stopKind' = "nil" /\ Len(toClient') = 0 /\ Wire' = {}
    BY <2>1, <2>4 DEF stopVars, Wire
  <2>6. CallMatches' /\ OneAtATime'
    BY <2>1, <2>3, <2>5 DEF CallMatches, OneAtATime
  <2>7. HaltsLast' /\ InStep'
    BY <2>1, <2>5 DEF HaltsLast, InStep
  <2>8. ThreadPositive' /\ Disposal'
    BY <2>1 DEF ThreadPositive, Disposal
  <2> QED
    BY <2>5, <2>6, <2>7, <2>8 DEF PromptInv
<1>2. CASE OpenFails
  <2>1. /\ UNCHANGED <<conn, seq, stopKind, stopThread, op, cmd, await, toDelve, toClient, torn>>
        /\ UNCHANGED <<dlv, target, targetThread, mode>>
    BY <1>2 DEF OpenFails, stopVars, delveVars
  <2> QED
    BY <2>1 DEF Known, PromptInv, CallMatches, OneAtATime, HaltsLast, InStep, ThreadPositive,
                Disposal, Disposed, Wire
<1>3. ASSUME NEW c \in Actions, ThreadAction(c) PROVE PromptInv'
  <2>1. /\ op = "idle" /\ conn /\ op' = "action" /\ stopKind' = "running"
        /\ stopThread' = (IF stopThread > 0 THEN stopThread ELSE 1)
        /\ Send(c, stopThread', toClient, torn) /\ cmd' = c
        /\ UNCHANGED <<conn, dlv, target, targetThread>>
    BY <1>3 DEF ThreadAction, ResumeThread, SetRunning, Send, sessionVars, delveVars
  <2>2. /\ toClient = <<>> /\ toDelve = <<>> /\ torn = FALSE /\ dlv = "up"
        /\ target \in {"none", "stopped", "exited"}
        /\ target = "stopped" => stopThread = targetThread /\ targetThread > 0
    BY <2>1, BetweenCalls DEF Known, TypeOK
  <2>3. c \in Commands /\ stopThread' \in Nat /\ c # "disconnect"
    BY <2>1, ConstantTypes, Kinds DEF Known, TypeOK
  <2>4. CallMatches'
    BY <2>1, <2>3 DEF CallMatches, Send
  <2>5. Send(c, stopThread', <<>>, FALSE)
    BY <2>1, <2>2
  <2>6. target = "stopped" => stopThread' = targetThread
    BY <2>1, <2>2
  <2> QED
    BY <2>1, <2>2, <2>3, <2>4, <2>5, <2>6, RequestKeeps
<1>4. ASSUME NEW q \in Queries, Query(q) PROVE PromptInv'
  <2>1. /\ op = "idle" /\ conn /\ op' = "query"
        /\ Send(q, stopThread, toClient, torn) /\ cmd' = q
        /\ UNCHANGED <<conn, dlv, target, targetThread, stopKind, stopThread>>
    BY <1>4 DEF Query, Send, sessionVars, delveVars, stopVars
  <2>2. /\ toClient = <<>> /\ toDelve = <<>> /\ torn = FALSE /\ dlv = "up"
        /\ target \in {"none", "stopped", "exited"}
        /\ stopKind = "stopped" => target = "stopped" /\ stopThread = targetThread
        /\ stopKind = "exited" => target = "exited"
        /\ target = "stopped" => stopThread = targetThread
    BY <2>1, BetweenCalls DEF Known, TypeOK
  <2>3. q \in Commands /\ stopThread \in Nat /\ q # "disconnect"
    BY ConstantTypes, Kinds DEF Known, TypeOK
  <2>4. CallMatches'
    BY <2>1, <2>3 DEF CallMatches, Send
  <2>5. Send(q, stopThread, <<>>, FALSE)
    BY <2>1, <2>2
  <2> QED
    BY <2>1, <2>2, <2>3, <2>4, <2>5, RequestKeeps
<1>5. CASE Close
  <2>1. /\ op = "idle" /\ conn /\ op' = "close"
        /\ Send("disconnect", 0, toClient, torn) /\ cmd' = "disconnect"
        /\ UNCHANGED <<conn, dlv, target, targetThread>>
    BY <1>5 DEF Close, Send, sessionVars, delveVars
  <2>2. /\ toClient = <<>> /\ toDelve = <<>> /\ torn = FALSE /\ dlv = "up"
        /\ target \in {"none", "stopped", "exited"}
    BY <2>1, BetweenCalls DEF Known, TypeOK
  <2>3. "disconnect" \in Commands
    BY DEF Commands
  <2>4. CallMatches'
    BY <2>1 DEF CallMatches, Send
  <2>5. Send("disconnect", 0, <<>>, FALSE)
    BY <2>1, <2>2
  <2> QED
    BY <2>1, <2>2, <2>3, <2>4, <2>5, RequestKeeps
<1> QED
  BY <1>1, <1>2, <1>3, <1>4, <1>5 DEF CallStarts

-----------------------------------------------------------------------------
(* The response.                                                           *)

\* It is the only one, and alone if it is an error.
LEMMA ResponseTaken ==
  ASSUME Known, TakeResponse
  PROVE  /\ conn /\ op # "idle" /\ await = "response" /\ toDelve = <<>> /\ toClient # <<>>
         /\ 1 \in Wire /\ IsResponse(toClient[1])
         /\ \A i \in Wire : IsResponse(toClient[i]) => i = 1
         /\ (\A i \in Wire : IsResponse(toClient[i])) => Tail(toClient) = <<>>
         /\ ~toClient[1].ok => Tail(toClient) = <<>> /\ target # "running"
         /\ Head(toClient) = toClient[1]
<1>1. /\ toClient # <<>> /\ await = "response" /\ IsResponse(Head(toClient))
      /\ conn /\ op # "idle"
  BY DEF TakeResponse, Readable, Answers, IsResponse, Known, SessionInv
<1>2. /\ 1 \in Wire /\ Head(toClient) = toClient[1]
      /\ Len(Tail(toClient)) \in Nat /\ Len(toClient) = Len(Tail(toClient)) + 1
  BY <1>1, HeadRead DEF Known
<1>3. \A i \in Wire : IsResponse(toClient[i]) => i = 1
  BY <1>1, <1>2, Zenon DEF Known, PromptInv, OneAtATime
<1>4. toDelve = <<>>
  BY <1>1 DEF Known, PromptInv, OneAtATime
<1>5. Len(Tail(toClient)) = 0 => Tail(toClient) = <<>>
  BY <1>1, TailType, EmptySeq, Zenon DEF Known, TypeOK
<1>6. (\A i \in Wire : IsResponse(toClient[i])) => Tail(toClient) = <<>>
  <2> SUFFICES ASSUME \A i \in Wire : IsResponse(toClient[i]) PROVE Tail(toClient) = <<>>
    OBVIOUS
  <2>1. \A i \in Wire : i = 1
    BY <1>3
  <2>2. Len(toClient) \in Wire
    BY <1>2 DEF Wire
  <2> QED
    BY <1>2, <1>5, <2>1, <2>2
<1>7. ~toClient[1].ok => Len(toClient) = 1 /\ target # "running"
  BY <1>1, <1>2, Zenon DEF Known, PromptInv, HaltsLast
<1>8. ~toClient[1].ok => Tail(toClient) = <<>> /\ target # "running"
  BY <1>2, <1>5, <1>7
<1> QED
  BY <1>1, <1>2, <1>3, <1>4, <1>6, <1>8

\* A request has failed, and nothing is left on the connection; or Delve has ended.
LEMMA FailKeeps ==
  ASSUME Known, conn, op # "idle", NEW rest, Fail(rest, FALSE),
         op \in {"close", "unwind"} => target \in Disposed,
         op \notin {"close", "unwind"} =>
           rest = <<>> /\ toDelve = <<>> /\ target # "running" /\ (op # "open" =>
             \A i \in Wire : ~IsHalt(toClient[i]))
  PROVE  PromptInv'
<1>1. CASE op = "open"
  <2>1. /\ op' = "unwind" /\ Send("disconnect", 0, rest, FALSE) /\ cmd' = "disconnect"
        /\ await' = "response"
        /\ UNCHANGED <<conn, dlv, target, targetThread>>
    BY <1>1 DEF Fail, Send, sessionVars, delveVars
  <2>2. rest = <<>> /\ toDelve = <<>> /\ target # "running"
    BY <1>1
  <2>3. dlv = "up" /\ target \in {"none", "stopped", "exited"}
    BY <1>1, <2>2 DEF Known, PromptInv, InStep, CallMatches, Modes
  <2>4. "disconnect" \in Commands
    BY DEF Commands
  <2>5. CallMatches'
    BY <2>1 DEF CallMatches
  <2>6. Send("disconnect", 0, <<>>, FALSE)
    BY <2>1, <2>2
  <2> QED
    BY <2>1, <2>2, <2>3, <2>4, <2>5, <2>6, RequestKeeps
<1>2. CASE op \in {"action", "query"}
  <2>1. /\ Return("error", <<>>, FALSE) /\ toDelve = <<>>
        /\ UNCHANGED <<stopVars, sessionVars, delveVars>>
    BY <1>2 DEF Fail
  <2>2. cmd # "disconnect"
    BY <1>2 DEF Known, PromptInv, CallMatches
  <2>3. \A i \in Wire : ~IsHalt(toClient[i])
    BY <1>2
  <2>4. /\ stopKind = "stopped" => target = "stopped" /\ stopThread = targetThread
        /\ stopKind = "exited" => target = "exited"
        /\ target = "stopped" => stopThread = targetThread
    BY <1>2, <2>2, <2>3 DEF Known, PromptInv, InStep
  <2>5. target # "running"
    BY <1>2
  <2> QED
    BY <2>1, <2>2, <2>4, <2>5, ReturnKeeps DEF stopVars
<1>3. CASE op \in {"close", "unwind"}
  BY <1>3, FinishKeeps DEF Fail
<1> QED
  BY <1>1, <1>2, <1>3 DEF Fail

\* The response of a resume, or of the last request of opening, when its halt is not
\* read yet: the client goes on reading.
LEMMA WaitKeeps ==
  ASSUME Known, TakeResponse, op \in {"open", "action"}, cmd # "disconnect",
         op = "open" => cmd = "configurationDone",
         stopKind \notin Halted,
         await' = "stop", toClient' = Tail(toClient), torn' = FALSE,
         UNCHANGED <<conn, op, seq, cmd, toDelve, stopVars, mode, delveVars>>
  PROVE  PromptInv'
<1> USE DEF Known
<1>1. /\ conn /\ toDelve = <<>> /\ toClient # <<>> /\ 1 \in Wire
      /\ IsResponse(toClient[1])
      /\ \A i \in Wire : IsResponse(toClient[i]) => i = 1
  BY ResponseTaken
<1>2. /\ Len(toClient') \in Nat /\ Len(toClient) = Len(toClient') + 1
      /\ Wire' = 1..Len(toClient')
      /\ \A i \in Wire' : i + 1 \in Wire /\ toClient'[i] = toClient[i + 1]
  BY <1>1, HeadRead DEF Wire
<1>3. \A i \in Wire' : ~IsResponse(toClient'[i])
  BY <1>1, <1>2 DEF Wire
<1>4. UNCHANGED <<stopKind, stopThread, target, targetThread, dlv>>
  BY DEF stopVars, delveVars
<1>5. CallMatches'
  BY DEF CallMatches, PromptInv
<1>6. OneAtATime'
  BY <1>1, <1>3 DEF OneAtATime
<1>7. HaltsLast'
  <2>1. ASSUME NEW i \in Wire', NEW j \in Wire', i < j, IsHalt(toClient'[i]) PROVE FALSE
    <3>1. i + 1 \in Wire /\ j + 1 \in Wire /\ i + 1 < j + 1
      BY <1>2, <2>1 DEF Wire
    <3>2. IsResponse(toClient[j + 1])
      BY <1>2, <2>1, <3>1 DEF PromptInv, HaltsLast
    <3> QED
      BY <1>2, <1>3, <2>1, <3>2
  <2>2. stopKind' \notin Halted
    BY <1>4
  <2>3. ~(op' = "query" \/ (op' = "open" /\ cmd' # "configurationDone"))
    OBVIOUS
  <2> QED
    BY <1>3, <2>1, <2>2, <2>3 DEF HaltsLast
<1>8. InStep'
  <2>1. \A i \in Wire' : /\ toClient'[i].kind = "stopped"
                              => target = "stopped" /\ toClient'[i].num = targetThread
                         /\ toClient'[i].kind = "terminated" => target = "exited"
    BY <1>1, <1>2 DEF PromptInv, InStep
  <2>2. (\A i \in Wire' : ~IsHalt(toClient'[i])) => (\A i \in Wire : ~IsHalt(toClient[i]))
    <3> SUFFICES ASSUME \A i \in Wire' : ~IsHalt(toClient'[i]), NEW i \in Wire
                 PROVE  ~IsHalt(toClient[i])
      OBVIOUS
    <3>1. CASE i = 1
      BY <1>1, <3>1 DEF IsHalt, IsResponse
    <3>2. CASE i # 1
      <4>1. i - 1 \in Wire' /\ (i - 1) + 1 = i
        BY <1>2, <3>2 DEF Wire
      <4> QED
        BY <1>2, <4>1
    <3> QED
      BY <3>1, <3>2
  <2>3. InStep /\ CallMatches
    BY DEF PromptInv
  <2> QED
    BY <1>1, <1>3, <1>4, <2>1, <2>2, <2>3 DEF InStep, Modes
<1>9. ThreadPositive' /\ Disposal'
  BY <1>1, <1>4 DEF PromptInv, ThreadPositive, Disposal, InStep
<1> QED
  BY <1>5, <1>6, <1>7, <1>8, <1>9 DEF PromptInv

LEMMA ProceedKeeps ==
  ASSUME Known, TakeResponse, toClient[1].ok, Proceed(Tail(toClient))
  PROVE  PromptInv'
<1> USE DEF Known
<1> DEFINE rest == Tail(toClient)
<1>1. /\ conn /\ op # "idle" /\ await = "response" /\ toDelve = <<>> /\ toClient # <<>>
      /\ 1 \in Wire /\ IsResponse(toClient[1])
      /\ \A i \in Wire : IsResponse(toClient[i]) => i = 1
      /\ (\A i \in Wire : IsResponse(toClient[i])) => rest = <<>>
  BY ResponseTaken
<1> HIDE DEF rest
<1>2. CallMatches /\ HaltsLast /\ InStep
  BY DEF PromptInv
<1>3. CASE op = "open" /\ cmd \in {"initialize"} \cup Modes
  <2> DEFINE c == IF cmd = "initialize" THEN mode ELSE "configurationDone"
  <2>1. /\ Send(c, 0, rest, FALSE) /\ cmd' = c /\ op' = "open" /\ await' = "response"
        /\ UNCHANGED <<conn, dlv, target, targetThread, stopKind, stopThread>>
    <3>1. op = "open" /\ cmd # "configurationDone" /\ Proceed(rest)
      BY <1>3 DEF Modes, rest
    <3>2. Send(c, 0, rest, FALSE) /\ UNCHANGED <<op, ret, stopVars, targetOutput, sessionVars, delveVars>>
      BY <3>1 DEF Proceed
    <3> QED
      BY <3>1, <3>2 DEF Send, sessionVars, delveVars, stopVars
  <2>2. /\ c \in Modes \cup {"configurationDone"} /\ c \in Commands
        /\ cmd # "disconnect" /\ cmd # "configurationDone"
    BY <1>3 DEF TypeOK, Commands, Modes
  <2>3. rest = <<>>
    BY <1>1, <1>2, <1>3, <2>2 DEF HaltsLast
  <2>4. /\ dlv = "up" /\ target \in {"none", "stopped", "exited"} /\ stopKind = "nil"
        /\ cmd \in Modes => target = "stopped"
    BY <1>1, <1>2, <1>3, <2>2 DEF InStep
  <2>5. c = "configurationDone" => target = "stopped"
    BY <1>3, <2>4, Zenon DEF TypeOK, Modes
  <2>6. CallMatches'
    BY <2>1, <2>2 DEF CallMatches, Modes
  <2> HIDE DEF c
  <2>7. Send(c, 0, <<>>, FALSE)
    BY <2>1, <2>3
  <2> QED
    BY <1>1, <2>1, <2>2, <2>4, <2>5, <2>6, <2>7, RequestKeeps
<1>4. CASE (op = "open" /\ cmd = "configurationDone") \/ op = "action"
  <2>0. ~(op = "open" /\ cmd \in {"initialize"} \cup Modes) /\ op \notin {"query", "close", "unwind"}
    BY <1>4 DEF Modes
  <2>1. WaitForStop(rest, FALSE) /\ UNCHANGED <<stopVars, targetOutput, sessionVars, delveVars>>
    <3>1. Proceed(rest) /\ op # "query" /\ op \notin {"close", "unwind"}
      BY <2>0 DEF rest
    <3> QED
      BY <2>0, <3>1, Zenon DEF Proceed
  <2>2. cmd # "disconnect" /\ op \in {"open", "action"}
    BY <1>2, <1>4, Kinds DEF CallMatches
  <2>3. CASE stopKind \in Halted
    <3>1. Return("ok", rest, FALSE)
      BY <2>1, <2>3 DEF WaitForStop
    <3>2. rest = <<>>
      BY <1>1, <1>2, <2>2, <2>3 DEF HaltsLast
    <3>3. /\ target # "running"
          /\ stopKind = "stopped" => target = "stopped" /\ stopThread = targetThread
          /\ stopKind = "exited" => target = "exited"
          /\ target = "stopped" => stopThread = targetThread
      <4>1. /\ target = "running" => stopKind = "running"
            /\ stopKind = "stopped" => target = "stopped" /\ stopThread = targetThread
            /\ stopKind = "exited" => target = "exited"
        BY <1>1, <1>2, <2>2, Zenon DEF InStep
      <4> QED
        BY <2>3, <4>1 DEF Halted
    <3>4. Return("ok", <<>>, FALSE)
      BY <3>1, <3>2
    <3>5. UNCHANGED <<stopKind, stopThread>> /\ UNCHANGED <<sessionVars, delveVars>>
      BY <2>1 DEF stopVars
    <3> QED
      BY <1>1, <2>2, <3>3, <3>4, <3>5, ReturnKeeps
  <2>4. CASE stopKind \notin Halted
    <3>1. /\ await' = "stop" /\ toClient' = Tail(toClient) /\ torn' = FALSE
          /\ UNCHANGED <<op, seq, cmd, toDelve>>
      BY <2>1, <2>4 DEF WaitForStop, rest
    <3>2. UNCHANGED <<conn, mode>>
      BY <2>1 DEF sessionVars
    <3>3. op = "open" => cmd = "configurationDone"
      BY <1>4
    <3> QED
      BY <2>1, <2>2, <2>4, <3>1, <3>2, <3>3, WaitKeeps
  <2> QED
    BY <2>3, <2>4
<1>5. CASE op = "query"
  <2>1. cmd # "disconnect" /\ dlv = "up"
    BY <1>1, <1>2, <1>5, Kinds DEF CallMatches, InStep
  <2>2. rest = <<>>
    BY <1>1, <1>2, <1>5 DEF HaltsLast
  <2>3. /\ target \in {"none", "stopped", "exited"}
        /\ stopKind = "stopped" => target = "stopped" /\ stopThread = targetThread
        /\ stopKind = "exited" => target = "exited"
        /\ target = "stopped" => stopThread = targetThread
    <3>1. \A i \in Wire : ~IsHalt(toClient[i])
      BY <1>2, <1>5 DEF HaltsLast, IsHalt, IsResponse
    <3> QED
      BY <1>1, <1>2, <1>5, <2>1, <3>1 DEF InStep
  <2>4. CASE Send("variables", 0, rest, FALSE)
             /\ UNCHANGED <<op, stopVars, sessionVars, delveVars>>
    <3>1. "variables" \in Commands
      BY DEF Commands
    <3>2. /\ cmd' = "variables" /\ await' = "response"
          /\ UNCHANGED <<op, conn, dlv, target, targetThread, stopKind, stopThread>>
      BY <2>4 DEF Send, stopVars, sessionVars, delveVars
    <3>3. CallMatches'
      BY <1>5, <3>2 DEF CallMatches
    <3>4. Send("variables", 0, <<>>, FALSE)
      BY <2>2, <2>4
    <3> QED
      BY <1>1, <1>5, <2>1, <2>3, <3>1, <3>2, <3>3, <3>4, RequestKeeps
  <2>5. CASE Return("ok", rest, FALSE) /\ UNCHANGED <<stopVars, sessionVars, delveVars>>
    <3>1. Return("ok", <<>>, FALSE)
      BY <2>2, <2>5
    <3> QED
      BY <1>1, <2>1, <2>3, <2>5, <3>1, ReturnKeeps DEF stopVars
  <2> QED
    BY <1>5, <2>4, <2>5 DEF Proceed, rest
<1>6. CASE op \in {"close", "unwind"}
  <2>1. target \in Disposed
    BY <1>1, <1>2, <1>6, ClosingIsDisposed DEF CallMatches
  <2> QED
    BY <1>6, <2>1, FinishKeeps DEF Proceed
<1> QED
  BY <1>2, <1>3, <1>4, <1>5, <1>6 DEF TypeOK, Proceed

LEMMA TakeKeeps ==
  ASSUME Known, TakeResponse
  PROVE  PromptInv'
<1> USE DEF Known
<1>1. /\ conn /\ op # "idle" /\ toDelve = <<>> /\ toClient # <<>>
      /\ 1 \in Wire /\ IsResponse(toClient[1]) /\ Head(toClient) = toClient[1]
      /\ ~toClient[1].ok => Tail(toClient) = <<>> /\ target # "running"
  BY ResponseTaken
<1>2. CASE toClient[1].ok
  BY <1>1, <1>2, ProceedKeeps DEF TakeResponse
<1>3. CASE ~toClient[1].ok
  <2>1. Fail(Tail(toClient), FALSE)
    BY <1>1, <1>3 DEF TakeResponse
  <2>2. Len(toClient) = 1
    BY <1>1, <1>3, Zenon DEF PromptInv, HaltsLast
  <2>3. \A i \in Wire : ~IsHalt(toClient[i])
    BY <1>1, <2>2 DEF Wire, IsHalt, IsResponse
  <2>4. op \in {"close", "unwind"} => target \in Disposed
    BY <1>1, ClosingIsDisposed DEF PromptInv, CallMatches
  <2> QED
    BY <1>1, <1>3, <2>1, <2>3, <2>4, FailKeeps
<1> QED
  BY <1>2, <1>3

-----------------------------------------------------------------------------
(* Events.                                                                 *)

\* An event that is read: what it says of the debuggee is so.
LEMMA EventRead ==
  ASSUME Known, ReadEvent
  PROVE  /\ conn /\ op # "idle" /\ await # "none" /\ toDelve = <<>> /\ toClient # <<>>
         /\ 1 \in Wire /\ Head(toClient) = toClient[1] /\ ~IsResponse(toClient[1])
         /\ ~torn
         /\ Len(Tail(toClient)) \in Nat /\ Len(toClient) = Len(Tail(toClient)) + 1
         /\ \A i \in 1..Len(Tail(toClient)) :
              i + 1 \in Wire /\ Tail(toClient)[i] = toClient[i + 1]
         /\ UNCHANGED <<conn, dlv, target, targetThread, mode>>
<1>1. /\ conn /\ op # "idle" /\ toClient # <<>> /\ ~torn /\ await # "none"
  BY DEF ReadEvent, Readable, Known, SessionInv
<1>2. toDelve = <<>>
  BY <1>1 DEF Known, PromptInv, OneAtATime
<1>3. UNCHANGED <<conn, dlv, target, targetThread, mode>>
  BY DEF ReadEvent, sessionVars, delveVars
<1>4. /\ 1 \in Wire /\ Head(toClient) = toClient[1]
      /\ Len(Tail(toClient)) \in Nat /\ Len(toClient) = Len(Tail(toClient)) + 1
      /\ \A i \in 1..Len(Tail(toClient)) :
           i + 1 \in Wire /\ Tail(toClient)[i] = toClient[i + 1]
  BY <1>1, HeadRead DEF Known
<1>5. ~IsResponse(toClient[1])
  BY <1>4 DEF ReadEvent, IsResponse
<1> QED
  BY <1>1, <1>2, <1>3, <1>4, <1>5

\* A halt the client waits for is the last message there is, and is so.
LEMMA HaltRead ==
  ASSUME Known, ReadEvent, await = "stop", stopKind' \in Halted
  PROVE  /\ Return("ok", <<>>, FALSE) /\ cmd # "disconnect"
         /\ \/ stopKind' = "stopped" /\ target = "stopped" /\ stopThread' = targetThread
            \/ stopKind' = "exited" /\ target = "exited"
<1> USE DEF Known
<1>1. /\ conn /\ op # "idle" /\ toDelve = <<>> /\ toClient # <<>>
      /\ 1 \in Wire /\ Head(toClient) = toClient[1] /\ ~IsResponse(toClient[1])
      /\ Len(Tail(toClient)) \in Nat /\ Len(toClient) = Len(Tail(toClient)) + 1
      /\ UNCHANGED <<conn, dlv, target, targetThread, mode>>
  BY EventRead
<1>2. CallMatches /\ OneAtATime /\ HaltsLast /\ InStep
  BY DEF PromptInv
<1>3. cmd # "disconnect" /\ \A i \in Wire : ~IsResponse(toClient[i])
  BY <1>1, <1>2 DEF CallMatches, OneAtATime
<1>4. stopKind \notin Halted
  BY <1>1, <1>2, <1>3 DEF HaltsLast
<1>5. HandleEvent(toClient[1])
  BY <1>1 DEF ReadEvent
<1>6. \/ toClient[1].kind = "stopped" /\ stopKind' = "stopped" /\ stopThread' = toClient[1].num
      \/ toClient[1].kind = "terminated" /\ stopKind' = "exited"
  BY <1>4, <1>5 DEF HandleEvent, stopVars, Halted
<1>7. Tail(toClient) = <<>>
  <2>1. IsHalt(toClient[1])
    BY <1>6 DEF IsHalt
  <2>2. Len(toClient) \in Wire /\ (1 < Len(toClient) => IsResponse(toClient[Len(toClient)]))
    BY <1>1, <1>2, <2>1 DEF HaltsLast, Wire
  <2>3. Len(Tail(toClient)) = 0
    BY <1>1, <1>3, <2>2
  <2> QED
    BY <1>1, <2>3, TailType, EmptySeq, Zenon DEF TypeOK
<1>8. Return("ok", <<>>, FALSE)
  BY <1>7 DEF ReadEvent
<1>9. \/ stopKind' = "stopped" /\ target = "stopped" /\ stopThread' = targetThread
      \/ stopKind' = "exited" /\ target = "exited"
  BY <1>1, <1>2, <1>3, <1>6 DEF InStep
<1> QED
  BY <1>3, <1>8, <1>9

\* Such a halt ends the call.
LEMMA HaltReturns ==
  ASSUME Known, ReadEvent, await = "stop", stopKind' \in Halted
  PROVE  PromptInv'
<1>1. conn /\ toDelve = <<>>
  BY EventRead
<1>2. /\ Return("ok", <<>>, FALSE) /\ cmd # "disconnect"
      /\ \/ stopKind' = "stopped" /\ target = "stopped" /\ stopThread' = targetThread
         \/ stopKind' = "exited" /\ target = "exited"
  BY HaltRead
<1>3. UNCHANGED <<sessionVars, delveVars>>
  BY DEF ReadEvent
<1> QED
  BY <1>1, <1>2, <1>3, ReturnKeeps

\* Any other event is applied, and the reading goes on.
LEMMA EventGoesOn ==
  ASSUME Known, ReadEvent, ~(await = "stop" /\ stopKind' \in Halted)
  PROVE  PromptInv'
<1> USE DEF Known
<1>1. /\ conn /\ op # "idle" /\ toDelve = <<>> /\ toClient # <<>> /\ ~torn
      /\ 1 \in Wire /\ Head(toClient) = toClient[1] /\ ~IsResponse(toClient[1])
      /\ Len(Tail(toClient)) \in Nat /\ Len(toClient) = Len(Tail(toClient)) + 1
      /\ \A i \in 1..Len(Tail(toClient)) :
           i + 1 \in Wire /\ Tail(toClient)[i] = toClient[i + 1]
      /\ UNCHANGED <<conn, dlv, target, targetThread, mode>>
  BY EventRead
<1>2. CallMatches /\ OneAtATime /\ HaltsLast /\ InStep /\ ThreadPositive /\ Disposal
  BY DEF PromptInv
<1>3. /\ toClient' = Tail(toClient)
      /\ UNCHANGED <<op, await, seq, cmd, toDelve, torn>>
  BY Zenon DEF ReadEvent
<1>4. /\ Wire' = 1..Len(toClient')
      /\ \A i \in Wire' : i + 1 \in Wire /\ toClient'[i] = toClient[i + 1]
  BY <1>1, <1>3 DEF Wire
<1>5. HandleEvent(toClient[1])
  BY <1>1 DEF ReadEvent
<1>6. \/ /\ toClient[1].kind = "stopped"
         /\ stopKind' = "stopped" /\ stopThread' = toClient[1].num
      \/ toClient[1].kind = "continued" /\ stopKind' = "running" /\ stopThread' = stopThread
      \/ toClient[1].kind = "terminated" /\ stopKind' = "exited"
      \/ /\ toClient[1].kind = "output"
         /\ stopKind' = stopKind /\ stopThread' = stopThread
  BY <1>5 DEF HandleEvent, stopVars
<1>7. CallMatches'
  BY <1>1, <1>2, <1>3 DEF CallMatches
<1>8. OneAtATime'
  <2>1. \A i \in Wire' : IsResponse(toClient'[i]) => toClient'[i].num = seq /\ await = "response"
    BY <1>2, <1>4 DEF OneAtATime
  <2>2. \A i, j \in Wire' : IsResponse(toClient'[i]) /\ IsResponse(toClient'[j]) => i = j
    <3> SUFFICES ASSUME NEW i \in Wire', NEW j \in Wire',
                        IsResponse(toClient'[i]), IsResponse(toClient'[j])
                 PROVE  i = j
      OBVIOUS
    <3>1. /\ i + 1 \in Wire /\ IsResponse(toClient[i + 1])
          /\ j + 1 \in Wire /\ IsResponse(toClient[j + 1])
      BY <1>4
    <3>2. i + 1 = j + 1
      BY <1>2, <3>1, Zenon DEF OneAtATime
    <3> QED
      BY <1>4, <3>2
  <2> QED
    BY <1>1, <1>3, <2>1, <2>2 DEF OneAtATime
<1>9. \A i, j \in Wire' : i < j /\ IsHalt(toClient'[i]) => IsResponse(toClient'[j])
  <2> SUFFICES ASSUME NEW i \in Wire', NEW j \in Wire', i < j, IsHalt(toClient'[i])
               PROVE  IsResponse(toClient'[j])
    OBVIOUS
  <2>1. i + 1 \in Wire /\ j + 1 \in Wire /\ i + 1 < j + 1
    BY <1>1, <1>3, <1>4
  <2> QED
    BY <1>2, <1>4, <2>1 DEF HaltsLast
<1>10. \A i \in Wire' : ~(IsResponse(toClient'[i]) /\ ~toClient'[i].ok)
  <2>0. \A i \in Wire' : Len(toClient) # 1
    BY <1>1, <1>3, <1>4
  <2> SUFFICES ASSUME NEW i \in Wire', IsResponse(toClient'[i]), ~toClient'[i].ok PROVE FALSE
    OBVIOUS
  <2>1. \E k \in Wire : IsResponse(toClient[k]) /\ ~toClient[k].ok
    <3>1. i + 1 \in Wire /\ toClient'[i] = toClient[i + 1]
      BY <1>4
    <3> QED
      BY <3>1, Zenon
  <2>2. \A k \in Wire : IsResponse(toClient[k]) /\ ~toClient[k].ok => Len(toClient) = 1
    BY <1>2, Zenon DEF HaltsLast
  <2>3. Len(toClient) = 1
    BY <2>1, <2>2, Zenon
  <2> QED
    BY <2>0, <2>3, Zenon
<1>11. \A j \in Wire' : IsHalt(toClient[1]) => IsResponse(toClient'[j])
  <2> SUFFICES ASSUME NEW j \in Wire', IsHalt(toClient[1]) PROVE IsResponse(toClient'[j])
    OBVIOUS
  <2>1. j + 1 \in Wire /\ 1 < j + 1
    BY <1>1, <1>3, <1>4
  <2> QED
    BY <1>1, <1>2, <1>4, <2>1 DEF HaltsLast
<1>12. CASE cmd = "disconnect"
  <2>1. op \in {"close", "unwind"} /\ dlv = "dead"
    BY <1>1, <1>2, <1>12 DEF CallMatches, Disposal, SessionInv, TypeOK
  <2>2. HaltsLast'
    BY <1>3, <1>9, <1>10, <1>12, <2>1 DEF HaltsLast
  <2>3. InStep' /\ ThreadPositive' /\ Disposal'
    BY <1>1, <1>2, <1>3, <1>12, <2>1 DEF InStep, ThreadPositive, Disposal, Disposed
  <2> QED
    BY <1>1, <1>3, <1>7, <1>8, <2>2, <2>3 DEF PromptInv
<1>13. CASE cmd # "disconnect"
  <2>1. op = "action" \/ (op = "open" /\ cmd = "configurationDone")
    BY <1>1, <1>2, <1>13 DEF HaltsLast, CallMatches, TypeOK
  <2>2. stopKind \notin Halted
    BY <1>1, <1>2, <1>13 DEF HaltsLast
  <2>3. stopKind' \in Halted => IsHalt(toClient[1])
    BY <1>6, <2>2 DEF Halted, IsHalt
  <2>4. op # "query"
    BY <2>1
  <2>5. HaltsLast'
    BY <1>3, <1>9, <1>10, <1>11, <2>1, <2>3, <2>4, Zenon DEF HaltsLast
  <2>6. /\ dlv = "up" /\ target \in {"none", "stopped", "running", "exited"}
        /\ \A i \in Wire : /\ toClient[i].kind = "stopped"
                                => target = "stopped" /\ toClient[i].num = targetThread
                           /\ toClient[i].kind = "terminated" => target = "exited"
        /\ target = "running" => op = "action" /\ stopKind = "running"
        /\ op # "open" /\ target = "stopped" /\ (\A i \in Wire : ~IsHalt(toClient[i]))
             => stopThread = targetThread
    BY <1>1, <1>2, <1>13, Zenon DEF InStep
  <2>7. \A i \in Wire' : /\ toClient'[i].kind = "stopped"
                              => target = "stopped" /\ toClient'[i].num = targetThread
                         /\ toClient'[i].kind = "terminated" => target = "exited"
    BY <1>4, <2>6
  <2>8. /\ stopKind' = "stopped" => target = "stopped" /\ stopThread' = targetThread
        /\ stopKind' = "exited" => target = "exited"
        /\ target = "running" => op = "action" /\ stopKind' = "running"
    BY <1>1, <1>6, <2>2, <2>6 DEF Halted
  <2>9. op # "open" /\ target = "stopped" /\ (\A i \in Wire' : ~IsHalt(toClient'[i]))
          => stopThread' = targetThread
    <3> SUFFICES ASSUME op # "open", target = "stopped", \A i \in Wire' : ~IsHalt(toClient'[i])
                 PROVE  stopThread' = targetThread
      OBVIOUS
    <3>1. CASE IsHalt(toClient[1])
      BY <1>1, <1>6, <2>6, <3>1 DEF IsHalt
    <3>2. CASE ~IsHalt(toClient[1])
      <4>1. stopThread' = stopThread
        BY <1>6, <3>2 DEF IsHalt
      <4>2. \A i \in Wire : ~IsHalt(toClient[i])
        <5> SUFFICES ASSUME NEW i \in Wire, i # 1 PROVE ~IsHalt(toClient[i])
          BY <3>2
        <5>1. i - 1 \in Wire' /\ (i - 1) + 1 = i
          BY <1>1, <1>3, <1>4 DEF Wire
        <5> QED
          BY <1>4, <5>1
      <4> QED
        BY <2>6, <4>1, <4>2
    <3> QED
      BY <3>1, <3>2
  <2>10. InStep'
    BY <1>1, <1>3, <2>1, <2>6, <2>7, <2>8, <2>9 DEF InStep, Modes
  <2>11. ThreadPositive' /\ Disposal'
    BY <1>1, <1>2, <1>3, <1>13, <2>6 DEF ThreadPositive, Disposal
  <2> QED
    BY <1>1, <1>3, <1>7, <1>8, <2>5, <2>10, <2>11 DEF PromptInv
<1> QED
  BY <1>12, <1>13

\* Every step of the reading client.
LEMMA ReadKeeps ==
  ASSUME Known, ClientStep
  PROVE  PromptInv'
<1> USE DEF Known
<1>1. CASE ReadEvent
  BY <1>1, HaltReturns, EventGoesOn
<1>2. CASE SkipResponse
  <2>1. toClient # <<>> /\ IsResponse(Head(toClient)) /\ ~Answers(Head(toClient))
    BY <1>2 DEF SkipResponse, Readable, IsResponse
  <2>2. 1 \in Wire /\ Head(toClient) = toClient[1]
    BY <2>1, HeadRead
  <2> QED
    BY <2>1, <2>2 DEF PromptInv, OneAtATime, Answers
<1>3. CASE ReadTorn
  BY <1>3 DEF ReadTorn, PromptInv
<1>4. CASE ReadClosed
  <2>1. dlv = "dead" /\ conn /\ Fail(toClient, torn)
    BY <1>4 DEF ReadClosed, SessionInv
  <2>2. cmd = "disconnect" /\ target \in Disposed
    BY <2>1 DEF PromptInv, Disposal
  <2>3. op \in {"close", "unwind"}
    BY <2>1, <2>2 DEF PromptInv, CallMatches
  <2>4. FinishClose("error")
    BY <2>1, <2>3 DEF Fail
  <2> QED
    BY <2>2, <2>4, FinishKeeps
<1> QED
  BY <1>1, <1>2, <1>3, <1>4, TakeKeeps DEF ClientStep

-----------------------------------------------------------------------------
(* Delve.                                                                  *)

\* Delve finds one request, and nothing of its own on the way to the client.
LEMMA RequestServed ==
  ASSUME Known, NEW sent, Serve(Head(toDelve), sent)
  PROVE  /\ conn /\ op # "idle" /\ await = "response" /\ ~torn
         /\ Head(toDelve) = toDelve[1] /\ toDelve[1] \in KillRequests(terminate)
         /\ toDelve[1].num = seq /\ toDelve[1].cmd = cmd
         /\ toDelve # <<>> /\ toDelve' = <<>> /\ toClient' = <<>> \o sent
         /\ dlv = "up"
         /\ UNCHANGED <<conn, op, cmd, await, seq, torn, stopKind, stopThread, mode>>
<1>1. /\ dlv = "up" /\ toDelve # <<>> /\ toDelve' = Tail(toDelve)
      /\ toClient' = toClient \o sent
      /\ UNCHANGED <<conn, op, cmd, await, seq, torn, stopKind, stopThread, mode>>
  BY DEF Serve, clientVars, callVars, stopVars
<1>2. /\ conn /\ toDelve \in Seq(KillRequests(terminate))
  BY <1>1 DEF Known, SessionInv
<1>3. /\ Len(toDelve) = 1 /\ toDelve[1].num = seq /\ toDelve[1].cmd = cmd
      /\ toClient = <<>> /\ await = "response" /\ op # "idle" /\ ~torn
  BY <1>1 DEF Known, PromptInv, OneAtATime
<1>4. /\ Head(toDelve) = toDelve[1] /\ toDelve[1] \in KillRequests(terminate)
      /\ Len(Tail(toDelve)) = 0 /\ Tail(toDelve) \in Seq(KillRequests(terminate))
  BY <1>1, <1>2, <1>3, HeadTailProperties
<1>5. Tail(toDelve) = <<>>
  BY <1>4, EmptySeq, Zenon
<1> QED
  BY <1>1, <1>2, <1>3, <1>4, <1>5

\* What Delve sends: one response, which may have an event before or after it.
Answer(b) == Reply(Head(toDelve), b)
Sends(b, sent) ==
  \/ sent = <<Answer(b)>>
  \/ b /\ \E k \in Events, n \in Nat : \/ sent = <<Event(k, n), Answer(b)>>
                                       \/ sent = <<Answer(b), Event(k, n)>>

LEMMA SentShape ==
  ASSUME Known, NEW b \in BOOLEAN, NEW sent, Serve(Head(toDelve), sent), Sends(b, sent)
  PROVE  /\ toClient' = sent /\ Len(toClient') \in {1, 2} /\ Wire' = 1..Len(toClient')
         /\ ~b => Len(toClient') = 1
         /\ \E p \in Wire' : /\ toClient'[p] = Answer(b)
                             /\ \A i \in Wire' : i # p => ~IsResponse(toClient'[i])
<1>1. toClient' = <<>> \o sent
  BY RequestServed
<1>2. CASE sent = <<Answer(b)>>
  <2> DEFINE a == Answer(b)
  <2>1. sent = <<a>>
    BY <1>2
  <2> HIDE DEF a
  <2>2. toClient' = <<a>> /\ Len(toClient') = 1 /\ toClient'[1] = a
    BY <1>1, <2>1
  <2> QED
    BY <1>2, <2>2 DEF Wire, a
<1>3. ASSUME NEW k \in Events, NEW n \in Nat, b, sent = <<Event(k, n), Answer(b)>>
      PROVE  /\ toClient' = sent /\ Len(toClient') = 2
             /\ toClient'[2] = Answer(b) /\ toClient'[1] = Event(k, n)
  <2> DEFINE a == Answer(b)
             e == Event(k, n)
  <2>1. sent = <<e, a>>
    BY <1>3
  <2> HIDE DEF a, e
  <2>2. toClient' = <<e, a>> /\ Len(toClient') = 2 /\ toClient'[1] = e /\ toClient'[2] = a
    BY <1>1, <2>1
  <2> QED
    BY <1>3, <2>2 DEF a, e
<1>4. ASSUME NEW k \in Events, NEW n \in Nat, b, sent = <<Answer(b), Event(k, n)>>
      PROVE  /\ toClient' = sent /\ Len(toClient') = 2
             /\ toClient'[1] = Answer(b) /\ toClient'[2] = Event(k, n)
  <2> DEFINE a == Answer(b)
             e == Event(k, n)
  <2>1. sent = <<a, e>>
    BY <1>4
  <2> HIDE DEF a, e
  <2>2. toClient' = <<a, e>> /\ Len(toClient') = 2 /\ toClient'[1] = a /\ toClient'[2] = e
    BY <1>1, <2>1
  <2> QED
    BY <1>4, <2>2 DEF a, e
<1>5. \A k \in Events, n \in Nat : ~IsResponse(Event(k, n))
  BY DEF Event, IsResponse, Events
<1> QED
  BY <1>2, <1>3, <1>4, <1>5 DEF Sends, Wire

\* The response that is sent leaves the connection as the client expects it.
LEMMA AnswerKeeps ==
  ASSUME Known, NEW b \in BOOLEAN, NEW sent, Serve(Head(toDelve), sent), Sends(b, sent),
         ~b => target' # "running",
         Len(toClient') = 2 /\ cmd # "disconnect" =>
           /\ stopKind \notin Halted
           /\ op = "action" \/ (op = "open" /\ cmd = "configurationDone")
  PROVE  CallMatches' /\ OneAtATime' /\ HaltsLast'
<1> USE DEF Known
<1>1. /\ conn /\ op # "idle" /\ await = "response" /\ toDelve[1].num = seq
      /\ Head(toDelve) = toDelve[1] /\ toDelve' = <<>>
      /\ UNCHANGED <<conn, op, cmd, await, seq, stopKind>>
  BY RequestServed
<1>2. /\ Len(toClient') \in {1, 2} /\ Wire' = 1..Len(toClient')
      /\ ~b => Len(toClient') = 1
  BY SentShape
<1>3. PICK p \in Wire' : /\ toClient'[p] = Answer(b)
                         /\ \A i \in Wire' : i # p => ~IsResponse(toClient'[i])
  BY SentShape
<1>4. IsResponse(toClient'[p]) /\ toClient'[p].num = seq /\ (toClient'[p].ok <=> b)
      /\ ~IsHalt(toClient'[p])
  BY <1>1, <1>3 DEF Answer, Reply, IsResponse, IsHalt
<1>5. CallMatches'
  BY <1>1 DEF CallMatches, PromptInv
<1>6. OneAtATime'
  BY <1>1, <1>3, <1>4 DEF OneAtATime
<1>7. HaltsLast'
  <2>1. \A i, j \in Wire' : i < j /\ IsHalt(toClient'[i]) => IsResponse(toClient'[j])
    BY <1>2, <1>3, <1>4
  <2>2. \A i \in Wire' : IsResponse(toClient'[i]) /\ ~toClient'[i].ok
                           => Len(toClient') = 1 /\ target' # "running"
    <3>1. ~toClient'[p].ok => Len(toClient') = 1 /\ target' # "running"
      BY <1>2, <1>4, Zenon
    <3> QED
      BY <1>3, <3>1, Zenon
  <2>3. Len(toClient') = 1 => \A i \in Wire' : IsResponse(toClient'[i])
    BY <1>2, <1>3, <1>4
  <2>4. CASE Len(toClient') = 1
    BY <2>1, <2>2, <2>3, <2>4, Zenon DEF HaltsLast
  <2>5. CASE Len(toClient') = 2
    <3>1. cmd # "disconnect" => stopKind' \notin Halted
      BY <1>1, <2>5
    <3>2. ~(op' = "query" \/ (op' = "open" /\ cmd' # "configurationDone"))
      BY <1>1, <1>5, <2>5 DEF CallMatches
    <3> QED
      BY <1>1, <2>1, <2>2, <3>1, <3>2, Zenon DEF HaltsLast
  <2> QED
    BY <1>2, <2>4, <2>5
<1> QED
  BY <1>5, <1>6, <1>7

\* A request other than the disconnect request has been served.
LEMMA ServeKeeps ==
  ASSUME Known, NEW b \in BOOLEAN, NEW sent, Serve(Head(toDelve), sent), Sends(b, sent),
         cmd # "disconnect", dlv' = "up",
         target' \in {"none", "stopped", "running", "exited"},
         target' = "stopped" => targetThread' > 0,
         target' = "running" => b /\ op = "action",
         stopKind = "stopped" => target' = "stopped" /\ stopThread = targetThread',
         stopKind = "exited" => target' = "exited",
         op = "open" /\ cmd \in Modes /\ b => target' = "stopped",
         op # "open" /\ target' = "stopped" => stopThread = targetThread',
         Len(toClient') = 2 => op = "action" \/ (op = "open" /\ cmd = "configurationDone"),
         \A i \in Wire' : /\ toClient'[i].kind = "stopped"
                               => target' = "stopped" /\ toClient'[i].num = targetThread'
                          /\ toClient'[i].kind = "terminated" => target' = "exited"
  PROVE  PromptInv'
<1> USE DEF Known
<1>1. /\ conn /\ op # "idle" /\ toDelve # <<>> /\ toDelve' = <<>> /\ ~torn
      /\ Head(toDelve) = toDelve[1]
      /\ UNCHANGED <<conn, op, cmd, stopKind, stopThread, torn>>
  BY RequestServed
<1>2. /\ op = "action" => stopKind = "running"
      /\ op = "open" => stopKind = "nil"
  BY <1>1 DEF PromptInv, InStep
<1>3. CallMatches' /\ OneAtATime' /\ HaltsLast'
  <2>1. Len(toClient') = 2 /\ cmd # "disconnect" =>
           /\ stopKind \notin Halted
           /\ op = "action" \/ (op = "open" /\ cmd = "configurationDone")
    BY <1>2 DEF Halted
  <2> QED
    BY <2>1, AnswerKeeps
<1>4. op = "open" /\ cmd \in Modes
        => \A i \in Wire' : IsResponse(toClient'[i]) /\ toClient'[i].ok => target' = "stopped"
  <2>1. PICK p \in Wire' : /\ toClient'[p] = Answer(b)
                           /\ \A i \in Wire' : i # p => ~IsResponse(toClient'[i])
    BY SentShape
  <2>2. toClient'[p].ok = b
    BY <2>1 DEF Answer, Reply
  <2> SUFFICES ASSUME op = "open", cmd \in Modes, NEW i \in Wire',
                      IsResponse(toClient'[i]), toClient'[i].ok
               PROVE  target' = "stopped"
    OBVIOUS
  <2>3. i = p
    BY <2>1
  <2>4. b
    BY <2>2, <2>3, Zenon
  <2> QED
    BY <2>4
<1>5. InStep'
  BY <1>1, <1>2, <1>4 DEF InStep
<1>6. ThreadPositive' /\ Disposal'
  BY <1>1 DEF ThreadPositive, Disposal
<1> QED
  BY <1>1, <1>3, <1>5, <1>6 DEF PromptInv

\* A response alone.
LEMMA Alone ==
  ASSUME Known, NEW b \in BOOLEAN, Serve(Head(toDelve), <<Answer(b)>>)
  PROVE  /\ Sends(b, <<Answer(b)>>) /\ Len(toClient') = 1
         /\ \A i \in Wire' : toClient'[i].kind = "response"
<1> DEFINE a == Answer(b)
<1>1. Sends(b, <<a>>)
  BY DEF Sends
<1>2. toClient' = <<a>> /\ Wire' = 1..Len(toClient')
  BY <1>1, SentShape
<1>3. a.kind = "response"
  BY DEF Answer, Reply
<1> HIDE DEF a
<1>4. Len(toClient') = 1 /\ toClient'[1] = a
  BY <1>2
<1>5. \A i \in Wire' : toClient'[i].kind = "response"
  BY <1>2, <1>3, <1>4
<1> QED
  BY <1>1, <1>4, <1>5 DEF a

LEMMA AloneKeeps ==
  ASSUME Known, NEW b \in BOOLEAN, Serve(Head(toDelve), <<Answer(b)>>),
         cmd # "disconnect", dlv' = "up",
         target' \in {"none", "stopped", "running", "exited"},
         target' = "stopped" => targetThread' > 0,
         target' = "running" => b /\ op = "action",
         stopKind = "stopped" => target' = "stopped" /\ stopThread = targetThread',
         stopKind = "exited" => target' = "exited",
         op = "open" /\ cmd \in Modes /\ b => target' = "stopped",
         op # "open" /\ target' = "stopped" => stopThread = targetThread'
  PROVE  PromptInv'
<1>1. /\ Sends(b, <<Answer(b)>>) /\ Len(toClient') = 1
      /\ \A i \in Wire' : toClient'[i].kind = "response"
  BY Alone
<1>2. Len(toClient') # 2
  BY <1>1
<1>3. \A i \in Wire' : toClient'[i].kind # "stopped" /\ toClient'[i].kind # "terminated"
  BY <1>1
<1> QED
  BY <1>1, <1>2, <1>3, ServeKeeps

\* A response with an event before or after it.
LEMMA Pair ==
  ASSUME Known, NEW k \in Events, NEW n \in Nat, NEW sent,
         sent = <<Event(k, n), Answer(TRUE)>> \/ sent = <<Answer(TRUE), Event(k, n)>>,
         Serve(Head(toDelve), sent)
  PROVE  /\ Sends(TRUE, sent)
         /\ \A i \in Wire' : \/ toClient'[i].kind = "response"
                             \/ toClient'[i].kind = k /\ toClient'[i].num = n
<1> DEFINE a == Answer(TRUE)
           e == Event(k, n)
<1>1. Sends(TRUE, sent)
  BY DEF Sends
<1>2. toClient' = sent /\ Wire' = 1..Len(toClient')
  BY <1>1, SentShape
<1>3. a.kind = "response" /\ e.kind = k /\ e.num = n
  BY DEF Answer, Reply, Event
<1>4. sent = <<e, a>> \/ sent = <<a, e>>
  OBVIOUS
<1> HIDE DEF a, e
<1>5. Len(toClient') = 2 /\ \A i \in 1..2 : toClient'[i] \in {a, e}
  BY <1>2, <1>4
<1>6. \A i \in Wire' : \/ toClient'[i].kind = "response"
                       \/ toClient'[i].kind = k /\ toClient'[i].num = n
  BY <1>2, <1>3, <1>5
<1> QED
  BY <1>1, <1>6

\* Every request Delve serves.
LEMMA DelveKeeps ==
  ASSUME Known, DelveServes
  PROVE  PromptInv'
<1> USE DEF Known
<1> DEFINE r == Head(toDelve)
<1>1. \E sent : Serve(r, sent)
  BY DEF DelveServes, DelveInitialize, DelveLoad, DelveConfigured, DelveResume, DelveQuery,
         DelveDisconnect
<1>2. /\ conn /\ op # "idle" /\ await = "response" /\ ~torn
      /\ r \in KillRequests(terminate) /\ r.cmd = cmd /\ toDelve # <<>> /\ dlv = "up"
      /\ toDelve' = <<>>
      /\ UNCHANGED <<conn, op, cmd, await, seq, torn, stopKind, stopThread, mode>>
  BY <1>1, RequestServed
<1>3. CallMatches /\ ThreadPositive /\ Disposal
  BY DEF PromptInv
<1>4. Wire = {}
  BY <1>2, NothingThere DEF PromptInv, OneAtATime
<1>5. ASSUME cmd # "disconnect"
      PROVE  /\ target \in {"none", "stopped", "exited"}
             /\ stopKind = "stopped" => target = "stopped" /\ stopThread = targetThread
             /\ stopKind = "exited" => target = "exited"
             /\ op = "action" => stopKind = "running"
             /\ op = "open" => stopKind = "nil"
             /\ op = "open" /\ cmd = "configurationDone" => target = "stopped"
             /\ op # "open" /\ target = "stopped" => stopThread = targetThread
             /\ target = "stopped" => targetThread > 0
  BY <1>2, <1>3, <1>4, <1>5 DEF PromptInv, InStep, ThreadPositive
<1>6. Answer(TRUE) = Reply(r, TRUE) /\ Answer(FALSE) = Reply(r, FALSE)
  BY DEF Answer
<1>7. /\ cmd \in Modes \cup {"initialize", "configurationDone"} => op = "open"
      /\ cmd \in Actions => op = "action"
      /\ cmd \in Queries \cup {"variables"} => op = "query"
      /\ cmd = "disconnect" => op \in {"close", "unwind"}
  <2>1. /\ op = "open" => cmd \in Modes \cup {"initialize", "configurationDone"}
        /\ op = "action" => cmd \in Actions
        /\ op = "query" => cmd \in Queries \cup {"variables"}
        /\ op \in {"close", "unwind"} => cmd = "disconnect"
        /\ op \in {"open", "action", "query", "close", "unwind"}
    BY <1>2, <1>3 DEF CallMatches, TypeOK
  <2> QED
    BY <2>1, ActionsAssumption, QueriesAssumption DEF Modes
<1> HIDE DEF r
<1>8. CASE DelveInitialize(r)
  <2>1. /\ cmd = "initialize" /\ Serve(r, <<Answer(TRUE)>>)
        /\ UNCHANGED <<dlv, target, targetThread>>
    BY <1>2, <1>6, <1>8 DEF DelveInitialize
  <2>2. cmd # "disconnect" /\ cmd \notin Modes /\ op = "open"
    BY <1>7, <2>1 DEF Modes
  <2> QED
    <3>1. dlv' = "up"
      BY <1>2, <2>1
    <3> QED
      BY <1>5, <2>1, <2>2, <3>1, AloneKeeps DEF r
<1>9. CASE DelveLoad(r)
  <2>1. cmd \in Modes /\ cmd # "disconnect" /\ op = "open" /\ dlv' = dlv
    BY <1>2, <1>7, <1>9 DEF DelveLoad, Modes
  <2>2. ASSUME Serve(r, <<Answer(TRUE)>>), target' = "stopped", targetThread' \in Threads
        PROVE  PromptInv'
    <3>2. targetThread' > 0
      BY <2>2, ThreadsAssumption
    <3>3. stopKind = "nil"
      BY <1>5, <2>1
    <3> QED
      BY <1>2, <2>1, <2>2, <3>2, <3>3, AloneKeeps DEF r
  <2>3. ASSUME Serve(r, <<Answer(FALSE)>>), UNCHANGED <<target, targetThread>>
        PROVE  PromptInv'
    <3> QED
      BY <1>2, <1>5, <2>1, <2>3, AloneKeeps DEF r
  <2> QED
    BY <1>6, <1>9, <2>2, <2>3 DEF DelveLoad
<1>10. CASE DelveConfigured(r)
  <2>1. /\ cmd = "configurationDone" /\ cmd # "disconnect" /\ op = "open"
        /\ UNCHANGED <<dlv, target, targetThread>>
    BY <1>2, <1>7, <1>10 DEF DelveConfigured
  <2>2. target = "stopped" /\ targetThread \in Nat /\ "stopped" \in Events
    BY <1>5, <2>1 DEF TypeOK, Events
  <2>3. PICK sent : /\ \/ sent = <<Event("stopped", targetThread), Answer(TRUE)>>
                       \/ sent = <<Answer(TRUE), Event("stopped", targetThread)>>
                    /\ Serve(r, sent)
    BY <1>6, <1>10 DEF DelveConfigured
  <2>4. /\ Sends(TRUE, sent)
        /\ \A i \in Wire' : \/ toClient'[i].kind = "response"
                            \/ toClient'[i].kind = "stopped" /\ toClient'[i].num = targetThread
    BY <2>2, <2>3, Pair DEF r
  <2>5. cmd \notin Modes
    BY <2>1 DEF Modes
  <2> QED
    BY <1>2, <1>5, <2>1, <2>2, <2>3, <2>4, <2>5, ServeKeeps DEF r
<1>11. CASE DelveResume(r)
  <2>1. /\ cmd \in Actions /\ cmd # "disconnect" /\ op = "action" /\ stopKind = "running"
        /\ UNCHANGED <<dlv, targetThread>>
    BY <1>2, <1>5, <1>7, <1>11, Kinds DEF DelveResume
  <2>2. "continued" \in Events /\ "terminated" \in Events /\ 0 \in Nat
    BY DEF Events
  <2>3. ASSUME Serve(r, <<Answer(TRUE)>>), target' = "running"
        PROVE  PromptInv'
    <3> QED
      BY <1>2, <2>1, <2>3, AloneKeeps DEF r
  <2>4. ASSUME Serve(r, <<Event("continued", 0), Answer(TRUE)>>), target' = "running"
        PROVE  PromptInv'
    <3>1. /\ Sends(TRUE, <<Event("continued", 0), Answer(TRUE)>>)
          /\ \A i \in Wire' : \/ toClient'[i].kind = "response"
                              \/ toClient'[i].kind = "continued" /\ toClient'[i].num = 0
      BY <2>2, <2>4, Pair DEF r
    <3> QED
      BY <1>2, <2>1, <2>4, <3>1, ServeKeeps DEF r
  <2>5. ASSUME target = "exited", Serve(r, <<Answer(TRUE), Event("terminated", 0)>>),
               UNCHANGED target
        PROVE  PromptInv'
    <3>1. /\ Sends(TRUE, <<Answer(TRUE), Event("terminated", 0)>>)
          /\ \A i \in Wire' : \/ toClient'[i].kind = "response"
                              \/ toClient'[i].kind = "terminated" /\ toClient'[i].num = 0
      BY <2>2, <2>5, Pair DEF r
    <3> QED
      BY <1>2, <2>1, <2>5, <3>1, ServeKeeps DEF r
  <2>6. ASSUME Serve(r, <<Answer(FALSE)>>), UNCHANGED target
        PROVE  PromptInv'
    <3> QED
      BY <1>2, <1>5, <2>1, <2>6, AloneKeeps DEF r
  <2> QED
    BY <1>6, <1>11, <2>3, <2>4, <2>5, <2>6 DEF DelveResume
<1>12. CASE DelveQuery(r)
  <2>1. /\ cmd \in Queries \cup {"variables"} /\ cmd # "disconnect" /\ op = "query"
        /\ UNCHANGED <<dlv, target, targetThread>>
    BY <1>2, <1>7, <1>12, Kinds DEF DelveQuery
  <2>2. PICK b \in BOOLEAN : Serve(r, <<Answer(b)>>)
    BY <1>6, <1>12 DEF DelveQuery
  <2> QED
    BY <1>2, <1>5, <2>1, <2>2, AloneKeeps DEF r
<1>13. CASE DelveDisconnect(r)
  <2>1. /\ cmd = "disconnect" /\ dlv' = "dead" /\ targetThread' = targetThread
        /\ target' = IF target \notin {"stopped", "running"} THEN target
                     ELSE IF r.kill THEN "killed" ELSE "detached"
    BY <1>2, <1>13 DEF DelveDisconnect
  <2>2. op \in {"close", "unwind"} /\ toClient = <<>> /\ target \in {"none", "stopped", "exited"}
    BY <1>2, <1>3, <1>7, <2>1 DEF Disposal
  <2>3. r.kill = terminate /\ (terminate <=> mode = "launch")
    BY <1>2 DEF KillRequests, SessionInv
  <2>4. target' \in Disposed /\ mode' = mode
    BY <1>2, <2>1, <2>2, <2>3 DEF Disposed
  <2>5. PICK sent : Serve(r, sent) /\ Sends(TRUE, sent)
    <3>1. "terminated" \in Events /\ 0 \in Nat
      BY DEF Events
    <3>2. \/ Serve(r, <<Answer(TRUE)>>)
          \/ Serve(r, <<Event("terminated", 0), Answer(TRUE)>>)
      BY <1>6, <1>13 DEF DelveDisconnect
    <3>3. Sends(TRUE, <<Answer(TRUE)>>) /\ Sends(TRUE, <<Event("terminated", 0), Answer(TRUE)>>)
      BY <3>1 DEF Sends
    <3> QED
      BY <3>2, <3>3
  <2>6. CallMatches' /\ OneAtATime' /\ HaltsLast'
    BY <2>1, <2>5, AnswerKeeps DEF r
  <2>7. InStep'
    BY <1>2, <2>1 DEF InStep
  <2>8. ThreadPositive' /\ Disposal'
    BY <1>2, <1>3, <2>1, <2>2, <2>4 DEF ThreadPositive, Disposal, Disposed
  <2> QED
    BY <1>2, <2>6, <2>7, <2>8 DEF PromptInv
<1> QED
  BY <1>8, <1>9, <1>10, <1>11, <1>12, <1>13 DEF DelveServes, r

-----------------------------------------------------------------------------
(* What the running debuggee makes Delve send.                             *)

\* A debuggee runs only while the client waits for it to halt.
LEMMA EmitKeeps ==
  ASSUME Known, NEW k \in Events, NEW n \in Nat, Emit(k, n), target = "running",
         \/ k = "stopped" /\ target' = "stopped" /\ targetThread' = n /\ n > 0
         \/ k = "terminated" /\ target' = "exited"
         \/ k = "output" /\ target' = target
  PROVE  PromptInv'
<1> USE DEF Known
<1> DEFINE e == Event(k, n)
<1>1. /\ dlv = "up" /\ dlv' = dlv /\ toClient' = Append(toClient, e)
      /\ UNCHANGED <<conn, op, cmd, await, seq, torn, stopKind, stopThread, mode, toDelve>>
  BY DEF Emit, clientVars, callVars, stopVars
<1>2. conn
  BY <1>1 DEF SessionInv
<1>3. CallMatches /\ OneAtATime /\ HaltsLast /\ InStep /\ ThreadPositive /\ Disposal
  BY DEF PromptInv
<1>4. cmd # "disconnect"
  BY <1>1, <1>2, <1>3 DEF Disposal
<1>5. op = "action" /\ toDelve = <<>> /\ stopKind = "running"
  BY <1>2, <1>3, <1>4 DEF InStep
<1>6. e.kind = k /\ e.num = n /\ ~IsResponse(e)
  BY DEF Event, IsResponse, Events
<1> HIDE DEF e
<1>7. /\ Len(toClient) \in Nat /\ Len(toClient') = Len(toClient) + 1
      /\ Wire' = Wire \cup {Len(toClient) + 1} /\ Len(toClient) + 1 \notin Wire
      /\ toClient'[Len(toClient) + 1] = e
      /\ \A i \in Wire : toClient'[i] = toClient[i] /\ i < Len(toClient) + 1 /\ i \in Nat
  BY <1>1 DEF TypeOK, Wire
<1>8. \A i \in Wire : ~IsHalt(toClient[i])
  BY <1>2, <1>3, <1>4 DEF InStep, IsHalt
<1>9. \A i \in Wire : ~(IsResponse(toClient[i]) /\ ~toClient[i].ok)
  BY <1>3, Zenon DEF HaltsLast
<1>10. CallMatches'
  BY <1>1, <1>3 DEF CallMatches
<1>11. OneAtATime'
  <2>1. op' # "idle" /\ toDelve' = <<>>
    BY <1>1, <1>5
  <2>2. \A i \in Wire' : IsResponse(toClient'[i])
                           => i \in Wire /\ IsResponse(toClient[i]) /\ toClient'[i] = toClient[i]
    BY <1>6, <1>7
  <2>3. /\ \A i \in Wire : IsResponse(toClient[i]) => toClient[i].num = seq /\ await = "response"
        /\ \A i, j \in Wire : IsResponse(toClient[i]) /\ IsResponse(toClient[j]) => i = j
    BY <1>3 DEF OneAtATime
  <2> QED
    BY <1>1, <2>1, <2>2, <2>3 DEF OneAtATime
<1>12. HaltsLast'
  <2>1. \A i, j \in Wire' : i < j /\ IsHalt(toClient'[i]) => IsResponse(toClient'[j])
    BY <1>7, <1>8
  <2>2. \A i \in Wire' : ~(IsResponse(toClient'[i]) /\ ~toClient'[i].ok)
    BY <1>6, <1>7, <1>9, Zenon
  <2>3. stopKind' \notin Halted /\ op' = "action"
    BY <1>1, <1>5 DEF Halted
  <2>4. ~(op' = "query" \/ (op' = "open" /\ cmd' # "configurationDone"))
    BY <2>3
  <2> QED
    BY <2>1, <2>2, <2>3, <2>4, Zenon DEF HaltsLast
<1>13. InStep'
  <2>1. \A i \in Wire' : /\ toClient'[i].kind = "stopped"
                              => target' = "stopped" /\ toClient'[i].num = targetThread'
                         /\ toClient'[i].kind = "terminated" => target' = "exited"
    BY <1>6, <1>7, <1>8 DEF IsHalt
  <2>2. target' = "stopped" => \E i \in Wire' : IsHalt(toClient'[i])
    BY <1>6, <1>7 DEF IsHalt
  <2>3. target' \in {"stopped", "running", "exited"}
    OBVIOUS
  <2> QED
    BY <1>1, <1>5, <2>1, <2>2, <2>3 DEF InStep
<1>14. ThreadPositive' /\ Disposal'
  BY <1>1, <1>2, <1>3, <1>4 DEF ThreadPositive, Disposal
<1> QED
  BY <1>1, <1>10, <1>11, <1>12, <1>13, <1>14 DEF PromptInv

LEMMA PromptInvariant ==
  ASSUME Timeouts = FALSE, Crashes = FALSE
  PROVE  Spec => []PromptInv
<1>1. Init => PromptInv
  <2> SUFFICES ASSUME Init PROVE PromptInv
    OBVIOUS
  <2>1. /\ ~torn /\ op = "idle" /\ ~conn /\ toClient = <<>> /\ toDelve = <<>>
        /\ stopKind = "nil" /\ target = "none" /\ dlv = "none" /\ cmd = "none"
    BY DEF Init
  <2>2. Wire = {} /\ Len(toClient) = 0
    BY <2>1, NothingThere
  <2>3. CallMatches /\ OneAtATime
    BY <2>1, <2>2 DEF CallMatches, OneAtATime
  <2>4. HaltsLast
    BY <2>2 DEF HaltsLast
  <2>5. InStep /\ ThreadPositive /\ Disposal
    BY <2>1, <2>2 DEF InStep, ThreadPositive, Disposal, Disposed
  <2> QED
    BY <2>1, <2>3, <2>4, <2>5 DEF PromptInv
<1>2. TypeOK /\ SessionInv /\ PromptInv /\ [Next]_vars => PromptInv'
  <2> SUFFICES ASSUME Known, [Next]_vars PROVE PromptInv'
    BY DEF Known
  <2>1. ASSUME NEW t \in Threads, DelveStop(t) PROVE PromptInv'
    <3>1. /\ Emit("stopped", t) /\ target = "running" /\ target' = "stopped"
          /\ targetThread' = t
      BY <2>1 DEF DelveStop
    <3>2. t \in Nat /\ t > 0 /\ "stopped" \in Events
      BY ThreadsAssumption DEF Events
    <3> QED
      BY <3>1, <3>2, EmitKeeps
  <2>2. CASE DelveExit
    <3>1. Emit("terminated", 0) /\ target = "running" /\ target' = "exited"
      BY <2>2 DEF DelveExit
    <3>2. 0 \in Nat /\ "terminated" \in Events
      BY DEF Events
    <3> QED
      BY <3>1, <3>2, EmitKeeps
  <2>3. CASE DelvePrint
    <3>1. Emit("output", printed + 1) /\ target = "running" /\ target' = target
      BY <2>3 DEF DelvePrint
    <3>2. printed + 1 \in Nat /\ "output" \in Events
      BY DEF Events, Known, TypeOK
    <3> QED
      BY <3>1, <3>2, EmitKeeps
  <2>4. ~DelveCrash /\ ~Timeout /\ ~WaitEnds
    BY DEF DelveCrash, Timeout, WaitEnds, Known, PromptInv, CallMatches
  <2>5. CASE UNCHANGED vars
    BY <2>5 DEF Known, vars, clientVars, callVars, stopVars, delveVars, PromptInv, CallMatches,
                OneAtATime, HaltsLast, InStep, ThreadPositive, Disposal, Disposed, Wire
  <2> QED
    BY <2>1, <2>2, <2>3, <2>4, <2>5, CallKeeps, ReadKeeps, DelveKeeps DEF Next, TargetHalts
<1> QED
  BY <1>1, <1>2, Typing, SessionInvariant, PTL DEF Spec

\* Without deadlines and crashes: what the client says of the debuggee between calls,
\* that it has stopped or that it is over, is so.
THEOREM RealStops ==
  ASSUME Timeouts = FALSE, Crashes = FALSE
  PROVE  Spec => []StopIsReal
<1>1. TypeOK /\ SessionInv /\ PromptInv => StopIsReal
  BY BetweenCalls DEF Known, StopIsReal, Settled
<1> QED
  BY <1>1, PromptInvariant, Typing, SessionInvariant, PTL

\* Without deadlines and crashes: between calls the client knows the thread a stopped
\* debuggee stopped on, so the next resume names that thread.
THEOREM CurrentThread ==
  ASSUME Timeouts = FALSE, Crashes = FALSE
  PROVE  Spec => []ThreadIsCurrent
<1>1. TypeOK /\ SessionInv /\ PromptInv => ThreadIsCurrent
  BY BetweenCalls DEF Known, ThreadIsCurrent, Settled
<1> QED
  BY <1>1, PromptInvariant, Typing, SessionInvariant, PTL

\* Without deadlines and crashes: when a session has ended its debuggee has exited, was
\* killed if it was launched, or was let go if it was attached to.
THEOREM Disposing ==
  ASSUME Timeouts = FALSE, Crashes = FALSE
  PROVE  Spec => []CloseDisposes
<1>1. PromptInv => CloseDisposes
  BY DEF PromptInv, Disposal, Disposed, CloseDisposes
<1> QED
  BY <1>1, PromptInvariant, PTL

-----------------------------------------------------------------------------
(* The client is a session.  Between calls its stop state is what a caller *)
(* is told, and every step of the client or of Delve is a step of the      *)
(* session or none.  What has to be known of a call beyond PromptInv: how  *)
(* far the opening has come, that a refused resume has left the client's   *)
(* state running, and that an answered question had a held debuggee.       *)

CallerInv ==
  /\ op = "open" => target \in {"none", "stopped"}
  /\ op = "open" /\ (cmd = "initialize" \/ (cmd \in Modes /\ toDelve # <<>>))
       => target = "none"
  /\ op = "action" /\ RefusalUnread => stopKind = "running"
  /\ op = "query" /\ toClient # <<>> => (toClient[1].ok => target = "stopped")

SessionStep == [Session!Next]_(Session!vars)

\* What a session's caller and debuggee can tell apart has not changed.
LEMMA SessionStutters ==
  ASSUME UNCHANGED <<conn, mode, target, targetThread, ret, SessionCall, SessionSaid>>
  PROVE  SessionStep
  BY DEF SessionStep, Session!vars

\* The next request of a call that is neither a resume nor a question.
LEMMA SessionGoesOn ==
  ASSUME UNCHANGED <<conn, mode, target, targetThread, ret, op>>,
         op \in {"open", "close", "unwind"}
  PROVE  SessionStep
<1>1. SessionCall' = SessionCall /\ SessionSaid' = SessionSaid
  BY DEF SessionCall, SessionSaid
<1> QED
  BY <1>1, SessionStutters

LEMMA CallRefines ==
  ASSUME Known, CallerInv, CallStarts
  PROVE  CallerInv' /\ SessionStep
<1> USE DEF Known
<1>1. ASSUME NEW m \in Modes, Open(m) PROVE CallerInv' /\ SessionStep
  <2>1. /\ op = "idle" /\ ~conn /\ conn' = TRUE /\ mode' = m /\ op' = "open"
        /\ target' = "none" /\ targetThread' = 0
        /\ UNCHANGED <<stopKind, stopThread, ret>>
    BY <1>1 DEF Open, stopVars
  <2>2. stopKind = "nil"
    BY <2>1 DEF SessionInv, ClosedIsClean
  <2>3. SessionCall = "idle" /\ SessionCall' = "open" /\ SessionSaid' = SessionSaid
    BY <2>1, <2>2 DEF SessionCall, SessionSaid
  <2>4. Session!Open(m) /\ m \in {"launch", "attach"}
    BY <2>1, <2>3 DEF Session!Open, Modes
  <2>5. CallerInv'
    BY <2>1 DEF CallerInv
  <2> QED
    BY <2>4, <2>5 DEF SessionStep, Session!Next
<1>2. CASE OpenFails
  <2>1. /\ op = "idle" /\ ret' = "error"
        /\ UNCHANGED <<conn, mode, op, target, targetThread, stopKind, stopThread>>
    BY <1>2 DEF OpenFails, stopVars, delveVars
  <2>2. SessionCall = "idle" /\ SessionCall' = "idle" /\ SessionSaid' = SessionSaid
    BY <2>1 DEF SessionCall, SessionSaid
  <2>3. Session!OpenFails
    BY <2>1, <2>2 DEF Session!OpenFails
  <2>4. CallerInv'
    BY <2>1 DEF CallerInv
  <2> QED
    BY <2>3, <2>4 DEF SessionStep, Session!Next
<1>3. ASSUME op = "idle", conn, op' \in {"action", "query", "close"},
             UNCHANGED <<conn, mode, target, targetThread, ret>>,
             SessionCall' = op',
             op' = "query" => UNCHANGED <<stopKind, stopThread>>
      PROVE  SessionStep
  <2>1. SessionCall = "idle"
    BY <1>3 DEF SessionCall
  <2>2. SessionSaid' = IF op' = "query" THEN SessionSaid ELSE Session!Nothing
    BY <1>3 DEF SessionSaid, Session!Nothing, Session!Says
  <2>3. Session!Begin(op')
    BY <1>3, <2>1, <2>2 DEF Session!Begin
  <2> QED
    BY <1>3, <2>3 DEF SessionStep, Session!Next
<1>4. ASSUME NEW c, NEW t, op = "idle", conn, Send(c, t, toClient, torn)
      PROVE  toDelve' # <<>> /\ toClient' = <<>>
  <2>1. toClient = <<>> /\ toDelve = <<>> /\ dlv = "up"
    BY <1>4, BetweenCalls
  <2> QED
    BY <1>4, <2>1 DEF Send
<1>5. ASSUME NEW c \in Actions, ThreadAction(c) PROVE CallerInv' /\ SessionStep
  <2>1. /\ op = "idle" /\ conn /\ op' = "action" /\ stopKind' = "running"
        /\ Send(c, stopThread', toClient, torn)
        /\ UNCHANGED <<conn, mode, target, targetThread, ret>>
    BY <1>5 DEF ThreadAction, SetRunning, sessionVars, delveVars
  <2>2. toDelve' # <<>>
    BY <1>4, <2>1
  <2>3. SessionCall' = op' /\ CallerInv'
    BY <2>1, <2>2 DEF SessionCall, CallerInv
  <2> QED
    BY <1>3, <2>1, <2>3
<1>6. ASSUME NEW q \in Queries, Query(q) PROVE CallerInv' /\ SessionStep
  <2>1. /\ op = "idle" /\ conn /\ op' = "query" /\ UNCHANGED <<stopKind, stopThread>>
        /\ Send(q, stopThread, toClient, torn)
        /\ UNCHANGED <<conn, mode, target, targetThread, ret>>
    BY <1>6 DEF Query, sessionVars, delveVars, stopVars
  <2>2. toClient' = <<>>
    BY <1>4, <2>1
  <2>3. SessionCall' = op' /\ CallerInv'
    BY <2>1, <2>2 DEF SessionCall, CallerInv
  <2> QED
    BY <1>3, <2>1, <2>3
<1>7. CASE Close
  <2>1. /\ op = "idle" /\ conn /\ op' = "close"
        /\ UNCHANGED <<conn, mode, target, targetThread, ret>>
    BY <1>7 DEF Close, sessionVars, delveVars
  <2>2. SessionCall' = op' /\ CallerInv'
    BY <2>1 DEF SessionCall, CallerInv
  <2> QED
    BY <1>3, <2>1, <2>2
<1> QED
  BY <1>1, <1>2, <1>5, <1>6, <1>7 DEF CallStarts

\* A session ends when its debuggee is disposed of.
LEMMA EndRefines ==
  ASSUME Known, conn, op \in {"close", "unwind"}, cmd = "disconnect",
         toClient # <<>> \/ dlv = "dead",
         NEW r \in {"ok", "error"}, FinishClose(r)
  PROVE  CallerInv' /\ SessionStep
<1>1. target \in Disposed
  BY ClosingIsDisposed
<1>2. /\ conn' = FALSE /\ op' = "idle" /\ stopKind' = "nil"
      /\ ret' = IF op = "unwind" THEN "error" ELSE r
      /\ target \notin {"stopped", "running"}
      /\ UNCHANGED <<mode, target, targetThread>>
  BY <1>1 DEF FinishClose, Orphaned, EndResult, Disposed
<1>3. SessionCall = op /\ SessionCall' = "idle" /\ SessionSaid' = Session!Nothing
  BY <1>2 DEF SessionCall, SessionSaid, Session!Nothing, Session!Says
<1>4. ret' \in IF op = "unwind" THEN {"error"} ELSE {"ok", "error"}
  BY <1>2
<1>5. Session!End
  BY <1>2, <1>3, <1>4 DEF Session!End
<1>6. CallerInv'
  BY <1>2 DEF CallerInv
<1> QED
  BY <1>5, <1>6 DEF SessionStep, Session!Next

\* An opening or a resume returns the halt that ended it.
LEMMA HaltRefines ==
  ASSUME conn, op \in {"open", "action"}, toDelve = <<>>, ~RefusalUnread,
         op = "open" => target \in {"none", "stopped"},
         op' = "idle", ret' = "ok", UNCHANGED <<conn, mode, target, targetThread>>,
         \/ stopKind' = "stopped" /\ target = "stopped" /\ stopThread' = targetThread
         \/ stopKind' = "exited" /\ target = "exited"
  PROVE  CallerInv' /\ SessionStep
<1>1. /\ SessionCall = IF op = "action" THEN "resumed" ELSE "open"
      /\ SessionCall' = "idle"
  BY DEF SessionCall
<1>2. SessionSaid' = Session!TheTruth
  BY DEF SessionSaid, Session!TheTruth, Session!Says
<1>3. Session!Return("ok")
  BY <1>1 DEF Session!Return
<1>4. IF op = "action" THEN Session!Resumed ELSE Session!Opened
  BY <1>1, <1>2, <1>3 DEF Session!Resumed, Session!Opened
<1>5. CallerInv'
  BY DEF CallerInv
<1> QED
  BY <1>4, <1>5 DEF SessionStep, Session!Next

-----------------------------------------------------------------------------
(* What the client reads.                                                  *)

\* The request has failed.
LEMMA FailRefines ==
  ASSUME Known, CallerInv, TakeResponse, ~toClient[1].ok
  PROVE  CallerInv' /\ SessionStep
<1> USE DEF Known
<1>1. /\ conn /\ op # "idle" /\ toClient # <<>> /\ toDelve = <<>>
      /\ IsResponse(toClient[1]) /\ Head(toClient) = toClient[1]
  BY ResponseTaken
<1>2. Fail(Tail(toClient), FALSE)
  BY <1>1 DEF TakeResponse
<1>3. CASE op = "open"
  <2>1. /\ op' = "unwind"
        /\ UNCHANGED <<conn, mode, target, targetThread, ret>>
    BY <1>2, <1>3 DEF Fail, sessionVars, delveVars
  <2>2. /\ SessionCall = "open" /\ SessionCall' = "unwind" /\ SessionSaid' = SessionSaid
    BY <1>3, <2>1 DEF SessionCall, SessionSaid
  <2>3. Session!GiveUp
    BY <2>1, <2>2 DEF Session!GiveUp
  <2>4. CallerInv'
    BY <2>1 DEF CallerInv
  <2> QED
    BY <2>3, <2>4 DEF SessionStep, Session!Next
<1>4. CASE op \in {"action", "query"}
  <2>1. /\ op' = "idle" /\ ret' = "error"
        /\ UNCHANGED <<conn, mode, target, targetThread, stopKind, stopThread>>
    BY <1>2, <1>4 DEF Fail, Return, sessionVars, delveVars, stopVars
  <2>2. RefusalUnread
    BY <1>1 DEF RefusalUnread, IsResponse
  <2>3. SessionCall = op /\ SessionCall' = "idle"
    BY <2>1, <2>2 DEF SessionCall
  <2>4. Session!Return("error")
    BY <2>1, <2>3 DEF Session!Return
  <2>5. CASE op = "action"
    <3>1. SessionSaid' = Session!Says("running", 0)
      BY <2>1, <2>2, <2>5 DEF CallerInv, SessionSaid, Session!Says
    <3>2. Session!Refused
      BY <2>3, <2>4, <2>5, <3>1 DEF Session!Refused
    <3> QED
      BY <2>1, <3>2 DEF SessionStep, Session!Next, CallerInv
  <2>6. CASE op = "query"
    <3>1. SessionSaid' = SessionSaid
      BY <2>1, <2>6 DEF SessionSaid
    <3>2. Session!Answered
      BY <2>3, <2>4, <2>6, <3>1 DEF Session!Answered
    <3> QED
      BY <2>1, <3>2 DEF SessionStep, Session!Next, CallerInv
  <2> QED
    BY <1>4, <2>5, <2>6
<1>5. CASE op \in {"close", "unwind"}
  <2>1. FinishClose("error") /\ cmd = "disconnect"
    BY <1>2, <1>5 DEF Fail, PromptInv, CallMatches
  <2> QED
    BY <1>1, <1>5, <2>1, EndRefines
<1> QED
  BY <1>1, <1>3, <1>4, <1>5 DEF TypeOK, PromptInv, CallMatches

LEMMA SecondMessage ==
  ASSUME TypeOK, toClient # <<>>, Tail(toClient) # <<>>
  PROVE  2 \in Wire /\ Tail(toClient)[1] = toClient[2] /\ Len(toClient) # 1
<1>1. /\ Len(Tail(toClient)) \in Nat /\ Len(toClient) = Len(Tail(toClient)) + 1
      /\ \A i \in 1..Len(Tail(toClient)) :
           i + 1 \in Wire /\ Tail(toClient)[i] = toClient[i + 1]
  BY HeadRead
<1>2. Len(Tail(toClient)) # 0
  BY TailType, EmptySeq, Zenon DEF TypeOK
<1>3. 1 \in 1..Len(Tail(toClient))
  BY <1>1, <1>2
<1> QED
  BY <1>1, <1>2, <1>3

\* What is left behind a response is no response.
LEMMA NothingRefusedBehind ==
  ASSUME Known, TakeResponse, toClient' = Tail(toClient)
  PROVE  ~RefusalUnread'
<1>1. /\ toClient # <<>> /\ 1 \in Wire
      /\ \A i \in Wire : IsResponse(toClient[i]) => i = 1
  BY ResponseTaken
<1>2. SUFFICES ASSUME toClient' # <<>> PROVE ~IsResponse(toClient'[1])
  BY DEF RefusalUnread, IsResponse
<1>3. 2 \in Wire /\ toClient'[1] = toClient[2]
  BY <1>1, <1>2, SecondMessage DEF Known
<1>4. ~IsResponse(toClient[2])
  BY <1>1, <1>3
<1> QED
  BY <1>3, <1>4

\* The request has succeeded.
LEMMA ProceedRefines ==
  ASSUME Known, CallerInv, TakeResponse, toClient[1].ok
  PROVE  CallerInv' /\ SessionStep
<1> USE DEF Known
<1>1. /\ conn /\ op # "idle" /\ toClient # <<>> /\ toDelve = <<>> /\ 1 \in Wire
      /\ IsResponse(toClient[1]) /\ Head(toClient) = toClient[1]
      /\ (\A i \in Wire : IsResponse(toClient[i])) => Tail(toClient) = <<>>
  BY ResponseTaken
<1>2. Proceed(Tail(toClient)) /\ ~RefusalUnread
  BY <1>1 DEF TakeResponse, RefusalUnread
<1>3. CallMatches /\ HaltsLast /\ InStep
  BY DEF PromptInv
<1>4. CASE op = "open" /\ cmd \in {"initialize"} \cup Modes
  <2>1. /\ cmd' = IF cmd = "initialize" THEN mode ELSE "configurationDone"
        /\ UNCHANGED <<conn, mode, target, targetThread, ret, op>>
    BY <1>2, <1>4 DEF Proceed, Send, sessionVars, delveVars, Modes
  <2>2. CallerInv'
    BY <1>4, <2>1 DEF CallerInv, TypeOK, Modes
  <2> QED
    BY <1>4, <2>1, <2>2, SessionGoesOn
<1>5. CASE (op = "open" /\ cmd = "configurationDone") \/ op = "action"
  <2>1. /\ WaitForStop(Tail(toClient), FALSE)
        /\ UNCHANGED <<conn, mode, target, targetThread, stopKind, stopThread>>
    BY <1>2, <1>5 DEF Proceed, sessionVars, delveVars, stopVars, Modes
  <2>2. cmd # "disconnect"
    BY <1>1, <1>3, <1>5 DEF CallMatches
  <2>3. CASE stopKind \in Halted
    <3>1. op' = "idle" /\ ret' = "ok"
      BY <2>1, <2>3 DEF WaitForStop, Return
    <3>2. \/ stopKind' = "stopped" /\ target = "stopped" /\ stopThread' = targetThread
          \/ stopKind' = "exited" /\ target = "exited"
      BY <1>1, <1>3, <2>1, <2>2, <2>3 DEF InStep, Halted
    <3>3. op = "open" => target \in {"none", "stopped"}
      BY DEF CallerInv
    <3> QED
      BY <1>1, <1>2, <1>5, <2>1, <3>1, <3>2, <3>3, HaltRefines
  <2>4. CASE stopKind \notin Halted
    <3>1. toClient' = Tail(toClient) /\ UNCHANGED <<op, ret, cmd, toDelve>>
      BY <2>1, <2>4 DEF WaitForStop
    <3>2. ~RefusalUnread'
      BY <3>1, NothingRefusedBehind
    <3>3. SessionCall' = SessionCall /\ SessionSaid' = SessionSaid
      BY <1>1, <1>2, <1>5, <3>1, <3>2 DEF SessionCall, SessionSaid
    <3>4. CallerInv'
      BY <1>5, <2>1, <3>1, <3>2 DEF CallerInv
    <3> QED
      BY <2>1, <3>1, <3>3, <3>4, SessionStutters
  <2> QED
    BY <2>3, <2>4
<1>6. CASE op = "query"
  <2>1. Tail(toClient) = <<>> /\ target = "stopped"
    BY <1>1, <1>3, <1>6 DEF HaltsLast, CallerInv
  <2>2. UNCHANGED <<conn, mode, target, targetThread, stopKind, stopThread>>
    BY <1>2, <1>6 DEF Proceed, sessionVars, delveVars, stopVars
  <2>3. CASE Send("variables", 0, Tail(toClient), FALSE) /\ UNCHANGED <<op, ret>>
    <3>1. toClient' = <<>> /\ UNCHANGED <<op, ret>>
      BY <2>1, <2>3 DEF Send
    <3>2. SessionCall' = SessionCall /\ SessionSaid' = SessionSaid
      BY <1>6, <2>2, <3>1 DEF SessionCall, SessionSaid
    <3>3. CallerInv'
      BY <1>6, <3>1 DEF CallerInv
    <3> QED
      BY <2>2, <3>1, <3>2, <3>3, SessionStutters
  <2>4. CASE Return("ok", Tail(toClient), FALSE)
    <3>1. op' = "idle" /\ ret' = "ok"
      BY <2>4 DEF Return
    <3>2. SessionCall = "query" /\ SessionCall' = "idle" /\ SessionSaid' = SessionSaid
      BY <1>6, <2>2, <3>1 DEF SessionCall, SessionSaid
    <3>3. Session!Return("ok")
      BY <2>2, <3>1, <3>2 DEF Session!Return
    <3>4. Session!Answered
      BY <2>1, <3>2, <3>3 DEF Session!Answered
    <3>5. CallerInv'
      BY <3>1 DEF CallerInv
    <3> QED
      BY <3>4, <3>5 DEF SessionStep, Session!Next
  <2> QED
    BY <1>2, <1>6, <2>3, <2>4 DEF Proceed
<1>7. CASE op \in {"close", "unwind"}
  <2>1. FinishClose("ok") /\ cmd = "disconnect"
    BY <1>2, <1>3, <1>7 DEF Proceed, CallMatches
  <2> QED
    BY <1>1, <1>7, <2>1, EndRefines
<1> QED
  BY <1>1, <1>3, <1>4, <1>5, <1>6, <1>7 DEF TypeOK, CallMatches

\* An event is applied, and may be the halt that is waited for.
LEMMA EventRefines ==
  ASSUME Known, CallerInv, ReadEvent
  PROVE  CallerInv' /\ SessionStep
<1> USE DEF Known
<1>1. /\ conn /\ op # "idle" /\ toDelve = <<>> /\ toClient # <<>>
      /\ 1 \in Wire /\ ~IsResponse(toClient[1])
      /\ UNCHANGED <<conn, target, targetThread, mode>>
  BY EventRead
<1>2. CallMatches /\ HaltsLast
  BY DEF PromptInv
<1>3. ~RefusalUnread
  BY <1>1 DEF RefusalUnread, IsResponse
<1>4. op \in {"open", "action", "close", "unwind"}
  BY <1>1, <1>2 DEF HaltsLast, TypeOK, CallMatches
<1>5. CASE await = "stop" /\ stopKind' \in Halted
  <2>1. /\ Return("ok", <<>>, FALSE) /\ cmd # "disconnect"
        /\ \/ stopKind' = "stopped" /\ target = "stopped" /\ stopThread' = targetThread
           \/ stopKind' = "exited" /\ target = "exited"
    BY <1>5, HaltRead
  <2>2. op \in {"open", "action"}
    BY <1>2, <1>4, <2>1 DEF CallMatches
  <2>3. op' = "idle" /\ ret' = "ok"
    BY <2>1 DEF Return
  <2>4. op = "open" => target \in {"none", "stopped"}
    BY DEF CallerInv
  <2> QED
    BY <1>1, <1>3, <2>1, <2>2, <2>3, <2>4, HaltRefines
<1>6. CASE ~(await = "stop" /\ stopKind' \in Halted)
  <2>1. toClient' = Tail(toClient) /\ UNCHANGED <<op, ret, cmd, toDelve>>
    BY <1>6 DEF ReadEvent
  <2>2. ~RefusalUnread'
    <3>1. SUFFICES ASSUME RefusalUnread' PROVE FALSE
      OBVIOUS
    <3>2. Tail(toClient) # <<>>
      BY <2>1, <3>1, Zenon DEF RefusalUnread
    <3>3. 2 \in Wire /\ toClient'[1] = toClient[2] /\ Len(toClient) # 1
      BY <1>1, <2>1, <3>2, SecondMessage
    <3>4. IsResponse(toClient[2]) /\ ~toClient[2].ok
      BY <3>1, <3>3, Zenon DEF RefusalUnread, IsResponse
    <3> QED
      BY <1>2, <3>3, <3>4, Zenon DEF HaltsLast
  <2>3. SessionCall' = SessionCall /\ SessionSaid' = SessionSaid
    BY <1>1, <1>3, <1>4, <2>1, <2>2 DEF SessionCall, SessionSaid
  <2>4. CallerInv'
    BY <1>1, <1>4, <2>1, <2>2 DEF CallerInv
  <2> QED
    BY <1>1, <2>1, <2>3, <2>4, SessionStutters
<1> QED
  BY <1>5, <1>6

LEMMA ReadRefines ==
  ASSUME Known, CallerInv, ClientStep
  PROVE  CallerInv' /\ SessionStep
<1> USE DEF Known
<1>1. CASE TakeResponse
  <2>1. toClient[1].ok \/ ~toClient[1].ok
    OBVIOUS
  <2> QED
    BY <1>1, <2>1, ProceedRefines, FailRefines
<1>2. ~SkipResponse
  <2>1. SUFFICES ASSUME SkipResponse PROVE FALSE
    OBVIOUS
  <2>2. toClient # <<>> /\ IsResponse(Head(toClient)) /\ ~Answers(Head(toClient))
    BY <2>1 DEF SkipResponse, Readable, IsResponse
  <2>3. 1 \in Wire /\ Head(toClient) = toClient[1]
    BY <2>2, HeadRead
  <2> QED
    BY <2>2, <2>3 DEF PromptInv, OneAtATime, Answers
<1>3. ~ReadTorn
  BY DEF ReadTorn, PromptInv
<1>4. CASE ReadClosed
  <2>1. dlv = "dead" /\ conn /\ op # "idle" /\ Fail(toClient, torn)
    BY <1>4 DEF ReadClosed, SessionInv
  <2>2. cmd = "disconnect" /\ op \in {"close", "unwind"}
    BY <2>1 DEF PromptInv, Disposal, CallMatches
  <2>3. FinishClose("error")
    BY <2>1, <2>2 DEF Fail
  <2> QED
    BY <2>1, <2>2, <2>3, EndRefines
<1> QED
  BY <1>1, <1>2, <1>3, <1>4, EventRefines DEF ClientStep

-----------------------------------------------------------------------------
(* What Delve and the debuggee do.                                         *)

\* A request that is answered: what the client is told of the answer.
LEMMA AnswerOnTheWay ==
  ASSUME Known, NEW b \in BOOLEAN, NEW sent, Serve(Head(toDelve), sent), Sends(b, sent)
  PROVE  /\ RefusalUnread' <=> ~b
         /\ ~b => ~toClient'[1].ok
         /\ SessionSaid' = SessionSaid
         /\ toDelve' = <<>> /\ toDelve # <<>>
         /\ UNCHANGED <<conn, mode, ret, op, cmd, stopKind>>
<1>1. /\ toDelve # <<>> /\ toDelve' = <<>>
      /\ UNCHANGED <<conn, mode, op, cmd, stopKind, stopThread>>
  BY RequestServed
<1>2. ret' = ret
  BY DEF Serve, clientVars, callVars
<1>3. SessionSaid' = SessionSaid
  BY <1>1 DEF SessionSaid
<1>4. toClient' = sent /\ Len(toClient') \in {1, 2} /\ Wire' = 1..Len(toClient')
      /\ (~b => Len(toClient') = 1)
  BY SentShape
<1>5. PICK p \in Wire' : /\ toClient'[p] = Answer(b)
                         /\ \A i \in Wire' : i # p => ~IsResponse(toClient'[i])
  BY SentShape
<1>6. IsResponse(toClient'[p]) /\ (toClient'[p].ok <=> b)
  BY <1>5 DEF Answer, Reply, IsResponse
<1>7. 1 \in Wire' /\ (~b => p = 1)
  BY <1>4, <1>5
<1>8. toClient' # <<>>
  <2>1. CASE sent = <<Answer(b)>>
    BY <1>4, <2>1
  <2>2. ASSUME NEW k \in Events, NEW n \in Nat,
               \/ sent = <<Event(k, n), Answer(b)>>
               \/ sent = <<Answer(b), Event(k, n)>>
        PROVE  toClient' # <<>>
    BY <1>4, <2>2
  <2> QED
    BY <2>1, <2>2 DEF Sends
<1>9. ~b => RefusalUnread' /\ ~toClient'[1].ok
  BY <1>6, <1>7, <1>8, Zenon DEF RefusalUnread, IsResponse
<1>10. b => ~RefusalUnread'
  <2>1. SUFFICES ASSUME b, IsResponse(toClient'[1]), ~toClient'[1].ok PROVE FALSE
    BY Zenon DEF RefusalUnread, IsResponse
  <2>2. p = 1
    BY <1>5, <1>7, <2>1, Zenon
  <2> QED
    BY <1>6, <2>1, <2>2, Zenon
<1> QED
  BY <1>1, <1>2, <1>3, <1>9, <1>10

LEMMA ServeRefines ==
  ASSUME Known, CallerInv, DelveServes
  PROVE  CallerInv' /\ SessionStep
<1> USE DEF Known
<1> DEFINE r == Head(toDelve)
<1>1. ASSUME NEW b \in BOOLEAN, NEW sent, Serve(r, sent), Sends(b, sent)
      PROVE  /\ RefusalUnread' <=> ~b
             /\ ~b => ~toClient'[1].ok
             /\ SessionSaid' = SessionSaid
             /\ toDelve' = <<>> /\ toDelve # <<>>
             /\ UNCHANGED <<conn, mode, ret, op, cmd, stopKind>>
  BY <1>1, AnswerOnTheWay
<1>2. \E sent : Serve(r, sent)
  BY DEF DelveServes, DelveInitialize, DelveLoad, DelveConfigured, DelveResume, DelveQuery,
         DelveDisconnect
<1>3. /\ conn /\ op # "idle" /\ r.cmd = cmd /\ r \in KillRequests(terminate)
      /\ toDelve # <<>> /\ dlv = "up"
  BY <1>2, RequestServed
<1>4. CallMatches /\ InStep /\ Disposal
  BY DEF PromptInv
<1>5. /\ cmd \in Modes \cup {"initialize", "configurationDone"} => op = "open"
      /\ cmd \in Actions => op = "action"
      /\ cmd \in Queries \cup {"variables"} => op = "query"
      /\ cmd = "disconnect" => op \in {"close", "unwind"}
  <2>1. /\ op = "open" => cmd \in Modes \cup {"initialize", "configurationDone"}
        /\ op = "action" => cmd \in Actions
        /\ op = "query" => cmd \in Queries \cup {"variables"}
        /\ op \in {"close", "unwind"} => cmd = "disconnect"
        /\ op \in {"open", "action", "query", "close", "unwind"}
    BY <1>3, <1>4 DEF CallMatches, TypeOK
  <2> QED
    BY <2>1, ActionsAssumption, QueriesAssumption DEF Modes
<1>6. /\ Answer(TRUE) = Reply(r, TRUE) /\ Answer(FALSE) = Reply(r, FALSE)
      /\ \A b \in BOOLEAN : Sends(b, <<Answer(b)>>)
  BY DEF Answer, Sends
<1>7. /\ Sends(TRUE, <<Event("stopped", targetThread), Answer(TRUE)>>)
      /\ Sends(TRUE, <<Answer(TRUE), Event("stopped", targetThread)>>)
      /\ Sends(TRUE, <<Event("continued", 0), Answer(TRUE)>>)
      /\ Sends(TRUE, <<Answer(TRUE), Event("terminated", 0)>>)
      /\ Sends(TRUE, <<Event("terminated", 0), Answer(TRUE)>>)
  <2>1. /\ "stopped" \in Events /\ "continued" \in Events /\ "terminated" \in Events
        /\ targetThread \in Nat /\ 0 \in Nat
    BY DEF Events, TypeOK
  <2> QED
    BY <2>1 DEF Sends
<1> HIDE DEF r
<1>8. CASE DelveInitialize(r)
  <2>1. /\ cmd = "initialize" /\ Serve(r, <<Answer(TRUE)>>)
        /\ UNCHANGED <<target, targetThread>>
    BY <1>3, <1>6, <1>8 DEF DelveInitialize
  <2>2. op = "open" /\ UNCHANGED <<conn, mode, ret, op, cmd>>
    BY <1>1, <1>5, <1>6, <2>1
  <2>3. CallerInv'
    BY <2>1, <2>2 DEF CallerInv
  <2> QED
    BY <2>1, <2>2, <2>3, SessionGoesOn
<1>9. CASE DelveLoad(r)
  <2>1. cmd \in Modes /\ cmd # "initialize" /\ op = "open" /\ target = "none"
    BY <1>3, <1>5, <1>9 DEF DelveLoad, CallerInv, Modes
  <2>2. ASSUME Serve(r, <<Answer(TRUE)>>), target' = "stopped", targetThread' \in Threads
        PROVE  CallerInv' /\ SessionStep
    <3>1. /\ SessionSaid' = SessionSaid /\ toDelve' = <<>>
          /\ UNCHANGED <<conn, mode, ret, op, cmd>>
      BY <1>1, <1>6, <2>2
    <3>2. SessionCall = "open" /\ SessionCall' = "open"
      BY <2>1, <3>1 DEF SessionCall
    <3>3. Session!Load(targetThread')
      BY <2>1, <2>2, <3>1, <3>2 DEF Session!Load, Session!Becomes
    <3>4. CallerInv'
      BY <2>1, <2>2, <3>1 DEF CallerInv
    <3> QED
      BY <2>2, <3>3, <3>4 DEF SessionStep, Session!Next
  <2>3. ASSUME Serve(r, <<Answer(FALSE)>>), UNCHANGED <<target, targetThread>>
        PROVE  CallerInv' /\ SessionStep
    <3>1. UNCHANGED <<conn, mode, ret, op, cmd>>
      BY <1>1, <1>6, <2>3
    <3>2. CallerInv'
      BY <2>1, <2>3, <3>1 DEF CallerInv
    <3> QED
      BY <2>1, <2>3, <3>1, <3>2, SessionGoesOn
  <2> QED
    BY <1>6, <1>9, <2>2, <2>3 DEF DelveLoad
<1>10. CASE DelveConfigured(r)
  <2>1. /\ cmd = "configurationDone" /\ op = "open" /\ UNCHANGED <<target, targetThread>>
    BY <1>3, <1>5, <1>10 DEF DelveConfigured
  <2>2. UNCHANGED <<conn, mode, ret, op, cmd>>
    BY <1>1, <1>6, <1>7, <1>10 DEF DelveConfigured
  <2>3. CallerInv'
    BY <2>1, <2>2 DEF CallerInv, Modes
  <2> QED
    BY <2>1, <2>2, <2>3, SessionGoesOn
<1>11. CASE DelveResume(r)
  <2>1. cmd \in Actions /\ cmd # "disconnect" /\ op = "action" /\ targetThread' = targetThread
    BY <1>3, <1>5, <1>11, Kinds DEF DelveResume
  <2>2. stopKind = "running" /\ SessionCall = "action"
    BY <1>3, <1>4, <2>1 DEF InStep, SessionCall
  <2>3. ASSUME NEW sent, Serve(r, sent), Sends(TRUE, sent), target \in {"stopped", "exited"},
               target' = IF target = "stopped" THEN "running" ELSE target
        PROVE  CallerInv' /\ SessionStep
    <3>1. /\ SessionSaid' = SessionSaid /\ toDelve' = <<>> /\ ~RefusalUnread'
          /\ UNCHANGED <<conn, mode, ret, op>>
      BY <1>1, <2>3
    <3>2. SessionCall' = "resumed"
      BY <2>1, <3>1 DEF SessionCall
    <3>3. Session!Resume
      BY <2>1, <2>2, <2>3, <3>1, <3>2 DEF Session!Resume, Session!Becomes
    <3>4. CallerInv'
      BY <2>1, <3>1 DEF CallerInv
    <3> QED
      BY <3>3, <3>4 DEF SessionStep, Session!Next
  <2>4. ASSUME Serve(r, <<Answer(FALSE)>>), target' = target
        PROVE  CallerInv' /\ SessionStep
    <3>1. /\ SessionSaid' = SessionSaid /\ RefusalUnread'
          /\ UNCHANGED <<conn, mode, ret, op, stopKind>>
      BY <1>1, <1>6, <2>4
    <3>2. SessionCall' = "action"
      BY <2>1, <3>1 DEF SessionCall
    <3>3. CallerInv'
      BY <2>1, <2>2, <3>1 DEF CallerInv
    <3> QED
      BY <2>1, <2>2, <2>4, <3>1, <3>2, <3>3, SessionStutters
  <2>5. \/ \E sent : /\ Serve(r, sent) /\ Sends(TRUE, sent) /\ target \in {"stopped", "exited"}
                     /\ target' = IF target = "stopped" THEN "running" ELSE target
        \/ Serve(r, <<Answer(FALSE)>>) /\ target' = target
    BY <1>6, <1>7, <1>11 DEF DelveResume
  <2> QED
    BY <2>3, <2>4, <2>5
<1>12. CASE DelveQuery(r)
  <2>1. cmd \in Queries \cup {"variables"} /\ op = "query" /\ UNCHANGED <<target, targetThread>>
    BY <1>3, <1>5, <1>12 DEF DelveQuery
  <2>2. PICK b \in BOOLEAN : Serve(r, <<Answer(b)>>) /\ (b => target = "stopped")
    BY <1>6, <1>12 DEF DelveQuery
  <2>3. /\ SessionSaid' = SessionSaid /\ (~b => ~toClient'[1].ok)
        /\ UNCHANGED <<conn, mode, ret, op>>
    BY <1>1, <1>6, <2>2
  <2>4. SessionCall' = SessionCall
    BY <2>1, <2>3 DEF SessionCall
  <2>5. CallerInv'
    BY <2>1, <2>2, <2>3, Zenon DEF CallerInv
  <2> QED
    BY <2>1, <2>3, <2>4, <2>5, SessionStutters
<1>13. CASE DelveDisconnect(r)
  <2>1. /\ cmd = "disconnect" /\ op \in {"close", "unwind"} /\ targetThread' = targetThread
        /\ target' = IF target \notin {"stopped", "running"} THEN target
                     ELSE IF r.kill THEN "killed" ELSE "detached"
    BY <1>3, <1>5, <1>13 DEF DelveDisconnect
  <2>2. target \in {"none", "stopped", "exited"}
    BY <1>3, <1>4, <2>1 DEF Disposal
  <2>3. r.kill <=> mode = "launch"
    BY <1>3 DEF KillRequests, SessionInv
  <2>4. /\ SessionSaid' = SessionSaid
        /\ UNCHANGED <<conn, mode, ret, op>>
    BY <1>1, <1>6, <1>7, <1>13 DEF DelveDisconnect
  <2>5. CallerInv'
    BY <2>1, <2>4 DEF CallerInv
  <2>6. CASE target = "stopped"
    <3>1. target' = IF mode = "launch" THEN "killed" ELSE "detached"
      BY <2>1, <2>3, <2>6
    <3>2. SessionCall = op /\ SessionCall' = op
      BY <2>1, <2>4 DEF SessionCall
    <3>3. Session!Dispose
      BY <2>1, <2>4, <2>6, <3>1, <3>2 DEF Session!Dispose, Session!Becomes
    <3> QED
      BY <2>5, <3>3 DEF SessionStep, Session!Next
  <2>7. CASE target # "stopped"
    BY <2>1, <2>2, <2>4, <2>5, <2>7, SessionGoesOn
  <2> QED
    BY <2>6, <2>7
<1> QED
  BY <1>8, <1>9, <1>10, <1>11, <1>12, <1>13 DEF DelveServes, r

\* A debuggee runs only for a resume that was carried out.
LEMMA RunRefines ==
  ASSUME Known, CallerInv, TargetHalts \/ DelvePrint
  PROVE  CallerInv' /\ SessionStep
<1> USE DEF Known
<1>1. PICK k \in Events \ {"response"}, n \in Nat :
           Emit(k, n) /\ target = "running" /\ dlv = "up"
  <2>1. CASE TargetHalts
    BY <2>1, ThreadsAssumption DEF TargetHalts, DelveStop, DelveExit, Emit, Events
  <2>2. CASE DelvePrint
    BY <2>2 DEF DelvePrint, Emit, Events, TypeOK
  <2> QED
    BY <2>1, <2>2
<1>2. /\ toClient' = Append(toClient, Event(k, n))
      /\ UNCHANGED <<conn, mode, ret, op, cmd, stopKind, stopThread, toDelve>>
  BY <1>1 DEF Emit, clientVars, callVars, stopVars
<1>3. op = "action" /\ toDelve = <<>>
  BY <1>1 DEF SessionInv, PromptInv, Disposal, InStep
<1>4. ~RefusalUnread
  <2>1. SUFFICES ASSUME RefusalUnread PROVE FALSE
    OBVIOUS
  <2>2. 1 \in Wire
    BY <2>1, HeadRead DEF RefusalUnread
  <2> QED
    BY <1>1, <2>1, <2>2, Zenon DEF RefusalUnread, IsResponse, PromptInv, HaltsLast
<1>5. ~RefusalUnread'
  <2> DEFINE e == Event(k, n)
  <2>1. e.kind # "response" /\ toClient' = Append(toClient, e)
    BY <1>1, <1>2 DEF Event
  <2> HIDE DEF e
  <2>2. CASE toClient = <<>>
    <3>1. toClient' = <<e>>
      BY <2>1, <2>2
    <3>2. toClient'[1] = e
      BY <3>1
    <3> QED
      BY <2>1, <3>2, Zenon DEF RefusalUnread
  <2>3. CASE toClient # <<>>
    <3>1. toClient'[1] = toClient[1]
      BY <2>1, <2>3, HeadRead DEF TypeOK, Wire
    <3> QED
      BY <1>4, <2>3, <3>1, Zenon DEF RefusalUnread
  <2> QED
    BY <2>2, <2>3
<1>6. /\ SessionCall = "resumed" /\ SessionCall' = "resumed" /\ SessionSaid' = SessionSaid
  BY <1>2, <1>3, <1>4, <1>5 DEF SessionCall, SessionSaid
<1>7. CallerInv'
  BY <1>2, <1>3, <1>5 DEF CallerInv
<1>8. ASSUME NEW t \in Threads, DelveStop(t) PROVE SessionStep
  <2>1. Session!Stop(t)
    BY <1>2, <1>6, <1>8 DEF DelveStop, Session!Stop, Session!Becomes
  <2> QED
    BY <2>1 DEF SessionStep, Session!Next
<1>9. CASE DelveExit
  <2>1. Session!Exit
    BY <1>2, <1>6, <1>9 DEF DelveExit, Session!Exit, Session!Becomes
  <2> QED
    BY <1>7, <2>1 DEF SessionStep, Session!Next
<1>10. CASE DelvePrint
  BY <1>2, <1>6, <1>7, <1>10, SessionStutters DEF DelvePrint
<1> QED
  BY <1>7, <1>8, <1>9, <1>10 DEF TargetHalts

\* Without deadlines and crashes the client implements the session: a resume that
\* succeeds was carried out once and returns a halt that came after it, an opened
\* session has its debuggee held, and the end of a session disposes of it.
THEOREM RefinesSession ==
  ASSUME Timeouts = FALSE, Crashes = FALSE
  PROVE  Spec => SessionSafety
<1>1. Init => CallerInv /\ Session!Init
  <2> SUFFICES ASSUME Init PROVE CallerInv /\ Session!Init
    OBVIOUS
  <2>1. /\ conn = FALSE /\ stopKind = "nil" /\ op = "idle" /\ ret = "none"
        /\ mode = "launch" /\ target = "none" /\ targetThread = 0
    BY DEF Init
  <2>2. SessionCall = "idle" /\ SessionSaid = Session!Nothing
    BY <2>1 DEF SessionCall, SessionSaid, Session!Nothing, Session!Says
  <2> QED
    BY <2>1, <2>2 DEF CallerInv, Session!Init
<1>2. TypeOK /\ SessionInv /\ PromptInv /\ CallerInv /\ [Next]_vars
        => CallerInv' /\ [Session!Next]_(Session!vars)
  <2> SUFFICES ASSUME Known, CallerInv, [Next]_vars PROVE CallerInv' /\ SessionStep
    BY DEF Known, SessionStep
  <2>1. ~DelveCrash /\ ~Timeout /\ ~WaitEnds
    BY DEF DelveCrash, Timeout, WaitEnds, Known, PromptInv, CallMatches
  <2>2. CASE UNCHANGED vars
    <3>1. UNCHANGED <<conn, mode, target, targetThread, ret, op, cmd, stopKind, stopThread,
                      toDelve, toClient>>
      BY <2>2 DEF vars, clientVars, callVars, stopVars, delveVars
    <3>2. SessionCall' = SessionCall /\ SessionSaid' = SessionSaid /\ CallerInv'
      BY <3>1 DEF SessionCall, SessionSaid, RefusalUnread, CallerInv
    <3> QED
      BY <3>1, <3>2, SessionStutters
  <2> QED
    BY <2>1, <2>2, CallRefines, ReadRefines, ServeRefines, RunRefines DEF Next
<1> QED
  BY <1>1, <1>2, Typing, SessionInvariant, PromptInvariant, PTL
  DEF Spec, SessionSafety, Session!Spec

-----------------------------------------------------------------------------
(* The output.  Entries arrive in the order they were printed in, so an    *)
(* entry that is read is later than all that were read before.             *)

Outputs == {i \in Wire : toClient[i].kind = "output"}

OutputInOrder ==
  /\ \A i, j \in Outputs : i < j => toClient[i].num < toClient[j].num
  /\ OnTheWay \subseteq 1..printed
  /\ \A n \in (1..printed) \ OnTheWay, m \in OnTheWay : n < m

Ascending(s) == \A i, j \in DOMAIN s : i < j => s[i] < s[j]
Shown(s) == {s[i] : i \in DOMAIN s}

\* s holds the latest entries of R.
Latest(s, R) == /\ Len(s) <= OutputCap
                /\ Ascending(s)
                /\ Shown(s) \subseteq R
                /\ \A e \in R \ Shown(s) : /\ Len(s) = OutputCap
                                           /\ \A x \in Shown(s) : e < x

OutputInv == conn => OutputInOrder /\ Latest(targetOutput, Read)

\* A list of the latest entries to which a later one is added.
LEMMA LatestAdded ==
  ASSUME NEW s \in Seq(Nat), NEW R \in SUBSET Nat, NEW n \in Nat,
         \A e \in R : e < n, Latest(s, R)
  PROVE  Latest(LastEntries(Append(s, n)), R \cup {n})
<1> DEFINE a == Append(s, n)
<1>0. Len(s) \in Nat /\ OutputCap \in Nat /\ OutputCap > 0 /\ Len(s) <= OutputCap
  BY BoundsAssumption DEF Latest
<1>1. /\ OutputCap \in Nat /\ OutputCap > 0 /\ Len(s) \in Nat /\ Len(s) <= OutputCap
      /\ a \in Seq(Nat) /\ Len(a) = Len(s) + 1 /\ a[Len(s) + 1] = n
      /\ DOMAIN s = 1..Len(s) /\ DOMAIN a = 1..(Len(s) + 1)
      /\ \A i \in 1..Len(s) : a[i] = s[i] /\ s[i] \in Nat /\ s[i] \in R /\ s[i] < n
  BY BoundsAssumption DEF Latest, Shown
<1>2. Ascending(s) /\ \A e \in R \ Shown(s) : /\ Len(s) = OutputCap
                                              /\ \A x \in Shown(s) : e < x
  BY DEF Latest
<1> HIDE DEF a
<1>3. \A i, j \in 1..(Len(s) + 1) : i < j => a[i] < a[j]
  <2> SUFFICES ASSUME NEW i \in 1..(Len(s) + 1), NEW j \in 1..(Len(s) + 1), i < j
               PROVE  a[i] < a[j]
    OBVIOUS
  <2>1. i \in 1..Len(s) /\ (j \in 1..Len(s) \/ j = Len(s) + 1)
    BY <1>0
  <2>2. CASE j \in 1..Len(s)
    <3>1. s[i] < s[j]
      BY <1>1, <1>2, <2>1, <2>2 DEF Ascending
    <3> QED
      BY <1>1, <2>1, <2>2, <3>1
  <2>3. CASE j = Len(s) + 1
    BY <1>1, <2>1, <2>3
  <2> QED
    BY <2>1, <2>2, <2>3
<1>4. CASE Len(s) < OutputCap
  <2>1. LastEntries(a) = a
    BY <1>1, <1>4 DEF LastEntries
  <2>2. Shown(a) = R \cup {n}
    <3>1. R \subseteq Shown(s)
      <4>1. Len(s) # OutputCap
        BY <1>0, <1>4
      <4> QED
        BY <1>2, <4>1, Zenon
    <3>2. \A e \in Shown(s) : \E i \in 1..Len(s) : e = a[i] /\ i \in 1..(Len(s) + 1)
      BY <1>1 DEF Shown
    <3>3. n \in Shown(a) /\ Shown(s) \subseteq Shown(a)
      BY <1>1, <3>2 DEF Shown
    <3>4. Shown(a) \subseteq R \cup {n}
      <4> SUFFICES ASSUME NEW i \in 1..(Len(s) + 1) PROVE a[i] \in R \cup {n}
        BY <1>1 DEF Shown
      <4>1. i \in 1..Len(s) \/ i = Len(s) + 1
        BY <1>1
      <4> QED
        BY <1>1, <4>1
    <3> QED
      BY <3>1, <3>3, <3>4, Zenon
  <2>3. Len(a) <= OutputCap /\ Ascending(a)
    BY <1>1, <1>3, <1>4 DEF Ascending
  <2>4. Latest(a, R \cup {n})
    BY <2>2, <2>3 DEF Latest
  <2> QED
    BY <2>1, <2>4 DEF a
<1>5. CASE Len(s) = OutputCap
  <2> DEFINE t == SubSeq(a, 2, Len(a))
  <2>1. LastEntries(a) = t
    BY <1>1, <1>5 DEF LastEntries
  <2>2. /\ t \in Seq(Nat) /\ Len(t) = Len(s) /\ DOMAIN t = 1..Len(s)
        /\ \A i \in 1..Len(s) : t[i] = a[i + 1]
    <3>1. /\ Len(a) \in Nat /\ 2 <= Len(a) /\ Len(a) - 2 + 1 = Len(s)
          /\ \A i \in 1..Len(s) : 2 + i - 1 = i + 1
      BY <1>0, <1>1, <1>5
    <3>2. /\ t \in Seq(Nat)
          /\ Len(t) = (IF 2 <= Len(a) THEN Len(a) - 2 + 1 ELSE 0)
          /\ \A i \in 1..(Len(a) - 2 + 1) : t[i] = a[2 + i - 1]
      <4>1. \A i \in 2..Len(a) : a[i] \in Nat
        <5>1. \A i \in 2..Len(a) : i \in 1..Len(a)
          BY <3>1
        <5> QED
          BY <1>1, <5>1
      <4>2. 2 \in Int /\ Len(a) \in Int
        BY <3>1
      <4> QED
        BY <4>1, <4>2, SubSeqProperties
    <3>3. Len(t) = Len(s)
      BY <1>1, <1>5, <3>1, <3>2
    <3>4. DOMAIN t = 1..Len(s)
      BY <3>2, <3>3
    <3> QED
      BY <3>1, <3>2, <3>3, <3>4
  <2> HIDE DEF t
  <2>3. Ascending(t)
    <3>1. \A i \in 1..Len(s) : i + 1 \in 1..(Len(s) + 1)
      BY <1>0
    <3>2. \A i, j \in 1..Len(s) : i < j => i + 1 < j + 1
      OBVIOUS
    <3>3. \A i, j \in 1..Len(s) : i < j => a[i + 1] < a[j + 1]
      BY <1>3, <3>1, <3>2
    <3> QED
      BY <2>2, <3>3 DEF Ascending
  <2>4. Shown(t) \subseteq R \cup {n}
    <3>1. \A i \in 1..Len(s) : i + 1 = Len(s) + 1 \/ i + 1 \in 1..Len(s)
      BY <1>1
    <3>2. \A i \in 1..Len(s) : a[i + 1] \in R \cup {n}
      BY <1>1, <3>1
    <3> QED
      BY <2>2, <3>2 DEF Shown
  <2>5. \A x \in Shown(t) : a[1] < x
    <3>1. \A i \in 1..Len(s) :
            1 \in 1..(Len(s) + 1) /\ i + 1 \in 1..(Len(s) + 1) /\ 1 < i + 1
      BY <1>0
    <3>2. \A i \in 1..Len(s) : a[1] < a[i + 1]
      BY <1>3, <3>1
    <3> QED
      BY <2>2, <3>2 DEF Shown
  <2>6. ASSUME NEW e \in R \cup {n}, e \notin Shown(t) PROVE \A x \in Shown(t) : e < x
    <3>1. e # n
      <4>1. t[Len(s)] = n /\ Len(s) \in DOMAIN t
        BY <1>1, <1>5, <2>2
      <4> QED
        BY <2>6, <4>1 DEF Shown
    <3>2. CASE e \in Shown(s)
      <4>1. PICK j \in 1..Len(s) : e = s[j]
        BY <1>1, <3>2 DEF Shown
      <4>2. CASE j = 1
        BY <1>1, <2>5, <4>1, <4>2
      <4>3. CASE j # 1
        <5>1. j - 1 \in 1..Len(s) /\ (j - 1) + 1 = j
          BY <1>1, <4>3
        <5>2. t[j - 1] = e /\ j - 1 \in DOMAIN t
          BY <1>1, <2>2, <4>1, <5>1
        <5> QED
          BY <2>6, <5>2 DEF Shown
      <4> QED
        BY <4>2, <4>3
    <3>3. CASE e \notin Shown(s)
      <4>1. e \in R /\ e < a[1] /\ e \in Nat
        BY <1>1, <1>2, <1>5, <3>1, <3>3 DEF Shown
      <4>2. \A x \in Shown(t) : x \in Nat
        BY <2>2 DEF Shown
      <4> QED
        BY <1>1, <1>5, <2>5, <4>1, <4>2
    <3> QED
      BY <3>2, <3>3
  <2>7. Len(t) = OutputCap /\ Len(t) <= OutputCap
    BY <1>1, <1>5, <2>2
  <2>8. Latest(t, R \cup {n})
    BY <2>3, <2>4, <2>6, <2>7, Zenon DEF Latest
  <2> QED
    BY <2>1, <2>8 DEF a
<1>6. Len(s) < OutputCap \/ Len(s) = OutputCap
  BY <1>0
<1> QED
  BY <1>4, <1>5, <1>6, Zenon

\* The first message is read.
LEMMA OutputRead ==
  ASSUME TypeOK, OutputInOrder, toClient # <<>>, toClient' = Tail(toClient), printed' = printed
  PROVE  /\ OutputInOrder'
         /\ toClient[1].kind # "output" => OnTheWay' = OnTheWay
         /\ toClient[1].kind = "output" =>
              /\ toClient[1].num \in OnTheWay
              /\ OnTheWay' = OnTheWay \ {toClient[1].num}
<1>1. /\ 1 \in Wire /\ Len(toClient') \in Nat /\ Len(toClient) = Len(toClient') + 1
      /\ Wire' = 1..Len(toClient')
      /\ \A i \in Wire' : i + 1 \in Wire /\ 1 < i + 1 /\ toClient'[i] = toClient[i + 1]
  BY HeadRead DEF Wire
<1>2. \A i \in Wire : i = 1 \/ \E j \in Wire' : j + 1 = i
  <2> SUFFICES ASSUME NEW i \in Wire, i # 1 PROVE \E j \in Wire' : j + 1 = i
    OBVIOUS
  <2>1. i - 1 \in Wire' /\ (i - 1) + 1 = i
    BY <1>1 DEF Wire
  <2> QED
    BY <2>1
<1>3. \A e : e \in OnTheWay <=> \E i \in Outputs : toClient[i].num = e
  BY DEF OnTheWay, Outputs, Wire
<1>4. \A e : e \in OnTheWay' <=> \E i \in Outputs' : toClient'[i].num = e
  BY DEF OnTheWay, Outputs, Wire
<1>5. \A i \in Outputs' : i + 1 \in Outputs /\ toClient'[i] = toClient[i + 1] /\ 1 < i + 1
  BY <1>1 DEF Outputs
<1>6. \A i \in Outputs : i = 1 \/ \E j \in Outputs' : toClient'[j] = toClient[i]
  BY <1>1, <1>2 DEF Outputs
<1>7. OnTheWay' \subseteq OnTheWay
  BY <1>3, <1>4, <1>5
<1>8. \A i, j \in Outputs' : i < j => toClient'[i].num < toClient'[j].num
  <2> SUFFICES ASSUME NEW i \in Outputs', NEW j \in Outputs', i < j
               PROVE  toClient'[i].num < toClient'[j].num
    OBVIOUS
  <2>1. i + 1 \in Outputs /\ j + 1 \in Outputs /\ i + 1 < j + 1
    BY <1>1, <1>5 DEF Outputs
  <2> QED
    BY <1>5, <2>1 DEF OutputInOrder
<1>9. CASE toClient[1].kind # "output"
  <2>1. OnTheWay \subseteq OnTheWay'
    <3> SUFFICES ASSUME NEW e \in OnTheWay PROVE e \in OnTheWay'
      OBVIOUS
    <3>1. PICK i \in Outputs : toClient[i].num = e
      BY <1>3
    <3>2. i # 1
      BY <1>9 DEF Outputs
    <3>3. PICK j \in Outputs' : toClient'[j] = toClient[i]
      BY <1>6, <3>2
    <3> QED
      BY <1>4, <3>1, <3>3
  <2>2. OnTheWay' = OnTheWay
    BY <1>7, <2>1
  <2> QED
    BY <1>8, <1>9, <2>2 DEF OutputInOrder
<1>10. CASE toClient[1].kind = "output"
  <2>1. 1 \in Outputs /\ toClient[1].num \in OnTheWay
    BY <1>1, <1>3, <1>10 DEF Outputs
  <2>2. OnTheWay \subseteq OnTheWay' \cup {toClient[1].num}
    BY <1>3, <1>4, <1>6
  <2>3. /\ \A e \in OnTheWay' : toClient[1].num < e
        /\ OnTheWay \subseteq Nat
    <3>1. \A i \in Outputs' : toClient[1].num < toClient'[i].num
      BY <1>5, <2>1 DEF OutputInOrder
    <3>2. ASSUME NEW e \in OnTheWay' PROVE toClient[1].num < e
      <4>1. PICK i \in Outputs' : toClient'[i].num = e
        BY <1>4
      <4> QED
        BY <3>1, <4>1
    <3>3. OnTheWay \subseteq Nat
      BY DEF OutputInOrder
    <3> QED
      BY <3>2, <3>3
  <2>4. toClient[1].num \notin OnTheWay'
    <3>1. toClient[1].num \in Nat
      BY <2>1, <2>3
    <3> QED
      BY <2>3, <3>1
  <2>5. OnTheWay' = OnTheWay \ {toClient[1].num}
    BY <1>7, <2>2, <2>4
  <2>6. \A n \in (1..printed) \ OnTheWay', m \in OnTheWay' : n < m
    BY <1>7, <2>3, <2>5 DEF OutputInOrder
  <2> QED
    BY <1>7, <1>8, <1>10, <2>1, <2>5, <2>6 DEF OutputInOrder
<1> QED
  BY <1>9, <1>10

\* Nothing is on the way to the client, or nothing but what is not output.
LEMMA NoOutput ==
  ASSUME \A i \in Wire' : toClient'[i].kind # "output"
  PROVE  OnTheWay' = {} /\ OutputInOrder'
<1>1. Outputs' = {} /\ OnTheWay' = {}
  BY DEF Outputs, OnTheWay, Wire
<1> QED
  BY <1>1 DEF OutputInOrder

\* Delve adds a message.
LEMMA OutputSent ==
  ASSUME TypeOK, OutputInOrder, NEW k \in Events, NEW n \in Nat,
         toClient' = Append(toClient, Event(k, n)),
         \/ k # "output" /\ printed' = printed
         \/ k = "output" /\ printed' = printed + 1 /\ n = printed'
  PROVE  /\ OutputInOrder'
         /\ OnTheWay' = IF k = "output" THEN OnTheWay \cup {n} ELSE OnTheWay
<1> DEFINE e == Event(k, n)
           last == Len(toClient) + 1
<1>1. toClient' = Append(toClient, e) /\ e.kind = k /\ e.num = n
  BY DEF Event
<1> HIDE DEF e
<1>2. /\ Len(toClient) \in Nat /\ Wire = 1..Len(toClient)
      /\ Wire' = Wire \cup {last} /\ last \notin Wire /\ toClient'[last] = e
      /\ \A i \in Wire : toClient'[i] = toClient[i] /\ i < last
  BY <1>1 DEF TypeOK, Wire
<1> HIDE DEF last
<1>3. /\ \A i, j \in Outputs : i < j => toClient[i].num < toClient[j].num
      /\ OnTheWay \subseteq 1..printed
      /\ \A x \in (1..printed) \ OnTheWay, y \in OnTheWay : x < y
      /\ printed \in Nat
  BY DEF OutputInOrder, TypeOK
<1>4. \A x : x \in OnTheWay <=> \E i \in Outputs : toClient[i].num = x
  BY DEF OnTheWay, Outputs, Wire
<1>5. \A x : x \in OnTheWay' <=> \E i \in Outputs' : toClient'[i].num = x
  BY DEF OnTheWay, Outputs, Wire
<1>6. CASE k # "output"
  <2>1. Outputs' = Outputs /\ \A i \in Outputs : toClient'[i] = toClient[i]
    BY <1>1, <1>2, <1>6 DEF Outputs
  <2>2. OnTheWay' = OnTheWay
    BY <1>4, <1>5, <2>1
  <2> QED
    BY <1>3, <1>6, <2>1, <2>2 DEF OutputInOrder
<1>7. CASE k = "output"
  <2>1. /\ Outputs' = Outputs \cup {last} /\ last \notin Outputs
        /\ \A i \in Outputs : toClient'[i] = toClient[i] /\ i < last
        /\ toClient'[last].num = n
    BY <1>1, <1>2, <1>7 DEF Outputs
  <2>2. OnTheWay' = OnTheWay \cup {n}
    <3>1. n \in OnTheWay'
      <4>1. last \in Outputs'
        BY <2>1
      <4> QED
        BY <1>5, <2>1, <4>1
    <3>3. ASSUME NEW x \in OnTheWay PROVE x \in OnTheWay'
      <4>1. PICK i \in Outputs : toClient[i].num = x
        BY <1>4
      <4>2. i \in Outputs' /\ toClient'[i].num = x
        BY <2>1, <4>1
      <4> QED
        BY <1>5, <4>2
    <3>2. OnTheWay' \subseteq OnTheWay \cup {n}
      BY <1>4, <1>5, <2>1
    <3> QED
      BY <3>1, <3>2, <3>3
  <2>3. n = printed + 1 /\ printed' = printed + 1
    BY <1>7
  <2>4. \A i \in Outputs : toClient[i].num < n
    <3> SUFFICES ASSUME NEW i \in Outputs PROVE toClient[i].num < n
      OBVIOUS
    <3>1. toClient[i].num \in 1..printed
      BY <1>3, <1>4
    <3> QED
      BY <1>3, <2>3, <3>1
  <2>5. \A i, j \in Outputs' : i < j => toClient'[i].num < toClient'[j].num
    <3> SUFFICES ASSUME NEW i \in Outputs', NEW j \in Outputs', i < j
                 PROVE  toClient'[i].num < toClient'[j].num
      OBVIOUS
    <3>1. i \in Outputs
      BY <1>2, <2>1 DEF Outputs
    <3> QED
      BY <1>3, <2>1, <2>4, <3>1
  <2>6. OnTheWay' \subseteq 1..printed'
    BY <1>3, <2>2, <2>3
  <2>7. \A x \in (1..printed') \ OnTheWay', y \in OnTheWay' : x < y
    <3>1. \A x \in (1..printed') \ OnTheWay' : x \in (1..printed) \ OnTheWay /\ x < n
      BY <1>3, <2>2, <2>3
    <3> QED
      BY <1>3, <2>2, <3>1
  <2> QED
    BY <1>7, <2>2, <2>5, <2>6, <2>7 DEF OutputInOrder
<1> QED
  BY <1>6, <1>7

\* Steps that neither send nor read output.
LEMMA OutputUnmoved ==
  ASSUME OutputInv, conn, UNCHANGED <<targetOutput, printed>>,
         OutputInOrder', OnTheWay' = OnTheWay
  PROVE  OutputInv'
<1>1. Read' = Read
  BY DEF Read, Kept
<1> QED
  BY <1>1 DEF OutputInv, Latest, Ascending, Shown

LEMMA WireUnmoved ==
  ASSUME OutputInOrder, UNCHANGED <<toClient, printed>>
  PROVE  OutputInOrder' /\ OnTheWay' = OnTheWay
BY DEF OutputInOrder, OnTheWay, Outputs, Wire

\* A response ends the session or leaves the output alone.
LEMMA AnswerMoves ==
  ASSUME NEW rest, NEW tornNext, Fail(rest, tornNext) \/ Proceed(rest)
  PROVE  \/ ~conn'
         \/ toClient' = rest /\ UNCHANGED <<conn, targetOutput, printed>>
<1>1. CASE Fail(rest, tornNext)
  BY <1>1 DEF Fail, Send, Return, FinishClose, sessionVars, delveVars
<1>2. CASE Proceed(rest)
  BY <1>2 DEF Proceed, Send, Return, WaitForStop, FinishClose, sessionVars, delveVars
<1> QED
  BY <1>1, <1>2

\* What Delve sends with a response is no output.
LEMMA ServesNoOutput ==
  ASSUME Known, DelveServes
  PROVE  /\ toClient = <<>> /\ UNCHANGED <<conn, targetOutput, printed>>
         /\ \A i \in Wire' : toClient'[i].kind # "output"
<1> USE DEF Known
<1> DEFINE r == Head(toDelve)
<1>1. PICK sent : /\ Serve(r, sent)
                  /\ \/ \E b \in BOOLEAN : sent = <<Answer(b)>>
                     \/ \E k \in Events \ {"output"}, n \in Nat :
                          sent = <<Event(k, n), Answer(TRUE)>> \/ sent = <<Answer(TRUE), Event(k, n)>>
  <2>1. /\ 0 \in Nat /\ targetThread \in Nat
        /\ {"stopped", "continued", "terminated"} \subseteq Events \ {"output"}
    BY DEF TypeOK, Events
  <2>2. \/ DelveInitialize(r) \/ DelveLoad(r) \/ DelveConfigured(r)
        \/ DelveResume(r) \/ DelveQuery(r) \/ DelveDisconnect(r)
    BY DEF DelveServes
  <2> QED
    BY <2>1, <2>2 DEF DelveInitialize, DelveLoad, DelveConfigured, DelveResume, DelveQuery,
                      DelveDisconnect, Answer
<1>2. toClient = <<>> /\ UNCHANGED <<conn, targetOutput, printed>>
  BY <1>1 DEF Serve, clientVars, PromptInv, OneAtATime
<1>3. ASSUME NEW b \in BOOLEAN, sent = <<Answer(b)>>
      PROVE  \A i \in Wire' : toClient'[i].kind # "output"
  BY <1>1, <1>3, Alone
<1>4. ASSUME NEW k \in Events \ {"output"}, NEW n \in Nat,
             sent = <<Event(k, n), Answer(TRUE)>> \/ sent = <<Answer(TRUE), Event(k, n)>>
      PROVE  \A i \in Wire' : toClient'[i].kind # "output"
  BY <1>1, <1>4, Pair
<1> QED
  BY <1>1, <1>2, <1>3, <1>4

\* An entry that is read is the latest of all that were.
LEMMA EntryRead ==
  ASSUME Known, OutputInv, ReadEvent
  PROVE  OutputInv'
<1> USE DEF Known
<1>1. conn /\ toClient # <<>> /\ 1 \in Wire /\ Head(toClient) = toClient[1] /\ conn'
  BY EventRead
<1>2. toClient' = Tail(toClient) /\ UNCHANGED printed
  BY DEF ReadEvent, Return, delveVars
<1>3. OutputInOrder /\ Latest(targetOutput, Read)
  BY <1>1 DEF OutputInv
<1>4. /\ OutputInOrder'
      /\ toClient[1].kind # "output" => OnTheWay' = OnTheWay
      /\ toClient[1].kind = "output" =>
              /\ toClient[1].num \in OnTheWay
              /\ OnTheWay' = OnTheWay \ {toClient[1].num}
  BY <1>1, <1>2, <1>3, OutputRead
<1>5. HandleEvent(toClient[1])
  BY <1>1 DEF ReadEvent
<1>6. CASE toClient[1].kind # "output"
  <2>1. targetOutput' = targetOutput
    BY <1>5, <1>6 DEF HandleEvent
  <2> QED
    BY <1>1, <1>2, <1>4, <1>6, <2>1, OutputUnmoved
<1>7. CASE toClient[1].kind = "output"
  <2> DEFINE n == toClient[1].num
  <2>1. /\ n \in OnTheWay /\ OnTheWay' = OnTheWay \ {n} /\ n \in 1..printed /\ n \in Nat
        /\ Kept' = Kept /\ Kept \subseteq 1..printed
    <3>1. n \in OnTheWay /\ OnTheWay' = OnTheWay \ {n}
      BY <1>4, <1>7
    <3>2. n \in 1..printed
      BY <1>3, <3>1 DEF OutputInOrder
    <3>3. Kept' = Kept /\ Kept \subseteq 1..printed
      BY <1>2 DEF Kept
    <3> QED
      BY <3>1, <3>2, <3>3
  <2>2. targetOutput' = IF n \in Console THEN targetOutput
                        ELSE LastEntries(Append(targetOutput, n))
    BY <1>5, <1>7 DEF HandleEvent
  <2> HIDE DEF n
  <2>3. CASE n \in Console
    <3>1. n \notin Kept
      BY <2>3 DEF Kept
    <3>2. Read' = Read
      BY <2>1, <3>1 DEF Read
    <3>3. Latest(targetOutput, Read)'
      BY <1>3, <2>2, <2>3, <3>2 DEF Latest, Ascending, Shown
    <3> QED
      BY <1>4, <3>3 DEF OutputInv
  <2>4. CASE n \notin Console
    <3>1. n \in Kept
      BY <2>1, <2>4 DEF Kept
    <3>2. Read' = Read \cup {n}
      BY <2>1, <3>1 DEF Read
    <3>3. Read \subseteq Nat /\ \A e \in Read : e < n
      BY <1>3, <2>1 DEF Read, OutputInOrder
    <3>4. targetOutput \in Seq(Nat)
      BY DEF TypeOK
    <3>5. Latest(LastEntries(Append(targetOutput, n)), Read \cup {n})
      BY <1>3, <2>1, <3>3, <3>4, LatestAdded
    <3>6. Latest(targetOutput, Read)'
      BY <2>2, <2>4, <3>2, <3>5 DEF Latest, Ascending, Shown
    <3> QED
      BY <1>4, <3>6 DEF OutputInv
  <2> QED
    BY <2>3, <2>4
<1> QED
  BY <1>6, <1>7

LEMMA OutputKept ==
  ASSUME Timeouts = FALSE, Crashes = FALSE, Known, OutputInv, [Next]_vars
  PROVE  OutputInv'
<1> USE DEF Known
<1>1. ASSUME NEW m \in Modes, Open(m) PROVE OutputInv'
  <2>1. toClient' = <<>> /\ targetOutput' = <<>> /\ printed' = 0
    BY <1>1 DEF Open, SessionInv, ClosedIsClean
  <2>2. \A i \in Wire' : toClient'[i].kind # "output"
    BY <2>1 DEF Wire
  <2>3. OutputInOrder' /\ Kept' = {} /\ Read' = {}
    BY <2>1, <2>2, NoOutput DEF Kept, Read
  <2>4. DOMAIN targetOutput' = {} /\ Len(targetOutput') = 0
    BY <2>1
  <2>5. Shown(targetOutput)' = {} /\ Ascending(targetOutput)'
    BY <2>4 DEF Shown, Ascending
  <2>6. Latest(targetOutput, Read)'
    BY <2>3, <2>4, <2>5, BoundsAssumption DEF Latest
  <2> QED
    BY <2>3, <2>6 DEF OutputInv
<1>2. CASE UNCHANGED <<conn, toClient, targetOutput, printed>>
  BY <1>2, WireUnmoved, OutputUnmoved DEF OutputInv
<1>3. CASE OpenFails \/ (\E c \in Actions : ThreadAction(c)) \/ (\E q \in Queries : Query(q)) \/ Close
  <2>1. UNCHANGED <<conn, toClient, targetOutput, printed>>
    BY <1>3 DEF OpenFails, ThreadAction, Query, Close, Send, sessionVars, delveVars
  <2> QED
    BY <1>2, <2>1
<1>4. CASE TakeResponse \/ SkipResponse
  <2>1. toClient # <<>> /\ Head(toClient).kind = "response" /\ conn
    BY <1>4 DEF TakeResponse, SkipResponse, Readable, SessionInv
  <2>2. toClient[1].kind # "output"
    BY <2>1, HeadRead
  <2>3. \/ ~conn'
        \/ toClient' = Tail(toClient) /\ UNCHANGED <<conn, targetOutput, printed>>
    BY <1>4, AnswerMoves DEF TakeResponse, SkipResponse, clientVars, delveVars
  <2>4. CASE toClient' = Tail(toClient) /\ UNCHANGED <<conn, targetOutput, printed>>
    BY <2>1, <2>2, <2>4, OutputRead, OutputUnmoved DEF OutputInv
  <2> QED
    BY <2>3, <2>4 DEF OutputInv
<1>5. CASE ReadClosed \/ ReadTorn
  <2>1. Fail(toClient, torn)
    BY <1>5 DEF ReadClosed, ReadTorn, PromptInv
  <2>2. \/ ~conn'
        \/ toClient' = toClient /\ UNCHANGED <<conn, targetOutput, printed>>
    BY <2>1, AnswerMoves
  <2> QED
    BY <1>2, <2>2 DEF OutputInv
<1>6. CASE DelveServes
  <2>1. /\ toClient = <<>> /\ UNCHANGED <<conn, targetOutput, printed>>
        /\ \A i \in Wire' : toClient'[i].kind # "output"
    BY <1>6, ServesNoOutput
  <2>2. OnTheWay = {}
    BY <2>1, NothingThere DEF OnTheWay, Wire
  <2>3. OutputInOrder' /\ OnTheWay' = {}
    BY <2>1, NoOutput
  <2> QED
    BY <2>1, <2>2, <2>3, OutputUnmoved DEF OutputInv
<1>7. ASSUME NEW k \in Events, NEW n \in Nat, k # "output", Emit(k, n), printed' = printed
      PROVE  OutputInv'
  <2>1. toClient' = Append(toClient, Event(k, n)) /\ conn /\ UNCHANGED <<conn, targetOutput>>
    BY <1>7 DEF Emit, clientVars, SessionInv
  <2>2. OutputInOrder
    BY <2>1 DEF OutputInv
  <2>3. OutputInOrder' /\ OnTheWay' = OnTheWay
    BY <1>7, <2>1, <2>2, OutputSent
  <2> QED
    BY <1>7, <2>1, <2>3, OutputUnmoved
<1>8. CASE DelvePrint
  <2> DEFINE n == printed + 1
  <2>1. /\ toClient' = Append(toClient, Event("output", n)) /\ conn
        /\ printed' = n /\ UNCHANGED <<conn, targetOutput>>
    BY <1>8 DEF DelvePrint, Emit, clientVars, SessionInv
  <2>2. OutputInOrder /\ n \in Nat /\ "output" \in Events
    BY <2>1 DEF OutputInv, TypeOK, Events
  <2>3. OutputInOrder' /\ OnTheWay' = OnTheWay \cup {n}
    BY <2>1, <2>2, OutputSent
  <2>4. Read' = Read
    <3>1. 1..printed' = (1..printed) \cup {n} /\ n \notin 1..printed
      BY <2>1 DEF TypeOK
    <3>2. Kept' \ {n} = Kept /\ n \notin Kept
      BY <3>1 DEF Kept
    <3> QED
      BY <2>3, <3>2 DEF Read
  <2>5. Latest(targetOutput, Read)'
    BY <2>1, <2>4 DEF OutputInv, Latest, Ascending, Shown
  <2> QED
    BY <2>3, <2>5 DEF OutputInv
<1>9. ASSUME NEW t \in Threads, DelveStop(t) PROVE OutputInv'
  <2>1. t \in Nat /\ "stopped" \in Events
    BY ThreadsAssumption DEF Events
  <2> QED
    BY <1>7, <1>9, <2>1 DEF DelveStop
<1>10. CASE DelveExit
  <2>1. 0 \in Nat /\ "terminated" \in Events
    BY DEF Events
  <2> QED
    BY <1>7, <1>10, <2>1 DEF DelveExit
<1>11. CASE UNCHANGED vars
  BY <1>2, <1>11 DEF vars, clientVars, delveVars
<1>12. ~DelveCrash /\ ~Timeout /\ ~WaitEnds
  BY DEF DelveCrash, Timeout, WaitEnds, PromptInv, CallMatches
<1> QED
  BY <1>1, <1>3, <1>4, <1>5, <1>6, <1>8, <1>9, <1>10, <1>11, <1>12, EntryRead
     DEF Next, CallStarts, ClientStep, TargetHalts

\* Without deadlines and crashes: no entry of the debuggee's output is lost on the way or
\* shown out of order; a full list gives up the oldest.
THEOREM CompleteOutput ==
  ASSUME Timeouts = FALSE, Crashes = FALSE
  PROVE  Spec => []OutputIsComplete
<1>1. Init => OutputInv
  BY DEF Init, OutputInv
<1>2. TypeOK /\ SessionInv /\ PromptInv /\ OutputInv /\ [Next]_vars => OutputInv'
  BY OutputKept DEF Known
<1>3. OutputInv => OutputIsComplete
  BY DEF OutputInv, OutputIsComplete, Latest, Ascending, Shown
<1> QED
  BY <1>1, <1>2, <1>3, Typing, SessionInvariant, PromptInvariant, PTL DEF Spec
=============================================================================
