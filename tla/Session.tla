------------------------------- MODULE Session -------------------------------
(***************************************************************************)
(* What a caller may rely on when it drives one debuggee through the       *)
(* client, one call after another (the interface Backend of                *)
(* internal/backend/backend.go).  There are no messages here: a call acts  *)
(* on the debuggee, which halts by itself, and returns what became of it.  *)
(*                                                                         *)
(* An opened session has its debuggee held; a resume that succeeds was     *)
(* carried out once, and returns a halt that came after it; questions are  *)
(* answered about a held debuggee only; a session that ends leaves no      *)
(* debuggee behind that it should have killed or let go.                   *)
(***************************************************************************)
EXTENDS Naturals

CONSTANT Threads   \* thread ids of the debuggee

VARIABLES open,     \* a session is open
          mode,     \* how it was opened: launch | attach
          call,     \* the call under way; a resume turns into "resumed"
          target,   \* the debuggee
          thread,   \* the thread it stopped on
          said,     \* what the client answers about it between calls
          ret       \* how the last call ended: none | ok | error

vars == <<open, mode, call, target, thread, said, ret>>

Says(kind, t) == [kind |-> kind, thread |-> t]
Nothing == Says("nil", 0)
TheTruth == Says(target, IF target = "stopped" THEN thread ELSE 0)

Init == /\ open = FALSE /\ mode = "launch"
        /\ call = "idle" /\ ret = "none"
        /\ target = "none" /\ thread = 0
        /\ said = Nothing

-----------------------------------------------------------------------------
(* Calls start and return.                                                 *)

Open(m) == /\ call = "idle" /\ ~open
           /\ open' = TRUE /\ mode' = m /\ call' = "open"
           /\ target' = "none" /\ thread' = 0
           /\ UNCHANGED <<said, ret>>

OpenFails == /\ call = "idle"
             /\ ret' = "error"
             /\ UNCHANGED <<open, mode, call, target, thread, said>>

\* A resume takes back what was said before; a question does not.
Begin(c) == /\ call = "idle" /\ open
            /\ call' = c
            /\ said' = IF c = "query" THEN said ELSE Nothing
            /\ UNCHANGED <<open, mode, target, thread, ret>>

Return(r) == /\ call' = "idle" /\ ret' = r
             /\ UNCHANGED <<open, mode, target, thread>>

Opened == /\ call = "open" /\ target = "stopped"
          /\ Return("ok")
          /\ said' = TheTruth

Resumed == /\ call = "resumed" /\ target \in {"stopped", "exited"}
           /\ Return("ok")
           /\ said' = TheTruth

\* The debuggee was not resumed, and the client says that it runs.
Refused == /\ call = "action"
           /\ Return("error")
           /\ said' = Says("running", 0)

Answered == /\ call = "query"
            /\ \/ target = "stopped" /\ Return("ok")
               \/ Return("error")
            /\ UNCHANGED said

\* A session that could not be opened is closed, and the error returned then.
GiveUp == /\ call = "open"
          /\ call' = "unwind"
          /\ UNCHANGED <<open, mode, target, thread, said, ret>>

End == /\ call \in {"close", "unwind"}
       /\ target \notin {"stopped", "running"}
       /\ open' = FALSE /\ call' = "idle" /\ said' = Nothing
       /\ ret' \in IF call = "unwind" THEN {"error"} ELSE {"ok", "error"}
       /\ UNCHANGED <<mode, target, thread>>

-----------------------------------------------------------------------------
(* The debuggee.                                                           *)

Becomes(t) == target' = t /\ UNCHANGED <<open, mode, said, ret>>

Load(t) == /\ call = "open" /\ target = "none"
           /\ Becomes("stopped") /\ thread' = t
           /\ UNCHANGED call

\* A debuggee that is over stays over.
Resume == /\ call = "action" /\ target \in {"stopped", "exited"}
          /\ Becomes(IF target = "stopped" THEN "running" ELSE target)
          /\ call' = "resumed"
          /\ UNCHANGED thread

Stop(t) == /\ target = "running"
           /\ Becomes("stopped") /\ thread' = t
           /\ UNCHANGED call

Exit == /\ target = "running"
        /\ Becomes("exited")
        /\ UNCHANGED <<call, thread>>

Dispose == /\ call \in {"close", "unwind"} /\ target = "stopped"
           /\ Becomes(IF mode = "launch" THEN "killed" ELSE "detached")
           /\ UNCHANGED <<call, thread>>

-----------------------------------------------------------------------------
Next == \/ \E m \in {"launch", "attach"} : Open(m)
        \/ OpenFails
        \/ \E c \in {"action", "query", "close"} : Begin(c)
        \/ Opened \/ Resumed \/ Refused \/ Answered \/ GiveUp \/ End
        \/ \E t \in Threads : Load(t) \/ Stop(t)
        \/ Resume \/ Exit \/ Dispose

Spec == Init /\ [][Next]_vars
=============================================================================
