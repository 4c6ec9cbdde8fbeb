------------------------------- MODULE Startup -------------------------------
(***************************************************************************)
(* From starting dlv to the exit of the program (cmd/dlvpp/session_run.go, *)
(* with dialRetry, start and openSession of the DAP client): the launch    *)
(* beside the goroutine that scans the sources for breakpoint comments,    *)
(* the breakpoints that are set, the session, and the close that every     *)
(* path ends in.                                                           *)
(*                                                                         *)
(* Two things stop a startup: the signal context, which Ctrl-C cancels,    *)
(* and the 60 seconds of the start context derived from it.  A dial sees   *)
(* both; a read on the connection only has the deadline.                   *)
(*                                                                         *)
(* The calls on the client are those of BreakpointTable and, as single     *)
(* steps, those of DapClient.  The command loop is reduced to creating     *)
(* breakpoints and ending.                                                 *)
(***************************************************************************)
EXTENDS BreakpointTable

CONSTANTS Marked,    \* the locations that marker comments may name
          Bootstrap, \* the location of the default breakpoint
          Sites,     \* the source lines Delve may report for a breakpoint
          NoSite,    \* what it reports when it gives no file or no line
          Site       \* what it reports for a line or function of a group

ASSUME MarkedAssumption == Marked \subseteq {l \in Locations : l.group \in Files}
ASSUME BootstrapAssumption == Bootstrap \in {l \in Locations : l.group = Functions}

ASSUME NoSiteAssumption == NoSite \notin Sites
ASSUME SiteAssumption == Site \in [Groups \X Lines -> Sites \cup {NoSite}]

VARIABLES
  kind,       \* launch | attach
  pc,         \* start | dial | open | select | create | bootstrap | continue
              \* | loop | wait | closing | done
  dlv,        \* the process: none | starting | serving | dead; ousted: another
              \* program listens on the port that dlv was given; held: killed, but
              \* a debuggee it left behind has its output open
  signalled,  \* the signal context is cancelled
  late,       \* the 60 seconds are over
  startErr,   \* the error of the start context: none | canceled | deadline
  err,        \* the error returned: none | canceled | deadline | other
  code,       \* the exit code
  scan,       \* the scanning goroutine: begin | list | files | send | done
  found,      \* its result: an error kind, or the locations it found
  discovery,  \* the channel of capacity one
  todo,       \* discovered locations that are not created yet
  marks,      \* viewState.breakpoints
  early,      \* history: the signal came before the session began
  ctrlC       \* history: Ctrl-C was read as a key

scanVars == <<scan, found, discovery>>
tableVars == <<connected, tracked, installed, lastId, result, cleared>>
clockVars == <<signalled, late, startErr, early>>
mainVars == <<pc, dlv, err, code, todo, marks, ctrlC>>
startVars == <<kind, mainVars, clockVars, scanVars, tableVars>>

Errors == {"canceled", "deadline", "other"}
Result(e, specs) == [err |-> e, specs |-> specs]
Results == [err : Errors \cup {"none"}, specs : SUBSET Marked]

Marks == [id : Nat, at : Sites]

InSession == pc \in {"loop", "wait"}

StartTypeOK ==
  /\ TypeOK
  /\ kind \in {"launch", "attach"}
  /\ pc \in {"start", "dial", "open", "select", "create", "bootstrap", "continue",
             "loop", "wait", "closing", "done"}
  /\ dlv \in {"none", "starting", "serving", "dead", "ousted", "held"}
  /\ signalled \in BOOLEAN /\ late \in BOOLEAN
  /\ startErr \in {"none", "canceled", "deadline"}
  /\ err \in Errors \cup {"none"}
  /\ code \in {0, 1, 130}
  /\ scan \in {"begin", "list", "files", "send", "done"}
  /\ found \in Results
  /\ discovery \in Seq(Results) /\ Len(discovery) <= 1
  /\ todo \subseteq Marked
  /\ marks \subseteq Marks
  /\ early \in BOOLEAN /\ ctrlC \in BOOLEAN

StartInit ==
  /\ connected = FALSE
  /\ tracked = Empty /\ installed = NothingInstalled /\ lastId = 0
  /\ result \in [call : {"none"}, group : {Functions}, ok : {TRUE}, id : {0}]
  /\ cleared = FALSE
  /\ kind \in {"launch", "attach"}
  /\ pc = "start" /\ dlv = "none"
  /\ signalled = FALSE /\ late = FALSE /\ startErr = "none"
  /\ err = "none" /\ code = 0
  /\ scan = (IF kind = "launch" THEN "begin" ELSE "done")
  /\ found = Result("none", {}) /\ discovery = <<>>
  /\ todo = {} /\ marks = {}
  /\ early = FALSE /\ ctrlC = FALSE

-----------------------------------------------------------------------------
(* The user, the clock and the processes.                                  *)

Signal == /\ ~signalled /\ pc # "done"
          /\ signalled' = TRUE
          /\ startErr' = IF startErr = "none" THEN "canceled" ELSE startErr
          /\ early' = (pc \notin {"loop", "wait", "closing"})
          /\ UNCHANGED <<kind, mainVars, late, scanVars, tableVars>>

Deadline == /\ ~late /\ pc # "done"
            /\ late' = TRUE
            /\ startErr' = IF startErr = "none" THEN "deadline" ELSE startErr
            /\ UNCHANGED <<kind, mainVars, signalled, early, scanVars, tableVars>>

DlvListens == /\ dlv = "starting" /\ dlv' = "serving"
              /\ UNCHANGED <<kind, pc, err, code, todo, marks, ctrlC, clockVars,
                             scanVars, tableVars>>

DlvFails == /\ dlv = "starting" /\ dlv' = "dead"
            /\ UNCHANGED <<kind, pc, err, code, todo, marks, ctrlC, clockVars,
                           scanVars, tableVars>>

\* The port was reserved and released again: until dlv binds it, or when dlv could
\* not, any other program may.
PortTaken == /\ dlv \in {"starting", "dead"} /\ dlv' = "ousted"
             /\ UNCHANGED <<kind, pc, err, code, todo, marks, ctrlC, clockVars,
                            scanVars, tableVars>>

-----------------------------------------------------------------------------
(* The scanning goroutine.                                                 *)

Scanning == UNCHANGED <<kind, mainVars, clockVars, tableVars>>

Found(r) == found' = r /\ scan' = "send" /\ UNCHANGED discovery

\* exec.CommandContext does not start `go list` under a context that has ended,
\* and kills it when the context ends later.
ScanList ==
  /\ \/ /\ scan = "begin"
        /\ IF startErr # "none" THEN Found(Result(startErr, {}))
           ELSE scan' = "list" /\ UNCHANGED <<found, discovery>>
     \/ /\ scan = "list"
        /\ \/ Found(Result("other", {}))
           \/ scan' = "files" /\ UNCHANGED <<found, discovery>>
  /\ Scanning

\* The files are read under no context; one that cannot be read is an error.
ScanFiles == /\ scan = "files"
             /\ \/ Found(Result("other", {}))
                \/ \E specs \in SUBSET Marked : Found(Result("none", specs))
             /\ Scanning

ScanSend == /\ scan = "send"
            /\ Len(discovery) < 1
            /\ discovery' = Append(discovery, found)
            /\ scan' = "done"
            /\ UNCHANGED found
            /\ Scanning

-----------------------------------------------------------------------------
(* start and openSession.                                                  *)

FailWith(e) == err' = e /\ pc' = "closing"

\* dlv is not on the PATH, no port is free, or the target cannot be resolved.
Start == /\ pc = "start"
         /\ \/ FailWith("other") /\ UNCHANGED dlv
            \/ pc' = "dial" /\ dlv' = "starting" /\ UNCHANGED err
         /\ UNCHANGED <<kind, code, todo, marks, ctrlC, clockVars, scanVars, tableVars>>

\* The dial takes whoever listens for dlv.
Dialled == /\ pc = "dial" /\ dlv \in {"serving", "ousted"} /\ startErr = "none"
           /\ pc' = "open"
           /\ Reopen
           /\ UNCHANGED <<kind, dlv, err, code, todo, marks, ctrlC, clockVars, scanVars>>

\* Mutant: the process is left to the close, which does not know it yet.
DialFailsOnly == /\ pc = "dial" /\ startErr # "none"
                 /\ FailWith(startErr)
                 /\ UNCHANGED <<kind, dlv, code, todo, marks, ctrlC, clockVars, scanVars,
                                tableVars>>

\* Mutant: the dial is repeated without regard to the deadline.
DialCancelled == /\ pc = "dial" /\ startErr = "canceled"
                 /\ FailWith(startErr)
                 /\ dlv' = "none"
                 /\ UNCHANGED <<kind, code, todo, marks, ctrlC, clockVars, scanVars,
                                tableVars>>

\* dialRetry gives up; start kills the process and waits for it.
DialFails == /\ pc = "dial" /\ startErr # "none"
             /\ FailWith(startErr)
             /\ dlv' = "none"
             /\ UNCHANGED <<kind, code, todo, marks, ctrlC, clockVars, scanVars, tableVars>>

\* The client was closed, and dlv with it.
ClosedTable == /\ connected' = FALSE
               /\ tracked' = Empty /\ installed' = NothingInstalled /\ lastId' = 0
               /\ Outcome("close", Functions, TRUE, 0)
               /\ cleared' = FALSE

\* What is left of dlv when Close has killed it.  A disconnect request that failed
\* leaves a launched debuggee behind, and cmd.Wait waits until that one's output ends.
Killed == IF kind = "launch" /\ dlv = "serving" THEN {"none", "held"} ELSE {"none"}

\* A request is refused, dlv dies, the listener is not dlv, or the deadline strikes:
\* openSession closes.
OpenFails == /\ pc = "open"
             /\ FailWith("other")
             /\ dlv' \in Killed
             /\ ClosedTable
             /\ UNCHANGED <<kind, code, todo, marks, ctrlC, clockVars, scanVars>>

\* Only dlv answers all requests of the opening.
Opened == /\ pc = "open" /\ ~late /\ dlv = "serving"
          /\ pc' = IF kind = "launch" THEN "select" ELSE "loop"
          /\ UNCHANGED <<kind, dlv, err, code, todo, marks, ctrlC, clockVars, scanVars,
                         tableVars>>

-----------------------------------------------------------------------------
(* The rest of startLaunchWithAutoBreakpoints.                             *)

TakeScan ==
  /\ pc = "select" /\ discovery # <<>>
  /\ discovery' = Tail(discovery)
  /\ LET r == Head(discovery) IN
       \/ /\ r.err # "none"
          /\ FailWith(r.err) /\ UNCHANGED todo
       \/ /\ r.err = "none"
          /\ pc' = "create" /\ todo' = r.specs /\ UNCHANGED err
  /\ UNCHANGED <<kind, dlv, code, marks, ctrlC, clockVars, scan, found, tableVars>>

\* The select may take this case although the scan has answered as well.
SelectDone == /\ pc = "select" /\ startErr # "none"
              /\ FailWith(startErr)
              /\ UNCHANGED <<kind, dlv, code, todo, marks, ctrlC, clockVars, scanVars,
                             tableVars>>

SiteOf(group, spot) == Site[group, spot[1]]

\* breakpointRecordFromBackend: the id and Delve's place of a breakpoint; none if
\* Delve gave no place.
MarkOf(l, id) == {m \in {[id |-> id, at |-> SiteOf(l.group, l.spot)]} : m.at # NoSite}

\* A breakpoint that cannot be created is skipped.
CreateDiscovered ==
  /\ pc = "create" /\ todo # {}
  /\ \E l \in todo :
       /\ Create(l, late)
       /\ todo' = todo \ {l}
       /\ marks' = IF result'.ok THEN marks \cup MarkOf(l, result'.id) ELSE marks
  /\ UNCHANGED <<kind, pc, dlv, err, code, ctrlC, clockVars, scanVars>>

AllDiscovered == /\ pc = "create" /\ todo = {}
                 /\ pc' = "bootstrap"
                 /\ UNCHANGED <<kind, dlv, err, code, todo, marks, ctrlC, clockVars,
                                scanVars, tableVars>>

CreateBootstrap ==
  /\ pc = "bootstrap"
  /\ Create(Bootstrap, late)
  /\ IF result'.ok
     THEN /\ pc' = "continue" /\ UNCHANGED err
          /\ marks' = marks \cup MarkOf(Bootstrap, result'.id)
     ELSE FailWith("other") /\ UNCHANGED marks
  /\ UNCHANGED <<kind, dlv, code, todo, ctrlC, clockVars, scanVars>>

ContinueFails == /\ pc = "continue"
                 /\ FailWith("other")
                 /\ UNCHANGED <<kind, dlv, code, todo, marks, ctrlC, clockVars, scanVars,
                                tableVars>>

\* The debuggee stops, or exits; the interrupt is not noticed while it runs.
Continued == /\ pc = "continue" /\ ~late
             /\ pc' = "loop"
             /\ UNCHANGED <<kind, dlv, err, code, todo, marks, ctrlC, clockVars, scanVars,
                            tableVars>>

-----------------------------------------------------------------------------
(* The session and its end.                                                *)

NextBegins == /\ pc = "loop"
              /\ IF signalled THEN FailWith("canceled")
                              ELSE pc' = "wait" /\ UNCHANGED err
              /\ UNCHANGED <<kind, dlv, code, todo, marks, ctrlC, clockVars, scanVars,
                             tableVars>>

NextCancelled == /\ pc = "wait" /\ signalled
                 /\ FailWith("canceled")
                 /\ UNCHANGED <<kind, dlv, code, todo, marks, ctrlC, clockVars, scanVars,
                                tableVars>>

\* breakpointRecordsFromBackend, of the client's list.
MarksOf(table) ==
  UNION {UNION {MarkOf(table[g][i].loc, table[g][i].id) : i \in 1..Len(table[g])} :
           g \in Groups}

\* Mutant: the marks are not fetched again.
KeptMarks == marks

\* refreshBreakpointState
RefreshedMarks == MarksOf(tracked')

\* ":b" under a deadline of its own; after an interrupt no command is begun.
BreakCommand ==
  /\ pc = "wait"
  /\ \/ /\ signalled
        /\ FailWith("canceled")
        /\ UNCHANGED <<marks, tableVars>>
     \/ /\ ~signalled
        /\ \E l \in Locations, slow \in {FALSE, Losses} : Create(l, slow)
        /\ marks' = IF result'.ok THEN RefreshedMarks ELSE marks
        /\ pc' = "loop"
        /\ UNCHANGED err
  /\ UNCHANGED <<kind, dlv, code, todo, ctrlC, clockVars, scanVars>>

\* "q" or the end of the lines; a failing input; Ctrl-C read as a key.
LoopEnds ==
  /\ pc = "wait" /\ pc' = "closing"
  /\ \/ err' = "none" /\ UNCHANGED ctrlC
     \/ err' = "other" /\ UNCHANGED ctrlC
     \/ err' = "canceled" /\ ctrlC' = TRUE
  /\ UNCHANGED <<kind, dlv, code, todo, marks, clockVars, scanVars, tableVars>>

\* Mutant: the deadline counts as an interrupt.
ExitCodeFor(e, closeFails) == IF e \in {"canceled", "deadline"} THEN 130
                              ELSE IF e = "none" /\ ~closeFails THEN 0
                              ELSE 1

\* Mutant: the error of the close counts on top of the first one.
ExitCodeAdded(e, closeFails) == (IF e = "canceled" THEN 130 ELSE IF e = "none" THEN 0 ELSE 1)
                                + (IF closeFails THEN 1 ELSE 0)

\* The deferred close joins its error; only a cancellation has a code of its own.
ExitCode(e, closeFails) == IF e = "canceled" THEN 130
                           ELSE IF e = "none" /\ ~closeFails THEN 0
                           ELSE 1

CloseSession ==
  /\ pc = "closing" /\ dlv # "held"
  /\ pc' = "done"
  /\ \/ /\ connected
        /\ dlv' = "none"
        /\ ClosedTable
        /\ \E closeFails \in BOOLEAN : code' = ExitCode(err, closeFails)
     \/ /\ ~connected
        /\ code' = ExitCode(err, FALSE)
        /\ UNCHANGED <<dlv, tableVars>>
  /\ UNCHANGED <<kind, err, todo, marks, ctrlC, clockVars, scanVars>>

\* The same close, whose wait for dlv lasts.
CloseWaits ==
  /\ pc = "closing" /\ connected
  /\ dlv' = "held" /\ dlv' \in Killed
  /\ ClosedTable
  /\ err' \in IF err = "none" THEN {"none", "other"} ELSE {err}
  /\ UNCHANGED <<kind, pc, code, todo, marks, ctrlC, clockVars, scanVars>>

\* The debuggee that was left behind ends, or closes its output.
OutputEnds == /\ dlv = "held" /\ dlv' = "none"
              /\ UNCHANGED <<kind, pc, err, code, todo, marks, ctrlC, clockVars,
                             scanVars, tableVars>>

-----------------------------------------------------------------------------
ScanStep == ScanList \/ ScanFiles \/ ScanSend

\* What returns by itself, and what the deadline or the signal makes return.
MainStep == \/ Start \/ DialFails \/ TakeScan \/ SelectDone
            \/ late /\ (OpenFails \/ ContinueFails)
            \/ late /\ (CreateDiscovered \/ CreateBootstrap)
            \/ AllDiscovered
            \/ NextBegins \/ NextCancelled \/ CloseSession

\* What takes an answer of Delve or an item of the user.
Answer == \/ Dialled \/ Opened \/ OpenFails
          \/ CreateDiscovered \/ CreateBootstrap
          \/ Continued \/ ContinueFails
          \/ BreakCommand \/ LoopEnds \/ CloseWaits

StartNext == \/ Signal \/ Deadline
             \/ DlvListens \/ DlvFails \/ PortTaken \/ OutputEnds
             \/ ScanStep
             \/ MainStep
             \/ Answer

\* The program and its timers run.  Nothing is assumed of dlv, of the debuggee, of
\* `go list`, of the disk and of the user.
StartFairness == WF_startVars(MainStep) /\ WF_startVars(Deadline)

StartSpec == StartInit /\ [][StartNext]_startVars /\ StartFairness

-----------------------------------------------------------------------------
(* Properties.                                                             *)

\* However the program ends, before the dial, in the middle of opening, connected to
\* another program, or in the session, dlv is gone and the connection is closed.
NothingLeftRunning == pc = "done" => dlv = "none" /\ ~connected

\* An interrupt before the session never ends in success, although neither the
\* handshake nor the breakpoints nor the first continue look at it; and the code
\* of an interrupt is given for nothing else.
ExitCodeTells ==
  pc = "done" => /\ early => code # 0
                 /\ code = 130 => signalled \/ ctrlC

At(some) == {m.at : m \in some}

\* The lines marked in the view are those of the client's breakpoints, and Delve has a
\* breakpoint there, though some were skipped, refused or left by an answer that came
\* too late; and a launched session never begins without its default breakpoint.
MarksAreBreakpoints ==
  InSession => /\ At(marks) = At(MarksOf(tracked))
               /\ \A m \in marks : \E g \in Groups : \E b \in installed[g] :
                    m.at = SiteOf(g, b.spot)
               /\ kind = "launch" => Bootstrap.spot \in InstalledIn(Functions)

\* A startup ends, in a session or in the exit, whatever dlv and the source scan do;
\* and an interrupt ends the program, at the latest with the deadline.  Only a
\* debuggee that the close has left behind can keep the program from its exit.
StartupEnds == /\ pc = "start" ~> InSession \/ pc = "done" \/ dlv = "held"
               /\ signalled ~> pc = "done" \/ dlv = "held"
=============================================================================
