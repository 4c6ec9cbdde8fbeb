----------------------------- MODULE SessionView -----------------------------
(***************************************************************************)
(* The commands of an interactive session (cmd/dlvpp/loop.go, screens.go), *)
(* the view state they change (view.go), and the snapshots of the session  *)
(* controller (internal/session/controller.go) they work on.               *)
(*                                                                         *)
(* The debuggee is seen through the DAP client.  A stop is known by its    *)
(* number.  A resume that outlives its deadline leaves the debuggee        *)
(* running and the view as it was; when the debuggee halts later, the      *)
(* event stays unread until the next request.                              *)
(*                                                                         *)
(* A command is a sequence of words.  The first may be ":"; what follows   *)
(* the command word is its argument, for :e the path of a variable.        *)
(***************************************************************************)
EXTENDS Naturals, Sequences

CONSTANTS Views,     \* the views a session may have: TRUE sticky, FALSE plain
          Trees,     \* the variables a stop may show: sets of paths
          Commands,  \* the commands that line mode may read
          MaxStops,  \* bound on the stops of the debuggee
          Timeouts   \* whether a resume may outlive its deadline

ASSUME ViewsAssumption == Views \subseteq BOOLEAN
ASSUME MaxStopsAssumption == MaxStops \in Nat \ {0}
ASSUME TimeoutsAssumption == Timeouts \in BOOLEAN

Parent(p) == SubSeq(p, 1, Len(p) - 1)
Prefixes(p) == {SubSeq(p, 1, i) : i \in 1..Len(p)}

ASSUME TreesAssumption ==
  \A t \in Trees : \A p \in t : p \in Seq(STRING) /\ p # <<>> /\ Prefixes(p) \subseteq t

VARIABLES
  debuggee,   \* held | running | exited
  stop,       \* the number of its latest stop
  tree,       \* the variables at that stop
  unread,     \* its latest halt is not known to the client
  late,       \* history: a resume has outlived its deadline

  sticky,     \* viewState.sticky
  snapshot,   \* viewState.currentSnapshot
  body,       \* inspection: none | locals | eval | output | help | breakpoints
  bodyStop,   \* history: the stop whose variables the inspection shows
  rendered,   \* the paths it shows expanded
  expanded,   \* viewState.expandedLocals
  named,      \* history: the path the last command expanded, or <<>>

  cancelled,  \* the context of the session was cancelled
  done        \* the command loop: no | quit | eof | canceled

debuggeeVars == <<debuggee, stop, tree, unread, late>>
inspectionVars == <<body, bodyStop, rendered, expanded>>
vars == <<debuggeeVars, sticky, snapshot, inspectionVars, named, cancelled, done>>

TypeOK ==
  /\ debuggee \in {"held", "running", "exited"}
  /\ stop \in 1..MaxStops
  /\ tree \in Trees
  /\ unread \in BOOLEAN
  /\ late \in BOOLEAN
  /\ sticky \in Views
  /\ snapshot \in [exited : BOOLEAN, frame : BOOLEAN, stop : 1..MaxStops]
  /\ body \in {"none", "locals", "eval", "output", "help", "breakpoints"}
  /\ bodyStop \in 1..MaxStops
  /\ rendered \subseteq UNION Trees
  /\ expanded \subseteq UNION Trees
  /\ named \in (UNION Trees) \cup {<<>>}
  /\ cancelled \in BOOLEAN
  /\ done \in {"no", "quit", "eof", "canceled"}

StoppedAt(n, f) == [exited |-> FALSE, frame |-> f, stop |-> n]
ExitedAfter(n) == [exited |-> TRUE, frame |-> FALSE, stop |-> n]

\* The session starts with the snapshot of its first stop, or of an early exit.
Init ==
  /\ stop = 1 /\ unread = FALSE /\ late = FALSE
  /\ sticky \in Views
  /\ tree \in Trees
  /\ \/ debuggee = "held" /\ snapshot \in {StoppedAt(1, f) : f \in BOOLEAN}
     \/ debuggee = "exited" /\ snapshot = ExitedAfter(1)
  /\ body = "none" /\ bodyStop = 1 /\ rendered = {} /\ expanded = {}
  /\ named = <<>>
  /\ cancelled = FALSE /\ done = "no"

-----------------------------------------------------------------------------
(* What a command may do to the view.                                      *)

Leave(how) ==
  /\ done' = how
  /\ named' = <<>>
  /\ UNCHANGED <<debuggeeVars, snapshot, inspectionVars, cancelled>>

\* A request reads the events before its response.
ReadsEvents == /\ unread' = FALSE
               /\ UNCHANGED <<debuggee, stop, tree, late>>

\* The command prints an error, or nothing, and the loop goes on.
NoChange ==
  /\ unread' \in {FALSE, unread}
  /\ named' = <<>>
  /\ UNCHANGED <<debuggee, stop, tree, late, snapshot, inspectionVars, cancelled, done>>

ClearInspection == body' = "none" /\ rendered' = {} /\ expanded' = {} /\ UNCHANGED bodyStop

\* Mutant: every new inspection forgets the expanded variables.
SetInspectionAfresh(b, paths, kept) ==
  /\ body' = b /\ bodyStop' = stop /\ rendered' = paths
  /\ expanded' = {}

\* setInspection: only the locals' inspections keep the expanded variables.
SetInspection(b, paths, kept) ==
  /\ body' = b /\ bodyStop' = stop /\ rendered' = paths
  /\ expanded' = IF b \in {"locals", "eval"} THEN kept ELSE {}

\* showHelp, showBreakpoints and showOutput: nothing is asked of Delve.
Show(b) ==
  /\ SetInspection(b, {}, {})
  /\ named' = <<>>
  /\ UNCHANGED <<debuggeeVars, snapshot, cancelled, done>>

-----------------------------------------------------------------------------
(* Variables.                                                              *)

Branches(t) == {p \in t : \E q \in t : Len(q) = Len(p) + 1 /\ Parent(q) = p}

\* collectExpandedLocals: a branch is opened only below open branches.
OpenBranches(t, wanted) == {p \in Branches(t) : Prefixes(p) \subseteq wanted}

Visible(t, wanted) == {p \in t : Len(p) = 1 \/ Parent(p) \in OpenBranches(t, wanted)}

\* resolveLocalPath: a dotted name is a path, a bare one is searched for among
\* the variables in view.
Matches(t, wanted, arg) ==
  IF Len(arg) > 1 THEN {arg} \cap t
  ELSE {p \in Visible(t, wanted) : p[Len(p)] = arg[1]}

\* Mutant: the branches above the one named are not opened.
RememberedOnly(p) == {p}

\* rememberExpandedLocalPath
Remembered(p) == Prefixes(p)

\* fetchLocals: the frame of the snapshot is asked for.  A running debuggee has
\* none; another stop may have reused the frame's number.
Fetched == snapshot.frame /\ debuggee = "held" /\ ReadsEvents

ShowLocals ==
  \/ NoChange
  \/ /\ Fetched
     /\ SetInspection("locals", OpenBranches(tree, expanded), expanded)
     /\ named' = <<>>
     /\ UNCHANGED <<snapshot, cancelled, done>>

\* The path is remembered before the variables are fetched for rendering.
ExpandLocal(arg) ==
  \/ NoChange
  \/ /\ Fetched
     /\ \E p \in Branches(tree) :
          /\ Matches(tree, expanded, arg) = {p}
          /\ LET kept == expanded \cup Remembered(p) IN
             \/ /\ SetInspection("locals", OpenBranches(tree, kept), kept)
                /\ named' = p
             \/ /\ expanded' = kept
                /\ named' = <<>>
                /\ UNCHANGED <<body, bodyStop, rendered>>
     /\ UNCHANGED <<snapshot, cancelled, done>>

\* showEval: in the sticky view the value is printed below the source, unless an
\* inspection is open.
ShowEval ==
  \/ NoChange
  \/ /\ Fetched
     /\ IF sticky /\ body = "none" THEN ClearInspection
                                   ELSE SetInspection("eval", {}, expanded)
     /\ named' = <<>>
     /\ UNCHANGED <<snapshot, cancelled, done>>

\* The source is shown again, with the new breakpoint in it.
SetBreakpoint ==
  \/ NoChange
  \/ /\ ReadsEvents
     /\ IF sticky THEN ClearInspection ELSE UNCHANGED inspectionVars
     /\ named' = <<>>
     /\ UNCHANGED <<snapshot, cancelled, done>>

-----------------------------------------------------------------------------
(* Resuming.                                                               *)

\* Mutant: the inspection stays when the debuggee has moved.
NewSnapshotOnly(s) == snapshot' = s /\ UNCHANGED inspectionVars

\* runDebuggerAction with the snapshot of Controller.Do
NewSnapshot(s) == snapshot' = s /\ ClearInspection

\* The debuggee resumes and stops; refreshSnapshot may find no frame.
DoStops ==
  /\ debuggee # "exited"
  /\ stop' \in stop + 1..MaxStops
  /\ stop' > stop + 1 => debuggee = "running"     \* it had stopped in between
  /\ tree' \in Trees
  /\ debuggee' = "held" /\ unread' = FALSE
  /\ \E f \in BOOLEAN : NewSnapshot(StoppedAt(stop', f))
  /\ UNCHANGED late

\* It exits, or has done so already and the exit is reported now.
DoExits ==
  /\ debuggee' = "exited" /\ unread' = FALSE
  /\ NewSnapshot(ExitedAfter(stop))
  /\ UNCHANGED <<stop, tree, late>>

\* waitForStop returns for the halt of an earlier resume, read before the
\* response; the debuggee runs, so the stack is refused and there is no frame.
DoReturnsEarly ==
  /\ \/ unread /\ debuggee # "exited" /\ stop' = stop
     \/ debuggee = "running" /\ stop < MaxStops /\ stop' = stop + 1
  /\ debuggee' = "running" /\ unread' = FALSE
  /\ NewSnapshot(StoppedAt(stop', FALSE))
  /\ UNCHANGED <<tree, late>>

\* The deadline strikes while the debuggee runs.
DoTimesOut ==
  /\ Timeouts
  /\ debuggee # "exited"
  /\ debuggee' = "running"
  /\ unread' \in {FALSE, unread}
  /\ late' = TRUE
  /\ UNCHANGED <<stop, tree, snapshot, inspectionVars>>

DebuggerAction ==
  \/ NoChange
  \/ /\ DoStops \/ DoExits \/ DoReturnsEarly \/ DoTimesOut
     /\ named' = <<>>
     /\ UNCHANGED <<cancelled, done>>

-----------------------------------------------------------------------------
(* executeCommandText and processCommand.                                  *)

HasColon(text) == text # <<>> /\ text[1] = ":"
Words(text) == IF HasColon(text) THEN Tail(text) ELSE text

Command(colon, c, arg) ==
  \/ c = "q" /\ Leave("quit")
  \/ c = "h" /\ Show("help")
  \/ c = "b" /\ ~colon /\ Show("breakpoints")
  \/ c = "b" /\ colon /\ arg # <<>> /\ SetBreakpoint
  \/ c \in {"c", "n", "s"} /\ DebuggerAction
  \/ c = "e" /\ colon /\ arg # <<>> /\ ExpandLocal(arg)
  \/ c = "l" /\ colon /\ arg # <<>> /\ ShowEval
  \/ c = "l" /\ (~colon \/ arg = <<>>) /\ ShowLocals
  \/ c = "o" /\ Show("output")
  \/ /\ \/ c \notin {"q", "h", "b", "c", "n", "s", "e", "l", "o"}
        \/ c \in {"b", "e"} /\ colon /\ arg = <<>>
        \/ c = "e" /\ ~colon
     /\ NoChange

\* Mutant: a session whose debuggee has exited takes every command.
ExecuteAlways(text) ==
  LET words == Words(text) IN
  IF cancelled THEN Leave("canceled")
  ELSE IF words = <<>> THEN NoChange
  ELSE Command(HasColon(text), words[1], Tail(words))

Execute(text) ==
  LET words == Words(text) IN
  IF cancelled THEN Leave("canceled")
  ELSE IF words = <<>> THEN NoChange
  ELSE IF snapshot.exited THEN IF words[1] = "o" THEN Show("output") ELSE Leave("quit")
  ELSE Command(HasColon(text), words[1], Tail(words))

-----------------------------------------------------------------------------
(* The world outside, and the loop of line mode.                           *)

\* A debuggee left running stops or exits; nobody reads of it yet.
HaltUnread ==
  /\ done = "no" /\ debuggee = "running"
  /\ \/ debuggee' = "held" /\ stop < MaxStops /\ stop' = stop + 1 /\ tree' \in Trees
     \/ debuggee' = "exited" /\ UNCHANGED <<stop, tree>>
  /\ unread' = TRUE
  /\ UNCHANGED <<late, sticky, snapshot, inspectionVars, named, cancelled, done>>

Interrupt ==
  /\ done = "no" /\ ~cancelled
  /\ cancelled' = TRUE
  /\ UNCHANGED <<debuggeeVars, sticky, snapshot, inspectionVars, named, done>>

\* Next returns the context's error, and the loop with it.
Interrupted == done = "no" /\ cancelled /\ Leave("canceled") /\ UNCHANGED sticky

ReadLine(text) == done = "no" /\ Execute(text) /\ UNCHANGED sticky

EndOfInput == done = "no" /\ Leave("eof") /\ UNCHANGED sticky

Next == \/ \E text \in Commands : ReadLine(text)
        \/ EndOfInput
        \/ HaltUnread
        \/ Interrupt
        \/ Interrupted

Spec == Init /\ [][Next]_vars

-----------------------------------------------------------------------------
(* Properties.                                                             *)

\* Until a resume outlives its deadline: the variables an inspection shows, and
\* those remembered as expanded, are those of the stop at the location shown with
\* them, whatever commands came before.
InspectionIsCurrent ==
  ~late => /\ body \in {"locals", "eval"} => bodyStop = snapshot.stop
           /\ ~snapshot.exited => expanded \subseteq Branches(tree)

\* Until a resume outlives its deadline: rendering the locals again closes no
\* branch that is open, also after an expansion or an evaluation that failed.
BranchesStayOpen ==
  [][~late' /\ body = "locals" /\ body' = "locals" => rendered \subseteq rendered']_vars

\* A variable expanded by its path is shown expanded even though the branches
\* above it were closed.
NamedIsShown == named # <<>> => named \in rendered

\* Once the debuggee's exit is on the screen nothing but its output can be
\* looked at, and the debuggee is indeed gone.
ExitedIsFinal == snapshot.exited => debuggee = "exited" /\ body \in {"none", "output"}
=============================================================================
