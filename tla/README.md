# Verification of dlvpp

dlvpp is a line-oriented front end to the Delve debugger. It starts `dlv dap`,
talks the Debug Adapter Protocol to it over one TCP connection, and runs an
interactive session on a terminal or a pipe. This directory holds TLA+ modules
translated from its Go sources, configurations that check them with TLC, and
proofs checked with TLAPS. Line numbers below refer to the sources beside it.

## 1. Inventory

| Component | Source | State | Operations | Modelled in |
|---|---|---|---|---|
| Input readers | `cmd/dlvpp/loop.go` 860-978 | a goroutine, an unbuffered `requests` channel, a `results` channel of capacity one, the line reader's `bufio.Reader` | `Next(ctx)`, `Close`, the goroutine's read and send | `AsyncReader`, `KeyStream` |
| TTY command line | `loop.go` 88-347 | command mode, line, history, browsing index, draft | one per key | `CommandLine` |
| Commands and view | `loop.go` 69-86 and 349-493, `screens.go`, `view.go` 25-190 | current snapshot, inspection, expanded variables, breakpoint marks | one per command | `SessionView` |
| Session controller | `internal/session/controller.go` | last snapshot | `Launch`, `Attach`, `Do`, `Close`, pass-through queries | `SessionView` (Do and snapshots) |
| DAP client | `internal/backend/dap/client.go` | connection and process, request number, stop state, captured output | `Launch`, `Attach`, `Close`, resumes, queries, event handling | `DapClient`, `Session` |
| Breakpoint tables | `internal/backend/dap/breakpoints.go` | a table per file and one for functions | `CreateBreakpoint`, `Breakpoints`, `ClearBreakpoint` | `BreakpointTable` |
| Startup | `cmd/dlvpp/session_run.go`, `main.go`, `start` and `dialRetry` of the client | the signal context, the start context of 60 s, a discovery goroutine and its result channel | launch, attach, scan, create, continue, session, close, exit code | `Startup` |
| Source index | `source_index.go` | caches of packages, modules, files, under one lock | package lookup with a goroutine per file | `SourceIndex` |
| Breakpoint discovery | `comment_breakpoints.go`, `source_index.go` 393-405 | none | the line a marker comment stands for, deduplication | `SourceWindow` |
| Breakpoint marks | `breakpoint_marks.go`, `view.go` | a copy of the client's table | refresh | `Startup` |
| Source windows | `internal/sourceview/render.go`, `view.go` 100-117, 306-334 | none | highlighting, window arithmetic | `SourceWindow` |
| Arguments, targets, logging, examples | the rest | none | conversions | no |

How they interact: the command loop asks a reader for an item, the reader's
goroutine reads it from the terminal; the item becomes a command; a command
calls the controller, the controller the client, and the client writes a request
and reads the connection until its response (and, for a resume, until the
debuggee has halted). Everything but the reader's goroutine, the discovery
goroutine of the startup, Delve and the debuggee happens on one goroutine, so
calls on the client never overlap.

What is hard about it:

* *Abandoned reads.* The terminal cannot be read with a deadline, so a read whose
  context ended goes on in the goroutine and its result serves a later call.
* *One stream for answers and events.* Events arrive before, between and after
  the responses; responses of timed-out requests arrive during later ones; a
  deadline may strike in the middle of a message.
* *Stale knowledge.* The client sets its own idea of the debuggee before it asks
  for a resume; the view keeps the snapshot of the last resume that succeeded.
* *Partial failure.* Opening has four requests, Close must undo any prefix of
  them; a breakpoint change replaces a whole group and its answer may be lost;
  discovered breakpoints that cannot be created are skipped.
* *Two contexts and a scan.* The start context ends by Ctrl-C or after a minute,
  a dial notices both and a read on the connection only the minute, and the
  source scan answers on its own goroutine before, between or after.
* *Texts written anew.* Colouring takes a file apart into tokens and writes it
  again, and the rows are then cut out of the result by number.
* *Limits.* 256 output entries, 100 commands of history, one buffered result.

The properties that make each component correct are listed with its module, and
each hazard with its source line and the properties that cover it in
`PROJECT.json`.

## 2. Modules

`EXTENDS` is written `<-`; a module and its `MC` module differ only in values for
constants that a configuration cannot write.

```
KeyStream            abstract stream of input items
AsyncReader          the readers; implements KeyStream (INSTANCE ... WITH)
  <- AsyncReader_proofs
Session              abstract session: calls that act on a debuggee, no messages
DapClient            the client, the connection, Delve and the debuggee; implements
                     Session (INSTANCE ... WITH)
  <- DapClient_proofs
BreakpointTable      the client's tables against Delve's breakpoints
  <- MCBreakpointTable, BreakpointTable_proofs
  <- Startup         from dlv's start to the exit, over the tables
       <- MCStartup, Startup_proofs (extends BreakpointTable_proofs too)
SessionView          commands, view state, snapshots; line mode
  <- MCSessionView, SessionView_proofs
  <- CommandLine     the TTY's keys driving SessionView's commands
       <- MCCommandLine, CommandLine_proofs (extends SessionView_proofs too)
SourceIndex          the cache of parsed files, its goroutines and edits
  <- SourceIndex_proofs
SourceWindow         files as tokens: highlighting, windows, marker comments
  <- SourceWindow_proofs
```

In every module an operator whose comment starts with *Mutant* is a plausible
error in the operator below it. No specification uses it; it exists to show that
the properties notice the error.

### AsyncReader

`asyncByteReader` and `asyncLineReader` are the same machine but for their source,
`input`: the byte reader takes one byte of a terminal per request, the line reader
reads a pipe or a file through a `bufio.Reader`, which takes as much as it finds
there and keeps the lines nobody asked for yet (`ahead` of the `taken` items). The
text behind the last line end of a pipe is an item too, of kind `partial`: it comes
in one result with `io.EOF`, and the loop ends on the error and drops the text
(`loop.go` 74-78), so a command without a final newline is not run. `mpc` is where
the loop stands in `Next` (about to call, handing over the request, waiting for the
result), `gpc` where the goroutine stands (waiting for a request, in `Read`,
sending its result). `waiting` says what the TTY loop reads: a key at top level,
or the first or second key after an Esc, under the 150 ms context of
`readTTYEscapeKey`. Of an item only its kind matters: quit, Esc, `[`, other; its
identity is its position. `SelectDone` is the `ctx.Done()` case of either select,
which may win although the other case is ready. A pipe has no escapes. The TTY loop returns the end-of-file error, the line loop
returns nil: both end the loop.

Properties: `InOrder`, `NothingLost`, `EndOfInputLast`, `NoReadAhead`,
`CancelStopsLoop`, and that the machine implements `KeyStream`: `StreamSafety`
and `StreamLive`. `NothingLost` counts the places an item can be in between the
input and the loop, the buffer among them, and leaves out only a partial last
line. `NoReadAhead` is about terminals alone, since a pipe is read ahead. It and
`StreamLive` say something of the behaviours in which no read is abandoned by an
Esc, which are those of line mode and of a user who types no escapes; `StreamLive`
also says that the goroutine ends.

`QuitKeyQuits` is what the README promises of `q`, and fails (section 6).

### DapClient

The client's variables are the fields of `Client`; `op`, `cmd` and `await` say
which call is under way, which request it wrote last and whether it reads for the
response (`requestLocked`) or for a stop (`waitForStop`). A step of the client is
one message read; what the code does up to the next read belongs to the same
step. `Open` is `start` and the first write of `openSession`; `Fail` in an opening
call is its `Close`; `FinishClose` is everything `Close` does after the
disconnect request, however that ended, up to `cmd.Wait`. That waits for dlv and
for the end of its output, which a debuggee that dlv launched inherits: where a
failed disconnect, or a Delve that died, left such a debuggee behind
(`Orphaned`), the call stays in `"wait"` until `WaitEnds`, which nothing
guarantees. What the code resets after the wait is reset before it in the model;
the client's lock is held over both. `StepOut`, `Pause` and `Goroutines` are
unsupported in the code and have no action. `State`, `Output` and `Breakpoints`
only read fields. `scopes` stands for `Locals`, which asks for the variables of
the scope it selected.

Delve is external and modelled as the client meets it: it answers requests in
order, may refuse them, may report the entry stop before or after the response to
`configurationDone`, may or may not send `continued`, reports an exit as
`terminated`, kills or detaches on `disconnect`, and may die. Each message is a
header and a payload written separately, so a deadline can leave the payload
behind (`torn`); then a read takes a payload and the next header for a header
without a length and fails. Closing a connection on a dead Delve may discard
unread messages. A target that is `lost` was left by a Delve that died without
disposing of it; whether it ends, or closes the output it holds, is left open.

`Session` is what this amounts to for the caller when no deadline strikes and Delve
does not die: there are no messages, the debuggee is loaded, resumed, halts and is
disposed of in single steps, and a call returns what became of it. `SessionCall`
tells a resume that Delve accepted (`resumed`) from one it has not seen or has
refused; `SessionSaid` is what `State` answers between calls. A resume that was
refused makes the client say that the debuggee runs (`Refused`), which is what the
code does. That the client implements it, `SessionSafety`, says in one property
that a resume is carried out once, that it never returns before the halt it caused
or with an earlier one, that questions leave the stop state alone, and that a
failed opening ends in a disposed debuggee and an error.

Abstractions: a request's number never wraps; bodies decode; what dlv prints on
its own stdout and stderr, and the text of errors, are left out; a failing write
shows in the read that follows. Cancellation of a context is not an action: a
blocked read has a deadline but nobody watches the context (`client.go` 718-723).

Properties: `AnswerMatches`, `ClosedIsClean`, `EndMatchesMode` and `CallsReturn`
hold whatever Delve does. `StopIsReal`, `ThreadIsCurrent`, `CloseDisposes`,
`OutputIsComplete` and `NoStopIsMissed` are stated for sessions without deadlines
and crashes; with deadlines `StopIsReal` fails (section 6).

### BreakpointTable

`tracked` holds `fileBreakpoints` and `functionBreakpoints`, one sequence per
group; `installed` is what Delve has. A change sends the whole group: it is
answered, refused, or carried out with its answer lost (`SendGroup`). Delve keeps
the ids of places it knew or numbers the group anew; it installs what it can
verify, while the client accepts an answer only when all of it is verified. A
breakpoint is wanted at a spot, a line of a file or a function under a condition:
the code compares both (`breakpoints.go` 51), so one line under two conditions is
two breakpoints. (The command loop sets none with a condition; they are part of the
client's interface.) A location is a spot with the form of its file name, since
relative names are made absolute first (`Normalize`). An absolute name is not
cleaned, so one file under two absolute names is two files, to the code and here.
Which spots Delve can verify is fixed (`Bad`). `installed` holds a set of spots with
ids for each group, so nothing in the model says that Delve has a spot once. Clearing is in the client's
interface although the command loop offers no command for it.

Properties: `OncePerSpot`, `ListedIsInstalled` (nothing is cleared),
`CreatedIsCurrent`, `SuccessHeals`, `ClearRemovesOne`. That a listed id always is
Delve's id does *not* hold: Delve may renumber a group in an answer that the
client then rejects for an unverified entry. A later success repairs it, and no
code relies on such ids, so no property states it.
`OncePerSpot` is what the comparison of normalized locations and conditions is for:
no line or function is listed twice under one condition, whatever the form of its
name.

### SessionView and CommandLine

`SessionView` has one operator per command of `executeCommandText`, with its
checks in the code's order, and the view state the commands change. Stops are
numbered; `tree` is what the variables of a stop look like, a set of paths, and
`expanded` the paths remembered for the locals view. Any request of a command may
fail, in which case `NoChange`, or for `:e` the half-done change, is the result.
The debuggee and the client are reduced to what a command can see of `DapClient`:
a resume stops, exits, is refused, outlives its deadline (`DoTimesOut`), or
returns for an earlier halt that was still unread (`DoReturnsEarly`). The
breakpoint marks are in `Startup`, the rows of source in `SourceWindow`; all
formatting is left out.

`CommandLine` extends it with the TTY loop: one action per key or kind of key,
each running commands through `SessionView`'s `Execute`. A key stands for a word,
`esc`, `up` and `down` for what `readTTYEscapeKey` returns.

Properties: `InspectionIsCurrent` and `BranchesStayOpen` (until a resume
outlives its deadline), `NamedIsShown`, `ExitedIsFinal`, in line mode and, with the
commands a user types there, at the TTY;
`BrowsingShowsHistory`, `HistoryIsRecent`, `ExitClosesLine`.

### Startup

`pc` is where `runLaunch` or `runAttach` stands, `scan` where the goroutine of
`startLaunchWithAutoBreakpoints` stands, `startErr` the error of the start
context. `Start`, `Dialled` and `DialFails` are `start` with `dialRetry`; the
handshake that `DapClient` details is one step here (`Opened`, `OpenFails`), and
so is the first continue; `Create` is `BreakpointTable`'s. The port given to dlv is
reserved and released before dlv binds it: `PortTaken` lets another program have
it, and `Dialled` takes whoever listens, but only dlv answers an opening. A mark
(`MarkOf`) is the id of a breakpoint with the source line that Delve reports for
it, `Site`; a breakpoint without one gets no mark. The ids shown beside the marks
may be outdated, as those of the table, until the next `:b` refreshes them all
(`screens.go` 341 prints them), so `MarksAreBreakpoints` is about lines: those
that are marked are those of the client's list, and Delve has a breakpoint on each.
The session is reduced to what touches breakpoints: waiting for an item, `:b`, and ending with any
error. `CloseSession` is the deferred close of `withController` and `main`'s
translation of the error into an exit code. Where the close leaves a launched
debuggee behind, dlv is `"held"`, as in `DapClient`: in `OpenFails` the Close of
`openSession` waits, in `CloseWaits` the deferred one, until `OutputEnds`.

What the model keeps of the code's order: the scan is started before dlv and
awaited after the handshake; `select` may prefer an ended context to a result
that is there; discovered breakpoints that fail are skipped while the default one
must succeed; a blocked read sees the deadline of the start context and not
Ctrl-C, so `OpenFails`, `ContinueFails` and the creations are forced by `late`
only. Some consequences are deliberate and visible in the model: Ctrl-C during
the handshake is noticed when the handshake ends or at the deadline; the program
may then exit with 1 instead of 130; a dlv that dies before it listens is dialled
until the deadline; a second Ctrl-C has no effect.

Properties: `NothingLeftRunning`, `ExitCodeTells`, `MarksAreBreakpoints` and the
liveness `StartupEnds`.

### SourceIndex

Goroutines of two calls of `PackageInfo` look up files while an editor writes and
removes them. A content is known by the time of its write, so `HitIsCurrent`
compares what an entry holds with what the file holds. The assumption is that
every write changes a file's time or size; two writes of one size within the
resolution of the file system's clock are not told apart by the code either. A
listing is cached for good and never refreshed, as in the code: files created
later are not seen. `ResultIsFresh` allows the two halves of an info, the syntax
tree and the lines, to come from different versions when the file is edited
during the call. The program makes an index
(`session_run.go` 118) and hands it to the discovery, which ignores it and scans
the files directly (`source_index.go` 201-207): so far only tests call
`PackageInfo`, and only its own goroutines run at the same time.

Properties: `HitIsCurrent`, `ResultIsFresh`, `CallsEnd`.

### SourceWindow

A file is a sequence of kinds of token, each of which stands for a few cells; a
rendered text is a sequence of positions of the file, so that text written twice
or in the wrong row is visible. `Scan` is what `go/scanner` does at each token
(external: it inserts the semicolons and drops the carriage returns that the
highlighting then measures with). A step `Write` is one pass through the loop of
`highlightGoSource` (`Put` writes the token): `written` is its buffer and its
`prev`, `semi` the scanner's memory of a statement that a newline would end.
`HighlightGoSource` is what the function returns if the file ends there, so every
state stands for a file, and the steps enumerate the files while the loop reads
them. `RenderStickySource` is the window arithmetic of the sticky
view with the fallback for small terminals, `FormatRange` its checks.
`ResolveBreakpointTargetLine` works on the text of lines as the code does.

`WindowShowsLine` is stated for `Tidy` files. Where a raw string or comment of
several lines has carriage returns, or such a comment stands behind code, the
rendered rows are *not* those of the file (section 6). `MarksMeanNextCode` is
stated for `StarStyle` files: the code takes a line that begins with `*p` for a
comment's, and the plain second line of a block comment for code. Text behind the
last token is written twice, which shows in no row that the window can reach. A
marker behind code on its line means the line after it.

Not modelled: `renderPlainWindow` (the same arithmetic without colours),
`EnclosingFunctionName` and `RenderFunction` (the latter is called by tests
only), and inspections printed below the source, which are as long as they are
and can push the window off the screen: `WindowFitsScreen` is about the window
alone, counted in rows; a row longer than the terminal is wide takes more than one
line of the screen, which neither the code nor the model counts.

## 3. Runs

| Run | Configuration | What it shows | Bounds, and why they are enough |
|---|---|---|---|
| reader_keys | `ReaderKeys` | no key or complete line is lost, doubled or reordered, a cancelled loop ends, the loop sees an abstract stream; without escapes nothing is read ahead at a terminal, everything is delivered and the goroutine ends | a terminal and a pipe, four items of every kind: two abandoned reads leave results in hand and in the channel, with keys before and after; the buffer holds up to three lines or two and an unterminated one |
| reader_quit | `ReaderQuit` | violation of `QuitKeyQuits` | six keys |
| dap_faults | `DapFaults` | matching, cleaning up, disposal and returning (but for a wait for an orphan's output) under deadlines, torn messages and crashes | two sessions, so that leftovers of the first could show in the second; two calls after opening, so that a late response meets another request |
| dap_prompt | `DapPrompt` | stop state, threads, disposal, output, no stop missed, and the client is a `Session` | two sessions, four calls after opening, two threads; at most four output events for a list of two, the second of them of a category that is not kept |
| dap_late_stop | `DapLateStop` | violation of `StopIsReal` with deadlines | one session |
| breakpoints | `Breakpoints` | the table lists what Delve has, once each, under the ids returned; success restores agreement; clears are exact | a file and the functions, two lines and names, two conditions, three spots unverifiable, both forms of name, six ids: enough for a line to be listed under both conditions and a group to be renumbered while another fails |
| view | `View` | inspections belong to the stop on the screen, expansions show what they name, an exit is final | both views; three stops, two shapes of variables three levels deep with a name at two depths |
| line_keys | `LineKeys` | line, history and exit | a history of two and three commands run, so that one is dropped; lines of two words |
| startup | `Startup` | nothing is left running, the exit code tells an interrupt, marks are lines of Delve's breakpoints, startups and interrupts end (but for a wait for an orphan's output) | two marked lines, one unverifiable, a default breakpoint, six ids: discovery, default and a command of the session |
| source_index | `SourceIndex` | hits are current, results no older than the call, calls end | two calls of two files, one of them edited twice: an edit on each side of a store, and another call's store in between |
| windows | `Windows` | rows stand beside their numbers, the window fits and is centred, markers mean the next code | files of five tokens, up to sixteen lines; terminals of five rows (the fallback) to nine (four of source: two above or below the middle differ) |
| window_lines | `WindowLines` | violation of `CurrentLineIsShown` for a comment of several lines behind code | files of five tokens without carriage returns |

Bounds are in the guards of actions: `MaxKeys`, `MaxSeq`, `MaxOpens`,
`MaxOutputs`, `MaxId`, `MaxStops`, `MaxLine`, `MaxRan`, `MaxTime`, `MaxTokens`.
`MaxSeq` limits only the start of calls, so a call under way always may finish.
Deadlock is checked in the breakpoints run, where the client may always reopen.
In the others the system may stop: the user stops typing or calling, the loop or
the program has ended, or the bound of the edits or tokens is reached.

A type invariant is checked in the startup run (`StartTypeOK`); those of the other
modules are proved (section 4) and not run again.

### Fairness

* `AsyncReader!Fairness`: the loop's steps, the handover, the goroutine's steps
  and the escape deadline are weakly fair, because the Go scheduler runs ready
  goroutines and timers fire. A goroutine in `Read` with nothing typed is not
  enabled. Nothing makes the user type, hang up or interrupt.
* `DapClient!TimedSpec`: the client's reads and its deadlines. Every call of the
  program has one (15 s for commands, 2 s for Close, the bootstrap's at
  startup). Nothing is assumed of Delve, and `WaitEnds` is not fair: `CallsReturn`
  allows a call that waits for the output of a debuggee it launched and lost.
* `DapClient!PromptSpec`: also Delve serves its requests and a running debuggee
  stops or exits; needed by `NoStopIsMissed`, which is about losing stops, not
  about debuggees that never stop.
* `StartSpec`: what the program does by itself (`MainStep`) and the timer of the
  start context (`Deadline`). Steps that need dlv, the debuggee, `go list`, the
  disk or the user are not fair, so `StartupEnds` holds when all of them hang; nor
  is `OutputEnds`, so it allows a close that waits for a debuggee left behind.
* `SourceIndex!Spec`: some goroutine runs (`GoStep`); every step of a call brings
  it nearer to its end, so no fairness between goroutines is needed.

## 4. Proofs

Proved with TLAPS for all values of the constants that satisfy the assumptions
named in the modules:

| Theorem | Module | Property |
|---|---|---|
| `Typing`, `Order`, `Lossless`, `EndLast`, `NothingAhead` | `AsyncReader_proofs` | `TypeOK`, `InOrder`, `NothingLost`, `EndOfInputLast`, `NoReadAhead` |
| `RefinesStream` | `AsyncReader_proofs` | `StreamSafety`: `AsyncReader` implements `KeyStream` |
| `Typing`, `Matching`, `CleanClose`, `RightEnd` | `DapClient_proofs` | `TypeOK`, `AnswerMatches`, `ClosedIsClean`, `EndMatchesMode` |
| `RealStops`, `CurrentThread`, `Disposing`, `CompleteOutput` | `DapClient_proofs` | `StopIsReal`, `ThreadIsCurrent`, `CloseDisposes`, `OutputIsComplete`, for `Timeouts` and `Crashes` false |
| `RefinesSession` | `DapClient_proofs` | `SessionSafety`: `DapClient` implements `Session`, for `Timeouts` and `Crashes` false |
| `Typing`, `Once`, `ListedStays`, `Heals`, `CreatedFresh`, `ClearsOne` | `BreakpointTable_proofs` | `TypeOK`, `OncePerSpot`, `ListedIsInstalled`, `SuccessHeals`, `CreatedIsCurrent`, `ClearRemovesOne` |
| `StartTyping`, `NothingLeft`, `CodeTells`, `MarksAgree` | `Startup_proofs` | `StartTypeOK`, `NothingLeftRunning`, `ExitCodeTells`, `MarksAreBreakpoints` |
| `Typing`, `Current`, `Named`, `ExitFinal`, `StayOpen` | `SessionView_proofs` | `TypeOK`, `InspectionIsCurrent`, `NamedIsShown`, `ExitedIsFinal`, `BranchesStayOpen` |
| `LineTyping`, `Browsing`, `Recent`, `ExitCloses`, `ViewAtTTY` | `CommandLine_proofs` | `LineTypeOK`, `BrowsingShowsHistory`, `HistoryIsRecent`, `ExitClosesLine`; under the TTY's keys `InspectionIsCurrent`, `NamedIsShown`, `ExitedIsFinal`, `BranchesStayOpen` |
| `Typing`, `CurrentHits`, `FreshResults` | `SourceIndex_proofs` | `TypeOK`, `HitIsCurrent`, `ResultIsFresh` |
| `FilesScanned`, `WindowsShowLines`, `WindowsFit`, `MarksAreKept` | `SourceWindow_proofs` | `WindowInv`, `WindowShowsLine`, `WindowFitsScreen`, `MarksMeanNextCode` |

*Readers.* Order, losslessness and the position of the end of input rest on one
inductive invariant, `PipeInv`: the items delivered, the item in the channel, the
item in the goroutine's hand and the items in its buffer are together the first
`taken` items, in that order; and a result with the end of the input, with or
without a partial line, is the last one. `InOrder` alone is not inductive, because nothing in it says what comes out
of the channel next. The refinement maps delivering an item and ending the loop
to the abstract steps, and every other step to a stutter, using the same
invariant: the next item out of the pipe is the next one of the stream.
`NoReadAhead` rests on `TurnsInv`: as long as no escape was begun, loop and
goroutine take turns, and an item is in hand or in the channel only while the
loop waits for it. `NoEscape` is about all that was typed, so it held before each
step after which it holds.

*Client.* `AnswerMatches` needs `MatchInv`: a request on the wire and a response
on the wire with the current number carry the current command, and no message
has a number beyond the current one. That is why late responses, whose numbers
are smaller, are never taken. `ClosedIsClean` and `EndMatchesMode` need
`SessionInv`: `terminate` follows from the mode of the open session, the
disconnect requests on the wire say the same, and a client that is not open has
no call under way and no Delve.

Without deadlines and crashes more is true, and `PromptInv` says why. Between calls
both directions of the connection are empty. During a call the request is alone on
the connection (`OneAtATime`), and so is its response, but for events that belong to
it. An event that says the debuggee halted can overtake the response or follow it,
and nothing but the response comes behind it (`HaltsLast`), so a call that has
read both leaves nothing for the next one. `InStep` says that what the client has
read and what is on the way agree with the debuggee, which runs only while a call
waits for its halt; `Disposal`, that a session is closed behind a debuggee that was
disposed of, because Delve ends only after it has served the disconnect request.
`StopIsReal` and `ThreadIsCurrent` are what this leaves of `InStep` between calls.
The output rests on `OutputInv`: entries on the wire ascend and are later than all
that were read, so an entry that is read is the latest, and a full list that gives
up its first entry gives up the oldest (`LatestAdded`).

The refinement of `Session` follows the same cases. The abstract resume is the step
in which Delve accepts the request, the abstract return is the client's step that
reads the second of response and halt, and everything between is a stutter. It
needs three facts about calls that are not about the connection (`CallerInv`): how
far an opening has come, so that the debuggee is loaded once and has not exited
when the call returns; that a refused resume leaves the client's state running;
and that a question with a favourable answer on the way has a held debuggee.

*Breakpoint tables.* That no id names two breakpoints does not show in the tables
alone, because a group that is sent again takes over ids from Delve, some of which
the table may have lost with an answer. `TableInv` follows ids through both: an
id belongs to one group, Delve has a spot and an id once in a group, and every
used id is at most `lastId`. `ListedIsInstalled` needs that the table only holds
spots Delve can verify, since a failed request still replaces Delve's group. The
three action properties follow from `TableInv` and one step.

*Startup.* `StartInv` adds to `TableInv`: a process exists exactly in the phases
that follow its start, a connection only with a process, and what is left of one
after a close delays nothing but the exit; each error that can
reach the close says which context ended; nothing is ever cleared, so the marks,
which are added or fetched only with a successful call, are the client's list and
Delve has them. A cancelled error can only come from the signal or from Ctrl-C
read as a key, and every path that a signal cuts short leaves an error behind.

*View and command line.* The inspection alone does not say why it is current.
`Settled` does: until a resume outlives its deadline, the debuggee moves only in a
command that replaces the snapshot and closes the inspection. At the TTY the four
properties of the line are inductive only together: the index is zero where a
command may end the debuggee, because a browsed command is on an open line.
`ViewAtTTY` says that the four properties of the view hold under the keys as well:
a key runs `Execute`, closes the inspection (`KeyEsc`, which forgets the name with
it), or leaves the inspection alone.

*Index.* An entry's halves are at least as new as its stamp, and no newer than the
file, for an entry in the making as well as for one that is stored; when the stamp
is the file's present one, both bounds meet. The stamp being taken before the
reads is what this rests on. `ResultIsFresh` adds the call's start as another
lower bound, which a hit inherits from the lookup's own `Stat`.

*Windows and marks.* The three properties are about one state, a file, but the
file may have any number of tokens, so they need `WindowInv` of the loop that has
read it. `Covers`: every newline of the file up to `prev` has been written. It
holds of every file, tidy or not, because a token's literal leaves out nothing but
carriage returns; the rendered text therefore has at least the file's lines
(`LinesRendered`, an injection of newlines), no window is cut off at a missing
last line, and `WindowFitsScreen` is arithmetic from there. `TidyInv`: of a tidy
file the file itself has been written, cell by cell, and what is not yet written
is newlines and carriage returns; the end of a statement that is still open is at
the file's end. So the rendered text is the file and at most a newline or carriage
returns more (`TidyRendered`), and a text that goes on keeps the lines it had
(`SplitLonger`): `WindowShowsLine`. `TokensInv` ties each cell to the token it is
of, which is what a line's look is worth under `StarStyle` (`LooksAreRight`);
`MarksMeanNextCode` adds that deduplication keeps each element once
(`DedupeShape`). Nothing here is recursive: lines, literals and filtered lists
are all the k-th elements of sets of positions (`Nth`), and the module begins with
what that operator returns (`NthElement`, `NthIncreases`, `PickType`).

Only model-checked: everything under fairness (`CancelStopsLoop`, `StreamLive`,
`CallsReturn`, `NoStopIsMissed`, `StartupEnds`, `CallsEnd`), since liveness is out
of the prover's reach.

## 5. Not modelled

* Argument parsing, path resolution, `go list` and directory walks, Go parsing,
  colours and all formatting, logging: conversions without state.
* The race between `os/exec` writing dlv's stdout and stderr buffers and the
  client reading them: it affects the text of an error only.
* Processes the debuggee itself started, which hold dlv's output open as well as an
  orphaned debuggee does; `cmd.Wait` is modelled for the debuggee.
* The functions of `sourceview` and of the index that only tests call, and
  `StartLaunchSession`.
* The example programs.

## 6. Findings

* **A quit key that is never read** (`reader_quit`, `loop.go` 958). README.md:85
  says "`q` — quit the session". Two reads abandoned by escape deadlines fill the
  channel and the goroutine's hand: the goroutine waits to send, the loop waits to
  hand over a request, and keys have no effect until a signal arrives.
* **A late stop taken for the next one** (`dap_late_stop`, `client.go` 587).
  README.md:62 says the view "re-renders the current stopped location after each
  debugger action". After a resume that outlives its 15 seconds, its stop is read
  while the next resume awaits its response; `waitForStop` finds it and returns,
  and the client reports a stopped debuggee that is running.

* **Rows beside the wrong numbers** (`window_lines`, `render.go` 269). README.md:63
  says the view "shows a sliding source window centered on the current line". In
  `x := 1 /* a`, newline, `b */`, the scanner reports the comment first and then
  the statement's end, at the comment's first newline. The highlighting moves back
  to that place and writes the rest of the comment again, so a row is added and
  every later line stands beside the number of another.

## 7. Plan

1. Done: readers and their refinement; the client with faults; breakpoint tables;
   commands, view and TTY; the startup over the tables; the source index; windows
   and markers; the proofs of section 4, which state every safety property of the runs.
2. Done: `Session`, the abstract specification of what the client promises its
   caller, and the proof that `DapClient` implements it.
3. A session with deadlines, in which a resume may return an earlier resume's halt,
   as the abstraction under `SessionView`'s `Do*` actions.
