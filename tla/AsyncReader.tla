----------------------------- MODULE AsyncReader -----------------------------
(***************************************************************************)
(* The two input readers of cmd/dlvpp/loop.go (asyncByteReader and         *)
(* asyncLineReader are the same machine) and the command loop that polls   *)
(* them.  A goroutine serves one read per request; requests is an          *)
(* unbuffered channel and results a channel of capacity one.  The loop     *)
(* abandons a read when its context ends first, and in TTY mode it reads   *)
(* the bytes after an Esc under a context that expires.                    *)
(*                                                                         *)
(* An item is a key in TTY mode and a line in line mode.  Its identity is  *)
(* its position in typed; of its content only the kind matters:            *)
(*   "quit"    ends the loop when the loop reads it at top level,          *)
(*   "esc"     starts an escape sequence (TTY mode only),                  *)
(*   "bracket" continues it (TTY mode only),                               *)
(*   "other"   runs a command or edits the command line,                   *)
(*   "partial" is the text behind the last line end of a pipe or a file:   *)
(*             it comes in one result with io.EOF, and the loop drops it.  *)
(* The byte reader takes one byte from the terminal per request.  The line *)
(* reader reads through a bufio.Reader, which takes as much of the pipe as *)
(* it finds there and keeps the lines that were not asked for yet.         *)
(***************************************************************************)
EXTENDS Naturals, Sequences

CONSTANTS Kinds,    \* the kinds of complete item the user may enter
          MaxKeys   \* bound on the items entered

ASSUME KindsAssumption == Kinds \subseteq {"quit", "esc", "bracket", "other"}
ASSUME MaxKeysAssumption == MaxKeys \in Nat

VARIABLES input,      \* terminal (byte reader) or pipe (line reader)
          typed,      \* kinds of the items entered, in order
          hungUp,     \* the input has ended
          cancelled,  \* the context of the command loop was cancelled
          taken,      \* items taken from the input
          ahead,      \* how many of them are still in the bufio.Reader
          gpc,        \* goroutine: recv | read | send | done
          held,       \* result the goroutine is about to send
          results,    \* the buffered results channel
          mpc,        \* loop: next | sendReq | recvRes | done
          waiting,    \* what the loop reads: key | escape | sequence
          expired,    \* the context of the escape sequence hit its deadline
          delivered   \* history: results Next has returned to the loop

vars == <<input, typed, hungUp, cancelled, taken, ahead, gpc, held, results, mpc,
          waiting, expired, delivered>>
envVars == <<input, typed, hungUp, cancelled>>
bufferVars == <<taken, ahead>>
goVars == <<taken, ahead, gpc, held>>
loopVars == <<mpc, waiting, expired, delivered>>

ItemKinds == Kinds \cup {"partial"}

\* A result: the position of the item read, 0 without one, and whether the read
\* reported the end of the input.
Result == [item : Nat, eof : BOOLEAN]
EndOfInput == [item |-> 0, eof |-> TRUE]
ResultsCap == 1

TypeOK == /\ input \in {"terminal", "pipe"}
          /\ typed \in Seq(ItemKinds)
          /\ hungUp \in BOOLEAN
          /\ cancelled \in BOOLEAN
          /\ taken \in 0..Len(typed)
          /\ ahead \in 0..taken
          /\ gpc \in {"recv", "read", "send", "done"}
          /\ held \in Result
          /\ results \in Seq(Result) /\ Len(results) <= ResultsCap
          /\ mpc \in {"next", "sendReq", "recvRes", "done"}
          /\ waiting \in {"key", "escape", "sequence"}
          /\ expired \in BOOLEAN
          /\ delivered \in Seq(Nat)

\* runCommandLoop picks the reader by what the input is.
Init == /\ input \in {"terminal", "pipe"}
        /\ typed = <<>>
        /\ hungUp = FALSE
        /\ cancelled = FALSE
        /\ taken = 0
        /\ ahead = 0
        /\ gpc = "recv"
        /\ held = EndOfInput
        /\ results = <<>>
        /\ mpc = "next"
        /\ waiting = "key"
        /\ expired = FALSE
        /\ delivered = <<>>

-----------------------------------------------------------------------------
(* The user, the signals and the clock.                                    *)

TypeKey(k) == /\ ~hungUp
              /\ Len(typed) < MaxKeys
              /\ input = "pipe" => k \notin {"esc", "bracket"}
              /\ typed' = Append(typed, k)
              /\ UNCHANGED <<input, hungUp, cancelled, goVars, results, loopVars>>

\* A pipe or a file may end in the middle of a line.
HangUp == /\ ~hungUp
          /\ hungUp' = TRUE
          /\ \/ UNCHANGED typed
             \/ /\ input = "pipe" /\ Len(typed) < MaxKeys
                /\ typed' = Append(typed, "partial")
          /\ UNCHANGED <<input, cancelled, goVars, results, loopVars>>

Cancel == /\ ~cancelled
          /\ cancelled' = TRUE
          /\ UNCHANGED <<input, typed, hungUp, goVars, results, loopVars>>

\* The deadline of the escape context.  Its parent being cancelled first
\* makes the context's error Canceled for good.
Expire == /\ waiting # "key" /\ mpc # "done"
          /\ ~expired /\ ~cancelled
          /\ expired' = TRUE
          /\ UNCHANGED <<envVars, goVars, results, mpc, waiting, delivered>>

-----------------------------------------------------------------------------
(* The command loop.                                                       *)

ContextDone == cancelled \/ expired

\* Mutant: the deadline of an escape sequence ends the loop.
ReturnAnyContextError ==
  /\ mpc' = "done"
  /\ expired' = FALSE
  /\ UNCHANGED <<waiting, delivered>>

\* Next returns ctx.Err(): a deadline makes readTTYEscapeKey return key 0 and
\* the loop goes on at top level; a cancellation makes the loop return, and
\* its deferred Close closes the requests channel.
ReturnContextError ==
  /\ mpc' = IF expired THEN "next" ELSE "done"
  /\ waiting' = IF expired THEN "key" ELSE waiting
  /\ expired' = FALSE
  /\ UNCHANGED delivered

NextChecksContext == /\ mpc = "next"
                     /\ ContextDone
                     /\ ReturnContextError
                     /\ UNCHANGED <<envVars, goVars, results>>

NextStarts == /\ mpc = "next"
              /\ ~ContextDone
              /\ mpc' = "sendReq"
              /\ UNCHANGED <<envVars, goVars, results, waiting, expired, delivered>>

\* The request is handed over to the goroutine, which turns to the input.
Handoff == /\ mpc = "sendReq" /\ gpc = "recv"
           /\ mpc' = "recvRes"
           /\ gpc' = "read"
           /\ UNCHANGED <<envVars, bufferVars, held, results, waiting, expired, delivered>>

\* Mutant: the result of an abandoned read is thrown away.
SelectDoneDrains == /\ mpc \in {"sendReq", "recvRes"}
                    /\ ContextDone
                    /\ ReturnContextError
                    /\ results' = <<>>
                    /\ UNCHANGED <<envVars, goVars>>

\* Mutant: the second select does not look at the context.
SelectDoneFirstOnly == /\ mpc = "sendReq"
                       /\ ContextDone
                       /\ ReturnContextError
                       /\ UNCHANGED <<envVars, goVars, results>>

\* Both selects of Next: the context may win even when the other case is ready.
SelectDone == /\ mpc \in {"sendReq", "recvRes"}
              /\ ContextDone
              /\ ReturnContextError
              /\ UNCHANGED <<envVars, goVars, results>>

\* What the loop does with an item of kind k.
Consume(k) ==
  \/ /\ waiting = "key" /\ k = "quit"
     /\ mpc' = "done" /\ UNCHANGED <<waiting, expired>>
  \/ /\ waiting = "key" /\ k = "esc"
     /\ mpc' = "next" /\ waiting' = "escape" /\ expired' = FALSE
  \/ /\ waiting = "key" /\ k \notin {"quit", "esc"}
     /\ mpc' = "next" /\ UNCHANGED <<waiting, expired>>
  \/ /\ waiting = "escape" /\ k = "bracket"
     /\ mpc' = "next" /\ waiting' = "sequence" /\ UNCHANGED expired
  \/ /\ \/ waiting = "sequence"
        \/ waiting = "escape" /\ k # "bracket"
     /\ mpc' = "next" /\ waiting' = "key" /\ expired' = FALSE

\* Next reports a result.  One with an error ends the loop, which drops the text
\* that came with it.  A channel that is closed and empty counts as the end.
ResultReady == results # <<>> \/ gpc = "done"
Received == IF results = <<>> THEN EndOfInput ELSE Head(results)

AfterReceive == IF results = <<>> THEN <<>> ELSE Tail(results)

RecvItem == /\ mpc = "recvRes" /\ ResultReady /\ ~Received.eof
            /\ results' = AfterReceive
            /\ delivered' = Append(delivered, Received.item)
            /\ Consume(typed[Received.item])
            /\ UNCHANGED <<envVars, goVars>>

RecvError == /\ mpc = "recvRes" /\ ResultReady /\ Received.eof
             /\ results' = AfterReceive
             /\ mpc' = "done"
             /\ UNCHANGED <<envVars, goVars, waiting, expired, delivered>>

-----------------------------------------------------------------------------
(* The goroutine.                                                          *)

ResultOf(n) == [item |-> n, eof |-> typed[n] = "partial"]

\* Mutant: every request reads through a bufio.Reader of its own.
BufferPerRequest(n) == /\ taken' = taken + n
                       /\ ahead' = 0
                       /\ held' = ResultOf(taken + 1)

\* n items are taken from the input and the first of them is returned.
Take(n) == /\ taken' = taken + n
           /\ ahead' = n - 1
           /\ held' = ResultOf(taken + 1)

\* A read of the terminal returns one byte.  A line comes out of the buffer; when
\* that holds none, the lines found in the pipe fill it first.
GRead == /\ gpc = "read"
         /\ \/ /\ ahead = 0 /\ input = "terminal" /\ taken < Len(typed)
               /\ Take(1)
            \/ /\ ahead = 0 /\ input = "pipe"
               /\ \E n \in 1..(Len(typed) - taken) : Take(n)
            \/ /\ ahead > 0
               /\ held' = ResultOf(taken - ahead + 1)
               /\ ahead' = ahead - 1
               /\ UNCHANGED taken
            \/ /\ ahead = 0 /\ hungUp /\ taken = Len(typed)
               /\ held' = EndOfInput
               /\ UNCHANGED bufferVars
         /\ gpc' = "send"
         /\ UNCHANGED <<envVars, results, loopVars>>

\* Mutant: the error is tested before the result is sent.
GSendNoError == /\ gpc = "send"
                /\ IF held.eof
                   THEN gpc' = "done" /\ UNCHANGED results
                   ELSE /\ Len(results) < ResultsCap
                        /\ results' = Append(results, held)
                        /\ gpc' = "recv"
                /\ UNCHANGED <<envVars, bufferVars, held, loopVars>>

\* Mutant: the goroutine reads on without a request.
GSendEager == /\ gpc = "send"
              /\ Len(results) < ResultsCap
              /\ results' = Append(results, held)
              /\ gpc' = IF held.eof THEN "done" ELSE "read"
              /\ UNCHANGED <<envVars, bufferVars, held, loopVars>>

GSend == /\ gpc = "send"
         /\ Len(results) < ResultsCap
         /\ results' = Append(results, held)
         /\ gpc' = IF held.eof THEN "done" ELSE "recv"
         /\ UNCHANGED <<envVars, bufferVars, held, loopVars>>

\* Mutant: Close does not close the requests channel.
GNeverExits == FALSE /\ UNCHANGED vars

\* The range over the closed requests channel ends and results is closed.
GExit == /\ gpc = "recv" /\ mpc = "done"
         /\ gpc' = "done"
         /\ UNCHANGED <<envVars, bufferVars, held, results, loopVars>>

-----------------------------------------------------------------------------
LoopStep == NextChecksContext \/ NextStarts \/ SelectDone \/ RecvItem \/ RecvError
ReaderStep == GRead \/ GSend \/ GExit

Next == \/ \E k \in Kinds : TypeKey(k)
        \/ HangUp
        \/ Cancel
        \/ Expire
        \/ LoopStep
        \/ Handoff
        \/ ReaderStep

Spec == Init /\ [][Next]_vars

\* Both goroutines are scheduled and timers fire.  Nothing makes the user type.
Fairness == /\ WF_vars(LoopStep)
            /\ WF_vars(Handoff)
            /\ WF_vars(ReaderStep)
            /\ WF_vars(Expire)

LiveSpec == Spec /\ Fairness

-----------------------------------------------------------------------------
(* Properties.                                                             *)

\* Next returns the items in the order they were typed, none twice and none
\* skipped, however many reads were abandoned in between.
InOrder == \A i \in 1..Len(delivered) : delivered[i] = i

Buffered == IF results # <<>> /\ Head(results).item # 0 THEN 1 ELSE 0
InHand == IF gpc = "send" /\ held.item # 0 THEN 1 ELSE 0

\* An abandoned read loses nothing: every item taken from the input has been
\* returned by Next, or is in the channel, in the goroutine's hand or in its
\* bufio.Reader.  Only an unterminated last line is dropped, when it has ended the
\* loop after everything before it was returned.
NothingLost ==
  \/ taken = Len(delivered) + Buffered + InHand + ahead
  \/ /\ mpc = "done" /\ gpc = "done" /\ results = <<>> /\ ahead = 0
     /\ taken = Len(delivered) + 1 /\ typed[taken] = "partial"

\* The end of the input is reported once, after every item, and the loop never
\* waits for a reader that stopped without leaving it a result.
EndOfInputLast ==
  /\ \A i \in 1..Len(results) :
       results[i].eof => hungUp /\ taken = Len(typed) /\ ahead = 0 /\ gpc = "done"
  /\ mpc = "recvRes" /\ gpc = "done" => results # <<>>

\* No read has been abandoned by a deadline: so it is in line mode, and in TTY
\* mode until Esc is pressed.
NoEscape == \A i \in 1..Len(typed) : typed[i] # "esc"

\* At a terminal where Esc was not pressed the reader takes no byte that the loop is
\* not waiting for, except the one whose wait was cancelled: what the user types
\* behind it is left to the next program.  (The line reader takes what it finds.)
NoReadAhead ==
  input = "terminal" /\ NoEscape
    => (gpc = "read" \/ taken > Len(delivered) => mpc \in {"recvRes", "done"})

\* A cancelled command loop returns even while its reader is blocked in Read
\* (TestAsyncByteReaderReturnsOnContextCancelWhileBlocked).
CancelStopsLoop == cancelled ~> mpc = "done"

\* Three quit keys in a row: at most two of them can belong to an escape
\* sequence, so the loop reads one at top level and ends.
QuitTyped == \E i \in 1..Len(typed) :
               /\ i + 2 <= Len(typed)
               /\ \A j \in i..i + 2 : typed[j] = "quit"

\* README.md: "`q`: quit the session".
QuitKeyQuits == QuitTyped ~> mpc = "done"

\* What the loop sees of the reader is the abstract stream of items.
Stream == INSTANCE KeyStream WITH delivered <- Len(delivered), open <- mpc # "done"

\* The items the loop receives are a stream in typing order that ends for one of
\* three reasons, and of which at most an unterminated last line is left out.
StreamSafety == Stream!Spec

\* Without escapes: moreover, every item is received as long as the loop runs,
\* and once the loop has returned the goroutine ends too, unless it is blocked in
\* Read.
StreamLive == []NoEscape => /\ Stream!Progress
                            /\ mpc = "done" /\ gpc # "read" ~> gpc = "done"
=============================================================================
