----------------------------- MODULE CommandLine -----------------------------
(***************************************************************************)
(* The keys of the TTY command loop (runTTYCommandLoop in                  *)
(* cmd/dlvpp/loop.go): commands of one key, the command line opened with   *)
(* ":", its history, and how they drive the session's commands.            *)
(*                                                                         *)
(* Keys come decoded: "esc", "up" and "down" are what readTTYEscapeKey     *)
(* returns.  A key that writes stands for a word, the blanks around it     *)
(* being understood.                                                       *)
(***************************************************************************)
EXTENDS SessionView

CONSTANTS Keys,          \* the keys the user may press
          HistoryLimit,  \* commands kept (ttyHistoryLimit, 100 in the code)
          MaxLine,       \* bound on the words of the command line
          MaxRan         \* bound on the commands run

ASSUME LineAssumption ==
  ":" \in Keys /\ HistoryLimit \in Nat \ {0} /\ MaxLine \in Nat /\ MaxRan \in Nat

VARIABLES commandMode,  \* the command line is open
          buf,          \* commandBuf
          history,      \* commandHistory
          index,        \* historyIndex + 1: 0 when not browsing
          draft,        \* historyDraft
          ran           \* history: the commands run, blank ones left out

browseVars == <<index, draft>>
lineVars == <<commandMode, buf, browseVars>>
viewVars == <<debuggeeVars, sticky, snapshot, inspectionVars, named, cancelled, done>>
ttyVars == <<viewVars, lineVars, history, ran>>

Texts == UNION {[1..n -> Keys] : n \in 0..MaxLine + 1}

LineTypeOK ==
  /\ TypeOK
  /\ commandMode \in BOOLEAN
  /\ buf \in Texts /\ draft \in Texts
  /\ history \in Seq(Texts \ {<<>>}) /\ Len(history) <= HistoryLimit
  /\ index \in 0..HistoryLimit
  /\ ran \in Seq(Texts \ {<<>>})

TTYInit == /\ Init
           /\ commandMode = FALSE /\ buf = <<>>
           /\ history = <<>> /\ index = 0 /\ draft = <<>>
           /\ ran = <<>>

-----------------------------------------------------------------------------
Browse(i, d) == index' = i /\ draft' = d
LeaveHistory == Browse(0, <<>>)

\* Mutant: a full history takes no more commands.
KeptFirst(s) == SubSeq(s, 1, IF Len(s) < HistoryLimit THEN Len(s) ELSE HistoryLimit)

\* appendTTYCommandHistory keeps the latest commands.
KeptLast(s) == IF Len(s) > HistoryLimit
               THEN SubSeq(s, Len(s) - HistoryLimit + 1, Len(s))
               ELSE s

\* runTTYCommand
Run(text) ==
  /\ Len(ran) < MaxRan
  /\ history' = IF text = <<>> THEN history ELSE KeptLast(Append(history, text))
  /\ ran' = IF text = <<>> THEN ran ELSE Append(ran, text)
  /\ Execute(text)
  /\ UNCHANGED sticky

LeaveLoop(how) == Leave(how) /\ UNCHANGED <<sticky, lineVars, history, ran>>

AtTop == done = "no" /\ ~commandMode /\ ~snapshot.exited
OnLine == done = "no" /\ commandMode

\* With the debuggee gone, "o" shows the output once; any other key quits.
KeyAfterExit(k) ==
  /\ done = "no" /\ ~commandMode /\ snapshot.exited
  /\ IF k = "o" /\ body = "none"
     THEN Run(<<"o">>) /\ UNCHANGED lineVars
     ELSE LeaveLoop("quit")

KeyCtrlC == /\ AtTop \/ OnLine
            /\ LeaveLoop("canceled")

KeyCtrlD == /\ AtTop \/ OnLine
            /\ commandMode => buf = <<>>
            /\ LeaveLoop("quit")

KeyQuit == AtTop /\ LeaveLoop("quit")

KeyCommand(k) == /\ AtTop
                 /\ k \in {"h", "b", "c", "n", "s", "l", "o"}
                 /\ Run(<<k>>)
                 /\ UNCHANGED lineVars

KeyColon == /\ AtTop
            /\ commandMode' = TRUE
            /\ buf' = <<":">>
            /\ LeaveHistory
            /\ UNCHANGED <<viewVars, history, ran>>

\* Mutant: the command runs with the command line still open.
KeyEnterStays == /\ OnLine
                 /\ Run(buf)
                 /\ buf' = <<>>
                 /\ LeaveHistory
                 /\ UNCHANGED commandMode

\* The line is closed first, whatever the command then does.
KeyEnter == /\ OnLine
            /\ Run(buf)
            /\ commandMode' = FALSE
            /\ buf' = <<>>
            /\ LeaveHistory

\* Esc drops the line; without one it closes the inspection.
KeyEsc ==
  \/ /\ OnLine
     /\ commandMode' = FALSE /\ buf' = <<>>
     /\ LeaveHistory
     /\ UNCHANGED <<viewVars, history, ran>>
  \/ /\ AtTop /\ body # "none"
     /\ ClearInspection
     /\ named' = <<>>
     /\ UNCHANGED <<debuggeeVars, sticky, snapshot, cancelled, done, lineVars, history, ran>>

\* previousTTYHistory; at top level it opens the command line first.
KeyUp ==
  /\ AtTop \/ OnLine
  /\ history # <<>>
  /\ LET i == IF AtTop \/ index = 0 THEN Len(history)
              ELSE IF index > 1 THEN index - 1 ELSE 1
         d == IF AtTop THEN <<>> ELSE IF index = 0 THEN buf ELSE draft IN
     /\ Browse(i, d)
     /\ buf' = history[i]
  /\ commandMode' = TRUE
  /\ UNCHANGED <<viewVars, history, ran>>

\* nextTTYHistory; after the newest command comes what was being typed.
KeyDown ==
  /\ OnLine /\ index > 0
  /\ IF index < Len(history)
     THEN Browse(index + 1, draft) /\ buf' = history[index + 1]
     ELSE LeaveHistory /\ buf' = draft
  /\ UNCHANGED <<commandMode, viewVars, history, ran>>

\* Mutant: deleting a character does not leave the history.
KeyBackspaceBrowsing == /\ OnLine /\ buf # <<>>
                        /\ buf' = SubSeq(buf, 1, Len(buf) - 1)
                        /\ UNCHANGED <<commandMode, browseVars, viewVars, history, ran>>

KeyBackspace == /\ OnLine /\ buf # <<>>
                /\ buf' = SubSeq(buf, 1, Len(buf) - 1)
                /\ LeaveHistory
                /\ UNCHANGED <<commandMode, viewVars, history, ran>>

KeyWrites(k) == /\ OnLine
                /\ Len(buf) <= MaxLine
                /\ buf' = Append(buf, k)
                /\ LeaveHistory
                /\ UNCHANGED <<commandMode, viewVars, history, ran>>

\* A signal, or a debuggee that halts: nothing changes at the keyboard.
Elsewhere == /\ Interrupt \/ Interrupted \/ HaltUnread
             /\ UNCHANGED <<lineVars, history, ran>>

TTYNext ==
  \/ \E k \in Keys : KeyAfterExit(k) \/ KeyCommand(k) \/ KeyWrites(k)
  \/ KeyCtrlC \/ KeyCtrlD \/ KeyQuit
  \/ KeyColon \/ KeyEnter \/ KeyEsc \/ KeyUp \/ KeyDown \/ KeyBackspace
  \/ Elsewhere

TTYSpec == TTYInit /\ [][TTYNext]_ttyVars

-----------------------------------------------------------------------------
(* Properties.                                                             *)

\* While the history is browsed the line holds the command at the index, and the
\* index stays within the history whatever is run, typed and dropped meanwhile.
BrowsingShowsHistory ==
  index > 0 => commandMode /\ index <= Len(history) /\ buf = history[index]

\* The history holds the latest commands in the order they were run, up to its
\* limit (TestAppendTTYCommandHistoryPreservesExactCommands).
HistoryIsRecent ==
  LET n == Len(history) IN
  /\ n = IF Len(ran) < HistoryLimit THEN Len(ran) ELSE HistoryLimit
  /\ \A i \in 1..n : history[i] = ran[Len(ran) - n + i]

\* When the debuggee has exited the command line is closed, so that the next key
\* quits as the screen says, and no command can be typed at a dead session.
ExitClosesLine == snapshot.exited => ~commandMode /\ index = 0
=============================================================================
