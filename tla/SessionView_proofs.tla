--------------------------- MODULE SessionView_proofs ---------------------------
(***************************************************************************)
(* Proofs about SessionView, for any variables, commands and number of     *)
(* stops: what is shown and remembered of the variables belongs to the     *)
(* stop on the screen, and an exit on the screen is final.                 *)
(*                                                                         *)
(* The inspection alone does not say enough: what makes it current is that *)
(* until a resume outlives its deadline the debuggee only moves in a       *)
(* command that replaces the snapshot and clears the inspection.  Settled  *)
(* says so: the debuggee never runs between commands, and nothing it did   *)
(* is unread.                                                              *)
(***************************************************************************)
EXTENDS SessionView, SequenceTheorems, TLAPS

\* Until a resume outlives its deadline the debuggee is where the client last saw it.
Settled == ~late => /\ debuggee # "running"
                    /\ ~unread
                    /\ snapshot.stop = stop

\* The branches that the locals show open are open still.
RenderedIsOpen ==
  ~late /\ body = "locals" => rendered \subseteq OpenBranches(tree, expanded)

\* What holds of the view at the line and at the TTY.
ViewInv == /\ TypeOK
           /\ ExitedIsFinal
           /\ Settled
           /\ InspectionIsCurrent
           /\ RenderedIsOpen

IInv == ViewInv /\ NamedIsShown

-----------------------------------------------------------------------------
(* Paths of variables.                                                     *)

\* Everything above a variable is a variable.
LEMMA PrefixesInTree ==
  ASSUME NEW t \in Trees, NEW p \in t
  PROVE  p \in Seq(STRING) /\ p # <<>> /\ Prefixes(p) \subseteq t
  BY TreesAssumption

\* Everything above a branch is a branch.
LEMMA PrefixesAreBranches ==
  ASSUME NEW t \in Trees, NEW p \in Branches(t)
  PROVE  Prefixes(p) \subseteq Branches(t)
<1>1. p \in t
  BY DEF Branches
<1>2. p \in Seq(STRING) /\ p # <<>> /\ Prefixes(p) \subseteq t
  BY <1>1, PrefixesInTree
<1>3. SUFFICES ASSUME NEW i \in 1..Len(p)
               PROVE  SubSeq(p, 1, i) \in Branches(t)
  BY DEF Prefixes
<1>4. Len(p) \in Nat
  BY <1>2, LenProperties
<1>5. CASE i = Len(p)
  BY <1>2, <1>5, SubSeqFull
<1>6. CASE i < Len(p)
  <2> DEFINE above == SubSeq(p, 1, i)
             below == SubSeq(p, 1, i + 1)
  <2>1. i + 1 \in 1..Len(p)
    BY <1>4, <1>6
  <2>2. above \in t /\ below \in t
    BY <1>2, <2>1 DEF Prefixes
  <2>3. \A j \in 1..Len(p) : p[j] \in STRING
    BY <1>2, ElementOfSeq
  <2>4. Len(above) = i /\ Len(below) = i + 1
    BY <2>1, <2>3, <1>4, SubSeqProperties
  <2>5. SubSeq(below, 1, i) = above
    <3>1. /\ 1 \in 1..Len(p)
          /\ 1 \in 1..((i + 1) - 1 + 1) /\ i \in 1..((i + 1) - 1 + 1)
      BY <1>4, <2>1
    <3>2. SubSeq(SubSeq(p, 1, i + 1), 1, i) = SubSeq(p, 1 + 1 - 1, 1 + i - 1)
      BY <1>2, <2>1, <3>1, SubSeqOfSubSeq
    <3> QED
      BY <3>2
  <2>6. Parent(below) = above
    BY <2>4, <2>5 DEF Parent
  <2> QED
    BY <2>2, <2>4, <2>6 DEF Branches
<1> QED
  BY <1>4, <1>5, <1>6

\* Opening more closes nothing.
LEMMA OpenGrows ==
  ASSUME NEW t, NEW a, NEW b, a \subseteq b
  PROVE  OpenBranches(t, a) \subseteq OpenBranches(t, b)
  BY DEF OpenBranches

-----------------------------------------------------------------------------
(* Commands.                                                               *)

\* What a command amounts to, for a text of any words.
Effect == \/ \E how \in {"quit", "eof", "canceled"} : Leave(how)
          \/ NoChange
          \/ Show("output")
          \/ /\ ~snapshot.exited
             /\ \/ \E b \in {"help", "breakpoints"} : Show(b)
                \/ ShowLocals
                \/ \E arg : ExpandLocal(arg)
                \/ ShowEval
                \/ SetBreakpoint
                \/ DebuggerAction

LEMMA CommandEffect ==
  ASSUME NEW colon, NEW c, NEW arg, ~snapshot.exited, Command(colon, c, arg)
  PROVE  Effect
  BY Zenon DEF Command, Effect

LEMMA ExecuteEffect ==
  ASSUME NEW text, Execute(text)
  PROVE  Effect
<1>1. CASE cancelled
  BY <1>1 DEF Execute, Effect
<1>2. CASE ~cancelled /\ Words(text) = <<>>
  BY <1>2 DEF Execute, Effect
<1>3. CASE ~cancelled /\ Words(text) # <<>> /\ snapshot.exited
  BY <1>3 DEF Execute, Effect
<1>4. CASE ~cancelled /\ Words(text) # <<>> /\ ~snapshot.exited
  BY <1>4, CommandEffect DEF Execute
<1> QED
  BY <1>1, <1>2, <1>3, <1>4

-----------------------------------------------------------------------------
(* Each effect keeps the invariant.                                        *)

LEMMA Unmoved ==
  ASSUME ViewInv,
         UNCHANGED <<debuggee, stop, tree, late, sticky, snapshot, inspectionVars>>,
         unread' \in {FALSE, unread},
         named' \in (UNION Trees) \cup {<<>>},
         cancelled' \in BOOLEAN, done' \in {"no", "quit", "eof", "canceled"}
  PROVE  ViewInv'
<1> USE DEF ViewInv, inspectionVars
<1>1. TypeOK'
  BY DEF TypeOK
<1>2. ExitedIsFinal'
  BY DEF ExitedIsFinal
<1>3. Settled'
  BY DEF Settled
<1>4. InspectionIsCurrent'
  BY DEF InspectionIsCurrent, Branches
<1>5. RenderedIsOpen'
  BY DEF RenderedIsOpen, OpenBranches, Branches
<1> QED
  BY <1>1, <1>2, <1>3, <1>4, <1>5

LEMMA LeaveKeeps ==
  ASSUME ViewInv, NEW how \in {"quit", "eof", "canceled"}, Leave(how), UNCHANGED sticky
  PROVE  ViewInv'
<1>1. cancelled' \in BOOLEAN /\ unread' = unread
  BY DEF Leave, ViewInv, TypeOK, debuggeeVars
<1> QED
  BY <1>1, Unmoved DEF Leave, debuggeeVars, inspectionVars

LEMMA NoChangeKeeps ==
  ASSUME ViewInv, NoChange, UNCHANGED sticky
  PROVE  ViewInv'
<1>1. cancelled' \in BOOLEAN /\ done' \in {"no", "quit", "eof", "canceled"}
  BY DEF NoChange, ViewInv, TypeOK
<1> QED
  BY <1>1, Unmoved DEF NoChange, inspectionVars

\* An inspection that shows what the debuggee has now.
LEMMA InspectionKeeps ==
  ASSUME ViewInv, UNCHANGED <<debuggee, stop, tree, late, sticky, snapshot, cancelled, done>>,
         unread' \in {FALSE, unread},
         named' \in (UNION Trees) \cup {<<>>},
         NEW b \in {"locals", "eval", "output", "help", "breakpoints"},
         snapshot.exited => b = "output",
         NEW paths \in SUBSET tree, NEW kept \in SUBSET UNION Trees,
         ~late => kept \subseteq Branches(tree),
         ~late /\ b = "locals" => paths \subseteq OpenBranches(tree, kept),
         SetInspection(b, paths, kept)
  PROVE  ViewInv'
<1> USE DEF ViewInv, SetInspection
<1>1. TypeOK'
  <2>1. /\ body' \in {"none", "locals", "eval", "output", "help", "breakpoints"}
        /\ bodyStop' \in 1..MaxStops
        /\ rendered' \subseteq UNION Trees
        /\ expanded' \subseteq UNION Trees
    BY DEF TypeOK
  <2>2. unread' \in BOOLEAN
    BY DEF TypeOK
  <2> QED
    BY <2>1, <2>2 DEF TypeOK
<1>2. ExitedIsFinal'
  BY DEF ExitedIsFinal
<1>3. Settled'
  BY DEF Settled
<1>4. ~late => expanded' \subseteq Branches(tree)
  OBVIOUS
<1>5. InspectionIsCurrent'
  BY <1>3, <1>4 DEF InspectionIsCurrent, Settled, Branches
<1>6. RenderedIsOpen'
  BY DEF RenderedIsOpen, OpenBranches, Branches
<1> QED
  BY <1>1, <1>2, <1>3, <1>5, <1>6

LEMMA ShowKeeps ==
  ASSUME ViewInv, NEW b \in {"output", "help", "breakpoints"},
         snapshot.exited => b = "output", Show(b), UNCHANGED sticky
  PROVE  ViewInv'
<1>1. SetInspection(b, {}, {}) /\ named' = <<>>
  BY DEF Show
<1>2. /\ UNCHANGED <<debuggee, stop, tree, late, sticky, snapshot, cancelled, done>>
      /\ unread' = unread
  BY DEF Show, debuggeeVars
<1>3. /\ {} \in SUBSET tree /\ {} \in SUBSET UNION Trees
      /\ {} \subseteq Branches(tree)
      /\ ~late /\ b = "locals" => {} \subseteq OpenBranches(tree, {})
      /\ named' \in (UNION Trees) \cup {<<>>}
      /\ unread' \in {FALSE, unread}
  BY <1>1, <1>2
<1>4. b \in {"locals", "eval", "output", "help", "breakpoints"}
  OBVIOUS
<1> QED
  BY <1>1, <1>2, <1>3, <1>4, InspectionKeeps, Zenon

\* Closing the inspection forgets its variables.
LEMMA ClearKeeps ==
  ASSUME ViewInv, UNCHANGED <<debuggee, stop, tree, late, sticky, snapshot, cancelled, done>>,
         unread' \in {FALSE, unread},
         named' \in (UNION Trees) \cup {<<>>},
         ClearInspection
  PROVE  ViewInv'
<1> USE DEF ViewInv, ClearInspection
<1>1. TypeOK'
  BY DEF TypeOK
<1>2. ExitedIsFinal'
  BY DEF ExitedIsFinal
<1>3. Settled'
  BY DEF Settled
<1>4. InspectionIsCurrent'
  BY DEF InspectionIsCurrent
<1>5. RenderedIsOpen'
  BY DEF RenderedIsOpen
<1> QED
  BY <1>1, <1>2, <1>3, <1>4, <1>5

\* A request for the variables leaves the debuggee alone.
LEMMA FetchedLeaves ==
  ASSUME ViewInv, Fetched
  PROVE  /\ UNCHANGED <<debuggee, stop, tree, late>>
         /\ unread' \in {FALSE, unread}
         /\ ~snapshot.exited
  BY DEF Fetched, ReadsEvents, ViewInv, ExitedIsFinal

\* Remembered branches are branches of the variables shown.
LEMMA RememberedAreBranches ==
  ASSUME ViewInv, ~snapshot.exited
  PROVE  /\ ~late => expanded \subseteq Branches(tree)
         /\ expanded \in SUBSET UNION Trees
  BY DEF ViewInv, InspectionIsCurrent, TypeOK

LEMMA ShowLocalsKeeps ==
  ASSUME ViewInv, ~snapshot.exited, ShowLocals, UNCHANGED sticky
  PROVE  ViewInv'
<1>1. CASE NoChange
  BY <1>1, NoChangeKeeps
<1>2. CASE /\ Fetched
           /\ SetInspection("locals", OpenBranches(tree, expanded), expanded)
           /\ named' = <<>>
           /\ UNCHANGED <<snapshot, cancelled, done>>
  <2>1. UNCHANGED <<debuggee, stop, tree, late>> /\ unread' \in {FALSE, unread}
    BY <1>2, FetchedLeaves
  <2>2. /\ OpenBranches(tree, expanded) \in SUBSET tree
        /\ named' \in (UNION Trees) \cup {<<>>}
    BY <1>2 DEF OpenBranches, Branches
  <2>3. /\ ~late => expanded \subseteq Branches(tree)
        /\ expanded \in SUBSET UNION Trees
    BY RememberedAreBranches
  <2> QED
    BY <1>2, <2>1, <2>2, <2>3, InspectionKeeps
<1> QED
  BY <1>1, <1>2 DEF ShowLocals

LEMMA ExpandLocalKeeps ==
  ASSUME ViewInv, ~snapshot.exited, NEW arg, ExpandLocal(arg), UNCHANGED sticky
  PROVE  ViewInv'
<1>1. CASE NoChange
  BY <1>1, NoChangeKeeps
<1>2. CASE ~NoChange
  <2>1. /\ Fetched
        /\ UNCHANGED <<snapshot, cancelled, done>>
    BY <1>2, Zenon DEF ExpandLocal
  <2>2. PICK p \in Branches(tree) :
          LET kept == expanded \cup Remembered(p) IN
          \/ /\ SetInspection("locals", OpenBranches(tree, kept), kept)
             /\ named' = p
          \/ /\ expanded' = kept
             /\ named' = <<>>
             /\ UNCHANGED <<body, bodyStop, rendered>>
    BY <1>2 DEF ExpandLocal
  <2> DEFINE kept == expanded \cup Remembered(p)
  <2>3. UNCHANGED <<debuggee, stop, tree, late>> /\ unread' \in {FALSE, unread}
    BY <2>1, FetchedLeaves
  <2>4. tree \in Trees /\ p \in tree
    BY DEF ViewInv, TypeOK, Branches
  <2>5. Remembered(p) \subseteq Branches(tree) /\ Remembered(p) \subseteq tree
    BY <2>4, PrefixesAreBranches, PrefixesInTree DEF Remembered
  <2>6. /\ ~late => kept \subseteq Branches(tree)
        /\ kept \in SUBSET UNION Trees
    BY <2>4, <2>5, RememberedAreBranches
  <2>7. /\ OpenBranches(tree, kept) \in SUBSET tree
        /\ p \in (UNION Trees) \cup {<<>>} /\ <<>> \in (UNION Trees) \cup {<<>>}
    BY <2>4 DEF OpenBranches, Branches
  <2>8. CASE SetInspection("locals", OpenBranches(tree, kept), kept) /\ named' = p
    <3> HIDE DEF kept
    <3> QED
      BY <2>1, <2>3, <2>6, <2>7, <2>8, InspectionKeeps
  <2>9. CASE expanded' = kept /\ named' = <<>> /\ UNCHANGED <<body, bodyStop, rendered>>
    <3>1. OpenBranches(tree, expanded) \subseteq OpenBranches(tree, kept)
      BY OpenGrows
    <3> HIDE DEF kept
    <3> USE DEF ViewInv
    <3>2. TypeOK'
      <4>1. unread' \in BOOLEAN
        BY <2>3 DEF TypeOK
      <4>2. expanded' \subseteq UNION Trees /\ named' \in (UNION Trees) \cup {<<>>}
        BY <2>6, <2>9
      <4> QED
        BY <2>1, <2>3, <2>9, <4>1, <4>2 DEF TypeOK
    <3>3. ExitedIsFinal'
      BY <2>1, <2>3, <2>9 DEF ExitedIsFinal
    <3>4. Settled'
      BY <2>1, <2>3, <2>9 DEF Settled
    <3>5. InspectionIsCurrent'
      BY <2>1, <2>3, <2>6, <2>9 DEF InspectionIsCurrent, Branches
    <3>6. RenderedIsOpen'
      <4>1. tree' = tree /\ expanded' = kept
        BY <2>3, <2>9
      <4> QED
        BY <2>3, <2>9, <3>1, <4>1 DEF RenderedIsOpen, OpenBranches, Branches
    <3> QED
      BY <3>2, <3>3, <3>4, <3>5, <3>6
  <2> QED
    BY <2>2, <2>8, <2>9
<1> QED
  BY <1>1, <1>2

LEMMA ShowEvalKeeps ==
  ASSUME ViewInv, ~snapshot.exited, ShowEval, UNCHANGED sticky
  PROVE  ViewInv'
<1>1. CASE NoChange
  BY <1>1, NoChangeKeeps
<1>2. CASE /\ Fetched
           /\ IF sticky /\ body = "none" THEN ClearInspection
                                         ELSE SetInspection("eval", {}, expanded)
           /\ named' = <<>>
           /\ UNCHANGED <<snapshot, cancelled, done>>
  <2>1. UNCHANGED <<debuggee, stop, tree, late>> /\ unread' \in {FALSE, unread}
    BY <1>2, FetchedLeaves
  <2>2. {} \in SUBSET tree /\ named' \in (UNION Trees) \cup {<<>>}
    BY <1>2
  <2>3. /\ ~late => expanded \subseteq Branches(tree)
        /\ expanded \in SUBSET UNION Trees
    BY RememberedAreBranches
  <2>4. CASE ClearInspection
    BY <1>2, <2>1, <2>2, <2>4, ClearKeeps
  <2>5. CASE SetInspection("eval", {}, expanded)
    BY <1>2, <2>1, <2>2, <2>3, <2>5, InspectionKeeps
  <2> QED
    BY <1>2, <2>4, <2>5
<1> QED
  BY <1>1, <1>2 DEF ShowEval

LEMMA SetBreakpointKeeps ==
  ASSUME ViewInv, SetBreakpoint, UNCHANGED sticky
  PROVE  ViewInv'
<1>1. CASE NoChange
  BY <1>1, NoChangeKeeps
<1>2. CASE /\ ReadsEvents
           /\ IF sticky THEN ClearInspection ELSE UNCHANGED inspectionVars
           /\ named' = <<>>
           /\ UNCHANGED <<snapshot, cancelled, done>>
  <2>1. /\ UNCHANGED <<debuggee, stop, tree, late>> /\ unread' \in {FALSE, unread}
        /\ named' \in (UNION Trees) \cup {<<>>}
    BY <1>2 DEF ReadsEvents
  <2>2. CASE ClearInspection
    BY <1>2, <2>1, <2>2, ClearKeeps
  <2>3. CASE UNCHANGED inspectionVars
    <3>1. cancelled' \in BOOLEAN /\ done' \in {"no", "quit", "eof", "canceled"}
      BY <1>2 DEF ViewInv, TypeOK
    <3> QED
      BY <1>2, <2>1, <2>3, <3>1, Unmoved DEF inspectionVars
  <2> QED
    BY <1>2, <2>2, <2>3
<1> QED
  BY <1>1, <1>2 DEF SetBreakpoint

-----------------------------------------------------------------------------
(* Resuming and halting.                                                   *)

\* A new snapshot comes with no inspection.
LEMMA SnapshotKeeps ==
  ASSUME ViewInv, UNCHANGED <<late, sticky, cancelled, done>>, unread' = FALSE,
         named' = <<>>,
         stop' \in 1..MaxStops, tree' \in Trees,
         debuggee' \in {"held", "running", "exited"},
         ~late => debuggee' # "running",
         NEW s \in [exited : BOOLEAN, frame : BOOLEAN, stop : 1..MaxStops],
         s.stop = stop', s.exited => debuggee' = "exited",
         NewSnapshot(s)
  PROVE  ViewInv'
<1> USE DEF ViewInv, NewSnapshot, ClearInspection
<1>1. TypeOK'
  BY DEF TypeOK
<1>2. ExitedIsFinal'
  BY DEF ExitedIsFinal
<1>3. Settled'
  BY DEF Settled
<1>4. InspectionIsCurrent'
  BY DEF InspectionIsCurrent
<1>5. RenderedIsOpen'
  BY DEF RenderedIsOpen
<1> QED
  BY <1>1, <1>2, <1>3, <1>4, <1>5

LEMMA SnapshotTypes ==
  ASSUME NEW n \in 1..MaxStops, NEW f \in BOOLEAN
  PROVE  /\ StoppedAt(n, f) \in [exited : BOOLEAN, frame : BOOLEAN, stop : 1..MaxStops]
         /\ StoppedAt(n, f).stop = n /\ ~StoppedAt(n, f).exited
         /\ ExitedAfter(n) \in [exited : BOOLEAN, frame : BOOLEAN, stop : 1..MaxStops]
         /\ ExitedAfter(n).stop = n /\ ExitedAfter(n).exited
  BY DEF StoppedAt, ExitedAfter

\* A resume that ends in time, or reports what had happened before.
LEMMA DoKeeps ==
  ASSUME ViewInv, DoStops \/ DoExits \/ DoReturnsEarly, ~snapshot.exited,
         UNCHANGED <<sticky, cancelled, done>>, named' = <<>>
  PROVE  ViewInv'
<1>0. /\ stop \in 1..MaxStops /\ tree \in Trees
      /\ debuggee \in {"held", "running", "exited"}
      /\ MaxStops \in Nat
  BY MaxStopsAssumption DEF ViewInv, TypeOK
<1>1. CASE DoStops
  <2>1. /\ stop' \in 1..MaxStops /\ tree' \in Trees
        /\ debuggee' = "held" /\ unread' = FALSE /\ UNCHANGED late
    BY <1>0, <1>1 DEF DoStops
  <2>2. PICK f \in BOOLEAN : NewSnapshot(StoppedAt(stop', f))
    BY <1>1 DEF DoStops
  <2> QED
    BY <2>1, <2>2, SnapshotTypes, SnapshotKeeps
<1>2. CASE DoExits
  <2>1. /\ stop' \in 1..MaxStops /\ tree' \in Trees
        /\ debuggee' = "exited" /\ unread' = FALSE /\ UNCHANGED <<late, stop>>
        /\ NewSnapshot(ExitedAfter(stop'))
    BY <1>0, <1>2 DEF DoExits
  <2> QED
    BY <2>1, SnapshotTypes, SnapshotKeeps
<1>3. CASE DoReturnsEarly
  <2>1. late
    BY <1>3 DEF DoReturnsEarly, ViewInv, Settled
  <2>2. /\ debuggee' = "running" /\ unread' = FALSE /\ UNCHANGED <<tree, late>>
        /\ NewSnapshot(StoppedAt(stop', FALSE))
    BY <1>3, Zenon DEF DoReturnsEarly
  <2>3. ~late => debuggee' # "running"
    BY <2>1, Zenon
  <2>4. stop' = stop \/ (stop < MaxStops /\ stop' = stop + 1)
    BY <1>3, Zenon DEF DoReturnsEarly
  <2>5. stop' \in 1..MaxStops /\ tree' \in Trees
    BY <1>0, <2>2, <2>4
  <2>6. StoppedAt(stop', FALSE).exited => debuggee' = "exited"
    BY <2>5, SnapshotTypes
  <2> QED
    BY <2>2, <2>3, <2>5, <2>6, SnapshotTypes, SnapshotKeeps
<1> QED
  BY <1>1, <1>2, <1>3

\* Once late, what the debuggee does behind the view disturbs only what it is.
LEMMA BehindTheView ==
  ASSUME ViewInv, late', UNCHANGED <<sticky, snapshot, inspectionVars, cancelled, done>>,
         named' \in (UNION Trees) \cup {<<>>},
         debuggee' \in {"held", "running", "exited"},
         snapshot.exited => debuggee' = "exited",
         stop' \in 1..MaxStops, tree' \in Trees, unread' \in BOOLEAN
  PROVE  ViewInv'
<1> USE DEF ViewInv, inspectionVars
<1>1. TypeOK'
  BY DEF TypeOK
<1>2. ExitedIsFinal'
  BY DEF ExitedIsFinal
<1>3. Settled' /\ InspectionIsCurrent' /\ RenderedIsOpen'
  BY DEF Settled, InspectionIsCurrent, RenderedIsOpen
<1> QED
  BY <1>1, <1>2, <1>3

LEMMA DebuggerActionKeeps ==
  ASSUME ViewInv, ~snapshot.exited, DebuggerAction, UNCHANGED sticky
  PROVE  ViewInv'
<1>1. CASE NoChange
  BY <1>1, NoChangeKeeps
<1>2. CASE /\ DoStops \/ DoExits \/ DoReturnsEarly
           /\ named' = <<>>
           /\ UNCHANGED <<cancelled, done>>
  BY <1>2, DoKeeps
<1>3. CASE DoTimesOut /\ named' = <<>> /\ UNCHANGED <<cancelled, done>>
  <2>1. /\ late' = TRUE /\ debuggee' = "running"
        /\ UNCHANGED <<stop, tree, snapshot, inspectionVars>>
        /\ unread' \in BOOLEAN
    BY <1>3 DEF DoTimesOut, ViewInv, TypeOK
  <2>2. stop' \in 1..MaxStops /\ tree' \in Trees
    BY <2>1 DEF ViewInv, TypeOK
  <2> QED
    BY <1>3, <2>1, <2>2, BehindTheView
<1> QED
  BY <1>1, <1>2, <1>3 DEF DebuggerAction

LEMMA EffectKeeps ==
  ASSUME ViewInv, Effect, UNCHANGED sticky
  PROVE  ViewInv'
<1>1. ASSUME NEW how \in {"quit", "eof", "canceled"}, Leave(how) PROVE ViewInv'
  BY <1>1, LeaveKeeps
<1>2. CASE NoChange
  BY <1>2, NoChangeKeeps
<1>3. CASE Show("output")
  BY <1>3, ShowKeeps
<1>4. ASSUME ~snapshot.exited, NEW b \in {"help", "breakpoints"}, Show(b) PROVE ViewInv'
  BY <1>4, ShowKeeps
<1>5. CASE ~snapshot.exited /\ ShowLocals
  BY <1>5, ShowLocalsKeeps
<1>6. ASSUME ~snapshot.exited, NEW arg, ExpandLocal(arg) PROVE ViewInv'
  BY <1>6, ExpandLocalKeeps
<1>7. CASE ~snapshot.exited /\ ShowEval
  BY <1>7, ShowEvalKeeps
<1>8. CASE ~snapshot.exited /\ SetBreakpoint
  BY <1>8, SetBreakpointKeeps
<1>9. CASE ~snapshot.exited /\ DebuggerAction
  BY <1>9, DebuggerActionKeeps
<1> QED
  BY <1>1, <1>2, <1>3, <1>4, <1>5, <1>6, <1>7, <1>8, <1>9, Zenon DEF Effect

LEMMA WorldKeeps ==
  ASSUME ViewInv, HaltUnread \/ Interrupt \/ (Interrupted /\ UNCHANGED sticky)
  PROVE  ViewInv'
<1>1. CASE HaltUnread
  <2>1. /\ late /\ ~snapshot.exited
        /\ stop \in 1..MaxStops /\ MaxStops \in Nat
    BY <1>1, MaxStopsAssumption
       DEF HaltUnread, ViewInv, Settled, ExitedIsFinal, TypeOK
  <2>2. stop' \in 1..MaxStops /\ tree' \in Trees /\ debuggee' \in {"held", "exited"}
    BY <1>1, <2>1 DEF HaltUnread, ViewInv, TypeOK
  <2>3. /\ unread' \in BOOLEAN /\ named' \in (UNION Trees) \cup {<<>>}
        /\ UNCHANGED <<late, sticky, snapshot, inspectionVars, cancelled, done>>
    BY <1>1 DEF HaltUnread, ViewInv, TypeOK
  <2>4. late'
    BY <2>1, <2>3, Zenon
  <2> QED
    BY <2>1, <2>2, <2>3, <2>4, BehindTheView
<1>2. CASE Interrupt
  <2>1. /\ UNCHANGED <<debuggee, stop, tree, late, sticky, snapshot, inspectionVars>>
        /\ unread' \in {FALSE, unread}
        /\ named' \in (UNION Trees) \cup {<<>>}
        /\ cancelled' \in BOOLEAN /\ done' \in {"no", "quit", "eof", "canceled"}
    BY <1>2 DEF Interrupt, debuggeeVars, ViewInv, TypeOK
  <2> QED
    BY <2>1, Unmoved
<1>3. CASE Interrupted /\ UNCHANGED sticky
  BY <1>3, LeaveKeeps DEF Interrupted
<1> QED
  BY <1>1, <1>2, <1>3

-----------------------------------------------------------------------------
(* What a command names it shows, and what is shown open stays open.       *)

LEMMA EffectNames ==
  ASSUME Effect
  PROVE  NamedIsShown'
<1>1. ASSUME NEW arg, ExpandLocal(arg), ~NoChange PROVE NamedIsShown'
  <2>1. PICK p \in Branches(tree) :
          LET kept == expanded \cup Remembered(p) IN
          \/ /\ SetInspection("locals", OpenBranches(tree, kept), kept)
             /\ named' = p
          \/ /\ expanded' = kept
             /\ named' = <<>>
             /\ UNCHANGED <<body, bodyStop, rendered>>
    BY <1>1 DEF ExpandLocal
  <2>2. p \in OpenBranches(tree, expanded \cup Remembered(p))
    BY DEF OpenBranches, Remembered
  <2> QED
    BY <2>1, <2>2 DEF NamedIsShown, SetInspection
<1>2. CASE \A arg : ~ExpandLocal(arg) \/ NoChange
  <2>1. named' = <<>>
    BY <1>2, Zenon DEF Effect, Leave, NoChange, Show, ShowLocals, ShowEval, SetBreakpoint,
                       DebuggerAction
  <2> QED
    BY <2>1 DEF NamedIsShown
<1> QED
  BY <1>1, <1>2

LEMMA EffectOpens ==
  ASSUME ViewInv, Effect, ~late', body = "locals", body' = "locals"
  PROVE  rendered \subseteq rendered'
<1>1. CASE UNCHANGED rendered
  BY <1>1
<1>2. CASE ~UNCHANGED rendered
  <2>1. \/ /\ ShowLocals /\ ~NoChange
        \/ \E arg : ExpandLocal(arg) /\ ~NoChange
    <3>1. ASSUME NEW b \in {"output", "help", "breakpoints"} PROVE ~Show(b)
      BY DEF Show, SetInspection
    <3>2. ~NoChange /\ \A how \in {"quit", "eof", "canceled"} : ~Leave(how)
      BY <1>2 DEF NoChange, Leave, inspectionVars
    <3>3. ~ShowEval
      BY <3>2 DEF ShowEval, SetInspection, ClearInspection
    <3>4. ~SetBreakpoint
      BY <1>2, <3>2 DEF SetBreakpoint, ClearInspection, inspectionVars
    <3>5. ~DebuggerAction
      BY <1>2, <3>2
         DEF DebuggerAction, DoStops, DoExits, DoReturnsEarly, DoTimesOut, NewSnapshot,
             ClearInspection, inspectionVars
    <3> QED
      BY <3>1, <3>2, <3>3, <3>4, <3>5, Zenon DEF Effect
  <2>2. ASSUME Fetched PROVE late' = late
    BY <2>2 DEF Fetched, ReadsEvents
  <2>3. CASE ShowLocals /\ ~NoChange
    <3>1. Fetched /\ rendered' = OpenBranches(tree, expanded)
      BY <2>3 DEF ShowLocals, SetInspection
    <3>2. rendered \subseteq OpenBranches(tree, expanded)
      BY <2>2, <3>1, Zenon DEF ViewInv, RenderedIsOpen
    <3> QED
      BY <3>1, <3>2
  <2>4. ASSUME NEW arg, ExpandLocal(arg), ~NoChange PROVE rendered \subseteq rendered'
    <3>1. Fetched
      BY <2>4, Zenon DEF ExpandLocal
    <3>2. PICK p \in Branches(tree) :
            rendered' = OpenBranches(tree, expanded \cup Remembered(p))
      BY <1>2, <2>4 DEF ExpandLocal, SetInspection
    <3>3. rendered \subseteq OpenBranches(tree, expanded)
      BY <2>2, <3>1, Zenon DEF ViewInv, RenderedIsOpen
    <3>4. OpenBranches(tree, expanded) \subseteq OpenBranches(tree, expanded \cup Remembered(p))
      BY OpenGrows
    <3> QED
      BY <3>2, <3>3, <3>4
  <2> QED
    BY <2>1, <2>3, <2>4
<1> QED
  BY <1>1, <1>2

-----------------------------------------------------------------------------
(* The session in line mode.                                               *)

LEMMA Starts == ASSUME Init PROVE IInv
<1> USE DEF Init
<1>1. 1 \in 1..MaxStops
  BY MaxStopsAssumption
<1>2. /\ snapshot \in [exited : BOOLEAN, frame : BOOLEAN, stop : 1..MaxStops]
      /\ snapshot.stop = 1
      /\ snapshot.exited => debuggee = "exited"
  <2>1. ASSUME NEW f \in BOOLEAN, snapshot = StoppedAt(1, f)
        PROVE  /\ snapshot \in [exited : BOOLEAN, frame : BOOLEAN, stop : 1..MaxStops]
               /\ snapshot.stop = 1 /\ ~snapshot.exited
    BY <1>1, <2>1, SnapshotTypes
  <2>2. ASSUME snapshot = ExitedAfter(1)
        PROVE  /\ snapshot \in [exited : BOOLEAN, frame : BOOLEAN, stop : 1..MaxStops]
               /\ snapshot.stop = 1
    BY <1>1, <2>2, SnapshotTypes
  <2> QED
    BY <2>1, <2>2
<1>3. TypeOK
  BY <1>1, <1>2 DEF TypeOK
<1>4. ExitedIsFinal /\ Settled
  BY <1>2 DEF ExitedIsFinal, Settled
<1>5. InspectionIsCurrent /\ RenderedIsOpen /\ NamedIsShown
  BY DEF InspectionIsCurrent, RenderedIsOpen, NamedIsShown
<1> QED
  BY <1>3, <1>4, <1>5 DEF IInv, ViewInv

\* Every step is a command or the world's.
LEMMA StepCases ==
  ASSUME Next
  PROVE  \/ Effect /\ UNCHANGED sticky
         \/ HaltUnread \/ Interrupt
<1>1. ASSUME NEW text \in Commands, ReadLine(text) PROVE Effect /\ UNCHANGED sticky
  BY <1>1, ExecuteEffect DEF ReadLine
<1>2. CASE EndOfInput \/ Interrupted
  BY <1>2 DEF EndOfInput, Interrupted, Effect
<1> QED
  BY <1>1, <1>2 DEF Next

LEMMA StepKeeps == ASSUME IInv, [Next]_vars PROVE IInv'
<1>1. CASE Effect /\ UNCHANGED sticky
  BY <1>1, EffectKeeps, EffectNames DEF IInv
<1>2. CASE HaltUnread \/ Interrupt
  <2>1. NamedIsShown'
    BY <1>2 DEF IInv, HaltUnread, Interrupt, inspectionVars, NamedIsShown
  <2> QED
    BY <1>2, <2>1, WorldKeeps DEF IInv
<1>3. CASE UNCHANGED vars
  <2>1. /\ UNCHANGED <<debuggee, stop, tree, late, sticky, snapshot, inspectionVars>>
        /\ UNCHANGED <<unread, named, cancelled, done>>
    BY <1>3 DEF vars, debuggeeVars
  <2>2. /\ unread' \in {FALSE, unread}
        /\ named' \in (UNION Trees) \cup {<<>>}
        /\ cancelled' \in BOOLEAN /\ done' \in {"no", "quit", "eof", "canceled"}
    BY <2>1 DEF IInv, ViewInv, TypeOK
  <2>3. NamedIsShown'
    BY <2>1 DEF IInv, inspectionVars, NamedIsShown
  <2> QED
    BY <2>1, <2>2, <2>3, Unmoved DEF IInv
<1> QED
  BY <1>1, <1>2, <1>3, StepCases

LEMMA StepOpens ==
  ASSUME IInv, [Next]_vars, ~late', body = "locals", body' = "locals"
  PROVE  rendered \subseteq rendered'
<1>1. CASE Effect
  BY <1>1, EffectOpens DEF IInv
<1>2. CASE HaltUnread \/ Interrupt \/ UNCHANGED vars
  BY <1>2 DEF HaltUnread, Interrupt, vars, inspectionVars
<1> QED
  BY <1>1, <1>2, StepCases

LEMMA Invariance == Spec => []IInv
<1>1. Init => IInv
  BY Starts
<1>2. IInv /\ [Next]_vars => IInv'
  BY StepKeeps
<1> QED
  BY <1>1, <1>2, PTL DEF Spec

\* The variables of the view and of the debuggee stay within their types.
THEOREM Typing == Spec => []TypeOK
<1>1. IInv => TypeOK
  BY DEF IInv, ViewInv
<1> QED
  BY <1>1, Invariance, PTL

\* Whatever variables the debuggee has and whatever commands come before, an
\* inspection and the remembered branches belong to the stop on the screen.
THEOREM Current == Spec => []InspectionIsCurrent
<1>1. IInv => InspectionIsCurrent
  BY DEF IInv, ViewInv
<1> QED
  BY <1>1, Invariance, PTL

\* A variable named in an expansion is shown expanded, at any depth.
THEOREM Named == Spec => []NamedIsShown
<1>1. IInv => NamedIsShown
  BY DEF IInv
<1> QED
  BY <1>1, Invariance, PTL

\* An exit on the screen is final, also with late halts.
THEOREM ExitFinal == Spec => []ExitedIsFinal
<1>1. IInv => ExitedIsFinal
  BY DEF IInv, ViewInv
<1> QED
  BY <1>1, Invariance, PTL

\* Rendering the locals again closes no open branch.
THEOREM StayOpen == Spec => BranchesStayOpen
<1>1. IInv /\ [Next]_vars =>
        [~late' /\ body = "locals" /\ body' = "locals" => rendered \subseteq rendered']_vars
  BY StepOpens
<1> QED
  BY <1>1, Invariance, PTL DEF Spec, BranchesStayOpen
=============================================================================
