--------------------------- MODULE CommandLine_proofs ---------------------------
(***************************************************************************)
(* Proofs about CommandLine, for any keys and any limit of the history:    *)
(* the line, the history and the index agree, the history holds the latest *)
(* commands, and the line is closed when the debuggee has exited.          *)
(*                                                                         *)
(* The four properties hold only together: that the index is zero at top   *)
(* level, where a command may end the debuggee, follows from the browsed   *)
(* command being on an open line; that browsing starts within the history  *)
(* follows from the history's type.  The view's invariant is kept because  *)
(* a key runs a command, closes the inspection or leaves the view alone.   *)
(***************************************************************************)
EXTENDS CommandLine, SessionView_proofs

LineInv == /\ ViewInv
           /\ LineTypeOK
           /\ BrowsingShowsHistory
           /\ HistoryIsRecent
           /\ ExitClosesLine

Written == Texts \ {<<>>}

-----------------------------------------------------------------------------
(* Texts and the history.                                                  *)

LEMMA TextsAreSeqs ==
  ASSUME NEW s
  PROVE  s \in Texts <=> s \in Seq(Keys) /\ Len(s) <= MaxLine + 1
<1> USE LineAssumption
<1>1. ASSUME s \in Texts PROVE s \in Seq(Keys) /\ Len(s) <= MaxLine + 1
  <2>1. PICK n \in 0..MaxLine + 1 : s \in [1..n -> Keys]
    BY <1>1 DEF Texts
  <2> QED
    BY <2>1
<1>2. ASSUME s \in Seq(Keys), Len(s) <= MaxLine + 1 PROVE s \in Texts
  <2>1. Len(s) \in 0..MaxLine + 1 /\ s \in [1..Len(s) -> Keys]
    BY <1>2, LenProperties
  <2> QED
    BY <2>1 DEF Texts
<1> QED
  BY <1>1, <1>2

LEMMA ShortTexts ==
  ASSUME NEW k \in Keys
  PROVE  <<k>> \in Written /\ <<>> \in Texts
<1>1. /\ <<k>> \in Seq(Keys) /\ Len(<<k>>) = 1 /\ <<k>> # <<>>
      /\ <<>> \in Seq(Keys) /\ Len(<<>>) = 0
  OBVIOUS
<1>2. 1 <= MaxLine + 1 /\ 0 <= MaxLine + 1
  BY LineAssumption
<1> QED
  BY <1>1, <1>2, TextsAreSeqs DEF Written

\* What is kept is the end of what there was.
LEMMA KeptLastIsEnd ==
  ASSUME NEW S, NEW s \in Seq(S)
  PROVE  /\ KeptLast(s) \in Seq(S)
         /\ Len(KeptLast(s)) = IF Len(s) < HistoryLimit THEN Len(s) ELSE HistoryLimit
         /\ \A i \in 1..Len(KeptLast(s)) :
              KeptLast(s)[i] = s[Len(s) - Len(KeptLast(s)) + i]
<1> USE LineAssumption
<1>1. Len(s) \in Nat
  BY LenProperties
<1>2. CASE Len(s) <= HistoryLimit
  <2>1. KeptLast(s) = s
    BY <1>1, <1>2 DEF KeptLast
  <2>2. Len(s) = IF Len(s) < HistoryLimit THEN Len(s) ELSE HistoryLimit
    BY <1>1, <1>2
  <2>3. \A i \in 1..Len(s) : Len(s) - Len(s) + i = i
    BY <1>1
  <2> QED
    BY <2>1, <2>2, <2>3
<1>3. CASE Len(s) > HistoryLimit
  <2> DEFINE m == Len(s) - HistoryLimit + 1
             n == Len(s)
  <2>1. KeptLast(s) = SubSeq(s, m, n)
    BY <1>3 DEF KeptLast
  <2>2. m \in Int /\ n \in Int /\ m <= n /\ n - m + 1 = HistoryLimit
    BY <1>1, <1>3
  <2>3. \A i \in m..n : s[i] \in S
    BY <1>1, <1>3, ElementOfSeq
  <2>4. /\ SubSeq(s, m, n) \in Seq(S)
        /\ Len(SubSeq(s, m, n)) = HistoryLimit
        /\ \A i \in 1..n - m + 1 : SubSeq(s, m, n)[i] = s[m + i - 1]
    <3> HIDE DEF m, n
    <3> QED
      BY <2>2, <2>3, SubSeqProperties
  <2> QED
    BY <1>1, <1>3, <2>1, <2>4
<1> QED
  BY <1>1, <1>2, <1>3

\* Running a command keeps the history recent.
LEMMA RunKeepsHistory ==
  ASSUME LineTypeOK, HistoryIsRecent, NEW text \in Texts, Run(text)
  PROVE  /\ history' \in Seq(Written) /\ Len(history') <= HistoryLimit
         /\ ran' \in Seq(Written)
         /\ HistoryIsRecent'
<1> USE LineAssumption
<1>0. /\ history \in Seq(Written) /\ ran \in Seq(Written)
      /\ Len(history) \in Nat /\ Len(ran) \in Nat
      /\ Len(history) <= HistoryLimit
  BY LenProperties DEF LineTypeOK, Written
<1>1. CASE text = <<>>
  <2>1. history' = history /\ ran' = ran
    BY <1>1 DEF Run
  <2> QED
    BY <1>0, <2>1 DEF HistoryIsRecent
<1>2. CASE text # <<>>
  <2> DEFINE h == Append(history, text)
             r == Append(ran, text)
  <2>1. history' = KeptLast(h) /\ ran' = r /\ text \in Written
    BY <1>2 DEF Run, Written
  <2>2. /\ h \in Seq(Written) /\ Len(h) = Len(history) + 1
        /\ \A i \in 1..Len(history) : h[i] = history[i]
        /\ h[Len(h)] = text
    BY <1>0, <2>1, AppendProperties
  <2>3. /\ r \in Seq(Written) /\ Len(r) = Len(ran) + 1
        /\ \A i \in 1..Len(ran) : r[i] = ran[i]
        /\ r[Len(r)] = text
    BY <1>0, <2>1, AppendProperties
  <2> HIDE DEF h, r
  <2>4. /\ KeptLast(h) \in Seq(Written)
        /\ Len(KeptLast(h)) = IF Len(h) < HistoryLimit THEN Len(h) ELSE HistoryLimit
        /\ \A i \in 1..Len(KeptLast(h)) :
             KeptLast(h)[i] = h[Len(h) - Len(KeptLast(h)) + i]
    BY <2>2, KeptLastIsEnd
  <2>5. /\ Len(history) = IF Len(ran) < HistoryLimit THEN Len(ran) ELSE HistoryLimit
        /\ \A i \in 1..Len(history) : history[i] = ran[Len(ran) - Len(history) + i]
    BY DEF HistoryIsRecent
  <2>6. Len(KeptLast(h)) = IF Len(r) < HistoryLimit THEN Len(r) ELSE HistoryLimit
    BY <1>0, <2>2, <2>3, <2>4, <2>5
  <2>7. ASSUME NEW i \in 1..Len(KeptLast(h))
        PROVE  KeptLast(h)[i] = r[Len(r) - Len(KeptLast(h)) + i]
    <3> DEFINE j == Len(h) - Len(KeptLast(h)) + i
    <3>0. Len(h) \in Nat /\ Len(KeptLast(h)) \in Nat /\ i \in Nat
      BY <1>0, <2>2, <2>4
    <3>1. j \in 1..Len(h)
      BY <2>4, <3>0
    <3>2. KeptLast(h)[i] = h[j]
      BY <2>4
    <3>3. CASE j = Len(h)
      <4>0. Len(r) \in Nat
        BY <1>0, <2>3
      <4>1. Len(r) - Len(KeptLast(h)) + i = Len(r)
        BY <3>0, <3>3, <4>0
      <4> QED
        BY <2>2, <2>3, <3>2, <3>3, <4>1
    <3>4. CASE j < Len(h)
      <4>1. j \in 1..Len(history)
        BY <1>0, <2>2, <3>1, <3>4
      <4>2. h[j] = ran[Len(ran) - Len(history) + j]
        BY <2>2, <2>5, <4>1
      <4>3. Len(history) <= Len(ran)
        BY <1>0, <2>5
      <4>4. Len(ran) - Len(history) + j = Len(r) - Len(KeptLast(h)) + i
        BY <1>0, <2>2, <2>3, <3>0
      <4>5. Len(ran) - Len(history) + j \in 1..Len(ran)
        <5> HIDE DEF j
        <5> QED
          BY <1>0, <4>1, <4>3
      <4> QED
        BY <2>3, <3>2, <4>2, <4>4, <4>5
    <3> QED
      BY <3>1, <3>3, <3>4
  <2>8. /\ Len(history') = IF Len(ran') < HistoryLimit THEN Len(ran') ELSE HistoryLimit
        /\ \A i \in 1..Len(history') : history'[i] = ran'[Len(ran') - Len(history') + i]
    BY <2>1, <2>6, <2>7
  <2>9. Len(history') <= HistoryLimit
    BY <2>1, <2>3, <2>8, LenProperties
  <2> QED
    BY <2>1, <2>3, <2>4, <2>8, <2>9 DEF HistoryIsRecent
<1> QED
  BY <1>1, <1>2

-----------------------------------------------------------------------------
(* Three kinds of keys: those that run a command, those that edit the line *)
(* and those that leave the line alone.                                    *)

LEMMA ViewUnchanged ==
  ASSUME ViewInv, UNCHANGED viewVars
  PROVE  ViewInv'
<1>1. /\ UNCHANGED <<debuggee, stop, tree, late, sticky, snapshot, inspectionVars>>
      /\ UNCHANGED <<unread, named, cancelled, done>>
  BY DEF viewVars, debuggeeVars
<1>2. /\ unread' \in {FALSE, unread}
      /\ named' \in (UNION Trees) \cup {<<>>}
      /\ cancelled' \in BOOLEAN /\ done' \in {"no", "quit", "eof", "canceled"}
  BY <1>1 DEF ViewInv, TypeOK
<1> QED
  BY <1>1, <1>2, Unmoved

\* A command runs with the line closed.
LEMMA RunKeeps ==
  ASSUME LineInv, NEW text \in Texts, Run(text),
         commandMode' = FALSE, index' = 0, buf' \in Texts, draft' \in Texts
  PROVE  LineInv'
<1>1. ViewInv'
  BY ExecuteEffect, EffectKeeps DEF Run, LineInv
<1>2. /\ history' \in Seq(Written) /\ Len(history') <= HistoryLimit
      /\ ran' \in Seq(Written)
      /\ HistoryIsRecent'
  BY RunKeepsHistory DEF LineInv
<1>3. index' \in 0..HistoryLimit
  BY LineAssumption
<1>4. LineTypeOK'
  BY <1>1, <1>2, <1>3 DEF LineTypeOK, ViewInv, Written
<1>5. BrowsingShowsHistory' /\ ExitClosesLine'
  BY DEF BrowsingShowsHistory, ExitClosesLine
<1> QED
  BY <1>1, <1>2, <1>4, <1>5 DEF LineInv

\* The line changes while the debuggee has not exited.
LEMMA EditKeeps ==
  ASSUME LineInv, ~snapshot.exited, UNCHANGED <<viewVars, history, ran>>,
         commandMode' \in BOOLEAN, buf' \in Texts, draft' \in Texts,
         index' \in 0..Len(history),
         index' > 0 => commandMode' = TRUE /\ buf' = history[index']
  PROVE  LineInv'
<1>1. ViewInv'
  BY ViewUnchanged DEF LineInv
<1>2. /\ history \in Seq(Written) /\ ran \in Seq(Written)
      /\ Len(history) \in Nat /\ Len(history) <= HistoryLimit
  BY LenProperties DEF LineInv, LineTypeOK, Written
<1>3. index' \in 0..HistoryLimit
  BY <1>2, LineAssumption
<1>4. LineTypeOK'
  BY <1>1, <1>2, <1>3 DEF LineTypeOK, ViewInv, Written
<1>5. HistoryIsRecent'
  BY DEF HistoryIsRecent, LineInv
<1>6. BrowsingShowsHistory'
  BY <1>2 DEF BrowsingShowsHistory
<1>7. ExitClosesLine'
  BY DEF ExitClosesLine, viewVars
<1> QED
  BY <1>1, <1>4, <1>5, <1>6, <1>7 DEF LineInv

LEMMA StillKeeps ==
  ASSUME LineInv, ViewInv', UNCHANGED <<snapshot, lineVars, history, ran>>
  PROVE  LineInv'
<1> USE DEF LineInv, lineVars, browseVars
<1>1. LineTypeOK'
  BY DEF LineTypeOK, ViewInv
<1>2. BrowsingShowsHistory' /\ HistoryIsRecent' /\ ExitClosesLine'
  BY DEF BrowsingShowsHistory, HistoryIsRecent, ExitClosesLine
<1> QED
  BY <1>1, <1>2

-----------------------------------------------------------------------------
(* Key by key.                                                             *)

LEMMA LineTypes ==
  ASSUME LineInv
  PROVE  /\ commandMode \in BOOLEAN
         /\ buf \in Texts /\ draft \in Texts
         /\ <<>> \in Texts
         /\ history \in Seq(Written) /\ Len(history) \in Nat
         /\ \A i \in 1..Len(history) : history[i] \in Texts
         /\ index \in 0..Len(history)
<1>1. /\ commandMode \in BOOLEAN /\ buf \in Texts /\ draft \in Texts
      /\ history \in Seq(Written) /\ index \in Nat
  BY LineAssumption DEF LineInv, LineTypeOK, Written
<1>2. Len(history) \in Nat /\ \A i \in 1..Len(history) : history[i] \in Written
  BY <1>1, LenProperties, ElementOfSeq
<1>3. index \in 0..Len(history)
  BY <1>1, <1>2 DEF LineInv, BrowsingShowsHistory
<1>4. <<>> \in Texts
  BY ShortTexts, LineAssumption
<1> QED
  BY <1>1, <1>2, <1>3, <1>4 DEF Written

\* At top level the history is not browsed; on the line the debuggee lives.
LEMMA Modes ==
  ASSUME LineInv
  PROVE  /\ ~commandMode => index = 0
         /\ commandMode => ~snapshot.exited
<1>1. index \in Nat
  BY LineTypes
<1>2. ~(index > 0) => index = 0
  BY <1>1
<1>3. ~commandMode => ~(index > 0)
  BY Zenon DEF LineInv, BrowsingShowsHistory
<1>4. commandMode => ~snapshot.exited
  BY Zenon DEF LineInv, ExitClosesLine
<1> QED
  BY <1>2, <1>3, <1>4, Zenon

LEMMA LeaveLoopKeeps ==
  ASSUME LineInv, NEW how \in {"quit", "canceled"}, LeaveLoop(how)
  PROVE  LineInv'
<1>1. Leave(how) /\ UNCHANGED <<sticky, lineVars, history, ran>>
  BY DEF LeaveLoop
<1>2. ViewInv' /\ UNCHANGED snapshot
  BY <1>1, LeaveKeeps DEF LineInv, Leave
<1> QED
  BY <1>1, <1>2, StillKeeps

\* A key at top level runs a word.
LEMMA TopRunKeeps ==
  ASSUME LineInv, NEW k \in Keys, ~commandMode, Run(<<k>>), UNCHANGED lineVars
  PROVE  LineInv'
<1>1. <<k>> \in Texts
  BY ShortTexts DEF Written
<1>2. commandMode = FALSE
  BY LineTypes
<1>3. /\ commandMode' = FALSE /\ index' = 0
      /\ buf' \in Texts /\ draft' \in Texts
  BY <1>2, LineTypes, Modes DEF lineVars, browseVars
<1> QED
  BY <1>1, <1>3, RunKeeps

LEMMA KeyKeeps ==
  ASSUME LineInv, NEW k \in Keys, KeyAfterExit(k) \/ KeyCommand(k) \/ KeyWrites(k)
  PROVE  LineInv'
<1>1. CASE KeyAfterExit(k)
  BY <1>1, TopRunKeeps, LeaveLoopKeeps DEF KeyAfterExit
<1>2. CASE KeyCommand(k)
  BY <1>2, TopRunKeeps DEF KeyCommand, AtTop
<1>3. CASE KeyWrites(k)
  <2>1. /\ commandMode /\ ~snapshot.exited
    BY <1>3, Modes, Zenon DEF KeyWrites, OnLine
  <2>2. /\ Len(buf) <= MaxLine /\ buf' = Append(buf, k)
        /\ index' = 0 /\ draft' = <<>> /\ commandMode' = commandMode
        /\ UNCHANGED <<viewVars, history, ran>>
    BY <1>3 DEF KeyWrites, LeaveHistory, Browse
  <2>3. buf' \in Texts
    <3>1. buf \in Seq(Keys) /\ Len(buf) \in Nat
      BY LineTypes, TextsAreSeqs, LenProperties
    <3>2. buf' \in Seq(Keys) /\ Len(buf') = Len(buf) + 1
      BY <2>2, <3>1, AppendProperties
    <3>3. Len(buf') <= MaxLine + 1
      BY <2>2, <3>1, <3>2, LineAssumption
    <3> QED
      BY <3>2, <3>3, TextsAreSeqs
  <2>4. 0 \in 0..Len(history) /\ ~(0 > 0)
    BY LineTypes
  <2> QED
    BY <2>1, <2>2, <2>3, <2>4, LineTypes, EditKeeps
<1> QED
  BY <1>1, <1>2, <1>3

LEMMA ColonKeeps ==
  ASSUME LineInv, KeyColon
  PROVE  LineInv'
<1>1. /\ ~snapshot.exited
      /\ commandMode' = TRUE /\ buf' = <<":">> /\ index' = 0 /\ draft' = <<>>
      /\ UNCHANGED <<viewVars, history, ran>>
  BY DEF KeyColon, AtTop, LeaveHistory, Browse
<1>2. <<":">> \in Texts
  BY ShortTexts, LineAssumption DEF Written
<1>3. 0 \in 0..Len(history) /\ ~(0 > 0)
  BY LineTypes
<1> QED
  BY <1>1, <1>2, <1>3, LineTypes, EditKeeps

LEMMA EnterKeeps ==
  ASSUME LineInv, KeyEnter
  PROVE  LineInv'
<1>1. /\ Run(buf)
      /\ commandMode' = FALSE /\ buf' = <<>> /\ index' = 0 /\ draft' = <<>>
  BY DEF KeyEnter, LeaveHistory, Browse
<1> QED
  BY <1>1, LineTypes, RunKeeps

LEMMA EscKeeps ==
  ASSUME LineInv, KeyEsc
  PROVE  LineInv'
<1>1. CASE /\ OnLine
           /\ commandMode' = FALSE /\ buf' = <<>>
           /\ LeaveHistory
           /\ UNCHANGED <<viewVars, history, ran>>
  <2>1. ~snapshot.exited
    BY <1>1, Modes, Zenon DEF OnLine
  <2>2. index' = 0 /\ draft' = <<>>
    BY <1>1 DEF LeaveHistory, Browse
  <2>3. 0 \in 0..Len(history) /\ ~(0 > 0)
    BY LineTypes
  <2> QED
    BY <1>1, <2>1, <2>2, <2>3, LineTypes, EditKeeps
<1>2. CASE /\ AtTop /\ body # "none"
           /\ ClearInspection
           /\ named' = <<>>
           /\ UNCHANGED <<debuggeeVars, sticky, snapshot, cancelled, done, lineVars,
                          history, ran>>
  <2>1. /\ UNCHANGED <<debuggee, stop, tree, late, sticky, snapshot, cancelled, done>>
        /\ unread' = unread /\ named' = <<>>
    BY <1>2 DEF debuggeeVars
  <2>2. unread' \in {FALSE, unread} /\ named' \in (UNION Trees) \cup {<<>>}
    BY <2>1
  <2>3. ViewInv'
    BY <1>2, <2>1, <2>2, ClearKeeps DEF LineInv
  <2> QED
    BY <1>2, <2>3, StillKeeps
<1> QED
  BY <1>1, <1>2 DEF KeyEsc

LEMMA UpKeeps ==
  ASSUME LineInv, KeyUp
  PROVE  LineInv'
<1>1. PICK i \in {Len(history), index - 1, 1} :
        /\ i \in 1..Len(history)
        /\ index' = i /\ buf' = history[i]
  <2> DEFINE i == IF AtTop \/ index = 0 THEN Len(history)
                  ELSE IF index > 1 THEN index - 1 ELSE 1
  <2>1. index' = i /\ buf' = history[i] /\ history # <<>>
    BY DEF KeyUp, Browse
  <2>2. Len(history) \in Nat \ {0}
    BY <2>1, LineTypes, EmptySeq
  <2>3. i \in 1..Len(history)
    BY <2>2, LineTypes
  <2> QED
    BY <2>1, <2>3
<1>2. draft' \in {<<>>, buf, draft} /\ commandMode' = TRUE
      /\ UNCHANGED <<viewVars, history, ran>>
  BY DEF KeyUp, Browse
<1>3. ~snapshot.exited
  BY Modes, Zenon DEF KeyUp, AtTop, OnLine
<1>4. i \in 0..Len(history) /\ buf' \in Texts /\ draft' \in Texts
  BY <1>1, <1>2, LineTypes
<1> QED
  BY <1>1, <1>2, <1>3, <1>4, EditKeeps

LEMMA DownKeeps ==
  ASSUME LineInv, KeyDown
  PROVE  LineInv'
<1>1. /\ commandMode /\ ~snapshot.exited
      /\ UNCHANGED <<commandMode, viewVars, history, ran>>
  BY Modes, Zenon DEF KeyDown, OnLine
<1>2. commandMode' = TRUE
  BY <1>1, LineTypes
<1>3. CASE index < Len(history)
  <2>1. index' = index + 1 /\ draft' = draft /\ buf' = history[index + 1]
    BY <1>3 DEF KeyDown, Browse
  <2>2. index + 1 \in 1..Len(history)
    BY <1>3, LineTypes
  <2>3. index' \in 0..Len(history) /\ buf' \in Texts /\ draft' \in Texts
    BY <2>1, <2>2, LineTypes
  <2> QED
    BY <1>1, <1>2, <2>1, <2>3, EditKeeps
<1>4. CASE ~(index < Len(history))
  <2>1. index' = 0 /\ draft' = <<>> /\ buf' = draft
    BY <1>4 DEF KeyDown, LeaveHistory, Browse
  <2>2. 0 \in 0..Len(history) /\ ~(0 > 0)
    BY LineTypes
  <2> QED
    BY <1>1, <1>2, <2>1, <2>2, LineTypes, EditKeeps
<1> QED
  BY <1>3, <1>4

LEMMA BackspaceKeeps ==
  ASSUME LineInv, KeyBackspace
  PROVE  LineInv'
<1>1. /\ commandMode /\ ~snapshot.exited
  BY Modes, Zenon DEF KeyBackspace, OnLine
<1>2. /\ buf # <<>> /\ buf' = SubSeq(buf, 1, Len(buf) - 1)
      /\ index' = 0 /\ draft' = <<>> /\ commandMode' = commandMode
      /\ UNCHANGED <<viewVars, history, ran>>
  BY DEF KeyBackspace, LeaveHistory, Browse
<1>3. buf' \in Texts
  <2>1. buf \in Seq(Keys) /\ Len(buf) \in Nat \ {0} /\ Len(buf) <= MaxLine + 1
    BY <1>2, LineTypes, TextsAreSeqs, EmptySeq
  <2>2. \A i \in 1..Len(buf) - 1 : buf[i] \in Keys
    BY <2>1, ElementOfSeq
  <2>3. /\ buf' \in Seq(Keys)
        /\ Len(buf') = IF 1 <= Len(buf) - 1 THEN Len(buf) - 1 - 1 + 1 ELSE 0
    BY <1>2, <2>1, <2>2, SubSeqProperties
  <2> QED
    BY <2>1, <2>3, TextsAreSeqs, LineAssumption
<1>4. 0 \in 0..Len(history) /\ ~(0 > 0)
  BY LineTypes
<1> QED
  BY <1>1, <1>2, <1>3, <1>4, LineTypes, EditKeeps

LEMMA ElsewhereKeeps ==
  ASSUME LineInv, Elsewhere
  PROVE  LineInv'
<1>1. /\ HaltUnread \/ Interrupt \/ (Interrupted /\ UNCHANGED sticky)
      /\ UNCHANGED <<snapshot, lineVars, history, ran>>
  BY DEF Elsewhere, HaltUnread, Interrupt, Interrupted, Leave
<1>2. ViewInv'
  BY <1>1, WorldKeeps DEF LineInv
<1> QED
  BY <1>1, <1>2, StillKeeps

-----------------------------------------------------------------------------
(* What the keys do to the view: they run a command, close the inspection  *)
(* or leave what it shows alone.                                           *)

LEMMA KeyEffects ==
  ASSUME TTYNext
  PROVE  \/ Effect
         \/ body' = "none" /\ named' = <<>>
         \/ UNCHANGED <<body, rendered, named>>
<1>1. ASSUME NEW text, Run(text) PROVE Effect
  BY <1>1, ExecuteEffect DEF Run
<1>2. ASSUME NEW how \in {"quit", "canceled"}, LeaveLoop(how) PROVE Effect
  BY <1>2 DEF LeaveLoop, Effect
<1>3. ASSUME NEW k \in Keys, KeyAfterExit(k) \/ KeyCommand(k) \/ KeyWrites(k)
      PROVE  Effect \/ UNCHANGED <<body, rendered, named>>
  <2>1. CASE KeyAfterExit(k)
    BY <1>1, <1>2, <2>1 DEF KeyAfterExit
  <2>2. CASE KeyCommand(k)
    BY <1>1, <2>2 DEF KeyCommand
  <2>3. CASE KeyWrites(k)
    BY <2>3 DEF KeyWrites, viewVars, inspectionVars
  <2> QED
    BY <1>3, <2>1, <2>2, <2>3
<1>4. CASE KeyCtrlC \/ KeyCtrlD \/ KeyQuit \/ KeyEnter
  <2>1. CASE KeyEnter
    BY <1>1, <2>1 DEF KeyEnter
  <2>2. CASE KeyCtrlC \/ KeyCtrlD \/ KeyQuit
    BY <1>2, <2>2 DEF KeyCtrlC, KeyCtrlD, KeyQuit
  <2> QED
    BY <1>4, <2>1, <2>2
<1>5. CASE KeyColon \/ KeyUp \/ KeyDown \/ KeyBackspace
  <2>1. UNCHANGED viewVars
    BY <1>5, Zenon DEF KeyColon, KeyUp, KeyDown, KeyBackspace
  <2> QED
    BY <2>1 DEF viewVars, inspectionVars
<1>6. CASE KeyEsc
  BY <1>6 DEF KeyEsc, ClearInspection, viewVars, inspectionVars
<1>7. CASE Elsewhere
  <2>1. Interrupt \/ HaltUnread => UNCHANGED <<body, rendered, named>>
    BY DEF Interrupt, HaltUnread, inspectionVars
  <2>2. Interrupted => Effect
    BY DEF Interrupted, Effect
  <2> QED
    BY <1>7, <2>1, <2>2 DEF Elsewhere
<1> QED
  BY <1>3, <1>4, <1>5, <1>6, <1>7 DEF TTYNext

LEMMA KeysName ==
  ASSUME NamedIsShown, [TTYNext]_ttyVars
  PROVE  NamedIsShown'
<1>1. \/ Effect \/ named' = <<>> \/ UNCHANGED <<rendered, named>>
  BY KeyEffects DEF ttyVars, viewVars, inspectionVars
<1> QED
  BY <1>1, EffectNames DEF NamedIsShown

LEMMA KeysOpen ==
  ASSUME LineInv, [TTYNext]_ttyVars, ~late', body = "locals", body' = "locals"
  PROVE  rendered \subseteq rendered'
<1>1. \/ Effect \/ UNCHANGED rendered
  BY KeyEffects DEF ttyVars, viewVars, inspectionVars
<1> QED
  BY <1>1, EffectOpens DEF LineInv

-----------------------------------------------------------------------------
LEMMA LineStarts == ASSUME TTYInit PROVE LineInv
<1>1. ViewInv
  BY Starts DEF TTYInit, IInv
<1>2. <<>> \in Texts
  BY ShortTexts, LineAssumption
<1>3. /\ <<>> \in Seq(Texts \ {<<>>}) /\ Len(<<>>) = 0
      /\ 0 <= HistoryLimit /\ 0 \in 0..HistoryLimit
  BY EmptySeq, LineAssumption
<1>4. LineTypeOK
  <2>1. /\ commandMode \in BOOLEAN /\ buf \in Texts /\ draft \in Texts
        /\ index \in 0..HistoryLimit
    BY <1>2, <1>3 DEF TTYInit
  <2>2. /\ history \in Seq(Texts \ {<<>>}) /\ ran \in Seq(Texts \ {<<>>})
        /\ Len(history) <= HistoryLimit
    BY <1>3 DEF TTYInit
  <2> QED
    BY <1>1, <2>1, <2>2 DEF LineTypeOK, ViewInv
<1>5. BrowsingShowsHistory /\ ExitClosesLine
  BY DEF TTYInit, BrowsingShowsHistory, ExitClosesLine
<1>6. HistoryIsRecent
  BY <1>3, LineAssumption DEF TTYInit, HistoryIsRecent
<1> QED
  BY <1>1, <1>4, <1>5, <1>6 DEF LineInv

LEMMA LineStepKeeps == ASSUME LineInv, [TTYNext]_ttyVars PROVE LineInv'
<1>1. ASSUME NEW k \in Keys, KeyAfterExit(k) \/ KeyCommand(k) \/ KeyWrites(k) PROVE LineInv'
  BY <1>1, KeyKeeps
<1>2. CASE KeyCtrlC \/ KeyCtrlD \/ KeyQuit
  BY <1>2, LeaveLoopKeeps DEF KeyCtrlC, KeyCtrlD, KeyQuit
<1>3. CASE UNCHANGED ttyVars
  <2>1. UNCHANGED viewVars /\ UNCHANGED <<snapshot, lineVars, history, ran>>
    BY <1>3 DEF ttyVars, viewVars
  <2> QED
    BY <2>1, ViewUnchanged, StillKeeps DEF LineInv
<1> QED
  BY <1>1, <1>2, <1>3, ColonKeeps, EnterKeeps, EscKeeps, UpKeeps, DownKeeps,
     BackspaceKeeps, ElsewhereKeeps DEF TTYNext

LEMMA LineInvariance == TTYSpec => []LineInv
<1>1. TTYInit => LineInv
  BY LineStarts
<1>2. LineInv /\ [TTYNext]_ttyVars => LineInv'
  BY LineStepKeeps
<1> QED
  BY <1>1, <1>2, PTL DEF TTYSpec

\* The line, the history and the view stay within their types; in particular the
\* history stays within its limit.
THEOREM LineTyping == TTYSpec => []LineTypeOK
<1>1. LineInv => LineTypeOK
  BY DEF LineInv
<1> QED
  BY <1>1, LineInvariance, PTL

\* Whatever is typed, run and dropped, the index names the command on the line.
THEOREM Browsing == TTYSpec => []BrowsingShowsHistory
<1>1. LineInv => BrowsingShowsHistory
  BY DEF LineInv
<1> QED
  BY <1>1, LineInvariance, PTL

\* For every limit the history is the end of the commands run.
THEOREM Recent == TTYSpec => []HistoryIsRecent
<1>1. LineInv => HistoryIsRecent
  BY DEF LineInv
<1> QED
  BY <1>1, LineInvariance, PTL

\* No command can be typed at a debuggee that has exited.
THEOREM ExitCloses == TTYSpec => []ExitClosesLine
<1>1. LineInv => ExitClosesLine
  BY DEF LineInv
<1> QED
  BY <1>1, LineInvariance, PTL

\* What is proved of the view in line mode holds under the keys too: an inspection
\* belongs to the stop on the screen, a variable named in an expansion is shown, an
\* exit on the screen is final, and no open branch closes when the locals are shown
\* again.
THEOREM ViewAtTTY ==
  TTYSpec => /\ [](InspectionIsCurrent /\ NamedIsShown /\ ExitedIsFinal)
             /\ BranchesStayOpen
<1>1. LineInv => InspectionIsCurrent /\ ExitedIsFinal
  BY DEF LineInv, ViewInv
<1>2. TTYInit => NamedIsShown
  BY DEF TTYInit, Init, NamedIsShown
<1>3. NamedIsShown /\ [TTYNext]_ttyVars => NamedIsShown'
  BY KeysName
<1>4. LineInv /\ [TTYNext]_ttyVars =>
        [~late' /\ body = "locals" /\ body' = "locals" => rendered \subseteq rendered']_vars
  BY KeysOpen
<1> QED
  BY <1>1, <1>2, <1>3, <1>4, LineInvariance, PTL DEF TTYSpec, BranchesStayOpen
=================================================================================
