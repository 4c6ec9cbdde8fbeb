------------------------- MODULE AsyncReader_proofs -------------------------
(***************************************************************************)
(* Proofs about AsyncReader for any set of item kinds and any number of    *)
(* items: the reader is typed, and however many reads the loop abandons,   *)
(* what Next returns is the input in order, nothing lost and nothing       *)
(* duplicated.                                                             *)
(***************************************************************************)
EXTENDS AsyncReader, SequenceTheorems, TLAPS

\* A sequence of at most one element is empty or a singleton.
LEMMA ShortSeq ==
  ASSUME NEW S, NEW s \in Seq(S), Len(s) <= 1, s # <<>>
  PROVE  /\ Len(s) = 1 /\ Head(s) \in S /\ Head(s) = s[1]
         /\ Tail(s) = <<>>
<1>1. Len(s) = 1
  <2>1. Len(s) \in Nat \ {0}
    BY EmptySeq, Zenon
  <2>2. \A n \in Nat \ {0} : n <= 1 => n = 1
    OBVIOUS
  <2> QED
    BY <2>1, <2>2, Zenon
<1>2. Head(s) \in S /\ Tail(s) \in Seq(S) /\ Len(Tail(s)) = 0
  BY <1>1, HeadTailProperties
<1>3. Tail(s) = <<>>
  BY <1>2, EmptySeq
<1> QED
  BY <1>1, <1>2, <1>3

\* Every variable keeps its type, the channel its capacity of one, and the
\* goroutine never counts an item that was not typed.
THEOREM Typing == Spec => []TypeOK
<1>1. Init => TypeOK
  <2>1. <<>> \in Seq(ItemKinds) /\ <<>> \in Seq(Nat) /\ <<>> \in Seq(Result) /\ Len(<<>>) = 0
    BY EmptySeq, Zenon
  <2>2. SUFFICES ASSUME Init PROVE TypeOK
    OBVIOUS
  <2>3. /\ typed \in Seq(ItemKinds) /\ results \in Seq(Result) /\ delivered \in Seq(Nat)
        /\ Len(typed) = 0 /\ Len(results) = 0
    BY <2>1, <2>2, Zenon DEF Init
  <2>4. /\ hungUp = FALSE /\ cancelled = FALSE /\ expired = FALSE
        /\ taken = 0 /\ ahead = 0 /\ held \in Result
        /\ input \in {"terminal", "pipe"}
        /\ gpc = "recv" /\ mpc = "next" /\ waiting = "key"
    BY <2>2 DEF Init, EndOfInput, Result
  <2>5. taken \in 0..Len(typed) /\ ahead \in 0..taken /\ Len(results) <= ResultsCap
    BY <2>3, <2>4 DEF ResultsCap
  <2> QED
    BY <2>3, <2>4, <2>5, Zenon DEF TypeOK
<1>2. TypeOK /\ [Next]_vars => TypeOK'
  <2> SUFFICES ASSUME TypeOK, [Next]_vars PROVE TypeOK'
    OBVIOUS
  <2> USE DEF TypeOK, ResultsCap, ItemKinds
  <2>1. ASSUME NEW k \in Kinds, TypeKey(k) PROVE TypeOK'
    BY <2>1 DEF TypeKey, goVars, loopVars
  <2>2. CASE HangUp
    <3>1. typed' \in Seq(ItemKinds) /\ Len(typed') \in Nat /\ Len(typed') >= Len(typed)
      <4>1. CASE UNCHANGED typed
        BY <4>1, LenProperties
      <4>2. CASE typed' = Append(typed, "partial")
        BY <4>2, AppendProperties, LenProperties
      <4> QED
        BY <2>2, <4>1, <4>2 DEF HangUp
    <3>2. taken \in 0..Len(typed')
      BY <3>1, LenProperties
    <3> QED
      BY <2>2, <3>1, <3>2 DEF HangUp, goVars, loopVars
  <2>3. CASE Cancel
    BY <2>3 DEF Cancel, goVars, loopVars
  <2>4. CASE Expire
    BY <2>4 DEF Expire, goVars, envVars
  <2>5. CASE NextChecksContext
    BY <2>5 DEF NextChecksContext, ReturnContextError, goVars, envVars
  <2>6. CASE NextStarts
    BY <2>6 DEF NextStarts, goVars, envVars
  <2>7. CASE SelectDone
    BY <2>7 DEF SelectDone, ReturnContextError, goVars, envVars
  <2>8. CASE RecvItem
    <3>1. AfterReceive \in Seq(Result) /\ Len(AfterReceive) <= 1
      BY ShortSeq DEF AfterReceive
    <3>3. Received \in Result
      BY ShortSeq DEF Received, EndOfInput, Result
    <3>4. Received.item \in Nat
      BY <3>3 DEF Result
    <3>5. delivered' \in Seq(Nat)
      BY <2>8, <3>4 DEF RecvItem
    <3>2. /\ mpc' \in {"next", "done"} /\ expired' \in BOOLEAN
          /\ waiting' \in {"key", "escape", "sequence"}
      BY <2>8 DEF RecvItem, Consume
    <3> QED
      BY <2>8, <3>1, <3>5, <3>2 DEF RecvItem, goVars, envVars
  <2>9. CASE RecvError
    <3>1. AfterReceive \in Seq(Result) /\ Len(AfterReceive) <= 1
      BY ShortSeq DEF AfterReceive
    <3> QED
      BY <2>9, <3>1 DEF RecvError, goVars, envVars
  <2>10. CASE Handoff
    BY <2>10 DEF Handoff, envVars, bufferVars
  <2>11. CASE GRead
    <3>1. Len(typed) \in Nat /\ \A n \in Nat : ResultOf(n) \in Result
      BY DEF ResultOf, Result
    <3>2. taken' \in 0..Len(typed) /\ ahead' \in 0..taken'
      BY <2>11, <3>1 DEF GRead, Take, bufferVars
    <3>3. EndOfInput \in Result /\ taken + 1 \in Nat /\ (ahead > 0 => taken - ahead + 1 \in Nat)
      BY DEF EndOfInput, Result
    <3>4. held' \in Result
      <4>1. \/ \E n \in 1..(Len(typed) - taken) : held' = ResultOf(taken + 1)
            \/ held' = ResultOf(taken + 1)
            \/ ahead > 0 /\ held' = ResultOf(taken - ahead + 1)
            \/ held' = EndOfInput
        BY <2>11, Zenon DEF GRead, Take
      <4> QED
        BY <3>1, <3>3, <4>1
    <3> QED
      BY <2>11, <3>2, <3>4 DEF GRead, envVars, loopVars
  <2>12. CASE GSend
    <3>1. gpc' \in {"recv", "done"}
      BY <2>12 DEF GSend
    <3>2. results' \in Seq(Result) /\ Len(results') <= 1
      BY <2>12 DEF GSend
    <3> QED
      BY <2>12, <3>1, <3>2 DEF GSend, envVars, loopVars, bufferVars
  <2>13. CASE GExit
    BY <2>13 DEF GExit, envVars, loopVars, bufferVars
  <2>14. CASE UNCHANGED vars
    BY <2>14 DEF vars
  <2> QED
    BY <2>1, <2>2, <2>3, <2>4, <2>5, <2>6, <2>7, <2>8, <2>9, <2>10, <2>11,
       <2>12, <2>13, <2>14 DEF Next, LoopStep, ReaderStep
<1> QED
  BY <1>1, <1>2, PTL DEF Spec

-----------------------------------------------------------------------------
\* A result that says what it carries, and whose end of input is the end.
Reports(res) == /\ res.item = 0 => res.eof
                /\ res.item # 0 => (res.eof <=> typed[res.item] = "partial")
                /\ res.eof => hungUp /\ taken = Len(typed) /\ ahead = 0

\* Only the last item of an input that has ended is unterminated.
PartialIsLast ==
  \A i \in 1..Len(typed) : typed[i] = "partial" => hungUp /\ i = Len(typed)

\* Where the items taken from the input are: the channel holds the next one to
\* deliver, the goroutine the last one out of the buffer, and the end of the
\* input comes after all of them.
PipeInv ==
  /\ NothingLost
  /\ PartialIsLast
  /\ input = "terminal" => ahead = 0
  /\ results # <<>> => Reports(Head(results))
  /\ results # <<>> /\ Head(results).item # 0 => Head(results).item = Len(delivered) + 1
  /\ results # <<>> /\ Head(results).eof => gpc = "done"
  /\ gpc = "send" => Reports(held)
  /\ gpc = "send" /\ held.item # 0 => held.item = taken - ahead
  /\ gpc = "done" /\ mpc # "done" => results # <<>> /\ Head(results).eof

IInv == InOrder /\ PipeInv

LEMMA InitPipe == Init => IInv
<1> SUFFICES ASSUME Init PROVE IInv
  OBVIOUS
<1>1. Len(typed) = 0 /\ Len(delivered) = 0
  BY EmptySeq DEF Init
<1>2. NothingLost
  BY <1>1 DEF Init, NothingLost, Buffered, InHand
<1>3. InOrder /\ PartialIsLast
  BY <1>1 DEF InOrder, PartialIsLast
<1> QED
  BY <1>2, <1>3 DEF Init, IInv, PipeInv

\* Results refer to items that were typed.
LEMMA InRange ==
  ASSUME TypeOK, IInv
  PROVE  /\ results # <<>> /\ Head(results).item # 0
              => Head(results).item \in 1..Len(typed)
         /\ gpc = "send" /\ held.item # 0 => held.item \in 1..Len(typed)
         /\ Len(typed) \in Nat /\ Len(delivered) \in Nat
<1>1. Len(typed) \in Nat /\ Len(delivered) \in Nat
  BY LenProperties DEF TypeOK
<1>2. ASSUME results # <<>>, Head(results).item # 0
      PROVE  Head(results).item \in 1..Len(typed)
  <2>1. Head(results).item = Len(delivered) + 1
    BY <1>2 DEF IInv, PipeInv
  <2>2. taken = Len(delivered) + Buffered + InHand + ahead
    BY <1>2 DEF IInv, PipeInv, NothingLost
  <2>3. Buffered = 1 /\ InHand \in Nat
    BY <1>2 DEF Buffered, InHand
  <2>4. taken \in 0..Len(typed) /\ ahead \in Nat
    BY <1>1 DEF TypeOK
  <2> QED
    BY <1>1, <2>1, <2>2, <2>3, <2>4
<1>3. ASSUME gpc = "send", held.item # 0 PROVE held.item \in 1..Len(typed)
  <2>1. held.item = taken - ahead
    BY <1>3 DEF IInv, PipeInv
  <2>2. held.item \in Nat /\ taken \in 0..Len(typed) /\ ahead \in 0..taken
    BY DEF TypeOK, Result
  <2> QED
    BY <1>1, <1>3, <2>1, <2>2
<1> QED
  BY <1>1, <1>2, <1>3

\* A step that leaves the pipeline's variables and the input alone and does not
\* restart the loop keeps the invariant.
LEMMA OutsidePipe ==
  ASSUME TypeOK, IInv,
         UNCHANGED <<input, taken, ahead, gpc, held, results, delivered, typed>>,
         hungUp => hungUp',
         mpc = "done" => mpc' = "done"
  PROVE  IInv'
<1>1. InOrder' /\ PartialIsLast'
  BY DEF IInv, InOrder, PipeInv, PartialIsLast
<1>2. NothingLost'
  BY DEF IInv, PipeInv, NothingLost, Buffered, InHand
<1>3. /\ results # <<>> => Reports(Head(results))'
      /\ gpc = "send" => Reports(held)'
  BY DEF IInv, PipeInv, Reports
<1> QED
  BY <1>1, <1>2, <1>3 DEF IInv, PipeInv

\* So does typing, and so does an unterminated line at the end of the input.
LEMMA TypedGrows ==
  ASSUME TypeOK, IInv, NEW k \in ItemKinds, ~hungUp,
         typed' = Append(typed, k), k = "partial" => hungUp',
         UNCHANGED <<input, taken, ahead, gpc, held, results, delivered, mpc>>
  PROVE  IInv'
<1> USE DEF TypeOK
<1>1. /\ Len(typed) \in Nat /\ Len(typed') = Len(typed) + 1
      /\ \A i \in 1..Len(typed) : typed'[i] = typed[i]
      /\ typed'[Len(typed) + 1] = k
  BY AppendProperties, LenProperties
<1>2. InOrder' /\ Buffered' = Buffered /\ InHand' = InHand
  BY DEF IInv, InOrder, Buffered, InHand
<1>3. PartialIsLast'
  <2> SUFFICES ASSUME NEW i \in 1..Len(typed'), typed'[i] = "partial"
               PROVE  hungUp' /\ i = Len(typed')
    BY DEF PartialIsLast
  <2>1. CASE i \in 1..Len(typed)
    BY <1>1, <2>1 DEF IInv, PipeInv, PartialIsLast
  <2>2. CASE i = Len(typed) + 1
    BY <1>1, <2>2
  <2> QED
    BY <1>1, <2>1, <2>2
<1>4. NothingLost'
  <2>1. CASE taken = Len(delivered) + Buffered + InHand + ahead
    BY <1>2, <2>1 DEF NothingLost
  <2>2. CASE /\ mpc = "done" /\ gpc = "done" /\ results = <<>> /\ ahead = 0
             /\ taken = Len(delivered) + 1 /\ typed[taken] = "partial"
    <3>1. Len(delivered) \in Nat
      BY LenProperties
    <3>2. taken \in 1..Len(typed)
      BY <1>1, <2>2, <3>1
    <3> QED
      BY <1>1, <2>2, <3>2 DEF NothingLost
  <2> QED
    BY <2>1, <2>2 DEF IInv, PipeInv, NothingLost
<1>5. /\ results # <<>> => Reports(Head(results))'
      /\ gpc = "send" => Reports(held)'
  BY <1>1, InRange DEF IInv, PipeInv, Reports
<1> QED
  BY <1>2, <1>3, <1>4, <1>5 DEF IInv, PipeInv

\* The result taken from the channel is the next item.
LEMMA ReceivedItem ==
  ASSUME TypeOK, IInv, RecvItem
  PROVE  /\ results # <<>> /\ Received = Head(results) /\ results' = <<>>
         /\ Received.item = Len(delivered) + 1 /\ Received.item # 0
         /\ Received.item \in 1..Len(typed) /\ typed[Received.item] # "partial"
         /\ gpc # "done" /\ mpc = "recvRes"
         /\ Len(delivered) \in Nat
         /\ delivered' = Append(delivered, Len(delivered) + 1)
         /\ Len(delivered') = Len(delivered) + 1
<1>1. mpc = "recvRes" /\ ~Received.eof /\ ResultReady
  BY DEF RecvItem
<1>2. results # <<>> /\ Received = Head(results)
  BY <1>1 DEF Received, EndOfInput
<1>3. results' = <<>>
  BY <1>2, ShortSeq DEF RecvItem, AfterReceive, TypeOK, ResultsCap
<1>4. Reports(Received)
  BY <1>2 DEF IInv, PipeInv
<1>5. Received.item # 0
  BY <1>1, <1>4 DEF Reports
<1>6. Received.item = Len(delivered) + 1
  BY <1>2, <1>5 DEF IInv, PipeInv
<1>7. Received.item \in 1..Len(typed) /\ Len(delivered) \in Nat
  BY <1>2, <1>5, InRange
<1>8. typed[Received.item] # "partial"
  BY <1>1, <1>4, <1>5 DEF Reports
<1>9. gpc # "done"
  BY <1>1, <1>2 DEF IInv, PipeInv
<1>10. delivered' = Append(delivered, Len(delivered) + 1)
  BY <1>6 DEF RecvItem
<1>11. Len(delivered') = Len(delivered) + 1
  BY <1>10, AppendProperties DEF TypeOK
<1> QED
  BY <1>1, <1>2, <1>3, <1>5, <1>6, <1>7, <1>8, <1>9, <1>10, <1>11

LEMMA ReceivePipe ==
  ASSUME TypeOK, IInv, RecvItem
  PROVE  IInv'
<1> USE DEF TypeOK
<1>1. UNCHANGED <<input, typed, hungUp, taken, ahead, gpc, held>>
  BY DEF RecvItem, envVars, goVars
<1>2. InOrder'
  <2>1. \A i \in 1..Len(delivered) : delivered[i] = i
    BY DEF InOrder, IInv
  <2>2. \A i \in 1..Len(delivered) + 1 :
          delivered'[i] = IF i = Len(delivered) + 1 THEN i ELSE delivered[i]
    <3>1. delivered' = Append(delivered, Len(delivered) + 1) /\ Len(delivered) + 1 \in Nat
      BY ReceivedItem
    <3>2. delivered \in Seq(Nat)
      OBVIOUS
    <3> HIDE DEF TypeOK
    <3> QED
      BY <3>1, <3>2, AppendProperties
  <2> QED
    BY <2>1, <2>2, ReceivedItem DEF InOrder
<1>3. NothingLost'
  <2>1. taken = Len(delivered) + Buffered + InHand + ahead
    BY ReceivedItem DEF IInv, PipeInv, NothingLost
  <2>2. Buffered = 1 /\ Buffered' = 0
    BY ReceivedItem DEF Buffered
  <2>3. InHand' = InHand /\ InHand \in Nat
    BY <1>1 DEF InHand
  <2>4. Len(delivered') = Len(delivered) + 1 /\ Len(delivered) \in Nat /\ ahead \in Nat
    BY ReceivedItem
  <2>5. taken = Len(delivered') + Buffered' + InHand' + ahead
    BY <2>1, <2>2, <2>3, <2>4
  <2> QED
    BY <1>1, <2>5 DEF NothingLost
<1>4. PartialIsLast' /\ (gpc = "send" => Reports(held)')
  BY <1>1 DEF IInv, PipeInv, PartialIsLast, Reports
<1>5. results' = <<>> /\ gpc # "done"
  BY ReceivedItem
<1> QED
  BY <1>1, <1>2, <1>3, <1>4, <1>5 DEF IInv, PipeInv

\* What the loop finds in the channel when the input has ended.
LEMMA ReceivedEnd ==
  ASSUME TypeOK, IInv, RecvError
  PROVE  /\ results # <<>> /\ results' = <<>> /\ Reports(Head(results))
         /\ gpc = "done" /\ mpc = "recvRes" /\ mpc' = "done"
         /\ hungUp /\ taken = Len(typed) /\ ahead = 0
         /\ \/ Head(results).item = 0 /\ taken = Len(delivered)
            \/ taken = Len(delivered) + 1 /\ typed[taken] = "partial"
<1>1. mpc = "recvRes" /\ mpc' = "done" /\ Received.eof /\ ResultReady
  BY DEF RecvError
<1>2. results # <<>>
  BY <1>1 DEF ResultReady, IInv, PipeInv
<1>3. Received = Head(results) /\ results' = <<>>
  BY <1>2, ShortSeq DEF RecvError, Received, AfterReceive, TypeOK, ResultsCap
<1>4. Reports(Head(results)) /\ gpc = "done"
  BY <1>1, <1>2, <1>3 DEF IInv, PipeInv
<1>5. hungUp /\ taken = Len(typed) /\ ahead = 0
  BY <1>1, <1>3, <1>4 DEF Reports
<1>6. /\ taken = Len(delivered) + Buffered + InHand + ahead /\ InHand = 0
      /\ Len(delivered) \in Nat
  BY <1>2, <1>4, InRange DEF IInv, PipeInv, NothingLost, InHand
<1>7. CASE Head(results).item = 0
  BY <1>1, <1>2, <1>3, <1>4, <1>5, <1>6, <1>7 DEF Buffered
<1>8. CASE Head(results).item # 0
  <2>1. Head(results).item = Len(delivered) + 1 /\ Buffered = 1
    BY <1>2, <1>8 DEF IInv, PipeInv, Buffered
  <2>2. taken = Len(delivered) + 1
    BY <1>5, <1>6, <2>1
  <2>3. typed[Head(results).item] = "partial"
    BY <1>1, <1>3, <1>4, <1>8 DEF Reports
  <2> QED
    BY <1>1, <1>2, <1>3, <1>4, <1>5, <2>1, <2>2, <2>3
<1> QED
  BY <1>7, <1>8

LEMMA ReadPipe ==
  ASSUME TypeOK, IInv, GRead
  PROVE  IInv'
<1>1. /\ gpc = "read" /\ gpc' = "send"
      /\ UNCHANGED <<input, typed, hungUp, results, mpc, delivered>>
  BY DEF GRead, envVars, loopVars
<1>2. InOrder' /\ PartialIsLast'
  BY <1>1 DEF IInv, PipeInv, InOrder, PartialIsLast
<1>3. /\ taken \in 0..Len(typed) /\ ahead \in 0..taken
      /\ Len(typed) \in Nat /\ Len(delivered) \in Nat
  BY InRange DEF TypeOK
<1>4. \A n \in 1..Len(typed) : typed[n] = "partial" => hungUp /\ n = Len(typed)
  BY DEF IInv, PipeInv, PartialIsLast
<1>5. \/ /\ \E n \in 1..(Len(typed) - taken) : Take(n)
         /\ ahead = 0 /\ (input = "terminal" => ahead' = 0)
      \/ /\ ahead > 0 /\ held' = ResultOf(taken - ahead + 1)
         /\ ahead' = ahead - 1 /\ taken' = taken
      \/ /\ ahead = 0 /\ hungUp /\ taken = Len(typed)
         /\ held' = EndOfInput /\ taken' = taken /\ ahead' = ahead
  <2>1. CASE ahead = 0 /\ input = "terminal" /\ taken < Len(typed) /\ Take(1)
    BY <1>3, <2>1 DEF Take
  <2> QED
    BY <2>1 DEF GRead, bufferVars
<1>6. \/ /\ held'.item = taken' - ahead' /\ held'.item # 0
         /\ held'.item \in 1..Len(typed)
         /\ held'.eof = (typed[held'.item] = "partial")
         /\ taken' - ahead' = taken - ahead + 1
         /\ taken' \in 0..Len(typed) /\ ahead' \in Nat
      \/ /\ held'.item = 0 /\ held'.eof /\ hungUp /\ taken' = Len(typed)
         /\ taken' = taken /\ ahead' = ahead /\ ahead = 0
  BY <1>3, <1>5 DEF Take, ResultOf, EndOfInput
<1>7. Reports(held)'
  <2>1. CASE /\ held'.item = taken' - ahead' /\ held'.item # 0
             /\ held'.item \in 1..Len(typed)
             /\ held'.eof = (typed[held'.item] = "partial")
             /\ taken' \in 0..Len(typed) /\ ahead' \in Nat
    <3>1. typed[held'.item] = "partial" => hungUp /\ taken' - ahead' = Len(typed)
      BY <1>4, <2>1
    <3>2. ASSUME taken' - ahead' = Len(typed)
          PROVE  taken' = Len(typed) /\ ahead' = 0
      <4>1. taken' \in 0..Len(typed) /\ ahead' \in Nat /\ Len(typed) \in Nat
        BY <1>3, <2>1, Zenon
      <4>2. \A t, a, l \in Nat : t <= l /\ t - a = l => t = l /\ a = 0
        OBVIOUS
      <4>3. taken' \in Nat /\ taken' <= Len(typed)
        BY <4>1
      <4> QED
        BY <3>2, <4>1, <4>2, <4>3, Zenon
    <3> QED
      BY <1>1, <2>1, <3>1, <3>2 DEF Reports
  <2>2. CASE held'.item = 0 /\ held'.eof /\ hungUp /\ taken' = Len(typed) /\ ahead' = 0
    BY <1>1, <2>2 DEF Reports
  <2> QED
    BY <1>6, <2>1, <2>2
<1>8. NothingLost'
  <2>1. taken = Len(delivered) + Buffered + InHand + ahead /\ InHand = 0
    BY <1>1 DEF IInv, PipeInv, NothingLost, InHand
  <2>2. Buffered' = Buffered /\ Buffered \in Nat
    BY <1>1 DEF Buffered
  <2>3. \/ InHand' = 1 /\ taken' - ahead' = taken - ahead + 1 /\ taken' \in Nat /\ ahead' \in Nat
        \/ InHand' = 0 /\ taken' = taken /\ ahead' = ahead
    BY <1>1, <1>6 DEF InHand
  <2>4. taken' = Len(delivered) + Buffered + InHand' + ahead'
    BY <1>3, <2>1, <2>2, <2>3
  <2> QED
    BY <1>1, <2>2, <2>4 DEF NothingLost
<1>9. results # <<>> => Reports(Head(results))' /\ ~Head(results).eof
  <2> SUFFICES ASSUME results # <<>>
               PROVE  Reports(Head(results))' /\ ~Head(results).eof
    OBVIOUS
  <2>1. Reports(Head(results)) /\ ~Head(results).eof
    BY <1>1 DEF IInv, PipeInv
  <2> QED
    BY <1>1, <2>1 DEF Reports
<1>10. input = "terminal" => ahead' = 0
  BY <1>3, <1>5 DEF IInv, PipeInv
<1> QED
  BY <1>1, <1>2, <1>6, <1>7, <1>8, <1>9, <1>10 DEF IInv, PipeInv

LEMMA SendPipe ==
  ASSUME TypeOK, IInv, GSend
  PROVE  IInv'
<1>1. /\ gpc = "send"
      /\ gpc' = IF held.eof THEN "done" ELSE "recv"
      /\ UNCHANGED <<input, typed, hungUp, taken, ahead, held, mpc, delivered>>
  BY DEF GSend, envVars, loopVars, bufferVars
<1>2. results = <<>> /\ results' # <<>> /\ Head(results') = held
  BY DEF GSend, TypeOK, ResultsCap
<1>3. InOrder' /\ PartialIsLast'
  BY <1>1 DEF IInv, PipeInv, InOrder, PartialIsLast
<1>4. Reports(held) /\ Reports(held)'
  BY <1>1 DEF IInv, PipeInv, Reports
<1>5. taken = Len(delivered) + Buffered + InHand + ahead
  BY <1>1 DEF IInv, PipeInv, NothingLost
<1>6. /\ Buffered = 0 /\ InHand' = 0 /\ Buffered' = InHand /\ InHand \in {0, 1}
      /\ (InHand = 1 <=> held.item # 0)
  BY <1>1, <1>2 DEF Buffered, InHand
<1>7. taken \in Nat /\ ahead \in Nat /\ Len(delivered) \in Nat
  BY InRange DEF TypeOK
<1>8. NothingLost'
  BY <1>1, <1>5, <1>6, <1>7 DEF NothingLost
<1>9. held.item # 0 => held.item = Len(delivered) + 1
  <2>1. held.item # 0 => held.item = taken - ahead
    BY <1>1 DEF IInv, PipeInv
  <2> QED
    BY <1>5, <1>6, <1>7, <2>1
<1>10. held.eof \in BOOLEAN
  BY DEF TypeOK, Result
<1>11. input = "terminal" => ahead = 0
  BY DEF IInv, PipeInv
<1> QED
  BY <1>1, <1>2, <1>3, <1>4, <1>8, <1>9, <1>10, <1>11 DEF IInv, PipeInv

LEMMA StepPipe == TypeOK /\ IInv /\ [Next]_vars => IInv'
<1> SUFFICES ASSUME TypeOK, IInv, [Next]_vars PROVE IInv'
  OBVIOUS
<1>1. ASSUME NEW k \in Kinds, TypeKey(k) PROVE IInv'
  <2>1. k \in ItemKinds /\ k # "partial"
    BY KindsAssumption DEF ItemKinds
  <2> QED
    BY <1>1, <2>1, TypedGrows DEF TypeKey, goVars, loopVars
<1>2. CASE HangUp
  <2>1. UNCHANGED <<input, taken, ahead, gpc, held, results, delivered, mpc>>
    BY <1>2 DEF HangUp, goVars, loopVars
  <2>2. CASE UNCHANGED typed
    BY <1>2, <2>1, <2>2, OutsidePipe DEF HangUp
  <2>3. CASE typed' = Append(typed, "partial")
    BY <1>2, <2>1, <2>3, TypedGrows DEF HangUp, ItemKinds
  <2> QED
    BY <1>2, <2>2, <2>3 DEF HangUp
<1>3. CASE Cancel
  BY <1>3, OutsidePipe DEF Cancel, goVars, loopVars
<1>4. CASE Expire
  BY <1>4, OutsidePipe DEF Expire, goVars, envVars
<1>5. CASE NextChecksContext
  BY <1>5, OutsidePipe DEF NextChecksContext, ReturnContextError, goVars, envVars
<1>6. CASE NextStarts
  BY <1>6, OutsidePipe DEF NextStarts, goVars, envVars
<1>7. CASE SelectDone
  BY <1>7, OutsidePipe DEF SelectDone, ReturnContextError, goVars, envVars
<1>8. CASE RecvItem
  BY <1>8, ReceivePipe
<1>9. CASE RecvError
  <2>1. UNCHANGED <<input, typed, hungUp, taken, ahead, gpc, held, delivered>>
    BY <1>9 DEF RecvError, envVars, goVars
  <2>2. /\ results' = <<>> /\ gpc = "done" /\ mpc' = "done" /\ ahead = 0
        /\ \/ taken = Len(delivered)
           \/ taken = Len(delivered) + 1 /\ typed[taken] = "partial"
    BY <1>9, ReceivedEnd
  <2>3. NothingLost'
    BY <2>1, <2>2 DEF NothingLost, Buffered, InHand, TypeOK
  <2> QED
    BY <2>1, <2>2, <2>3 DEF IInv, PipeInv, InOrder, PartialIsLast
<1>10. CASE Handoff
  <2>1. /\ UNCHANGED <<input, typed, hungUp, taken, ahead, held, delivered, results>>
        /\ gpc = "recv" /\ gpc' = "read" /\ mpc # "done" /\ mpc' # "done"
    BY <1>10 DEF Handoff, envVars, bufferVars
  <2> QED
    BY <2>1 DEF IInv, PipeInv, InOrder, PartialIsLast, NothingLost, Buffered, InHand, Reports
<1>11. CASE GRead
  BY <1>11, ReadPipe
<1>12. CASE GSend
  BY <1>12, SendPipe
<1>13. CASE GExit
  <2>1. /\ UNCHANGED <<input, typed, hungUp, taken, ahead, held, delivered, results, mpc>>
        /\ gpc = "recv" /\ gpc' = "done" /\ mpc = "done"
    BY <1>13 DEF GExit, envVars, bufferVars, loopVars
  <2> QED
    BY <2>1 DEF IInv, PipeInv, InOrder, PartialIsLast, NothingLost, Buffered, InHand, Reports
<1>14. CASE UNCHANGED vars
  BY <1>14, OutsidePipe DEF vars
<1> QED
  BY <1>1, <1>2, <1>3, <1>4, <1>5, <1>6, <1>7, <1>8, <1>9, <1>10, <1>11,
     <1>12, <1>13, <1>14 DEF Next, LoopStep, ReaderStep

LEMMA Pipe == Spec => []IInv
  BY InitPipe, StepPipe, Typing, PTL DEF Spec

\* Next returns the items in typing order, whatever reads were abandoned.
THEOREM Order == Spec => []InOrder
<1>1. IInv => InOrder
  BY DEF IInv
<1> QED
  BY <1>1, Pipe, PTL

\* No item taken from the input is ever lost, but an unterminated last line.
THEOREM Lossless == Spec => []NothingLost
<1>1. IInv => NothingLost
  BY DEF IInv, PipeInv
<1> QED
  BY <1>1, Pipe, PTL

\* The end of the input is reported after every item, and the loop never waits
\* for a reader that stopped without leaving it a result.
THEOREM EndLast == Spec => []EndOfInputLast
<1>1. TypeOK /\ IInv => EndOfInputLast
  <2> SUFFICES ASSUME TypeOK, IInv PROVE EndOfInputLast
    OBVIOUS
  <2>1. ASSUME NEW i \in 1..Len(results), results[i].eof
        PROVE  results # <<>> /\ Head(results).eof
    BY <2>1, ShortSeq DEF TypeOK, ResultsCap
  <2> QED
    BY <2>1 DEF EndOfInputLast, IInv, PipeInv, Reports
<1> QED
  BY <1>1, Pipe, Typing, PTL
-----------------------------------------------------------------------------
\* Steps that the abstract stream does not see.
LEMMA StreamStutter ==
  ASSUME UNCHANGED <<typed, hungUp, cancelled, delivered>>,
         mpc # "done", mpc' # "done"
  PROVE  UNCHANGED Stream!vars
  BY DEF Stream!vars

\* A context error stops the loop only when the loop was cancelled.
LEMMA StreamContextError ==
  ASSUME TypeOK, mpc # "done", ContextDone, ReturnContextError,
         UNCHANGED <<typed, hungUp, cancelled>>
  PROVE  [Stream!Next]_(Stream!vars)
<1>1. CASE expired
  BY <1>1, StreamStutter DEF ReturnContextError
<1>2. CASE ~expired
  <2>1. cancelled /\ mpc' = "done" /\ delivered' = delivered
    BY <1>2 DEF ReturnContextError, ContextDone
  <2>2. Stream!Finish
    BY <2>1 DEF Stream!Finish
  <2> QED
    BY <2>2 DEF Stream!Next
<1> QED
  BY <1>1, <1>2 DEF TypeOK

LEMMA StreamReceive ==
  ASSUME TypeOK, IInv, RecvItem
  PROVE  Stream!Deliver
<1>1. /\ Received.item = Len(delivered) + 1 /\ Len(delivered') = Len(delivered) + 1
      /\ Len(delivered) < Len(typed) /\ typed[Len(delivered) + 1] # "partial"
  BY ReceivedItem, InRange
<1>2. mpc # "done" /\ (mpc' = "done" => typed[Len(delivered) + 1] = "quit")
  BY <1>1 DEF RecvItem, Consume
<1>3. UNCHANGED <<typed, hungUp, cancelled>>
  BY DEF RecvItem, envVars
<1> QED
  BY <1>1, <1>2, <1>3 DEF Stream!Deliver

LEMMA StreamError ==
  ASSUME TypeOK, IInv, RecvError
  PROVE  Stream!Finish
<1>1. /\ hungUp /\ mpc # "done" /\ mpc' = "done" /\ taken = Len(typed)
      /\ \/ taken = Len(delivered)
         \/ taken = Len(delivered) + 1 /\ typed[taken] = "partial"
  BY ReceivedEnd
<1>2. Len(delivered) \in Nat /\ Len(typed) \in Nat
  BY InRange
<1>3. \A i \in 1..Len(typed) : i > Len(delivered) => typed[i] = "partial"
  <2>1. CASE taken = Len(delivered)
    BY <1>1, <1>2, <2>1
  <2>2. CASE taken = Len(delivered) + 1 /\ typed[taken] = "partial"
    <3>1. \A i \in 1..Len(typed) : i > Len(delivered) => i = taken
      BY <1>1, <1>2, <2>2
    <3> QED
      BY <2>2, <3>1
  <2> QED
    BY <1>1, <2>1, <2>2
<1> QED
  BY <1>1, <1>3 DEF RecvError, envVars, Stream!Finish

LEMMA StreamStep ==
  ASSUME TypeOK, IInv, [Next]_vars
  PROVE  [Stream!Next]_(Stream!vars)
<1>1. ASSUME NEW k \in Kinds, TypeKey(k) PROVE Stream!Next
  BY <1>1 DEF TypeKey, loopVars, Stream!TypeKey, Stream!Next
<1>2. CASE HangUp
  <2>1. Stream!HangUp
    BY <1>2 DEF HangUp, loopVars, Stream!HangUp
  <2> QED
    BY <2>1 DEF Stream!Next
<1>3. CASE Cancel
  BY <1>3 DEF Cancel, loopVars, Stream!Cancel, Stream!Next
<1>4. CASE Expire
  BY <1>4, StreamStutter DEF Expire, envVars
<1>5. CASE NextChecksContext
  BY <1>5, StreamContextError DEF NextChecksContext, envVars
<1>6. CASE NextStarts
  BY <1>6, StreamStutter DEF NextStarts, envVars
<1>7. CASE SelectDone
  BY <1>7, StreamContextError DEF SelectDone, envVars
<1>8. CASE RecvItem
  BY <1>8, StreamReceive DEF Stream!Next
<1>9. CASE RecvError
  BY <1>9, StreamError DEF Stream!Next
<1>10. CASE Handoff
  BY <1>10, StreamStutter DEF Handoff, envVars
<1>11. CASE ReaderStep
  BY <1>11 DEF ReaderStep, GRead, GSend, GExit, envVars, loopVars, Stream!vars
<1>12. CASE UNCHANGED vars
  BY <1>12 DEF vars, Stream!vars
<1> QED
  BY <1>1, <1>2, <1>3, <1>4, <1>5, <1>6, <1>7, <1>8, <1>9, <1>10, <1>11,
     <1>12 DEF Next, LoopStep

\* The loop and its reader, with every abandoned read, implement the abstract
\* stream of items.
THEOREM RefinesStream == Spec => StreamSafety
<1>1. Init => Stream!Init
  BY EmptySeq, Zenon DEF Init, Stream!Init
<1>2. TypeOK /\ IInv /\ [Next]_vars => [Stream!Next]_(Stream!vars)
  BY StreamStep
<1> QED
  BY <1>1, <1>2, Typing, Pipe, PTL DEF Spec, StreamSafety, Stream!Spec
-----------------------------------------------------------------------------
\* Without escapes no wait is abandoned but to end the loop, so that the request, the
\* goroutine's work and the result take turns.
TurnsInv ==
  NoEscape => /\ waiting = "key" /\ ~expired
              /\ gpc \in {"read", "send"} \/ results # <<>> => mpc \in {"recvRes", "done"}
              /\ results # <<>> => gpc \in {"recv", "done"}

LEMMA InitTurns == Init => TurnsInv
  BY DEF Init, TurnsInv

\* What is typed without escapes was so before.
LEMMA NoEscapeBefore ==
  ASSUME TypeOK, NEW k \in ItemKinds, typed' = Append(typed, k), NoEscape'
  PROVE  NoEscape
<1>1. Len(typed) \in Nat /\ Len(typed') = Len(typed) + 1
      /\ \A i \in 1..Len(typed) : typed'[i] = typed[i]
  BY AppendProperties, LenProperties DEF TypeOK
<1> QED
  BY <1>1 DEF NoEscape

LEMMA StepTurns ==
  ASSUME TypeOK, IInv, TurnsInv, [Next]_vars
  PROVE  TurnsInv'
<1> SUFFICES ASSUME NoEscape' PROVE TurnsInv'
  BY DEF TurnsInv
<1>1. NoEscape
  <2>1. ASSUME NEW k \in ItemKinds, typed' = Append(typed, k) PROVE NoEscape
    BY <2>1, NoEscapeBefore
  <2>2. CASE UNCHANGED typed
    BY <2>2 DEF NoEscape
  <2>3. UNCHANGED typed \/ \E k \in ItemKinds : typed' = Append(typed, k)
    BY DEF Next, LoopStep, ReaderStep, TypeKey, HangUp, ItemKinds, Cancel, Expire, NextChecksContext, NextStarts,
           SelectDone, RecvItem, RecvError, Handoff, GRead, GSend, GExit, envVars, vars
  <2> QED
    BY <2>1, <2>2, <2>3
<1>2. /\ waiting = "key" /\ ~expired
      /\ gpc \in {"read", "send"} \/ results # <<>> => mpc \in {"recvRes", "done"}
      /\ results # <<>> => gpc \in {"recv", "done"}
  BY <1>1 DEF TurnsInv
<1> USE DEF TurnsInv
<1>3. ASSUME UNCHANGED <<goVars, results, waiting, expired>>,
             mpc' = mpc \/ mpc' = "done" \/ mpc = "next"
      PROVE  TurnsInv'
  BY <1>2, <1>3 DEF goVars
<1>4. ASSUME NEW k \in Kinds, TypeKey(k) PROVE TurnsInv'
  BY <1>3, <1>4 DEF TypeKey, loopVars
<1>5. CASE HangUp \/ Cancel \/ UNCHANGED vars
  BY <1>3, <1>5 DEF HangUp, Cancel, vars, loopVars, goVars
<1>6. CASE Expire
  BY <1>2, <1>6 DEF Expire
<1>7. CASE NextChecksContext \/ SelectDone
  <2>1. ReturnContextError /\ UNCHANGED <<goVars, results>>
    BY <1>7 DEF NextChecksContext, SelectDone
  <2>2. mpc' = "done" /\ UNCHANGED waiting /\ expired' = FALSE
    BY <1>2, <2>1 DEF ReturnContextError
  <2> QED
    BY <1>2, <2>1, <2>2 DEF goVars
<1>8. CASE NextStarts
  BY <1>3, <1>8 DEF NextStarts
<1>9. CASE RecvItem
  <2>1. typed[Received.item] # "esc"
    BY <1>1, <1>9, ReceivedItem DEF NoEscape
  <2>2. mpc' \in {"next", "done"} /\ UNCHANGED <<waiting, expired>>
    BY <1>2, <1>9, <2>1 DEF RecvItem, Consume
  <2>3. results # <<>> /\ results' = <<>> /\ UNCHANGED gpc
    BY <1>9, ReceivedItem DEF RecvItem, goVars
  <2> QED
    BY <1>2, <2>2, <2>3
<1>10. CASE RecvError
  <2>1. mpc' = "done" /\ UNCHANGED <<waiting, expired, gpc>>
    BY <1>10 DEF RecvError, goVars
  <2>2. results' = <<>>
    BY <1>10, ShortSeq DEF RecvError, AfterReceive, TypeOK, ResultsCap
  <2> QED
    BY <1>2, <2>1, <2>2
<1>11. CASE Handoff
  BY <1>2, <1>11 DEF Handoff
<1>12. CASE GRead
  BY <1>2, <1>12 DEF GRead, loopVars
<1>13. CASE GSend
  <2>1. gpc = "send" /\ gpc' \in {"recv", "done"} /\ UNCHANGED <<waiting, expired, mpc>>
    BY <1>13 DEF GSend, loopVars
  <2> QED
    BY <1>2, <2>1
<1>14. CASE GExit
  BY <1>2, <1>14 DEF GExit, loopVars
<1> QED
  BY <1>4, <1>5, <1>6, <1>7, <1>8, <1>9, <1>10, <1>11, <1>12, <1>13, <1>14
     DEF Next, LoopStep, ReaderStep

\* At a terminal, until Esc is pressed, the reader takes no byte that the running loop
\* is not waiting for.
THEOREM NothingAhead == Spec => []NoReadAhead
<1>1. TypeOK /\ IInv /\ TurnsInv /\ [Next]_vars => TurnsInv'
  BY StepTurns
<1>2. TypeOK /\ IInv /\ TurnsInv => NoReadAhead
  <2> SUFFICES ASSUME TypeOK, IInv, TurnsInv, input = "terminal", NoEscape,
                      gpc = "read" \/ taken > Len(delivered)
               PROVE  mpc \in {"recvRes", "done"}
    BY DEF NoReadAhead
  <2>1. gpc \in {"read", "send"} \/ results # <<>> => mpc \in {"recvRes", "done"}
    BY DEF TurnsInv
  <2>2. CASE gpc \in {"read", "send"} \/ results # <<>>
    BY <2>1, <2>2
  <2>3. CASE gpc \notin {"read", "send"} /\ results = <<>>
    <3>1. ahead = 0 /\ Buffered = 0 /\ InHand = 0 /\ Len(delivered) \in Nat
      BY <2>3, InRange DEF IInv, PipeInv, Buffered, InHand
    <3>2. taken = Len(delivered) => FALSE
      BY <2>3, <3>1
    <3>3. taken = Len(delivered) \/ mpc = "done"
      BY <3>1 DEF IInv, PipeInv, NothingLost
    <3> QED
      BY <3>2, <3>3
  <2> QED
    BY <2>2, <2>3
<1> QED
  BY <1>1, <1>2, InitTurns, Pipe, Typing, PTL DEF Spec
=============================================================================
