-------------------------- MODULE SourceIndex_proofs --------------------------
(***************************************************************************)
(* Proofs about SourceIndex, for any files, calls and edits: an entry that *)
(* a lookup would take is current, and results are no older than their     *)
(* calls.                                                                  *)
(*                                                                         *)
(* The argument follows a stamp through the reads.  Versions of a file     *)
(* never decrease, and a goroutine takes its stamp before its first read,  *)
(* which comes before its second: so the stamp, the version that was       *)
(* parsed, the version whose lines were read and the file's version are in *)
(* this order, in the goroutine and later in the entry it stores.  Where   *)
(* the stamp equals the file's version, all four are equal.                *)
(***************************************************************************)
EXTENDS SourceIndex, TLAPS

\* Files were written in the past.
WrittenBefore == \A p \in Paths : version[p] <= now

\* The time-stamps of an entry are in the order in which they were taken.
FilesInOrder ==
  \A p \in Paths : /\ files[p].stamp <= files[p].info.ast
                   /\ files[p].info.ast <= files[p].info.lines
                   /\ files[p].info.lines <= version[p]

\* So are those of a goroutine at work.
InOrder(w) ==
  LET began_w == began[w[1]][w[2]]
      version_w == version[w[2]]
  IN /\ began_w <= version_w
     /\ wpc[w] \in {"lookup", "parse", "lines", "store"} =>
          began_w <= stamp[w] /\ stamp[w] <= version_w
     /\ wpc[w] = "lines" => stamp[w] <= info[w].ast /\ info[w].ast <= version_w
     /\ wpc[w] = "store" => /\ stamp[w] <= info[w].ast
                            /\ info[w].ast <= info[w].lines
                            /\ info[w].lines <= version_w

WorkInOrder == \A w \in Workers : InOrder(w)

\* Goroutines run for a call that waits for them.
RunsForCall ==
  \A w \in Workers : wpc[w] # "off" => cpc[w[1]] = "wait" /\ w[2] \in listing[w[1]]

\* A goroutine has returned an info to its call.
HasResult(w) == /\ cpc[w[1]] \in {"wait", "done"}
                /\ ~failed[w[1]]
                /\ w[2] \in listing[w[1]]
                /\ wpc[w] = "off"

ResultsInOrder ==
  \A w \in Workers : HasResult(w) =>
    /\ began[w[1]][w[2]] <= info[w].ast
    /\ info[w].ast <= info[w].lines
    /\ info[w].lines <= version[w[2]]

IInv == /\ TypeOK
        /\ WrittenBefore
        /\ FilesInOrder
        /\ WorkInOrder
        /\ RunsForCall
        /\ ResultsInOrder
-----------------------------------------------------------------------------
USE EditedAssumption, MaxTimeAssumption

\* A goroutine is a call and a file.
LEMMA WorkerPairs ==
  ASSUME NEW w \in Workers
  PROVE  /\ w[1] \in Calls /\ w[2] \in Paths
         /\ w = <<w[1], w[2]>>
BY DEF Workers

\* The variables keep their types.
LEMMA InitType == Init => TypeOK
BY DEF Init, TypeOK, Versions, NoStamp, NoInfo

LEMMA NextType == TypeOK /\ [Next]_vars => TypeOK'
<1> SUFFICES ASSUME TypeOK, [Next]_vars PROVE TypeOK'
  OBVIOUS
<1> USE DEF TypeOK, Versions, NoStamp, NoInfo
<1>1. ASSUME NEW p \in Edited, Write(p) PROVE TypeOK'
  BY <1>1 DEF Write, Edit, callVars, workVars
<1>2. ASSUME NEW p \in Edited, Remove(p) PROVE TypeOK'
  BY <1>2 DEF Remove, Edit, callVars, workVars
<1>3. ASSUME NEW c \in Calls, Begin(c) PROVE TypeOK'
  BY <1>3 DEF Begin, diskVars, workVars
<1>4. ASSUME NEW c \in Calls, ListingHit(c) PROVE TypeOK'
  BY <1>4 DEF ListingHit, StartWorkers, diskVars
<1>5. ASSUME NEW c \in Calls, ListingMiss(c) PROVE TypeOK'
  BY <1>5 DEF ListingMiss, diskVars, workVars
<1>6. ASSUME NEW c \in Calls, Load(c) PROVE TypeOK'
  <2>1. Present \in SUBSET Paths
    BY DEF Present
  <2> QED
    BY <1>6, <2>1 DEF Load, diskVars, workVars
<1>7. ASSUME NEW c \in Calls, Keep(c) PROVE TypeOK'
  BY <1>7 DEF Keep, StartWorkers, diskVars
<1>8. ASSUME NEW c \in Calls, WaitEnds(c) PROVE TypeOK'
  BY <1>8 DEF WaitEnds, diskVars, workVars
<1> USE DEF FileStep, diskVars
<1>a. ASSUME NEW w \in Workers, Fail(w), UNCHANGED files, FileStep PROVE TypeOK'
  <2>1. w[1] \in Calls
    BY WorkerPairs
  <2>2. failed' \in [Calls -> BOOLEAN]
    BY <1>a, <2>1 DEF Fail
  <2>3. info' \in [Workers -> [ast : Versions, lines : Versions]]
    BY <1>a DEF Fail
  <2>4. wpc' \in [Workers -> {"off", "stat", "lookup", "parse", "lines", "store"}]
    BY <1>a DEF Fail, Leave
  <2>5. stamp' \in [Workers -> Versions]
    BY <1>a DEF Fail, Leave
  <2> QED
    BY <1>a, <2>2, <2>3, <2>4, <2>5
<1>9. ASSUME NEW w \in Workers, Stat(w) PROVE TypeOK'
  <2>1. CASE state[w[2]] = "absent"
    BY <1>9, <1>a, <2>1 DEF Stat
  <2>2. CASE state[w[2]] # "absent"
    <3>1. version[w[2]] \in Versions
      BY WorkerPairs
    <3>2. /\ wpc' = [wpc EXCEPT ![w] = "lookup"]
          /\ stamp' = [stamp EXCEPT ![w] = version[w[2]]]
          /\ UNCHANGED <<failed, info, files>> /\ FileStep
      BY <1>9, <2>2 DEF Stat
    <3> QED
      BY <3>1, <3>2
  <2> QED
    BY <2>1, <2>2
<1>b. ASSUME NEW w \in Workers, NEW l \in {"parse", "lines", "store"},
             Goto(w, l), UNCHANGED files, FileStep,
             info' \in [Workers -> [ast : Versions, lines : Versions]]
      PROVE  TypeOK'
  BY <1>b DEF Goto
<1>c. ASSUME NEW w \in Workers, Succeed(w), FileStep,
             info' \in [Workers -> [ast : Versions, lines : Versions]],
             files' \in [Paths -> [stamp : Versions, info : [ast : Versions, lines : Versions]]]
      PROVE  TypeOK'
  BY <1>c DEF Succeed, Leave
<1>10. ASSUME NEW w \in Workers, Lookup(w) PROVE TypeOK'
  <2>1. files[w[2]].info \in [ast : Versions, lines : Versions]
    BY WorkerPairs
  <2>2. info' \in [Workers -> [ast : Versions, lines : Versions]]
    BY <1>10, <2>1 DEF Lookup
  <2>3. (Succeed(w) \/ Goto(w, "parse")) /\ UNCHANGED files /\ FileStep
    BY <1>10 DEF Lookup
  <2> QED
    BY <1>b, <1>c, <2>2, <2>3
<1>11. ASSUME NEW w \in Workers, Parse(w) PROVE TypeOK'
  <2>1. version[w[2]] \in Versions
    BY WorkerPairs
  <2>2. UNCHANGED files /\ FileStep
    BY <1>11 DEF Parse
  <2>3. CASE Fail(w)
    BY <1>a, <2>2, <2>3
  <2>4. CASE Goto(w, "lines") /\ info' = [info EXCEPT ![w].ast = version[w[2]]]
    <3>1. [info[w] EXCEPT !.ast = version[w[2]]] \in [ast : Versions, lines : Versions]
      BY <2>1
    <3>2. info' = [info EXCEPT ![w] = [info[w] EXCEPT !.ast = version[w[2]]]]
      BY <2>4
    <3>3. info' \in [Workers -> [ast : Versions, lines : Versions]]
      BY <3>1, <3>2
    <3> QED
      BY <1>b, <2>2, <2>4, <3>3
  <2> QED
    BY <1>11, <2>3, <2>4 DEF Parse
<1>12. ASSUME NEW w \in Workers, ReadLines(w) PROVE TypeOK'
  <2>1. version[w[2]] \in Versions
    BY WorkerPairs
  <2>2. UNCHANGED files /\ FileStep
    BY <1>12 DEF ReadLines
  <2>3. CASE Fail(w)
    BY <1>a, <2>2, <2>3
  <2>4. CASE Goto(w, "store") /\ info' = [info EXCEPT ![w].lines = version[w[2]]]
    <3>1. [info[w] EXCEPT !.lines = version[w[2]]] \in [ast : Versions, lines : Versions]
      BY <2>1
    <3>2. info' = [info EXCEPT ![w] = [info[w] EXCEPT !.lines = version[w[2]]]]
      BY <2>4
    <3>3. info' \in [Workers -> [ast : Versions, lines : Versions]]
      BY <3>1, <3>2
    <3> QED
      BY <1>b, <2>2, <2>4, <3>3
  <2> QED
    BY <1>12, <2>3, <2>4 DEF ReadLines
<1>13. ASSUME NEW w \in Workers, Store(w) PROVE TypeOK'
  <2>1. w[1] \in Calls /\ w[2] \in Paths
    BY WorkerPairs
  <2>2. stamp[w] \in Versions /\ info[w] \in [ast : Versions, lines : Versions]
    OBVIOUS
  <2> QED
    BY <1>13, <2>1, <2>2 DEF Store, Succeed, Leave, StampBefore
<1>14. CASE UNCHANGED vars
  BY <1>14 DEF vars, callVars, workVars
<1> QED
  BY <1>1, <1>2, <1>3, <1>4, <1>5, <1>6, <1>7, <1>8, <1>9, <1>10, <1>11, <1>12,
     <1>13, <1>14 DEF Next, GoStep, CallStep, WorkerStep

-----------------------------------------------------------------------------
\* A write is later than those before it.
LEMMA VersionsGrow ==
  ASSUME TypeOK, WrittenBefore, [Next]_vars
  PROVE  /\ \A p \in Paths : version[p] <= version'[p]
         /\ WrittenBefore'
<1> USE DEF TypeOK, WrittenBefore
<1>1. ASSUME NEW p \in Edited, Write(p)
      PROVE  \A q \in Paths : version[q] <= version'[q] /\ version'[q] <= now'
  BY <1>1 DEF Write, Edit
<1>2. ASSUME NEW p \in Edited, Remove(p)
      PROVE  \A q \in Paths : version[q] <= version'[q] /\ version'[q] <= now'
  BY <1>2 DEF Remove, Edit
<1>3. ASSUME UNCHANGED diskVars
      PROVE  \A q \in Paths : version[q] <= version'[q] /\ version'[q] <= now'
  BY <1>3 DEF diskVars
<1>4. \/ \E p \in Edited : Write(p) \/ Remove(p)
      \/ UNCHANGED diskVars
  BY DEF Next, GoStep, CallStep, WorkerStep, Begin, ListingHit, ListingMiss, Load, Keep,
         WaitEnds, Stat, Lookup, Parse, ReadLines, Store, FileStep, vars
<1> QED
  BY <1>1, <1>2, <1>3, <1>4

\* A step of a goroutine leaves the calls' places and all others' goroutines alone.
LEMMA WorkerFrame ==
  ASSUME TypeOK, NEW v \in Workers, WorkerStep(v)
  PROVE  /\ FileStep
         /\ \A w \in Workers \ {v} : /\ wpc'[w] = wpc[w]
                                     /\ stamp'[w] = stamp[w]
                                     /\ info'[w] = info[w]
         /\ \A c \in Calls : failed'[c] = failed[c] \/ failed'[c]
<1> USE DEF TypeOK, Goto, Fail, Succeed, Leave
<1>1. CASE Stat(v)
  BY <1>1 DEF Stat
<1>2. CASE Lookup(v)
  BY <1>2 DEF Lookup
<1>3. CASE Parse(v)
  BY <1>3 DEF Parse
<1>4. CASE ReadLines(v)
  BY <1>4 DEF ReadLines
<1>5. CASE Store(v)
  BY <1>5 DEF Store
<1> QED
  BY <1>1, <1>2, <1>3, <1>4, <1>5 DEF WorkerStep

\* What each step of a goroutine does to its own variables.
LEMMA WorkerEffect ==
  ASSUME TypeOK, NEW v \in Workers, WorkerStep(v)
  PROVE  \/ wpc'[v] = "off" /\ failed'[v[1]]
         \/ wpc[v] = "stat" /\ wpc'[v] = "lookup" /\ stamp'[v] = version[v[2]]
         \/ /\ wpc[v] = "lookup" /\ wpc'[v] = "off"
            /\ files[v[2]].stamp = stamp[v] /\ info'[v] = files[v[2]].info
         \/ wpc[v] = "lookup" /\ wpc'[v] = "parse" /\ stamp'[v] = stamp[v]
         \/ /\ wpc[v] = "parse" /\ wpc'[v] = "lines" /\ stamp'[v] = stamp[v]
            /\ info'[v].ast = version[v[2]]
         \/ /\ wpc[v] = "lines" /\ wpc'[v] = "store" /\ stamp'[v] = stamp[v]
            /\ info'[v].ast = info[v].ast /\ info'[v].lines = version[v[2]]
         \/ /\ wpc[v] = "store" /\ wpc'[v] = "off" /\ info'[v] = info[v]
<1> USE DEF TypeOK, Goto, Fail, Succeed, Leave
<1>0. v[1] \in Calls /\ v[2] \in Paths
  BY WorkerPairs
<1>1. CASE Stat(v)
  BY <1>0, <1>1 DEF Stat
<1>2. CASE Lookup(v)
  BY <1>0, <1>2 DEF Lookup, SameStamp
<1>3. CASE Parse(v)
  BY <1>0, <1>3 DEF Parse
<1>4. CASE ReadLines(v)
  BY <1>0, <1>4 DEF ReadLines
<1>5. CASE Store(v)
  BY <1>0, <1>5 DEF Store
<1> QED
  BY <1>1, <1>2, <1>3, <1>4, <1>5 DEF WorkerStep
-----------------------------------------------------------------------------
\* Only a goroutine that has read the file twice makes an entry for it.
LEMMA NextFiles ==
  ASSUME IInv, [Next]_vars
  PROVE  FilesInOrder'
<1> USE DEF IInv
<1> SUFFICES ASSUME NEW p \in Paths
             PROVE  /\ files'[p].stamp <= files'[p].info.ast
                    /\ files'[p].info.ast <= files'[p].info.lines
                    /\ files'[p].info.lines <= version'[p]
  BY DEF FilesInOrder
<1>1. version[p] <= version'[p] /\ version[p] \in Nat /\ version'[p] \in Nat
  BY VersionsGrow, NextType DEF TypeOK
<1>2. CASE files'[p] = files[p]
  BY <1>1, <1>2 DEF FilesInOrder, TypeOK, Versions
<1>3. ASSUME NEW w \in Workers, Store(w), w[2] = p
      PROVE  files'[p] = [stamp |-> stamp[w], info |-> info[w]]
  BY <1>3 DEF Store, StampBefore, TypeOK
<1>4. ASSUME NEW w \in Workers, Store(w), w[2] = p
      PROVE  /\ stamp[w] <= info[w].ast /\ info[w].ast <= info[w].lines
             /\ info[w].lines <= version[p]
  BY <1>4 DEF Store, WorkInOrder, InOrder
<1>5. ASSUME NEW w \in Workers, Store(w), w[2] = p
      PROVE  info[w].lines \in Nat
  BY DEF TypeOK, Versions
<1>6. \/ files'[p] = files[p]
      \/ \E w \in Workers : Store(w) /\ w[2] = p
  BY DEF Next, GoStep, CallStep, WorkerStep, Begin, ListingHit, ListingMiss, Load, Keep,
         WaitEnds, Stat, Lookup, Parse, ReadLines, Store, Write, Remove, vars, TypeOK
<1>7. ASSUME NEW w \in Workers, Store(w), w[2] = p
      PROVE  /\ files'[p].stamp <= files'[p].info.ast
             /\ files'[p].info.ast <= files'[p].info.lines
             /\ files'[p].info.lines <= version'[p]
  <2>1. files'[p].stamp = stamp[w] /\ files'[p].info = info[w]
    <3>1. files'[p] = [stamp |-> stamp[w], info |-> info[w]]
      BY <1>3, <1>7, Zenon
    <3> QED
      BY <3>1
  <2>2. /\ stamp[w] <= info[w].ast /\ info[w].ast <= info[w].lines
        /\ info[w].lines <= version[p] /\ info[w].lines \in Nat
    BY <1>4, <1>5, <1>7, Zenon
  <2>3. info[w].lines <= version'[p]
    BY <1>1, <2>2
  <2> QED
    BY <2>1, <2>2, <2>3, Zenon
<1> QED
  BY <1>2, <1>6, <1>7

\* Goroutines are started by a call that then waits for all of them.
LEMMA NextRuns ==
  ASSUME IInv, [Next]_vars
  PROVE  RunsForCall'
<1> USE DEF IInv, TypeOK
<1> SUFFICES ASSUME NEW w \in Workers, wpc'[w] # "off"
             PROVE  cpc'[w[1]] = "wait" /\ w[2] \in listing'[w[1]]
  BY DEF RunsForCall
<1>0. /\ w[1] \in Calls /\ w[2] \in Paths
      /\ wpc[w] # "off" => cpc[w[1]] = "wait" /\ w[2] \in listing[w[1]]
  BY WorkerPairs DEF RunsForCall
<1>1. ASSUME NEW p \in Edited, Write(p) \/ Remove(p) PROVE UNCHANGED <<wpc, cpc, listing>>
  BY <1>1 DEF Write, Remove, callVars, workVars
<1>2. ASSUME NEW c \in Calls, Begin(c) \/ ListingMiss(c) \/ Load(c)
      PROVE  cpc'[w[1]] = "wait" /\ w[2] \in listing'[w[1]]
  BY <1>0, <1>2 DEF Begin, ListingMiss, Load, workVars
<1>3. ASSUME NEW c \in Calls, NEW fs, StartWorkers(c, fs), cpc[c] # "wait"
      PROVE  cpc'[w[1]] = "wait" /\ w[2] \in listing'[w[1]]
  BY <1>0, <1>3 DEF StartWorkers
<1>4. ASSUME NEW c \in Calls, ListingHit(c) \/ Keep(c)
      PROVE  cpc'[w[1]] = "wait" /\ w[2] \in listing'[w[1]]
  BY <1>3, <1>4 DEF ListingHit, Keep
<1>5. ASSUME NEW c \in Calls, WaitEnds(c)
      PROVE  cpc'[w[1]] = "wait" /\ w[2] \in listing'[w[1]]
  <2>1. UNCHANGED <<wpc, listing>>
    BY <1>5 DEF WaitEnds, workVars
  <2>2. w[1] # c
    <3> SUFFICES ASSUME w[1] = c PROVE FALSE
      OBVIOUS
    <3>1. w = <<c, w[2]>>
      BY WorkerPairs
    <3>2. wpc[<<c, w[2]>>] = "off"
      BY <1>0, <1>5, <2>1 DEF WaitEnds
    <3> QED
      BY <2>1, <3>1, <3>2
  <2>3. cpc'[w[1]] = cpc[w[1]]
    BY <1>5, <2>2 DEF WaitEnds
  <2> QED
    BY <1>0, <2>1, <2>3
<1>6. ASSUME NEW v \in Workers, WorkerStep(v)
      PROVE  cpc'[w[1]] = "wait" /\ w[2] \in listing'[w[1]]
  <2>1. UNCHANGED <<cpc, listing>> /\ (w # v => wpc'[w] = wpc[w])
    BY <1>6, WorkerFrame DEF FileStep
  <2>2. wpc[v] # "off"
    BY <1>6 DEF WorkerStep, Stat, Lookup, Parse, ReadLines, Store
  <2> QED
    BY <1>0, <2>1, <2>2
<1>7. CASE UNCHANGED vars
  BY <1>0, <1>7 DEF vars, callVars, workVars
<1> QED
  BY <1>0, <1>1, <1>2, <1>4, <1>5, <1>6, <1>7 DEF Next, GoStep, CallStep
\* The stamp is taken before the file is parsed, and that before its lines are
\* read, while versions only grow.
LEMMA NextWork ==
  ASSUME IInv, [Next]_vars
  PROVE  WorkInOrder'
<1> USE DEF IInv
<1> SUFFICES ASSUME NEW w \in Workers PROVE InOrder(w)'
  BY DEF WorkInOrder
<1> DEFINE p == w[2]
           c == w[1]
<1>0. /\ c \in Calls /\ p \in Paths
      /\ version[p] <= version'[p] /\ version[p] \in Nat /\ version'[p] \in Nat
      /\ began[c][p] \in Nat /\ stamp[w] \in Nat
      /\ info[w].ast \in Nat /\ info[w].lines \in Nat
      /\ InOrder(w)
  BY WorkerPairs, VersionsGrow, NextType DEF TypeOK, Versions, WorkInOrder
<1>1. ASSUME began'[c][p] = began[c][p],
             wpc'[w] \in {"off", "stat"} \/ /\ wpc'[w] = wpc[w] /\ stamp'[w] = stamp[w]
                                            /\ info'[w] = info[w]
      PROVE  InOrder(w)'
  BY <1>0, <1>1 DEF InOrder
<1>2. ASSUME NEW q \in Edited, Write(q) \/ Remove(q) PROVE InOrder(w)'
  BY <1>1, <1>2 DEF Write, Remove, callVars, workVars
<1>3. ASSUME NEW d \in Calls, Begin(d) PROVE InOrder(w)'
  <2>1. CASE c = d
    <3>1. wpc[w] = "off"
      BY <1>3, <2>1 DEF Begin, RunsForCall
    <3>2. wpc'[w] = "off" /\ began'[c][p] = version[p]
      BY <1>0, <1>3, <2>1, <3>1 DEF Begin, workVars, TypeOK
    <3> QED
      BY <1>0, <3>2 DEF InOrder
  <2>2. CASE c # d
    BY <1>0, <1>1, <1>3, <2>2 DEF Begin, workVars, TypeOK
  <2> QED
    BY <2>1, <2>2
<1>4. ASSUME NEW d \in Calls, CallStep(d) PROVE InOrder(w)'
  <2>1. UNCHANGED <<began, stamp, info>>
    BY <1>4 DEF CallStep, ListingHit, ListingMiss, Load, Keep, WaitEnds, workVars
  <2>2. wpc'[w] = "stat" \/ wpc'[w] = wpc[w]
    BY <1>4 DEF CallStep, ListingHit, ListingMiss, Load, Keep, WaitEnds, workVars,
                StartWorkers
  <2> QED
    BY <1>1, <2>1, <2>2
<1>5. ASSUME NEW v \in Workers, WorkerStep(v) PROVE InOrder(w)'
  <2>1. UNCHANGED <<began, version>>
    BY <1>5, WorkerFrame DEF FileStep, diskVars
  <2>2. CASE v = w
    BY <1>0, <1>5, <2>1, <2>2, WorkerEffect DEF InOrder
  <2>3. CASE v # w
    BY <1>1, <1>5, <2>1, <2>3, WorkerFrame
  <2> QED
    BY <2>2, <2>3
<1>6. CASE UNCHANGED vars
  BY <1>1, <1>6 DEF vars, callVars, workVars
<1> QED
  BY <1>2, <1>3, <1>4, <1>5, <1>6 DEF Next, GoStep

\* A goroutine that ends without an error has an entry's info or one it read.
LEMMA NextResults ==
  ASSUME IInv, [Next]_vars
  PROVE  ResultsInOrder'
<1> USE DEF IInv
<1> DEFINE Ordered(w) == /\ began[w[1]][w[2]] <= info[w].ast
                         /\ info[w].ast <= info[w].lines
                         /\ info[w].lines <= version[w[2]]
<1> SUFFICES ASSUME NEW w \in Workers, HasResult(w)' PROVE Ordered(w)'
  BY DEF ResultsInOrder
<1>0. /\ w[1] \in Calls /\ w[2] \in Paths /\ w = <<w[1], w[2]>>
      /\ version[w[2]] <= version'[w[2]] /\ version[w[2]] \in Nat /\ version'[w[2]] \in Nat
      /\ began[w[1]][w[2]] \in Nat /\ stamp[w] \in Nat
      /\ info[w].ast \in Nat /\ info[w].lines \in Nat
      /\ HasResult(w) => Ordered(w)
  BY WorkerPairs, VersionsGrow, NextType DEF TypeOK, Versions, ResultsInOrder
<1>1. ASSUME HasResult(w), began'[w[1]][w[2]] = began[w[1]][w[2]], info'[w] = info[w]
      PROVE  Ordered(w)'
  BY <1>0, <1>1
<1>2. ASSUME NEW q \in Edited, Write(q) \/ Remove(q) PROVE Ordered(w)'
  BY <1>1, <1>2 DEF Write, Remove, callVars, workVars, HasResult
<1>3. ASSUME NEW d \in Calls, Begin(d) PROVE Ordered(w)'
  BY <1>0, <1>1, <1>3 DEF Begin, workVars, HasResult, TypeOK
<1>4. ASSUME NEW d \in Calls, ListingHit(d) \/ Keep(d) PROVE Ordered(w)'
  <2>1. PICK fs : StartWorkers(d, fs)
    BY <1>4 DEF ListingHit, Keep
  <2>2. UNCHANGED <<began, info, failed>>
    BY <1>4 DEF ListingHit, Keep
  <2>3. w[1] # d
    <3> SUFFICES ASSUME w[1] = d PROVE FALSE
      OBVIOUS
    <3>1. w[2] \in fs /\ wpc'[w] = "off"
      BY <1>0, <2>1 DEF StartWorkers, HasResult, TypeOK
    <3>2. wpc'[w] = "stat"
      BY <2>1, <3>1 DEF StartWorkers
    <3> QED
      BY <3>1, <3>2
  <2>4. cpc'[w[1]] = cpc[w[1]] /\ listing'[w[1]] = listing[w[1]]
    BY <2>1, <2>3 DEF StartWorkers, TypeOK
  <2>5. wpc'[w] = wpc[w]
    BY <2>1, <2>3 DEF StartWorkers
  <2> QED
    BY <1>1, <2>2, <2>4, <2>5 DEF HasResult
<1>5. ASSUME NEW d \in Calls, ListingMiss(d) \/ Load(d) PROVE Ordered(w)'
  BY <1>0, <1>1, <1>5 DEF ListingMiss, Load, HasResult, TypeOK, workVars
<1>6. ASSUME NEW d \in Calls, WaitEnds(d) PROVE Ordered(w)'
  BY <1>0, <1>1, <1>6 DEF WaitEnds, HasResult, TypeOK, workVars
<1>7. ASSUME NEW v \in Workers, WorkerStep(v) PROVE Ordered(w)'
  <2>1. UNCHANGED <<began, version, cpc, listing>> /\ ~failed'[w[1]] /\ ~failed[w[1]]
    BY <1>0, <1>7, WorkerFrame DEF FileStep, diskVars, HasResult
  <2>2. CASE v # w
    <3>1. wpc'[w] = wpc[w] /\ info'[w] = info[w]
      BY <1>7, <2>2, WorkerFrame
    <3> QED
      BY <1>1, <2>1, <3>1 DEF HasResult
  <2>3. CASE v = w
    <3>1. wpc'[w] = "off"
      BY DEF HasResult
    <3>2. \/ wpc[w] = "lookup" /\ files[w[2]].stamp = stamp[w] /\ info'[w] = files[w[2]].info
          \/ wpc[w] = "store" /\ info'[w] = info[w]
      BY <1>7, <2>1, <2>3, <3>1, WorkerEffect
    <3>3. InOrder(w)
      BY DEF WorkInOrder
    <3>4. CASE wpc[w] = "store" /\ info'[w] = info[w]
      BY <1>0, <2>1, <3>3, <3>4 DEF InOrder
    <3>5. CASE wpc[w] = "lookup" /\ files[w[2]].stamp = stamp[w] /\ info'[w] = files[w[2]].info
      BY <1>0, <2>1, <3>3, <3>5 DEF InOrder, FilesInOrder, TypeOK, Versions
    <3> QED
      BY <3>2, <3>4, <3>5
  <2> QED
    BY <2>2, <2>3
<1>8. CASE UNCHANGED vars
  BY <1>1, <1>8 DEF vars, callVars, workVars, HasResult
<1> QED
  BY <1>2, <1>3, <1>4, <1>5, <1>6, <1>7, <1>8 DEF Next, GoStep, CallStep

-----------------------------------------------------------------------------
LEMMA InitIInv == Init => IInv
<1> SUFFICES ASSUME Init PROVE IInv
  OBVIOUS
<1>1. TypeOK
  BY InitType
<1>2. WrittenBefore /\ FilesInOrder
  BY DEF Init, WrittenBefore, FilesInOrder, NoStamp, NoInfo
<1>3. WorkInOrder
  BY WorkerPairs DEF Init, WorkInOrder, InOrder
<1>4. RunsForCall /\ ResultsInOrder
  BY WorkerPairs DEF Init, RunsForCall, ResultsInOrder, HasResult
<1> QED
  BY <1>1, <1>2, <1>3, <1>4 DEF IInv

LEMMA NextIInv == IInv /\ [Next]_vars => IInv'
BY NextType, VersionsGrow, NextFiles, NextWork, NextRuns, NextResults DEF IInv

LEMMA Inductive == Spec => []IInv
BY InitIInv, NextIInv, PTL DEF Spec

\* The index's variables keep their types, for any files, calls and edits.
THEOREM Typing == Spec => []TypeOK
<1>1. IInv => TypeOK
  BY DEF IInv
<1> QED
  BY <1>1, Inductive, PTL

\* An entry that the next lookup would take is the file's present content.
THEOREM CurrentHits == Spec => []HitIsCurrent
<1>1. IInv => HitIsCurrent
  <2> SUFFICES ASSUME IInv, NEW p \in Paths, files[p].stamp = version[p]
               PROVE  files[p].info = [ast |-> version[p], lines |-> version[p]]
    BY DEF HitIsCurrent
  <2>1. /\ files[p].info \in [ast : Nat, lines : Nat] /\ version[p] \in Nat
        /\ version[p] <= files[p].info.ast /\ files[p].info.ast <= files[p].info.lines
        /\ files[p].info.lines <= version[p]
    BY DEF IInv, TypeOK, FilesInOrder, Versions
  <2>2. files[p].info.ast = version[p] /\ files[p].info.lines = version[p]
    BY <2>1
  <2> QED
    BY <2>1, <2>2
<1> QED
  BY <1>1, Inductive, PTL

\* A call that returns without an error has infos no older than the call.
THEOREM FreshResults == Spec => []ResultIsFresh
<1>1. IInv => ResultIsFresh
  <2> SUFFICES ASSUME IInv, NEW c \in Calls, Returned(c), NEW p \in listing[c]
               PROVE  /\ began[c][p] <= info[<<c, p>>].ast
                      /\ info[<<c, p>>].ast <= info[<<c, p>>].lines
                      /\ info[<<c, p>>].lines <= version[p]
    BY DEF ResultIsFresh
  <2> DEFINE w == <<c, p>>
  <2>1. w \in Workers /\ w[1] = c /\ w[2] = p
    BY DEF IInv, TypeOK, Workers
  <2>2. HasResult(w)
    BY <2>1 DEF IInv, RunsForCall, HasResult, Returned
  <2> QED
    BY <2>1, <2>2 DEF IInv, ResultsInOrder
<1> QED
  BY <1>1, Inductive, PTL
===============================================================================
