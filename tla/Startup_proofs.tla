----------------------------- MODULE Startup_proofs -----------------------------
(***************************************************************************)
(* Proofs about Startup, for any set of marked locations, spots Delve      *)
(* cannot verify, source lines it reports, and lost answers.               *)
(*                                                                         *)
(* The breakpoint table enters with its own invariant, TableInv: nothing   *)
(* is ever cleared here, so that Delve has all that is listed, and what is *)
(* left to follow is that the marked lines are those of the list, whatever *)
(* ids the marks have kept.  The process follows the connection, except    *)
(* while it is dialled.  The exit code needs the way of each error: a      *)
(* cancellation reaches err from the signal context, also through the      *)
(* result of the scan and its channel, or from a key.                      *)
(***************************************************************************)
EXTENDS Startup, BreakpointTable_proofs

\* dlv lives as long as the connection; only the dial has dlv without one, and a close
\* what is left of it.
Phases ==
  /\ pc \in {"start", "dial", "done"} => ~connected
  /\ pc \in {"open", "select", "create", "bootstrap", "continue", "loop", "wait"} => connected
  /\ ~connected /\ pc # "dial" => dlv = "none" \/ (dlv = "held" /\ pc = "closing")

\* Cancellations come from the signal or a key; an early signal ends in an error.
ErrorsTold ==
  /\ startErr = "canceled" => signalled
  /\ found.err = "canceled" => signalled
  /\ \A i \in 1..Len(discovery) : discovery[i].err = "canceled" => signalled
  /\ err = "canceled" => signalled \/ ctrlC
  /\ early => signalled /\ pc # "wait"
  /\ pc = "closing" /\ early => err # "none"

\* The source lines of the breakpoints in a table.
SitesOf(table) ==
  {s \in Sites : \E g \in Groups : \E i \in 1..Len(table[g]) :
                    SiteOf(g, table[g][i].loc.spot) = s}

\* The marks follow the table from the first discovered breakpoint to the last command.
MarksFollow ==
  /\ pc \in {"start", "dial", "open", "select"} => marks = {} /\ tracked = Empty
  /\ pc \in {"create", "bootstrap", "continue", "loop", "wait"}
       => At(marks) = SitesOf(tracked)
  /\ pc \in {"continue", "loop", "wait"} /\ kind = "launch"
       => Bootstrap.spot \in SpotsOf(Functions)
  /\ ~cleared

StartInv == /\ TableInv
            /\ StartTypeOK
            /\ Phases
            /\ ErrorsTold
            /\ MarksFollow
            /\ ExitCodeTells

-----------------------------------------------------------------------------
(* What creating a breakpoint does to the table.                           *)

\* The spots of a group with one more location.
LEMMA AppendedSpots ==
  ASSUME TableInv, NEW l \in Locations
  PROVE  SpotsIn(Append(Locs(tracked[l.group]), Normalize(l)))
           = SpotsOf(l.group) \cup {l.spot}
<1> DEFINE g == l.group
           locs == Append(Locs(tracked[g]), Normalize(l))
<1>1. /\ Locs(tracked[g]) \in Seq(Locations) /\ Len(tracked[g]) \in Nat
      /\ Len(Locs(tracked[g])) = Len(tracked[g])
      /\ \A i \in 1..Len(tracked[g]) : Locs(tracked[g])[i] = tracked[g][i].loc
  BY GroupsOfLocations, TableIsSendable DEF Sendable
<1>2. Normalize(l) \in Locations /\ Normalize(l).spot = l.spot
  BY DEF Normalize, Locations
<1>3. /\ Len(locs) = Len(tracked[g]) + 1
      /\ \A i \in 1..Len(tracked[g]) : locs[i] = tracked[g][i].loc
      /\ locs[Len(tracked[g]) + 1] = Normalize(l)
  BY <1>1, <1>2, AppendProperties
<1> HIDE DEF locs
<1>4. 1..Len(locs) = 1..Len(tracked[g]) \cup {Len(tracked[g]) + 1}
  BY <1>1, <1>3
<1>5. \A i \in 1..Len(tracked[g]) : locs[i].spot = tracked[g][i].loc.spot
  BY <1>3
<1>6. locs[Len(tracked[g]) + 1].spot = l.spot
  BY <1>2, <1>3
<1>7. SpotsIn(locs) = {locs[i].spot : i \in 1..Len(locs)}
  BY DEF SpotsIn
<1>8. ASSUME NEW i \in 1..Len(locs) PROVE locs[i].spot \in SpotsOf(g) \cup {l.spot}
  <2>1. CASE i \in 1..Len(tracked[g])
    BY <1>5, <2>1 DEF SpotsOf
  <2>2. CASE i = Len(tracked[g]) + 1
    BY <1>6, <2>2
  <2> QED
    BY <1>4, <2>1, <2>2
<1>9. SpotsOf(g) \subseteq SpotsIn(locs)
  BY <1>4, <1>5, <1>7 DEF SpotsOf
<1>10. l.spot \in SpotsIn(locs)
  BY <1>4, <1>6, <1>7
<1>11. SpotsIn(locs) \subseteq SpotsOf(g) \cup {l.spot}
  BY <1>7, <1>8
<1>12. SpotsIn(locs) = SpotsOf(g) \cup {l.spot}
  BY <1>9, <1>10, <1>11
<1> QED
  BY <1>12 DEF locs

\* A creation that fails leaves the table alone; one that succeeds adds the spot,
\* if it was not there.
LEMMA CreateGrows ==
  ASSUME TableInv, NEW l \in Locations, NEW slow, Create(l, slow)
  PROVE  \/ ~result'.ok /\ UNCHANGED tracked
         \/ /\ result'.ok
            /\ SpotsOf(l.group)' = SpotsOf(l.group) \cup {l.spot}
            /\ \A h \in Groups \ {l.group} : SpotsOf(h)' = SpotsOf(h)
<1> DEFINE g == l.group
           locs == Append(Locs(tracked[g]), Normalize(l))
<1>1. g \in Groups /\ l.spot \in Spots
  BY GroupsOfLocations
<1>2. CASE Known(g, Normalize(l)) # {}
  <2>1. UNCHANGED tracked
    BY <1>2, Zenon DEF Create
  <2>2. PICK i \in Known(g, Normalize(l)) : Outcome("create", g, TRUE, tracked[g][i].id)
    BY <1>2, Zenon DEF Create
  <2>3. result'.ok
    BY <2>2 DEF Outcome
  <2>4. i \in 1..Len(tracked[g]) /\ tracked[g][i].loc = Normalize(l)
    BY DEF Known
  <2>5. Normalize(l).spot = l.spot
    BY DEF Normalize, Locations
  <2>6. l.spot \in SpotsOf(g)
    BY <2>4, <2>5 DEF SpotsOf
  <2>7. SpotsOf(g)' = SpotsOf(g) /\ \A h \in Groups : SpotsOf(h)' = SpotsOf(h)
    BY <2>1 DEF SpotsOf
  <2> QED
    BY <2>3, <2>6, <2>7
<1>3. CASE Known(g, Normalize(l)) = {}
  <2>1. /\ Asked("create", g, locs, 0)
        /\ SendGroup("create", g, locs, 0, slow)
    BY <1>3, CreateAsks DEF Create
  <2>2. CASE Refused("create", g, 0) \/ Lost("create", g, locs, 0)
    BY <2>2 DEF Refused, Lost, Outcome
  <2>3. CASE Answered("create", g, locs, 0)
    <3>1. PICK renumber \in BOOLEAN :
            LET wires == Wires(g, locs, renumber) IN
            /\ tracked' = IF Accept(wires)
                          THEN [tracked EXCEPT ![g] = Tracked(locs, wires)]
                          ELSE tracked
            /\ Outcome("create", g, Accept(wires), CreatedId(wires))
      BY <2>3 DEF Answered
    <3> DEFINE agreed == Accept(Wires(g, locs, renumber))
    <3>2. agreed \in BOOLEAN
      BY DEF Accept
    <3>3. result'.ok = agreed
      <4> DEFINE n == CreatedId(Wires(g, locs, renumber))
      <4>1. Outcome("create", g, agreed, n)
        BY <3>1
      <4> HIDE DEF n, agreed
      <4> QED
        BY <4>1, Zenon DEF Outcome
    <3>4. ~agreed => UNCHANGED tracked
      BY <3>1
    <3>5. ASSUME agreed
          PROVE  /\ SpotsOf(g)' = SpotsOf(g) \cup {l.spot}
                 /\ \A h \in Groups \ {g} : SpotsOf(h)' = SpotsOf(h)
      <4>1. result'.ok
        BY <3>3, <3>5
      <4> HIDE DEF locs, agreed
      <4>2. Accepted("create", g, locs, 0)
        BY <2>1, <4>1, SendChanges
      <4>3. /\ SpotsOf(g)' = SpotsIn(locs)
            /\ \A h \in Groups \ {g} : tracked'[h] = tracked[h]
        BY <4>2, AcceptedAgrees, Zenon
      <4>4. SpotsIn(locs) = SpotsOf(g) \cup {l.spot}
        BY <1>1, AppendedSpots DEF locs
      <4>5. \A h \in Groups \ {g} : SpotsOf(h)' = SpotsOf(h)
        BY <4>3 DEF SpotsOf
      <4> QED
        BY <4>3, <4>4, <4>5
    <3> QED
      BY <3>2, <3>3, <3>4, <3>5
  <2> QED
    BY <2>1, <2>2, <2>3 DEF SendGroup
<1> QED
  BY <1>2, <1>3

-----------------------------------------------------------------------------
(* The table through a step.                                               *)

\* The actions of the program, one by one.
LEMMA StartSteps ==
  ASSUME StartNext
  PROVE  \/ Signal \/ Deadline \/ DlvListens \/ DlvFails \/ PortTaken
         \/ ScanList \/ ScanFiles \/ ScanSend
         \/ Start \/ Dialled \/ DialFails \/ OpenFails \/ Opened
         \/ TakeScan \/ SelectDone \/ CreateDiscovered \/ AllDiscovered
         \/ CreateBootstrap \/ ContinueFails \/ Continued
         \/ NextBegins \/ NextCancelled \/ BreakCommand \/ LoopEnds \/ CloseSession
         \/ CloseWaits \/ OutputEnds
  BY Zenon DEF StartNext, ScanStep, MainStep, Answer

LEMMA TableSteps ==
  ASSUME StartInv, [StartNext]_startVars
  PROVE  \/ UNCHANGED tableVars
         \/ Reopen
         \/ ClosedTable
         \/ \E l \in Locations : \E slow : Create(l, slow)
<1>1. CASE CreateDiscovered
  BY <1>1, MarkedAssumption DEF CreateDiscovered, StartInv, StartTypeOK
<1>2. CASE CreateBootstrap
  BY <1>2, BootstrapAssumption DEF CreateBootstrap
<1>3. CASE BreakCommand
  BY <1>3, Zenon DEF BreakCommand, tableVars
<1>4. CASE Dialled \/ OpenFails \/ CloseSession \/ CloseWaits
  BY <1>4, Zenon DEF Dialled, OpenFails, CloseSession, CloseWaits, tableVars
<1>5. CASE \/ Signal \/ Deadline \/ DlvListens \/ DlvFails \/ PortTaken
           \/ ScanList \/ ScanFiles \/ ScanSend
           \/ Start \/ DialFails \/ Opened
           \/ TakeScan \/ SelectDone \/ AllDiscovered
           \/ ContinueFails \/ Continued
           \/ NextBegins \/ NextCancelled \/ LoopEnds \/ OutputEnds
           \/ UNCHANGED startVars
  BY <1>5 DEF Signal, Deadline, DlvListens, DlvFails, PortTaken, ScanList, ScanFiles, ScanSend,
              Scanning, Start, DialFails, Opened, TakeScan, SelectDone, AllDiscovered,
              ContinueFails, Continued, NextBegins, NextCancelled, LoopEnds, OutputEnds,
              startVars, tableVars
<1> QED
  BY <1>1, <1>2, <1>3, <1>4, <1>5, StartSteps

LEMMA TableKept ==
  ASSUME StartInv, [StartNext]_startVars
  PROVE  TableInv' /\ ~cleared'
<1>0. TableInv /\ ~cleared
  BY DEF StartInv, MarksFollow
<1>1. CASE UNCHANGED tableVars \/ Reopen
  <2>1. UNCHANGED <<tracked, installed, lastId, result, cleared>>
    BY <1>1 DEF Reopen, tableVars
  <2>2. connected' \in BOOLEAN
    <3>1. connected \in BOOLEAN
      BY <1>0 DEF TableInv, TypeOK
    <3>2. connected' = connected \/ connected' = TRUE
      BY <1>1, Zenon DEF Reopen, tableVars
    <3> QED
      BY <3>1, <3>2
  <2>3. ResultOK(result') /\ cleared' \in BOOLEAN /\ ~cleared'
    BY <1>0, <2>1 DEF TableInv, TypeOK, ResultOK
  <2> QED
    BY <1>0, <2>1, <2>2, <2>3, RefusedKeeps
<1>2. CASE ClosedTable
  <2>1. ResultOK(result')
    BY <1>2, OutcomeOK DEF ClosedTable, Groups
  <2>2. EmptyTable' /\ ~cleared'
    BY <1>2, <2>1 DEF ClosedTable, EmptyTable
  <2> QED
    BY <2>2, EmptyIsInvNext
<1>3. ASSUME NEW l \in Locations, NEW slow, Create(l, slow)
      PROVE  TableInv' /\ ~cleared'
  <2>1. UNCHANGED cleared
    BY <1>3 DEF Create
  <2> QED
    BY <1>0, <1>3, <2>1, CreateKeeps
<1> QED
  BY <1>1, <1>2, <1>3, TableSteps

-----------------------------------------------------------------------------
(* The conjuncts of the invariant, one by one.                             *)

LEMMA PhasesKept ==
  ASSUME StartInv, [StartNext]_startVars
  PROVE  Phases'
<1> USE DEF Phases
<1>0. Phases
  BY DEF StartInv
<1>1. CASE Signal \/ Deadline \/ ScanList \/ ScanFiles \/ ScanSend \/ UNCHANGED startVars
  BY <1>0, <1>1 DEF Signal, Deadline, ScanList, ScanFiles, ScanSend, Scanning, startVars,
                    mainVars, tableVars
<1>2. CASE DlvListens \/ DlvFails \/ PortTaken \/ OutputEnds
  BY <1>0, <1>2 DEF DlvListens, DlvFails, PortTaken, OutputEnds, tableVars
<1>3. CASE Start \/ DialFails
  BY <1>0, <1>3 DEF Start, DialFails, FailWith, tableVars
<1>4. CASE Dialled
  BY <1>0, <1>4 DEF Dialled, Reopen
<1>5. CASE OpenFails \/ CloseSession \/ CloseWaits
  <2>1. /\ ~connected' /\ pc' \in {"closing", "done"}
        /\ dlv' = "none" \/ (dlv' = "held" /\ pc' = "closing")
    <3>1. CASE OpenFails \/ CloseWaits
      BY <3>1 DEF OpenFails, CloseWaits, Killed, ClosedTable, FailWith
    <3>2. CASE CloseSession
      <4>1. /\ pc = "closing" /\ pc' = "done" /\ dlv # "held"
            /\ \/ connected /\ dlv' = "none" /\ connected' = FALSE
               \/ ~connected /\ UNCHANGED <<dlv, tableVars>>
        BY <3>2, Zenon DEF CloseSession, ClosedTable
      <4>2. CASE connected' = FALSE /\ dlv' = "none"
        BY <4>1, <4>2
      <4>3. CASE ~connected /\ UNCHANGED <<dlv, tableVars>>
        <5>1. UNCHANGED <<dlv, connected>>
          BY <4>3 DEF tableVars
        <5> QED
          BY <1>0, <4>1, <4>3, <5>1
      <4> QED
        BY <4>1, <4>2, <4>3
    <3> QED
      BY <1>5, <3>1, <3>2
  <2> QED
    BY <2>1
<1>6. CASE \/ Opened \/ TakeScan \/ SelectDone \/ AllDiscovered
           \/ ContinueFails \/ Continued \/ NextBegins \/ NextCancelled \/ LoopEnds
  BY <1>0, <1>6 DEF Opened, TakeScan, SelectDone, AllDiscovered, ContinueFails, Continued,
                    NextBegins, NextCancelled, LoopEnds, FailWith, tableVars
<1>7. ASSUME NEW l, NEW slow, Create(l, slow) PROVE UNCHANGED connected
  BY <1>7 DEF Create
<1>8. CASE CreateDiscovered \/ CreateBootstrap
  <2>1. UNCHANGED <<connected, dlv>>
    BY <1>7, <1>8 DEF CreateDiscovered, CreateBootstrap
  <2>2. \/ pc = "create" /\ pc' = "create"
        \/ pc = "bootstrap" /\ pc' \in {"continue", "closing"}
    BY <1>8, Zenon DEF CreateDiscovered, CreateBootstrap, FailWith
  <2> QED
    BY <1>0, <2>1, <2>2
<1>9. CASE BreakCommand
  <2>1. UNCHANGED <<connected, dlv>>
    BY <1>7, <1>9 DEF BreakCommand, tableVars
  <2>2. pc = "wait" /\ pc' \in {"loop", "closing"}
    BY <1>9, Zenon DEF BreakCommand, FailWith
  <2> QED
    BY <1>0, <2>1, <2>2
<1> QED
  BY <1>1, <1>2, <1>3, <1>4, <1>5, <1>6, <1>8, <1>9, StartSteps

\* The variables outside the table.
MainTypeOK ==
  /\ kind \in {"launch", "attach"}
  /\ pc \in {"start", "dial", "open", "select", "create", "bootstrap", "continue",
             "loop", "wait", "closing", "done"}
  /\ dlv \in {"none", "starting", "serving", "dead", "ousted", "held"}
  /\ signalled \in BOOLEAN /\ late \in BOOLEAN
  /\ startErr \in {"none", "canceled", "deadline"}
  /\ err \in Errors \cup {"none"}
  /\ code \in {0, 1, 130}
  /\ scan \in {"begin", "list", "files", "send", "done"}
  /\ found \in Results
  /\ discovery \in Seq(Results) /\ Len(discovery) <= 1
  /\ todo \subseteq Marked
  /\ marks \subseteq Marks
  /\ early \in BOOLEAN /\ ctrlC \in BOOLEAN

LEMMA ResultOfScan ==
  ASSUME NEW e \in Errors \cup {"none"}, NEW specs \in SUBSET Marked
  PROVE  Result(e, specs) \in Results /\ Result(e, specs).err = e
  BY DEF Result, Results

\* What Delve reports for a location is a line of a source, or none.
LEMMA SiteOfLocation ==
  ASSUME NEW l \in Locations
  PROVE  SiteOf(l.group, l.spot) \in Sites \cup {NoSite}
<1>1. l.group \in Groups /\ l.spot \in Spots
  BY GroupsOfLocations
<1>2. l.spot[1] \in Lines
  BY <1>1 DEF Spots
<1> QED
  BY <1>1, <1>2, SiteAssumption DEF SiteOf

LEMMA MarkIsMark ==
  ASSUME NEW l \in Locations, NEW id \in Nat
  PROVE  /\ MarkOf(l, id) \subseteq Marks
         /\ At(MarkOf(l, id)) = {s \in Sites : SiteOf(l.group, l.spot) = s}
<1> DEFINE s == SiteOf(l.group, l.spot)
<1>1. s \in Sites \cup {NoSite}
  BY SiteOfLocation
<1> HIDE DEF s
<1>2. MarkOf(l, id) = {m \in {[id |-> id, at |-> s]} : m.at # NoSite}
  BY DEF MarkOf, s
<1>3. CASE s = NoSite
  <2>1. MarkOf(l, id) = {} /\ s \notin Sites
    BY <1>2, <1>3, NoSiteAssumption
  <2> QED
    BY <2>1 DEF At, s
<1>4. CASE s # NoSite
  <2>1. MarkOf(l, id) = {[id |-> id, at |-> s]} /\ s \in Sites
    BY <1>1, <1>2, <1>4
  <2> QED
    BY <2>1 DEF At, s, Marks
<1> QED
  BY <1>3, <1>4

LEMMA AtUnion ==
  ASSUME NEW a, NEW b
  PROVE  At(a \cup b) = At(a) \cup At(b)
  BY DEF At

\* The marks of a table of locations kept by their groups are its source lines.
LEMMA MarksOfTable ==
  ASSUME NEW t \in [Groups -> Seq(Entries)],
         \A g \in Groups : \A i \in 1..Len(t[g]) : t[g][i].loc.group = g
  PROVE  MarksOf(t) \subseteq Marks /\ At(MarksOf(t)) = SitesOf(t)
<1>1. ASSUME NEW g \in Groups, NEW i \in 1..Len(t[g])
      PROVE  /\ MarkOf(t[g][i].loc, t[g][i].id) \subseteq Marks
             /\ At(MarkOf(t[g][i].loc, t[g][i].id))
                  = {s \in Sites : SiteOf(g, t[g][i].loc.spot) = s}
  <2>1. t[g] \in Seq(Entries)
    OBVIOUS
  <2>2. t[g][i] \in Entries
    BY <2>1, ElementOfSeq
  <2>3. t[g][i].loc \in Locations /\ t[g][i].id \in Nat
    BY <2>2 DEF Entries
  <2>4. t[g][i].loc.group = g
    OBVIOUS
  <2> QED
    BY <2>3, <2>4, MarkIsMark
<1>2. \A m : m \in MarksOf(t) <=> \E g \in Groups : \E i \in 1..Len(t[g]) :
                                   m \in MarkOf(t[g][i].loc, t[g][i].id)
  BY DEF MarksOf
<1>3. MarksOf(t) \subseteq Marks
  BY <1>1, <1>2, Zenon
<1>4. ASSUME NEW s PROVE s \in At(MarksOf(t)) <=> s \in SitesOf(t)
  <2>1. s \in At(MarksOf(t)) <=> \E m \in MarksOf(t) : m.at = s
    BY Zenon DEF At
  <2>2. \A g \in Groups : \A i \in 1..Len(t[g]) :
          (\E m \in MarkOf(t[g][i].loc, t[g][i].id) : m.at = s)
            <=> s \in Sites /\ SiteOf(g, t[g][i].loc.spot) = s
    <3> SUFFICES ASSUME NEW g \in Groups, NEW i \in 1..Len(t[g])
                 PROVE  (\E m \in MarkOf(t[g][i].loc, t[g][i].id) : m.at = s)
                          <=> s \in Sites /\ SiteOf(g, t[g][i].loc.spot) = s
      OBVIOUS
    <3>1. s \in At(MarkOf(t[g][i].loc, t[g][i].id))
            <=> s \in Sites /\ SiteOf(g, t[g][i].loc.spot) = s
      BY <1>1
    <3>2. s \in At(MarkOf(t[g][i].loc, t[g][i].id))
            <=> \E m \in MarkOf(t[g][i].loc, t[g][i].id) : m.at = s
      BY Zenon DEF At
    <3> QED
      BY <3>1, <3>2, Zenon
  <2>3. s \in SitesOf(t) <=> s \in Sites /\ \E g \in Groups : \E i \in 1..Len(t[g]) :
                                 SiteOf(g, t[g][i].loc.spot) = s
    BY DEF SitesOf
  <2>4. (\E m \in MarksOf(t) : m.at = s)
          <=> \E g \in Groups : \E i \in 1..Len(t[g]) :
                \E m \in MarkOf(t[g][i].loc, t[g][i].id) : m.at = s
    <3>1. ASSUME NEW m \in MarksOf(t), m.at = s
          PROVE  \E g \in Groups : \E i \in 1..Len(t[g]) :
                   \E n \in MarkOf(t[g][i].loc, t[g][i].id) : n.at = s
      <4>1. PICK g \in Groups : \E i \in 1..Len(t[g]) : m \in MarkOf(t[g][i].loc, t[g][i].id)
        BY <1>2, Zenon
      <4> QED
        BY <3>1, <4>1, Zenon
    <3>2. ASSUME NEW g \in Groups, NEW i \in 1..Len(t[g]),
                 NEW m \in MarkOf(t[g][i].loc, t[g][i].id), m.at = s
          PROVE  \E n \in MarksOf(t) : n.at = s
      <4>1. m \in MarksOf(t)
        BY <1>2, Zenon
      <4> QED
        BY <3>2, <4>1, Zenon
    <3> QED
      BY <3>1, <3>2, Zenon
  <2>5. (\E g \in Groups : \E i \in 1..Len(t[g]) :
           \E m \in MarkOf(t[g][i].loc, t[g][i].id) : m.at = s)
          <=> \E g \in Groups : \E i \in 1..Len(t[g]) :
                s \in Sites /\ SiteOf(g, t[g][i].loc.spot) = s
    BY <2>2, Zenon
  <2>6. (\E g \in Groups : \E i \in 1..Len(t[g]) :
           s \in Sites /\ SiteOf(g, t[g][i].loc.spot) = s)
          <=> s \in Sites /\ \E g \in Groups : \E i \in 1..Len(t[g]) :
                                SiteOf(g, t[g][i].loc.spot) = s
    BY Zenon
  <2> QED
    BY <2>1, <2>3, <2>4, <2>5, <2>6, Zenon
<1> QED
  BY <1>3, <1>4

\* A table that kept its invariant is such a table.
LEMMA TableFits ==
  ASSUME TableInv
  PROVE  /\ tracked \in [Groups -> Seq(Entries)]
         /\ \A g \in Groups : \A i \in 1..Len(tracked[g]) : tracked[g][i].loc.group = g
  BY DEF TableInv, TypeOK, Placed

LEMMA TableFitsNext ==
  ASSUME StartInv, [StartNext]_startVars
  PROVE  /\ tracked' \in [Groups -> Seq(Entries)]
         /\ \A g \in Groups : \A i \in 1..Len(tracked'[g]) : tracked'[g][i].loc.group = g
  BY TableKept DEF TableInv, TypeOK, Placed

LEMMA IdKept ==
  ASSUME StartInv, [StartNext]_startVars
  PROVE  result'.id \in Nat
  BY TableKept DEF TableInv, TypeOK

LEMMA TypesKept ==
  ASSUME StartInv, [StartNext]_startVars
  PROVE  MainTypeOK'
<1> USE DEF MainTypeOK, mainVars, clockVars, scanVars
<1>0. MainTypeOK
  BY DEF StartInv, StartTypeOK
<1>1. CASE Signal
  BY <1>0, <1>1 DEF Signal
<1>2. CASE Deadline
  BY <1>0, <1>2 DEF Deadline
<1>3. CASE DlvListens \/ DlvFails \/ PortTaken \/ OutputEnds
  BY <1>0, <1>3 DEF DlvListens, DlvFails, PortTaken, OutputEnds
<1>4. CASE ScanList
  <2>1. /\ UNCHANGED <<kind, mainVars, clockVars, discovery>>
        /\ scan' \in {"send", "list", "files"}
        /\ found' \in {found, Result(startErr, {}), Result("other", {})}
    BY <1>4, Zenon DEF ScanList, Scanning, Found
  <2>2. startErr \in Errors \cup {"none"} /\ "other" \in Errors /\ {} \in SUBSET Marked
    BY <1>0 DEF Errors
  <2>3. found' \in Results
    BY <1>0, <2>1, <2>2, ResultOfScan
  <2> QED
    BY <1>0, <2>1, <2>3
<1>5. CASE ScanFiles
  <2>1. /\ UNCHANGED <<kind, mainVars, clockVars, discovery>>
        /\ scan' = "send"
        /\ \E e \in Errors \cup {"none"}, specs \in SUBSET Marked : found' = Result(e, specs)
    BY <1>5 DEF ScanFiles, Scanning, Found, Errors
  <2> QED
    BY <1>0, <2>1, ResultOfScan
<1>6. CASE ScanSend
  <2>1. Append(discovery, found) \in Seq(Results)
        /\ Len(Append(discovery, found)) = Len(discovery) + 1
    BY <1>0, AppendProperties
  <2>2. Len(discovery) \in Nat
    BY <1>0, LenProperties
  <2> QED
    BY <1>0, <1>6, <2>1, <2>2 DEF ScanSend, Scanning
<1>7. CASE Start
  BY <1>0, <1>7 DEF Start, FailWith, Errors
<1>8. CASE Dialled \/ Opened \/ AllDiscovered \/ Continued
  BY <1>0, <1>8 DEF Dialled, Opened, AllDiscovered, Continued
<1>9. CASE DialFails \/ SelectDone
  BY <1>0, <1>9 DEF DialFails, SelectDone, FailWith, Errors
<1>10. CASE OpenFails \/ ContinueFails
  BY <1>0, <1>10 DEF OpenFails, Killed, ContinueFails, FailWith, Errors
<1>11. CASE TakeScan
  <2>1. /\ Tail(discovery) \in Seq(Results) /\ Len(Tail(discovery)) = Len(discovery) - 1
        /\ Head(discovery) \in Results /\ Len(discovery) \in Nat
    BY <1>0, <1>11, HeadTailProperties, LenProperties DEF TakeScan
  <2>2. /\ UNCHANGED <<kind, dlv, code, marks, ctrlC, clockVars, scan, found>>
        /\ discovery' = Tail(discovery)
        /\ pc' \in {"closing", "create"}
        /\ err' \in {Head(discovery).err, err}
        /\ todo' \in {Head(discovery).specs, todo}
    BY <1>11 DEF TakeScan, FailWith
  <2>3. Head(discovery).err \in Errors \cup {"none"} /\ Head(discovery).specs \subseteq Marked
    BY <2>1 DEF Results
  <2> QED
    BY <1>0, <2>1, <2>2, <2>3
<1>12. CASE CreateDiscovered
  <2>1. PICK l \in todo :
          /\ todo' = todo \ {l}
          /\ marks' = IF result'.ok THEN marks \cup MarkOf(l, result'.id) ELSE marks
    BY <1>12 DEF CreateDiscovered
  <2>2. MarkOf(l, result'.id) \subseteq Marks
    BY <1>0, IdKept, MarkIsMark, MarkedAssumption
  <2>3. marks' \subseteq Marks /\ todo' \subseteq Marked
    BY <1>0, <2>1, <2>2
  <2>4. UNCHANGED <<kind, pc, dlv, err, code, ctrlC, clockVars, scanVars>>
    BY <1>12, Zenon DEF CreateDiscovered
  <2> QED
    BY <1>0, <2>3, <2>4
<1>13. CASE CreateBootstrap
  <2>1. MarkOf(Bootstrap, result'.id) \subseteq Marks
    BY IdKept, MarkIsMark, BootstrapAssumption
  <2>2. /\ marks' = marks \cup MarkOf(Bootstrap, result'.id) \/ marks' = marks
        /\ pc' \in {"continue", "closing"}
        /\ err' \in {err, "other"}
        /\ UNCHANGED <<kind, dlv, code, todo, ctrlC, clockVars, scanVars>>
    BY <1>13, Zenon DEF CreateBootstrap, FailWith
  <2>3. marks' \subseteq Marks
    BY <1>0, <2>1, <2>2
  <2> QED
    BY <1>0, <2>2, <2>3 DEF Errors
<1>14. CASE NextBegins \/ NextCancelled \/ LoopEnds
  <2>1. /\ pc' \in {"closing", "wait"}
        /\ err' \in {err, "canceled", "none", "other"}
        /\ ctrlC' = TRUE \/ UNCHANGED ctrlC
        /\ UNCHANGED <<kind, dlv, code, todo, marks, clockVars, scanVars>>
    <3>1. CASE NextBegins
      BY <3>1, Zenon DEF NextBegins, FailWith
    <3>2. CASE NextCancelled \/ LoopEnds
      BY <3>2, Zenon DEF NextCancelled, LoopEnds, FailWith
    <3> QED
      BY <1>14, <3>1, <3>2, Zenon
  <2>2. ctrlC' \in BOOLEAN
    BY <1>0, <2>1
  <2> QED
    BY <1>0, <2>1, <2>2 DEF Errors
<1>15. CASE BreakCommand
  <2>1. MarksOf(tracked') \subseteq Marks
    BY TableFitsNext, MarksOfTable
  <2>2. /\ marks' = marks \/ marks' = MarksOf(tracked')
        /\ pc' \in {"loop", "closing"}
        /\ err' \in {err, "canceled"}
        /\ UNCHANGED <<kind, dlv, code, todo, ctrlC, clockVars, scanVars>>
    BY <1>15, Zenon DEF BreakCommand, FailWith, RefreshedMarks
  <2>3. marks' \subseteq Marks
    BY <1>0, <2>1, <2>2
  <2> QED
    BY <1>0, <2>2, <2>3 DEF Errors
<1>16. CASE CloseSession
  <2>1. \A e : \A f \in BOOLEAN : ExitCode(e, f) \in {0, 1, 130}
    BY DEF ExitCode
  <2>2. /\ dlv' \in {"none", dlv} /\ pc' = "done"
        /\ \E f \in BOOLEAN : code' = ExitCode(err, f)
        /\ UNCHANGED <<kind, err, todo, marks, ctrlC, clockVars, scanVars>>
    BY <1>16, Zenon DEF CloseSession
  <2> QED
    BY <1>0, <2>1, <2>2
<1>17. CASE UNCHANGED startVars
  BY <1>0, <1>17 DEF startVars
<1>18. CASE CloseWaits
  BY <1>0, <1>18 DEF CloseWaits, Errors
<1> QED
  BY <1>1, <1>2, <1>3, <1>4, <1>5, <1>6, <1>7, <1>8, <1>9, <1>10, <1>11, <1>12, <1>13,
     <1>14, <1>15, <1>16, <1>17, <1>18, StartSteps, Zenon

\* The signal is never taken back, nor Ctrl-C.
LEMMA ErrorsKept ==
  ASSUME StartInv, [StartNext]_startVars
  PROVE  ErrorsTold' /\ ExitCodeTells'
<1> USE DEF ErrorsTold, ExitCodeTells, mainVars, clockVars, scanVars
<1>0. ErrorsTold /\ ExitCodeTells /\ MainTypeOK
  BY DEF StartInv, StartTypeOK, MainTypeOK
<1>1. CASE Signal
  <2>1. /\ signalled' = TRUE /\ pc # "done"
        /\ UNCHANGED <<pc, code, err, ctrlC, found, discovery>>
        /\ early' = (pc \notin {"loop", "wait", "closing"})
    BY <1>1, Zenon DEF Signal
  <2>2. early' => pc # "wait" /\ pc # "closing"
    BY <2>1
  <2>3. ErrorsTold'
    BY <1>0, <2>1, <2>2
  <2>4. ExitCodeTells'
    BY <2>1
  <2> QED
    BY <2>3, <2>4
<1>2. CASE Deadline
  BY <1>0, <1>2 DEF Deadline
<1>3. CASE DlvListens \/ DlvFails \/ PortTaken \/ OutputEnds \/ UNCHANGED startVars
  BY <1>0, <1>3 DEF DlvListens, DlvFails, PortTaken, OutputEnds, startVars
<1>4. CASE ScanList
  <2>1. /\ UNCHANGED <<mainVars, clockVars, discovery>>
        /\ found' \in {found, Result(startErr, {}), Result("other", {})}
    BY <1>4, Zenon DEF ScanList, Scanning, Found
  <2>2. found'.err = "canceled" => signalled
    BY <1>0, <2>1 DEF Result
  <2> QED
    BY <1>0, <2>1, <2>2
<1>5. CASE ScanFiles
  <2>1. /\ UNCHANGED <<mainVars, clockVars, discovery>>
        /\ \E e \in {"none", "other"}, specs \in SUBSET Marked : found' = Result(e, specs)
    BY <1>5, Zenon DEF ScanFiles, Scanning, Found
  <2>2. found'.err # "canceled"
    BY <2>1 DEF Result
  <2> QED
    BY <1>0, <2>1, <2>2
<1>6. CASE ScanSend
  <2>1. /\ UNCHANGED <<mainVars, clockVars, found>>
        /\ discovery' = Append(discovery, found)
    BY <1>6, Zenon DEF ScanSend, Scanning
  <2>2. /\ Len(discovery') = Len(discovery) + 1 /\ Len(discovery) \in Nat
        /\ \A i \in 1..Len(discovery) : discovery'[i] = discovery[i]
        /\ discovery'[Len(discovery) + 1] = found
    BY <1>0, <2>1, AppendProperties, LenProperties DEF MainTypeOK
  <2>3. \A i \in 1..Len(discovery') : discovery'[i].err = "canceled" => signalled
    BY <1>0, <2>2
  <2> QED
    BY <1>0, <2>1, <2>3
<1>7. CASE TakeScan
  <2>1. /\ UNCHANGED <<code, ctrlC, clockVars, found>>
        /\ discovery # <<>> /\ discovery' = Tail(discovery)
        /\ \/ err' = Head(discovery).err /\ err' # "none" /\ pc' = "closing"
           \/ UNCHANGED err /\ pc' = "create"
    BY <1>7, Zenon DEF TakeScan, FailWith
  <2>2. /\ Len(discovery') = Len(discovery) - 1 /\ Len(discovery) \in Nat
        /\ Head(discovery) = discovery[1] /\ Len(discovery) # 0
        /\ \A i \in 1..Len(discovery') : discovery'[i] = discovery[i + 1]
    <3>1. discovery \in Seq(Results) /\ discovery # <<>>
      BY <1>0, <2>1 DEF MainTypeOK
    <3>2. /\ Len(discovery) \in Nat /\ Len(discovery) # 0
          /\ Len(Tail(discovery)) = Len(discovery) - 1
          /\ \A i \in 1..Len(Tail(discovery)) : Tail(discovery)[i] = discovery[i + 1]
      BY <3>1, HeadTailProperties, LenProperties, EmptySeq
    <3>3. Head(discovery) = discovery[1]
      BY <3>1
    <3>4. discovery' = Tail(discovery)
      BY <2>1
    <3> QED
      BY <3>2, <3>3, <3>4, Zenon
  <2>3. ASSUME NEW i \in 1..Len(discovery')
        PROVE  discovery'[i].err = "canceled" => signalled
    <3>1. i + 1 \in 1..Len(discovery) /\ discovery'[i] = discovery[i + 1]
      BY <2>2
    <3> QED
      BY <1>0, <3>1, Zenon
  <2>4. Head(discovery).err = "canceled" => signalled
    BY <1>0, <2>2
  <2> QED
    BY <1>0, <2>1, <2>3, <2>4
<1>8. ASSUME UNCHANGED <<code, ctrlC, clockVars, scanVars>>, pc # "done",
             \/ pc' \in {"dial", "open", "select", "create", "bootstrap", "continue", "loop"}
                /\ UNCHANGED err
             \/ pc' = "closing" /\ err' \in {"other", "deadline"}
             \/ pc' = "closing" /\ err' = "canceled" /\ signalled
      PROVE  ErrorsTold' /\ ExitCodeTells'
  BY <1>0, <1>8
<1>9. CASE Start \/ Dialled \/ Opened \/ OpenFails \/ AllDiscovered
           \/ ContinueFails \/ Continued
  BY <1>8, <1>9 DEF Start, Dialled, Opened, OpenFails, AllDiscovered, ContinueFails,
                    Continued, FailWith
<1>10. CASE DialFails \/ SelectDone
  <2>1. startErr \in {"canceled", "deadline"} /\ (startErr = "canceled" => signalled)
    BY <1>0, <1>10 DEF DialFails, SelectDone, MainTypeOK
  <2>2. /\ UNCHANGED <<code, ctrlC, clockVars, scanVars>> /\ pc # "done"
        /\ pc' = "closing" /\ err' = startErr
    BY <1>10 DEF DialFails, SelectDone, FailWith
  <2> QED
    BY <1>8, <2>1, <2>2
<1>11. CASE CreateDiscovered \/ CreateBootstrap
  <2>1. /\ UNCHANGED <<code, ctrlC, clockVars, scanVars>>
        /\ \/ pc = "create" /\ UNCHANGED <<pc, err>>
           \/ pc = "bootstrap" /\ pc' = "continue" /\ UNCHANGED err
           \/ pc = "bootstrap" /\ pc' = "closing" /\ err' = "other"
    BY <1>11, Zenon DEF CreateDiscovered, CreateBootstrap, FailWith
  <2> QED
    BY <1>8, <2>1
<1>12. CASE BreakCommand
  <2>1. /\ UNCHANGED <<code, ctrlC, clockVars, scanVars>> /\ pc = "wait"
        /\ \/ signalled /\ pc' = "closing" /\ err' = "canceled"
           \/ pc' = "loop" /\ UNCHANGED err
    BY <1>12, Zenon DEF BreakCommand, FailWith
  <2> QED
    BY <1>8, <2>1
<1>13. CASE NextBegins
  <2>1. /\ UNCHANGED <<code, ctrlC, clockVars, scanVars>> /\ pc = "loop"
        /\ \/ signalled /\ pc' = "closing" /\ err' = "canceled"
           \/ ~signalled /\ pc' = "wait" /\ UNCHANGED err
    BY <1>13, Zenon DEF NextBegins, FailWith
  <2>2. CASE signalled
    BY <1>8, <2>1, <2>2
  <2>3. CASE ~signalled
    BY <1>0, <2>1, <2>3
  <2> QED
    BY <2>2, <2>3
<1>14. CASE NextCancelled
  BY <1>8, <1>14 DEF NextCancelled, FailWith
<1>15. CASE LoopEnds
  <2>1. /\ UNCHANGED <<code, clockVars, scanVars>> /\ pc = "wait" /\ pc' = "closing"
        /\ \/ err' \in {"none", "other"} /\ UNCHANGED ctrlC
           \/ err' = "canceled" /\ ctrlC' = TRUE
    BY <1>15, Zenon DEF LoopEnds
  <2>2. ~early'
    BY <1>0, <2>1
  <2>3. CASE err' \in {"none", "other"} /\ UNCHANGED ctrlC
    BY <1>0, <2>1, <2>2, <2>3
  <2>4. CASE err' = "canceled" /\ ctrlC' = TRUE
    BY <1>0, <2>1, <2>2, <2>4
  <2> QED
    BY <2>1, <2>3, <2>4
<1>16. CASE CloseSession
  <2>1. /\ UNCHANGED <<err, ctrlC, clockVars, scanVars>>
        /\ pc = "closing" /\ pc' = "done"
        /\ \E f \in BOOLEAN : code' = ExitCode(err, f)
    BY <1>16, Zenon DEF CloseSession
  <2>2. /\ \A f \in BOOLEAN : err # "none" => ExitCode(err, f) # 0
        /\ \A f \in BOOLEAN : ExitCode(err, f) = 130 => err = "canceled"
    BY DEF ExitCode
  <2>3. (code' = 130 => err = "canceled") /\ (err # "none" => code' # 0)
    BY <2>1, <2>2
  <2> QED
    BY <1>0, <2>1, <2>3
<1>17. CASE CloseWaits
  <2>1. /\ UNCHANGED <<pc, code, ctrlC, clockVars, scanVars>> /\ pc = "closing"
        /\ UNCHANGED err \/ (err = "none" /\ err' = "other")
    BY <1>17 DEF CloseWaits
  <2> QED
    BY <1>0, <2>1
<1> QED
  BY <1>1, <1>2, <1>3, <1>4, <1>5, <1>6, <1>7, <1>9, <1>10, <1>11, <1>12, <1>13,
     <1>14, <1>15, <1>16, <1>17, StartSteps, Zenon

\* Where the marks are not yet set, are set, and include the default breakpoint.
Before == {"start", "dial", "open", "select"}
Setting == {"create", "bootstrap", "continue", "loop", "wait"}
Begun == {"continue", "loop", "wait"}

\* An empty table has no marks.
LEMMA NoMarks == tracked = Empty => SitesOf(tracked) = {}
<1> SUFFICES ASSUME tracked = Empty PROVE SitesOf(tracked) = {}
  OBVIOUS
<1>1. \A g \in Groups : tracked[g] = <<>> /\ Len(<<>>) = 0
  BY DEF Empty
<1> QED
  BY <1>1 DEF SitesOf

\* The source lines are those of the spots.
LEMMA SitesOfSpots ==
  SitesOf(tracked) = {s \in Sites : \E g \in Groups : \E p \in SpotsOf(g) : SiteOf(g, p) = s}
  BY DEF SitesOf, SpotsOf

LEMMA SitesOfSpotsNext ==
  SitesOf(tracked')
    = {s \in Sites : \E g \in Groups : \E p \in SpotsOf(g)' : SiteOf(g, p) = s}
  BY DEF SitesOf, SpotsOf

\* A creation adds its mark, and takes none away.
LEMMA MarksGrow ==
  ASSUME TableInv, NEW l \in Locations, NEW slow, Create(l, slow), NEW id \in Nat
  PROVE  /\ SitesOf(tracked') = IF result'.ok
                                THEN SitesOf(tracked) \cup At(MarkOf(l, id))
                                ELSE SitesOf(tracked)
         /\ \A g \in Groups : SpotsOf(g) \subseteq SpotsOf(g)'
<1>1. CASE ~result'.ok /\ UNCHANGED tracked
  BY <1>1 DEF SpotsOf
<1>2. CASE /\ result'.ok
           /\ SpotsOf(l.group)' = SpotsOf(l.group) \cup {l.spot}
           /\ \A h \in Groups \ {l.group} : SpotsOf(h)' = SpotsOf(h)
  <2>1. \A g \in Groups : SpotsOf(g) \subseteq SpotsOf(g)'
    BY <1>2
  <2>2. \A g \in Groups : \A p :
          p \in SpotsOf(g)' <=> p \in SpotsOf(g) \/ (g = l.group /\ p = l.spot)
    BY <1>2
  <2>3. l.group \in Groups
    BY GroupsOfLocations
  <2>4. At(MarkOf(l, id)) = {s \in Sites : SiteOf(l.group, l.spot) = s}
    BY MarkIsMark
  <2>5. ASSUME NEW s \in Sites
        PROVE  s \in SitesOf(tracked') <=> s \in SitesOf(tracked) \cup At(MarkOf(l, id))
    <3>1. s \in SitesOf(tracked') <=> \E g \in Groups : \E p \in SpotsOf(g)' : SiteOf(g, p) = s
      BY SitesOfSpotsNext
    <3>2. s \in SitesOf(tracked) <=> \E g \in Groups : \E p \in SpotsOf(g) : SiteOf(g, p) = s
      BY SitesOfSpots
    <3>3. s \in At(MarkOf(l, id)) <=> SiteOf(l.group, l.spot) = s
      BY <2>4
    <3> QED
      BY <2>2, <2>3, <3>1, <3>2, <3>3, Zenon
  <2>6. /\ SitesOf(tracked') \subseteq Sites /\ SitesOf(tracked) \subseteq Sites
        /\ At(MarkOf(l, id)) \subseteq Sites
    BY <2>4 DEF SitesOf
  <2> QED
    BY <1>2, <2>1, <2>5, <2>6
<1> QED
  BY <1>1, <1>2, CreateGrows

LEMMA MarksKept ==
  ASSUME StartInv, [StartNext]_startVars
  PROVE  MarksFollow'
<1>0. MarksFollow /\ ~cleared'
  BY TableKept DEF StartInv
<1>1. ASSUME UNCHANGED <<kind, tracked, marks>>,
             \/ UNCHANGED pc
             \/ pc \in Before /\ pc' \in Before
             \/ pc = "select" /\ pc' = "create"
             \/ pc = "create" /\ pc' = "bootstrap"
             \/ pc \in Begun /\ pc' \in Begun
             \/ pc' \in {"closing", "done"}
             \/ pc = "open" /\ pc' = "loop" /\ kind # "launch"
      PROVE  MarksFollow'
  <2>1. SitesOf(tracked') = SitesOf(tracked) /\ SpotsOf(Functions)' = SpotsOf(Functions)
    BY <1>1 DEF SpotsOf
  <2>2. tracked = Empty => SitesOf(tracked) = {}
    BY NoMarks
  <2>3. At({}) = {} /\ At(marks') = At(marks)
    BY <1>1 DEF At
  <2> QED
    BY <1>0, <1>1, <2>1, <2>2, <2>3 DEF MarksFollow, Before, Begun
<1>2. CASE OpenFails \/ CloseSession \/ CloseWaits
  <2>1. pc' \in {"closing", "done"}
    BY <1>2 DEF OpenFails, CloseSession, CloseWaits, FailWith
  <2> QED
    BY <1>0, <2>1 DEF MarksFollow
<1>3. CASE Signal \/ Deadline \/ DlvListens \/ DlvFails \/ PortTaken \/ OutputEnds
           \/ ScanList \/ ScanFiles \/ ScanSend \/ UNCHANGED startVars
  BY <1>1, <1>3 DEF Signal, Deadline, DlvListens, DlvFails, PortTaken, OutputEnds, ScanList,
                    ScanFiles, ScanSend, Scanning, startVars, mainVars, tableVars
<1>4. CASE Start \/ DialFails \/ TakeScan \/ SelectDone \/ AllDiscovered \/ ContinueFails
  BY <1>1, <1>4 DEF Start, DialFails, TakeScan, SelectDone, AllDiscovered, ContinueFails,
                    FailWith, tableVars, Before
<1>5. CASE Dialled \/ Opened \/ Continued
  BY <1>1, <1>5 DEF Dialled, Reopen, Opened, Continued, tableVars, Before, Begun
<1>6. CASE NextBegins \/ NextCancelled \/ LoopEnds
  <2>1. /\ UNCHANGED <<kind, marks, tableVars>> /\ pc \in Begun
        /\ pc' \in Begun \/ pc' = "closing"
    BY <1>6, Zenon DEF NextBegins, NextCancelled, LoopEnds, FailWith, Begun
  <2> QED
    BY <1>1, <2>1 DEF tableVars
<1>7. CASE CreateDiscovered
  <2>1. PICK l \in todo :
          /\ Create(l, late)
          /\ marks' = IF result'.ok THEN marks \cup MarkOf(l, result'.id) ELSE marks
    BY <1>7, Zenon DEF CreateDiscovered
  <2>2. l \in Locations
    BY MarkedAssumption DEF StartInv, StartTypeOK
  <2>3. SitesOf(tracked') = IF result'.ok
                            THEN SitesOf(tracked) \cup At(MarkOf(l, result'.id))
                            ELSE SitesOf(tracked)
    BY <2>1, <2>2, IdKept, MarksGrow DEF StartInv
  <2>4. pc = "create" /\ UNCHANGED <<kind, pc>>
    BY <1>7 DEF CreateDiscovered
  <2>5. At(marks') = SitesOf(tracked')
    BY <1>0, <2>1, <2>3, <2>4, AtUnion DEF MarksFollow
  <2> QED
    BY <1>0, <2>4, <2>5 DEF MarksFollow
<1>8. CASE CreateBootstrap
  <2>1. /\ Bootstrap \in Locations /\ Bootstrap.group = Functions
    BY BootstrapAssumption
  <2>2. Create(Bootstrap, late) /\ pc = "bootstrap"
    BY <1>8 DEF CreateBootstrap
  <2>3. SitesOf(tracked') = IF result'.ok
                            THEN SitesOf(tracked) \cup At(MarkOf(Bootstrap, result'.id))
                            ELSE SitesOf(tracked)
    BY <2>1, <2>2, IdKept, MarksGrow DEF StartInv
  <2>4. CASE ~result'.ok
    <3>1. pc' = "closing"
      BY <1>8, <2>4, Zenon DEF CreateBootstrap, FailWith
    <3> QED
      BY <1>0, <3>1 DEF MarksFollow
  <2>5. CASE result'.ok
    <3>1. pc' = "continue" /\ marks' = marks \cup MarkOf(Bootstrap, result'.id)
      BY <1>8, <2>5, Zenon DEF CreateBootstrap
    <3>2. At(marks') = SitesOf(tracked')
      BY <1>0, <2>2, <2>3, <2>5, <3>1, AtUnion DEF MarksFollow
    <3>3. Bootstrap.spot \in SpotsOf(Functions)'
      BY <2>1, <2>2, <2>5, CreateGrows DEF StartInv
    <3> QED
      BY <1>0, <3>1, <3>2, <3>3 DEF MarksFollow
  <2> QED
    BY <2>4, <2>5
<1>9. CASE BreakCommand
  <2>1. CASE pc' = "closing"
    BY <1>0, <2>1 DEF MarksFollow
  <2>2. CASE pc' # "closing"
    <3>1. PICK l \in Locations, slow \in {FALSE, Losses} : Create(l, slow)
      BY <1>9, <2>2, Zenon DEF BreakCommand, FailWith
    <3>2. /\ marks' = IF result'.ok THEN MarksOf(tracked') ELSE marks
          /\ pc = "wait" /\ pc' = "loop" /\ UNCHANGED kind
      BY <1>9, <2>2, Zenon DEF BreakCommand, FailWith, RefreshedMarks
    <3>3. /\ ~result'.ok => SitesOf(tracked') = SitesOf(tracked)
          /\ SpotsOf(Functions) \subseteq SpotsOf(Functions)'
      BY <3>1, IdKept, MarksGrow DEF StartInv, Groups
    <3>4. At(marks) = SitesOf(tracked) /\ (kind = "launch" => Bootstrap.spot \in SpotsOf(Functions))
      BY <1>0, <3>2 DEF MarksFollow
    <3>5. At(marks') = SitesOf(tracked')
      BY <3>2, <3>3, <3>4, TableFitsNext, MarksOfTable
    <3> QED
      BY <1>0, <3>2, <3>3, <3>4, <3>5 DEF MarksFollow
  <2> QED
    BY <2>1, <2>2
<1> QED
  BY <1>2, <1>3, <1>4, <1>5, <1>6, <1>7, <1>8, <1>9, StartSteps, Zenon

-----------------------------------------------------------------------------
(* The theorems.                                                           *)

LEMMA StartStarts == ASSUME StartInit PROVE StartInv
<1> USE DEF StartInit
<1>1. ResultOK(result)
  <2>1. result = [call |-> "none", group |-> Functions, ok |-> TRUE, id |-> 0]
    OBVIOUS
  <2> QED
    BY <2>1 DEF ResultOK, Groups
<1>2. TableInv
  <2>1. EmptyTable
    BY <1>1 DEF EmptyTable
  <2> QED
    BY <2>1, EmptyIsInv
<1>3. found \in Results /\ found.err = "none" /\ discovery \in Seq(Results) /\ Len(discovery) = 0
  BY EmptySeq DEF Results, Result
<1>4. StartTypeOK
  <2>1. /\ kind \in {"launch", "attach"} /\ pc = "start" /\ dlv = "none"
        /\ startErr = "none" /\ err = "none" /\ code = 0
        /\ scan \in {"begin", "done"} /\ todo = {} /\ marks = {}
    OBVIOUS
  <2>2. signalled = FALSE /\ late = FALSE /\ early = FALSE /\ ctrlC = FALSE
    OBVIOUS
  <2>3. TypeOK
    BY <1>2 DEF TableInv
  <2> HIDE DEF StartInit
  <2>4. todo \subseteq Marked /\ marks \subseteq Marks
    BY <2>1
  <2>5. Len(discovery) <= 1 /\ code \in {0, 1, 130}
    BY <1>3, <2>1
  <2>6. signalled \in BOOLEAN /\ late \in BOOLEAN /\ early \in BOOLEAN /\ ctrlC \in BOOLEAN
    BY <2>2
  <2> QED
    BY <1>3, <2>1, <2>3, <2>4, <2>5, <2>6, Zenon DEF StartTypeOK
<1>5. Phases /\ ErrorsTold /\ ExitCodeTells
  <2>1. 1..Len(discovery) = {}
    BY <1>3
  <2>2. pc = "start" /\ startErr = "none" /\ err = "none" /\ dlv = "none"
        /\ connected = FALSE /\ early = FALSE
    OBVIOUS
  <2> QED
    BY <1>3, <2>1, <2>2 DEF Phases, ErrorsTold, ExitCodeTells
<1>6. MarksFollow
  BY DEF MarksFollow
<1> QED
  BY <1>2, <1>4, <1>5, <1>6 DEF StartInv

LEMMA StartInvariance == StartSpec => []StartInv
<1>1. StartInit => StartInv
  BY StartStarts
<1>2. StartInv /\ [StartNext]_startVars => StartInv'
  <2> SUFFICES ASSUME StartInv, [StartNext]_startVars PROVE StartInv'
    OBVIOUS
  <2>1. TableInv' /\ MainTypeOK' /\ Phases' /\ ErrorsTold' /\ ExitCodeTells' /\ MarksFollow'
    BY TableKept, TypesKept, PhasesKept, ErrorsKept, MarksKept
  <2>2. StartTypeOK'
    BY <2>1 DEF StartTypeOK, MainTypeOK, TableInv
  <2> QED
    BY <2>1, <2>2 DEF StartInv
<1> QED
  BY <1>1, <1>2, PTL DEF StartSpec

\* Every variable keeps its type, the channel of the scan its capacity of one.
THEOREM StartTyping == StartSpec => []StartTypeOK
  BY StartInvariance, PTL DEF StartInv

\* Whatever path the program ends on, dlv is gone and the connection is closed.
THEOREM NothingLeft == StartSpec => []NothingLeftRunning
<1>1. StartInv => NothingLeftRunning
  BY DEF StartInv, Phases, NothingLeftRunning
<1> QED
  BY <1>1, StartInvariance, PTL

\* An interrupt before the session is an error, and only interrupts have its code.
THEOREM CodeTells == StartSpec => []ExitCodeTells
  BY StartInvariance, PTL DEF StartInv

\* In a session the marked lines are those of the client's list, Delve has a breakpoint
\* at each, and a launched session has its default breakpoint.
THEOREM MarksAgree == StartSpec => []MarksAreBreakpoints
<1>1. ASSUME StartInv PROVE MarksAreBreakpoints
  <2> SUFFICES ASSUME InSession PROVE MarksAreBreakpoints
    BY DEF MarksAreBreakpoints
  <2>1. At(marks) = SitesOf(tracked) /\ At(MarksOf(tracked)) = SitesOf(tracked)
    BY <1>1, TableFits, MarksOfTable DEF StartInv, MarksFollow, InSession
  <2>2. \A g \in Groups : SpotsOf(g) \subseteq InstalledIn(g)
    BY <1>1 DEF StartInv, TableInv, ListedIsInstalled, MarksFollow
  <2>3. \A m \in marks : \E g \in Groups : \E b \in installed[g] : m.at = SiteOf(g, b.spot)
    <3> SUFFICES ASSUME NEW m \in marks
                 PROVE  \E g \in Groups : \E b \in installed[g] : m.at = SiteOf(g, b.spot)
      OBVIOUS
    <3>1. m.at \in SitesOf(tracked)
      BY <2>1 DEF At
    <3>2. PICK g \in Groups : \E p \in SpotsOf(g) : SiteOf(g, p) = m.at
      BY <3>1, SitesOfSpots
    <3>3. PICK p \in SpotsOf(g) : SiteOf(g, p) = m.at
      BY <3>2
    <3>4. p \in InstalledIn(g)
      BY <2>2
    <3>5. PICK b \in installed[g] : b.spot = p
      BY <3>4 DEF InstalledIn
    <3> QED
      BY <3>3, <3>5
  <2>4. kind = "launch" => Bootstrap.spot \in InstalledIn(Functions)
    BY <1>1, <2>2 DEF StartInv, MarksFollow, InSession, Groups
  <2> QED
    BY <2>1, <2>3, <2>4 DEF MarksAreBreakpoints
<1> QED
  BY <1>1, StartInvariance, PTL
=================================================================================
