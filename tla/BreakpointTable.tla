--------------------------- MODULE BreakpointTable ---------------------------
(***************************************************************************)
(* The breakpoint tables of the DAP client (internal/backend/dap/          *)
(* breakpoints.go) and the breakpoints Delve really has.                   *)
(*                                                                         *)
(* DAP has no request to add one breakpoint: setBreakpoints replaces all   *)
(* the breakpoints of a file, setFunctionBreakpoints all the breakpoints   *)
(* on functions.  The client therefore keeps a table per file and one for  *)
(* functions, sends the whole group with every change, and replaces the    *)
(* group's table only when Delve verified every entry.  A request may be   *)
(* answered, refused, or carried out with its answer lost to a deadline.   *)
(*                                                                         *)
(* A breakpoint is wanted at a spot: a line of a file or a function, under *)
(* a condition.  One line under two conditions is two breakpoints to the   *)
(* client.  So is one line of a file that is given two absolute names,     *)
(* which the code does not clean: here such names are two files.           *)
(***************************************************************************)
EXTENDS Naturals, Sequences

CONSTANTS Files,       \* the source files
          Lines,       \* lines of a file, or names of functions
          Conditions,  \* conditions, the empty one included
          Bad,         \* the <<group, spot>> pairs Delve cannot verify
          MaxId,       \* bound on the ids Delve hands out
          Losses,      \* whether answers may be lost
          Clears       \* whether the caller clears breakpoints

Functions == "functions"
Groups == Files \cup {Functions}
Spots == Lines \X Conditions

ASSUME FilesAssumption == Functions \notin Files
ASSUME BadAssumption == Bad \subseteq Groups \X Spots
ASSUME MaxIdAssumption == MaxId \in Nat

\* A location as the caller names it: files may be named relatively.
Locations == {l \in [group : Groups, spot : Spots, form : {"absolute", "relative"}] :
                l.group = Functions => l.form = "absolute"}

VARIABLES connected,  \* Client.conn is set
          tracked,    \* fileBreakpoints and functionBreakpoints
          installed,  \* Delve's breakpoints, a set for each group
          lastId,     \* the last id Delve handed out
          result,     \* how the last call ended
          cleared     \* history: a clear was asked for in this session

vars == <<connected, tracked, installed, lastId, result, cleared>>

\* A tracked entry keeps the location as requested; Delve knows only the spot.
Entries == [loc : Locations, id : Nat \ {0}]
Installed == [spot : Spots, id : Nat \ {0}]

TypeOK == /\ connected \in BOOLEAN
          /\ tracked \in [Groups -> Seq(Entries)]
          /\ installed \in [Groups -> SUBSET Installed]
          /\ lastId \in Nat
          /\ result \in [call : {"none", "create", "clear", "close"},
                         group : Groups, ok : BOOLEAN, id : Nat]
          /\ cleared \in BOOLEAN

Empty == [g \in Groups |-> <<>>]
NothingInstalled == [g \in Groups |-> {}]

Init == /\ connected = TRUE
        /\ tracked = Empty
        /\ installed = NothingInstalled
        /\ lastId = 0
        /\ result \in [call : {"none"}, group : Groups, ok : {TRUE}, id : {0}]
        /\ cleared = FALSE

-----------------------------------------------------------------------------
\* Mutant: locations are compared as the caller wrote them.
NormalizeNothing(l) == l

\* normalizeBreakpointSpec: relative file names become absolute.
Normalize(l) == [l EXCEPT !.form = "absolute"]

Locs(entries) == [i \in 1..Len(entries) |-> entries[i].loc]

Verified(g, p) == <<g, p>> \notin Bad

\* Delve's answer to a list of spots, one wire breakpoint per spot.  A spot it
\* already had keeps its id, or the whole group is numbered anew.
Wires(g, locs, renumber) ==
  [i \in 1..Len(locs) |->
    LET p == locs[i].spot
        old == {b \in installed[g] : b.spot = p} IN
    [spot |-> p, verified |-> Verified(g, p),
     id |-> IF old # {} /\ ~renumber
            THEN (CHOOSE b \in old : TRUE).id
            ELSE lastId + i]]

\* Delve keeps what it could verify.
Install(g, wires) ==
  /\ installed' = [installed EXCEPT ![g] =
       {[spot |-> wires[i].spot, id |-> wires[i].id] :
          i \in {j \in 1..Len(wires) : wires[j].verified}}]
  /\ lastId' = lastId + Len(wires)

\* Mutant: the table is replaced whether or not the entries were verified.
AcceptAny(wires) == TRUE

\* decodeBreakpoints: one unverified entry is an error for the whole call.
Accept(wires) == \A i \in 1..Len(wires) : wires[i].verified

\* mapTrackedBreakpoints
Tracked(locs, wires) ==
  [i \in 1..Len(locs) |-> [loc |-> locs[i], id |-> wires[i].id]]

\* Mutant: the first breakpoint of the group is returned.
FirstId(wires) == wires[1].id

\* The new breakpoint is the last of its group.
CreatedId(wires) == wires[Len(wires)].id

Outcome(call, g, ok, id) == result' = [call |-> call, group |-> g, ok |-> ok, id |-> id]

Answered(call, g, locs, id) ==
  \E renumber \in BOOLEAN :
    LET wires == Wires(g, locs, renumber) IN
    /\ Install(g, wires)
    /\ tracked' = IF Accept(wires)
                  THEN [tracked EXCEPT ![g] = Tracked(locs, wires)]
                  ELSE tracked
    /\ Outcome(call, g, Accept(wires), IF call = "create" THEN CreatedId(wires) ELSE id)

\* Carried out, but the deadline strikes before the answer is read.
Lost(call, g, locs, id) ==
  /\ \E renumber \in BOOLEAN : Install(g, Wires(g, locs, renumber))
  /\ Outcome(call, g, FALSE, id)
  /\ UNCHANGED tracked

Refused(call, g, id) ==
  /\ Outcome(call, g, FALSE, id)
  /\ UNCHANGED <<tracked, installed, lastId>>

\* The group is sent to Delve; call and id are what the caller asked for, late
\* says that the call's deadline strikes before Delve answers.
SendGroup(call, g, locs, id, late) ==
  \/ ~late /\ Answered(call, g, locs, id)
  \/ late /\ Lost(call, g, locs, id)
  \/ Refused(call, g, id)

\* trackedBreakpointFromSpec compares the location and the condition.
Known(g, loc) == {i \in 1..Len(tracked[g]) : tracked[g][i].loc = loc}

\* CreateBreakpoint: a known location is answered from the table.
Create(l, late) ==
  LET loc == Normalize(l)
      g == l.group IN
  /\ connected
  /\ \/ /\ Known(g, loc) # {}
        /\ \E i \in Known(g, loc) :
             Outcome("create", g, TRUE, tracked[g][i].id)
        /\ UNCHANGED <<tracked, installed, lastId>>
     \/ /\ Known(g, loc) = {}
        /\ lastId + Len(tracked[g]) + 1 <= MaxId
        /\ SendGroup("create", g, Append(Locs(tracked[g]), loc), 0, late)
  /\ UNCHANGED <<connected, cleared>>

\* Mutant: the entry after the one named is removed.
RemoveAfter(s, i) == SubSeq(s, 1, i) \o SubSeq(s, i + 2, Len(s))

RemoveAt(s, i) == SubSeq(s, 1, i - 1) \o SubSeq(s, i + 1, Len(s))

WithId(g, id) == {i \in 1..Len(tracked[g]) : tracked[g][i].id = id}

\* Mutant: the entry leaves the table before Delve has agreed.
ClearFirst(id, late) ==
  /\ Clears /\ connected
  /\ \E g \in Groups : \E i \in WithId(g, id) :
       /\ lastId + Len(tracked[g]) <= MaxId
       /\ tracked' = [tracked EXCEPT ![g] = RemoveAt(@, i)]
       /\ Outcome("clear", g, TRUE, id)
       /\ UNCHANGED <<installed, lastId>>
  /\ cleared' = TRUE
  /\ UNCHANGED connected

\* ClearBreakpoint: the rest of the group that holds the id is sent.
Clear(id, late) ==
  /\ Clears /\ connected
  /\ \/ \E g \in Groups : \E i \in WithId(g, id) :
          /\ lastId + Len(tracked[g]) <= MaxId
          /\ SendGroup("clear", g, RemoveAt(Locs(tracked[g]), i), id, late)
     \/ /\ \A g \in Groups : WithId(g, id) = {}
        /\ \E g \in Groups : Refused("clear", g, id)
  /\ cleared' = TRUE
  /\ UNCHANGED connected

\* Close, and a new session with a new Delve.
Close ==
  /\ connected
  /\ connected' = FALSE
  /\ tracked' = Empty
  /\ installed' = NothingInstalled /\ lastId' = 0
  /\ \E g \in Groups : Outcome("close", g, TRUE, 0)
  /\ cleared' = FALSE

Reopen ==
  /\ ~connected
  /\ connected' = TRUE
  /\ UNCHANGED <<tracked, installed, lastId, result, cleared>>

Next == \/ \E l \in Locations, late \in {FALSE, Losses} : Create(l, late)
        \/ \E id \in 1..MaxId, late \in {FALSE, Losses} : Clear(id, late)
        \/ Close
        \/ Reopen

Spec == Init /\ [][Next]_vars

-----------------------------------------------------------------------------
(* Properties.                                                             *)

\* Whether its file is named relatively or absolutely, a line (or a function) under
\* one condition is listed at most once, and no id twice, so that an id names one
\* breakpoint.
OncePerSpot ==
  \A g, h \in Groups : \A i \in 1..Len(tracked[g]) : \A j \in 1..Len(tracked[h]) :
    \/ g = h /\ i = j
    \/ /\ tracked[g][i].id # tracked[h][j].id
       /\ g = h => tracked[g][i].loc.spot # tracked[h][j].loc.spot

SpotsOf(g) == {tracked[g][i].loc.spot : i \in 1..Len(tracked[g])}
InstalledIn(g) == {b.spot : b \in installed[g]}

\* Until something is cleared: Delve stops at every breakpoint the client lists,
\* also after creations that failed or whose answer was lost.
ListedIsInstalled == ~cleared => \A g \in Groups : SpotsOf(g) \subseteq InstalledIn(g)

\* A call that succeeds makes Delve's group what the table says, removing what
\* earlier lost or unverified requests had left there.
SuccessHeals ==
  [][ \A g \in Groups :
        result' # result /\ result'.ok /\ result'.group = g
          /\ (tracked'[g] # tracked[g] \/ installed'[g] # installed[g])
        => SpotsOf(g)' = InstalledIn(g)' ]_vars

\* A created breakpoint is installed under the id returned for it.
CreatedIsCurrent ==
  [][ \A g \in Groups :
        result' # result /\ result'.ok /\ result'.group = g /\ result'.call = "create"
        => \A p \in SpotsOf(g)' \ SpotsOf(g) :
             [spot |-> p, id |-> result'.id] \in installed'[g] ]_vars

\* A successful clear takes the named breakpoint, and no other, out of the table
\* and out of Delve, even when ids have become stale or requests were lost.
ClearRemovesOne ==
  [][ \A g \in Groups :
        result' # result /\ result'.ok /\ result'.group = g /\ result'.call = "clear"
        => LET gone == {tracked[g][i].loc.spot : i \in WithId(g, result'.id)} IN
           /\ gone \cap InstalledIn(g)' = {}
           /\ SpotsOf(g)' = SpotsOf(g) \ gone
           /\ \A h \in Groups \ {g} : tracked'[h] = tracked[h] ]_vars
=============================================================================
