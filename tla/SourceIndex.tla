----------------------------- MODULE SourceIndex -----------------------------
(***************************************************************************)
(* The index of source files of cmd/dlvpp/source_index.go: PackageInfo     *)
(* lists the files of a package and asks FileInfo for each of them in a    *)
(* goroutine of its own.  FileInfo caches what it parsed under the file's  *)
(* time and size, which it takes before it reads the file, and it reads    *)
(* the file twice: once to parse it, once for the lines that tell where a  *)
(* marker comment points.  Files are edited at any moment in between.      *)
(*                                                                         *)
(* The content of a file is known by the time of its write, counted in     *)
(* edits of any file.  A write changes the file's time or its size.        *)
(***************************************************************************)
EXTENDS Naturals

CONSTANTS Paths,      \* the files a package may consist of
          Edited,     \* those of them that are edited meanwhile
          Calls,      \* the calls of PackageInfo, on any goroutines
          MaxTime     \* bound on the time, which every edit advances

ASSUME EditedAssumption == Edited \subseteq Paths
ASSUME MaxTimeAssumption == MaxTime \in Nat \ {0}

VARIABLES
  now,       \* the time
  version,   \* per path: the time of the last write
  state,     \* per path: good | bad (does not parse) | absent
  files,     \* sourceIndex.files: stamp, and the versions of both halves
  packages,  \* sourceIndex.packages: the listing cached for the package, if any
  cpc,       \* per call: idle | list | load | keep | wait | done
  listing,   \* per call: the files it works on
  failed,    \* per call: firstErr is set
  wpc,       \* per goroutine: off | stat | lookup | parse | lines | store
  stamp,     \* per goroutine: the version its Stat saw
  info,      \* per goroutine: the versions the two halves of its info come from
  began      \* history, per call and path: the version when the call began

diskVars == <<now, version, state>>
callVars == <<cpc, listing, failed, began>>
workVars == <<wpc, stamp, info>>
vars == <<diskVars, files, packages, callVars, workVars>>

Workers == Calls \X Paths
Versions == 0..MaxTime

\* Time begins at 1.
NoStamp == 0
NoInfo == [ast |-> 0, lines |-> 0]

TypeOK ==
  /\ now \in 1..MaxTime
  /\ version \in [Paths -> 1..MaxTime]
  /\ state \in [Paths -> {"good", "bad", "absent"}]
  /\ files \in [Paths -> [stamp : Versions, info : [ast : Versions, lines : Versions]]]
  /\ packages \subseteq SUBSET Paths
  /\ cpc \in [Calls -> {"idle", "list", "load", "keep", "wait", "done"}]
  /\ listing \in [Calls -> SUBSET Paths]
  /\ failed \in [Calls -> BOOLEAN]
  /\ wpc \in [Workers -> {"off", "stat", "lookup", "parse", "lines", "store"}]
  /\ stamp \in [Workers -> Versions]
  /\ info \in [Workers -> [ast : Versions, lines : Versions]]
  /\ began \in [Calls -> [Paths -> Versions]]

Init ==
  /\ now = 1
  /\ version = [p \in Paths |-> 1]
  /\ state = [p \in Paths |-> "good"]
  /\ files = [p \in Paths |-> [stamp |-> NoStamp, info |-> NoInfo]]
  /\ packages = {}
  /\ cpc = [c \in Calls |-> "idle"]
  /\ listing = [c \in Calls |-> {}]
  /\ failed = [c \in Calls |-> FALSE]
  /\ wpc = [w \in Workers |-> "off"]
  /\ stamp = [w \in Workers |-> NoStamp]
  /\ info = [w \in Workers |-> NoInfo]
  /\ began = [c \in Calls |-> [p \in Paths |-> 0]]

Present == {p \in Paths : state[p] # "absent"}

-----------------------------------------------------------------------------
(* Whoever edits the sources.                                              *)

Edit == now < MaxTime /\ now' = now + 1

Write(p) == /\ Edit
            /\ version' = [version EXCEPT ![p] = now']
            /\ \E s \in {"good", "bad"} : state' = [state EXCEPT ![p] = s]
            /\ UNCHANGED <<files, packages, callVars, workVars>>

Remove(p) == /\ Edit
             /\ state[p] # "absent"
             /\ state' = [state EXCEPT ![p] = "absent"]
             /\ UNCHANGED <<version, files, packages, callVars, workVars>>

-----------------------------------------------------------------------------
(* PackageFiles, and fileInfos with its goroutines.                        *)

Begin(c) == /\ cpc[c] = "idle"
            /\ cpc' = [cpc EXCEPT ![c] = "list"]
            /\ began' = [began EXCEPT ![c] = version]
            /\ UNCHANGED <<diskVars, files, packages, listing, failed, workVars>>

\* fileInfos starts a goroutine for every file of the listing.
StartWorkers(c, fs) ==
  /\ cpc' = [cpc EXCEPT ![c] = "wait"]
  /\ listing' = [listing EXCEPT ![c] = fs]
  /\ wpc' = [w \in Workers |-> IF w[1] = c /\ w[2] \in fs THEN "stat" ELSE wpc[w]]

ListingHit(c) == /\ cpc[c] = "list"
                 /\ \E fs \in packages : StartWorkers(c, fs)
                 /\ UNCHANGED <<diskVars, files, packages, failed, began, stamp, info>>

ListingMiss(c) == /\ cpc[c] = "list" /\ packages = {}
                  /\ cpc' = [cpc EXCEPT ![c] = "load"]
                  /\ UNCHANGED <<diskVars, files, packages, listing, failed, began, workVars>>

\* `go list` is run outside the lock, and may fail.
Load(c) ==
  /\ cpc[c] = "load"
  /\ \/ /\ cpc' = [cpc EXCEPT ![c] = "keep"]
        /\ listing' = [listing EXCEPT ![c] = Present]
        /\ UNCHANGED failed
     \/ /\ cpc' = [cpc EXCEPT ![c] = "done"]
        /\ failed' = [failed EXCEPT ![c] = TRUE]
        /\ UNCHANGED listing
  /\ UNCHANGED <<diskVars, files, packages, began, workVars>>

Keep(c) == /\ cpc[c] = "keep"
           /\ packages' = {listing[c]}
           /\ StartWorkers(c, listing[c])
           /\ UNCHANGED <<diskVars, files, failed, began, stamp, info>>

\* wg.Wait
WaitEnds(c) == /\ cpc[c] = "wait"
               /\ \A p \in listing[c] : wpc[<<c, p>>] = "off"
               /\ cpc' = [cpc EXCEPT ![c] = "done"]
               /\ UNCHANGED <<diskVars, files, packages, listing, failed, began, workVars>>

-----------------------------------------------------------------------------
(* FileInfo, by goroutine w.                                               *)

Goto(w, l) == wpc' = [wpc EXCEPT ![w] = l] /\ UNCHANGED <<failed, stamp>>
FileStep == UNCHANGED <<diskVars, packages, cpc, listing, began>>

Leave(w) == wpc' = [wpc EXCEPT ![w] = "off"] /\ stamp' = [stamp EXCEPT ![w] = NoStamp]

\* Mutant: a goroutine that fails is not counted as finished.
FailUncounted(w) == /\ wpc' = [wpc EXCEPT ![w] = "failed"]
                    /\ failed' = [failed EXCEPT ![w[1]] = TRUE]
                    /\ UNCHANGED <<stamp, info>>

\* firstErr is set, and the goroutine counted as finished.
Fail(w) == /\ Leave(w)
           /\ info' = [info EXCEPT ![w] = NoInfo]
           /\ failed' = [failed EXCEPT ![w[1]] = TRUE]

\* The info is the goroutine's result.
Succeed(w) == Leave(w) /\ UNCHANGED failed

Stat(w) ==
  /\ wpc[w] = "stat"
  /\ IF state[w[2]] = "absent"
     THEN Fail(w)
     ELSE /\ wpc' = [wpc EXCEPT ![w] = "lookup"]
          /\ stamp' = [stamp EXCEPT ![w] = version[w[2]]]
          /\ UNCHANGED <<failed, info>>
  /\ UNCHANGED files /\ FileStep

\* Mutant: an entry serves whatever the file has become.
AnyEntry(entry, s) == entry.stamp # NoStamp

\* The entry's time and size are those of the file.
SameStamp(entry, s) == entry.stamp = s

Lookup(w) ==
  /\ wpc[w] = "lookup"
  /\ IF SameStamp(files[w[2]], stamp[w])
     THEN Succeed(w) /\ info' = [info EXCEPT ![w] = files[w[2]].info]
     ELSE Goto(w, "parse") /\ UNCHANGED info
  /\ UNCHANGED files /\ FileStep

\* parser.ParseFile reads the file itself.
Parse(w) ==
  /\ wpc[w] = "parse"
  /\ IF state[w[2]] # "good"
     THEN Fail(w)
     ELSE Goto(w, "lines") /\ info' = [info EXCEPT ![w].ast = version[w[2]]]
  /\ UNCHANGED files /\ FileStep

\* readSourceLines reads it once more.
ReadLines(w) ==
  /\ wpc[w] = "lines"
  /\ IF state[w[2]] = "absent"
     THEN Fail(w)
     ELSE Goto(w, "store") /\ info' = [info EXCEPT ![w].lines = version[w[2]]]
  /\ UNCHANGED files /\ FileStep

\* Mutant: the file's time and size are taken when its entry is made.
StampNow(w) == version[w[2]]

StampBefore(w) == stamp[w]

Store(w) ==
  /\ wpc[w] = "store"
  /\ files' = [files EXCEPT ![w[2]] = [stamp |-> StampBefore(w), info |-> info[w]]]
  /\ Succeed(w)
  /\ UNCHANGED info /\ FileStep

-----------------------------------------------------------------------------
CallStep(c) == \/ ListingHit(c) \/ ListingMiss(c) \/ Load(c) \/ Keep(c)
               \/ WaitEnds(c)

WorkerStep(w) == \/ Stat(w) \/ Lookup(w) \/ Parse(w) \/ ReadLines(w)
                 \/ Store(w)

GoStep == \/ \E c \in Calls : CallStep(c)
          \/ \E w \in Workers : WorkerStep(w)

Next == \/ \E p \in Edited : Write(p) \/ Remove(p)
        \/ \E c \in Calls : Begin(c)
        \/ GoStep

\* Some goroutine runs; `go list` and the reads of files return.
Spec == Init /\ [][Next]_vars /\ WF_vars(GoStep)

-----------------------------------------------------------------------------
(* Properties.                                                             *)

\* An entry that the next lookup would take is the present content of the file in
\* both its halves, however edits fell between the reads that made it and in
\* whatever order goroutines stored theirs.
HitIsCurrent ==
  \A p \in Paths : files[p].stamp = version[p]
                     => files[p].info = [ast |-> version[p], lines |-> version[p]]

Returned(c) == cpc[c] = "done" /\ ~failed[c]

\* A successful call has, for every file of its listing, an info no older than the
\* call: if the file was not edited meanwhile, exactly its content.
ResultIsFresh ==
  \A c \in Calls : Returned(c) =>
    \A p \in listing[c] : /\ began[c][p] <= info[<<c, p>>].ast
                          /\ info[<<c, p>>].ast <= info[<<c, p>>].lines
                          /\ info[<<c, p>>].lines <= version[p]

\* Every call returns, also when some of its files fail.
CallsEnd == \A c \in Calls : cpc[c] # "idle" ~> cpc[c] = "done"
=============================================================================
