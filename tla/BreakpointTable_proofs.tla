------------------------- MODULE BreakpointTable_proofs -------------------------
(***************************************************************************)
(* Proofs about BreakpointTable, for any files, spots and ids, answers     *)
(* lost and spots that cannot be verified.                                 *)
(*                                                                         *)
(* That no id names two breakpoints cannot be seen in the tables alone: a  *)
(* group that is sent again takes over ids that Delve has installed, which *)
(* the tables may have forgotten.  The invariant therefore follows ids     *)
(* through both: an id belongs to one group, in the table and in Delve,    *)
(* Delve has a spot and an id once in a group, and new ids are beyond all  *)
(* used ones.  That listed spots stay installed when a request fails needs *)
(* the fact that the table only holds spots Delve can verify.              *)
(***************************************************************************)
EXTENDS BreakpointTable, SequenceTheorems, TLAPS

\* Tables hold normalized locations of their own group, which Delve verified.
Placed ==
  \A g \in Groups : \A i \in 1..Len(tracked[g]) :
    LET l == tracked[g][i].loc IN
    l.group = g /\ l.form = "absolute" /\ Verified(g, l.spot)

\* Within a group Delve has a spot once and an id once.
InstalledOnce ==
  \A g \in Groups : \A a, b \in installed[g] :
    a.id = b.id \/ a.spot = b.spot => a = b

\* An id that Delve uses in one group is used in no other, nor listed there.
IdsApart ==
  \A g, h \in Groups : g # h => \A a \in installed[g] :
    /\ \A b \in installed[h] : a.id # b.id
    /\ \A j \in 1..Len(tracked[h]) : a.id # tracked[h][j].id

\* Ids beyond the last one are new.
IdsUsed ==
  \A g \in Groups : /\ \A a \in installed[g] : a.id <= lastId
                    /\ \A i \in 1..Len(tracked[g]) : tracked[g][i].id <= lastId

TableInv == /\ TypeOK
            /\ Placed
            /\ OncePerSpot
            /\ InstalledOnce
            /\ IdsApart
            /\ IdsUsed
            /\ ListedIsInstalled

\* What may be sent for a group: each of its spots once.
Sendable(g, locs) ==
  /\ locs \in Seq(Locations)
  /\ \A i \in 1..Len(locs) : locs[i].group = g /\ locs[i].form = "absolute"
  /\ \A i, j \in 1..Len(locs) : locs[i].spot = locs[j].spot => i = j

Wire == [spot : Spots, verified : BOOLEAN, id : Nat \ {0}]

-----------------------------------------------------------------------------
(* Sequences.                                                              *)

LEMMA SeqOf ==
  ASSUME NEW S, NEW n \in Nat, NEW f \in [1..n -> S]
  PROVE  f \in Seq(S) /\ Len(f) = n
  OBVIOUS

\* Removing an entry closes the gap.
LEMMA RemoveAtCloses ==
  ASSUME NEW S, NEW s \in Seq(S), NEW i \in 1..Len(s)
  PROVE  /\ RemoveAt(s, i) \in Seq(S)
         /\ Len(RemoveAt(s, i)) = Len(s) - 1
         /\ \A k \in 1..Len(s) - 1 : RemoveAt(s, i)[k] = IF k < i THEN s[k] ELSE s[k + 1]
<1> DEFINE a == SubSeq(s, 1, i - 1)
           b == SubSeq(s, i + 1, Len(s))
<1>1. Len(s) \in Nat /\ \A k \in 1..Len(s) : s[k] \in S
  BY LenProperties, ElementOfSeq
<1>2. /\ a \in Seq(S) /\ Len(a) = i - 1
      /\ \A k \in 1..i - 1 : a[k] = s[k]
  <2>1. 1 \in Int /\ i - 1 \in Int /\ \A k \in 1..i - 1 : s[k] \in S
    BY <1>1
  <2>2. /\ a \in Seq(S)
        /\ Len(a) = IF 1 <= i - 1 THEN i - 1 - 1 + 1 ELSE 0
        /\ \A k \in 1..i - 1 - 1 + 1 : a[k] = s[1 + k - 1]
    BY <2>1, SubSeqProperties
  <2> QED
    BY <1>1, <2>2
<1>3. /\ b \in Seq(S) /\ Len(b) = Len(s) - i
      /\ \A k \in 1..Len(s) - i : b[k] = s[i + k]
  <2>1. i + 1 \in Int /\ Len(s) \in Int /\ \A k \in i + 1..Len(s) : s[k] \in S
    BY <1>1
  <2>2. /\ b \in Seq(S)
        /\ Len(b) = IF i + 1 <= Len(s) THEN Len(s) - (i + 1) + 1 ELSE 0
        /\ \A k \in 1..Len(s) - (i + 1) + 1 : b[k] = s[i + 1 + k - 1]
    BY <2>1, SubSeqProperties
  <2>3. Len(b) = Len(s) - i
    BY <1>1, <2>2
  <2>4. ASSUME NEW k \in 1..Len(s) - i PROVE b[k] = s[i + k]
    BY <1>1, <2>2
  <2> QED
    BY <2>2, <2>3, <2>4
<1>4. RemoveAt(s, i) = a \o b
  BY DEF RemoveAt
<1> HIDE DEF a, b
<1>5. /\ a \o b \in Seq(S)
      /\ Len(a \o b) = Len(a) + Len(b)
      /\ \A k \in 1..Len(a) + Len(b) :
           (a \o b)[k] = IF k <= Len(a) THEN a[k] ELSE b[k - Len(a)]
  BY <1>2, <1>3, ConcatProperties
<1>6. ASSUME NEW k \in 1..Len(s) - 1
      PROVE  (a \o b)[k] = IF k < i THEN s[k] ELSE s[k + 1]
  <2>1. k \in 1..Len(a) + Len(b)
    BY <1>1, <1>2, <1>3
  <2>2. CASE k < i
    BY <1>1, <1>2, <1>5, <2>1, <2>2
  <2>3. CASE ~(k < i)
    <3>1. k - Len(a) \in 1..Len(s) - i /\ i + (k - Len(a)) = k + 1 /\ ~(k <= Len(a))
      BY <1>1, <1>2, <2>3
    <3> QED
      BY <1>3, <1>5, <2>1, <2>3, <3>1
  <2> QED
    BY <2>2, <2>3
<1> QED
  BY <1>1, <1>2, <1>3, <1>4, <1>5, <1>6

-----------------------------------------------------------------------------
(* What is sent, and what comes back.                                      *)

\* The table's own locations can be sent again.
LEMMA TableIsSendable ==
  ASSUME TableInv, NEW g \in Groups
  PROVE  /\ Sendable(g, Locs(tracked[g]))
         /\ tracked[g] \in Seq(Entries) /\ Len(tracked[g]) \in Nat
         /\ Len(Locs(tracked[g])) = Len(tracked[g])
         /\ \A i \in 1..Len(tracked[g]) : /\ tracked[g][i] \in Entries
                                          /\ Locs(tracked[g])[i] = tracked[g][i].loc
<1>1. tracked[g] \in Seq(Entries)
  BY DEF TableInv, TypeOK
<1>2. Len(tracked[g]) \in Nat /\ \A i \in 1..Len(tracked[g]) : tracked[g][i] \in Entries
  BY <1>1, LenProperties, ElementOfSeq
<1>3. Locs(tracked[g]) \in [1..Len(tracked[g]) -> Locations]
  BY <1>2 DEF Locs, Entries
<1>4. Locs(tracked[g]) \in Seq(Locations) /\ Len(Locs(tracked[g])) = Len(tracked[g])
  BY <1>2, <1>3, SeqOf
<1>5. \A i \in 1..Len(tracked[g]) : Locs(tracked[g])[i] = tracked[g][i].loc
  BY DEF Locs
<1>6. \A i, j \in 1..Len(tracked[g]) : tracked[g][i].loc.spot = tracked[g][j].loc.spot => i = j
  BY Zenon DEF TableInv, OncePerSpot
<1>7. \A i \in 1..Len(tracked[g]) :
        tracked[g][i].loc.group = g /\ tracked[g][i].loc.form = "absolute"
  BY DEF TableInv, Placed
<1> QED
  BY <1>1, <1>2, <1>4, <1>5, <1>6, <1>7 DEF Sendable

LEMMA GroupsOfLocations ==
  ASSUME NEW l \in Locations
  PROVE  l.group \in Groups /\ l.spot \in Spots
  BY DEF Locations

\* A new location may be added to its group.
LEMMA AppendIsSendable ==
  ASSUME TableInv, NEW l \in Locations, Known(l.group, Normalize(l)) = {}
  PROVE  /\ Sendable(l.group, Append(Locs(tracked[l.group]), Normalize(l)))
         /\ Len(Append(Locs(tracked[l.group]), Normalize(l))) = Len(tracked[l.group]) + 1
<1> DEFINE g == l.group
           locs == Locs(tracked[g])
           loc == Normalize(l)
<1>1. g \in Groups
  BY GroupsOfLocations
<1>2. /\ loc \in Locations /\ loc.group = g /\ loc.form = "absolute"
      /\ loc.spot = l.spot
  BY DEF Normalize, Locations
<1>3. /\ Sendable(g, locs) /\ Len(locs) = Len(tracked[g]) /\ Len(tracked[g]) \in Nat
      /\ \A i \in 1..Len(tracked[g]) : /\ tracked[g][i] \in Entries
                                       /\ locs[i] = tracked[g][i].loc
  BY <1>1, TableIsSendable
<1>4. ASSUME NEW i \in 1..Len(locs) PROVE locs[i].spot # loc.spot
  <2>1. locs[i] # loc
    BY <1>3 DEF Known
  <2>2. locs[i] \in Locations /\ locs[i].group = g /\ locs[i].form = "absolute"
    BY <1>3, ElementOfSeq DEF Sendable
  <2> QED
    BY <1>2, <2>1, <2>2 DEF Locations
<1>5. /\ Append(locs, loc) \in Seq(Locations)
      /\ Len(Append(locs, loc)) = Len(locs) + 1
      /\ \A i \in 1..Len(locs) : Append(locs, loc)[i] = locs[i]
      /\ Append(locs, loc)[Len(locs) + 1] = loc
  BY <1>2, <1>3, AppendProperties DEF Sendable
<1> HIDE DEF g, locs, loc
<1>6. \A i \in 1..Len(locs) + 1 :
        \/ i \in 1..Len(locs) /\ Append(locs, loc)[i] = locs[i]
        \/ i = Len(locs) + 1 /\ Append(locs, loc)[i] = loc
  BY <1>3, <1>5
<1>7. Sendable(g, Append(locs, loc))
  BY <1>2, <1>3, <1>4, <1>5, <1>6 DEF Sendable
<1> QED
  BY <1>3, <1>5, <1>7 DEF g, locs, loc

\* A location may be left out.
LEMMA RemoveIsSendable ==
  ASSUME NEW g, NEW locs, Sendable(g, locs), NEW i \in 1..Len(locs)
  PROVE  Sendable(g, RemoveAt(locs, i))
<1>1. locs \in Seq(Locations) /\ Len(locs) \in Nat
  BY LenProperties DEF Sendable
<1>2. /\ RemoveAt(locs, i) \in Seq(Locations)
      /\ Len(RemoveAt(locs, i)) = Len(locs) - 1
      /\ \A k \in 1..Len(locs) - 1 :
           RemoveAt(locs, i)[k] = IF k < i THEN locs[k] ELSE locs[k + 1]
  BY <1>1, RemoveAtCloses
<1> DEFINE from(k) == IF k < i THEN k ELSE k + 1
<1>3. \A k \in 1..Len(locs) - 1 : from(k) \in 1..Len(locs)
  BY <1>1
<1>4. \A k \in 1..Len(locs) - 1 : RemoveAt(locs, i)[k] = locs[from(k)]
  BY <1>2
<1>5. \A k, m \in 1..Len(locs) - 1 : from(k) = from(m) => k = m
  BY <1>1
<1> HIDE DEF from
<1>6. \A k \in 1..Len(locs) - 1 : /\ RemoveAt(locs, i)[k].group = g
                                 /\ RemoveAt(locs, i)[k].form = "absolute"
  BY <1>3, <1>4 DEF Sendable
<1>7. \A k, m \in 1..Len(locs) - 1 :
        RemoveAt(locs, i)[k].spot = RemoveAt(locs, i)[m].spot => k = m
  BY <1>3, <1>4, <1>5 DEF Sendable
<1> QED
  BY <1>2, <1>6, <1>7 DEF Sendable

\* Delve's answer names the spots asked for, each with an id of its own: the one
\* it had for the spot, or a new one.
LEMMA WiresAnswer ==
  ASSUME TableInv, NEW g \in Groups, NEW locs, Sendable(g, locs), NEW renumber \in BOOLEAN,
         NEW w, w = Wires(g, locs, renumber)
  PROVE  /\ w \in Seq(Wire) /\ Len(w) = Len(locs) /\ Len(w) \in Nat
         /\ \A i \in 1..Len(w) :
              /\ w[i] \in Wire
              /\ w[i].spot = locs[i].spot
              /\ w[i].verified = Verified(g, locs[i].spot)
              /\ \/ \E b \in installed[g] : b.spot = w[i].spot /\ b.id = w[i].id
                 \/ w[i].id = lastId + i
              /\ w[i].id <= lastId + Len(w)
         /\ \A i, j \in 1..Len(w) : w[i].id = w[j].id => i = j
<1>1. /\ Len(locs) \in Nat /\ lastId \in Nat
      /\ installed[g] \subseteq Installed
      /\ \A i \in 1..Len(locs) : locs[i] \in Locations
  BY LenProperties, ElementOfSeq DEF Sendable, TableInv, TypeOK
<1> DEFINE old(p) == {b \in installed[g] : b.spot = p}
           id(i) == IF old(locs[i].spot) # {} /\ ~renumber
                    THEN (CHOOSE b \in old(locs[i].spot) : TRUE).id
                    ELSE lastId + i
<1>2. \A i \in 1..Len(locs) :
        w[i] = [spot |-> locs[i].spot, verified |-> Verified(g, locs[i].spot), id |-> id(i)]
  BY DEF Wires
<1>3. ASSUME NEW i \in 1..Len(locs)
      PROVE  \/ \E b \in installed[g] : b.spot = locs[i].spot /\ b.id = id(i)
             \/ id(i) = lastId + i
  <2>1. CASE old(locs[i].spot) # {} /\ ~renumber
    <3>1. (CHOOSE b \in old(locs[i].spot) : TRUE) \in old(locs[i].spot)
      BY <2>1
    <3> QED
      BY <2>1, <3>1
  <2>2. CASE ~(old(locs[i].spot) # {} /\ ~renumber)
    BY <2>2
  <2> QED
    BY <2>1, <2>2
<1> HIDE DEF id
<1>4. ASSUME NEW i \in 1..Len(locs)
      PROVE  id(i) \in Nat \ {0} /\ id(i) <= lastId + Len(locs)
  <2>1. CASE \E b \in installed[g] : b.spot = locs[i].spot /\ b.id = id(i)
    <3>1. PICK b \in installed[g] : b.id = id(i)
      BY <2>1
    <3>2. b.id <= lastId /\ b.id \in Nat \ {0}
      BY <1>1 DEF TableInv, IdsUsed, Installed
    <3> QED
      BY <1>1, <3>1, <3>2
  <2>2. CASE id(i) = lastId + i
    BY <1>1, <2>2
  <2> QED
    BY <1>3, <2>1, <2>2
<1>5. \A i \in 1..Len(locs) : w[i] \in Wire
  <2>1. \A i \in 1..Len(locs) : locs[i].spot \in Spots /\ Verified(g, locs[i].spot) \in BOOLEAN
    BY <1>1, GroupsOfLocations DEF Verified
  <2> SUFFICES ASSUME NEW i \in 1..Len(locs) PROVE w[i] \in Wire
    OBVIOUS
  <2> DEFINE v == Verified(g, locs[i].spot)
  <2>2. v \in BOOLEAN /\ locs[i].spot \in Spots /\ id(i) \in Nat \ {0}
    BY <1>4, <2>1
  <2>3. w[i] = [spot |-> locs[i].spot, verified |-> v, id |-> id(i)]
    BY <1>2
  <2> HIDE DEF v
  <2> QED
    BY <2>2, <2>3 DEF Wire
<1>6. w \in [1..Len(locs) -> Wire]
  <2>1. w = [i \in 1..Len(locs) |-> w[i]]
    BY DEF Wires
  <2> QED
    BY <1>5, <2>1
<1>7. w \in Seq(Wire) /\ Len(w) = Len(locs)
  BY <1>1, <1>6, SeqOf
<1>8. ASSUME NEW i \in 1..Len(locs), NEW j \in 1..Len(locs), id(i) = id(j)
      PROVE  i = j
  <2>1. ASSUME NEW k \in 1..Len(locs), NEW b \in installed[g], b.id = lastId + k PROVE FALSE
    <3>1. b.id <= lastId
      BY DEF TableInv, IdsUsed
    <3> QED
      BY <1>1, <2>1, <3>1
  <2>2. CASE id(i) = lastId + i
    <3>1. id(j) = lastId + j
      BY <1>3, <1>8, <2>1, <2>2
    <3>2. lastId + i = lastId + j
      BY <1>8, <2>2, <3>1
    <3>3. lastId \in Nat /\ i \in Nat /\ j \in Nat
      BY <1>1
    <3> QED
      BY <3>2, <3>3
  <2>3. CASE \E b \in installed[g] : b.spot = locs[i].spot /\ b.id = id(i)
    <3>1. PICK b \in installed[g] : b.spot = locs[i].spot /\ b.id = id(i)
      BY <2>3
    <3>2. PICK c \in installed[g] : c.spot = locs[j].spot /\ c.id = id(j)
      BY <1>3, <1>8, <2>1, <3>1
    <3>3. b = c
      BY <1>8, <3>1, <3>2 DEF TableInv, InstalledOnce
    <3> QED
      BY <3>1, <3>2, <3>3 DEF Sendable
  <2> QED
    BY <1>3, <2>2, <2>3
<1>9. \A i \in 1..Len(locs) :
        /\ w[i].spot = locs[i].spot
        /\ w[i].verified = Verified(g, locs[i].spot)
        /\ w[i].id = id(i)
  <2> SUFFICES ASSUME NEW i \in 1..Len(locs)
               PROVE  /\ w[i].spot = locs[i].spot
                      /\ w[i].verified = Verified(g, locs[i].spot)
                      /\ w[i].id = id(i)
    OBVIOUS
  <2> DEFINE v == Verified(g, locs[i].spot)
  <2>1. w[i] = [spot |-> locs[i].spot, verified |-> v, id |-> id(i)]
    BY <1>2
  <2> HIDE DEF v
  <2>2. w[i].spot = locs[i].spot /\ w[i].verified = v /\ w[i].id = id(i)
    BY <2>1
  <2> QED
    BY <2>2 DEF v
<1>10. \A i \in 1..Len(locs) :
         /\ \/ \E b \in installed[g] : b.spot = w[i].spot /\ b.id = w[i].id
            \/ w[i].id = lastId + i
         /\ w[i].id <= lastId + Len(locs)
  BY <1>3, <1>4, <1>9
<1>11. \A i, j \in 1..Len(locs) : w[i].id = w[j].id => i = j
  BY <1>8, <1>9
<1> QED
  BY <1>1, <1>5, <1>7, <1>9, <1>10, <1>11

\* Ids in the answer are used by no other group.
LEMMA WiresApart ==
  ASSUME TableInv, NEW g \in Groups, NEW locs, Sendable(g, locs), NEW renumber \in BOOLEAN,
         NEW w, w = Wires(g, locs, renumber),
         NEW i \in 1..Len(w), NEW h \in Groups, h # g
  PROVE  /\ \A a \in installed[h] : a.id # w[i].id
         /\ \A j \in 1..Len(tracked[h]) : tracked[h][j].id # w[i].id
<1>1. /\ lastId \in Nat /\ Len(w) \in Nat
      /\ installed[h] \subseteq Installed
      /\ \A j \in 1..Len(tracked[h]) : tracked[h][j] \in Entries
  BY WiresAnswer, TableIsSendable DEF TableInv, TypeOK
<1>2. CASE \E b \in installed[g] : b.id = w[i].id
  BY <1>2 DEF TableInv, IdsApart
<1>3. CASE w[i].id = lastId + i
  <2>1. w[i].id > lastId
    BY <1>1, <1>3
  <2>2. /\ \A a \in installed[h] : a.id \in Nat /\ a.id <= lastId
        /\ \A j \in 1..Len(tracked[h]) : tracked[h][j].id \in Nat /\ tracked[h][j].id <= lastId
    BY <1>1 DEF TableInv, IdsUsed, Installed, Entries
  <2> QED
    BY <1>1, <2>1, <2>2
<1> QED
  BY <1>2, <1>3, WiresAnswer

\* What Delve has after a group was sent.
LEMMA InstallKeeps ==
  ASSUME TableInv, NEW g \in Groups, NEW locs, Sendable(g, locs), NEW renumber \in BOOLEAN,
         NEW w, w = Wires(g, locs, renumber), Install(g, w)
  PROVE  /\ installed' \in [Groups -> SUBSET Installed]
         /\ lastId' \in Nat /\ lastId <= lastId' /\ \A i \in 1..Len(w) : w[i].id <= lastId'
         /\ \A h \in Groups \ {g} : installed'[h] = installed[h]
         /\ \A a \in installed'[g] :
              \E i \in 1..Len(w) : w[i].verified /\ a.spot = w[i].spot /\ a.id = w[i].id
         /\ \A i \in 1..Len(w) :
              w[i].verified => [spot |-> w[i].spot, id |-> w[i].id] \in installed'[g]
         /\ InstalledOnce'
<1>1. /\ w \in Seq(Wire) /\ Len(w) \in Nat
      /\ \A i \in 1..Len(w) : w[i] \in Wire /\ w[i].id <= lastId + Len(w)
      /\ \A i, j \in 1..Len(w) : w[i].id = w[j].id => i = j
      /\ \A i \in 1..Len(w) : w[i].spot = locs[i].spot
      /\ Len(w) = Len(locs)
  BY WiresAnswer
<1>2. lastId \in Nat /\ installed \in [Groups -> SUBSET Installed]
  BY DEF TableInv, TypeOK
<1> DEFINE now == {[spot |-> w[i].spot, id |-> w[i].id] :
                     i \in {j \in 1..Len(w) : w[j].verified}}
<1>3. installed' = [installed EXCEPT ![g] = now] /\ lastId' = lastId + Len(w)
  BY DEF Install
<1>4. now \subseteq Installed
  BY <1>1 DEF Wire, Installed
<1>5. /\ \A a \in now :
           \E i \in 1..Len(w) : w[i].verified /\ a.spot = w[i].spot /\ a.id = w[i].id
      /\ \A i \in 1..Len(w) :
           w[i].verified => [spot |-> w[i].spot, id |-> w[i].id] \in now
  OBVIOUS
<1>6. ASSUME NEW a \in now, NEW b \in now, a.id = b.id \/ a.spot = b.spot
      PROVE  a = b
  <2>1. PICK i \in 1..Len(w) : a = [spot |-> w[i].spot, id |-> w[i].id]
    OBVIOUS
  <2>2. PICK j \in 1..Len(w) : b = [spot |-> w[j].spot, id |-> w[j].id]
    OBVIOUS
  <2>3. i = j
    BY <1>1, <1>6, <2>1, <2>2 DEF Sendable
  <2> QED
    BY <2>1, <2>2, <2>3
<1> HIDE DEF now
<1>7. installed'[g] = now /\ \A h \in Groups \ {g} : installed'[h] = installed[h]
  BY <1>2, <1>3
<1>8. InstalledOnce'
  <2> SUFFICES ASSUME NEW h \in Groups, NEW a \in installed'[h], NEW b \in installed'[h],
                      a.id = b.id \/ a.spot = b.spot
               PROVE  a = b
    BY DEF InstalledOnce
  <2>1. CASE h = g
    BY <1>6, <1>7, <2>1
  <2>2. CASE h # g
    BY <1>7, <2>2 DEF TableInv, InstalledOnce
  <2> QED
    BY <2>1, <2>2
<1>9. installed' \in [Groups -> SUBSET Installed]
  BY <1>2, <1>3, <1>4
<1>10. lastId' \in Nat /\ lastId <= lastId' /\ \A i \in 1..Len(w) : w[i].id <= lastId'
  BY <1>1, <1>2, <1>3
<1> QED
  BY <1>5, <1>7, <1>8, <1>9, <1>10

\* A group was sent and its table stays: the answer was lost or rejected.
LEMMA RejectKeeps ==
  ASSUME TableInv, NEW g \in Groups, NEW locs, Sendable(g, locs), NEW renumber \in BOOLEAN,
         NEW w, w = Wires(g, locs, renumber), Install(g, w), UNCHANGED tracked
  PROVE  Placed' /\ OncePerSpot' /\ InstalledOnce' /\ IdsApart' /\ IdsUsed'
<1>1. /\ installed' \in [Groups -> SUBSET Installed]
      /\ lastId' \in Nat /\ lastId <= lastId' /\ \A i \in 1..Len(w) : w[i].id <= lastId'
      /\ \A h \in Groups \ {g} : installed'[h] = installed[h]
      /\ \A a \in installed'[g] :
           \E i \in 1..Len(w) : w[i].verified /\ a.spot = w[i].spot /\ a.id = w[i].id
      /\ InstalledOnce'
  BY InstallKeeps
<1>2. Placed' /\ OncePerSpot'
  <2>1. Placed'
    BY DEF TableInv, Placed, Verified
  <2>2. OncePerSpot'
    BY DEF TableInv, OncePerSpot
  <2> QED
    BY <2>1, <2>2
<1>3. IdsApart'
  <2> SUFFICES ASSUME NEW h \in Groups, NEW k \in Groups, h # k, NEW a \in installed'[h]
               PROVE  /\ \A b \in installed'[k] : a.id # b.id
                      /\ \A j \in 1..Len(tracked[k]) : a.id # tracked[k][j].id
    BY DEF IdsApart
  <2>1. CASE h = g
    <3>1. PICK i \in 1..Len(w) : a.id = w[i].id
      BY <1>1, <2>1
    <3>2. /\ \A b \in installed[k] : b.id # w[i].id
          /\ \A j \in 1..Len(tracked[k]) : tracked[k][j].id # w[i].id
      BY <2>1, WiresApart
    <3> QED
      BY <1>1, <2>1, <3>1, <3>2
  <2>2. CASE h # g /\ k = g
    <3>1. a \in installed[h]
      BY <1>1, <2>2
    <3>2. \A i \in 1..Len(w) : a.id # w[i].id
      BY <2>2, <3>1, WiresApart
    <3>3. \A b \in installed'[k] : a.id # b.id
      BY <1>1, <2>2, <3>2
    <3>4. \A j \in 1..Len(tracked[k]) : a.id # tracked[k][j].id
      BY <3>1 DEF TableInv, IdsApart
    <3> QED
      BY <3>3, <3>4
  <2>3. CASE h # g /\ k # g
    BY <1>1, <2>3 DEF TableInv, IdsApart
  <2> QED
    BY <2>1, <2>2, <2>3
<1>4. IdsUsed'
  <2>1. ASSUME NEW h \in Groups, NEW a \in installed'[h] PROVE a.id <= lastId'
    <3>1. CASE h = g
      BY <1>1, <3>1
    <3>2. CASE h # g
      <4>1. a \in installed[h] /\ a.id \in Nat /\ lastId \in Nat
        BY <1>1, <3>2 DEF TableInv, TypeOK, Installed
      <4>2. a.id <= lastId
        BY <4>1 DEF TableInv, IdsUsed
      <4> QED
        BY <1>1, <4>1, <4>2
    <3> QED
      BY <3>1, <3>2
  <2>2. ASSUME NEW h \in Groups, NEW i \in 1..Len(tracked[h]) PROVE tracked[h][i].id <= lastId'
    <3>1. tracked[h][i].id \in Nat /\ lastId \in Nat
      BY TableIsSendable DEF TableInv, TypeOK, Entries
    <3>2. tracked[h][i].id <= lastId
      BY DEF TableInv, IdsUsed
    <3> QED
      BY <1>1, <3>1, <3>2
  <2> QED
    BY <2>1, <2>2 DEF IdsUsed
<1> QED
  BY <1>1, <1>2, <1>3, <1>4

\* The answer was accepted: every spot is verified, so that table and Delve have
\* the same spots under the same ids.
LEMMA AcceptKeeps ==
  ASSUME TableInv, NEW g \in Groups, NEW locs, Sendable(g, locs), NEW renumber \in BOOLEAN,
         NEW w, w = Wires(g, locs, renumber), Install(g, w), Accept(w),
         tracked' = [tracked EXCEPT ![g] = Tracked(locs, w)]
  PROVE  /\ tracked' \in [Groups -> Seq(Entries)]
         /\ tracked'[g] = Tracked(locs, w)
         /\ Len(Tracked(locs, w)) = Len(locs)
         /\ \A i \in 1..Len(locs) : /\ Tracked(locs, w)[i] = [loc |-> locs[i], id |-> w[i].id]
                                    /\ [spot |-> locs[i].spot, id |-> w[i].id] \in installed'[g]
         /\ Placed' /\ OncePerSpot' /\ InstalledOnce' /\ IdsApart' /\ IdsUsed'
         /\ SpotsOf(g)' = InstalledIn(g)'
<1>1. /\ installed' \in [Groups -> SUBSET Installed]
      /\ lastId' \in Nat /\ lastId <= lastId' /\ \A i \in 1..Len(w) : w[i].id <= lastId'
      /\ \A h \in Groups \ {g} : installed'[h] = installed[h]
      /\ \A a \in installed'[g] :
           \E i \in 1..Len(w) : w[i].verified /\ a.spot = w[i].spot /\ a.id = w[i].id
      /\ InstalledOnce'
  BY InstallKeeps
<1>0. \A i \in 1..Len(w) :
        w[i].verified => [spot |-> w[i].spot, id |-> w[i].id] \in installed'[g]
  BY InstallKeeps
<1>2. /\ Len(w) = Len(locs) /\ Len(w) \in Nat
      /\ \A i \in 1..Len(w) : /\ w[i] \in Wire
                              /\ w[i].spot = locs[i].spot
                              /\ w[i].verified = Verified(g, locs[i].spot)
      /\ \A i, j \in 1..Len(w) : w[i].id = w[j].id => i = j
  BY WiresAnswer
<1>3. \A i \in 1..Len(locs) : /\ locs[i] \in Locations /\ locs[i].group = g
                              /\ locs[i].form = "absolute"
  BY ElementOfSeq DEF Sendable
<1> DEFINE new == Tracked(locs, w)
<1>4. \A i \in 1..Len(locs) : new[i] = [loc |-> locs[i], id |-> w[i].id]
  BY DEF Tracked
<1>5. new \in Seq(Entries) /\ Len(new) = Len(locs)
  <2>1. new \in [1..Len(locs) -> Entries]
    BY <1>2, <1>3 DEF Tracked, Wire, Entries
  <2> QED
    BY <1>2, <2>1, SeqOf
<1>6. tracked \in [Groups -> Seq(Entries)]
  BY DEF TableInv, TypeOK
<1> HIDE DEF new
<1>7. /\ tracked' \in [Groups -> Seq(Entries)] /\ tracked'[g] = new
      /\ \A h \in Groups \ {g} : tracked'[h] = tracked[h]
  BY <1>5, <1>6 DEF new
<1>8. \A i \in 1..Len(locs) : [spot |-> locs[i].spot, id |-> w[i].id] \in installed'[g]
  BY <1>0, <1>2 DEF Accept
<1>15. /\ Len(tracked'[g]) = Len(locs)
       /\ \A i \in 1..Len(locs) : tracked'[g][i] = [loc |-> locs[i], id |-> w[i].id]
  BY <1>4, <1>5, <1>7, Zenon
<1>16. \A i \in 1..Len(locs) : tracked'[g][i].loc = locs[i] /\ tracked'[g][i].id = w[i].id
  <2> SUFFICES ASSUME NEW i \in 1..Len(locs)
               PROVE  tracked'[g][i].loc = locs[i] /\ tracked'[g][i].id = w[i].id
    OBVIOUS
  <2>1. tracked'[g][i] = [loc |-> locs[i], id |-> w[i].id]
    BY <1>15, Zenon
  <2> QED
    BY <2>1
<1>9. Placed'
  <2> SUFFICES ASSUME NEW h \in Groups, NEW i \in 1..Len(tracked'[h])
               PROVE  /\ tracked'[h][i].loc.group = h
                      /\ tracked'[h][i].loc.form = "absolute"
                      /\ Verified(h, tracked'[h][i].loc.spot)
    BY DEF Placed, Verified
  <2>1. CASE h = g
    <3>1. i \in 1..Len(locs) /\ tracked'[h][i].loc = locs[i]
      BY <1>15, <1>16, <2>1
    <3>2. Verified(g, locs[i].spot)
      BY <1>2, <3>1 DEF Accept
    <3> QED
      BY <1>3, <2>1, <3>1, <3>2
  <2>2. CASE h # g
    BY <1>7, <2>2 DEF TableInv, Placed
  <2> QED
    BY <2>1, <2>2
<1>10. \A i \in 1..Len(tracked'[g]) : i \in 1..Len(w) /\ tracked'[g][i].id = w[i].id
                                      /\ tracked'[g][i].loc = locs[i]
  BY <1>2, <1>15, <1>16
<1>11. OncePerSpot'
  <2> SUFFICES ASSUME NEW h \in Groups, NEW k \in Groups,
                      NEW i \in 1..Len(tracked'[h]), NEW j \in 1..Len(tracked'[k])
               PROVE  \/ h = k /\ i = j
                      \/ /\ tracked'[h][i].id # tracked'[k][j].id
                         /\ h = k => tracked'[h][i].loc.spot # tracked'[k][j].loc.spot
    BY DEF OncePerSpot
  <2>1. CASE h = g /\ k = g
    BY <1>2, <1>10, <2>1 DEF Sendable
  <2>2. CASE h = g /\ k # g
    BY <1>7, <1>10, <2>2, WiresApart
  <2>3. CASE h # g /\ k = g
    BY <1>7, <1>10, <2>3, WiresApart
  <2>4. CASE h # g /\ k # g
    BY <1>7, <2>4 DEF TableInv, OncePerSpot
  <2> QED
    BY <2>1, <2>2, <2>3, <2>4
<1>12. IdsApart'
  <2> SUFFICES ASSUME NEW h \in Groups, NEW k \in Groups, h # k, NEW a \in installed'[h]
               PROVE  /\ \A b \in installed'[k] : a.id # b.id
                      /\ \A j \in 1..Len(tracked'[k]) : a.id # tracked'[k][j].id
    BY DEF IdsApart
  <2>1. CASE h = g
    <3>1. PICK i \in 1..Len(w) : a.id = w[i].id
      BY <1>1, <2>1
    <3>2. /\ \A b \in installed[k] : b.id # w[i].id
          /\ \A j \in 1..Len(tracked[k]) : tracked[k][j].id # w[i].id
      BY <2>1, WiresApart
    <3>3. installed'[k] = installed[k] /\ tracked'[k] = tracked[k]
      BY <1>1, <1>7, <2>1
    <3> QED
      BY <3>1, <3>2, <3>3
  <2>2. CASE h # g /\ k = g
    <3>1. a \in installed[h]
      BY <1>1, <2>2
    <3>2. \A i \in 1..Len(w) : a.id # w[i].id
      BY <2>2, <3>1, WiresApart
    <3> QED
      BY <1>1, <1>10, <2>2, <3>2
  <2>3. CASE h # g /\ k # g
    <3>1. /\ a \in installed[h]
          /\ installed'[k] = installed[k]
          /\ tracked'[k] = tracked[k]
      BY <1>1, <1>7, <2>3
    <3>2. IdsApart
      BY DEF TableInv
    <3>3. /\ \A b \in installed[k] : a.id # b.id
          /\ \A j \in 1..Len(tracked[k]) : a.id # tracked[k][j].id
      BY <3>1, <3>2 DEF IdsApart
    <3> QED
      BY <3>1, <3>3
  <2> QED
    BY <2>1, <2>2, <2>3
<1>13. IdsUsed'
  <2>1. ASSUME NEW h \in Groups, h # g
        PROVE  /\ \A a \in installed[h] : a.id <= lastId'
               /\ \A i \in 1..Len(tracked[h]) : tracked[h][i].id <= lastId'
    <3>1. /\ lastId \in Nat
          /\ \A a \in installed[h] : a.id \in Nat
          /\ \A i \in 1..Len(tracked[h]) : tracked[h][i].id \in Nat
      <4>1. lastId \in Nat /\ installed[h] \subseteq Installed
        BY DEF TableInv, TypeOK
      <4>2. \A i \in 1..Len(tracked[h]) : tracked[h][i] \in Entries
        BY TableIsSendable
      <4> QED
        BY <4>1, <4>2 DEF Installed, Entries
    <3>2. /\ \A a \in installed[h] : a.id <= lastId
          /\ \A i \in 1..Len(tracked[h]) : tracked[h][i].id <= lastId
      BY DEF TableInv, IdsUsed
    <3> QED
      BY <1>1, <3>1, <3>2
  <2>2. /\ \A a \in installed'[g] : a.id <= lastId'
        /\ \A i \in 1..Len(tracked'[g]) : tracked'[g][i].id <= lastId'
    BY <1>1, <1>10
  <2> QED
    BY <1>1, <1>7, <2>1, <2>2 DEF IdsUsed
<1>14. SpotsOf(g)' = InstalledIn(g)'
  <2>1. SpotsOf(g)' = {locs[i].spot : i \in 1..Len(locs)}
    BY <1>15, <1>16 DEF SpotsOf
  <2>2. \A b \in installed'[g] : \E i \in 1..Len(locs) : b.spot = locs[i].spot
    BY <1>1, <1>2
  <2>3. \A i \in 1..Len(locs) : \E b \in installed'[g] : b.spot = locs[i].spot
    BY <1>8
  <2>4. InstalledIn(g)' = {locs[i].spot : i \in 1..Len(locs)}
    BY <2>2, <2>3 DEF InstalledIn
  <2> QED
    BY <2>1, <2>4
<1> QED
  BY <1>1, <1>4, <1>5, <1>7, <1>8, <1>9, <1>11, <1>12, <1>13, <1>14 DEF new

-----------------------------------------------------------------------------
(* Calls.                                                                  *)

\* What the client may ask of a group.
Asked(call, g, locs, id) ==
  /\ call \in {"create", "clear"} /\ g \in Groups /\ id \in Nat
  /\ Sendable(g, locs)
  /\ call = "create" => locs # <<>>
  /\ ~cleared' => /\ ~cleared
                  /\ \A i \in 1..Len(tracked[g]) :
                       \E j \in 1..Len(locs) : locs[j].spot = tracked[g][i].loc.spot
  /\ cleared' \in BOOLEAN /\ UNCHANGED connected

ResultOK(r) == r \in [call : {"none", "create", "clear", "close"},
                      group : Groups, ok : BOOLEAN, id : Nat]

LEMMA OutcomeOK ==
  ASSUME NEW call \in {"none", "create", "clear", "close"}, NEW g \in Groups,
         NEW ok \in BOOLEAN, NEW id \in Nat, Outcome(call, g, ok, id)
  PROVE  /\ ResultOK(result')
         /\ result'.call = call /\ result'.group = g /\ result'.ok = ok /\ result'.id = id
  BY DEF Outcome, ResultOK

\* Nothing but the result changes.
LEMMA RefusedKeeps ==
  ASSUME TableInv, UNCHANGED <<tracked, installed, lastId>>, connected' \in BOOLEAN,
         ResultOK(result'), cleared' \in BOOLEAN, ~cleared' => ~cleared
  PROVE  TableInv'
<1> USE DEF TableInv
<1>1. TypeOK'
  BY DEF TypeOK, ResultOK
<1>2. Placed'
  BY DEF Placed, Verified
<1>3. OncePerSpot' /\ InstalledOnce'
  BY DEF OncePerSpot, InstalledOnce
<1>4. IdsApart' /\ IdsUsed'
  BY DEF IdsApart, IdsUsed
<1>5. ListedIsInstalled'
  BY DEF ListedIsInstalled, SpotsOf, InstalledIn
<1> QED
  BY <1>1, <1>2, <1>3, <1>4, <1>5

\* The table's spots were asked for, so that Delve has them after all.
LEMMA RejectLists ==
  ASSUME TableInv, NEW call, NEW g, NEW locs, NEW id, Asked(call, g, locs, id),
         NEW renumber \in BOOLEAN, NEW w, w = Wires(g, locs, renumber), Install(g, w),
         UNCHANGED tracked
  PROVE  ListedIsInstalled'
<1>1. g \in Groups /\ Sendable(g, locs)
  BY DEF Asked
<1>2. SUFFICES ASSUME ~cleared', NEW h \in Groups, NEW i \in 1..Len(tracked[h])
               PROVE  tracked[h][i].loc.spot \in InstalledIn(h)'
  BY DEF ListedIsInstalled, SpotsOf
<1>3. CASE h = g
  <2>1. PICK j \in 1..Len(locs) : locs[j].spot = tracked[g][i].loc.spot
    BY <1>2, <1>3 DEF Asked
  <2>2. Verified(g, locs[j].spot)
    BY <1>3, <2>1 DEF TableInv, Placed
  <2>3. j \in 1..Len(w) /\ w[j].spot = locs[j].spot
        /\ w[j].verified = Verified(g, locs[j].spot)
    BY <1>1, WiresAnswer
  <2>4. [spot |-> w[j].spot, id |-> w[j].id] \in installed'[g]
    BY <1>1, <2>2, <2>3, InstallKeeps
  <2> QED
    BY <1>3, <2>1, <2>3, <2>4 DEF InstalledIn
<1>4. CASE h # g
  <2>1. installed'[h] = installed[h]
    BY <1>1, <1>4, InstallKeeps
  <2>2. ~cleared
    BY <1>2 DEF Asked
  <2>3. tracked[h][i].loc.spot \in InstalledIn(h)
    BY <2>2 DEF TableInv, ListedIsInstalled, SpotsOf
  <2> QED
    BY <2>1, <2>3 DEF InstalledIn
<1> QED
  BY <1>3, <1>4

LEMMA AcceptLists ==
  ASSUME TableInv, NEW call, NEW g, NEW locs, NEW id, Asked(call, g, locs, id),
         SpotsOf(g)' = InstalledIn(g)',
         \A h \in Groups \ {g} : tracked'[h] = tracked[h] /\ installed'[h] = installed[h]
  PROVE  ListedIsInstalled'
<1>1. SUFFICES ASSUME ~cleared', NEW h \in Groups PROVE SpotsOf(h)' \subseteq InstalledIn(h)'
  BY DEF ListedIsInstalled
<1>2. ~cleared
  BY <1>1 DEF Asked
<1>3. SpotsOf(h) \subseteq InstalledIn(h)
  BY <1>2 DEF TableInv, ListedIsInstalled
<1> QED
  BY <1>3 DEF SpotsOf, InstalledIn

\* Carried out: the answer is accepted, rejected or lost.
LEMMA SentKeeps ==
  ASSUME TableInv, NEW call, NEW g, NEW locs, NEW id, Asked(call, g, locs, id),
         NEW renumber \in BOOLEAN, NEW w, w = Wires(g, locs, renumber), Install(g, w),
         ResultOK(result'),
         \/ UNCHANGED tracked
         \/ Accept(w) /\ tracked' = [tracked EXCEPT ![g] = Tracked(locs, w)]
  PROVE  TableInv'
<1>1. g \in Groups /\ Sendable(g, locs)
  BY DEF Asked
<1>2. /\ installed' \in [Groups -> SUBSET Installed] /\ lastId' \in Nat
      /\ \A h \in Groups \ {g} : installed'[h] = installed[h]
  BY <1>1, InstallKeeps
<1>3. connected' \in BOOLEAN /\ cleared' \in BOOLEAN /\ tracked \in [Groups -> Seq(Entries)]
  BY DEF Asked, TableInv, TypeOK
<1>4. CASE UNCHANGED tracked
  <2>1. Placed' /\ OncePerSpot' /\ InstalledOnce' /\ IdsApart' /\ IdsUsed'
    BY <1>1, <1>4, RejectKeeps
  <2>2. ListedIsInstalled'
    BY <1>4, RejectLists
  <2>3. TypeOK'
    BY <1>2, <1>3, <1>4 DEF TypeOK, ResultOK
  <2> QED
    BY <2>1, <2>2, <2>3 DEF TableInv
<1>5. CASE Accept(w) /\ tracked' = [tracked EXCEPT ![g] = Tracked(locs, w)]
  <2>1. /\ tracked' \in [Groups -> Seq(Entries)]
        /\ Placed' /\ OncePerSpot' /\ InstalledOnce' /\ IdsApart' /\ IdsUsed'
        /\ SpotsOf(g)' = InstalledIn(g)'
    BY <1>1, <1>5, AcceptKeeps
  <2>2. \A h \in Groups \ {g} : tracked'[h] = tracked[h]
    BY <1>1, <1>3, <1>5
  <2>3. ListedIsInstalled'
    BY <1>2, <2>1, <2>2, AcceptLists
  <2>4. TypeOK'
    BY <1>2, <1>3, <2>1 DEF TypeOK, ResultOK
  <2> QED
    BY <2>1, <2>3, <2>4 DEF TableInv
<1> QED
  BY <1>4, <1>5

\* What sending a group comes to.
LEMMA SendCases ==
  ASSUME TableInv, NEW call, NEW g, NEW locs, NEW id, Asked(call, g, locs, id), NEW late,
         SendGroup(call, g, locs, id, late)
  PROVE  \/ /\ UNCHANGED <<tracked, installed, lastId>>
            /\ ResultOK(result') /\ ~result'.ok
         \/ \E renumber \in BOOLEAN :
              /\ Install(g, Wires(g, locs, renumber))
              /\ ResultOK(result')
              /\ \/ UNCHANGED tracked /\ ~result'.ok
                 \/ /\ Accept(Wires(g, locs, renumber))
                    /\ tracked' = [tracked EXCEPT ![g] = Tracked(locs, Wires(g, locs, renumber))]
                    /\ result'.call = call /\ result'.group = g
                    /\ result'.id = IF call = "create" THEN CreatedId(Wires(g, locs, renumber))
                                    ELSE id
<1>1. /\ call \in {"none", "create", "clear", "close"} /\ g \in Groups /\ id \in Nat
      /\ Sendable(g, locs) /\ FALSE \in BOOLEAN
  BY DEF Asked
<1>2. CASE Refused(call, g, id)
  BY <1>1, <1>2, OutcomeOK DEF Refused
<1>3. CASE Lost(call, g, locs, id)
  BY <1>1, <1>3, OutcomeOK DEF Lost
<1>4. CASE Answered(call, g, locs, id)
  <2>1. PICK renumber \in BOOLEAN :
          LET wires == Wires(g, locs, renumber) IN
          /\ Install(g, wires)
          /\ tracked' = IF Accept(wires)
                        THEN [tracked EXCEPT ![g] = Tracked(locs, wires)]
                        ELSE tracked
          /\ Outcome(call, g, Accept(wires), IF call = "create" THEN CreatedId(wires) ELSE id)
    BY <1>4, Zenon DEF Answered
  <2> DEFINE w == Wires(g, locs, renumber)
             n == IF call = "create" THEN CreatedId(w) ELSE id
  <2>2. n \in Nat
    <3>1. /\ Len(w) \in Nat /\ Len(w) = Len(locs)
          /\ \A i \in 1..Len(w) : w[i] \in Wire
      BY <1>1, WiresAnswer
    <3>2. call = "create" => Len(w) \in 1..Len(w)
      BY <1>1, <3>1, EmptySeq DEF Asked, Sendable
    <3> QED
      BY <1>1, <3>1, <3>2 DEF CreatedId, Wire
  <2>3. Accept(w) \in BOOLEAN
    BY DEF Accept
  <2>4. /\ ResultOK(result')
        /\ result'.call = call /\ result'.group = g /\ result'.ok = Accept(w) /\ result'.id = n
    <3> HIDE DEF w, n
    <3>1. Outcome(call, g, Accept(w), n)
      BY <2>1 DEF w, n
    <3> QED
      BY <1>1, <2>2, <2>3, <3>1, OutcomeOK
  <2> QED
    BY <2>1, <2>4
<1> QED
  BY <1>2, <1>3, <1>4 DEF SendGroup

LEMMA SendKeeps ==
  ASSUME TableInv, NEW call, NEW g, NEW locs, NEW id, Asked(call, g, locs, id), NEW late,
         SendGroup(call, g, locs, id, late)
  PROVE  TableInv'
<1>1. CASE UNCHANGED <<tracked, installed, lastId>> /\ ResultOK(result')
  <2>1. connected' \in BOOLEAN /\ cleared' \in BOOLEAN /\ (~cleared' => ~cleared)
    BY DEF Asked, TableInv, TypeOK
  <2> QED
    BY <1>1, <2>1, RefusedKeeps
<1>2. CASE \E renumber \in BOOLEAN :
              /\ Install(g, Wires(g, locs, renumber))
              /\ ResultOK(result')
              /\ \/ UNCHANGED tracked
                 \/ /\ Accept(Wires(g, locs, renumber))
                    /\ tracked' = [tracked EXCEPT ![g] = Tracked(locs, Wires(g, locs, renumber))]
  BY <1>2, SentKeeps
<1> QED
  BY <1>1, <1>2, SendCases, Zenon

-----------------------------------------------------------------------------
(* The steps of the client.                                                *)

LEMMA CreateAsks ==
  ASSUME TableInv, NEW l \in Locations, Known(l.group, Normalize(l)) = {},
         UNCHANGED <<connected, cleared>>
  PROVE  Asked("create", l.group, Append(Locs(tracked[l.group]), Normalize(l)), 0)
<1> DEFINE g == l.group
           locs == Append(Locs(tracked[g]), Normalize(l))
<1>1. g \in Groups /\ Sendable(g, locs) /\ Len(locs) = Len(tracked[g]) + 1
  BY AppendIsSendable, GroupsOfLocations
<1>2. /\ Locs(tracked[g]) \in Seq(Locations) /\ Len(tracked[g]) \in Nat
      /\ Len(Locs(tracked[g])) = Len(tracked[g])
      /\ \A i \in 1..Len(tracked[g]) : Locs(tracked[g])[i] = tracked[g][i].loc
  BY <1>1, TableIsSendable DEF Sendable
<1>3. Normalize(l) \in Locations
  BY DEF Normalize, Locations
<1>4. \A i \in 1..Len(tracked[g]) : i \in 1..Len(locs) /\ locs[i] = tracked[g][i].loc
  BY <1>1, <1>2, <1>3, AppendProperties
<1>5. locs # <<>>
  BY <1>2, <1>3, AppendProperties
<1>6. cleared \in BOOLEAN /\ 0 \in Nat
  BY DEF TableInv, TypeOK
<1> HIDE DEF locs
<1>7. \A i \in 1..Len(tracked[g]) :
        \E j \in 1..Len(locs) : locs[j].spot = tracked[g][i].loc.spot
  BY <1>4
<1>8. Asked("create", g, locs, 0)
  BY <1>1, <1>5, <1>6, <1>7 DEF Asked
<1> QED
  BY <1>8 DEF locs

LEMMA ClearAsks ==
  ASSUME TableInv, NEW g \in Groups, NEW id \in Nat, NEW i \in WithId(g, id),
         UNCHANGED connected, cleared' = TRUE
  PROVE  Asked("clear", g, RemoveAt(Locs(tracked[g]), i), id)
<1>1. i \in 1..Len(Locs(tracked[g])) /\ Sendable(g, Locs(tracked[g]))
  BY TableIsSendable DEF WithId
<1>2. Sendable(g, RemoveAt(Locs(tracked[g]), i))
  BY <1>1, RemoveIsSendable
<1> QED
  BY <1>2 DEF Asked

LEMMA CreateKeeps ==
  ASSUME TableInv, NEW l \in Locations, NEW late, Create(l, late)
  PROVE  TableInv'
<1>1. UNCHANGED <<connected, cleared>>
  BY DEF Create
<1>2. CASE Known(l.group, Normalize(l)) # {}
  <2>1. UNCHANGED <<tracked, installed, lastId>>
    BY <1>2, Zenon DEF Create
  <2>2. PICK i \in Known(l.group, Normalize(l)) :
          Outcome("create", l.group, TRUE, tracked[l.group][i].id)
    BY <1>2, Zenon DEF Create
  <2>3. l.group \in Groups /\ tracked[l.group][i].id \in Nat
    BY GroupsOfLocations, TableIsSendable DEF Known, Entries
  <2>4. ResultOK(result')
    BY <2>2, <2>3, OutcomeOK
  <2>5. connected' \in BOOLEAN /\ cleared' \in BOOLEAN /\ (~cleared' => ~cleared)
    BY <1>1 DEF TableInv, TypeOK
  <2> QED
    BY <2>1, <2>4, <2>5, RefusedKeeps
<1>3. CASE Known(l.group, Normalize(l)) = {}
  BY <1>1, <1>3, CreateAsks, SendKeeps DEF Create
<1> QED
  BY <1>2, <1>3

LEMMA ClearKeeps ==
  ASSUME TableInv, NEW id \in Nat, NEW late, Clear(id, late)
  PROVE  TableInv'
<1>1. UNCHANGED connected /\ cleared' = TRUE
  BY DEF Clear
<1>2. ASSUME NEW g \in Groups, NEW i \in WithId(g, id),
             SendGroup("clear", g, RemoveAt(Locs(tracked[g]), i), id, late)
      PROVE  TableInv'
  BY <1>1, <1>2, ClearAsks, SendKeeps
<1>3. ASSUME NEW g \in Groups, Refused("clear", g, id) PROVE TableInv'
  <2>1. UNCHANGED <<tracked, installed, lastId>> /\ ResultOK(result')
    BY <1>3, OutcomeOK DEF Refused
  <2>2. connected' \in BOOLEAN /\ cleared' \in BOOLEAN /\ (~cleared' => ~cleared)
    BY <1>1 DEF TableInv, TypeOK
  <2> QED
    BY <2>1, <2>2, RefusedKeeps
<1> QED
  BY <1>2, <1>3 DEF Clear

\* A table without entries, and a Delve without breakpoints.
EmptyTable == /\ tracked = Empty /\ installed = NothingInstalled /\ lastId = 0
              /\ connected \in BOOLEAN /\ ResultOK(result) /\ cleared \in BOOLEAN

LEMMA EmptyIsInv == EmptyTable => TableInv
<1> SUFFICES ASSUME EmptyTable PROVE TableInv
  OBVIOUS
<1> USE DEF EmptyTable
<1>1. /\ \A g \in Groups : tracked[g] = <<>> /\ installed[g] = {}
      /\ tracked \in [Groups -> Seq(Entries)]
      /\ installed \in [Groups -> SUBSET Installed]
      /\ Len(<<>>) = 0 /\ 1..0 = {}
  <2>1. <<>> \in Seq(Entries)
    BY EmptySeq
  <2> QED
    BY <2>1 DEF Empty, NothingInstalled
<1>2. TypeOK
  BY <1>1 DEF TypeOK, ResultOK
<1>3. \A g \in Groups : 1..Len(tracked[g]) = {}
  BY <1>1
<1>4. Placed /\ OncePerSpot
  BY <1>3 DEF Placed, OncePerSpot
<1>5. InstalledOnce /\ IdsApart /\ IdsUsed
  BY <1>1, <1>3 DEF InstalledOnce, IdsApart, IdsUsed
<1>6. ListedIsInstalled
  BY <1>3 DEF ListedIsInstalled, SpotsOf
<1> QED
  BY <1>2, <1>4, <1>5, <1>6 DEF TableInv

LEMMA EmptyIsInvNext == EmptyTable' => TableInv'
  BY EmptyIsInv, PTL

LEMMA Starts == ASSUME Init PROVE TableInv
<1>1. ResultOK(result)
  <2>1. PICK g \in Groups : result = [call |-> "none", group |-> g, ok |-> TRUE, id |-> 0]
    BY DEF Init
  <2> QED
    BY <2>1 DEF ResultOK
<1>2. EmptyTable
  BY <1>1 DEF Init, EmptyTable
<1> QED
  BY <1>2, EmptyIsInv

LEMMA CloseKeeps == ASSUME TableInv, Close PROVE TableInv'
<1>1. PICK g \in Groups : Outcome("close", g, TRUE, 0)
  BY DEF Close
<1>2. ResultOK(result')
  BY <1>1, OutcomeOK
<1>3. EmptyTable'
  BY <1>2 DEF Close, EmptyTable
<1> QED
  BY <1>3, EmptyIsInvNext

LEMMA StepKeeps == ASSUME TableInv, [Next]_vars PROVE TableInv'
<1>1. ASSUME NEW l \in Locations, NEW late, Create(l, late) PROVE TableInv'
  BY <1>1, CreateKeeps
<1>2. ASSUME NEW id \in 1..MaxId, NEW late, Clear(id, late) PROVE TableInv'
  <2>1. id \in Nat
    BY MaxIdAssumption
  <2> QED
    BY <1>2, <2>1, ClearKeeps
<1>3. CASE Reopen \/ UNCHANGED vars
  <2>1. /\ UNCHANGED <<tracked, installed, lastId>> /\ connected' \in BOOLEAN
        /\ ResultOK(result') /\ cleared' \in BOOLEAN /\ (~cleared' => ~cleared)
    BY <1>3 DEF Reopen, vars, TableInv, TypeOK, ResultOK
  <2> QED
    BY <2>1, RefusedKeeps
<1> QED
  BY <1>1, <1>2, <1>3, CloseKeeps, Zenon DEF Next

LEMMA Invariance == Spec => []TableInv
<1>1. Init => TableInv
  BY Starts
<1>2. TableInv /\ [Next]_vars => TableInv'
  BY StepKeeps
<1> QED
  BY <1>1, <1>2, PTL DEF Spec

-----------------------------------------------------------------------------
(* What a step that changes the table or Delve has done.                   *)

\* The spots that are sent.
SpotsIn(locs) == {locs[i].spot : i \in 1..Len(locs)}

\* The call was answered, and the answer accepted.
Accepted(call, g, locs, id) ==
  /\ Asked(call, g, locs, id)
  /\ result'.call = call /\ result'.group = g
  /\ \E renumber \in BOOLEAN :
       /\ Install(g, Wires(g, locs, renumber))
       /\ Accept(Wires(g, locs, renumber))
       /\ tracked' = [tracked EXCEPT ![g] = Tracked(locs, Wires(g, locs, renumber))]
       /\ result'.id = IF call = "create" THEN CreatedId(Wires(g, locs, renumber)) ELSE id

LEMMA AcceptedAgrees ==
  ASSUME TableInv, NEW call, NEW g, NEW locs, NEW id, Accepted(call, g, locs, id)
  PROVE  /\ SpotsOf(g)' = InstalledIn(g)'
         /\ SpotsOf(g)' = SpotsIn(locs)
         /\ \A h \in Groups \ {g} : tracked'[h] = tracked[h] /\ installed'[h] = installed[h]
         /\ call = "create" =>
              [spot |-> locs[Len(locs)].spot, id |-> result'.id] \in installed'[g]
<1>1. g \in Groups /\ Sendable(g, locs) /\ (call = "create" => locs # <<>>)
  BY DEF Accepted, Asked
<1>2. PICK renumber \in BOOLEAN :
        /\ Install(g, Wires(g, locs, renumber))
        /\ Accept(Wires(g, locs, renumber))
        /\ tracked' = [tracked EXCEPT ![g] = Tracked(locs, Wires(g, locs, renumber))]
        /\ result'.id = IF call = "create" THEN CreatedId(Wires(g, locs, renumber)) ELSE id
  BY DEF Accepted
<1> DEFINE w == Wires(g, locs, renumber)
<1>3. /\ tracked'[g] = Tracked(locs, w)
      /\ Len(Tracked(locs, w)) = Len(locs)
      /\ \A i \in 1..Len(locs) : /\ Tracked(locs, w)[i] = [loc |-> locs[i], id |-> w[i].id]
                                 /\ [spot |-> locs[i].spot, id |-> w[i].id] \in installed'[g]
      /\ SpotsOf(g)' = InstalledIn(g)'
  <2>1. /\ Install(g, w) /\ Accept(w)
        /\ tracked' = [tracked EXCEPT ![g] = Tracked(locs, w)]
    BY <1>2
  <2>2. \A u : u = Wires(g, locs, renumber) /\ Install(g, u) /\ Accept(u)
                /\ tracked' = [tracked EXCEPT ![g] = Tracked(locs, u)]
               => /\ tracked'[g] = Tracked(locs, u)
                  /\ Len(Tracked(locs, u)) = Len(locs)
                  /\ \A i \in 1..Len(locs) :
                       /\ Tracked(locs, u)[i] = [loc |-> locs[i], id |-> u[i].id]
                       /\ [spot |-> locs[i].spot, id |-> u[i].id] \in installed'[g]
                  /\ SpotsOf(g)' = InstalledIn(g)'
    BY <1>1, AcceptKeeps, Zenon
  <2> QED
    BY <2>1, <2>2
<1>4. Len(w) = Len(locs) /\ Len(locs) \in Nat
  BY <1>1, WiresAnswer
<1> HIDE DEF w
<1>5. SpotsOf(g)' = SpotsIn(locs)
  <2>1. \A i \in 1..Len(locs) : tracked'[g][i].loc = locs[i]
    <3> SUFFICES ASSUME NEW i \in 1..Len(locs) PROVE tracked'[g][i].loc = locs[i]
      OBVIOUS
    <3>1. tracked'[g][i] = [loc |-> locs[i], id |-> w[i].id]
      BY <1>3, Zenon
    <3> QED
      BY <3>1
  <2>2. Len(tracked'[g]) = Len(locs)
    BY <1>3, Zenon
  <2> QED
    BY <2>1, <2>2 DEF SpotsOf, SpotsIn
<1>6. \A h \in Groups \ {g} : tracked'[h] = tracked[h]
  BY <1>2 DEF TableInv, TypeOK
<1>7. \A h \in Groups \ {g} : installed'[h] = installed[h]
  BY <1>1, <1>2, InstallKeeps
<1>8. ASSUME call = "create"
      PROVE  [spot |-> locs[Len(locs)].spot, id |-> result'.id] \in installed'[g]
  <2>1. Len(locs) \in 1..Len(locs)
    BY <1>1, <1>4, <1>8, EmptySeq DEF Sendable
  <2>2. result'.id = w[Len(locs)].id
    BY <1>2, <1>4, <1>8 DEF CreatedId, w
  <2>3. [spot |-> locs[Len(locs)].spot, id |-> w[Len(locs)].id] \in installed'[g]
    BY <1>3, <2>1, Zenon
  <2> QED
    BY <2>2, <2>3
<1> QED
  BY <1>3, <1>5, <1>6, <1>7, <1>8

LEMMA SendChanges ==
  ASSUME TableInv, NEW call, NEW g, NEW locs, NEW id, Asked(call, g, locs, id), NEW late,
         SendGroup(call, g, locs, id, late)
  PROVE  ~result'.ok \/ Accepted(call, g, locs, id)
<1>1. ASSUME NEW renumber \in BOOLEAN,
             Install(g, Wires(g, locs, renumber)),
             Accept(Wires(g, locs, renumber)),
             tracked' = [tracked EXCEPT ![g] = Tracked(locs, Wires(g, locs, renumber))],
             result'.call = call, result'.group = g,
             result'.id = IF call = "create" THEN CreatedId(Wires(g, locs, renumber)) ELSE id
      PROVE  Accepted(call, g, locs, id)
  BY <1>1, Zenon DEF Accepted
<1> QED
  BY <1>1, SendCases, Zenon

LEMMA StepChanges ==
  ASSUME TableInv, [Next]_vars
  PROVE  \/ UNCHANGED <<tracked, installed>> /\ (UNCHANGED result \/ result'.call = "create")
         \/ /\ tracked' = Empty /\ installed' = NothingInstalled
            /\ result'.call = "close"
         \/ ~result'.ok
         \/ \E l \in Locations :
              Accepted("create", l.group, Append(Locs(tracked[l.group]), Normalize(l)), 0)
         \/ \E g \in Groups : \E id \in Nat : \E i \in WithId(g, id) :
              Accepted("clear", g, RemoveAt(Locs(tracked[g]), i), id)
<1> DEFINE Changes ==
         \/ UNCHANGED <<tracked, installed>> /\ (UNCHANGED result \/ result'.call = "create")
         \/ /\ tracked' = Empty /\ installed' = NothingInstalled
            /\ result'.call = "close"
         \/ ~result'.ok
         \/ \E l \in Locations :
              Accepted("create", l.group, Append(Locs(tracked[l.group]), Normalize(l)), 0)
         \/ \E g \in Groups : \E id \in Nat : \E i \in WithId(g, id) :
              Accepted("clear", g, RemoveAt(Locs(tracked[g]), i), id)
<1>1. ASSUME NEW l \in Locations, NEW late, Create(l, late) PROVE Changes
  <2>1. CASE Known(l.group, Normalize(l)) # {}
    <3>1. UNCHANGED <<tracked, installed>>
      BY <1>1, <2>1, Zenon DEF Create
    <3>2. PICK i \in Known(l.group, Normalize(l)) :
            Outcome("create", l.group, TRUE, tracked[l.group][i].id)
      BY <1>1, <2>1, Zenon DEF Create
    <3>3. result'.call = "create"
      BY <3>2 DEF Outcome
    <3> QED
      BY <3>1, <3>3
  <2>2. CASE Known(l.group, Normalize(l)) = {}
    <3>1. /\ UNCHANGED <<connected, cleared>>
          /\ SendGroup("create", l.group, Append(Locs(tracked[l.group]), Normalize(l)), 0, late)
      BY <1>1, <2>2 DEF Create
    <3> QED
      BY <2>2, <3>1, CreateAsks, SendChanges
  <2> QED
    BY <2>1, <2>2
<1>2. ASSUME NEW id \in 1..MaxId, NEW late, Clear(id, late) PROVE Changes
  <2>1. id \in Nat /\ UNCHANGED connected /\ cleared' = TRUE
    BY <1>2, MaxIdAssumption DEF Clear
  <2>2. ASSUME NEW g \in Groups, NEW i \in WithId(g, id),
               SendGroup("clear", g, RemoveAt(Locs(tracked[g]), i), id, late)
        PROVE  Changes
    BY <2>1, <2>2, ClearAsks, SendChanges
  <2>3. ASSUME NEW g \in Groups, Refused("clear", g, id) PROVE Changes
    BY <2>3 DEF Refused, Outcome
  <2> QED
    BY <1>2, <2>2, <2>3 DEF Clear
<1>3. CASE Reopen \/ UNCHANGED vars
  BY <1>3 DEF Reopen, vars
<1>4. CASE Close
  BY <1>4 DEF Close, Outcome
<1> QED
  BY <1>1, <1>2, <1>3, <1>4, Zenon DEF Next

-----------------------------------------------------------------------------
LEMMA StepHeals ==
  ASSUME TableInv, [Next]_vars, NEW g \in Groups,
         result' # result, result'.ok, result'.group = g,
         tracked'[g] # tracked[g] \/ installed'[g] # installed[g]
  PROVE  SpotsOf(g)' = InstalledIn(g)'
<1>1. ASSUME NEW h, NEW call, NEW locs, NEW id, Accepted(call, h, locs, id)
      PROVE  SpotsOf(g)' = InstalledIn(g)'
  <2>1. h = g
    BY <1>1 DEF Accepted
  <2> QED
    BY <1>1, <2>1, AcceptedAgrees
<1>2. CASE tracked' = Empty /\ installed' = NothingInstalled
  <2>1. tracked'[g] = <<>> /\ installed'[g] = {} /\ Len(<<>>) = 0
    BY <1>2 DEF Empty, NothingInstalled
  <2> QED
    BY <2>1 DEF SpotsOf, InstalledIn
<1> QED
  BY <1>1, <1>2, StepChanges

LEMMA StepCreates ==
  ASSUME TableInv, [Next]_vars, NEW g \in Groups,
         result' # result, result'.ok, result'.group = g, result'.call = "create",
         NEW p \in SpotsOf(g)' \ SpotsOf(g)
  PROVE  [spot |-> p, id |-> result'.id] \in installed'[g]
<1>1. ASSUME NEW l \in Locations,
             Accepted("create", l.group, Append(Locs(tracked[l.group]), Normalize(l)), 0)
      PROVE  [spot |-> p, id |-> result'.id] \in installed'[g]
  <2> DEFINE locs == Append(Locs(tracked[g]), Normalize(l))
  <2>1. l.group = g
    BY <1>1 DEF Accepted
  <2>2. /\ SpotsOf(g)' = SpotsIn(locs)
        /\ [spot |-> locs[Len(locs)].spot, id |-> result'.id] \in installed'[g]
    <3>1. Accepted("create", g, locs, 0)
      BY <1>1, <2>1
    <3> HIDE DEF locs
    <3> QED
      BY <3>1, AcceptedAgrees, Zenon
  <2>3. /\ Locs(tracked[g]) \in Seq(Locations) /\ Len(tracked[g]) \in Nat
        /\ Len(Locs(tracked[g])) = Len(tracked[g])
        /\ \A i \in 1..Len(tracked[g]) : Locs(tracked[g])[i] = tracked[g][i].loc
    BY TableIsSendable DEF Sendable
  <2>4. Normalize(l) \in Locations
    BY DEF Normalize, Locations
  <2>5. /\ Len(locs) = Len(tracked[g]) + 1
        /\ \A i \in 1..Len(tracked[g]) : locs[i] = tracked[g][i].loc
    BY <2>3, <2>4, AppendProperties
  <2> HIDE DEF locs
  <2>6. PICK i \in 1..Len(locs) : p = locs[i].spot
    BY <2>2 DEF SpotsIn
  <2>7. ~(i \in 1..Len(tracked[g]))
    BY <2>5, <2>6 DEF SpotsOf
  <2>8. i = Len(locs)
    BY <2>3, <2>5, <2>7
  <2> QED
    BY <2>2, <2>6, <2>8
<1>2. ASSUME UNCHANGED tracked PROVE FALSE
  BY <1>2 DEF SpotsOf
<1>3. ASSUME NEW h, NEW locs, NEW id, Accepted("clear", h, locs, id) PROVE FALSE
  BY <1>3 DEF Accepted
<1> QED
  BY <1>1, <1>2, <1>3, StepChanges

\* The spots of a group with one left out.
LEMMA RemovedPlaces ==
  ASSUME NEW g, NEW locs, Sendable(g, locs), NEW i \in 1..Len(locs)
  PROVE  SpotsIn(RemoveAt(locs, i)) = SpotsIn(locs) \ {locs[i].spot}
<1> DEFINE rest == RemoveAt(locs, i)
<1>1. Len(locs) \in Nat /\ locs \in Seq(Locations)
  BY LenProperties DEF Sendable
<1>2. /\ Len(rest) = Len(locs) - 1
      /\ \A k \in 1..Len(locs) - 1 : rest[k] = IF k < i THEN locs[k] ELSE locs[k + 1]
  BY <1>1, RemoveAtCloses
<1>3. \A k, m \in 1..Len(locs) : locs[k].spot = locs[m].spot => k = m
  BY DEF Sendable
<1> HIDE DEF rest
<1>4. ASSUME NEW k \in 1..Len(rest)
      PROVE  \E m \in 1..Len(locs) : m # i /\ rest[k] = locs[m]
  <2>1. CASE k < i
    <3>1. k \in 1..Len(locs) /\ k # i /\ rest[k] = locs[k]
      BY <1>1, <1>2, <2>1
    <3> QED
      BY <3>1
  <2>2. CASE ~(k < i)
    <3>1. k + 1 \in 1..Len(locs) /\ k + 1 # i /\ rest[k] = locs[k + 1]
      BY <1>1, <1>2, <2>2
    <3> QED
      BY <3>1
  <2> QED
    BY <2>1, <2>2
<1>5. ASSUME NEW m \in 1..Len(locs), m # i
      PROVE  \E k \in 1..Len(rest) : rest[k] = locs[m]
  <2>1. CASE m < i
    <3>1. m \in 1..Len(rest) /\ rest[m] = locs[m]
      BY <1>1, <1>2, <2>1
    <3> QED
      BY <3>1
  <2>2. CASE m > i
    <3>1. m - 1 \in 1..Len(rest) /\ ~(m - 1 < i) /\ (m - 1) + 1 = m
      BY <1>1, <1>2, <2>2
    <3>2. rest[m - 1] = locs[m]
      BY <1>2, <3>1
    <3> QED
      BY <3>1, <3>2
  <2> QED
    BY <1>1, <1>5, <2>1, <2>2
<1>6. SpotsIn(rest) \subseteq SpotsIn(locs) \ {locs[i].spot}
  BY <1>3, <1>4 DEF SpotsIn
<1>7. SpotsIn(locs) \ {locs[i].spot} \subseteq SpotsIn(rest)
  BY <1>3, <1>5 DEF SpotsIn
<1> QED
  BY <1>6, <1>7 DEF rest

LEMMA StepClears ==
  ASSUME TableInv, [Next]_vars, NEW g \in Groups,
         result' # result, result'.ok, result'.group = g, result'.call = "clear"
  PROVE  LET gone == {tracked[g][i].loc.spot : i \in WithId(g, result'.id)} IN
         /\ gone \cap InstalledIn(g)' = {}
         /\ SpotsOf(g)' = SpotsOf(g) \ gone
         /\ \A h \in Groups \ {g} : tracked'[h] = tracked[h]
<1> DEFINE gone == {tracked[g][i].loc.spot : i \in WithId(g, result'.id)}
<1>1. ASSUME NEW h \in Groups, NEW id \in Nat, NEW i \in WithId(h, id),
             Accepted("clear", h, RemoveAt(Locs(tracked[h]), i), id)
      PROVE  /\ gone \cap InstalledIn(g)' = {}
             /\ SpotsOf(g)' = SpotsOf(g) \ gone
             /\ \A k \in Groups \ {g} : tracked'[k] = tracked[k]
  <2> DEFINE locs == Locs(tracked[g])
  <2>1. h = g /\ result'.id = id
    BY <1>1 DEF Accepted
  <2>0. Accepted("clear", g, RemoveAt(locs, i), id)
    BY <1>1, <2>1
  <2> HIDE DEF locs
  <2>2. /\ SpotsOf(g)' = InstalledIn(g)'
        /\ SpotsOf(g)' = SpotsIn(RemoveAt(locs, i))
        /\ \A k \in Groups \ {g} : tracked'[k] = tracked[k]
    BY <2>0, AcceptedAgrees
  <2> USE DEF locs
  <2>3. /\ Sendable(g, locs) /\ Len(locs) = Len(tracked[g])
        /\ \A k \in 1..Len(tracked[g]) : locs[k] = tracked[g][k].loc
    BY TableIsSendable
  <2>4. i \in 1..Len(locs) /\ tracked[g][i].id = id
    BY <2>1, <2>3 DEF WithId
  <2>5. SpotsIn(RemoveAt(locs, i)) = SpotsIn(locs) \ {locs[i].spot}
    BY <2>3, <2>4, RemovedPlaces
  <2>6. SpotsIn(locs) = SpotsOf(g)
    BY <2>3 DEF SpotsIn, SpotsOf
  <2>7. \A k \in WithId(g, id) : k = i
    BY <2>3, <2>4, Zenon DEF WithId, TableInv, OncePerSpot
  <2>8. gone = {locs[i].spot}
    BY <2>1, <2>3, <2>4, <2>7 DEF WithId
  <2> QED
    BY <2>2, <2>5, <2>6, <2>8
<1>2. ASSUME NEW h, NEW locs, NEW id, Accepted("create", h, locs, id) PROVE FALSE
  BY <1>2 DEF Accepted
<1> HIDE DEF gone
<1>3. /\ gone \cap InstalledIn(g)' = {}
      /\ SpotsOf(g)' = SpotsOf(g) \ gone
      /\ \A k \in Groups \ {g} : tracked'[k] = tracked[k]
  BY <1>1, <1>2, StepChanges
<1> QED
  BY <1>3 DEF gone

-----------------------------------------------------------------------------
(* The theorems.                                                           *)

\* Every variable keeps its type: in particular the ids in the tables and in Delve are
\* positive, and every listed location is in normal form.
THEOREM Typing == Spec => []TypeOK
  BY Invariance, PTL DEF TableInv

\* However often breakpoints are created and cleared, refused, half verified or carried
\* out behind a lost answer, no spot is listed twice and no id names two breakpoints.
THEOREM Once == Spec => []OncePerSpot
  BY Invariance, PTL DEF TableInv

\* Until the first clear Delve stops at everything the client lists.
THEOREM ListedStays == Spec => []ListedIsInstalled
  BY Invariance, PTL DEF TableInv

\* A call that succeeds makes Delve's group equal to the table, whatever failed before.
THEOREM Heals == Spec => SuccessHeals
<1>1. TableInv /\ [Next]_vars
        => [ \A g \in Groups :
               result' # result /\ result'.ok /\ result'.group = g
                 /\ (tracked'[g] # tracked[g] \/ installed'[g] # installed[g])
               => SpotsOf(g)' = InstalledIn(g)' ]_vars
  BY StepHeals
<1> QED
  BY <1>1, Invariance, PTL DEF Spec, SuccessHeals

\* The id returned for a new breakpoint is the one Delve reports its stops under.
THEOREM CreatedFresh == Spec => CreatedIsCurrent
<1>1. TableInv /\ [Next]_vars
        => [ \A g \in Groups :
               result' # result /\ result'.ok /\ result'.group = g /\ result'.call = "create"
               => \A p \in SpotsOf(g)' \ SpotsOf(g) :
                    [spot |-> p, id |-> result'.id] \in installed'[g] ]_vars
  BY StepCreates
<1> QED
  BY <1>1, Invariance, PTL DEF Spec, CreatedIsCurrent

\* A successful clear removes the breakpoint it names and leaves every other in place.
THEOREM ClearsOne == Spec => ClearRemovesOne
<1>1. TableInv /\ [Next]_vars
        => [ \A g \in Groups :
               result' # result /\ result'.ok /\ result'.group = g /\ result'.call = "clear"
               => LET gone == {tracked[g][i].loc.spot : i \in WithId(g, result'.id)} IN
                  /\ gone \cap InstalledIn(g)' = {}
                  /\ SpotsOf(g)' = SpotsOf(g) \ gone
                  /\ \A h \in Groups \ {g} : tracked'[h] = tracked[h] ]_vars
  BY StepClears
<1> QED
  BY <1>1, Invariance, PTL DEF Spec, ClearRemovesOne
=================================================================================
