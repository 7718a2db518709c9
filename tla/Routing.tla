------------------------------ MODULE Routing ------------------------------
(***************************************************************************)
(* Receivers: how an application builds them (notify/receiver.go), what    *)
(* NewManager and Send keep of them (notify/send.go, manager.go) and to    *)
(* whom a notification goes.  Target slices are Go slices: they share      *)
(* arrays, and append writes in place while there is capacity.             *)
(***************************************************************************)
EXTENDS Integers, FiniteSets, SequencesExt

CONSTANTS
    Ids,            \* receiver IDs, ordered; 0 is the empty one
    Targets,        \* targets
    Nil,            \* the nil target, and an array slot nobody has written
    Base,           \* the array of a target slice the application has at hand
    MaxReceivers,   \* bound: receivers the application builds
    MaxTargets,     \* bound: targets of one receiver
    MaxIDs          \* bound: IDs a notification names

ASSUME IdsAssumption == Ids \subseteq Nat /\ Nil \notin Targets
ASSUME BaseAssumption == Base \in Seq(Targets \union {Nil})
ASSUME BoundsAssumption == MaxIDs \in Nat

VARIABLES
    arrays,     \* the arrays behind slices, capacity included
    built,      \* the application's receivers
    config,     \* the receivers of the manager, by map key
    snapshot,   \* what Manager.Receivers last returned, by map key
    phase,      \* "building", "ready" or "rejected"
    asked,      \* the ReceiverIDs of the last notification
    resolved    \* the keys of the receivers it was resolved to

vars == <<arrays, built, config, snapshot, phase, asked, resolved>>

NoReceivers == << >>
Slice(a, n) == [array |-> a, len |-> n]
NilSlice    == Slice(0, 0)
Read(heap, s) == IF s.len = 0 THEN << >> ELSE SubSeq(heap[s.array], 1, s.len)

\* The targets of each receiver of a map.
TargetsOf(heap, receivers) == [k \in DOMAIN receivers |-> Read(heap, receivers[k].targets)]

-----------------------------------------------------------------------------
(* Building *)

Init ==
    /\ arrays = <<Base>> /\ built = << >>
    /\ config = NoReceivers /\ snapshot = NoReceivers /\ phase = "building"
    /\ asked = << >> /\ resolved = << >>

\* The slice in use of the base array: what is written of it.
BaseLen == Cardinality({i \in DOMAIN Base : Base[i] # Nil})

\* NewReceiver(id), NewReceiver(id, base...): the slice itself is kept.
NewReceiver ==
    /\ phase = "building" /\ Len(built) < MaxReceivers
    /\ \E id \in Ids, s \in {NilSlice, Slice(1, BaseLen)} :
         built' = Append(built, [id |-> id, targets |-> s])
    /\ UNCHANGED <<arrays, config, snapshot, phase, asked, resolved>>

Room(s) == s.len > 0 /\ s.len < Len(arrays[s.array])

\* append: in place, or to a copy with or without room for one more.
WithTargets ==
    /\ phase = "building"
    /\ \E r \in DOMAIN built, t \in Targets \union {Nil}, spare \in {<< >>, <<Nil>>} :
         LET s == built[r].targets IN
         /\ s.len < MaxTargets
         /\ arrays' = IF Room(s) THEN [arrays EXCEPT ![s.array][s.len + 1] = t]
                      ELSE Append(arrays, Read(arrays, s) \o <<t>> \o spare)
         /\ built' = [built EXCEPT ![r].targets =
                         Slice(IF Room(s) THEN s.array ELSE Len(arrays) + 1, s.len + 1)]
    /\ UNCHANGED <<config, snapshot, phase, asked, resolved>>

\* The application writes an element of a slice, its own or a snapshot's.
Write(s) ==
    /\ s.len > 0
    /\ arrays' = [arrays EXCEPT ![s.array][s.len] = Nil]
    /\ UNCHANGED <<built, config, snapshot, phase, asked, resolved>>

ApplicationWrites == phase = "ready" /\ \E r \in DOMAIN built : Write(built[r].targets)
SnapshotWritten   == \E k \in DOMAIN snapshot : Write(snapshot[k].targets)

-----------------------------------------------------------------------------
(* Normalizing *)

\* NewReceivers: by ID, the last one wins.
NewReceivers(rs) ==
    [id \in {rs[r].id : r \in DOMAIN rs} |->
        rs[CHOOSE r \in DOMAIN rs : rs[r].id = id /\ \A q \in DOMAIN rs : rs[q].id = id => q <= r]]

\* Mutant: the structs are copied, their slices are not.
normalizeReceiversShallow(heap, rs) ==
    [arrays |-> heap, receivers |-> [k \in DOMAIN rs |-> [rs[k] EXCEPT !.id = IF @ = 0 THEN k ELSE @]]]

\* Each receiver gets an array of its own; which one is no matter, like the order in
\* which a map is ranged over.
normalizeReceivers(heap, rs) ==
    LET keys  == SetToSeq(DOMAIN rs)
        clone == [i \in DOMAIN keys |-> Read(heap, rs[keys[i]].targets)] IN
    [arrays    |-> heap \o clone,
     receivers |-> [k \in DOMAIN rs |->
         LET i == CHOOSE j \in DOMAIN keys : keys[j] = k IN
         [id      |-> IF rs[k].id = 0 THEN k ELSE rs[k].id,
          targets |-> Slice(Len(heap) + i, Len(clone[i]))]]]

validateReceivers(heap, rs) ==
    \A k \in DOMAIN rs : rs[k].targets.len > 0 /\ ~Contains(Read(heap, rs[k].targets), Nil)

\* NewManager, or Send up to its dispatch, of NewReceivers(built...) or of a map
\* literal whose keys need not be the IDs.
NewManager ==
    /\ phase = "building"
    /\ \E rs \in {NewReceivers(built)} \union [DOMAIN built -> Range(built)] :
         LET n == normalizeReceivers(arrays, rs) IN
         IF validateReceivers(n.arrays, n.receivers)
         THEN arrays' = n.arrays /\ config' = n.receivers /\ phase' = "ready"
         ELSE phase' = "rejected" /\ UNCHANGED <<arrays, config>>
    /\ UNCHANGED <<built, snapshot, asked, resolved>>

\* Manager.Receivers
Receivers ==
    /\ phase = "ready" /\ snapshot = NoReceivers
    /\ LET n == normalizeReceivers(arrays, config) IN
         arrays' = n.arrays /\ snapshot' = n.receivers
    /\ UNCHANGED <<built, config, phase, asked, resolved>>

-----------------------------------------------------------------------------
(* Routing *)

\* The orders slices.SortFunc may give to the receivers of the map: it is not stable.
Broadcasts(rs) ==
    {keys \in SetToSeqs(DOMAIN rs) :
        \A i, j \in DOMAIN keys : i < j => rs[keys[i]].id <= rs[keys[j]].id}

\* The loop over the IDs.
Named(rs, ids) ==
    FoldLeft(LAMBDA out, id : IF id \in DOMAIN rs /\ ~Contains(out, id) THEN Append(out, id) ELSE out,
             << >>, ids)

\* Mutant: each ID as it comes.
resolveReceiversEach(rs, ids) ==
    IF ids = << >> THEN Broadcasts(rs) ELSE {SelectSeq(ids, LAMBDA id : id \in DOMAIN rs)}

resolveReceivers(rs, ids) == IF ids = << >> THEN Broadcasts(rs) ELSE {Named(rs, ids)}

\* Send, or a worker's process, for a notification that names ids.  Bound: one that
\* goes to somebody is looked at; routing keeps no state for the next.
Route ==
    /\ phase = "ready" /\ resolved = << >>
    /\ asked' \in SeqOf(Ids, MaxIDs)
    /\ resolved' \in resolveReceivers(config, asked')
    /\ UNCHANGED <<arrays, built, config, snapshot, phase>>

Rejected == phase = "rejected" /\ UNCHANGED vars

Next ==
    \/ NewReceiver \/ WithTargets \/ ApplicationWrites \/ SnapshotWritten
    \/ NewManager \/ Receivers \/ Route \/ Rejected

Spec == Init /\ [][Next]_vars

-----------------------------------------------------------------------------
(***************************************************************************)
(* Properties                                                              *)
(***************************************************************************)
\* send.go:51-66, manager.go:182-199, receivers.md:117-119.  Whatever is done later
\* to the receivers NewManager was given, or to a snapshot, the manager keeps
\* delivering to the targets it was created with.
ConfigFrozen ==
    [][config # NoReceivers => TargetsOf(arrays', config') = TargetsOf(arrays, config)]_vars

\* send.go:68-81.  A manager never has a receiver without targets, or a nil target.
OnlyUsableReceivers ==
    \A k \in DOMAIN config :
        LET ts == TargetsOf(arrays, config)[k] IN ts # << >> /\ ~Contains(ts, Nil)

\* send.go:102-116, receivers.md:47-54.  A notification that names receivers goes
\* to exactly the known ones among them, to each once, in the order in which they
\* are first named - and to nobody else if none is known.
FirstNamed(id) == CHOOSE i \in DOMAIN asked : asked[i] = id /\ \A j \in 1..(i - 1) : asked[j] # id
NamedOnceInOrder ==
    asked # << >> =>
        /\ Range(resolved) = Range(asked) \intersect DOMAIN config
        /\ \A i, j \in DOMAIN resolved : i < j => FirstNamed(resolved[i]) < FirstNamed(resolved[j])

\* receivers.md:47-54.  One that names none goes to every receiver once, "processed
\* in ID order", also where an explicit ID differs from the map key.
BroadcastInIDOrder ==
    asked = << >> /\ resolved # << >> =>
        /\ Range(resolved) = DOMAIN config /\ IsInjective(resolved)
        /\ \A i, j \in DOMAIN resolved : i < j => config[resolved[i]].id <= config[resolved[j]].id

\* To whom a notification goes: usable receivers, each once, in the documented order.
RoutedAsDocumented == OnlyUsableReceivers /\ NamedOnceInOrder /\ BroadcastInIDOrder
=============================================================================
